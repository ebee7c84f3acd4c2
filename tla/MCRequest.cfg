\* Handler: three methods, two directory indices, and memory may run out.  Texts:
\* four calls on a string or a response, pages of up to three segments, targets of
\* up to six characters.  Parser: documents of up to seven counted tokens.
SPECIFICATION AllSpec
CONSTANTS
    Methods = {"GET", "HEAD", "POST"}
    IndexFiles = 2
    OutOfMemory = TRUE
    Texts <- MCTexts
    Sources <- MCSources
    Templates <- MCTemplates
    KeyBuffer = 3
    Bodies <- MCBodies
    Headers <- MCHeaders
    Targets <- MCTargets
    Roughly = 4
    MaxCalls = 4
    KeyOf <- MCKeyOf
    TypeOf <- MCTypeOf
    MaxTokens = 7
    MaxPath = 2
    EofInArray = FALSE
    NULL = NULL
INVARIANTS   StringView   FreedOnce HeaderSelects DefinedOnce
  
