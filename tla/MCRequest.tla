------------------------------ MODULE MCRequest ------------------------------
(* Small instances of the request handler, of the texts it takes apart and     *)
(* writes, and of the parser of the configuration, for TLC, each on its own.   *)
EXTENDS RequestHandler, TLC

CONSTANTS Texts, Sources, Templates, KeyBuffer, Bodies, Headers, Targets, Roughly, MaxCalls,
          KeyOf, TypeOf, MaxTokens, MaxPath, EofInArray

VARIABLES
    part,
    job, calls, string, expected, cleared, entries, body, loop,
    tok, left, stack, llb, tpath, curtab, tables, arrays, outcome, header, defined

textVars == <<job, calls, string, expected, cleared, entries, body, loop>>

parserVars ==
    <<tok, left, stack, llb, tpath, curtab, tables, arrays, outcome, header, defined>>

M == INSTANCE Messages
T == INSTANCE Toml WITH Texts <- {"a", "1", "'1'"}

\* In a document: a in quotes, and 1 both bare and in quotes
MCKeyOf == "a" :> "a" @@ "1" :> "1" @@ "'1'" :> "1"
MCTypeOf == "a" :> "s" @@ "1" :> "i" @@ "'1'" :> "s"

MCTexts == {<<>>, <<"a">>, <<"b", " ">>, <<"a", "b", "b">>}

\* Text with single braces, and with what looks like the beginning of a template
Text(characters) == <<"text", characters>>
Template(key) == <<"template", key>>
Segments ==
    {Text(<<"1">>), Text(<<"{">>), Text(<<"}", "1">>), Text(<<"{", "{", "a", "1">>),
     Template(<<"a">>), Template(<<"b", "a">>), Template(<<"b">>)}
MCSources == UNION {[1..n -> Segments] : n \in 0..3}

\* The value of ba refers to a and to b, which has none.
MCTemplates ==
    <<"a">> :> <<Text(<<"2", "{">>)>>
    @@ <<"b", "a">> :> <<Template(<<"a">>), Text(<<"3">>), Template(<<"b">>)>>

MCBodies ==
    {[k \in 1..n |-> "x"] : n \in {0, 1, 9, 10, 11}} \union {<<"\n", "\n">>, <<"x", "NUL", "x">>}
MCHeaders == {<<"A">>, <<"B">>} \X {<<"v">>, <<>>}
MCTargets == UNION {[1..n -> {"/", "a", "?", "=", "&"}] : n \in 0..6}

\* A part that does not run is in one of its initial states, or has come to its
\* end.
HandlerWaits == Init /\ secure = FALSE /\ file = "missing"

ParserEnded ==
    /\ tok = T!ret_eof /\ left = 0 /\ stack = <<>> /\ llb = FALSE /\ tpath = <<>>
    /\ curtab = T!Root /\ tables = <<T!EmptyTable(FALSE)>> /\ arrays = <<>>
    /\ outcome = "table" /\ header = <<>> /\ defined = <<T!Root>>

AllInit ==
    \/ part = "handler" /\ Init /\ M!ResponseInit /\ ParserEnded
    \/ part = "texts" /\ HandlerWaits /\ M!Init /\ ParserEnded
    \/ part = "parser" /\ HandlerWaits /\ M!ResponseInit /\ T!Init

AllNext ==
    \/ part = "handler" /\ Next /\ UNCHANGED <<part, textVars, parserVars>>
    \/ part = "texts" /\ M!Next /\ UNCHANGED <<part, vars, parserVars>>
    \/ part = "parser" /\ T!Next /\ UNCHANGED <<part, vars, textVars>>

\* Each goes on as long as it can.
AllSpec ==
    /\ AllInit /\ [][AllNext]_<<part, vars, textVars, parserVars>>
    /\ WF_<<part, vars, textVars, parserVars>>(AllNext)

StringView == M!StringView
PageExpanded == M!PageExpanded
ResponseFramed == M!ResponseFramed
TargetRoundTrip == M!TargetRoundTrip
FreedOnce == T!FreedOnce
HeaderSelects == T!HeaderSelects
DefinedOnce == T!DefinedOnce
ParseEnds == T!ParseEnds

=============================================================================
