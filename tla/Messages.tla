------------------------------ MODULE Messages ------------------------------
(***************************************************************************)
(* What the server writes and takes apart as text: strings under any       *)
(* sequence of calls (string.c), a page whose templates are resolved       *)
(* (www.c), a response that is put together (http.c), and the target of a  *)
(* request, parsed and printed again (http.c, url.c).  One of these jobs   *)
(* is done in a behaviour.  A character stands for a byte, "\n" for CRLF.  *)
(***************************************************************************)
EXTENDS Strings, FiniteSets
LOCAL INSTANCE FiniteSetsExt
LOCAL INSTANCE SequencesExt

CONSTANTS
    Texts,      \* what is appended to a string
    Sources,    \* pages: sequences of segments, see Rendered
    Templates,  \* from the keys of the templates to their values, segments too
    KeyBuffer,  \* the space allocated for a key: 100
    Bodies,     \* bodies of responses
    Headers,    \* keys and values of headers
    Targets,    \* request targets
    Roughly,    \* the estimate of a header line: 40
    MaxCalls    \* bound: calls on a string or a response

VARIABLES
    job,
    calls,     \* calls still to come
    string,    \* the string, the source of the page, the response, the target
    expected,  \* history: what it should hold, what it was parsed to before
    cleared,   \* history: string_clear was called
    entries,   \* headers or parameters: pairs of key and value, in order
    body,      \* the body of the response, the path of the URL
    loop       \* locals of the loop that runs: NULL when it is over

vars == <<job, calls, string, expected, cleared, entries, body, loop>>

\* A table as the callers of hash_table_setValue see it
SetEntry(table, key, value) ==
    LET at == {k \in DOMAIN table : table[k][1] = key}
    IN  IF at = {} THEN Append(table, <<key, value>>)
        ELSE [table EXCEPT ![Min(at)] = <<key, value>>]

-----------------------------------------------------------------------------
(* Strings *)

StringInit ==
    /\ job = "string" /\ calls = MaxCalls
    /\ string = string_create /\ expected = <<>> /\ cleared = FALSE
    /\ entries = <<>> /\ body = NULL /\ loop = NULL

Called ==
    job = "string" /\ calls > 0 /\ calls' = calls - 1 /\ UNCHANGED <<job, entries, body, loop>>

AppendText ==
    /\ Called
    /\ \E text \in Texts :
          string' = string_appendBuffer(string, text) /\ expected' = expected \o text
    /\ UNCHANGED cleared

\* A buffer that has the size asked for already is left as it is.
SetBufferSize ==
    /\ Called
    /\ \E n \in 0..4 :
          /\ string' = string_setBufferSize(string, n)
          /\ expected' = SubSeq(expected, 1, Min({n, Len(expected)}))
    /\ UNCHANGED cleared

TrimEnd ==
    /\ Called
    /\ string' = string_trimEnd(string)
    /\ expected' = SubSeq(expected, 1,
                          Max({0} \union {k \in DOMAIN expected : expected[k] \notin Whitespace}))
    /\ UNCHANGED cleared

SetCharAt ==
    /\ Called
    /\ string' = string_setCharAt(string, 1, "c")
    /\ expected' = IF Len(expected) > 1 THEN [expected EXCEPT ![2] = "c"] ELSE expected
    /\ UNCHANGED cleared

Clear ==
    /\ Called
    /\ string' = string_clear(string) /\ expected' = <<>> /\ cleared' = TRUE

\* A part of the string takes its place.
Substring ==
    /\ Called
    /\ \E first \in 0..1, last \in 0..3 :
          LET part == string_substring(string, first, last)
          IN  /\ first <= last /\ part # NULL
              /\ string' = part
              /\ expected' = SubSeq(expected, first + 1, last)
              /\ cleared' = FALSE

-----------------------------------------------------------------------------
(* Pages *)

Letters == {"a", "b"}

\* A segment is <<"text", characters>> or <<"template", key>>.
RenderedSegment(segment) ==
    IF segment[1] = "text" THEN segment[2] ELSE <<"{", "{">> \o segment[2] \o <<"}", "}">>
Rendered(segments) == FlattenSeq([k \in DOMAIN segments |-> RenderedSegment(segments[k])])

\* What a page should become: templates in values are resolved too, those
\* without a value vanish.
Expanded(segments) ==
    LET Value(key) == IF key \in DOMAIN Templates THEN Templates[key] ELSE <<>>
        Once(ss) == FlattenSeq([k \in DOMAIN ss |->
                        IF ss[k][1] = "text" THEN <<ss[k]>> ELSE Value(ss[k][2])])
    IN  Rendered(Once(Once(Once(segments))))

\* The locals of page_resolveTemplate when it is called
Resolving(offset) ==
    [at |-> offset, previous |-> NUL, start |-> -1,
     key |-> string_setBufferSize(string_create, KeyBuffer)]

\* page_create404 and the like set the source and the templates and call
\* page_resolveTemplates.
PageInit ==
    /\ job = "page" /\ calls = 0
    /\ \E segments \in Sources :
          /\ string = string_fromBufferWithLength(Rendered(segments))
          /\ expected = Expanded(segments)
    /\ cleared = FALSE /\ entries = <<>> /\ body = NULL /\ loop = Resolving(0)

\* The table is searched for what the hash sees of the key.
ValueOf(key) ==
    IF CString(key) \in DOMAIN Templates THEN Rendered(Templates[CString(key)]) ELSE <<>>

\* The source before the template, the value and the source behind it are
\* appended to a string that has the space for them.
Replaced(source, start, end, value) ==
    string_appendBufferWithLength(
        string_setBufferSize(string_create, source.size - (end - start) - 1 + Len(value)),
        SubSeq(source.buffer, 1, start) \o value \o SubSeq(source.buffer, end + 2, source.size))

\* Mutant: an illegal character does not clear the key.
Read_Keeps(current) ==
    LET at == loop.at + 1
        read == [loop EXCEPT !.at = at, !.previous = current]
    IN  IF loop.previous = "{" /\ current = "{" THEN [read EXCEPT !.start = at - 2]
        ELSE IF loop.start = -1 \/ current = "}" THEN read
        ELSE IF current \in Letters THEN [read EXCEPT !.key = string_appendChar(@, current)]
        ELSE [read EXCEPT !.start = -1]

\* A character that does not end a template
Read(current) ==
    LET at == loop.at + 1
        read == [loop EXCEPT !.at = at, !.previous = current]
    IN  IF loop.previous = "{" /\ current = "{" THEN [read EXCEPT !.start = at - 2]
        ELSE IF loop.start = -1 \/ current = "}" THEN read
        ELSE IF current \in Letters THEN [read EXCEPT !.key = string_appendChar(@, current)]
        ELSE [read EXCEPT !.start = -1, !.key = string_clear(@)]

EndsTemplate(current) == loop.start >= 0 /\ loop.previous = "}" /\ current = "}"

\* The template is replaced; the next call begins where it was.
Resolve ==
    /\ string' = Replaced(string, loop.start, loop.at, ValueOf(loop.key))
    /\ loop' = Resolving(loop.start)

page_resolveTemplate ==
    /\ job = "page" /\ loop # NULL
    /\ IF loop.at >= string.size THEN loop' = NULL /\ UNCHANGED string
       ELSE LET current == string.buffer[loop.at + 1]
            IN  IF EndsTemplate(current) THEN Resolve
                ELSE loop' = Read(current) /\ UNCHANGED string
    /\ UNCHANGED <<job, calls, expected, cleared, entries, body>>

-----------------------------------------------------------------------------
(* Responses *)

ResponseInit ==
    /\ job = "response" /\ calls = MaxCalls
    /\ string = NULL /\ expected = <<>> /\ cleared = FALSE
    /\ entries = <<>> /\ body = NULL /\ loop = NULL

ContentLength == <<"L">>

http_setHeader ==
    /\ job = "response" /\ string = NULL /\ calls > 0
    /\ \E header \in Headers : entries' = SetEntry(entries, header[1], header[2])
    /\ calls' = calls - 1
    /\ UNCHANGED <<job, string, expected, cleared, body, loop>>

http_setBody ==
    /\ job = "response" /\ string = NULL /\ calls > 0
    /\ \E b \in Bodies :
          /\ body' = string_fromBufferWithLength(b)
          /\ entries' = SetEntry(entries, ContentLength, CString(string_fromInt(Len(b))))
    /\ calls' = calls - 1
    /\ UNCHANGED <<job, string, expected, cleared, loop>>

\* http_toResponseString: the status line is one character here.
StatusLine ==
    /\ job = "response" /\ string = NULL
    /\ LET space == Roughly + Roughly * Len(entries) + (IF body = NULL THEN 0 ELSE body.size)
       IN  string' = string_appendBuffer(string_setBufferSize(string_create, space), <<"S", "\n">>)
    /\ loop' = 0
    /\ UNCHANGED <<job, calls, expected, cleared, entries, body>>

HeaderLine ==
    /\ job = "response" /\ loop # NULL /\ loop < Len(entries)
    /\ LET header == entries[loop + 1]
       IN  string' = string_appendBuffer(string, header[1] \o <<":">> \o header[2] \o <<"\n">>)
    /\ loop' = loop + 1
    /\ UNCHANGED <<job, calls, expected, cleared, entries, body>>

ResponseBody ==
    /\ job = "response" /\ loop = Len(entries)
    /\ LET headed == string_appendBuffer(string, <<"\n">>)
       IN  string' = IF body = NULL THEN headed ELSE string_append(headed, body)
    /\ loop' = NULL
    /\ UNCHANGED <<job, calls, expected, cleared, entries, body>>

-----------------------------------------------------------------------------
(* Request targets: parsed, printed, and parsed once more *)

TargetInit ==
    /\ job = "target" /\ calls = 2
    /\ \E target \in Targets : string = string_fromBufferWithLength(target)
    /\ expected = NULL /\ cleared = FALSE /\ entries = <<>> /\ body = NULL /\ loop = NULL

\* http_parseRequestTarget up to its loop.  The character behind the "?" is
\* read, and with it the cursor is one further than the key begins.
ParsePath ==
    /\ job = "target" /\ calls > 0 /\ loop = NULL
    /\ LET question == string_findNextChar(string, 0, "?")
       IN  /\ body' = string_substring(string, 0, IF question = -1 THEN string.size ELSE question)
           /\ loop' = [key |-> question + 1, cursor |-> question + 2,
                       state |-> IF question \in {-1, string.size - 1} THEN "true" ELSE "parse"]
    /\ calls' = calls - 1
    /\ entries' = <<>>
    /\ UNCHANGED <<job, string, expected, cleared>>

\* Mutant: the value begins at the "=".
Value_AtEqual(equal, end) == string_substring(string, equal, end)

\* The value; there is none at the end of the target.
Value(equal, end) == string_substring(string, equal + 1, end)

\* One round of the loop
ParseParameter ==
    /\ job = "target" /\ loop # NULL /\ loop.state = "parse"
    /\ LET equal == string_findNextChar(string, loop.cursor, "=")
           amp == string_findNextChar(string, equal + 1, "&")
           value == Value(equal, IF amp = -1 THEN string.size ELSE amp)
       IN  IF equal = -1 THEN loop' = [loop EXCEPT !.state = "false"] /\ UNCHANGED entries
           ELSE /\ entries' = SetEntry(entries, CString(string_substring(string, loop.key, equal)),
                                       IF value = NULL THEN NULL ELSE CString(value))
                /\ loop' = [key |-> amp + 1, cursor |-> amp + 1,
                            state |-> IF amp = -1 THEN "true" ELSE "parse"]
    /\ UNCHANGED <<job, calls, string, expected, cleared, body>>

Parameter(k) ==
    entries[k][1] \o <<"=">> \o entries[k][2] \o (IF k < Len(entries) THEN <<"&">> ELSE <<>>)

url_toQueryString == FlattenSeq([k \in DOMAIN entries |-> Parameter(k)])

Path == IF body = NULL THEN <<>> ELSE CString(body)

\* Neither protocol nor host nor port are set.
url_toString ==
    string_fromBufferWithLength(
        Path \o (IF entries = <<>> THEN <<>> ELSE <<"?">>) \o url_toQueryString)

\* A target that was refused is not used; a missing value cannot be printed.
PrintTarget ==
    /\ job = "target" /\ calls = 1 /\ loop # NULL /\ loop.state = "true"
    /\ \A k \in DOMAIN entries : entries[k][2] # NULL
    /\ string' = url_toString
    /\ expected' = <<Path, entries>>
    /\ loop' = NULL
    /\ UNCHANGED <<job, calls, cleared, entries, body>>

-----------------------------------------------------------------------------

Init == StringInit \/ PageInit \/ ResponseInit \/ TargetInit

Step ==
    \/ AppendText \/ SetBufferSize \/ TrimEnd \/ SetCharAt \/ Clear \/ Substring
    \/ page_resolveTemplate
    \/ http_setHeader \/ http_setBody \/ StatusLine \/ HeaderLine \/ ResponseBody
    \/ ParsePath \/ ParseParameter \/ PrintTarget

Over == ~ENABLED Step /\ UNCHANGED vars

Next == Step \/ Over

Spec == Init /\ [][Next]_vars

\* The thread that does the job goes on.
Fairness == WF_vars(Step)
FairSpec == Spec /\ Fairness

-----------------------------------------------------------------------------
(* Properties *)

\* After any sequence of calls of string.c a string holds what it should, its
\* buffer is longer than its content, and strlen, strcmp and the hash, which
\* look for the null byte, see the same content.  The last is not so behind
\* string_clear, which overwrites the first byte only.
StringView ==
    job = "string" =>
        /\ string.size < Len(string.buffer) \/ string = string_create
        /\ SubSeq(string.buffer, 1, string.size) = expected
        /\ ~cleared => CString(string) = expected

\* page_resolveTemplates ends, and the page is then the source with every
\* template replaced by its value, those in values included, and with all else
\* left as it was, single braces and beginnings of templates included.  No value
\* may hold its own key, directly or through others: it would be resolved again
\* for ever.
PageExpanded ==
    job = "page" ~>
        job = "page" /\ loop = NULL /\ CString(string) = expected
            /\ SubSeq(string.buffer, 1, string.size) = expected

\* The number that digits stand for
Number(digits) ==
    FoldLeft(LAMBDA n, c : 10 * n + (CHOOSE d \in 0..9 : Digits[d + 1] = c), 0, digits)

\* Whatever headers and bodies are set, and in which order, the response that
\* http_toResponseString makes has one Content-Length, and as many bytes as it
\* says follow the first empty line.  (A body with a null byte is cut there.)
ResponseFramed ==
    job = "response" /\ string # NULL /\ loop = NULL /\ body # NULL =>
        LET blank == Min({k \in 1..(string.size - 1) :
                             string.buffer[k] = "\n" /\ string.buffer[k + 1] = "\n"})
            lengths == {k \in DOMAIN entries : entries[k][1] = ContentLength}
        IN  /\ Cardinality(lengths) = 1
            /\ CString(body) = SubSeq(body.buffer, 1, body.size) =>
                  \A k \in lengths : Number(entries[k][2]) = string.size - (blank + 1)

\* What url_toString and url_toQueryString print is parsed to the same path and
\* parameters, so that a script gets the query that http_parseRequestTarget
\* understood.  (A last parameter without a value has none that can be printed.)
TargetRoundTrip ==
    job = "target" /\ expected # NULL /\ loop # NULL /\ loop.state # "parse" =>
        loop.state = "true" /\ <<Path, entries>> = expected

=============================================================================
