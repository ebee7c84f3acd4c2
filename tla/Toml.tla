-------------------------------- MODULE Toml --------------------------------
(***************************************************************************)
(* toml_parse of tomlc99, as config_parse uses it.  The document is a      *)
(* stream of tokens that is chosen while it is read.  The parser's C stack *)
(* is a stack of frames, one for the loop over the lines and one for each  *)
(* parse_keyval, parse_array and parse_table in progress; a call leaves in *)
(* its caller the position where the caller goes on.                       *)
(***************************************************************************)
EXTENDS Naturals, Sequences, FiniteSets
LOCAL INSTANCE SequencesExt

CONSTANTS
    Texts,       \* what a STRING token may hold
    KeyOf,       \* normalize_key of each text: without quotes and escapes
    TypeOf,      \* valtype of each text
    MaxTokens,   \* bound on the tokens of a document that are counted
    MaxPath,     \* size of tpath: 10 in the code
    EofInArray,  \* whether a document may end inside an array
    NULL

VARIABLES
    tok,      \* ctx->tok
    left,     \* counted tokens the document may still have
    stack,    \* frames: position, the table or array it fills in, the key it has read
    llb,      \* the header began with two brackets
    tpath,    \* keys of the header that are still to be walked
    curtab,   \* ctx->curtab
    tables,   \* all tables made; a table is known by its position here
    arrays,   \* all arrays made
    outcome,  \* "parsing", then "table" or "error"
    header,   \* history: the last header, root at first
    defined   \* history: tables in the order they were defined, by [x] or x = {

heapVars == <<tables, arrays>>
vars == <<tok, left, stack, llb, tpath, curtab, tables, arrays, outcome, header, defined>>

Root == 1
EmptyTable(implicit) == [implicit |-> implicit, kval |-> <<>>, arr |-> <<>>, tab |-> <<>>]
EmptyArray == [kind |-> NULL, type |-> NULL, elems |-> <<>>]

Punct(t) == [tok |-> t, text |-> NULL, eof |-> FALSE]
String(text) == [tok |-> "STRING", text |-> text, eof |-> FALSE]

\* The key a token spells, and the type of the value it stands for
normalize_key(text) == KeyOf[text]
valtype(text) == TypeOf[text]

Frame(pc, node, key) == [pc |-> pc, node |-> node, key |-> key]

Init ==
    /\ tok = Punct("NEWLINE")
    /\ left = MaxTokens
    /\ stack = <<Frame("line", Root, NULL)>>
    /\ llb = FALSE
    /\ tpath = <<>>
    /\ curtab = Root
    /\ tables = <<EmptyTable(FALSE)>>
    /\ arrays = <<>>
    /\ outcome = "parsing"
    /\ header = <<>>
    /\ defined = <<Root>>

-----------------------------------------------------------------------------
(* The scanner *)

\* The end of the input is a NEWLINE with eof set.
ret_eof == [tok |-> "NEWLINE", text |-> NULL, eof |-> TRUE]

\* What each position of the parser accepts.
Expected ==
    [line |-> {"NEWLINE", "STRING", "LBRACKET"}, endline |-> {"NEWLINE"},
     bracket |-> {"LBRACKET"}, path |-> {"STRING"}, dot |-> {"DOT", "RBRACKET"},
     walk |-> {"RBRACKET"}, bracket_end |-> {"RBRACKET"}, header_end |-> {"NEWLINE"},
     equal |-> {"EQUAL"}, value |-> {"STRING", "LBRACKET", "LBRACE"},
     entry |-> {"STRING", "RBRACE"}, entry_end |-> {"COMMA", "RBRACE"},
     element |-> {"NEWLINE", "STRING", "LBRACKET", "LBRACE", "RBRACKET"},
     element_end |-> {"NEWLINE", "COMMA", "RBRACKET"}]

\* A string is quoted in one of four ways or bare.
scan_string == {String(text) : text \in Texts}

\* The tokens at a position: those it accepts, and one that stands for all the
\* others, for strings that are ill-formed and for texts that cannot be a key.
Tokens(pc) ==
    {Punct(t) : t \in (Expected[pc] \ {"STRING"}) \union {"UNEXPECTED"}}
    \union (IF "STRING" \in Expected[pc] THEN scan_string ELSE {})

\* Where the innermost thing that is open is an array, the document goes on,
\* unless documents that end there are asked for.
MayEnd(pc) == EofInArray \/ pc \notin {"element", "element_end"}

\* Tokens that begin something, and line breaks that end nothing, are counted.
Cost(t, pc) ==
    IF \/ t.tok \in {"STRING", "LBRACKET", "LBRACE"} /\ pc # "bracket"
       \/ t.tok = "NEWLINE" /\ pc \notin {"endline", "header_end"}
    THEN 1 ELSE 0

\* The next token for the position the parser goes to.  Once the end is
\* reached, it comes again and again.
next_token ==
    LET pc == Last(stack').pc
    IN  \/ (tok.eof \/ MayEnd(pc)) /\ tok' = ret_eof /\ UNCHANGED left
        \/ /\ ~tok.eof
           /\ tok' \in {t \in Tokens(pc) : Cost(t, pc) <= left}
           /\ left' = left - Cost(tok', pc)

-----------------------------------------------------------------------------
(* Looking things up in a table; toml_key_in is in Startup *)

Entry(entries, key) ==
    LET hits == {k \in DOMAIN entries : entries[k].key = key}
    IN  IF hits = {} THEN NULL ELSE entries[CHOOSE k \in hits : \A j \in hits : k <= j].node

toml_array_in(t, key) == Entry(tables[t].arr, key)
toml_table_in(t, key) == Entry(tables[t].tab, key)
HasValue(t, key) == \E k \in DOMAIN tables[t].kval : tables[t].kval[k].key = key

check_key(t, key) ==
    IF HasValue(t, key) THEN "v"
    ELSE IF toml_array_in(t, key) # NULL THEN "a"
    ELSE IF toml_table_in(t, key) # NULL THEN "t" ELSE NULL

-----------------------------------------------------------------------------
(* Steps of the parser *)

Top == stack[Len(stack)]
At(pc) == outcome = "parsing" /\ Top.pc = pc
Goto(pc) == stack' = [stack EXCEPT ![Len(stack)].pc = pc]
Call(pc, frame) == stack' = Append([stack EXCEPT ![Len(stack)].pc = pc], frame)
Become(frame) == stack' = [stack EXCEPT ![Len(stack)] = frame]
Return == stack' = Front(stack)

\* longjmp: toml_parse frees the tree and returns 0.
Fail ==
    /\ outcome' = "error"
    /\ tok' = ret_eof /\ left' = 0 /\ stack' = <<>> /\ tpath' = <<>> /\ llb' = FALSE
    /\ UNCHANGED <<curtab, heapVars, header, defined>>

SameHeader == UNCHANGED <<llb, tpath, curtab, header>>
SameTree == UNCHANGED <<heapVars, defined>>

\* Mutant: line breaks in a table are skipped, as they are in an array.
SyntaxError_Skips ==
    /\ outcome = "parsing"
    /\ tok.tok \notin Expected[Top.pc]
    /\ IF Top.pc = "entry" /\ tok.tok = "NEWLINE"
       THEN UNCHANGED <<stack, outcome>> /\ SameHeader /\ SameTree /\ next_token
       ELSE Fail

\* e_syntax_error and its like
SyntaxError ==
    /\ outcome = "parsing"
    /\ tok.tok \notin Expected[Top.pc]
    /\ Fail

\* toml_parse: the loop over the lines
Line ==
    /\ At("line")
    /\ \/ /\ tok.tok = "NEWLINE" /\ tok.eof
          /\ outcome' = "table"
          /\ UNCHANGED <<tok, left, stack, heapVars, defined>>
       \/ /\ tok.tok = "NEWLINE" /\ ~tok.eof
          /\ UNCHANGED <<stack, outcome, heapVars, defined>>
          /\ next_token
       \/ /\ tok.tok = "STRING"
          /\ Call("endline", Frame("equal", curtab, tok.text))
          /\ UNCHANGED <<outcome, heapVars, defined>>
          /\ next_token
    /\ SameHeader

EndLine ==
    /\ At("endline") /\ tok.tok = "NEWLINE"
    /\ Goto("line")
    /\ UNCHANGED outcome /\ SameHeader /\ SameTree
    /\ next_token

\* parse_keyval, behind the key
Equal ==
    /\ At("equal") /\ tok.tok = "EQUAL"
    /\ Goto("value")
    /\ UNCHANGED outcome /\ SameHeader /\ SameTree
    /\ next_token

-----------------------------------------------------------------------------
(* Making entries.  `node` is NULL where the code reports an error. *)

AddTable(t, key, implicit) ==
    Append([tables EXCEPT ![t].tab = Append(@, [key |-> key, node |-> Len(tables) + 1])],
           EmptyTable(implicit))

\* Mutant: a table that was implicit stays so.
create_keytable_in_table_StaysImplicit(t, key) ==
    IF check_key(t, key) = NULL
    THEN [node |-> Len(tables) + 1, tables |-> AddTable(t, key, FALSE)]
    ELSE IF check_key(t, key) = "t" /\ tables[toml_table_in(t, key)].implicit
    THEN [node |-> toml_table_in(t, key), tables |-> tables]
    ELSE [node |-> NULL, tables |-> tables]

\* A table that a longer header made implicitly becomes explicit, once.
create_keytable_in_table(t, key) ==
    IF check_key(t, key) = NULL
    THEN [node |-> Len(tables) + 1, tables |-> AddTable(t, key, FALSE)]
    ELSE IF check_key(t, key) = "t" /\ tables[toml_table_in(t, key)].implicit
    THEN LET it == toml_table_in(t, key)
         IN  [node |-> it, tables |-> [tables EXCEPT ![it].implicit = FALSE]]
    ELSE [node |-> NULL, tables |-> tables]

create_keyarray_in_table(t, key, skip_if_exist) ==
    IF check_key(t, key) = NULL
    THEN [node |-> Len(arrays) + 1,
          tables |-> [tables EXCEPT ![t].arr = Append(@, [key |-> key, node |-> Len(arrays) + 1])],
          arrays |-> Append(arrays, EmptyArray)]
    ELSE [node |-> IF skip_if_exist THEN toml_array_in(t, key) ELSE NULL,
          tables |-> tables, arrays |-> arrays]

\* key = "value": create_keyval_in_table
KeyValue ==
    /\ At("value") /\ tok.tok = "STRING"
    /\ LET t == Top.node
           key == normalize_key(Top.key)
       IN  IF check_key(t, key) # NULL THEN Fail
           ELSE /\ tables' = [tables EXCEPT ![t].kval = Append(@, [key |-> key, val |-> tok.text])]
                /\ Return
                /\ UNCHANGED <<outcome, arrays, defined>> /\ SameHeader
                /\ next_token

\* key = [ array ]
KeyArray ==
    /\ At("value") /\ tok.tok = "LBRACKET"
    /\ LET made == create_keyarray_in_table(Top.node, normalize_key(Top.key), FALSE)
       IN  IF made.node = NULL THEN Fail
           ELSE /\ tables' = made.tables /\ arrays' = made.arrays
                /\ Become(Frame("element", made.node, NULL))
                /\ UNCHANGED <<outcome, defined>> /\ SameHeader
                /\ next_token

\* key = { table }
KeyTable ==
    /\ At("value") /\ tok.tok = "LBRACE"
    /\ LET made == create_keytable_in_table(Top.node, normalize_key(Top.key))
       IN  IF made.node = NULL THEN Fail
           ELSE /\ tables' = made.tables
                /\ defined' = Append(defined, made.node)
                /\ Become(Frame("entry", made.node, NULL))
                /\ UNCHANGED <<outcome, arrays>> /\ SameHeader
                /\ next_token

-----------------------------------------------------------------------------
(* parse_table: { key = value, ... } *)

\* A comma may be followed by the closing brace.
EntryStep ==
    /\ \/ /\ At("entry") /\ tok.tok = "STRING"
          /\ Call("entry_end", Frame("equal", Top.node, tok.text))
       \/ /\ At("entry_end") /\ tok.tok = "COMMA" /\ Goto("entry")
       \/ /\ (At("entry") \/ At("entry_end")) /\ tok.tok = "RBRACE" /\ Return
    /\ UNCHANGED outcome /\ SameHeader /\ SameTree
    /\ next_token

-----------------------------------------------------------------------------
(* parse_array: [ element, ... ].  All elements are of one kind, values of   *)
(* one type.                                                                 *)

Fits(kind) == arrays[Top.node].kind \in {NULL, kind}

WithElement(kind, element) ==
    [arrays EXCEPT ![Top.node].kind = kind, ![Top.node].elems = Append(@, element)]

ValueElement ==
    /\ At("element") /\ tok.tok = "STRING"
    /\ IF ~Fits("v") \/ arrays[Top.node].type \notin {NULL, valtype(tok.text)} THEN Fail
       ELSE /\ arrays' = [WithElement("v", tok.text) EXCEPT ![Top.node].type = valtype(tok.text)]
            /\ Goto("element_end")
            /\ UNCHANGED <<outcome, tables, defined>> /\ SameHeader
            /\ next_token

\* Mutant: the kind is not set for an array of arrays.
ArrayElement_NoKind ==
    /\ At("element") /\ tok.tok = "LBRACKET"
    /\ IF ~Fits("a") THEN Fail
       ELSE /\ arrays' = Append(WithElement(NULL, Len(arrays) + 1), EmptyArray)
            /\ Call("element_end", Frame("element", Len(arrays) + 1, NULL))
            /\ UNCHANGED <<outcome, tables, defined>> /\ SameHeader
            /\ next_token

\* create_array_in_array
ArrayElement ==
    /\ At("element") /\ tok.tok = "LBRACKET"
    /\ IF ~Fits("a") THEN Fail
       ELSE /\ arrays' = Append(WithElement("a", Len(arrays) + 1), EmptyArray)
            /\ Call("element_end", Frame("element", Len(arrays) + 1, NULL))
            /\ UNCHANGED <<outcome, tables, defined>> /\ SameHeader
            /\ next_token

\* create_table_in_array
TableElement ==
    /\ At("element") /\ tok.tok = "LBRACE"
    /\ IF ~Fits("t") THEN Fail
       ELSE /\ arrays' = WithElement("t", Len(tables) + 1)
            /\ tables' = Append(tables, EmptyTable(FALSE))
            /\ defined' = Append(defined, Len(tables) + 1)
            /\ Call("element_end", Frame("entry", Len(tables) + 1, NULL))
            /\ UNCHANGED outcome /\ SameHeader
            /\ next_token

\* SKIP_NEWLINES goes on at the end of the input, where every token is a NEWLINE.
ElementStep ==
    /\ \/ /\ (At("element") \/ At("element_end")) /\ tok.tok = "NEWLINE" /\ UNCHANGED stack
       \/ /\ At("element_end") /\ tok.tok = "COMMA" /\ Goto("element")
       \/ /\ (At("element") \/ At("element_end")) /\ tok.tok = "RBRACKET" /\ Return
    /\ UNCHANGED outcome /\ SameHeader /\ SameTree
    /\ next_token

-----------------------------------------------------------------------------
(* parse_select: [x.y.z] and [[x.y.z]] *)

\* Two brackets count as one mark only if nothing is between them.
Select ==
    /\ At("line") /\ tok.tok = "LBRACKET"
    /\ llb' \in BOOLEAN
    /\ Goto(IF llb' THEN "bracket" ELSE "path")
    /\ tpath' = <<>>
    /\ UNCHANGED <<outcome, curtab, header>> /\ SameTree
    /\ next_token
    /\ llb' => tok'.tok = "LBRACKET"

SecondBracket ==
    /\ At("bracket") /\ tok.tok = "LBRACKET"
    /\ Goto("path")
    /\ UNCHANGED outcome /\ SameHeader /\ SameTree
    /\ next_token

\* fill_tabpath
PathKey ==
    /\ At("path") /\ tok.tok = "STRING"
    /\ IF Len(tpath) >= MaxPath THEN Fail
       ELSE /\ tpath' = Append(tpath, normalize_key(tok.text))
            /\ Goto("dot")
            /\ UNCHANGED <<outcome, llb, curtab, header>> /\ SameTree
            /\ next_token

PathDot ==
    /\ At("dot") /\ tok.tok = "DOT"
    /\ Goto("path")
    /\ UNCHANGED outcome /\ SameHeader /\ SameTree
    /\ next_token

PathEnd ==
    /\ At("dot") /\ tok.tok = "RBRACKET"
    /\ Become(Frame("walk", Root, NULL))
    /\ header' = tpath
    /\ UNCHANGED <<tok, left, outcome, llb, tpath, curtab>> /\ SameTree

LastTable(a) == Last(arrays[a].elems)

\* Mutant: the first table of an array is taken.
NextTable_First(t, key) ==
    CASE check_key(t, key) = "t" -> toml_table_in(t, key)
      [] check_key(t, key) = "a" /\ arrays[toml_array_in(t, key)].kind = "t"
            -> Head(arrays[toml_array_in(t, key)].elems)
      [] OTHER -> NULL

\* The table that walk_tabpath goes to; of an array of tables, its last one.
NextTable(t, key) ==
    CASE check_key(t, key) = "t" -> toml_table_in(t, key)
      [] check_key(t, key) = "a" /\ arrays[toml_array_in(t, key)].kind = "t"
            -> LastTable(toml_array_in(t, key))
      [] OTHER -> NULL

\* walk_tabpath: one key, the last one excepted; a missing table is made.
Walk ==
    /\ At("walk") /\ Len(tpath) > 1
    /\ LET t == Top.node
           key == Head(tpath)
           new == check_key(t, key) = NULL
           next == IF new THEN Len(tables) + 1 ELSE NextTable(t, key)
       IN  IF next = NULL THEN Fail
           ELSE /\ tables' = IF new THEN AddTable(t, key, TRUE) ELSE tables
                /\ Become(Frame("walk", next, NULL))
                /\ tpath' = Tail(tpath)
                /\ UNCHANGED <<tok, left, outcome, llb, curtab, arrays, header, defined>>

\* [x.y.z]
SelectTable ==
    /\ At("walk") /\ Len(tpath) = 1 /\ ~llb
    /\ LET made == create_keytable_in_table(Top.node, tpath[1])
       IN  IF made.node = NULL THEN Fail
           ELSE /\ tables' = made.tables
                /\ curtab' = made.node
                /\ defined' = Append(defined, made.node)
                /\ tpath' = <<>>
                /\ UNCHANGED <<outcome, llb, arrays, header>>
                /\ Goto("header_end")
                /\ next_token

\* [[x.y.z]]: one more table in the array z; a second bracket must follow at once.
SelectArray ==
    /\ At("walk") /\ Len(tpath) = 1 /\ llb
    /\ LET made == create_keyarray_in_table(Top.node, tpath[1], TRUE)
           a == made.node
       IN  IF a = NULL THEN Fail
           ELSE IF made.arrays[a].kind \notin {NULL, "t"} THEN Fail
           ELSE /\ tables' = Append(made.tables, EmptyTable(FALSE))
                /\ arrays' = [made.arrays EXCEPT ![a].kind = "t",
                                 ![a].elems = Append(@, Len(tables) + 1)]
                /\ curtab' = Len(tables) + 1
                /\ defined' = Append(defined, curtab')
                /\ tpath' = <<>>
                /\ Goto("bracket_end")
                /\ UNCHANGED <<outcome, llb, header>>
                /\ next_token

HeaderEnd ==
    \/ /\ At("bracket_end") /\ tok.tok = "RBRACKET"
       /\ Goto("header_end")
       /\ UNCHANGED outcome /\ SameHeader /\ SameTree
       /\ next_token
    \/ /\ At("header_end") /\ tok.tok = "NEWLINE"
       /\ Goto("line")
       /\ UNCHANGED <<tok, left, outcome>> /\ SameHeader /\ SameTree

Ended == outcome # "parsing" /\ UNCHANGED vars

Step ==
    \/ SyntaxError \/ Line \/ EndLine \/ Equal \/ KeyValue \/ KeyArray \/ KeyTable
    \/ EntryStep \/ ValueElement \/ ArrayElement \/ TableElement \/ ElementStep
    \/ Select \/ SecondBracket \/ PathKey \/ PathDot \/ PathEnd \/ Walk
    \/ SelectTable \/ SelectArray \/ HeaderEnd

Next == Step \/ Ended

Spec == Init /\ [][Next]_vars

\* The parser runs on its own: it takes its next step.
Fairness == WF_vars(Step)
FairSpec == Spec /\ Fairness

-----------------------------------------------------------------------------
(* toml_free.  What it frees, in order. *)

RECURSIVE xfree_tab(_), xfree_arr(_)

xfree_arr(a) ==
    <<<<"array", a>>>> \o
    CASE arrays[a].kind = "a" -> FlattenSeq([k \in DOMAIN arrays[a].elems |-> xfree_arr(arrays[a].elems[k])])
      [] arrays[a].kind = "t" -> FlattenSeq([k \in DOMAIN arrays[a].elems |-> xfree_tab(arrays[a].elems[k])])
      [] OTHER -> <<>>

xfree_tab(t) ==
    <<<<"table", t>>>>
    \o FlattenSeq([k \in DOMAIN tables[t].arr |-> xfree_arr(tables[t].arr[k].node)])
    \o FlattenSeq([k \in DOMAIN tables[t].tab |-> xfree_tab(tables[t].tab[k].node)])

-----------------------------------------------------------------------------
(* Properties *)

\* Whenever the parser gives up, or the caller frees the result, toml_free
\* reaches every table and every array that was made, and each of them once.
FreedOnce ==
    LET freed == xfree_tab(Root)
    IN  /\ Len(freed) = Len(tables) + Len(arrays)
        /\ ToSet(freed) = ({"table"} \X DOMAIN tables) \union ({"array"} \X DOMAIN arrays)

\* The lines behind a header fill in the table the header names, whatever
\* was implicit before and however the arrays of tables on the way have grown.
HeaderSelects ==
    LET Named(t, key) ==
            IF t = NULL THEN NULL
            ELSE IF toml_array_in(t, key) # NULL THEN LastTable(toml_array_in(t, key))
            ELSE toml_table_in(t, key)
    IN  (outcome = "parsing" /\ Top.pc = "line") => curtab = FoldLeft(Named, Root, header)

\* In every table a key is used once, be it for a value, an array or a table:
\* nothing that config_parse could ask for hides behind something else.  And a
\* table is defined once, by one header or one pair of braces, though headers
\* that only pass through it may have made it before.
DefinedOnce ==
    /\ \A t \in DOMAIN tables :
          LET entries == tables[t].kval \o tables[t].arr \o tables[t].tab
          IN  \A j, k \in DOMAIN entries : entries[j].key = entries[k].key => j = k
    /\ \A j, k \in DOMAIN defined : defined[j] = defined[k] => j = k

\* toml_parse returns, "a table on success, or 0 otherwise" (toml.h, line 50),
\* provided that no document ends inside an array.
ParseEnds == <>(outcome # "parsing")

=============================================================================
