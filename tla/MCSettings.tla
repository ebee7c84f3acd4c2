----------------------------- MODULE MCSettings -----------------------------
(* Small configurations and command lines for TLC. *)
EXTENDS Integers, Sequences

CONSTANT NULL

Str(text) == <<"s", text>>
Num(n) == <<"i", n>>

Plain ==
    [domain |-> Str("d"), rootDirectory |-> Str("good"), port |-> Num(80),
     directoryIndex |-> [type |-> "s", length |-> 2],
     privateKey |-> NULL, certificate |-> NULL, dhparams |-> NULL]

TLS == [Plain EXCEPT !.port = Num(40000), !.privateKey = Str("good"), !.certificate = Str("good")]

\* One of each kind: good, and wrong in each of the ways the code tells apart
MCTables ==
    {Plain,
     [Plain EXCEPT !.domain = Str("e"), !.port = Num(65535), !.directoryIndex.type = "array"],
     [Plain EXCEPT !.domain = Str("e"), !.directoryIndex.type = "i"],
     [Plain EXCEPT !.domain = NULL, !.port = NULL, !.directoryIndex.type = "d"],
     [Plain EXCEPT !.rootDirectory = Str("bad")],
     [Plain EXCEPT !.rootDirectory = NULL, !.directoryIndex = NULL, !.port = Num(65536)],
     [Plain EXCEPT !.port = Num(65537)],
     TLS,
     [TLS EXCEPT !.domain = Str("e"), !.dhparams = Str("good")],
     [TLS EXCEPT !.privateKey = NULL],
     [TLS EXCEPT !.privateKey = Str("bad")],
     [TLS EXCEPT !.certificate = Str("bad")],
     [TLS EXCEPT !.dhparams = Str("bad")]}

Settings ==
    [daemon : {NULL, <<"b", 0>>, <<"b", 1>>, Num(1)}, logfile : {NULL, Str("log")},
     loggingLevel : {Num(3)}, threads : {Num(1), Num(4)}, backlog : {NULL, Num(200)}]

Sequences(n) == UNION {[1..k -> MCTables] : k \in 0..n}

\* The settings vary for documents without servers, the servers for one setting.
MCDocuments ==
    [server : {NULL} \union Settings, others : {0}, servers : {NULL, <<>>}]
    \union [server : {[daemon |-> <<"b", 0>>, logfile |-> NULL, loggingLevel |-> NULL,
                       threads |-> NULL, backlog |-> NULL]},
            others : {0, 1}, servers : Sequences(3)]

Silent == [daemon |-> FALSE, verbose |-> FALSE, logfile |-> NULL, config |-> "c", unexpected |-> FALSE]

MCArguments ==
    {Silent, [Silent EXCEPT !.config = NULL, !.unexpected = TRUE],
     [Silent EXCEPT !.config = NULL, !.daemon = TRUE, !.verbose = TRUE, !.logfile = "l"]}

=============================================================================
