--------------------------- MODULE RequestHandler ---------------------------
(***************************************************************************)
(* worker_handleConnection of worker.c: from the lines of a request to one *)
(* response, with what it allocates and frees on each of its paths.  The   *)
(* file system changes under it: realpath(), stat() and fopen() each see   *)
(* the file as it is at that moment.                                       *)
(***************************************************************************)
EXTENDS Naturals, Sequences

CONSTANTS
    Methods,      \* methods of requests; contains "GET" and "HEAD"
    IndexFiles,   \* entries of directoryIndex
    OutOfMemory,  \* whether http_create may fail
    NULL

ASSUME HandlerAssumption ==
    /\ {"GET", "HEAD"} \subseteq Methods
    /\ OutOfMemory \in BOOLEAN
    /\ IndexFiles \in Nat

\* What is at a path
Kinds == {"regular", "executable", "directory", "missing"}

VARIABLES
    pc,            \* where the handler is
    secure,        \* whether the connection uses TLS
    line,          \* "none", "request line" or "header": lines parsed so far
    method,        \* request->method
    path,          \* url->path, NULL for an empty request target
    configSecure,  \* whether the server's configuration has a certificate
    file,          \* what is at resolvedPath now
    isFile,        \* the handler's local
    isExecutable,  \* the handler's local
    index,         \* directory indices tried
    live,          \* objects allocated and not freed
    misuse,        \* an object was freed that was not live
    responses,     \* codes of the responses written
    starved        \* http_create has failed

heap  == <<live, misuse>>
facts == <<line, method, path, configSecure>>
stats == <<isFile, isExecutable, index>>
reply == <<responses, starved>>
vars  == <<pc, secure, facts, file, stats, heap, reply>>

Init ==
    /\ pc = "create"
    /\ secure \in BOOLEAN
    /\ line = "none" /\ method = NULL /\ path = NULL /\ configSecure = FALSE
    /\ file \in Kinds
    /\ isFile = FALSE /\ isExecutable = FALSE /\ index = 0
    /\ live = {} /\ misuse = FALSE
    /\ responses = <<>> /\ starved = FALSE

Allocate(objects) == live' = live \union objects /\ UNCHANGED misuse

Free(objects) ==
    /\ live' = live \ objects
    /\ misuse' = (misuse \/ ~(objects \subseteq live))

\* worker_return400, 404, 413, 417, 500: a page and a response of their own
\* are created, written, logged and freed.
Respond(code) ==
    \/ responses' = Append(responses, code) /\ UNCHANGED starved
    \/ OutOfMemory /\ starved' = TRUE /\ UNCHANGED responses

\* An early return: the response, then everything allocated so far
Reject(code, objects) ==
    /\ Respond(code)
    /\ Free(objects)
    /\ pc' = "done"

-----------------------------------------------------------------------------
(* The request's header *)

Create ==
    /\ pc = "create"
    /\ \/ Allocate({"request"}) /\ pc' = "header" /\ UNCHANGED starved
       \/ OutOfMemory /\ pc' = "done" /\ starved' = TRUE /\ UNCHANGED heap
    /\ UNCHANGED <<secure, facts, file, stats, responses>>

\* connection_readLine gives a line
ReadLine ==
    /\ pc = "header"
    /\ Allocate({"line"})
    /\ pc' = "parse"
    /\ UNCHANGED <<secure, facts, file, stats, reply>>

\* http_parseRequestLine for the first line, http_parseHeader for the others
ParseLine ==
    /\ pc = "parse"
    /\ line' = IF line = "none" THEN "request line" ELSE "header"
    /\ IF line = "none" THEN method' \in Methods /\ path' \in {"path", NULL}
       ELSE UNCHANGED <<method, path>>
    /\ Free({"line"})
    /\ pc' = "header"
    /\ UNCHANGED <<secure, configSecure, file, stats, reply>>

\* What cannot be parsed is a 400; the method may have been set by then.
ParseFails ==
    /\ pc = "parse"
    /\ IF line = "none" THEN method' \in Methods \union {NULL} ELSE UNCHANGED method
    /\ Reject(400, {"line", "request"})
    /\ UNCHANGED <<secure, line, path, configSecure, file, stats>>

\* The header ends with an empty line, or because no line could be read.
HeaderEnds ==
    /\ pc = "header"
    /\ pc' = "host"
    /\ UNCHANGED <<secure, facts, file, stats, heap, reply>>

\* http_parseHost needs a header; without one, or with a bad port, it is a 400.
\* A colon that no port follows leaves it without a string to convert.
ParseHost ==
    /\ pc = "host"
    /\ \/ line = "header" /\ pc' \in {"config", "crashed"} /\ UNCHANGED <<heap, reply>>
       \/ Reject(400, {"request"})
    /\ UNCHANGED <<secure, facts, file, stats>>

\* config_getServerConfigByDomain, and the transport must be the server's
FindConfig ==
    /\ pc = "config"
    /\ \/ Reject(500, {"request"}) /\ UNCHANGED configSecure
       \/ /\ configSecure' = ~secure
          /\ Reject(400, {"request"})
       \/ /\ configSecure' = secure
          /\ pc' = "upgrade"
          /\ UNCHANGED <<heap, reply>>
    /\ UNCHANGED <<secure, line, method, path, file, stats>>

\* Upgrade-Insecure-Requests of a plain connection is a 301 if the domain has
\* a certificate; otherwise the response created for it is left behind.
Upgrade ==
    /\ pc = "upgrade"
    /\ \/ pc' = "resolve" /\ UNCHANGED <<heap, reply>>
       \/ /\ ~configSecure /\ OutOfMemory
          /\ starved' = TRUE /\ Free({"request"}) /\ pc' = "done"
          /\ UNCHANGED responses
       \/ /\ ~configSecure
          /\ responses' = Append(responses, 301) /\ Free({"request"}) /\ pc' = "done"
          /\ UNCHANGED starved
       \/ /\ ~configSecure
          /\ Allocate({"response"}) /\ pc' = "resolve"
          /\ UNCHANGED reply
    /\ UNCHANGED <<secure, facts, file, stats>>

-----------------------------------------------------------------------------
(* The file *)

\* path_resolve dereferences the path.
NoPath ==
    /\ pc = "resolve" /\ path = NULL
    /\ pc' = "crashed"
    /\ UNCHANGED <<secure, facts, file, stats, heap, reply>>

\* Mutant: no 404 when the path cannot be resolved.
Resolve_Silent ==
    /\ pc = "resolve" /\ path # NULL
    /\ \/ Free({"request"}) /\ pc' = "done" /\ UNCHANGED reply
       \/ /\ file # "missing"
          /\ Allocate({"resolvedPath"}) /\ pc' = "isFile"
          /\ UNCHANGED reply
    /\ UNCHANGED <<secure, facts, file, stats>>

\* path_resolve: realpath() finds the file, inside the root directory or not.
Resolve ==
    /\ pc = "resolve" /\ path # NULL
    /\ \/ Reject(404, {"request"})
       \/ /\ file # "missing"
          /\ Allocate({"resolvedPath"}) /\ pc' = "isFile"
          /\ UNCHANGED reply
    /\ UNCHANGED <<secure, facts, file, stats>>

\* resources_isFile and resources_isExecutable, a stat() each; a directory has
\* the executable bit too
IsFile ==
    /\ pc = "isFile"
    /\ isFile' = (file \in {"regular", "executable"})
    /\ pc' = "isExecutable"
    /\ UNCHANGED <<secure, facts, file, isExecutable, index, heap, reply>>

IsExecutable ==
    /\ pc = "isExecutable"
    /\ isExecutable' = (file \in {"executable", "directory"})
    /\ pc' = IF isFile \/ index > 0 THEN "dispatch" ELSE "directory"
    /\ UNCHANGED <<secure, facts, file, isFile, index, heap, reply>>

\* The directory indices are tried in order; the first that exists replaces
\* the resolved path and is looked at like any file.
DirectoryIndex ==
    /\ pc = "directory"
    /\ \/ index = IndexFiles /\ pc' = "dispatch" /\ UNCHANGED <<index, file>>
       \/ index < IndexFiles /\ index' = index + 1 /\ UNCHANGED <<pc, file>>
       \/ /\ index < IndexFiles /\ index' = index + 1
          /\ file' \in Kinds \ {"missing"}
          /\ pc' = "isFile"
    /\ UNCHANGED <<secure, facts, isFile, isExecutable, heap, reply>>

Environment ==
    /\ pc \notin {"done", "crashed"}
    /\ file' \in Kinds \ {file}
    /\ UNCHANGED <<pc, secure, facts, stats, heap, reply>>

-----------------------------------------------------------------------------
(* The response *)

Script == isFile /\ isExecutable

\* Mutant: the resolved path is not freed when a body is rejected.
ReadBody_Leak ==
    /\ pc = "dispatch" /\ Script
    /\ \/ pc' = "cgi" /\ UNCHANGED <<heap, reply>>
       \/ \E code \in {413, 417, 400} : Reject(code, {"request"})
       \/ Allocate({"body"}) /\ pc' = "cgi" /\ UNCHANGED reply
    /\ UNCHANGED <<secure, facts, file, stats>>

\* A request for a script: its Content-Length decides about the body.
ReadBody ==
    /\ pc = "dispatch" /\ Script
    /\ \/ pc' = "cgi" /\ UNCHANGED <<heap, reply>>
       \/ \E code \in {413, 417, 400} : Reject(code, {"request", "resolvedPath"})
       \/ Allocate({"body"}) /\ pc' = "cgi" /\ UNCHANGED reply
    /\ UNCHANGED <<secure, facts, file, stats>>

\* worker_returnCGI, which module Cgi looks into: the script's output is the
\* response (logged with code 0), or a 500.  The string cgi_read reads into is left
\* behind on a timeout and when nothing was read; a failed cgi_spawn is not
\* noticed.
ReturnCGI ==
    /\ pc = "cgi"
    /\ \/ pc' = "free" /\ responses' = Append(responses, 0) /\ UNCHANGED <<heap, starved>>
       \/ pc' = "free" /\ Respond(500) /\ UNCHANGED heap
       \/ pc' = "free" /\ Respond(500) /\ Allocate({"content"})
       \/ pc' = "crashed" /\ UNCHANGED <<heap, reply>>
    /\ UNCHANGED <<secure, facts, file, stats>>

\* resources_loadFile opens the file only now, for writing too, and can fail on
\* a file of any kind.
Loadable == file \in {"regular", "executable"}

\* worker_return200 answers 500 when the file cannot be loaded.
Return200 == Respond(500) \/ (Loadable /\ Respond(200))

\* Anything else is served as a file to GET and HEAD.
ReturnFile ==
    /\ pc = "dispatch" /\ ~Script
    /\ \/ method \notin {"GET", "HEAD"} /\ Respond(400)
       \/ method \in {"GET", "HEAD"} /\ ~isFile /\ Respond(404)
       \/ method \in {"GET", "HEAD"} /\ isFile /\ Return200
    /\ pc' = "free"
    /\ UNCHANGED <<secure, facts, file, stats, heap>>

\* The end of worker_handleConnection and of its CGI branch
FreeRequest ==
    /\ pc = "free"
    /\ Free({"request", "resolvedPath"} \union (live \intersect {"body"}))
    /\ pc' = "done"
    /\ UNCHANGED <<secure, facts, file, stats, reply>>

Over == pc \in {"done", "crashed"} /\ UNCHANGED vars

Handler ==
    \/ Create \/ ReadLine \/ ParseLine \/ ParseFails \/ HeaderEnds \/ ParseHost
    \/ FindConfig \/ Upgrade \/ NoPath \/ Resolve \/ IsFile \/ IsExecutable
    \/ DirectoryIndex \/ ReadBody \/ ReturnCGI \/ ReturnFile \/ FreeRequest

Next == Handler \/ Environment \/ Over

Spec == Init /\ [][Next]_vars

-----------------------------------------------------------------------------
(* Properties *)

\* Type invariant of the handler.
TypeOK ==
    /\ secure \in BOOLEAN /\ line \in {"none", "request line", "header"}
    /\ method \in Methods \union {NULL} /\ path \in {"path", NULL}
    /\ configSecure \in BOOLEAN /\ file \in Kinds
    /\ isFile \in BOOLEAN /\ isExecutable \in BOOLEAN /\ index \in 0..IndexFiles
    /\ live \subseteq {"request", "line", "response", "resolvedPath", "body", "content"}

\* Every path through worker_handleConnection writes exactly one response,
\* unless the memory for one could not be had.
OneResponse ==
    /\ Len(responses) <= 1
    /\ pc = "done" => Len(responses) = 1 \/ starved

\* Nothing is freed twice or before it was allocated on any path, and the
\* request, its lines, its resolved path and its body are freed on all of them.
RequestFreed ==
    /\ TypeOK
    /\ ~misuse
    /\ pc = "done" =>
          live \intersect {"request", "line", "resolvedPath", "body"} = {}

=============================================================================
