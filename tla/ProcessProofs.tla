---------------------------- MODULE ProcessProofs ----------------------------
(***************************************************************************)
(* Proofs about what one thread does by itself: a worker, which answers a  *)
(* request once and frees what it allocated, for any methods and any       *)
(* number of directory indices; and the main process, which never has two  *)
(* servers, for any number of restarts and any signals.                    *)
(***************************************************************************)
EXTENDS RequestHandler, Supervision, FiniteSetTheorems, TLAPS


-----------------------------------------------------------------------------
(* The request handler: its inductive invariant *)

Positions ==
    {"create", "header", "parse", "host", "config", "upgrade", "resolve", "isFile",
     "isExecutable", "directory", "dispatch", "cgi", "free", "done", "crashed"}

\* The positions behind path_resolve, up to the final frees
Resolved == {"isFile", "isExecutable", "directory", "dispatch", "cgi", "free"}

Objects == {"request", "line", "response", "resolvedPath", "body", "content"}

\* What is allocated at each position
Allocated ==
    /\ pc = "create" => live = {}
    /\ pc \notin {"create", "done", "crashed"} =>
          /\ "request" \in live
          /\ "line" \in live <=> pc = "parse"
          /\ "resolvedPath" \in live <=> pc \in Resolved
          /\ "body" \in live => pc \in {"cgi", "free"}
    /\ pc = "done" => live \intersect {"request", "line", "resolvedPath", "body"} = {}

\* One response was written, or none because http_create failed.
Answer(written, failed) ==
    \/ failed = FALSE /\ \E code \in Nat : written = <<code>>
    \/ failed = TRUE /\ written = <<>>

\* No response is written before the handler is about to return.
Answered ==
    IF pc \in {"free", "done"} THEN Answer(responses, starved)
    ELSE responses = <<>> /\ starved = FALSE

IInv == TypeOK /\ pc \in Positions /\ ~misuse /\ Allocated /\ Answered

-----------------------------------------------------------------------------
(* The steps *)

\* A response is written, or http_create fails.
LEMMA RespondOnce ==
  ASSUME responses = <<>>, starved = FALSE, NEW code \in Nat, Respond(code)
  PROVE  Answer(responses', starved')
<1>1. Append(<<>>, code) = <<code>>
  OBVIOUS
<1>. QED
  BY <1>1, Zenon DEF Respond, Answer

\* Nothing is allocated or written when worker_handleConnection is called.
LEMMA InvInit == Init => IInv
<1> SUFFICES ASSUME Init
             PROVE  IInv
  OBVIOUS
<1>1. TypeOK
  <2>1. 0 \in 0..IndexFiles
    BY HandlerAssumption
  <2>. QED
    BY <2>1, Zenon DEF Init, TypeOK
<1>2. pc \in Positions /\ ~misuse /\ Allocated
  BY DEF Init, Positions, Allocated, Resolved
<1>3. Answered
  BY DEF Init, Answered
<1>. QED
  BY <1>1, <1>2, <1>3 DEF IInv

\* Only the objects of the handler are allocated.
LEMMA ObjectStep ==
  ASSUME IInv, Handler \/ Environment
  PROVE  live' \subseteq Objects
<1> USE DEF IInv, TypeOK, Objects, heap
<1>1. CASE Create
  BY <1>1, Zenon DEF Create, Allocate
<1>2. CASE ReadLine
  BY <1>2, Zenon DEF ReadLine, Allocate
<1>3. CASE ParseLine
  BY <1>3, Zenon DEF ParseLine, Free
<1>4. CASE ParseFails
  BY <1>4, Zenon DEF ParseFails, Reject, Free
<1>5. CASE HeaderEnds
  BY <1>5, Zenon DEF HeaderEnds
<1>6. CASE ParseHost
  BY <1>6, Zenon DEF ParseHost, Reject, Free
<1>7. CASE FindConfig
  BY <1>7, Zenon DEF FindConfig, Reject, Free
<1>8. CASE Upgrade
  BY <1>8, Zenon DEF Upgrade, Allocate, Free
<1>9. CASE NoPath
  BY <1>9, Zenon DEF NoPath
<1>10. CASE Resolve
  BY <1>10, Zenon DEF Resolve, Reject, Allocate, Free
<1>11. CASE IsFile
  BY <1>11, Zenon DEF IsFile
<1>12. CASE IsExecutable
  BY <1>12, Zenon DEF IsExecutable
<1>13. CASE DirectoryIndex
  BY <1>13, Zenon DEF DirectoryIndex
<1>14. CASE Environment
  BY <1>14, Zenon DEF Environment
<1>15. CASE ReadBody
  BY <1>15, Zenon DEF ReadBody, Reject, Allocate, Free
<1>16. CASE ReturnCGI
  BY <1>16, Zenon DEF ReturnCGI, Allocate
<1>17. CASE ReturnFile
  BY <1>17, Zenon DEF ReturnFile
<1>18. CASE FreeRequest
  BY <1>18, Zenon DEF FreeRequest, Free
<1>. QED
  BY <1>1, <1>2, <1>3, <1>4, <1>5, <1>6, <1>7, <1>8, <1>9, <1>10, <1>11, <1>12, <1>13,
     <1>14, <1>15, <1>16, <1>17, <1>18, Zenon DEF Handler

\* Everything else keeps its type.
LEMMA TypeStep ==
  ASSUME IInv, Handler \/ Environment
  PROVE  TypeOK'
<1>0. TypeOK /\ live' \subseteq Objects
  BY ObjectStep DEF IInv
<1> USE <1>0 DEF TypeOK, Objects, facts, stats
<1>1. CASE Create
  BY <1>1, Zenon DEF Create
<1>2. CASE ReadLine
  BY <1>2, Zenon DEF ReadLine
<1>3. CASE ParseLine
  BY <1>3, Zenon DEF ParseLine
<1>4. CASE ParseFails
  BY <1>4, Zenon DEF ParseFails
<1>5. CASE HeaderEnds
  BY <1>5, Zenon DEF HeaderEnds
<1>6. CASE ParseHost
  <2>1. UNCHANGED <<secure, facts, file, stats>>
    BY ONLY <1>6, Zenon DEF ParseHost
  <2>. QED
    BY <2>1, Zenon
<1>7. CASE FindConfig
  <2>1. configSecure' \in BOOLEAN
    BY <1>7, Zenon DEF FindConfig
  <2>. QED
    BY <1>7, <2>1, Zenon DEF FindConfig
<1>8. CASE Upgrade
  BY <1>8, Zenon DEF Upgrade
<1>9. CASE NoPath
  BY <1>9, Zenon DEF NoPath
<1>10. CASE Resolve
  BY <1>10, Zenon DEF Resolve
<1>11. CASE IsFile
  <2>1. isFile' \in BOOLEAN
    <3>1. isFile' = TRUE \/ isFile' = FALSE
      BY ONLY <1>11, SMT DEF IsFile
    <3>. QED
      BY <3>1, Zenon
  <2>. QED
    BY <1>11, <2>1, Zenon DEF IsFile
<1>12. CASE IsExecutable
  <2>1. isExecutable' \in BOOLEAN
    <3>1. isExecutable' = TRUE \/ isExecutable' = FALSE
      BY ONLY <1>12, SMT DEF IsExecutable
    <3>. QED
      BY <3>1, Zenon
  <2>. QED
    BY <1>12, <2>1, Zenon DEF IsExecutable
<1>13. CASE DirectoryIndex
  <2>1. index' \in 0..IndexFiles
    <3>1. \/ index' = index
          \/ index < IndexFiles /\ index' = index + 1
      BY <1>13, Zenon DEF DirectoryIndex
    <3>2. index \in 0..IndexFiles /\ IndexFiles \in Nat
      BY HandlerAssumption, Zenon
    <3>. QED
      BY ONLY <3>1, <3>2
  <2>2. file' \in Kinds
    BY <1>13, Zenon DEF DirectoryIndex
  <2>. QED
    BY <1>13, <2>1, <2>2, Zenon DEF DirectoryIndex
<1>14. CASE Environment
  BY <1>14, Zenon DEF Environment
<1>15. CASE ReadBody
  BY <1>15, Zenon DEF ReadBody
<1>16. CASE ReturnCGI
  BY <1>16, Zenon DEF ReturnCGI
<1>17. CASE ReturnFile
  BY <1>17, Zenon DEF ReturnFile
<1>18. CASE FreeRequest
  BY <1>18, Zenon DEF FreeRequest
<1>. QED
  BY <1>1, <1>2, <1>3, <1>4, <1>5, <1>6, <1>7, <1>8, <1>9, <1>10, <1>11, <1>12, <1>13,
     <1>14, <1>15, <1>16, <1>17, <1>18, Zenon DEF Handler

\* Nothing is freed that is not allocated.
LEMMA FreeStep ==
  ASSUME IInv, Handler \/ Environment
  PROVE  ~misuse'
<1> USE DEF IInv, heap, Allocated
<1>1. CASE Create
  BY <1>1 DEF Create, Allocate, Resolved
<1>2. CASE ReadLine
  BY <1>2 DEF ReadLine, Allocate, Resolved
<1>3. CASE ParseLine
  BY <1>3, Zenon DEF ParseLine, Free, Resolved
<1>4. CASE ParseFails
  BY <1>4, ZenonT(30) DEF ParseFails, Reject, Free, Resolved
<1>5. CASE HeaderEnds
  BY <1>5 DEF HeaderEnds, Resolved
<1>6. CASE ParseHost
  BY <1>6, Zenon DEF ParseHost, Reject, Free, Resolved
<1>7. CASE FindConfig
  BY <1>7, ZenonT(30) DEF FindConfig, Reject, Free, Resolved
<1>8. CASE Upgrade
  BY <1>8, Zenon DEF Upgrade, Allocate, Free, Resolved
<1>9. CASE NoPath
  BY <1>9 DEF NoPath, Resolved
<1>10. CASE Resolve
  BY <1>10, ZenonT(30) DEF Resolve, Reject, Allocate, Free, Resolved
<1>11. CASE IsFile
  BY <1>11 DEF IsFile, Resolved
<1>12. CASE IsExecutable
  BY <1>12 DEF IsExecutable, Resolved
<1>13. CASE DirectoryIndex
  BY <1>13 DEF DirectoryIndex, Resolved
<1>14. CASE Environment
  BY <1>14 DEF Environment, Resolved
<1>15. CASE ReadBody
  BY <1>15, ZenonT(30) DEF ReadBody, Reject, Allocate, Free, Resolved
<1>16. CASE ReturnCGI
  BY <1>16 DEF ReturnCGI, Allocate, Resolved
<1>17. CASE ReturnFile
  BY <1>17 DEF ReturnFile, Resolved
<1>18. CASE FreeRequest
  BY <1>18, Zenon DEF FreeRequest, Free, Resolved
<1>. QED
  BY <1>1, <1>2, <1>3, <1>4, <1>5, <1>6, <1>7, <1>8, <1>9, <1>10, <1>11, <1>12, <1>13,
     <1>14, <1>15, <1>16, <1>17, <1>18, Zenon DEF Handler

\* The position tells what is allocated.
LEMMA LiveStep ==
  ASSUME IInv, Handler \/ Environment
  PROVE  pc' \in Positions /\ Allocated'
<1> USE DEF IInv, heap, Positions, Resolved, Allocated
<1>1. CASE Create
  BY <1>1 DEF Create, Allocate
<1>2. CASE ReadLine
  BY <1>2 DEF ReadLine, Allocate
<1>3. CASE ParseLine
  BY <1>3, Zenon DEF ParseLine, Free
<1>4. CASE ParseFails
  BY <1>4 DEF ParseFails, Reject, Free
<1>5. CASE HeaderEnds
  BY <1>5 DEF HeaderEnds
<1>6. CASE ParseHost
  BY <1>6 DEF ParseHost, Reject, Free
<1>7. CASE FindConfig
  BY <1>7 DEF FindConfig, Reject, Free
<1>8. CASE Upgrade
  BY <1>8 DEF Upgrade, Allocate, Free
<1>9. CASE NoPath
  BY <1>9 DEF NoPath
<1>10. CASE Resolve
  BY <1>10 DEF Resolve, Reject, Allocate, Free
<1>11. CASE IsFile
  BY <1>11 DEF IsFile
<1>12. CASE IsExecutable
  BY <1>12 DEF IsExecutable
<1>13. CASE DirectoryIndex
  BY <1>13 DEF DirectoryIndex
<1>14. CASE Environment
  BY <1>14 DEF Environment
<1>15. CASE ReadBody
  BY <1>15 DEF ReadBody, Reject, Allocate, Free
<1>16. CASE ReturnCGI
  BY <1>16 DEF ReturnCGI, Allocate
<1>17. CASE ReturnFile
  BY <1>17 DEF ReturnFile
<1>18. CASE FreeRequest
  BY <1>18 DEF FreeRequest, Free
<1>. QED
  BY <1>1, <1>2, <1>3, <1>4, <1>5, <1>6, <1>7, <1>8, <1>9, <1>10, <1>11, <1>12, <1>13,
     <1>14, <1>15, <1>16, <1>17, <1>18, Zenon DEF Handler

\* There is one response, behind all that may fail.
LEMMA AnswerStep ==
  ASSUME IInv, Handler \/ Environment
  PROVE  Answered'
<1>0. Answered /\ \A code \in Nat : Respond(code) => pc \in {"free", "done"} \/ Answer(responses', starved')
  BY RespondOnce, Zenon DEF IInv, Answered
<1> USE <1>0 DEF reply, Answered
<1>1. CASE Create
  BY <1>1 DEF Create, Answer
<1>2. CASE ReadLine
  BY <1>2 DEF ReadLine
<1>3. CASE ParseLine
  BY <1>3, Zenon DEF ParseLine
<1>4. CASE ParseFails
  BY <1>4 DEF ParseFails, Reject
<1>5. CASE HeaderEnds
  BY <1>5 DEF HeaderEnds
<1>6. CASE ParseHost
  BY <1>6 DEF ParseHost, Reject
<1>7. CASE FindConfig
  BY <1>7 DEF FindConfig, Reject
<1>8. CASE Upgrade
  BY <1>8 DEF Upgrade, Answer
<1>9. CASE NoPath
  BY <1>9 DEF NoPath
<1>10. CASE Resolve
  BY <1>10 DEF Resolve, Reject
<1>11. CASE IsFile
  BY <1>11 DEF IsFile
<1>12. CASE IsExecutable
  BY <1>12 DEF IsExecutable
<1>13. CASE DirectoryIndex
  BY <1>13 DEF DirectoryIndex
<1>14. CASE Environment
  BY <1>14 DEF Environment
<1>15. CASE ReadBody
  BY <1>15 DEF ReadBody, Reject
<1>16. CASE ReturnCGI
  BY <1>16 DEF ReturnCGI, Answer
<1>17. CASE ReturnFile
  BY <1>17 DEF ReturnFile, Return200
<1>18. CASE FreeRequest
  BY <1>18 DEF FreeRequest
<1>. QED
  BY <1>1, <1>2, <1>3, <1>4, <1>5, <1>6, <1>7, <1>8, <1>9, <1>10, <1>11, <1>12, <1>13,
     <1>14, <1>15, <1>16, <1>17, <1>18, Zenon DEF Handler

\* Every step of the handler accounts for its objects and its response.
LEMMA InvStep == IInv /\ [Next]_vars => IInv'
<1> SUFFICES ASSUME IInv, [Next]_vars
             PROVE  IInv'
  OBVIOUS
<1>1. CASE UNCHANGED vars
  <2>1. TypeOK' /\ (pc \in Positions /\ ~misuse)'
    BY <1>1, Zenon DEF vars, facts, stats, heap, reply, IInv, TypeOK
  <2>2. Allocated' /\ Answered'
    BY <1>1, Zenon DEF vars, facts, stats, heap, reply, IInv, Allocated, Answered
  <2> QED
    BY <2>1, <2>2, Zenon DEF IInv
<1>2. CASE Handler \/ Environment
  BY <1>2, TypeStep, FreeStep, LiveStep, AnswerStep DEF IInv
<1>. QED
  BY <1>1, <1>2 DEF Next, Over

-----------------------------------------------------------------------------
(* The theorems *)

\* For any number of directory indices, and whatever happens to the file
\* between the looks at it, worker_handleConnection writes one response on
\* each of its paths, unless http_create fails.
THEOREM AnsweredOnce == Spec => []OneResponse
<1>1. IInv => OneResponse
  <2> SUFFICES ASSUME IInv
               PROVE  OneResponse
    OBVIOUS
  <2>1. \A code \in Nat : Len(<<code>>) = 1
    OBVIOUS
  <2>2. Len(<<>>) = 0
    OBVIOUS
  <2>3. \/ Len(responses) = 1
        \/ Len(responses) = 0 /\ (pc = "done" => starved)
    BY <2>1, <2>2, Zenon DEF IInv, Answered, Answer
  <2>4. Len(responses) <= 1
    BY <2>3
  <2>. QED
    BY <2>3, <2>4, Zenon DEF OneResponse
<1>. QED
  BY <1>1, InvInit, InvStep, PTL DEF Spec

\* On none of these paths does it free anything twice or anything it has not
\* allocated, and request, line, resolved path and body are freed on all.
THEOREM FreedOnReturn == Spec => []RequestFreed
<1>1. IInv => RequestFreed
  BY DEF IInv, Allocated, RequestFreed
<1>. QED
  BY <1>1, InvInit, InvStep, PTL DEF Spec


-----------------------------------------------------------------------------
(* The supervision: its inductive invariant *)

\* A server that has not ended
Living == {"starting", "serving", "closing"}

\* n servers were forked, one after the other; only the last may be alive, and
\* only dead ones were collected.
Children(n) ==
    /\ n \in 0..MaxInstances
    /\ \A c \in Sup!Instances : child[c] # "unborn" <=> c <= n
    /\ \A c \in Sup!Instances : child[c] \in Living => c = n
    /\ \A c \in reaped : child[c] \notin Living /\ child[c] # "unborn"

\* What main_serverInstance is at each position, and whether it is collected.
\* Back at the loop it may be, but then the loop is left.
Position(n) ==
    /\ sup = "start" => n = 0 /\ instance = 0 /\ sent = 0
    /\ sup \in {"handlers", "loop", "sleep", "waitpid", "decide", "fork", "drain"}
          => instance = n /\ n # 0
    /\ sup = "assign" => n = instance + 1 /\ instance # 0 /\ n \notin reaped
    /\ sup \in {"handlers", "sleep", "waitpid"} => instance \notin reaped
    /\ sup = "loop" => instance \notin reaped \/ ~shouldRun
    /\ sup \in {"decide", "fork"} => instance \in reaped
    /\ sup \in {"done", "failed"} => \A c \in Sup!Instances : child[c] \notin Living

\* A signal finds a server to be passed on to.
Signals == pending <= sent /\ (instance = 0 => pending = 0)

Servers == Sup!TypeOK /\ Signals /\ \E n \in 0..MaxInstances : Children(n) /\ Position(n)

-----------------------------------------------------------------------------
(* Counting *)

\* The instance of Supervisor counts as this module does.
LEMMA SameCardinality == \A S : Sup!Cardinality(S) = Cardinality(S)
  BY DEF Cardinality, Sup!Cardinality

\* The number of the next fork follows those of the forks before it.
LEMMA Counted ==
    ASSUME MaxInstances \in Nat, NEW n \in 0..MaxInstances, NEW f,
           \A c \in Sup!Instances : f[c] # "unborn" <=> c <= n
    PROVE  /\ {c \in Sup!Instances : f[c] # "unborn"} = 1..n
           /\ Sup!Cardinality({c \in Sup!Instances : f[c] # "unborn"}) = n
<1>1. {c \in Sup!Instances : f[c] # "unborn"} = 1..n
  BY DEF Sup!Instances
<1>2. Sup!Cardinality(1..n) = n
  BY FS_Interval, SameCardinality
<1> QED
  BY <1>1, <1>2, Zenon

\* Only the last fork is alive.
LEMMA OneAlive ==
    ASSUME MaxInstances \in Nat, NEW n \in 0..MaxInstances, Children(n)
    PROVE  Sup!Cardinality(Sup!Alive) <= 1
<1>1. Sup!Alive \subseteq {n}
  BY DEF Children, Sup!Alive, Living
<1>2. IsFiniteSet({n}) /\ Sup!Cardinality({n}) = 1
  BY FS_Singleton, SameCardinality, Zenon
<1>3. Sup!Cardinality(Sup!Alive) <= Sup!Cardinality({n})
  BY <1>1, <1>2, FS_Subset, SameCardinality, Zenon
<1> QED
  BY <1>2, <1>3

-----------------------------------------------------------------------------
(* The supervision *)

\* main begins with no server.
LEMMA ServersInit == Sup!SupervisorAssumption /\ Sup!Init => Servers
<1> SUFFICES ASSUME Sup!SupervisorAssumption, Sup!Init PROVE Servers
  OBVIOUS
<1>1. Sup!TypeOK /\ Signals
  BY DEF Sup!Init, Sup!TypeOK, Signals, Sup!Instances, Sup!SupervisorAssumption
<1>2. 0 \in 0..MaxInstances /\ Children(0) /\ Position(0)
  BY DEF Sup!Init, Children, Position, Living, Sup!Instances, Sup!SupervisorAssumption
<1> QED
  BY <1>1, <1>2 DEF Servers

\* server_createInstance adds one fork to n, none of which is alive, or fails.
LEMMA Created ==
    ASSUME Sup!SupervisorAssumption, Sup!TypeOK, NEW n \in 0..MaxInstances, Children(n),
           \A c \in Sup!Instances : child[c] \notin Living,
           NEW there, Sup!CreateInstance(there), UNCHANGED reaped
    PROVE  \/ sup' = "failed" /\ child' = child
           \/ /\ sup' = there /\ n + 1 \in 0..MaxInstances
              /\ child' = [child EXCEPT ![n + 1] = "starting"]
              /\ Children(n + 1)'
<1>1. Sup!Forked = 1..n /\ Sup!Cardinality(Sup!Forked) = n
  BY Counted DEF Children, Sup!Forked, Sup!SupervisorAssumption
<1>2. CASE Sup!Forked = Sup!Instances
  BY <1>2 DEF Sup!CreateInstance
<1>3. CASE Sup!Forked # Sup!Instances
  <2>1. n + 1 \in Sup!Instances
    BY <1>1, <1>3 DEF Sup!Instances, Sup!SupervisorAssumption
  <2>2. sup' = there /\ child' = [child EXCEPT ![n + 1] = "starting"]
    BY <1>1, <1>3 DEF Sup!CreateInstance
  <2>3. Children(n + 1)'
    BY <2>1, <2>2 DEF Children, Living, Sup!Instances, Sup!TypeOK, Sup!SupervisorAssumption
  <2> QED
    BY <2>1, <2>2, <2>3 DEF Sup!Instances
<1> QED
  BY <1>2, <1>3

\* What an action of a server process may do to its child: one that was alive
\* goes on or ends.
LEMMA Moved ==
    ASSUME Sup!TypeOK, Signals, NEW n \in 0..MaxInstances, Children(n), Position(n),
           NEW c \in Sup!Instances, child[c] \in Living,
           NEW to \in (Living \union {"clean", "failure", "fatal", "crashed"}),
           child' = [child EXCEPT ![c] = to],
           UNCHANGED <<Sup!supVars, reaped, pending, sent>>, killed' \subseteq Sup!Instances
    PROVE  Servers'
<1>1. Sup!TypeOK' /\ Signals'
  BY DEF Sup!TypeOK, Signals, Living, Sup!supVars
<1>2. Children(n)'
  BY DEF Children, Living, Sup!TypeOK
<1>3. Position(n)'
  BY DEF Position, Living, Sup!TypeOK, Sup!supVars
<1> QED
  BY <1>1, <1>2, <1>3 DEF Servers

\* Every step of the main process, of its servers and of the one who sends
\* signals preserves the invariant.
LEMMA ServersStep == Sup!SupervisorAssumption /\ Servers /\ [Sup!Next]_(Sup!vars) => Servers'
<1> SUFFICES ASSUME Sup!SupervisorAssumption, Servers, [Sup!Next]_(Sup!vars) PROVE Servers'
  OBVIOUS
<1> USE DEF Sup!Instances, Sup!SupervisorAssumption
<1>n. PICK n \in 0..MaxInstances : Children(n) /\ Position(n)
  BY DEF Servers
<1>t. Sup!TypeOK /\ Signals
  BY DEF Servers
<1>s. SUFFICES ASSUME Sup!Next PROVE Servers'
  <2>1. CASE UNCHANGED Sup!vars
    BY <2>1, <1>n, <1>t
       DEF Sup!vars, Sup!supVars, Servers, Sup!TypeOK, Signals, Children, Position
  <2> QED
    BY <2>1
<1>1. CASE Sup!Start
  <2>1. \A c \in Sup!Instances : child[c] \notin Living
    BY <1>1, <1>n DEF Sup!Start, Children, Position
  <2>2. Sup!CreateInstance("handlers") /\ UNCHANGED reaped
    BY <1>1 DEF Sup!Start
  <2>3. CASE sup' = "failed" /\ child' = child
    <3>1. instance' = n /\ n = 0
      BY <1>1, <1>n, <2>3, Counted DEF Sup!Start, Position, Children
    <3>2. Sup!TypeOK' /\ Signals'
      BY <1>1, <1>t, <1>n, <2>3, <3>1 DEF Sup!Start, Sup!TypeOK, Signals, Position
    <3>3. Children(n)' /\ Position(n)'
      BY <1>1, <1>n, <2>1, <2>3, <3>1 DEF Sup!Start, Children, Position
    <3> QED
      BY <3>2, <3>3 DEF Servers
  <2>4. CASE /\ sup' = "handlers" /\ n + 1 \in 0..MaxInstances
             /\ child' = [child EXCEPT ![n + 1] = "starting"]
             /\ Children(n + 1)'
    <3>1. instance' = n + 1 /\ n = 0
      <4>1. \A c \in Sup!Instances : child'[c] # "unborn" <=> c <= n + 1
        BY <2>4 DEF Children
      <4>2. \A f : (\A c \in Sup!Instances : f[c] # "unborn" <=> c <= n + 1)
                     => Sup!Cardinality({c \in Sup!Instances : f[c] # "unborn"}) = n + 1
        BY <2>4, Counted
      <4>3. Sup!Cardinality({c \in Sup!Instances : child'[c] # "unborn"}) = n + 1
        BY <4>1, <4>2, Zenon
      <4> QED
        BY <4>3, <1>1, <1>n DEF Sup!Start, Position
    <3>2. Sup!TypeOK' /\ Signals'
      BY <1>1, <1>t, <1>n, <2>4, <3>1 DEF Sup!Start, Sup!TypeOK, Signals, Position
    <3>3. Position(n + 1)'
      BY <1>1, <1>n, <1>t, <2>4, <3>1 DEF Sup!Start, Children, Position, Sup!TypeOK
    <3> QED
      BY <2>4, <3>2, <3>3 DEF Servers
  <2> QED
    BY <1>n, <1>t, <2>1, <2>2, <2>3, <2>4, Created
<1>2. CASE Sup!InstallHandlers \/ Sup!Loop \/ Sup!WakeUp
  BY <1>2, <1>n, <1>t, Zenon
     DEF Sup!InstallHandlers, Sup!Loop, Sup!WakeUp, Servers, Sup!TypeOK, Signals,
         Children, Position
<1>3. CASE Sup!Waitpid
  <2>1. instance = n /\ n \in Sup!Instances
    BY <1>3, <1>n DEF Sup!Waitpid, Position
  <2>2. Sup!TypeOK' /\ Signals'
    BY <1>3, <1>t, <2>1, Zenon DEF Sup!Waitpid, Sup!TypeOK, Signals
  <2>3. Children(n)'
    <3>1. CASE instance \in Sup!Alive
      BY <1>3, <1>n, <3>1 DEF Sup!Waitpid, Children
    <3>2. CASE instance \notin Sup!Alive
      <4>1. child[n] \notin Living /\ child[n] # "unborn"
        BY <1>n, <2>1, <3>2 DEF Sup!Alive, Living, Children
      <4>2. reaped' = reaped \union {n} /\ child' = child
        BY <1>3, <2>1, <3>2 DEF Sup!Waitpid
      <4> QED
        BY <1>n, <4>1, <4>2 DEF Children
    <3> QED
      BY <3>1, <3>2
  <2>4. Position(n)'
    BY <1>3, <1>n, <2>1 DEF Sup!Waitpid, Position
  <2> QED
    BY <2>2, <2>3, <2>4 DEF Servers
<1>4. CASE Sup!Decide
  BY <1>4, <1>n, <1>t, Zenon DEF Sup!Decide, Sup!Exited, Living, Servers, Sup!TypeOK,
     Signals, Children, Position
<1>5. CASE Sup!Fork
  <2>1. \A c \in Sup!Instances : child[c] \notin Living
    BY <1>5, <1>n DEF Sup!Fork, Children, Position
  <2>2. Sup!CreateInstance("assign") /\ UNCHANGED reaped
    BY <1>5 DEF Sup!Fork
  <2>3. CASE sup' = "failed" /\ child' = child
    BY <1>5, <1>n, <1>t, <2>1, <2>3, Zenon
       DEF Sup!Fork, Servers, Sup!TypeOK, Signals, Children, Position
  <2>4. CASE /\ sup' = "assign" /\ n + 1 \in 0..MaxInstances
             /\ child' = [child EXCEPT ![n + 1] = "starting"]
             /\ Children(n + 1)'
    <3>1. Sup!TypeOK' /\ Signals'
      BY <1>5, <1>n, <1>t, <2>4 DEF Sup!Fork, Sup!TypeOK, Signals, Position
    <3>2. n + 1 \notin reaped
      BY <1>n, <1>t, <2>4 DEF Children, Sup!TypeOK
    <3>3. Position(n + 1)'
      BY <1>5, <1>n, <1>t, <2>4, <3>2 DEF Sup!Fork, Sup!TypeOK, Position
    <3> QED
      BY <2>4, <3>1, <3>3 DEF Servers
  <2> QED
    BY <1>n, <1>t, <2>1, <2>2, <2>3, <2>4, Created
<1>6. CASE Sup!Assign
  <2>1. Sup!Cardinality(Sup!Forked) = n
    BY <1>n, Counted DEF Children, Sup!Forked
  <2>2. Sup!TypeOK' /\ Signals'
    BY <1>6, <1>n, <1>t, <2>1 DEF Sup!Assign, Sup!TypeOK, Signals, Position
  <2>3. instance' \notin reaped \/ ~shouldRun
    BY <1>6, <1>n, <2>1 DEF Sup!Assign, Children, Position
  <2>4. Children(n)' /\ Position(n)'
    BY <1>6, <1>n, <1>t, <2>1, <2>3 DEF Sup!Assign, Children, Position, Sup!TypeOK
  <2> QED
    BY <2>2, <2>4 DEF Servers
<1>7. CASE Sup!Drain
  BY <1>7, <1>n, <1>t, Zenon
     DEF Sup!Drain, Sup!Dead, Sup!Forked, Sup!Alive, Living, Servers, Sup!TypeOK, Signals,
         Children, Position
<1>8. CASE Sup!HandleSignal \/ Sup!DefaultSignal \/ Sup!SendSignal
  <2>1. killed' \subseteq Sup!Instances
    <3>1. CASE Sup!HandleSignal
      <4>1. instance \in Sup!Instances
        BY <1>t, <3>1 DEF Sup!HandleSignal, Sup!TypeOK, Signals
      <4>2. killed' \subseteq killed \union {instance}
        BY <3>1 DEF Sup!HandleSignal
      <4> QED
        BY <1>t, <4>1, <4>2 DEF Sup!TypeOK
    <3>2. CASE Sup!DefaultSignal
      BY <1>t, <3>2 DEF Sup!DefaultSignal, Sup!TypeOK
    <3>3. CASE Sup!SendSignal
      <4>1. killed' \subseteq killed \union Sup!Alive
        BY <3>3 DEF Sup!SendSignal
      <4> QED
        BY <1>t, <4>1 DEF Sup!TypeOK, Sup!Alive
    <3> QED
      BY <1>8, <3>1, <3>2, <3>3
  <2>2. /\ UNCHANGED <<instance, child, reaped>>
        /\ sup' = sup \/ sup' = "killed"
        /\ shouldRun' = shouldRun \/ shouldRun' = FALSE
    BY <1>8 DEF Sup!HandleSignal, Sup!DefaultSignal, Sup!SendSignal, Sup!supVars
  <2>3. sent' \in 0..MaxSignals /\ pending' \in 0..MaxSignals /\ Signals'
    BY <1>8, <1>n, <1>t
       DEF Sup!HandleSignal, Sup!DefaultSignal, Sup!SendSignal, Sup!Ended, Sup!supVars,
           Sup!TypeOK, Signals, Position
  <2>4. sup = "start" => sent' = sent
    BY <1>8 DEF Sup!HandleSignal, Sup!DefaultSignal, Sup!SendSignal
  <2>5. Sup!TypeOK'
    BY <1>t, <2>1, <2>2, <2>3, Zenon DEF Sup!TypeOK
  <2>6. Children(n)' /\ Position(n)'
    BY <1>n, <2>2, <2>4 DEF Children, Position
  <2> QED
    BY <2>3, <2>5, <2>6 DEF Servers
<1>9. CASE \E c \in Sup!Instances : Sup!InstanceStep(c)
  <2> SUFFICES ASSUME NEW c \in Sup!Instances, Sup!InstanceStep(c) PROVE Servers'
    BY <1>9
  <2>1. CASE Sup!Serve(c) \/ Sup!EndItself(c) \/ Sup!CloseGracefully(c)
    <3>1. PICK to \in Living \union {"clean", "failure", "fatal", "crashed"} :
             child' = [child EXCEPT ![c] = to]
      BY <2>1 DEF Sup!Serve, Sup!EndItself, Sup!CloseGracefully, Sup!End, Living
    <3>2. child[c] \in Living /\ UNCHANGED <<Sup!supVars, reaped, pending, sent, killed>>
      BY <2>1 DEF Sup!Serve, Sup!EndItself, Sup!CloseGracefully, Sup!End, Living,
         Sup!supVars
    <3> QED
      BY <1>n, <1>t, <3>1, <3>2, Moved, Zenon DEF Sup!TypeOK
  <2>2. CASE Sup!ReceiveSignal(c)
    <3>0. killed' \subseteq Sup!Instances
      BY <1>t, <2>2 DEF Sup!ReceiveSignal, Sup!TypeOK
    <3>1. CASE child' = child /\ UNCHANGED <<Sup!supVars, reaped, pending, sent>>
      BY <1>n, <1>t, <3>0, <3>1
         DEF Sup!supVars, Servers, Sup!TypeOK, Signals, Children, Position
    <3>2. CASE /\ child[c] \in Living
               /\ \E to \in {"crashed", "closing"} : child' = [child EXCEPT ![c] = to]
               /\ UNCHANGED <<Sup!supVars, reaped, pending, sent>>
      BY <1>n, <1>t, <3>0, <3>2, Moved, Zenon DEF Living
    <3> QED
      BY <2>2, <3>1, <3>2 DEF Sup!ReceiveSignal, Sup!End, Living, Sup!supVars
  <2> QED
    BY <2>1, <2>2 DEF Sup!InstanceStep
<1>10. CASE Sup!Over
  BY <1>10, <1>n, <1>t, Zenon DEF Sup!Over, Sup!vars, Sup!supVars, Servers, Sup!TypeOK,
     Signals, Children, Position
<1> QED
  BY <1>s, <1>1, <1>2, <1>3, <1>4, <1>5, <1>6, <1>7, <1>8, <1>9, <1>10
     DEF Sup!Next, Sup!SupStep

\* The invariant says what OneInstance asks for.
LEMMA ServersImplies == Sup!SupervisorAssumption /\ Servers => Sup!OneInstance
<1> SUFFICES ASSUME Sup!SupervisorAssumption, Servers PROVE Sup!OneInstance
  OBVIOUS
<1>1. PICK n \in 0..MaxInstances : Children(n) /\ Position(n)
  BY DEF Servers
<1>2. Sup!Cardinality(Sup!Alive) <= 1
  BY <1>1, OneAlive DEF Sup!SupervisorAssumption
<1>3. sup = "waitpid" => instance \in Sup!Forked \ reaped
  BY <1>1 DEF Children, Position, Sup!Forked, Sup!Instances, Sup!SupervisorAssumption
<1>4. sup \in {"done", "failed"} => Sup!Alive = {}
  BY <1>1 DEF Position, Sup!Alive, Living
<1> QED
  BY <1>2, <1>3, <1>4 DEF Sup!OneInstance, Servers

\* main has at most one server process at any time, waits only for a child it
\* has not collected, and ends after its servers, for any number of forks and
\* signals and wherever the signals land.
THEOREM OneServer == Sup!SupervisorAssumption /\ Sup!Spec => []OneInstance
<1>1. CASE Sup!SupervisorAssumption
  <2>1. Sup!Init => Servers
    BY <1>1, ServersInit
  <2>2. Servers /\ [Sup!Next]_(Sup!vars) => Servers'
    BY <1>1, ServersStep
  <2>3. Servers => OneInstance
    BY <1>1, ServersImplies DEF OneInstance
  <2> QED
    BY <2>1, <2>2, <2>3, PTL DEF Sup!Spec
<1> QED
  BY <1>1

=============================================================================
