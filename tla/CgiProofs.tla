------------------------------ MODULE CgiProofs ------------------------------
(***************************************************************************)
(* worker_returnCGI gives back the descriptors it took, however many       *)
(* workers share the table.  For a worker alone the response is the whole  *)
(* output, and the script gets to the end of its input.                    *)
(***************************************************************************)
EXTENDS Cgi, WellFoundedInduction, TLAPS

-----------------------------------------------------------------------------
(* Any number of workers *)

Labels == {"pipe stdin", "pipe stdout", "pipe stderr", "fork", "close child's stdin",
           "close child's stdout", "write", "flush", "close stdin", "read", "respond",
           "wait", "fail", "kill", "close", "done"}

\* The numbers in a worker's cgi_process_t, and the ones cgi_closeProcess closed
Made(label) ==
    IF label = "pipe stdin" THEN 0 ELSE IF label = "pipe stdout" THEN 2
    ELSE IF label = "pipe stderr" THEN 4 ELSE 6

Stored(s) == s \in Seq({s[i] : i \in DOMAIN s})

Progress ==
    /\ pc \in [Workers -> Labels]
    /\ process = [w \in Workers |-> process[w]]
    /\ closed \in [Workers -> 0..6]
    /\ \A w \in Workers :
          /\ Stored(process[w]) /\ Len(process[w]) = Made(pc[w])
          /\ pc[w] \notin {"close", "done"} => closed[w] = 0
          /\ pc[w] = "close" => closed[w] < 6
          /\ pc[w] = "done" => closed[w] = 6

\* A number that leads to a pipe is in its owner's cgi_process_t and not yet
\* closed by cgi_closeProcess.
Owned ==
    /\ fds = [n \in Numbers |-> fds[n]]
    /\ \A w \in Workers, n \in Numbers :
          fds[n] # NULL /\ fds[n].owner = w
              => \E i \in (closed[w] + 1)..Len(process[w]) : process[w][i] = n

\* Two more numbers
LEMMA TwoMore ==
  ASSUME NEW s, Stored(s), NEW a, NEW b
  PROVE  LET t == s \o <<a, b>>
         IN  /\ Stored(t) /\ Len(t) = Len(s) + 2
             /\ \A i \in 1..Len(s) : t[i] = s[i]
             /\ t[Len(s) + 1] = a /\ t[Len(s) + 2] = b
<1>. DEFINE S == {s[i] : i \in DOMAIN s} \union {a, b}
            t == s \o <<a, b>>
<1>1. s \in Seq({s[i] : i \in DOMAIN s})
  BY Zenon DEF Stored
<1>2. Len(s) \in Nat /\ DOMAIN s = 1..Len(s)
  BY <1>1
<1>3. s \in Seq(S)
  BY <1>1
<1>4. <<a, b>> \in Seq(S) /\ Len(<<a, b>>) = 2
  OBVIOUS
<1>5. /\ t \in Seq(S) /\ Len(t) = Len(s) + 2
      /\ \A i \in 1..(Len(s) + 2) : t[i] = IF i <= Len(s) THEN s[i] ELSE <<a, b>>[i - Len(s)]
  BY <1>3, <1>4
<1>6. /\ \A i \in 1..Len(s) : t[i] = s[i]
      /\ t[Len(s) + 1] = a /\ t[Len(s) + 2] = b
  <2>1. \A i \in 1..Len(s) : t[i] = s[i]
    BY <1>2, <1>5
  <2>2. t[Len(s) + 1] = <<a, b>>[1]
    BY <1>2, <1>5
  <2>3. t[Len(s) + 2] = <<a, b>>[2]
    BY <1>2, <1>5
  <2>. QED
    BY <2>1, <2>2, <2>3, Zenon
<1>7. DOMAIN t = 1..(Len(s) + 2)
  BY <1>5
<1>. HIDE DEF t
<1>8. S \subseteq {t[i] : i \in DOMAIN t}
  <2>1. \A i \in 1..Len(s) : i \in 1..(Len(s) + 2) /\ s[i] = t[i]
    BY <1>2, <1>6
  <2>2. Len(s) + 1 \in 1..(Len(s) + 2) /\ Len(s) + 2 \in 1..(Len(s) + 2)
    BY <1>2
  <2>. QED
    BY <1>2, <1>6, <1>7, <2>1, <2>2, Zenon
<1>9. t \in Seq({t[i] : i \in DOMAIN t})
  BY <1>5, <1>8
<1>. QED
  BY <1>5, <1>6, <1>9, Zenon DEF t, Stored

\* Steps that make no descriptor: at most one number is closed.
Closes == fds' = fds \/ \E n : CloseNumber(n)

\* They keep who owns what.
LEMMA OwnedKept ==
  ASSUME Owned, Closes, UNCHANGED <<process, closed>>
  PROVE  Owned'
<1>1. /\ fds' = [n \in Numbers |-> fds'[n]]
      /\ \A n \in Numbers : fds'[n] = fds[n] \/ fds'[n] = NULL
  BY Zenon DEF Closes, CloseNumber, Owned
<1>. QED
  BY <1>1 DEF Owned

\* A step of worker w between cgi_spawn's pipes and cgi_closeProcess
LEMMA Between ==
  ASSUME Progress, Owned, NEW w \in Workers, Closes, UNCHANGED <<process, closed>>,
         Len(process[w]) = 6, pc[w] \notin {"close", "done"},
         NEW to \in Labels, to \notin {"pipe stdin", "pipe stdout", "pipe stderr", "done"},
         pc' = pc \/ Goto(w, to)
  PROVE  Progress' /\ Owned'
<1>1. pc' \in [Workers -> Labels]
  BY Zenon DEF Progress, Goto
<1>2. \A u \in Workers : pc'[u] = pc[u] \/ (u = w /\ pc'[u] = to)
  BY Zenon DEF Progress, Goto
<1>3. Made(to) = 6
  BY Zenon DEF Made
<1>4. ASSUME NEW u \in Workers
      PROVE  /\ Stored(process'[u]) /\ Len(process'[u]) = Made(pc'[u])
             /\ pc'[u] \notin {"close", "done"} => closed'[u] = 0
             /\ pc'[u] = "close" => closed'[u] < 6
             /\ pc'[u] = "done" => closed'[u] = 6
  <2>1. CASE pc'[u] = pc[u]
    BY <2>1, Zenon DEF Progress
  <2>2. CASE u = w /\ pc'[u] = to
    <3>1. Stored(process[w]) /\ closed[w] = 0
      BY Zenon DEF Progress
    <3>2. closed'[u] = 0 /\ pc'[u] # "done" /\ process'[u] = process[w]
      BY <2>2, <3>1, Zenon
    <3>3. Made(pc'[u]) = 6
      BY <1>3, <2>2, Zenon
    <3>4. closed'[u] < 6
      BY ONLY <3>2
    <3>. QED
      BY <3>1, <3>2, <3>3, <3>4, Zenon
  <2>. QED
    BY <1>2, <2>1, <2>2, Zenon
<1>5. Progress'
  BY <1>1, <1>4, Zenon DEF Progress
<1>. QED
  BY <1>5, OwnedKept, Zenon

\* pipe(): the two new numbers are stored.
LEMMA PipeStores ==
  ASSUME Progress, Owned, NEW w \in Workers, NEW label, NEW s, NEW next, Pipe(w, label, s, next),
         Made(next) = Made(label) + 2,
         next \in Labels \ {"close", "done"}, label \notin {"close", "done"}
  PROVE  Progress' /\ Owned'
<1>1. PICK r, x : /\ fds' = [fds EXCEPT ![r] = End(w, s, "r"), ![x] = End(w, s, "w")]
                  /\ process' = [process EXCEPT ![w] = @ \o <<r, x>>]
  BY Zenon DEF Pipe
<1>2. pc[w] = label /\ pc' = [pc EXCEPT ![w] = next] /\ closed' = closed
  BY Zenon DEF Pipe, Goto
<1>. DEFINE p == process[w]
            t == process[w] \o <<r, x>>
<1>3. Stored(p) /\ Len(p) = Made(label) /\ Len(p) \in Nat /\ closed[w] = 0
  <2>1. Stored(p) /\ Len(p) = Made(label) /\ closed[w] = 0
    BY <1>2, Zenon DEF Progress
  <2>2. Len(p) \in Nat
    BY <2>1 DEF Stored
  <2>. QED
    BY <2>1, <2>2, Zenon
<1>4. /\ Stored(t) /\ Len(t) = Len(p) + 2
      /\ \A i \in 1..Len(p) : t[i] = p[i]
      /\ t[Len(p) + 1] = r /\ t[Len(p) + 2] = x
  BY <1>3, TwoMore
<1>5. process'[w] = t /\ \A u \in Workers \ {w} : process'[u] = process[u]
  BY <1>1, Zenon DEF Progress
<1>. HIDE DEF t, p
<1>6. Progress'
  <2>1. pc' \in [Workers -> Labels] /\ pc'[w] = next /\ \A u \in Workers \ {w} : pc'[u] = pc[u]
    BY <1>2, Zenon DEF Progress
  <2>2. process' = [u \in Workers |-> process'[u]]
    BY <1>1, Zenon DEF Progress
  <2>3. ASSUME NEW u \in Workers
        PROVE  /\ Stored(process'[u]) /\ Len(process'[u]) = Made(pc'[u])
               /\ pc'[u] \notin {"close", "done"} => closed'[u] = 0
               /\ pc'[u] = "close" => closed'[u] < 6
               /\ pc'[u] = "done" => closed'[u] = 6
    <3>1. CASE u # w
      BY <1>2, <1>5, <2>1, <3>1, Zenon DEF Progress
    <3>2. CASE u = w
      BY <1>2, <1>3, <1>4, <1>5, <2>1, <3>2, Zenon
    <3>. QED
      BY <3>1, <3>2, Zenon
  <2>4. closed' \in [Workers -> 0..6]
    BY <1>2, Zenon DEF Progress
  <2>. QED
    BY <2>1, <2>2, <2>3, <2>4, Zenon DEF Progress
<1>7. Owned'
  <2>1. /\ fds' = [n \in Numbers |-> fds'[n]]
        /\ \A n \in Numbers : \/ fds'[n] = fds[n]
                              \/ n \in {r, x} /\ fds'[n].owner = w
    BY <1>1, Zenon DEF Owned, End
  <2>2. ASSUME NEW u \in Workers, NEW n \in Numbers, fds'[n] # NULL, fds'[n].owner = u
        PROVE  \E i \in (closed'[u] + 1)..Len(process'[u]) : process'[u][i] = n
    <3>1. CASE u # w
      <4>1. fds'[n] = fds[n]
        BY <2>1, <2>2, <3>1, Zenon
      <4>. QED
        BY <1>2, <1>5, <2>2, <3>1, <4>1 DEF Owned
    <3>2. CASE u = w /\ fds'[n] = fds[n]
      <4>1. PICK i \in (closed[w] + 1)..Len(p) : p[i] = n
        BY <2>2, <3>2 DEF Owned, p
      <4>2. i \in 1..Len(p) /\ i \in (closed'[u] + 1)..Len(t)
        BY <1>2, <1>3, <1>4, <3>2, <4>1
      <4>. QED
        BY <1>4, <1>5, <3>2, <4>1, <4>2, Zenon
    <3>3. CASE u = w /\ n \in {r, x}
      BY <1>2, <1>3, <1>4, <1>5, <3>3
    <3>. QED
      BY <2>1, <3>1, <3>2, <3>3, Zenon
  <2>. QED
    BY <2>1, <2>2, Zenon DEF Owned
<1>. QED
  BY <1>6, <1>7, Zenon

\* cgi_closeProcess closes the next number.
LEMMA CloseStep ==
  ASSUME Progress, Owned, NEW w \in Workers, CloseProcess(w)
  PROVE  Progress' /\ Owned'
<1>. DEFINE c == closed[w]
            p == process[w]
<1>1. /\ pc[w] = "close" /\ c \in 0..5 /\ Len(p) = 6 /\ process' = process
      /\ closed' = [closed EXCEPT ![w] = c + 1]
      /\ fds' = [fds EXCEPT ![p[c + 1]] = NULL]
      /\ IF c + 1 < 6 THEN pc' = pc ELSE pc' = [pc EXCEPT ![w] = "done"]
  <2>1. /\ pc[w] = "close" /\ process' = process
        /\ closed' = [closed EXCEPT ![w] = c + 1]
        /\ fds' = [fds EXCEPT ![p[c + 1]] = NULL]
        /\ IF closed'[w] < 6 THEN pc' = pc ELSE pc' = [pc EXCEPT ![w] = "done"]
    BY Zenon DEF CloseProcess, CloseNumber, Goto
  <2>2. closed'[w] = c + 1
    BY <2>1, Zenon DEF Progress
  <2>3. c \in 0..5
    BY <2>1 DEF Progress
  <2>4. Len(p) = Made("close")
    BY <2>1, Zenon DEF Progress
  <2>. QED
    BY <2>1, <2>2, <2>3, <2>4, Zenon DEF Made
<1>2. /\ closed' \in [Workers -> 0..6] /\ closed'[w] = c + 1
      /\ \A u \in Workers \ {w} : closed'[u] = closed[u]
  BY <1>1 DEF Progress
<1>. HIDE DEF c
<1>3. Progress'
  <2>1. /\ pc' \in [Workers -> Labels]
        /\ pc'[w] = IF c + 1 < 6 THEN "close" ELSE "done"
        /\ \A u \in Workers \ {w} : pc'[u] = pc[u]
    BY <1>1, Zenon DEF Progress, Labels
  <2>2. ASSUME NEW u \in Workers
        PROVE  /\ Stored(process'[u]) /\ Len(process'[u]) = Made(pc'[u])
               /\ pc'[u] \notin {"close", "done"} => closed'[u] = 0
               /\ pc'[u] = "close" => closed'[u] < 6
               /\ pc'[u] = "done" => closed'[u] = 6
    <3>1. CASE u # w
      BY <1>1, <1>2, <2>1, <3>1 DEF Progress
    <3>2. CASE u = w
      <4>1. Stored(process'[u]) /\ Len(process'[u]) = 6
        BY <1>1, <3>2, Zenon DEF Progress
      <4>2. Made("close") = 6 /\ Made("done") = 6
        BY Zenon DEF Made
      <4>3. pc'[u] \in {"close", "done"} /\ (pc'[u] = "close" <=> c + 1 < 6)
        BY <2>1, <3>2, Zenon
      <4>4. Made(pc'[u]) = 6
        BY <4>2, <4>3, Zenon
      <4>. QED
        BY <1>1, <1>2, <3>2, <4>1, <4>3, <4>4
    <3>. QED
      BY <3>1, <3>2, Zenon
  <2>. QED
    BY <1>1, <1>2, <2>1, <2>2, Zenon DEF Progress
<1>4. Owned'
  <2>1. /\ fds' = [n \in Numbers |-> fds'[n]]
        /\ \A n \in Numbers : fds'[n] # NULL => fds'[n] = fds[n] /\ n # p[c + 1]
    BY <1>1, Zenon DEF Owned
  <2>2. ASSUME NEW u \in Workers, NEW n \in Numbers, fds'[n] # NULL, fds'[n].owner = u
        PROVE  \E i \in (closed'[u] + 1)..Len(process'[u]) : process'[u][i] = n
    <3>1. PICK i \in (closed[u] + 1)..Len(process[u]) : process[u][i] = n
      BY <2>1, <2>2, Zenon DEF Owned
    <3>2. CASE u # w
      BY <1>1, <1>2, <3>1, <3>2, Zenon
    <3>3. CASE u = w
      <4>1. i \in (c + 1)..6 /\ i # c + 1
        BY <1>1, <2>1, <2>2, <3>1, <3>3, Zenon DEF c
      <4>2. i \in (closed'[u] + 1)..Len(process'[u])
        BY <1>1, <1>2, <3>3, <4>1
      <4>. QED
        BY <1>1, <3>1, <4>2, Zenon
    <3>. QED
      BY <3>2, <3>3, Zenon
  <2>. QED
    BY <2>1, <2>2 DEF Owned
<1>. QED
  BY <1>3, <1>4, Zenon

\* No descriptor, and nothing closed, at first
LEMMA GiveBackInit == Init => Progress /\ Owned
<1>. SUFFICES ASSUME Init PROVE Progress /\ Owned
  OBVIOUS
<1>1. Stored(<<>>) /\ Len(<<>>) = 0
  BY DEF Stored
<1>2. Progress
  <2>1. pc \in [Workers -> Labels] /\ closed \in [Workers -> 0..6]
    <3>. "pipe stdin" \in Labels /\ 0 \in 0..6
      BY DEF Labels
    <3>. QED
      BY Zenon DEF Init
  <2>2. \A w \in Workers : process[w] = <<>> /\ pc[w] = "pipe stdin" /\ closed[w] = 0
    BY Zenon DEF Init
  <2>3. process = [w \in Workers |-> process[w]]
    BY Zenon DEF Init
  <2>4. Made("pipe stdin") = 0
    BY Zenon DEF Made
  <2>. QED
    BY <1>1, <2>1, <2>2, <2>3, <2>4, Zenon DEF Progress
<1>3. Owned
  BY Zenon DEF Init, Owned
<1>. QED
  BY <1>2, <1>3, Zenon

\* Every step keeps track of the descriptors.
LEMMA GiveBackStep == Progress /\ Owned /\ [Next]_vars => Progress' /\ Owned'
<1>. SUFFICES ASSUME Progress, Owned, [Next]_vars PROVE Progress' /\ Owned'
  OBVIOUS
<1>1. ASSUME NEW w \in Workers, Worker(w) PROVE Progress' /\ Owned'
  <2>0. /\ Made("pipe stdout") = Made("pipe stdin") + 2
        /\ Made("pipe stderr") = Made("pipe stdout") + 2
        /\ Made("fork") = Made("pipe stderr") + 2
    BY DEF Made
  <2>a. /\ {"pipe stdout", "pipe stderr", "fork"} \subseteq Labels \ {"close", "done"}
        /\ {"pipe stdin", "pipe stdout", "pipe stderr"} \intersect {"close", "done"} = {}
    BY Zenon DEF Labels
  <2>1. CASE Pipe(w, "pipe stdin", "stdin", "pipe stdout")
    BY <2>0, <2>a, <2>1, PipeStores, Zenon
  <2>2. CASE Pipe(w, "pipe stdout", "stdout", "pipe stderr")
    BY <2>0, <2>a, <2>2, PipeStores, Zenon
  <2>3. CASE Pipe(w, "pipe stderr", "stderr", "fork")
    BY <2>0, <2>a, <2>3, PipeStores, Zenon
  <2>4. CASE CloseProcess(w)
    BY <2>4, CloseStep, Zenon
  <2>5. \A l : Made(l) = 6 \/ l \in {"pipe stdin", "pipe stdout", "pipe stderr"}
    BY Zenon DEF Made
  <2>6. Len(process[w]) = Made(pc[w])
    BY Zenon DEF Progress
  <2>. DEFINE Moves(l) == UNCHANGED <<process, closed>> /\ Closes /\ (pc' = pc \/ Goto(w, l))
              Busy == pc[w] \notin {"pipe stdin", "pipe stdout", "pipe stderr", "close", "done"}
              Inner == Labels \ {"pipe stdin", "pipe stdout", "pipe stderr", "done"}
  <2>7. ASSUME Busy, NEW l \in Inner, Moves(l) PROVE Progress' /\ Owned'
    BY <2>5, <2>6, <2>7, Between, Zenon
  <2>8. CASE Fork(w)
    <3>. Moves("close child's stdin")
      BY <2>8, Zenon DEF Fork, Closes, local
    <3>. QED
      BY <2>7, <2>8, Zenon DEF Fork, Labels
  <2>9. CASE CloseChildEnds(w)
    <3>1. Moves("close child's stdout") \/ Moves("write")
      BY <2>9, Zenon DEF CloseChildEnds, Closes, local
    <3>. QED
      BY <2>7, <2>9, <3>1, Zenon DEF CloseChildEnds, Labels
  <2>10. CASE WriteBody(w) \/ WriteReturns(w)
    <3>. Moves("flush")
      BY <2>10, Zenon DEF WriteBody, WriteReturns, Closes, local, kernel
    <3>. QED
      BY <2>7, <2>10, Zenon DEF WriteBody, WriteReturns, Labels
  <2>11. CASE FlushStdin(w)
    <3>1. Moves("close stdin") \/ Moves("read")
      BY <2>11, Zenon DEF FlushStdin, Closes, local
    <3>. QED
      BY <2>7, <2>11, <3>1, Zenon DEF FlushStdin, Labels
  <2>12. CASE ReadOutput(w) \/ ReadTimeout(w) \/ ReadReturns(w)
    <3>1. Moves("fail") \/ Moves("respond")
      BY <2>12, Zenon DEF ReadOutput, ReadTimeout, ReadReturns, Misread, Closes, local, kernel
    <3>. QED
      BY <2>7, <2>12, <3>1, Zenon DEF ReadOutput, ReadTimeout, ReadReturns, Labels
  <2>13. CASE RespondOutput(w)
    <3>. Moves("wait")
      BY <2>13, Zenon DEF RespondOutput, Closes, kernel
    <3>. QED
      BY <2>7, <2>13, Zenon DEF RespondOutput, Labels
  <2>14. CASE WaitForExit(w) \/ Fail(w)
    <3>. Moves("kill")
      BY <2>14, Zenon DEF WaitForExit, Fail, Closes, kernel, local
    <3>. QED
      BY <2>7, <2>14, Zenon DEF WaitForExit, Fail, Labels
  <2>15. CASE Kill(w)
    <3>. Moves("close")
      BY <2>15, Zenon DEF Kill, Closes, local
    <3>. QED
      BY <2>7, <2>15, Zenon DEF Kill, Labels
  <2>. QED
    BY <1>1, <2>1, <2>2, <2>3, <2>4, <2>8, <2>9, <2>10, <2>11, <2>12, <2>13, <2>14, <2>15,
       Zenon
       DEF Worker
<1>2. ASSUME UNCHANGED <<fds, pc, process, closed>> PROVE Progress' /\ Owned'
  BY <1>2, OwnedKept, Zenon DEF Progress, Closes
<1>3. CASE \E w \in Workers : Script(w)
  BY <1>2, <1>3, Zenon DEF Script, ScriptReads, ScriptWrites, ScriptExits, local
<1>4. CASE Accept
  <2>1. UNCHANGED <<pc, process, closed>> /\ \E n : fds' = [fds EXCEPT ![n] = Socket]
    BY <1>4, Zenon DEF Accept, local
  <2>2. Progress'
    BY <2>1, Zenon DEF Progress
  <2>3. /\ fds' = [n \in Numbers |-> fds'[n]]
        /\ \A n \in Numbers : fds'[n] = fds[n] \/ fds'[n] = Socket
    BY <2>1, Zenon DEF Owned
  <2>4. \A w \in Workers : Socket.owner # w
    BY CgiAssumption, Zenon DEF CgiAssumption, Socket
  <2>5. Owned'
    <3>1. ASSUME NEW w \in Workers, NEW n \in Numbers, fds'[n] # NULL, fds'[n].owner = w
          PROVE  \E i \in (closed[w] + 1)..Len(process[w]) : process[w][i] = n
      <4>1. fds'[n] = fds[n]
        BY <2>3, <2>4, <3>1, Zenon
      <4>. QED
        BY <3>1, <4>1, Zenon DEF Owned
    <3>. QED
      BY <2>1, <2>3, <3>1 DEF Owned
  <2>. QED
    BY <2>2, <2>5, Zenon
<1>5. CASE UNCHANGED vars
  BY <1>2, <1>5, Zenon DEF vars
<1>. QED
  BY <1>1, <1>3, <1>4, <1>5, Zenon DEF Next, Over

\* For any number of workers and sockets, and however their calls interleave:
\* when worker_returnCGI returns, no descriptor that its cgi_spawn made is open.
THEOREM GivesBack == Spec => []DescriptorsReturned
<1>1. Progress /\ Owned => DescriptorsReturned
  <2>. SUFFICES ASSUME Progress, Owned, NEW w \in Workers, pc[w] = "done",
                       NEW n \in Numbers, fds[n] # NULL, fds[n].owner = w
                PROVE  FALSE
    BY Zenon DEF DescriptorsReturned
  <2>1. closed[w] = 6 /\ Len(process[w]) = 6
    BY Zenon DEF Progress, Made
  <2>2. PICK i \in (closed[w] + 1)..Len(process[w]) : process[w][i] = n
    BY Zenon DEF Owned
  <2>. QED
    BY <2>1, <2>2
<1>. QED
  BY <1>1, GiveBackInit, GiveBackStep, PTL DEF Spec

-----------------------------------------------------------------------------
(* A worker alone *)

\* The ends in the order of cgi_process_t, and those of them that the server
\* has open where the worker is
EndOf(w, i) == End(w, IF i \in 1..2 THEN "stdin" ELSE IF i \in 3..4 THEN "stdout" ELSE "stderr",
                      IF i \in {1, 3, 5} THEN "r" ELSE "w")

Open(label) ==
    IF label = "pipe stdin" THEN {} ELSE IF label = "pipe stdout" THEN 1..2
    ELSE IF label = "pipe stderr" THEN 1..4
    ELSE IF label \in {"fork", "close child's stdin"} THEN 1..6
    ELSE IF label = "close child's stdout" THEN 2..6
    ELSE IF label \in {"write", "flush", "close stdin"} THEN {2, 3, 5, 6} ELSE {3, 5, 6}

Types ==
    /\ fds \in [Numbers -> Ends \union {Socket, NULL}]
    /\ holds \in [Workers -> SUBSET (Ends \union {Socket})]
    /\ streams \in [Workers -> [{"stdin", "stdout"} -> Ends \union {Socket, NULL}]]
    /\ script \in [Workers -> {"none", "reading", "writing", "exited", "killed"}]
    /\ buffered \in [Workers -> [Streams -> 0..Capacity]]
    /\ written \in [Workers -> 0..Body] /\ produced \in [Workers -> 0..Output]
    /\ content \in [Workers -> Nat] /\ timeouts \in [Workers -> 0..(Retries + 1)]
    /\ response \in [Workers -> {NULL, "cgi", "500"}]
    /\ sockets \in 0..MaxSockets

\* Numbers are handed out lowest first: beyond as many as were made all are free.
Room(w) == \A n \in Numbers : n > Len(process[w]) + sockets => fds[n] = NULL

\* Until cgi_closeProcess, the numbers the worker goes by lead to its pipes, and
\* every other number is free or a socket's.
Table(w) ==
    pc[w] \notin {"close", "done"} =>
        /\ \A i \in Open(pc[w]) : process[w][i] \in Numbers /\ fds[process[w][i]] = EndOf(w, i)
        /\ \A n \in Numbers :
              fds[n] \in {NULL, Socket} \/ \E i \in Open(pc[w]) : n = process[w][i]

\* The script has its ends of the pipes and not the server's.  No chunk is lost
\* on the way, and the worker responds when no more can come.
Flow(w) ==
    /\ script[w] = "none" <=> pc[w] \in {"pipe stdin", "pipe stdout", "pipe stderr", "fork"}
    /\ holds[w] \subseteq {Socket, EndOf(w, 1), EndOf(w, 4), EndOf(w, 6)}
    /\ script[w] \in {"reading", "writing"} =>
          /\ EndOf(w, 4) \in holds[w]
          /\ streams[w].stdin = EndOf(w, 1) /\ streams[w].stdout = EndOf(w, 4)
    /\ content[w] + buffered[w]["stdout"] = produced[w]
    /\ pc[w] \in {"respond", "wait"} \/ response[w] = "cgi" =>
          script[w] \in {"exited", "killed"} /\ content[w] = produced[w]

\* A set of naturals that is not empty has a minimum.
LEMMA MinOf ==
  ASSUME NEW S \in SUBSET Nat, S # {}
  PROVE  Min(S) \in S /\ \A y \in S : Min(S) <= y
<1>. DEFINE R == OpToRel(<, Nat)
<1>1. PICK x \in S : \A y \in S : ~ (<<y, x>> \in R)
  BY NatLessThanWellFounded, WFMin, Zenon
<1>2. \A y \in S : ~ (y < x)
  BY <1>1, Zenon DEF OpToRel
<1>3. \A y \in S : x <= y
  BY <1>2, SMT
<1>. QED
  BY <1>3, Zenon DEF Min

\* The six ends are ends, and differ.
LEMMA SixEnds ==
  ASSUME NEW w \in Workers
  PROVE  /\ \A i, j \in 1..6 : EndOf(w, i) = EndOf(w, j) => i = j
         /\ \A i \in 1..6 : EndOf(w, i) \in Ends /\ EndOf(w, i) \notin {NULL, Socket}
<1>1. \A i \in 1..6 : EndOf(w, i) \in Ends
  BY Zenon DEF EndOf, End, Ends, Streams
<1>2. \A i \in 1..6 : EndOf(w, i).stream # "socket"
  BY Zenon DEF EndOf, End
<1>3. Socket.stream = "socket"
  BY Zenon DEF Socket
<1>4. \A i \in 1..6 : EndOf(w, i) \notin {NULL, Socket}
  BY <1>1, <1>2, <1>3, CgiAssumption, Zenon DEF CgiAssumption
<1>5. \A i, j \in 1..6 : EndOf(w, i) = EndOf(w, j) => i = j
  <2>. SUFFICES ASSUME NEW i \in 1..6, NEW j \in 1..6, EndOf(w, i) = EndOf(w, j) PROVE i = j
    OBVIOUS
  <2>1. EndOf(w, i).stream = EndOf(w, j).stream /\ EndOf(w, i).end = EndOf(w, j).end
    OBVIOUS
  <2>. QED
    BY <2>1 DEF EndOf, End
<1>. QED
  BY <1>1, <1>4, <1>5, Zenon

\* Open names some of the six.
LEMMA OpenSix == ASSUME NEW l PROVE Open(l) \subseteq 1..6
<1>1. \A S \in {{}, 1..2, 1..4, 1..6, 2..6, {2, 3, 5, 6}, {3, 5, 6}} : S \subseteq 1..6
  BY SMT
<1>. QED
  BY <1>1, Zenon DEF Open

\* The ends by name
LEMMA Named ==
  ASSUME NEW w
  PROVE  /\ EndOf(w, 1) = End(w, "stdin", "r") /\ EndOf(w, 2) = End(w, "stdin", "w")
         /\ EndOf(w, 3) = End(w, "stdout", "r") /\ EndOf(w, 4) = End(w, "stdout", "w")
         /\ EndOf(w, 5) = End(w, "stderr", "r") /\ EndOf(w, 6) = End(w, "stderr", "w")
BY DEF EndOf

\* Cardinality is computed by a recursive function of which there is one.
Counts(f, S) == f = [T \in SUBSET S |-> IF T = {} THEN 0 ELSE 1 + f[T \ {CHOOSE x : x \in T}]]

\* Cardinality by that function
LEMMA CountsDef == \A S : Cardinality(S) = (CHOOSE f : Counts(f, S))[S]
  BY Zenon DEF Cardinality, Counts

\* One worker has 6 numbers, and there is one for every socket.
LEMMA TableSize ==
  ASSUME NEW w, Workers = {w}
  PROVE  Numbers = 1..(6 + MaxSockets) /\ Free \subseteq Nat
<1>1. Cardinality({w}) = 1
  <2>. DEFINE g == [T \in SUBSET {w} |-> IF T = {} THEN 0 ELSE 1]
  <2>1. \A T \in SUBSET {w} : T = {} \/ (T = {w} /\ (CHOOSE y : y \in T) = w)
    OBVIOUS
  <2>2. Counts(g, {w})
    BY <2>1 DEF Counts
  <2>3. PICK f : f = (CHOOSE h : Counts(h, {w})) /\ Counts(f, {w})
    BY <2>2, Zenon
  <2>4. f = [T \in SUBSET {w} |-> IF T = {} THEN 0 ELSE 1 + f[T \ {CHOOSE y : y \in T}]]
    BY <2>3, Zenon DEF Counts
  <2>5. {w} \ {CHOOSE y : y \in {w}} = {} /\ {w} # {}
    BY <2>1, Zenon
  <2>6. f[{w}] = 1 + f[{}] /\ f[{}] = 0
    BY <2>4, <2>5, Zenon
  <2>7. f[{w}] = 1
    BY <2>6
  <2>. QED
    BY <2>3, <2>7, CountsDef, Zenon
<1>2. MaxSockets \in Nat
  BY CgiAssumption, Zenon DEF CgiAssumption
<1>3. Numbers = 1..(6 + MaxSockets)
  BY <1>1, <1>2 DEF Numbers
<1>. QED
  BY <1>2, <1>3 DEF Free

\* The counts that Room relates are naturals.
LEMMA Sizes ==
  ASSUME NEW w, Workers = {w}, Types, Progress
  PROVE  /\ sockets \in Nat /\ MaxSockets \in Nat /\ sockets <= MaxSockets
         /\ Len(process[w]) = Made(pc[w]) /\ Len(process[w]) \in 0..6
<1>1. MaxSockets \in Nat
  BY CgiAssumption, Zenon DEF CgiAssumption
<1>2. sockets \in Nat /\ sockets <= MaxSockets
  BY <1>1 DEF Types
<1>3. Len(process[w]) = Made(pc[w])
  BY Zenon DEF Progress
<1>4. Made(pc[w]) \in 0..6
  BY DEF Made
<1>. QED
  BY <1>1, <1>2, <1>3, <1>4, Zenon

\* A close() does not take a free number.
LEMMA RoomKept ==
  ASSUME NEW w, Workers = {w}, Types, Progress, Room(w), Closes, UNCHANGED <<process, sockets>>
  PROVE  Room(w)'
<1>1. \A n \in Numbers : fds[n] = NULL => fds'[n] = NULL
  BY Zenon DEF Closes, CloseNumber, Types
<1>. QED
  BY <1>1, Zenon DEF Room

\* The worker goes on with the same numbers.
LEMMA TableKept ==
  ASSUME NEW w, Table(w), UNCHANGED <<fds, process>>, pc[w] \notin {"close", "done"},
         Open(pc'[w]) = Open(pc[w])
  PROVE  Table(w)'
BY Zenon DEF Table

\* The worker closes one of its numbers and goes on with the others.
LEMMA TableClose ==
  ASSUME NEW w, Workers = {w}, Types, Table(w), NEW k \in 1..6, k \in Open(pc[w]),
         CloseNumber(process[w][k]), UNCHANGED process, pc[w] \notin {"close", "done"},
         Open(pc'[w]) = Open(pc[w]) \ {k}
  PROVE  Table(w)'
<1>. DEFINE p == process[w]
            O == Open(pc[w])
<1>1. /\ \A i \in O : p[i] \in Numbers /\ fds[p[i]] = EndOf(w, i)
      /\ \A n \in Numbers : fds[n] \in {NULL, Socket} \/ \E i \in O : n = p[i]
  BY Zenon DEF Table
<1>2. \A i \in O \ {k} : p[i] # p[k]
  BY <1>1, SixEnds, OpenSix
<1>3. \A n \in Numbers : fds'[n] = IF n = p[k] THEN NULL ELSE fds[n]
  BY Zenon DEF CloseNumber, Types
<1>4. \A i \in O \ {k} : p[i] \in Numbers /\ fds'[p[i]] = EndOf(w, i)
  BY <1>1, <1>2, <1>3, Zenon
<1>5. \A n \in Numbers : fds'[n] \in {NULL, Socket} \/ \E i \in O \ {k} : n = p[i]
  BY <1>1, <1>3, Zenon
<1>. QED
  BY <1>4, <1>5, Zenon DEF Table

\* What two calls of Min take from the free numbers
LEMMA TwoFree ==
  ASSUME NEW w, Workers = {w}, NEW m \in Nat, m + 1 \in Free, m + 2 \in Free
  PROVE  LET r == Min(Free)
             x == Min(Free \ {r})
         IN  r \in Free /\ x \in Free /\ r # x /\ r <= m + 1 /\ x <= m + 2
<1>. DEFINE r == Min(Free)
            x == Min(Free \ {r})
<1>1. Free \in SUBSET Nat /\ Free # {}
  BY TableSize, Zenon
<1>2. r \in Free /\ r <= m + 1
  BY <1>1, MinOf, Zenon
<1>. HIDE DEF r
<1>3. Free \ {r} \in SUBSET Nat /\ m + 2 \in Free \ {r}
  <2>1. r # m + 2
    BY <1>1, <1>2
  <2>. QED
    BY <1>1, <2>1, Zenon
<1>4. x \in Free \ {r} /\ x <= m + 2
  BY <1>3, MinOf, Zenon
<1>. HIDE DEF x
<1>5. r \in Free /\ x \in Free /\ r # x /\ r <= m + 1 /\ x <= m + 2
  BY <1>2, <1>4, Zenon
<1>. QED
  BY <1>5, Zenon DEF r, x

\* pipe() takes two free numbers, and they lead to the ends.
LEMMA PipeTakes ==
  ASSUME NEW w, Workers = {w}, Types, Progress, Room(w), Table(w),
         NEW from, NEW s \in Streams, NEW to, Pipe(w, from, s, to),
         NEW k \in 0..4, Made(from) = k, Open(from) = 1..k, Open(to) = 1..(k + 2),
         EndOf(w, k + 1) = End(w, s, "r"), EndOf(w, k + 2) = End(w, s, "w"),
         {from, to} \intersect {"close", "done"} = {}, to \in Labels
  PROVE  Types' /\ Room(w)' /\ Table(w)'
<1>. DEFINE r == Min(Free)
            x == Min(Free \ {r})
            p == process[w]
            t == process[w] \o <<r, x>>
<1>1. /\ pc[w] = from /\ pc' = [pc EXCEPT ![w] = to]
      /\ fds' = [fds EXCEPT ![r] = End(w, s, "r"), ![x] = End(w, s, "w")]
      /\ process' = [process EXCEPT ![w] = t]
      /\ sockets' = sockets
  BY Zenon DEF Pipe, Goto
<1>2. /\ sockets \in Nat /\ MaxSockets \in Nat
      /\ Len(p) = k /\ sockets <= MaxSockets
  BY <1>1, Sizes, Zenon
<1>3. r \in Free /\ x \in Free /\ r # x /\ r <= k + sockets + 1 /\ x <= k + sockets + 2
  <2>. DEFINE m == k + sockets
  <2>1. m \in Nat /\ m + 1 \in Numbers /\ m + 2 \in Numbers
    <3>1. Numbers = 1..(6 + MaxSockets)
      BY TableSize, Zenon
    <3>2. m \in Nat /\ m + 1 \in 1..(6 + MaxSockets) /\ m + 2 \in 1..(6 + MaxSockets)
      BY <1>2
    <3>. QED
      BY <3>1, <3>2, Zenon
  <2>2. m + 1 > Len(p) + sockets /\ m + 2 > Len(p) + sockets
    BY <1>2
  <2>. HIDE DEF m
  <2>3. m + 1 \in Free /\ m + 2 \in Free
    BY <2>1, <2>2, Zenon DEF Room, Free
  <2>4. r \in Free /\ x \in Free /\ r # x /\ r <= m + 1 /\ x <= m + 2
    BY <2>1, <2>3, TwoFree, Zenon
  <2>. QED
    BY <2>4, Zenon DEF m
<1>4. /\ Len(t) = k + 2 /\ \A i \in 1..k : t[i] = p[i]
      /\ t[k + 1] = r /\ t[k + 2] = x
  <2>1. Stored(p)
    BY Zenon DEF Progress
  <2>2. /\ Len(t) = Len(p) + 2 /\ \A i \in 1..Len(p) : t[i] = p[i]
        /\ t[Len(p) + 1] = r /\ t[Len(p) + 2] = x
    <3>. HIDE DEF r, x
    <3>. QED
      BY <2>1, TwoMore
  <2>. QED
    BY <1>2, <2>2, Zenon
<1>5. process'[w] = t
  BY <1>1, Zenon DEF Progress
<1>6. pc'[w] = to
  BY <1>1, Zenon DEF Progress
<1>. HIDE DEF r, x, p, t
<1>7. r \in Numbers /\ x \in Numbers /\ fds[r] = NULL /\ fds[x] = NULL
  BY <1>3, Zenon DEF Free
<1>8. {End(w, s, "r"), End(w, s, "w")} \subseteq Ends
  BY DEF End, Ends
<1>9. /\ fds' \in [Numbers -> Ends \union {Socket, NULL}]
      /\ fds'[r] = End(w, s, "r") /\ fds'[x] = End(w, s, "w")
      /\ \A n \in Numbers \ {r, x} : fds'[n] = fds[n]
  BY <1>1, <1>3, <1>7, <1>8, Zenon DEF Types
<1>10. Types'
  BY <1>9, Zenon DEF Pipe, Types
<1>11. Room(w)'
  <2>. SUFFICES ASSUME NEW n \in Numbers, n > k + 2 + sockets PROVE fds'[n] = NULL
    BY <1>1, <1>4, <1>5, Zenon DEF Room
  <2>1. n \in Nat /\ r \in Nat /\ x \in Nat
    <3>1. Numbers = 1..(6 + MaxSockets)
      BY TableSize, Zenon
    <3>. QED
      BY <1>2, <1>7, <3>1
  <2>2. n \notin {r, x} /\ n > k + sockets
    BY <1>2, <1>3, <2>1
  <2>3. fds[n] = NULL
    BY <1>2, <2>2, Zenon DEF Room, p
  <2>. QED
    BY <1>9, <2>2, <2>3, Zenon
<1>12. Table(w)'
  <2>1. /\ \A i \in 1..k : p[i] \in Numbers /\ fds[p[i]] = EndOf(w, i)
        /\ \A n \in Numbers : fds[n] \in {NULL, Socket} \/ \E i \in 1..k : n = p[i]
    BY <1>1, Zenon DEF Table, p
  <2>2. \A i \in 1..k : i \in 1..6
    OBVIOUS
  <2>3. \A i \in 1..k : p[i] \notin {r, x}
    BY <1>7, <2>1, <2>2, SixEnds
  <2>4. ASSUME NEW i \in 1..(k + 2) PROVE t[i] \in Numbers /\ fds'[t[i]] = EndOf(w, i)
    <3>1. CASE i \in 1..k
      BY <1>4, <1>9, <2>1, <2>3, <3>1
    <3>2. CASE i = k + 1
      BY <1>4, <1>7, <1>9, <3>2, Zenon
    <3>3. CASE i = k + 2
      BY <1>4, <1>7, <1>9, <3>3, Zenon
    <3>. QED
      BY <3>1, <3>2, <3>3
  <2>5. ASSUME NEW n \in Numbers
        PROVE  fds'[n] \in {NULL, Socket} \/ \E i \in 1..(k + 2) : n = t[i]
    <3>1. CASE n = r
      BY <1>4, <3>1
    <3>2. CASE n = x
      BY <1>4, <3>2
    <3>3. CASE n \notin {r, x}
      BY <1>4, <1>9, <2>1, <3>3
    <3>. QED
      BY <3>1, <3>2, <3>3, Zenon
  <2>. QED
    BY <1>5, <1>6, <2>4, <2>5, Zenon DEF Table
<1>. QED
  BY <1>10, <1>11, <1>12, Zenon

\* accept() takes one.
LEMMA AcceptTakes ==
  ASSUME NEW w, Workers = {w}, Types, Progress, Room(w), Table(w), Accept
  PROVE  Types' /\ Room(w)' /\ Table(w)'
<1>. DEFINE r == Min(Free)
            L == Len(process[w])
<1>1. /\ fds' = [fds EXCEPT ![r] = Socket] /\ sockets' = sockets + 1 /\ sockets < MaxSockets
      /\ UNCHANGED <<pc, process>>
  BY Zenon DEF Accept, local
<1>2. /\ sockets \in Nat /\ MaxSockets \in Nat
      /\ L \in Nat /\ L <= 6
  <2>1. sockets \in Nat /\ MaxSockets \in Nat /\ L \in 0..6
    BY Sizes, Zenon
  <2>. HIDE DEF L
  <2>. QED
    BY <2>1
<1>3. r \in Free /\ r <= L + sockets + 1
  <2>. DEFINE m == L + sockets + 1
  <2>1. m \in Numbers /\ m > L + sockets
    BY <1>1, <1>2, TableSize
  <2>2. m \in Free
    BY <2>1, Zenon DEF Room, Free
  <2>. HIDE DEF m
  <2>3. Free \in SUBSET Nat /\ Free # {}
    BY <2>2, TableSize, Zenon
  <2>4. r \in Free /\ r <= m
    BY <2>2, <2>3, MinOf, Zenon
  <2>. QED
    BY <2>4, Zenon DEF m
<1>. HIDE DEF r, L
<1>4. r \in Numbers /\ fds[r] = NULL
  BY <1>3, Zenon DEF Free
<1>5. /\ fds' \in [Numbers -> Ends \union {Socket, NULL}]
      /\ fds'[r] = Socket /\ \A n \in Numbers \ {r} : fds'[n] = fds[n]
  BY <1>1, <1>4, Zenon DEF Types
<1>6. sockets' \in 0..MaxSockets
  BY <1>1, <1>2
<1>7. Types'
  BY <1>5, <1>6, Zenon DEF Types, Accept, local
<1>9. Room(w)'
  <2>. SUFFICES ASSUME NEW n \in Numbers, n > L + (sockets + 1) PROVE fds'[n] = NULL
    BY <1>1, Zenon DEF Room, L
  <2>1. n \in Nat /\ r \in Nat
    <3>1. Numbers = 1..(6 + MaxSockets)
      BY TableSize, Zenon
    <3>. QED
      BY <1>2, <1>4, <3>1
  <2>2. n # r /\ n > L + sockets
    <3>1. n > r
      BY <1>2, <1>3, <2>1
    <3>2. n > L + sockets
      BY <1>2, <2>1
    <3>. QED
      BY <2>1, <3>1, <3>2
  <2>. QED
    BY <1>5, <2>2, Zenon DEF Room, L
<1>10. Table(w)'
  <2>. SUFFICES ASSUME pc[w] \notin {"close", "done"}
                PROVE  /\ \A i \in Open(pc[w]) : /\ process[w][i] \in Numbers
                                                 /\ fds'[process[w][i]] = EndOf(w, i)
                       /\ \A n \in Numbers : fds'[n] \in {NULL, Socket}
                                             \/ \E i \in Open(pc[w]) : n = process[w][i]
    BY <1>1, Zenon DEF Table
  <2>1. /\ \A i \in Open(pc[w]) : process[w][i] \in Numbers /\ fds[process[w][i]] = EndOf(w, i)
        /\ \A n \in Numbers :
              fds[n] \in {NULL, Socket} \/ \E i \in Open(pc[w]) : n = process[w][i]
    BY Zenon DEF Table
  <2>2. Open(pc[w]) \subseteq 1..6
    BY OpenSix, Zenon
  <2>3. \A i \in Open(pc[w]) : process[w][i] # r
    BY <1>4, <2>1, <2>2, SixEnds, Zenon
  <2>. QED
    BY <1>5, <2>1, <2>3, Zenon
<1>. QED
  BY <1>7, <1>9, <1>10, Zenon

\* What is open where: a close takes one away, and the rest leaves all of it.
LEMMA Opens ==
  /\ Open("pipe stdin") = 1..0 /\ Open("pipe stdout") = 1..2 /\ Open("pipe stderr") = 1..4
  /\ Open("fork") = 1..6 /\ Open("close child's stdin") = 1..6
  /\ Open("close child's stdout") = 1..6 \ {1} /\ Open("write") = (1..6 \ {1}) \ {4}
  /\ Open("flush") = Open("write") /\ Open("close stdin") = Open("write")
  /\ Open("read") = Open("write") \ {2}
  /\ \A l \in {"read", "respond", "wait", "fail", "kill", "close", "done"} : Open(l) = {3, 5, 6}
  /\ 1 \in Open("close child's stdin") /\ 4 \in Open("close child's stdout")
  /\ 2 \in Open("write") /\ 2 \in Open("flush") /\ 2 \in Open("close stdin")
<1>1. Open("pipe stdin") = 1..0 /\ Open("pipe stdout") = 1..2 /\ Open("pipe stderr") = 1..4
  BY DEF Open
<1>2. Open("fork") = 1..6 /\ Open("close child's stdin") = 1..6
  BY Zenon DEF Open
<1>3. Open("close child's stdout") = 2..6
  BY Zenon DEF Open
<1>4. /\ Open("write") = {2, 3, 5, 6} /\ Open("flush") = {2, 3, 5, 6}
      /\ Open("close stdin") = {2, 3, 5, 6}
  BY Zenon DEF Open
<1>5. \A l \in {"read", "respond", "wait", "fail", "kill", "close", "done"} : Open(l) = {3, 5, 6}
  BY Zenon DEF Open
<1>6. 2..6 = 1..6 \ {1} /\ {2, 3, 5, 6} = (1..6 \ {1}) \ {4} /\ {3, 5, 6} = {2, 3, 5, 6} \ {2}
  BY SMT
<1>7. 1 \in 1..6 /\ 4 \in 2..6 /\ 2 \in {2, 3, 5, 6}
  OBVIOUS
<1>. QED
  BY <1>1, <1>2, <1>3, <1>4, <1>5, <1>6, <1>7, Zenon

\* The script gets its ends, and of the rest only sockets.
LEMMA ForkGives ==
  ASSUME NEW w, Workers = {w}, Types, Progress, Table(w), Fork(w)
  PROVE  /\ script' = [script EXCEPT ![w] = "reading"]
         /\ streams' = [streams EXCEPT ![w] = [stdin |-> EndOf(w, 1), stdout |-> EndOf(w, 4)]]
         /\ \E S : /\ S \subseteq {Socket}
                   /\ holds' = [holds EXCEPT ![w] = S \union {EndOf(w, 1), EndOf(w, 4), EndOf(w, 6)}]
<1>. DEFINE p == process[w]
            inherited == {fds[n] : n \in Numbers \ {p[i] : i \in DOMAIN p}} \ {NULL}
<1>1. pc[w] = "fork" /\ Open(pc[w]) = 1..6
  BY Opens, Zenon DEF Fork
<1>2. DOMAIN p = 1..6
  <2>1. Stored(p) /\ Len(p) = Made("fork") /\ Made("fork") = 6
    BY <1>1, Zenon DEF Progress, Made
  <2>. QED
    BY <2>1 DEF Stored
<1>3. /\ \A i \in 1..6 : p[i] \in Numbers /\ fds[p[i]] = EndOf(w, i)
      /\ \A n \in Numbers : fds[n] \in {NULL, Socket} \/ \E i \in 1..6 : n = p[i]
  BY <1>1, Zenon DEF Table
<1>4. \A i, j \in 1..6 : i # j => p[i] # p[j]
  BY <1>3, SixEnds
<1>5. fds[p[1]] = EndOf(w, 1) /\ fds[p[4]] = EndOf(w, 4) /\ fds[p[6]] = EndOf(w, 6)
  BY <1>3
<1>6. p[4] \notin {p[1], p[2]} /\ p[6] \notin {p[1], p[2], p[3], p[4]}
  BY <1>4
<1>7. NULL \notin {EndOf(w, 1), EndOf(w, 4), EndOf(w, 6)}
  BY SixEnds
<1>8. inherited \subseteq {Socket}
  BY <1>2, <1>3, Zenon
<1>9. /\ script' = [script EXCEPT ![w] = "reading"]
      /\ holds' = [holds EXCEPT ![w] = inherited \union {EndOf(w, 1), EndOf(w, 4), EndOf(w, 6)}]
      /\ streams' = [streams EXCEPT ![w] = [stdin |-> EndOf(w, 1), stdout |-> EndOf(w, 4)]]
  BY <1>5, <1>6, <1>7, Zenon DEF Fork
<1>. QED
  BY <1>8, <1>9, Zenon

\* fork() in cgi_spawn
LEMMA ForkStep ==
  ASSUME NEW w, Workers = {w}, Types, Progress, Room(w), Table(w), Flow(w), Fork(w)
  PROVE  Types' /\ Room(w)' /\ Table(w)' /\ Flow(w)'
<1>1. /\ pc[w] = "fork" /\ pc' = [pc EXCEPT ![w] = "close child's stdin"]
      /\ UNCHANGED <<fds, buffered, produced, sockets, process, written, content, timeouts,
                     closed, response>>
  BY Zenon DEF Fork, Goto, local
<1>2. pc'[w] = "close child's stdin"
  BY <1>1, Zenon DEF Progress
<1>3. PICK S : /\ S \subseteq {Socket}
               /\ holds' = [holds EXCEPT ![w] = S \union {EndOf(w, 1), EndOf(w, 4), EndOf(w, 6)}]
  BY ForkGives, Zenon
<1>4. /\ script' = [script EXCEPT ![w] = "reading"]
      /\ streams' = [streams EXCEPT ![w] = [stdin |-> EndOf(w, 1), stdout |-> EndOf(w, 4)]]
  BY ForkGives, Zenon
<1>5. {EndOf(w, 1), EndOf(w, 4), EndOf(w, 6)} \subseteq Ends
  BY SixEnds
<1>6. /\ holds' \in [Workers -> SUBSET (Ends \union {Socket})]
      /\ holds'[w] = S \union {EndOf(w, 1), EndOf(w, 4), EndOf(w, 6)}
  BY <1>3, <1>5, Zenon DEF Types
<1>7. /\ streams' \in [Workers -> [{"stdin", "stdout"} -> Ends \union {Socket, NULL}]]
      /\ streams'[w].stdin = EndOf(w, 1) /\ streams'[w].stdout = EndOf(w, 4)
  BY <1>4, <1>5 DEF Types
<1>8. /\ script' \in [Workers -> {"none", "reading", "writing", "exited", "killed"}]
      /\ script'[w] = "reading" /\ script[w] = "none"
  BY <1>1, <1>4, Zenon DEF Types, Flow
<1>9. Types'
  BY <1>1, <1>6, <1>7, <1>8, Zenon DEF Types
<1>10. Room(w)'
  BY <1>1, RoomKept, Zenon DEF Closes
<1>11. Table(w)'
  BY <1>1, <1>2, TableKept, Opens, Zenon
<1>12. Flow(w)'
  <2>1. content'[w] + buffered'[w]["stdout"] = produced'[w]
    BY <1>1, Zenon DEF Flow
  <2>2. response'[w] # "cgi"
    BY <1>1, <1>8, Zenon DEF Flow
  <2>. QED
    BY <1>2, <1>3, <1>6, <1>7, <1>8, <2>1, <2>2, Zenon DEF Flow
<1>. QED
  BY <1>9, <1>10, <1>11, <1>12, Zenon

\* A chunk count of one of the pipes changes.
LEMMA PutOne ==
  ASSUME NEW w, Workers = {w}, Types, NEW s \in Streams, NEW e, NEW n \in 0..Capacity,
         Put(End(w, s, e), n)
  PROVE  /\ buffered' \in [Workers -> [Streams -> 0..Capacity]]
         /\ buffered'[w][s] = n
         /\ \A t \in Streams \ {s} : buffered'[w][t] = buffered[w][t]
<1>1. End(w, s, e).owner = w /\ End(w, s, e).stream = s
  BY Zenon DEF End
<1>2. buffered' = [buffered EXCEPT ![w][s] = n]
  BY <1>1, Zenon DEF Put
<1>. QED
  BY <1>2, Zenon DEF Types

Before == {"pipe stdin", "pipe stdout", "pipe stderr", "fork"}

\* The worker goes on, and nothing happens to the script or its output.
LEMMA FlowKept ==
  ASSUME NEW w, Flow(w), UNCHANGED <<holds, streams, script, produced, content, response>>,
         buffered'[w]["stdout"] = buffered[w]["stdout"],
         pc[w] \notin Before, pc'[w] \notin Before \union {"respond", "wait"}
  PROVE  Flow(w)'
BY Zenon DEF Flow, Before

\* The closes of cgi_spawn that follow it
LEMMA CloseChildEndsStep ==
  ASSUME NEW w, Workers = {w}, Types, Progress, Room(w), Table(w), Flow(w), CloseChildEnds(w)
  PROVE  Types' /\ Room(w)' /\ Table(w)' /\ Flow(w)'
<1>1. UNCHANGED <<holds, streams, script, buffered, produced, sockets, process, written, content,
                  timeouts, closed, response>>
  BY Zenon DEF CloseChildEnds, local
<1>2. \/ /\ pc[w] = "close child's stdin" /\ CloseNumber(process[w][1])
         /\ Goto(w, "close child's stdout")
      \/ /\ pc[w] = "close child's stdout" /\ CloseNumber(process[w][4]) /\ Goto(w, "write")
  BY Zenon DEF CloseChildEnds
<1>3. \/ pc[w] = "close child's stdin" /\ pc'[w] = "close child's stdout"
      \/ pc[w] = "close child's stdout" /\ pc'[w] = "write"
  BY <1>2, Zenon DEF Goto, Progress
<1>4. fds' \in [Numbers -> Ends \union {Socket, NULL}]
  BY <1>2, Zenon DEF CloseNumber, Types
<1>5. Types'
  BY <1>1, <1>4, Zenon DEF Types
<1>6. Room(w)'
  BY <1>1, <1>2, RoomKept, Zenon DEF Closes
<1>7. Table(w)'
  <2>1. CASE pc[w] = "close child's stdin"
    <3>1. CloseNumber(process[w][1]) /\ pc'[w] = "close child's stdout"
      BY <1>2, <1>3, <2>1, Zenon
    <3>2. 1 \in Open(pc[w]) /\ Open(pc'[w]) = Open(pc[w]) \ {1}
      BY <2>1, <3>1, Opens, Zenon
    <3>3. 1 \in 1..6
      BY ONLY SMT
    <3>4. process' = process /\ pc[w] \notin {"close", "done"}
      BY <1>1, <2>1, Zenon
    <3>. QED
      BY <3>1, <3>2, <3>3, <3>4, TableClose, Zenon
  <2>2. CASE pc[w] = "close child's stdout"
    <3>1. CloseNumber(process[w][4]) /\ pc'[w] = "write"
      BY <1>2, <1>3, <2>2, Zenon
    <3>2. 4 \in Open(pc[w]) /\ Open(pc'[w]) = Open(pc[w]) \ {4}
      BY <2>2, <3>1, Opens, Zenon
    <3>3. 4 \in 1..6
      BY ONLY SMT
    <3>4. process' = process /\ pc[w] \notin {"close", "done"}
      BY <1>1, <2>2, Zenon
    <3>. QED
      BY <3>1, <3>2, <3>3, <3>4, TableClose, Zenon
  <2>. QED
    BY <1>2, <2>1, <2>2, Zenon
<1>8. Flow(w)'
  BY <1>1, <1>3, FlowKept, Zenon DEF Before
<1>. QED
  BY <1>5, <1>6, <1>7, <1>8, Zenon

\* What write() meets while the worker writes
LEMMA StdinThere ==
  ASSUME NEW w, Workers = {w}, Table(w), pc[w] \in {"write", "flush", "close stdin"}
  PROVE  StdinOf(w) = End(w, "stdin", "w") /\ Chunks(StdinOf(w)) = buffered[w]["stdin"]
<1>1. 2 \in Open(pc[w])
  BY Opens, Zenon
<1>2. StdinOf(w) = End(w, "stdin", "w")
  BY <1>1, Named, Zenon DEF Table, StdinOf
<1>3. End(w, "stdin", "w").owner = w /\ End(w, "stdin", "w").stream = "stdin"
  BY Zenon DEF End
<1>. QED
  BY <1>2, <1>3, Zenon DEF Chunks

\* A chunk of the body, or the NUL, is put into the pipe.
LEMMA PutStdin ==
  ASSUME NEW w, Workers = {w}, Types, Table(w), pc[w] \in {"write", "flush"},
         Chunks(StdinOf(w)) < Capacity, Put(StdinOf(w), Chunks(StdinOf(w)) + 1)
  PROVE  /\ buffered' \in [Workers -> [Streams -> 0..Capacity]]
         /\ buffered'[w]["stdout"] = buffered[w]["stdout"]
<1>1. "stdin" \in Streams /\ "stdout" \in Streams \ {"stdin"}
  BY Zenon DEF Streams
<1>2. buffered[w]["stdin"] \in 0..Capacity /\ Capacity \in Nat
  BY <1>1, CgiAssumption DEF Types, CgiAssumption
<1>3. /\ StdinOf(w) = End(w, "stdin", "w") /\ buffered[w]["stdin"] < Capacity
      /\ Put(End(w, "stdin", "w"), buffered[w]["stdin"] + 1)
  BY StdinThere, Zenon
<1>4. buffered[w]["stdin"] + 1 \in 0..Capacity
  BY <1>2, <1>3
<1>. QED
  BY <1>1, <1>3, <1>4, PutOne

\* cgi_write
LEMMA WriteStep ==
  ASSUME NEW w, Workers = {w}, Types, Progress, Room(w), Table(w), Flow(w),
         WriteBody(w) \/ WriteReturns(w)
  PROVE  Types' /\ Room(w)' /\ Table(w)' /\ Flow(w)'
<1>1. /\ UNCHANGED <<fds, holds, streams, script, produced, sockets, process, content, timeouts,
                     closed, response>>
      /\ pc[w] = "write"
  BY Zenon DEF WriteBody, WriteReturns, kernel, local
<1>2. pc'[w] \in {"write", "flush"}
  BY <1>1, Zenon DEF WriteBody, WriteReturns, Goto, Progress
<1>3. written' \in [Workers -> 0..Body]
  <2>1. Body \in Nat
    BY CgiAssumption, Zenon DEF CgiAssumption
  <2>2. CASE WriteBody(w)
    <3>1. written[w] < Body /\ written[w] \in 0..Body
      BY <2>2, Zenon DEF WriteBody, Types
    <3>2. written[w] + 1 \in 0..Body
      BY <2>1, <3>1
    <3>. QED
      BY <2>2, <3>2, Zenon DEF WriteBody, Types
  <2>3. CASE WriteReturns(w)
    BY <2>3, Zenon DEF WriteReturns, local, Types
  <2>. QED
    BY <2>2, <2>3, Zenon
<1>4. /\ buffered' \in [Workers -> [Streams -> 0..Capacity]]
      /\ buffered'[w]["stdout"] = buffered[w]["stdout"]
  <2>1. CASE WriteBody(w)
    BY <1>1, <2>1, PutStdin, Zenon DEF WriteBody
  <2>2. CASE WriteReturns(w)
    BY <2>2, Zenon DEF WriteReturns, kernel, Types
  <2>. QED
    BY <2>1, <2>2, Zenon
<1>5. Types'
  BY <1>1, <1>3, <1>4, Zenon DEF Types
<1>6. Room(w)'
  BY <1>1, RoomKept, Zenon DEF Closes
<1>7. Table(w)'
  <2>1. Open(pc'[w]) = Open(pc[w])
    BY <1>1, <1>2, Opens, Zenon
  <2>. QED
    BY <1>1, <2>1, TableKept, Zenon
<1>8. Flow(w)'
  BY <1>1, <1>2, <1>4, FlowKept, Zenon DEF Before
<1>. QED
  BY <1>5, <1>6, <1>7, <1>8, Zenon

\* cgi_flushStdin: the NUL, then the close
LEMMA FlushStep ==
  ASSUME NEW w, Workers = {w}, Types, Progress, Room(w), Table(w), Flow(w), FlushStdin(w)
  PROVE  Types' /\ Room(w)' /\ Table(w)' /\ Flow(w)'
<1>1. UNCHANGED <<holds, streams, script, produced, sockets, process, written, content,
                  timeouts, closed, response>>
  BY Zenon DEF FlushStdin, local
<1>2. \/ pc[w] = "flush" /\ pc'[w] = "close stdin" /\ fds' = fds
      \/ pc[w] = "close stdin" /\ pc'[w] = "read" /\ CloseNumber(process[w][2])
  BY Zenon DEF FlushStdin, Goto, Progress
<1>3. /\ buffered' \in [Workers -> [Streams -> 0..Capacity]]
      /\ buffered'[w]["stdout"] = buffered[w]["stdout"]
  <2>1. CASE pc[w] = "flush" /\ Writable(w)
    <3>1. Chunks(StdinOf(w)) < Capacity /\ Put(StdinOf(w), Chunks(StdinOf(w)) + 1)
      BY <2>1, Zenon DEF FlushStdin
    <3>. QED
      BY <2>1, <3>1, PutStdin, Zenon
  <2>2. CASE ~(pc[w] = "flush" /\ Writable(w))
    <3>1. buffered' = buffered
      BY <2>2, Zenon DEF FlushStdin
    <3>. QED
      BY <3>1, Zenon DEF Types
  <2>. QED
    BY <2>1, <2>2, Zenon
<1>4. fds' \in [Numbers -> Ends \union {Socket, NULL}]
  BY <1>2, Zenon DEF CloseNumber, Types
<1>5. Types'
  BY <1>1, <1>3, <1>4, Zenon DEF Types
<1>6. Room(w)'
  BY <1>1, <1>2, RoomKept, Zenon DEF Closes
<1>7. Table(w)'
  <2>1. CASE pc[w] = "flush"
    BY <1>1, <1>2, <2>1, Opens, TableKept, Zenon
  <2>2. CASE pc[w] = "close stdin"
    <3>1. CloseNumber(process[w][2]) /\ pc'[w] = "read"
      BY <1>2, <2>2, Zenon
    <3>2. 2 \in Open(pc[w]) /\ Open(pc'[w]) = Open(pc[w]) \ {2}
      BY <2>2, <3>1, Opens, Zenon
    <3>3. 2 \in 1..6
      BY ONLY SMT
    <3>4. process' = process /\ pc[w] \notin {"close", "done"}
      BY <1>1, <2>2, Zenon
    <3>. QED
      BY <3>1, <3>2, <3>3, <3>4, TableClose, Zenon
  <2>. QED
    BY <1>2, <2>1, <2>2, Zenon
<1>8. Flow(w)'
  BY <1>1, <1>2, <1>3, FlowKept, Zenon DEF Before
<1>. QED
  BY <1>5, <1>6, <1>7, <1>8, Zenon

\* What cgi_read meets
LEMMA StdoutThere ==
  ASSUME NEW w, Workers = {w}, Table(w), pc[w] = "read"
  PROVE  /\ StdoutOf(w) = End(w, "stdout", "r") /\ Chunks(StdoutOf(w)) = buffered[w]["stdout"]
         /\ Intact(w)
         /\ AtEOF(w) => EndOf(w, 4) \notin holds[w]
<1>1. 3 \in Open(pc[w])
  BY Opens, Zenon
<1>2. StdoutOf(w) = End(w, "stdout", "r")
  BY <1>1, Named, Zenon DEF Table, StdoutOf
<1>3. /\ End(w, "stdout", "r").owner = w /\ End(w, "stdout", "r").stream = "stdout"
      /\ End(w, "stdout", "r").end = "r" /\ End(w, "stdout", "r") \in Ends
      /\ [End(w, "stdout", "r") EXCEPT !.end = "w"] = End(w, "stdout", "w")
  BY DEF End, Ends, Streams
<1>4. Chunks(StdoutOf(w)) = buffered[w]["stdout"]
  BY <1>2, <1>3, Zenon DEF Chunks
<1>5. Intact(w)
  BY <1>2, <1>3, Zenon DEF Intact, IsEnd
<1>6. Peer(StdoutOf(w)) = IsOpen(End(w, "stdout", "w"))
  BY <1>2, <1>3, Zenon DEF Peer
<1>7. AtEOF(w) => EndOf(w, 4) \notin holds[w]
  BY <1>6, Named, Zenon DEF AtEOF, IsOpen
<1>. QED
  BY <1>2, <1>4, <1>5, <1>7, Zenon

\* The chunks in the pipe become content.
LEMMA ReadOutputStep ==
  ASSUME NEW w, Workers = {w}, Types, Progress, Room(w), Table(w), Flow(w), ReadOutput(w)
  PROVE  Types' /\ Room(w)' /\ Table(w)' /\ Flow(w)'
<1>1. /\ UNCHANGED <<fds, holds, streams, script, produced, sockets, pc, process, written,
                     timeouts, closed, response>>
      /\ pc[w] = "read"
  BY Zenon DEF ReadOutput
<1>. DEFINE b == buffered[w]["stdout"]
<1>2. /\ content' = [content EXCEPT ![w] = @ + b] /\ Put(End(w, "stdout", "r"), 0) /\ b # 0
  BY <1>1, StdoutThere, Zenon DEF ReadOutput, Empty
<1>3. "stdout" \in Streams
  BY Zenon DEF Streams
<1>4. Capacity \in Nat /\ b \in 0..Capacity /\ content[w] \in Nat /\ 0 \in 0..Capacity
  BY <1>3, CgiAssumption DEF Types, CgiAssumption
<1>5. buffered' \in [Workers -> [Streams -> 0..Capacity]] /\ buffered'[w]["stdout"] = 0
  <2>1. 0 \in 0..Capacity /\ Put(End(w, "stdout", "r"), 0)
    BY <1>2, <1>4, Zenon
  <2>. QED
    BY <1>3, <2>1, PutOne
<1>6. content' \in [Workers -> Nat] /\ content'[w] = content[w] + b
  BY <1>2, <1>4 DEF Types
<1>7. Types'
  BY <1>1, <1>5, <1>6, Zenon DEF Types
<1>8. Room(w)'
  BY <1>1, RoomKept, Zenon DEF Closes
<1>9. Table(w)'
  BY <1>1, TableKept, Zenon
<1>10. Flow(w)'
  <2>1. content[w] + b = produced[w]
    BY Zenon DEF Flow
  <2>2. content'[w] + buffered'[w]["stdout"] = produced'[w]
    BY <1>1, <1>4, <1>5, <1>6, <2>1
  <2>3. content[w] # produced[w]
    BY <1>2, <1>4, <2>1
  <2>4. response[w] # "cgi"
    BY <2>3, Zenon DEF Flow
  <2>. QED
    BY <1>1, <2>2, <2>4, Zenon DEF Flow
<1>. QED
  BY <1>7, <1>8, <1>9, <1>10, Zenon

\* poll() times out.
LEMMA ReadTimeoutStep ==
  ASSUME NEW w, Workers = {w}, Types, Progress, Room(w), Table(w), Flow(w), ReadTimeout(w)
  PROVE  Types' /\ Room(w)' /\ Table(w)' /\ Flow(w)'
<1>1. /\ UNCHANGED <<fds, holds, streams, script, buffered, produced, sockets, process, written,
                     content, closed, response>>
      /\ pc[w] = "read"
  BY Zenon DEF ReadTimeout, kernel
<1>2. pc'[w] \in {"read", "fail"}
  BY <1>1, Zenon DEF ReadTimeout, Goto, Progress
<1>3. timeouts' \in [Workers -> 0..(Retries + 1)]
  <2>1. Retries \in Nat /\ timeouts[w] \in 0..(Retries + 1)
    BY CgiAssumption, Zenon DEF CgiAssumption, Types
  <2>2. CASE timeouts[w] > Retries
    BY <2>2, Zenon DEF ReadTimeout, Types
  <2>3. CASE ~(timeouts[w] > Retries)
    <3>1. timeouts[w] + 1 \in 0..(Retries + 1)
      BY <2>1, <2>3
    <3>. QED
      BY <2>3, <3>1, Zenon DEF ReadTimeout, Types
  <2>. QED
    BY <2>2, <2>3, Zenon
<1>4. Types'
  BY <1>1, <1>3, Zenon DEF Types
<1>5. Room(w)'
  BY <1>1, RoomKept, Zenon DEF Closes
<1>6. Table(w)'
  <2>1. Open(pc'[w]) = Open(pc[w])
    BY <1>1, <1>2, Opens, Zenon
  <2>. QED
    BY <1>1, <2>1, TableKept, Zenon
<1>7. Flow(w)'
  BY <1>1, <1>2, FlowKept, Zenon DEF Before
<1>. QED
  BY <1>4, <1>5, <1>6, <1>7, Zenon

\* The end of file is that of the script: it holds its end as long as it runs.
LEMMA ReadReturnsStep ==
  ASSUME NEW w, Workers = {w}, Types, Progress, Room(w), Table(w), Flow(w), ReadReturns(w)
  PROVE  Types' /\ Room(w)' /\ Table(w)' /\ Flow(w)'
<1>1. /\ UNCHANGED <<fds, holds, streams, script, buffered, produced, sockets, process, written,
                     content, timeouts, closed, response>>
      /\ pc[w] = "read"
  BY Zenon DEF ReadReturns, kernel, local
<1>2. Empty(w) /\ AtEOF(w) /\ Goto(w, IF content[w] = 0 THEN "fail" ELSE "respond")
  BY <1>1, StdoutThere, Zenon DEF ReadReturns
<1>3. pc'[w] \in {"fail", "respond"}
  BY <1>2, Zenon DEF Goto, Progress
<1>4. Types'
  BY <1>1, Zenon DEF Types
<1>5. Room(w)'
  BY <1>1, RoomKept, Zenon DEF Closes
<1>6. Table(w)'
  <2>1. Open(pc'[w]) = Open(pc[w])
    BY <1>1, <1>3, Opens, Zenon
  <2>. QED
    BY <1>1, <2>1, TableKept, Zenon
<1>7. Flow(w)'
  <2>1. buffered[w]["stdout"] = 0
    BY <1>1, <1>2, StdoutThere, Zenon DEF Empty
  <2>2. EndOf(w, 4) \notin holds[w]
    BY <1>1, <1>2, StdoutThere, Zenon
  <2>3. script[w] \in {"none", "reading", "writing", "exited", "killed"}
    BY Zenon DEF Types
  <2>4. script[w] \in {"exited", "killed"}
    BY <1>1, <2>2, <2>3, Zenon DEF Flow
  <2>5. content[w] \in Nat
    BY Zenon DEF Types
  <2>6. content[w] = produced[w]
    <3>1. content[w] + 0 = produced[w]
      BY <2>1, Zenon DEF Flow
    <3>. QED
      BY ONLY <2>5, <3>1
  <2>. QED
    BY <1>1, <1>3, <2>4, <2>6, Zenon DEF Flow
<1>. QED
  BY <1>4, <1>5, <1>6, <1>7, Zenon

\* The response, cgi_waitForExit, and the failure path
LEMMA EndingStep ==
  ASSUME NEW w, Workers = {w}, Types, Progress, Room(w), Table(w), Flow(w),
         RespondOutput(w) \/ WaitForExit(w) \/ Fail(w)
  PROVE  Types' /\ Room(w)' /\ Table(w)' /\ Flow(w)'
<1>1. /\ UNCHANGED <<fds, holds, streams, script, buffered, produced, sockets, process, written,
                     content, timeouts, closed>>
      /\ \/ /\ pc[w] = "respond" /\ Goto(w, "wait")
            /\ response' = [response EXCEPT ![w] = "cgi"]
         \/ pc[w] \in {"wait", "fail"} /\ Goto(w, "kill") /\ response' = response
  BY Zenon DEF RespondOutput, WaitForExit, Fail, kernel, local
<1>2. \/ pc[w] = "respond" /\ pc'[w] = "wait"
      \/ pc[w] \in {"wait", "fail"} /\ pc'[w] = "kill" /\ response' = response
  BY <1>1, Zenon DEF Goto, Progress
<1>3. response' \in [Workers -> {NULL, "cgi", "500"}]
  BY <1>1, Zenon DEF Types
<1>4. Types'
  BY <1>1, <1>3, Zenon DEF Types
<1>5. Room(w)'
  BY <1>1, RoomKept, Zenon DEF Closes
<1>6. Table(w)'
  <2>1. Open(pc'[w]) = Open(pc[w])
    BY <1>2, Opens, Zenon
  <2>. QED
    BY <1>1, <1>2, <2>1, TableKept, Zenon
<1>7. Flow(w)'
  BY <1>1, <1>2, Zenon DEF Flow
<1>. QED
  BY <1>4, <1>5, <1>6, <1>7, Zenon

\* kill() in cgi_closeProcess
LEMMA KillStep ==
  ASSUME NEW w, Workers = {w}, Types, Progress, Room(w), Table(w), Flow(w), Kill(w)
  PROVE  Types' /\ Room(w)' /\ Table(w)' /\ Flow(w)'
<1>1. /\ UNCHANGED <<fds, streams, buffered, produced, sockets, process, written, content,
                     timeouts, closed, response>>
      /\ pc[w] = "kill" /\ pc' = [pc EXCEPT ![w] = "close"]
      /\ script' = [script EXCEPT ![w] = IF @ = "exited" THEN @ ELSE "killed"]
      /\ holds' = [holds EXCEPT ![w] = {}]
  BY Zenon DEF Kill, Goto, local
<1>2. pc'[w] = "close"
  BY <1>1, Zenon DEF Progress
<1>3. /\ script' \in [Workers -> {"none", "reading", "writing", "exited", "killed"}]
      /\ script'[w] \in {"exited", "killed"}
      /\ holds' \in [Workers -> SUBSET (Ends \union {Socket})] /\ holds'[w] = {}
  BY <1>1, Zenon DEF Types
<1>4. Types'
  BY <1>1, <1>3, Zenon DEF Types
<1>5. Room(w)'
  BY <1>1, RoomKept, Zenon DEF Closes
<1>6. Table(w)'
  BY <1>2, Zenon DEF Table
<1>7. Flow(w)'
  BY <1>1, <1>2, <1>3, Zenon DEF Flow
<1>. QED
  BY <1>4, <1>5, <1>6, <1>7, Zenon

\* The six closes: the numbers may be anyone's, but the worker is done reading.
LEMMA CloseProcessStep ==
  ASSUME NEW w, Workers = {w}, Types, Progress, Room(w), Table(w), Flow(w), CloseProcess(w)
  PROVE  Types' /\ Room(w)' /\ Table(w)' /\ Flow(w)'
<1>1. /\ UNCHANGED <<holds, streams, script, buffered, produced, sockets, process, written,
                     content, timeouts>>
      /\ pc[w] = "close" /\ (pc' = pc \/ Goto(w, "done"))
      /\ \E n : CloseNumber(n)
      /\ \/ response' = response
         \/ response' = [response EXCEPT ![w] = IF @ = NULL THEN "500" ELSE @]
  BY Zenon DEF CloseProcess
<1>2. pc'[w] \in {"close", "done"}
  BY <1>1, Zenon DEF Goto, Progress
<1>3. /\ response' \in [Workers -> {NULL, "cgi", "500"}]
      /\ response'[w] = "cgi" => response[w] = "cgi"
  BY <1>1, Zenon DEF Types
<1>4. fds' \in [Numbers -> Ends \union {Socket, NULL}]
  BY <1>1, Zenon DEF CloseNumber, Types
<1>5. Types'
  BY <1>1, <1>3, <1>4, Zenon DEF Types
<1>6. Room(w)'
  BY <1>1, RoomKept, Zenon DEF Closes
<1>7. Table(w)'
  BY <1>2, Zenon DEF Table
<1>8. Flow(w)'
  BY <1>1, <1>2, <1>3, Zenon DEF Flow
<1>. QED
  BY <1>5, <1>6, <1>7, <1>8, Zenon

\* The script takes its input, or goes on to write.
LEMMA ScriptReadsStep ==
  ASSUME NEW w, Workers = {w}, Types, Progress, Room(w), Table(w), Flow(w), ScriptReads(w)
  PROVE  Types' /\ Room(w)' /\ Table(w)' /\ Flow(w)'
<1>1. /\ UNCHANGED <<fds, holds, streams, produced, sockets, pc, process, written, content,
                     timeouts, closed, response>>
      /\ script[w] = "reading"
  BY Zenon DEF ScriptReads, local
<1>2. Input(w) = End(w, "stdin", "r")
  BY <1>1, Named, Zenon DEF Flow, Input
<1>3. \/ Put(End(w, "stdin", "r"), 0) /\ script' = script
      \/ buffered' = buffered /\ script' = [script EXCEPT ![w] = "writing"]
  BY <1>2, Zenon DEF ScriptReads
<1>4. /\ buffered' \in [Workers -> [Streams -> 0..Capacity]]
      /\ buffered'[w]["stdout"] = buffered[w]["stdout"]
  <2>1. "stdin" \in Streams /\ "stdout" \in Streams \ {"stdin"}
    BY Zenon DEF Streams
  <2>2. 0 \in 0..Capacity
    BY CgiAssumption DEF CgiAssumption
  <2>3. CASE Put(End(w, "stdin", "r"), 0)
    BY <2>1, <2>2, <2>3, PutOne, Zenon
  <2>4. CASE buffered' = buffered
    BY <2>4, Zenon DEF Types
  <2>. QED
    BY <1>3, <2>3, <2>4, Zenon
<1>5. /\ script' \in [Workers -> {"none", "reading", "writing", "exited", "killed"}]
      /\ script'[w] \in {"reading", "writing"}
  BY <1>1, <1>3, Zenon DEF Types
<1>6. Types'
  BY <1>1, <1>4, <1>5, Zenon DEF Types
<1>7. Room(w)'
  BY <1>1, RoomKept, Zenon DEF Closes
<1>8. Table(w)'
  BY <1>1, Zenon DEF Table
<1>9. Flow(w)'
  BY <1>1, <1>4, <1>5, Zenon DEF Flow
<1>. QED
  BY <1>6, <1>7, <1>8, <1>9, Zenon

\* A chunk of the output goes into the pipe.
LEMMA ScriptWritesStep ==
  ASSUME NEW w, Workers = {w}, Types, Progress, Room(w), Table(w), Flow(w), ScriptWrites(w)
  PROVE  Types' /\ Room(w)' /\ Table(w)' /\ Flow(w)'
<1>1. /\ UNCHANGED <<fds, holds, streams, script, sockets, pc, process, written, content,
                     timeouts, closed, response>>
      /\ script[w] = "writing" /\ produced[w] < Output
      /\ produced' = [produced EXCEPT ![w] = @ + 1]
  BY Zenon DEF ScriptWrites, local
<1>. DEFINE b == buffered[w]["stdout"]
<1>2. streams[w].stdout = End(w, "stdout", "w")
  BY <1>1, Named, Zenon DEF Flow
<1>3. End(w, "stdout", "w").owner = w /\ End(w, "stdout", "w").stream = "stdout"
  BY Zenon DEF End
<1>4. Chunks(streams[w].stdout) = b
  BY <1>2, <1>3, Zenon DEF Chunks
<1>5. b < Capacity /\ Put(End(w, "stdout", "w"), b + 1)
  BY <1>2, <1>4, Zenon DEF ScriptWrites
<1>6. "stdout" \in Streams
  BY Zenon DEF Streams
<1>7. /\ Capacity \in Nat /\ b \in 0..Capacity /\ Output \in Nat
      /\ produced[w] \in 0..Output /\ content[w] \in Nat
  BY <1>6, CgiAssumption DEF CgiAssumption, Types
<1>8. content[w] + b = produced[w]
  BY Zenon DEF Flow
<1>. HIDE DEF b
<1>9. b + 1 \in 0..Capacity /\ produced[w] + 1 \in 0..Output
  BY <1>1, <1>5, <1>7
<1>10. buffered' \in [Workers -> [Streams -> 0..Capacity]] /\ buffered'[w]["stdout"] = b + 1
  <2>. DEFINE n == b + 1
  <2>1. n \in 0..Capacity /\ Put(End(w, "stdout", "w"), n)
    BY <1>5, <1>9, Zenon
  <2>. HIDE DEF n
  <2>2. buffered' \in [Workers -> [Streams -> 0..Capacity]] /\ buffered'[w]["stdout"] = n
    BY ONLY Workers = {w}, Types, <1>6, <2>1, PutOne
  <2>. QED
    BY <2>2, Zenon DEF n
<1>11. produced' \in [Workers -> 0..Output] /\ produced'[w] = produced[w] + 1
  BY <1>1, <1>9, Zenon DEF Types
<1>12. Types'
  BY <1>1, <1>10, <1>11, Zenon DEF Types
<1>13. Room(w)'
  BY <1>1, RoomKept, Zenon DEF Closes
<1>14. Table(w)'
  BY <1>1, Zenon DEF Table
<1>15. Flow(w)'
  <2>1. content'[w] + buffered'[w]["stdout"] = produced'[w]
    <3>1. content[w] + (b + 1) = produced[w] + 1
      <4>. b \in Nat /\ content[w] \in Nat
        BY <1>7
      <4>. QED
        BY <1>8
    <3>2. /\ content'[w] = content[w] /\ buffered'[w]["stdout"] = b + 1
          /\ produced'[w] = produced[w] + 1
      BY <1>1, <1>10, <1>11, Zenon
    <3>. QED
      BY <3>1, <3>2, Zenon
  <2>2. ~(pc[w] \in {"respond", "wait"} \/ response[w] = "cgi")
    BY <1>1, Zenon DEF Flow
  <2>. QED
    BY <1>1, <2>1, <2>2, Zenon DEF Flow
<1>. QED
  BY <1>12, <1>13, <1>14, <1>15, Zenon

\* The script exits and lets go of its ends.
LEMMA ScriptExitsStep ==
  ASSUME NEW w, Workers = {w}, Types, Progress, Room(w), Table(w), Flow(w), ScriptExits(w)
  PROVE  Types' /\ Room(w)' /\ Table(w)' /\ Flow(w)'
<1>1. /\ UNCHANGED <<fds, streams, buffered, produced, sockets, pc, process, written, content,
                     timeouts, closed, response>>
      /\ script[w] \in {"reading", "writing"}
      /\ script' = [script EXCEPT ![w] = "exited"] /\ holds' = [holds EXCEPT ![w] = {}]
  BY Zenon DEF ScriptExits, local
<1>2. /\ script' \in [Workers -> {"none", "reading", "writing", "exited", "killed"}]
      /\ script'[w] = "exited"
      /\ holds' \in [Workers -> SUBSET (Ends \union {Socket})] /\ holds'[w] = {}
  BY <1>1, Zenon DEF Types
<1>3. Types'
  BY <1>1, <1>2, Zenon DEF Types
<1>4. Room(w)'
  BY <1>1, RoomKept, Zenon DEF Closes
<1>5. Table(w)'
  BY <1>1, Zenon DEF Table
<1>6. Flow(w)'
  BY <1>1, <1>2, Zenon DEF Flow
<1>. QED
  BY <1>3, <1>4, <1>5, <1>6, Zenon

\* pipe() leaves the script alone: there is none yet.
LEMMA PipeStep ==
  ASSUME NEW w, Workers = {w}, Types, Progress, Room(w), Table(w), Flow(w),
         NEW from \in Before \ {"fork"}, NEW to \in Before, NEW s, Pipe(w, from, s, to)
  PROVE  Flow(w)'
<1>1. /\ UNCHANGED <<holds, streams, script, buffered, content, produced, response>>
      /\ pc[w] = from /\ pc'[w] = to
  BY Zenon DEF Pipe, Goto, Progress
<1>. QED
  BY <1>1, Zenon DEF Flow, Before

\* Every number is free at first.
LEMMA AloneInit ==
  ASSUME NEW w, Workers = {w}, Init
  PROVE  Types /\ Room(w) /\ Table(w) /\ Flow(w)
<1>1. {MaxSockets, Body, Output, Retries, Capacity} \subseteq Nat
  BY CgiAssumption, Zenon DEF CgiAssumption
<1>2. Types
  <2>1. /\ fds \in [Numbers -> Ends \union {Socket, NULL}]
        /\ holds \in [Workers -> SUBSET (Ends \union {Socket})]
    BY Zenon DEF Init
  <2>2. streams \in [Workers -> [{"stdin", "stdout"} -> Ends \union {Socket, NULL}]]
    <3>1. [stdin |-> NULL, stdout |-> NULL] \in [{"stdin", "stdout"} -> Ends \union {Socket, NULL}]
      OBVIOUS
    <3>. QED
      BY <3>1, Zenon DEF Init
  <2>3. script \in [Workers -> {"none", "reading", "writing", "exited", "killed"}]
    BY Zenon DEF Init
  <2>4. response \in [Workers -> {NULL, "cgi", "500"}]
    BY Zenon DEF Init
  <2>5. 0 \in 0..Capacity /\ 0 \in 0..Body /\ 0 \in 0..Output /\ 0 \in 0..MaxSockets
    BY <1>1
  <2>6. 0 \in 0..(Retries + 1) /\ 0 \in Nat
    BY <1>1
  <2>7. buffered \in [Workers -> [Streams -> 0..Capacity]]
    BY <2>5, Zenon DEF Init
  <2>8. /\ written \in [Workers -> 0..Body] /\ produced \in [Workers -> 0..Output]
        /\ content \in [Workers -> Nat] /\ timeouts \in [Workers -> 0..(Retries + 1)]
        /\ sockets \in 0..MaxSockets
    BY <2>5, <2>6, Zenon DEF Init
  <2>. QED
    BY <2>1, <2>2, <2>3, <2>4, <2>7, <2>8, Zenon DEF Types
<1>3. Room(w)
  BY Zenon DEF Init, Room
<1>4. Table(w)
  <2>1. pc[w] = "pipe stdin" /\ \A n \in Numbers : fds[n] = NULL
    BY Zenon DEF Init
  <2>2. Open(pc[w]) = {}
    BY <2>1, Zenon DEF Open
  <2>. QED
    BY <2>1, <2>2, Zenon DEF Table
<1>5. Flow(w)
  <2>1. /\ script[w] = "none" /\ pc[w] = "pipe stdin" /\ holds[w] = {}
        /\ response[w] = NULL
    BY Zenon DEF Init
  <2>2. content[w] = 0 /\ produced[w] = 0 /\ buffered[w]["stdout"] = 0
    BY Zenon DEF Init, Streams
  <2>3. NULL # "cgi"
    BY CgiAssumption, Zenon DEF CgiAssumption
  <2>4. content[w] + buffered[w]["stdout"] = produced[w]
    BY <2>2
  <2>5. response[w] # "cgi"
    BY <2>1, <2>3, Zenon
  <2>. QED
    BY <2>1, <2>4, <2>5, Zenon DEF Flow
<1>. QED
  BY <1>2, <1>3, <1>4, <1>5, Zenon

\* Every step of the worker, of its script, or of accept() keeps the invariant.
LEMMA AloneStep ==
  ASSUME NEW w, Workers = {w}, Types, Progress, Room(w), Table(w), Flow(w), [Next]_vars
  PROVE  Types' /\ Room(w)' /\ Table(w)' /\ Flow(w)'
<1>1. {"stdin", "stdout", "stderr"} \subseteq Streams
  BY Zenon DEF Streams
<1>2. /\ Made("pipe stdin") = 0 /\ Made("pipe stdout") = 2 /\ Made("pipe stderr") = 4
      /\ {"pipe stdin", "pipe stdout", "pipe stderr", "fork"} \subseteq Labels
  BY Zenon DEF Made, Labels
<1>3. CASE Pipe(w, "pipe stdin", "stdin", "pipe stdout")
  <2>1. Flow(w)'
    BY <1>3, PipeStep, Zenon DEF Before
  <2>2. PICK k : k = 0
    OBVIOUS
  <2>3. k + 1 = 1 /\ k + 2 = 2 /\ k \in 0..4
    BY ONLY <2>2, SMT
  <2>4. EndOf(w, k + 1) = End(w, "stdin", "r") /\ EndOf(w, k + 2) = End(w, "stdin", "w")
    BY <2>3, Named, Zenon
  <2>5. Open("pipe stdin") = 1..k /\ Open("pipe stdout") = 1..(k + 2) /\ Made("pipe stdin") = k
    BY <1>2, <2>2, <2>3, Opens, Zenon
  <2>6. /\ {"pipe stdin", "pipe stdout"} \intersect {"close", "done"} = {}
        /\ "pipe stdout" \in Labels /\ "stdin" \in Streams
    BY <1>1, <1>2, Zenon
  <2>. QED
    BY <1>3, <2>1, <2>3, <2>4, <2>5, <2>6, PipeTakes, Zenon
<1>4. CASE Pipe(w, "pipe stdout", "stdout", "pipe stderr")
  <2>1. Flow(w)'
    BY <1>4, PipeStep, Zenon DEF Before
  <2>2. PICK k : k = 2
    OBVIOUS
  <2>3. k + 1 = 3 /\ k + 2 = 4 /\ k \in 0..4
    BY ONLY <2>2, SMT
  <2>4. EndOf(w, k + 1) = End(w, "stdout", "r") /\ EndOf(w, k + 2) = End(w, "stdout", "w")
    BY <2>3, Named, Zenon
  <2>5. Open("pipe stdout") = 1..k /\ Open("pipe stderr") = 1..(k + 2) /\ Made("pipe stdout") = k
    BY <1>2, <2>2, <2>3, Opens, Zenon
  <2>6. /\ {"pipe stdout", "pipe stderr"} \intersect {"close", "done"} = {}
        /\ "pipe stderr" \in Labels /\ "stdout" \in Streams
    BY <1>1, <1>2, Zenon
  <2>. QED
    BY <1>4, <2>1, <2>3, <2>4, <2>5, <2>6, PipeTakes, Zenon
<1>5. CASE Pipe(w, "pipe stderr", "stderr", "fork")
  <2>1. Flow(w)'
    BY <1>5, PipeStep, Zenon DEF Before
  <2>2. PICK k : k = 4
    OBVIOUS
  <2>3. k + 1 = 5 /\ k + 2 = 6 /\ k \in 0..4
    BY ONLY <2>2, SMT
  <2>4. EndOf(w, k + 1) = End(w, "stderr", "r") /\ EndOf(w, k + 2) = End(w, "stderr", "w")
    BY <2>3, Named, Zenon
  <2>5. Open("pipe stderr") = 1..k /\ Open("fork") = 1..(k + 2) /\ Made("pipe stderr") = k
    BY <1>2, <2>2, <2>3, Opens, Zenon
  <2>6. /\ {"pipe stderr", "fork"} \intersect {"close", "done"} = {}
        /\ "fork" \in Labels /\ "stderr" \in Streams
    BY <1>1, <1>2, Zenon
  <2>. QED
    BY <1>5, <2>1, <2>3, <2>4, <2>5, <2>6, PipeTakes, Zenon
<1>6. CASE Worker(w)
  BY <1>3, <1>4, <1>5, <1>6, ForkStep, CloseChildEndsStep, WriteStep, FlushStep,
     ReadOutputStep,
     ReadTimeoutStep, ReadReturnsStep, EndingStep, KillStep, CloseProcessStep, Zenon DEF Worker
<1>7. CASE Script(w)
  BY <1>7, ScriptReadsStep, ScriptWritesStep, ScriptExitsStep, Zenon DEF Script
<1>8. CASE Accept
  <2>1. UNCHANGED <<holds, streams, script, buffered, produced, pc, content, response>>
    BY <1>8, Zenon DEF Accept, local
  <2>2. Flow(w)'
    BY <2>1, Zenon DEF Flow
  <2>. QED
    BY <1>8, <2>2, AcceptTakes, Zenon
<1>9. CASE UNCHANGED vars
  BY <1>9, Zenon DEF vars, Types, Room, Free, Table, Flow
<1>. QED
  BY <1>6, <1>7, <1>8, <1>9, Zenon DEF Next, Over

\* The inductive invariant of a worker alone
LEMMA AloneInvariant ==
  ASSUME NEW w, Workers = {w}
  PROVE  Spec => [](Types /\ Progress /\ Owned /\ Room(w) /\ Table(w) /\ Flow(w))
<1>1. Init => Types /\ Progress /\ Owned /\ Room(w) /\ Table(w) /\ Flow(w)
  BY AloneInit, GiveBackInit, Zenon
<1>2. /\ Types /\ Progress /\ Owned /\ Room(w) /\ Table(w) /\ Flow(w)
      /\ [Next]_vars
      => (Types /\ Progress /\ Owned /\ Room(w) /\ Table(w) /\ Flow(w))'
  BY AloneStep, GiveBackStep, Zenon
<1>. QED
  BY <1>1, <1>2, PTL DEF Spec

\* For a worker alone, with any body, output, pipe capacity and number of
\* sockets accepted meanwhile: a response with the script's output holds all
\* the script wrote.
THEOREM WholeOutput ==
  ASSUME NEW w, Workers = {w}
  PROVE  Spec => []CompleteResponse
<1>1. Types /\ Progress /\ Flow(w) => CompleteResponse
  <2>. SUFFICES ASSUME Types, Progress, Flow(w) PROVE CompleteResponse
    OBVIOUS
  <2>1. Len(process[w]) \in {0, 2, 4, 6} /\ closed[w] \in 0..6
    <3>1. Made(pc[w]) \in {0, 2, 4, 6}
      BY Zenon DEF Made
    <3>. QED
      BY <3>1, Zenon DEF Progress
  <2>2. TypeOK
    BY <2>1, Zenon DEF Types, TypeOK
  <2>. QED
    BY <2>2, Zenon DEF CompleteResponse, Flow
<1>. QED
  BY <1>1, AloneInvariant, PTL

\* For a worker alone: once cgi_flushStdin has closed the input, nobody has the
\* write end of it open, so that the script reads its end of file.
THEOREM InputEnds ==
  ASSUME NEW w, Workers = {w}
  PROVE  Spec => []ProcessReceivesEOF
<1>1. Types /\ Table(w) /\ Flow(w) => ProcessReceivesEOF
  <2>. SUFFICES ASSUME Types, Table(w), Flow(w), pc[w] = "read", IsOpen(EndOf(w, 2)) PROVE FALSE
    BY Named, Zenon DEF ProcessReceivesEOF
  <2>1. \A i \in 1..6 \ {2} : EndOf(w, i) # EndOf(w, 2)
    BY SixEnds
  <2>2. EndOf(w, 2) \notin {NULL, Socket}
    BY SixEnds
  <2>3. EndOf(w, 2) \notin holds[w]
    BY <2>1, <2>2 DEF Flow
  <2>4. Open(pc[w]) = {3, 5, 6}
    BY Opens, Zenon
  <2>5. \A n \in Numbers : fds[n] # EndOf(w, 2)
    BY <2>1, <2>2, <2>4 DEF Table
  <2>. QED
    BY <2>3, <2>5, Zenon DEF IsOpen
<1>. QED
  BY <1>1, AloneInvariant, PTL

=============================================================================
