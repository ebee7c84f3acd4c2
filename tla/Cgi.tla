--------------------------------- MODULE Cgi ---------------------------------
(***************************************************************************)
(* worker_returnCGI of worker.c and cgi.c: each worker runs a script whose *)
(* standard streams are pipes.  All workers share one descriptor table, in *)
(* which a new descriptor gets the lowest free number; a forked script     *)
(* inherits every descriptor that is open at that moment, and keeps them   *)
(* through execve().                                                       *)
(***************************************************************************)
EXTENDS Naturals, Sequences, FiniteSetsExt

CONSTANTS
    Workers,
    MaxSockets,  \* connections accepted meanwhile by the main thread
    Body,        \* chunks of the request's body
    Output,      \* chunks a script writes at most
    Capacity,    \* chunks a pipe holds
    Retries,     \* the 5 of "timeouts++ > 5"
    NULL

Streams == {"stdin", "stdout", "stderr"}
Ends == [owner : Workers, stream : Streams, end : {"r", "w"}]
Socket == [owner |-> NULL, stream |-> "socket", end |-> "rw"]
Numbers == 1..(6 * Cardinality(Workers) + MaxSockets)

ASSUME CgiAssumption ==
    /\ Workers # {}
    /\ {MaxSockets, Body, Output, Retries} \subseteq Nat
    /\ Capacity \in Nat \ {0}
    /\ NULL \notin Workers \union {"cgi", "500"}
    /\ NULL \notin Ends \union {Socket}

VARIABLES
    fds,       \* the server's descriptor table
    process,   \* the pipe descriptors stored in each worker's cgi_process_t
    holds,     \* the ends each script has open
    streams,   \* the ends that are each script's standard input and output
    script,    \* "none", "reading", "writing", "exited", or "killed"
    buffered,  \* chunks in each pipe
    pc,        \* where each worker is
    written,   \* chunks of the body written
    content,   \* chunks of the response read
    timeouts,  \* local timeouts of cgi_read
    produced,  \* chunks the script has written
    closed,    \* closes of cgi_closeProcess done
    response,  \* NULL, "cgi" or "500"
    sockets    \* sockets accepted

vars == <<fds, process, holds, streams, script, buffered, pc, written, content, timeouts,
          produced, closed, response, sockets>>

\* descriptors and processes / the rest of a worker's state
kernel == <<fds, holds, streams, script, buffered, produced, sockets>>
local  == <<process, written, content, timeouts, closed, response>>

Init ==
    /\ fds = [n \in Numbers |-> NULL]
    /\ process = [w \in Workers |-> <<>>]
    /\ holds = [w \in Workers |-> {}]
    /\ streams = [w \in Workers |-> [stdin |-> NULL, stdout |-> NULL]]
    /\ script = [w \in Workers |-> "none"]
    /\ buffered = [w \in Workers |-> [s \in Streams |-> 0]]
    /\ pc = [w \in Workers |-> "pipe stdin"]
    /\ written = [w \in Workers |-> 0]
    /\ content = [w \in Workers |-> 0]
    /\ timeouts = [w \in Workers |-> 0]
    /\ produced = [w \in Workers |-> 0]
    /\ closed = [w \in Workers |-> 0]
    /\ response = [w \in Workers |-> NULL]
    /\ sockets = 0

-----------------------------------------------------------------------------
(* The kernel *)

End(w, s, e) == [owner |-> w, stream |-> s, end |-> e]

Free == {n \in Numbers : fds[n] = NULL}

\* Someone, the server or a script, has the end open.
IsOpen(e) ==
    \/ \E n \in Numbers : fds[n] = e
    \/ \E w \in Workers : e \in holds[w]

\* A descriptor is the read end, or the write end, of some pipe.
IsEnd(d, e) == d \in Ends /\ d.end = e

\* The chunks in the pipe d is an end of, and whether its other end is open
Chunks(d) == buffered[d.owner][d.stream]
Peer(d) == IsOpen([d EXCEPT !.end = IF d.end = "r" THEN "w" ELSE "r"])

Put(d, n) == buffered' = [buffered EXCEPT ![d.owner][d.stream] = n]

\* close(n): EBADF does no harm, but the number may be someone else's by now
CloseNumber(n) == fds' = [fds EXCEPT ![n] = NULL]

Goto(w, label) == pc' = [pc EXCEPT ![w] = label]

-----------------------------------------------------------------------------
(* cgi_spawn *)

\* pipe(): the two lowest free numbers, the read end first
Pipe(w, label, s, next) ==
    /\ pc[w] = label
    /\ LET r == Min(Free)
           x == Min(Free \ {r})
       IN  /\ fds' = [fds EXCEPT ![r] = End(w, s, "r"), ![x] = End(w, s, "w")]
           /\ process' = [process EXCEPT ![w] = @ \o <<r, x>>]
    /\ Goto(w, next)
    /\ UNCHANGED <<holds, streams, script, buffered, written, content, timeouts, produced,
                   closed, response, sockets>>

\* fork(), and in the child a dup2() and two closes per stream, then execve().
\* The child exits if a number it redirects is closed, by itself or before.
\* Whatever else the table holds is inherited.
Fork(w) ==
    /\ pc[w] = "fork"
    /\ LET p == process[w]
           input  == fds[p[1]]
           output == IF p[4] \in {p[1], p[2]} THEN NULL ELSE fds[p[4]]
           errors == IF p[6] \in {p[1], p[2], p[3], p[4]} THEN NULL ELSE fds[p[6]]
           inherited == {fds[n] : n \in Numbers \ {p[i] : i \in DOMAIN p}} \ {NULL}
       IN  IF NULL \in {input, output, errors}
           THEN /\ script' = [script EXCEPT ![w] = "exited"]
                /\ UNCHANGED <<holds, streams>>
           ELSE /\ script' = [script EXCEPT ![w] = "reading"]
                /\ holds' = [holds EXCEPT ![w] = inherited \union {input, output, errors}]
                /\ streams' = [streams EXCEPT ![w] = [stdin |-> input, stdout |-> output]]
    /\ Goto(w, "close child's stdin")
    /\ UNCHANGED <<fds, buffered, produced, sockets, local>>

\* The parent closes the ends meant for the child: stdin's, then stdout's.
CloseChildEnds(w) ==
    /\ \/ /\ pc[w] = "close child's stdin"
          /\ CloseNumber(process[w][1]) /\ Goto(w, "close child's stdout")
       \/ /\ pc[w] = "close child's stdout"
          /\ CloseNumber(process[w][4]) /\ Goto(w, "write")
    /\ UNCHANGED <<holds, streams, script, buffered, produced, sockets, local>>

-----------------------------------------------------------------------------
(* cgi_write, cgi_flushStdin *)

\* What write() to the number kept for the script's input meets
StdinOf(w) == fds[process[w][2]]
Writable(w) == IsEnd(StdinOf(w), "w") /\ Peer(StdinOf(w))

\* write() blocks while the pipe is full and someone has it open for reading.
WriteBody(w) ==
    /\ pc[w] = "write" /\ written[w] < Body
    /\ Writable(w) /\ Chunks(StdinOf(w)) < Capacity
    /\ Put(StdinOf(w), Chunks(StdinOf(w)) + 1)
    /\ written' = [written EXCEPT ![w] = @ + 1]
    /\ UNCHANGED <<fds, holds, streams, script, produced, sockets, pc, process, content,
                   timeouts, closed, response>>

\* All of the body is written, or write() has failed.
WriteReturns(w) ==
    /\ pc[w] = "write"
    /\ written[w] = Body \/ ~Writable(w)
    /\ Goto(w, "flush")
    /\ UNCHANGED <<kernel, local>>

\* Mutant: the pipe is not closed.
FlushStdin_NoClose(w) ==
    /\ \/ /\ pc[w] = "flush"
          /\ IF Writable(w)
             THEN /\ Chunks(StdinOf(w)) < Capacity
                  /\ Put(StdinOf(w), Chunks(StdinOf(w)) + 1)
             ELSE UNCHANGED buffered
          /\ Goto(w, "close stdin")
          /\ UNCHANGED fds
       \/ /\ pc[w] = "close stdin"
          /\ Goto(w, "read")
          /\ UNCHANGED <<buffered, fds>>
    /\ UNCHANGED <<holds, streams, script, produced, sockets, local>>

\* cgi_flushStdin writes a NUL, then closes the pipe.
FlushStdin(w) ==
    /\ \/ /\ pc[w] = "flush"
          /\ IF Writable(w)
             THEN /\ Chunks(StdinOf(w)) < Capacity
                  /\ Put(StdinOf(w), Chunks(StdinOf(w)) + 1)
             ELSE UNCHANGED buffered
          /\ Goto(w, "close stdin")
          /\ UNCHANGED fds
       \/ /\ pc[w] = "close stdin"
          /\ CloseNumber(process[w][2])
          /\ Goto(w, "read")
          /\ UNCHANGED buffered
    /\ UNCHANGED <<holds, streams, script, produced, sockets, local>>

-----------------------------------------------------------------------------
(* cgi_read *)

StdoutOf(w) == fds[process[w][3]]
Intact(w) == IsEnd(StdoutOf(w), "r")
Empty(w) == Chunks(StdoutOf(w)) = 0
AtEOF(w) == ~Peer(StdoutOf(w))

\* What comes of a number that is no pipe's read end any more: a failure, or,
\* if it is a descriptor by now for which FIONREAD finds 0 bytes, the end of file
Misread(w) ==
    {"fail"} \union (IF StdoutOf(w) # NULL /\ content[w] > 0 THEN {"respond"} ELSE {})

\* Bytes are there: they are read and appended.
ReadOutput(w) ==
    /\ pc[w] = "read" /\ Intact(w) /\ ~Empty(w)
    /\ content' = [content EXCEPT ![w] = @ + Chunks(StdoutOf(w))]
    /\ Put(StdoutOf(w), 0)
    /\ UNCHANGED <<fds, holds, streams, script, produced, sockets, pc, process, written, timeouts,
                   closed, response>>

\* poll() times out; the timeouts of the whole call are counted.
ReadTimeout(w) ==
    /\ pc[w] = "read" /\ Intact(w) /\ Empty(w) /\ ~AtEOF(w)
    /\ IF timeouts[w] > Retries THEN Goto(w, "fail") /\ UNCHANGED timeouts
       ELSE timeouts' = [timeouts EXCEPT ![w] = @ + 1] /\ UNCHANGED pc
    /\ UNCHANGED <<kernel, process, written, content, closed, response>>

\* Mutant: an empty pipe is taken for the end of file.
ReadReturns_Empty(w) ==
    /\ pc[w] = "read"
    /\ \/ ~Intact(w) /\ \E next \in Misread(w) : Goto(w, next)
       \/ /\ Intact(w) /\ Empty(w)
          /\ Goto(w, IF content[w] = 0 THEN "fail" ELSE "respond")
    /\ UNCHANGED <<kernel, local>>

\* End of file: what was read is the response, and nothing read is a failure.
ReadReturns(w) ==
    /\ pc[w] = "read"
    /\ \/ ~Intact(w) /\ \E next \in Misread(w) : Goto(w, next)
       \/ /\ Intact(w) /\ Empty(w) /\ AtEOF(w)
          /\ Goto(w, IF content[w] = 0 THEN "fail" ELSE "respond")
    /\ UNCHANGED <<kernel, local>>

\* connection_write of the output
RespondOutput(w) ==
    /\ pc[w] = "respond"
    /\ response' = [response EXCEPT ![w] = "cgi"]
    /\ Goto(w, "wait")
    /\ UNCHANGED <<kernel, process, written, content, timeouts, closed>>

\* cgi_waitForExit
WaitForExit(w) ==
    /\ pc[w] = "wait" /\ script[w] = "exited"
    /\ Goto(w, "kill")
    /\ UNCHANGED <<kernel, local>>

\* Mutant: the script is waited for before it is killed.
Fail_Waits(w) ==
    /\ pc[w] = "fail"
    /\ IF script[w] = "exited" THEN Goto(w, "kill") ELSE UNCHANGED pc
    /\ UNCHANGED <<kernel, local>>

\* The failure leads to the same clean-up, and a 500 after it.
Fail(w) ==
    /\ pc[w] = "fail"
    /\ Goto(w, "kill")
    /\ UNCHANGED <<kernel, local>>

-----------------------------------------------------------------------------
(* cgi_closeProcess *)

\* kill() of the script
Kill(w) ==
    /\ pc[w] = "kill"
    /\ script' = [script EXCEPT ![w] = IF @ = "exited" THEN @ ELSE "killed"]
    /\ holds' = [holds EXCEPT ![w] = {}]
    /\ Goto(w, "close")
    /\ UNCHANGED <<fds, streams, buffered, produced, sockets, local>>

\* Mutant: the last descriptor is left open.
CloseProcess_Five(w) ==
    /\ pc[w] = "close"
    /\ CloseNumber(process[w][closed[w] + 1])
    /\ closed' = [closed EXCEPT ![w] = @ + 1]
    /\ IF closed'[w] < 5 THEN UNCHANGED <<pc, response>>
       ELSE /\ Goto(w, "done")
            /\ response' = [response EXCEPT ![w] = IF @ = NULL THEN "500" ELSE @]
    /\ UNCHANGED <<holds, streams, script, buffered, produced, sockets, process, written, content,
                   timeouts>>

\* The six closes in order, then the 500 if nothing was read
CloseProcess(w) ==
    /\ pc[w] = "close"
    /\ CloseNumber(process[w][closed[w] + 1])
    /\ closed' = [closed EXCEPT ![w] = @ + 1]
    /\ IF closed'[w] < 6 THEN UNCHANGED <<pc, response>>
       ELSE /\ Goto(w, "done")
            /\ response' = [response EXCEPT ![w] = IF @ = NULL THEN "500" ELSE @]
    /\ UNCHANGED <<holds, streams, script, buffered, produced, sockets, process, written, content,
                   timeouts>>

-----------------------------------------------------------------------------
(* Scripts, and the main thread *)

Input(w) == streams[w].stdin
Listener(w) == IsEnd(streams[w].stdout, "w") /\ Peer(streams[w].stdout)

\* The script reads its input to the end of file,
ScriptReads(w) ==
    /\ script[w] = "reading"
    /\ IF IsEnd(Input(w), "r") /\ Chunks(Input(w)) > 0
       THEN Put(Input(w), 0) /\ UNCHANGED script
       ELSE /\ IsEnd(Input(w), "r") => ~Peer(Input(w))
            /\ script' = [script EXCEPT ![w] = "writing"]
            /\ UNCHANGED buffered
    /\ UNCHANGED <<fds, holds, streams, produced, sockets, pc, local>>

\* then writes its output,
ScriptWrites(w) ==
    /\ script[w] = "writing" /\ produced[w] < Output
    /\ Listener(w) /\ Chunks(streams[w].stdout) < Capacity
    /\ Put(streams[w].stdout, Chunks(streams[w].stdout) + 1)
    /\ produced' = [produced EXCEPT ![w] = @ + 1]
    /\ UNCHANGED <<fds, holds, streams, script, sockets, pc, local>>

\* and exits; it may do so early, as when execve() fails.
ScriptExits(w) ==
    /\ script[w] \in {"reading", "writing"}
    /\ script' = [script EXCEPT ![w] = "exited"]
    /\ holds' = [holds EXCEPT ![w] = {}]
    /\ UNCHANGED <<fds, streams, buffered, produced, sockets, pc, local>>

\* The main thread accepts a connection.
Accept ==
    /\ sockets < MaxSockets
    /\ sockets' = sockets + 1
    /\ fds' = [fds EXCEPT ![Min(Free)] = Socket]
    /\ UNCHANGED <<holds, streams, script, buffered, produced, pc, local>>

Over == (\A w \in Workers : pc[w] = "done") /\ UNCHANGED vars

Worker(w) ==
    \/ Pipe(w, "pipe stdin", "stdin", "pipe stdout")
    \/ Pipe(w, "pipe stdout", "stdout", "pipe stderr")
    \/ Pipe(w, "pipe stderr", "stderr", "fork")
    \/ Fork(w) \/ CloseChildEnds(w) \/ WriteBody(w) \/ WriteReturns(w) \/ FlushStdin(w)
    \/ ReadOutput(w) \/ ReadTimeout(w) \/ ReadReturns(w) \/ RespondOutput(w)
    \/ WaitForExit(w) \/ Fail(w) \/ Kill(w) \/ CloseProcess(w)

Script(w) == ScriptReads(w) \/ ScriptWrites(w) \/ ScriptExits(w)

Next == (\E w \in Workers : Worker(w) \/ Script(w)) \/ Accept \/ Over

Spec == Init /\ [][Next]_vars

\* Threads and processes are scheduled.  A script is only known to exit when it
\* has written its output, or cannot.
Finish(w) ==
    \/ ScriptReads(w) \/ ScriptWrites(w)
    \/ script[w] = "writing" /\ (produced[w] = Output \/ ~Listener(w)) /\ ScriptExits(w)

FairSpec == Spec /\ \A w \in Workers : WF_vars(Worker(w)) /\ WF_vars(Finish(w))

-----------------------------------------------------------------------------
(* Properties *)

\* Type invariant of the workers, their scripts and the descriptor table.
TypeOK ==
    /\ fds \in [Numbers -> Ends \union {Socket, NULL}]
    /\ holds \in [Workers -> SUBSET (Ends \union {Socket})]
    /\ streams \in [Workers -> [{"stdin", "stdout"} -> Ends \union {Socket, NULL}]]
    /\ script \in [Workers -> {"none", "reading", "writing", "exited", "killed"}]
    /\ buffered \in [Workers -> [Streams -> 0..Capacity]]
    /\ \A w \in Workers : /\ Len(process[w]) \in {0, 2, 4, 6}
                          /\ written[w] \in 0..Body /\ produced[w] \in 0..Output
                          /\ content[w] \in Nat
                          /\ timeouts[w] \in 0..(Retries + 1) /\ closed[w] \in 0..6
                          /\ response[w] \in {NULL, "cgi", "500"}

\* A response that is not a 500 is the script's whole output: cgi_read does
\* not take a pause of the script for its end.
CompleteResponse ==
    /\ TypeOK
    /\ \A w \in Workers : response[w] = "cgi" => content[w] = produced[w]

\* Every descriptor cgi_spawn made is closed when worker_returnCGI returns,
\* on its failure path as well.
DescriptorsReturned ==
    \A w \in Workers : pc[w] = "done" =>
        \A n \in Numbers : fds[n] # NULL => fds[n].owner # w

\* worker.c, line 661: "Make sure the process receives EOF".  After
\* cgi_flushStdin nobody has the write end of a running script's input open.
\* Checked for a worker alone: a script that another worker forks in between
\* inherits the end and keeps it open.
ProcessReceivesEOF ==
    \A w \in Workers :
        pc[w] = "read" /\ script[w] = "reading" => ~IsOpen(End(w, "stdin", "w"))

\* The worker comes back from a script that ends once its input has ended.
RequestEnds == \A w \in Workers : <>(pc[w] = "done")

=============================================================================
