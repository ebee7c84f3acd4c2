---------------------------- MODULE BlockingFifo ----------------------------
(***************************************************************************)
(* What the message queue promises its callers, without mutex, condition   *)
(* variable or thread states: a first-in first-out queue whose pop blocks  *)
(* while the queue is empty and returns nothing only once it was closed    *)
(* (message-queue.h: "Lock the calling thread until a value can be         *)
(* popped", "Unlock all waiting threads").                                 *)
(***************************************************************************)
EXTENDS Sequences

CONSTANTS Consumers, Values, NULL

VARIABLES
    queue,   \* values enqueued and not yet taken
    closed,  \* the queue was unlocked
    asking,  \* consumers blocked in, or running through, a pop
    result   \* what the last pop of each consumer returned

fifoVars == <<queue, closed, asking, result>>

Init ==
    /\ queue = <<>>
    /\ closed = FALSE
    /\ asking = {}
    /\ result = [c \in Consumers |-> NULL]

Enqueue(v) ==
    /\ queue' = Append(queue, v)
    /\ UNCHANGED <<closed, asking, result>>

Ask(c) ==
    /\ c \notin asking
    /\ asking' = asking \union {c}
    /\ result' = [result EXCEPT ![c] = NULL]
    /\ UNCHANGED <<queue, closed>>

Take(c) ==
    /\ c \in asking
    /\ ~closed
    /\ queue # <<>>
    /\ queue' = Tail(queue)
    /\ result' = [result EXCEPT ![c] = Head(queue)]
    /\ asking' = asking \ {c}
    /\ UNCHANGED closed

GiveUp(c) ==
    /\ c \in asking
    /\ closed
    /\ asking' = asking \ {c}
    /\ UNCHANGED <<queue, closed, result>>

Close ==
    /\ closed' = TRUE
    /\ UNCHANGED <<queue, asking, result>>

Next ==
    \/ \E v \in Values : Enqueue(v)
    \/ \E c \in Consumers : Ask(c) \/ Take(c) \/ GiveUp(c)
    \/ Close

Spec == Init /\ [][Next]_fifoVars

\* Some asking consumer is served while the queue holds a value; every asking
\* consumer is released once the queue is closed.
FairSpec ==
    /\ Spec
    /\ WF_fifoVars(\E c \in Consumers : Take(c))
    /\ \A c \in Consumers : WF_fifoVars(GiveUp(c))

=============================================================================
