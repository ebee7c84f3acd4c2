---------------------------- MODULE MessageQueue ----------------------------
(***************************************************************************)
(* The blocking queue between the accepting thread and the worker pool     *)
(* (datastructures/message-queue/message-queue.c): a list, a pthread       *)
(* mutex, a pthread condition variable and the flag `unlocked`.            *)
(*                                                                         *)
(* Threads are split by the operation they call: Producers push, Consumers *)
(* pop, Closers unlock.  An operation is one action per access to the      *)
(* shared state, so a thread can be interrupted between any two of them.   *)
(* pthread_cond_signal may wake more than one waiter and a waiter may wake *)
(* without any signal, as POSIX allows.                                    *)
(***************************************************************************)
EXTENDS Naturals, Sequences, FiniteSets, Functions

CONSTANTS
    Producers,  \* threads that call message_queue_push
    Consumers,  \* threads that call message_queue_pop
    Closers,    \* threads that call message_queue_unlock
    Values,     \* what is pushed: pointers to fresh connections
    NULL        \* the null pointer, and the owner of a free mutex

Threads == Producers \union Consumers \union Closers

ASSUME QueueAssumption ==
    /\ Producers \intersect Consumers = {}
    /\ Producers \intersect Closers = {}
    /\ Consumers \intersect Closers = {}
    /\ IsFiniteSet(Consumers)
    /\ IsFiniteSet(Producers)
    /\ NULL \notin Values
    /\ NULL \notin Threads

VARIABLES
    list,      \* queue->list
    unlocked,  \* queue->unlocked
    mutex,     \* the thread that holds queue->mutex, or NULL
    pc,        \* where each thread is inside the queue's operations
    value,     \* the argument of a push, the result of a pop
    pushed,    \* history: every value added to the list, in order
    popped     \* history: every value removed from the list, in order

queueVars == <<list, unlocked, mutex, pc, value, pushed, popped>>

Waiting == {c \in Consumers : pc[c] = "pop_wait"}

\* Values that some thread already pushed or is about to push.
Used == Range(pushed) \union {value[p] : p \in Producers}

At(t, here) == pc[t] = here
Goto(t, there) == pc' = [pc EXCEPT ![t] = there]

Lock(t, here, there) ==
    /\ At(t, here)
    /\ mutex = NULL
    /\ mutex' = t
    /\ Goto(t, there)

Unlock(t, here, there) ==
    /\ At(t, here)
    /\ mutex' = NULL
    /\ Goto(t, there)

-----------------------------------------------------------------------------
(* message_queue_create *)

Init ==
    /\ list = <<>>
    /\ unlocked = FALSE
    /\ mutex = NULL
    /\ pc = [t \in Threads |-> "idle"]
    /\ value = [t \in Threads |-> NULL]
    /\ pushed = <<>>
    /\ popped = <<>>

-----------------------------------------------------------------------------
(* message_queue_push *)

Push(p, v) ==
    /\ At(p, "idle")
    /\ v \notin Used
    /\ value' = [value EXCEPT ![p] = v]
    /\ Goto(p, "push")
    /\ UNCHANGED <<list, unlocked, mutex, pushed, popped>>

PushLock(p) ==
    /\ Lock(p, "push", "push_locked")
    /\ UNCHANGED <<list, unlocked, value, pushed, popped>>

PushAdd(p) ==
    /\ At(p, "push_locked")
    /\ list' = Append(list, value[p])
    /\ pushed' = Append(pushed, value[p])
    /\ Goto(p, "push_added")
    /\ UNCHANGED <<unlocked, mutex, value, popped>>

\* Mutant: pthread_cond_signal is forgotten.
PushSignal_None(p) ==
    /\ At(p, "push_added")
    /\ Goto(p, "push_signalled")
    /\ UNCHANGED <<list, unlocked, mutex, value, pushed, popped>>

\* Wakes at least one waiter if there is one.
PushSignal(p) ==
    /\ At(p, "push_added")
    /\ \E woken \in SUBSET Waiting :
          /\ Waiting # {} => woken # {}
          /\ pc' = [t \in Threads |-> IF t = p THEN "push_signalled"
                                      ELSE IF t \in woken THEN "pop_woken"
                                      ELSE pc[t]]
    /\ UNCHANGED <<list, unlocked, mutex, value, pushed, popped>>

PushUnlock(p) ==
    /\ Unlock(p, "push_signalled", "idle")
    /\ UNCHANGED <<list, unlocked, value, pushed, popped>>

-----------------------------------------------------------------------------
(* message_queue_pop *)

Pop(c) ==
    /\ At(c, "idle")
    /\ value' = [value EXCEPT ![c] = NULL]
    /\ Goto(c, "pop")
    /\ UNCHANGED <<list, unlocked, mutex, pushed, popped>>

PopLock(c) ==
    /\ Lock(c, "pop", "pop_locked")
    /\ UNCHANGED <<list, unlocked, value, pushed, popped>>

\* Mutant: pop also gives up after a spurious wakeup.
PopGiveUp_Empty(c) ==
    /\ At(c, "pop_locked")
    /\ unlocked \/ list = <<>>
    /\ Goto(c, "pop_leave")
    /\ UNCHANGED <<list, unlocked, mutex, value, pushed, popped>>

\* The early return before the loop and the break inside it test the same
\* flag under the same mutex.
PopGiveUp(c) ==
    /\ At(c, "pop_locked")
    /\ unlocked
    /\ Goto(c, "pop_leave")
    /\ UNCHANGED <<list, unlocked, mutex, value, pushed, popped>>

\* Mutant: the value that was added last is removed.
PopRemove_Last(c) ==
    /\ At(c, "pop_locked")
    /\ ~unlocked
    /\ list # <<>>
    /\ list' = SubSeq(list, 1, Len(list) - 1)
    /\ value' = [value EXCEPT ![c] = list[Len(list)]]
    /\ popped' = Append(popped, list[Len(list)])
    /\ Goto(c, "pop_leave")
    /\ UNCHANGED <<unlocked, mutex, pushed>>

PopRemove(c) ==
    /\ At(c, "pop_locked")
    /\ ~unlocked
    /\ list # <<>>
    /\ list' = Tail(list)
    /\ value' = [value EXCEPT ![c] = Head(list)]
    /\ popped' = Append(popped, Head(list))
    /\ Goto(c, "pop_leave")
    /\ UNCHANGED <<unlocked, mutex, pushed>>

\* Mutant: the loop spins instead of waiting.
PopWait_Spin(c) ==
    /\ ~unlocked
    /\ list = <<>>
    /\ At(c, "pop_locked")
    /\ UNCHANGED <<list, unlocked, mutex, value, pushed, popped, pc>>

\* pthread_cond_wait releases the mutex and blocks in one step.
PopWait(c) ==
    /\ ~unlocked
    /\ list = <<>>
    /\ Unlock(c, "pop_locked", "pop_wait")
    /\ UNCHANGED <<list, unlocked, value, pushed, popped>>

SpuriousWakeup(c) ==
    /\ At(c, "pop_wait")
    /\ Goto(c, "pop_woken")
    /\ UNCHANGED <<list, unlocked, mutex, value, pushed, popped>>

\* Mutant: the woken thread goes on without the mutex.
PopReacquire_NoLock(c) ==
    /\ At(c, "pop_woken")
    /\ Goto(c, "pop_locked")
    /\ UNCHANGED <<list, unlocked, mutex, value, pushed, popped>>

\* A woken thread owns the mutex again before pthread_cond_wait returns.
PopReacquire(c) ==
    /\ Lock(c, "pop_woken", "pop_locked")
    /\ UNCHANGED <<list, unlocked, value, pushed, popped>>

PopUnlock(c) ==
    /\ Unlock(c, "pop_leave", "idle")
    /\ UNCHANGED <<list, unlocked, value, pushed, popped>>

-----------------------------------------------------------------------------
(* message_queue_unlock *)

\* The server unlocks its queue once, before it frees it.
Close(k) ==
    /\ At(k, "idle")
    /\ ~unlocked
    /\ Goto(k, "close")
    /\ UNCHANGED <<list, unlocked, mutex, value, pushed, popped>>

CloseLock(k) ==
    /\ Lock(k, "close", "close_locked")
    /\ UNCHANGED <<list, unlocked, value, pushed, popped>>

CloseSet(k) ==
    /\ At(k, "close_locked")
    /\ unlocked' = TRUE
    /\ Goto(k, "close_set")
    /\ UNCHANGED <<list, mutex, value, pushed, popped>>

\* Mutant: pthread_cond_signal instead of pthread_cond_broadcast.
CloseBroadcast_One(k) ==
    /\ At(k, "close_set")
    /\ \E woken \in SUBSET Waiting :
          /\ Waiting # {} => woken # {}
          /\ pc' = [t \in Threads |-> IF t = k THEN "close_broadcast"
                                      ELSE IF t \in woken THEN "pop_woken"
                                      ELSE pc[t]]
    /\ UNCHANGED <<list, unlocked, mutex, value, pushed, popped>>

CloseBroadcast(k) ==
    /\ At(k, "close_set")
    /\ pc' = [t \in Threads |-> IF t = k THEN "close_broadcast"
                                ELSE IF t \in Waiting THEN "pop_woken"
                                ELSE pc[t]]
    /\ UNCHANGED <<list, unlocked, mutex, value, pushed, popped>>

CloseUnlock(k) ==
    /\ Unlock(k, "close_broadcast", "idle")
    /\ UNCHANGED <<list, unlocked, value, pushed, popped>>

-----------------------------------------------------------------------------
PushStep(p) == PushLock(p) \/ PushAdd(p) \/ PushSignal(p) \/ PushUnlock(p)

PopStep(c) == \/ PopLock(c) \/ PopGiveUp(c) \/ PopRemove(c) \/ PopWait(c)
              \/ PopReacquire(c) \/ PopUnlock(c)

CloseStep(k) == \/ CloseLock(k) \/ CloseSet(k) \/ CloseBroadcast(k)
                \/ CloseUnlock(k)

Next ==
    \/ \E p \in Producers : (\E v \in Values : Push(p, v)) \/ PushStep(p)
    \/ \E c \in Consumers : Pop(c) \/ PopStep(c) \/ SpuriousWakeup(c)
    \/ \E k \in Closers : Close(k) \/ CloseStep(k)

Spec == Init /\ [][Next]_queueVars

\* A thread inside an operation keeps running (weak fairness) and is not
\* starved for ever by the others when it competes for the mutex (strong
\* fairness); consumers call pop again and again, as worker_entryPoint does.
\* Nobody has to push, close, or wake up spuriously.
Fairness ==
    /\ \A p \in Producers : SF_queueVars(PushLock(p)) /\ WF_queueVars(PushStep(p))
    /\ \A c \in Consumers : /\ WF_queueVars(Pop(c))
                            /\ SF_queueVars(PopLock(c))
                            /\ SF_queueVars(PopReacquire(c))
                            /\ WF_queueVars(PopStep(c))
    /\ \A k \in Closers : SF_queueVars(CloseLock(k)) /\ WF_queueVars(CloseStep(k))

FairSpec == Spec /\ Fairness

-----------------------------------------------------------------------------
(* Properties *)

ProducerPc == {"idle", "push", "push_locked", "push_added", "push_signalled"}
ConsumerPc == {"idle", "pop", "pop_locked", "pop_wait", "pop_woken", "pop_leave"}
CloserPc == {"idle", "close", "close_locked", "close_set", "close_broadcast"}

\* Type invariant of the queue and of the threads' positions in it.
TypeOK ==
    /\ list \in Seq(Values)
    /\ unlocked \in BOOLEAN
    /\ mutex \in Threads \union {NULL}
    /\ pc \in [Threads -> ProducerPc \union ConsumerPc \union CloserPc]
    /\ \A p \in Producers : pc[p] \in ProducerPc
    /\ \A c \in Consumers : pc[c] \in ConsumerPc
    /\ \A k \in Closers : pc[k] \in CloserPc
    /\ value \in [Threads -> Values \union {NULL}]
    /\ \A p \in Producers : pc[p] \in {"push", "push_locked"} => value[p] \in Values
    /\ pushed \in Seq(Values)
    /\ popped \in Seq(Values)

\* Positions between pthread_mutex_lock and the release of the mutex.
Holding == {"push_locked", "push_added", "push_signalled", "pop_locked",
            "pop_leave", "close_locked", "close_set", "close_broadcast"}

\* The list, the flag and the signals are only touched by the thread that
\* holds the mutex, and a thread woken by the condition variable has taken
\* the mutex back before it looks at the list again.
MutualExclusion == \A t \in Threads : pc[t] \in Holding => mutex = t

\* First in, first out, nothing lost, nothing delivered twice: what pops have
\* removed from the list, followed by what is still in it, is what pushes
\* added (list_addValue and list_removeValue under the mutex).
FifoOrder == pushed = popped \o list

\* Threads that will look at the list without anybody having to signal again.
Wakers == {c \in Consumers : pc[c] \in {"pop_woken", "pop_locked"}}
              \union {p \in Producers : pc[p] = "push_added"}

\* No lost wakeup: while the queue is open, values in the list together with
\* a consumer still blocked in pthread_cond_wait mean that for each of the
\* values another thread is already on its way to take it, or a producer is
\* about to signal.
NoLostWakeup ==
    (Waiting # {} /\ ~unlocked) => Len(list) <= Cardinality(Wakers)

\* message_queue_unlock leaves nobody behind: once the flag is set and its
\* broadcast is over, no consumer is blocked, and none blocks afterwards.
CloseWakesAll ==
    (unlocked /\ \A k \in Closers : pc[k] # "close_set") => Waiting = {}

\* A push always completes: producers are never blocked for ever.
PushCompletes ==
    \A p \in Producers : (pc[p] = "push") ~> (pc[p] = "idle")

\* Consumers between the call of pop and the removal of a value.
Asking == {c \in Consumers :
              pc[c] \in {"pop", "pop_locked", "pop_wait", "pop_woken"}}

\* The queue implements the abstract blocking FIFO: list_addValue is its
\* Enqueue, list_removeValue its Take, setting the flag its Close.
Fifo == INSTANCE BlockingFifo WITH
            queue <- list,
            closed <- unlocked,
            asking <- Asking,
            result <- [c \in Consumers |-> value[c]]

ImplementsFifo == Fifo!Spec

\* Under fair scheduling it also implements the FIFO that answers whoever asks
\* while it has values, and everybody once message_queue_unlock has closed it.
ImplementsFairFifo == Fifo!FairSpec

=============================================================================
