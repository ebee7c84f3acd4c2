------------------------- MODULE MessageQueueProofs -------------------------
(***************************************************************************)
(* Proofs about MessageQueue for any sets of producers, consumers, closers *)
(* and values.                                                             *)
(***************************************************************************)
EXTENDS MessageQueue, FiniteSetTheorems, SequenceTheorems, TLAPS

-----------------------------------------------------------------------------
(* Sequences *)

\* Moving the head of the list to the end of the history changes nothing.
LEMMA ConcatHeadTail ==
    ASSUME NEW S, NEW s \in Seq(S), NEW t \in Seq(S), t # <<>>
    PROVE  s \o t = Append(s, Head(t)) \o Tail(t)
<1>1. /\ Head(t) \in S
      /\ Tail(t) \in Seq(S)
  BY HeadTailProperties, Zenon
<1>2. <<Head(t)>> \in Seq(S)
  BY <1>1
<1>3. t = <<Head(t)>> \o Tail(t)
  <2> DEFINE u == <<Head(t)>> \o Tail(t)
  <2>1. /\ u \in Seq(S)
        /\ Len(u) = 1 + Len(Tail(t))
        /\ \A i \in 1 .. 1 + Len(Tail(t)) :
              u[i] = IF i <= 1 THEN <<Head(t)>>[i] ELSE Tail(t)[i - 1]
    BY <1>1, <1>2, ConcatProperties
  <2>2. /\ Len(Tail(t)) = Len(t) - 1
        /\ \A i \in 1 .. Len(Tail(t)) : Tail(t)[i] = t[i + 1]
        /\ Len(t) \in Nat \ {0}
        /\ Head(t) = t[1]
    BY HeadTailProperties, EmptySeq
  <2>3. \A i \in 1 .. Len(t) : t[i] = u[i]
    BY <2>1, <2>2
  <2> QED
    BY <2>1, <2>2, <2>3, SeqEqual
<1>4. Append(s, Head(t)) = s \o <<Head(t)>>
  BY <1>1, AppendIsConcat, Zenon
<1>5. (s \o <<Head(t)>>) \o Tail(t) = s \o (<<Head(t)>> \o Tail(t))
  BY <1>1, <1>2, ConcatAssociative
<1> QED
  BY <1>3, <1>4, <1>5, Zenon

-----------------------------------------------------------------------------
(* Typing *)

\* message_queue_create establishes the type invariant.
LEMMA TypeInit == Init => TypeOK
<1> SUFFICES ASSUME Init PROVE TypeOK
  OBVIOUS
<1>1. <<>> \in Seq(Values)
  BY EmptySeq, Zenon
<1> QED
  BY <1>1, Zenon DEF Init, TypeOK, Threads, ProducerPc, ConsumerPc, CloserPc

\* Every step of every operation preserves the type invariant.
LEMMA TypeStep == TypeOK /\ [Next]_queueVars => TypeOK'
<1> SUFFICES ASSUME TypeOK, [Next]_queueVars PROVE TypeOK'
  OBVIOUS
<1> USE QueueAssumption DEF TypeOK, Threads, ProducerPc, ConsumerPc, CloserPc, At, Goto
<1>1. ASSUME NEW p \in Producers, NEW v \in Values, Push(p, v) PROVE TypeOK'
  BY <1>1 DEF Push
<1>2. ASSUME NEW p \in Producers, PushLock(p) PROVE TypeOK'
  BY <1>2, Zenon DEF PushLock, Lock
<1>3. ASSUME NEW p \in Producers, PushAdd(p) PROVE TypeOK'
  BY <1>3, AppendProperties, Zenon DEF PushAdd
<1>4. ASSUME NEW p \in Producers, PushSignal(p) PROVE TypeOK'
  BY <1>4 DEF PushSignal, Waiting
<1>5. ASSUME NEW p \in Producers, PushUnlock(p) PROVE TypeOK'
  BY <1>5, Zenon DEF PushUnlock, Unlock
<1>6. ASSUME NEW c \in Consumers, Pop(c) PROVE TypeOK'
  BY <1>6 DEF Pop
<1>7. ASSUME NEW c \in Consumers, PopLock(c) PROVE TypeOK'
  BY <1>7, Zenon DEF PopLock, Lock
<1>8. ASSUME NEW c \in Consumers, PopGiveUp(c) PROVE TypeOK'
  BY <1>8, Zenon DEF PopGiveUp
<1>9. ASSUME NEW c \in Consumers, PopRemove(c) PROVE TypeOK'
  BY <1>9, HeadTailProperties, AppendProperties, Zenon DEF PopRemove
<1>10. ASSUME NEW c \in Consumers, PopWait(c) PROVE TypeOK'
  BY <1>10, Zenon DEF PopWait, Unlock
<1>11. ASSUME NEW c \in Consumers, SpuriousWakeup(c) PROVE TypeOK'
  BY <1>11, Zenon DEF SpuriousWakeup
<1>12. ASSUME NEW c \in Consumers, PopReacquire(c) PROVE TypeOK'
  BY <1>12, Zenon DEF PopReacquire, Lock
<1>13. ASSUME NEW c \in Consumers, PopUnlock(c) PROVE TypeOK'
  BY <1>13, Zenon DEF PopUnlock, Unlock
<1>14. ASSUME NEW k \in Closers, Close(k) PROVE TypeOK'
  BY <1>14 DEF Close
<1>15. ASSUME NEW k \in Closers, CloseLock(k) PROVE TypeOK'
  BY <1>15, Zenon DEF CloseLock, Lock
<1>16. ASSUME NEW k \in Closers, CloseSet(k) PROVE TypeOK'
  BY <1>16, Zenon DEF CloseSet
<1>17. ASSUME NEW k \in Closers, CloseBroadcast(k) PROVE TypeOK'
  BY <1>17, Zenon DEF CloseBroadcast, Waiting
<1>18. ASSUME NEW k \in Closers, CloseUnlock(k) PROVE TypeOK'
  BY <1>18, Zenon DEF CloseUnlock, Unlock
<1>19. CASE UNCHANGED queueVars
  BY <1>19, Zenon DEF queueVars
<1> QED
  BY <1>1, <1>2, <1>3, <1>4, <1>5, <1>6, <1>7, <1>8, <1>9, <1>10, <1>11,
     <1>12, <1>13, <1>14, <1>15, <1>16, <1>17, <1>18, <1>19, Zenon
     DEF Next, PushStep, PopStep, CloseStep

\* The type invariant holds in every reachable state.
THEOREM Typing == Spec => []TypeOK
  BY TypeInit, TypeStep, PTL DEF Spec

-----------------------------------------------------------------------------
(* Mutual exclusion *)

\* Every step preserves mutual exclusion.
LEMMA ExclusionStep ==
    TypeOK /\ MutualExclusion /\ [Next]_queueVars => MutualExclusion'
<1> SUFFICES ASSUME TypeOK, MutualExclusion, [Next]_queueVars
             PROVE  MutualExclusion'
  OBVIOUS
<1> USE QueueAssumption DEF TypeOK, MutualExclusion, Holding, Threads, At, Goto
<1>1. ASSUME NEW p \in Producers, NEW v \in Values, Push(p, v) PROVE MutualExclusion'
  BY <1>1, Zenon DEF Push
<1>2. ASSUME NEW p \in Producers, PushLock(p) PROVE MutualExclusion'
  BY <1>2, Zenon DEF PushLock, Lock
<1>3. ASSUME NEW p \in Producers, PushAdd(p) PROVE MutualExclusion'
  BY <1>3, Zenon DEF PushAdd
<1>4. ASSUME NEW p \in Producers, PushSignal(p) PROVE MutualExclusion'
  BY <1>4, Zenon DEF PushSignal, Waiting
<1>5. ASSUME NEW p \in Producers, PushUnlock(p) PROVE MutualExclusion'
  BY <1>5, Zenon DEF PushUnlock, Unlock
<1>6. ASSUME NEW c \in Consumers, Pop(c) PROVE MutualExclusion'
  BY <1>6, Zenon DEF Pop
<1>7. ASSUME NEW c \in Consumers, PopLock(c) PROVE MutualExclusion'
  BY <1>7, Zenon DEF PopLock, Lock
<1>8. ASSUME NEW c \in Consumers, PopGiveUp(c) PROVE MutualExclusion'
  BY <1>8, Zenon DEF PopGiveUp
<1>9. ASSUME NEW c \in Consumers, PopRemove(c) PROVE MutualExclusion'
  BY <1>9, Zenon DEF PopRemove
<1>10. ASSUME NEW c \in Consumers, PopWait(c) PROVE MutualExclusion'
  BY <1>10, Zenon DEF PopWait, Unlock
<1>11. ASSUME NEW c \in Consumers, SpuriousWakeup(c) PROVE MutualExclusion'
  BY <1>11, Zenon DEF SpuriousWakeup
<1>12. ASSUME NEW c \in Consumers, PopReacquire(c) PROVE MutualExclusion'
  BY <1>12, Zenon DEF PopReacquire, Lock
<1>13. ASSUME NEW c \in Consumers, PopUnlock(c) PROVE MutualExclusion'
  BY <1>13, Zenon DEF PopUnlock, Unlock
<1>14. ASSUME NEW k \in Closers, Close(k) PROVE MutualExclusion'
  BY <1>14, Zenon DEF Close
<1>15. ASSUME NEW k \in Closers, CloseLock(k) PROVE MutualExclusion'
  BY <1>15, Zenon DEF CloseLock, Lock
<1>16. ASSUME NEW k \in Closers, CloseSet(k) PROVE MutualExclusion'
  BY <1>16, Zenon DEF CloseSet
<1>17. ASSUME NEW k \in Closers, CloseBroadcast(k) PROVE MutualExclusion'
  BY <1>17, Zenon DEF CloseBroadcast, Waiting
<1>18. ASSUME NEW k \in Closers, CloseUnlock(k) PROVE MutualExclusion'
  BY <1>18, Zenon DEF CloseUnlock, Unlock
<1>19. CASE UNCHANGED queueVars
  BY <1>19, Zenon DEF queueVars
<1> QED
  BY <1>1, <1>2, <1>3, <1>4, <1>5, <1>6, <1>7, <1>8, <1>9, <1>10, <1>11,
     <1>12, <1>13, <1>14, <1>15, <1>16, <1>17, <1>18, <1>19, Zenon
     DEF Next, PushStep, PopStep, CloseStep

\* The holder of the mutex is the only thread inside a critical section of
\* push, pop or unlock.
THEOREM Exclusion == Spec => []MutualExclusion
<1>1. Init => MutualExclusion
  BY Zenon DEF Init, MutualExclusion, Holding
<1> QED
  BY <1>1, ExclusionStep, Typing, PTL DEF Spec

-----------------------------------------------------------------------------
(* Order of delivery *)

\* Only PushAdd and PopRemove change the list and the two histories.
LEMMA FifoStep == TypeOK /\ FifoOrder /\ [Next]_queueVars => FifoOrder'
<1> SUFFICES ASSUME TypeOK, FifoOrder, [Next]_queueVars PROVE FifoOrder'
  OBVIOUS
<1> USE DEF FifoOrder
<1>1. ASSUME NEW p \in Producers, NEW v \in Values, Push(p, v) PROVE FifoOrder'
  BY <1>1, Zenon DEF Push
<1>2. ASSUME NEW p \in Producers, PushLock(p) PROVE FifoOrder'
  BY <1>2, Zenon DEF PushLock, Lock
<1>3. ASSUME NEW p \in Producers, PushAdd(p) PROVE FifoOrder'
  <2>1. PICK v \in Values : v = value[p]
    BY <1>3, Zenon DEF PushAdd, TypeOK, At
  <2>2. list \in Seq(Values) /\ popped \in Seq(Values)
    BY Zenon DEF TypeOK
  <2>3. /\ list' = list \o <<v>>
        /\ pushed' = pushed \o <<v>>
    BY <1>3, <2>1, <2>2, AppendIsConcat, Zenon DEF PushAdd, TypeOK
  <2>4. (popped \o list) \o <<v>> = popped \o (list \o <<v>>)
    <3>1. <<v>> \in Seq(Values)
      OBVIOUS
    <3> QED
      BY <2>2, <3>1, ConcatAssociative
  <2> QED
    BY <1>3, <2>3, <2>4, Zenon DEF PushAdd
<1>4. ASSUME NEW p \in Producers, PushSignal(p) PROVE FifoOrder'
  BY <1>4, Zenon DEF PushSignal, Waiting
<1>5. ASSUME NEW p \in Producers, PushUnlock(p) PROVE FifoOrder'
  BY <1>5, Zenon DEF PushUnlock, Unlock
<1>6. ASSUME NEW c \in Consumers, Pop(c) PROVE FifoOrder'
  BY <1>6, Zenon DEF Pop
<1>7. ASSUME NEW c \in Consumers, PopLock(c) PROVE FifoOrder'
  BY <1>7, Zenon DEF PopLock, Lock
<1>8. ASSUME NEW c \in Consumers, PopGiveUp(c) PROVE FifoOrder'
  BY <1>8, Zenon DEF PopGiveUp
<1>9. ASSUME NEW c \in Consumers, PopRemove(c) PROVE FifoOrder'
  BY <1>9, ConcatHeadTail, Zenon DEF PopRemove, TypeOK
<1>10. ASSUME NEW c \in Consumers, PopWait(c) PROVE FifoOrder'
  BY <1>10, Zenon DEF PopWait, Unlock
<1>11. ASSUME NEW c \in Consumers, SpuriousWakeup(c) PROVE FifoOrder'
  BY <1>11, Zenon DEF SpuriousWakeup
<1>12. ASSUME NEW c \in Consumers, PopReacquire(c) PROVE FifoOrder'
  BY <1>12, Zenon DEF PopReacquire, Lock
<1>13. ASSUME NEW c \in Consumers, PopUnlock(c) PROVE FifoOrder'
  BY <1>13, Zenon DEF PopUnlock, Unlock
<1>14. ASSUME NEW k \in Closers, Close(k) PROVE FifoOrder'
  BY <1>14, Zenon DEF Close
<1>15. ASSUME NEW k \in Closers, CloseLock(k) PROVE FifoOrder'
  BY <1>15, Zenon DEF CloseLock, Lock
<1>16. ASSUME NEW k \in Closers, CloseSet(k) PROVE FifoOrder'
  BY <1>16, Zenon DEF CloseSet
<1>17. ASSUME NEW k \in Closers, CloseBroadcast(k) PROVE FifoOrder'
  BY <1>17, Zenon DEF CloseBroadcast, Waiting
<1>18. ASSUME NEW k \in Closers, CloseUnlock(k) PROVE FifoOrder'
  BY <1>18, Zenon DEF CloseUnlock, Unlock
<1>19. CASE UNCHANGED queueVars
  BY <1>19, Zenon DEF queueVars
<1> QED
  BY <1>1, <1>2, <1>3, <1>4, <1>5, <1>6, <1>7, <1>8, <1>9, <1>10, <1>11,
     <1>12, <1>13, <1>14, <1>15, <1>16, <1>17, <1>18, <1>19, Zenon
     DEF Next, PushStep, PopStep, CloseStep

\* Connections are handed out in the order they were pushed, each once.
THEOREM DeliveryOrder == Spec => []FifoOrder
<1>1. Init => FifoOrder
  <2>1. <<>> \o <<>> = <<>>
    BY EmptySeq, ConcatEmptySeq, Zenon
  <2> QED
    BY <2>1, Zenon DEF Init, FifoOrder
<1> QED
  BY <1>1, FifoStep, Typing, PTL DEF Spec

-----------------------------------------------------------------------------
(* Unlocking *)

\* After the flag is set nobody starts to wait, and the broadcast wakes all.
LEMMA CloseStepWakesAll ==
    TypeOK /\ CloseWakesAll /\ [Next]_queueVars => CloseWakesAll'
<1> SUFFICES ASSUME TypeOK, CloseWakesAll, [Next]_queueVars
             PROVE  CloseWakesAll'
  OBVIOUS
<1> USE QueueAssumption
    DEF TypeOK, CloseWakesAll, Waiting, Threads, ProducerPc, ConsumerPc,
        CloserPc, At, Goto
<1>1. ASSUME NEW p \in Producers, NEW v \in Values, Push(p, v) PROVE CloseWakesAll'
  BY <1>1, Zenon DEF Push
<1>2. ASSUME NEW p \in Producers, PushLock(p) PROVE CloseWakesAll'
  BY <1>2, Zenon DEF PushLock, Lock
<1>3. ASSUME NEW p \in Producers, PushAdd(p) PROVE CloseWakesAll'
  BY <1>3, Zenon DEF PushAdd
<1>4. ASSUME NEW p \in Producers, PushSignal(p) PROVE CloseWakesAll'
  BY <1>4 DEF PushSignal
<1>5. ASSUME NEW p \in Producers, PushUnlock(p) PROVE CloseWakesAll'
  BY <1>5, Zenon DEF PushUnlock, Unlock
<1>6. ASSUME NEW c \in Consumers, Pop(c) PROVE CloseWakesAll'
  BY <1>6, Zenon DEF Pop
<1>7. ASSUME NEW c \in Consumers, PopLock(c) PROVE CloseWakesAll'
  BY <1>7, Zenon DEF PopLock, Lock
<1>8. ASSUME NEW c \in Consumers, PopGiveUp(c) PROVE CloseWakesAll'
  BY <1>8, Zenon DEF PopGiveUp
<1>9. ASSUME NEW c \in Consumers, PopRemove(c) PROVE CloseWakesAll'
  BY <1>9, Zenon DEF PopRemove
<1>10. ASSUME NEW c \in Consumers, PopWait(c) PROVE CloseWakesAll'
  BY <1>10, Zenon DEF PopWait, Unlock
<1>11. ASSUME NEW c \in Consumers, SpuriousWakeup(c) PROVE CloseWakesAll'
  BY <1>11, Zenon DEF SpuriousWakeup
<1>12. ASSUME NEW c \in Consumers, PopReacquire(c) PROVE CloseWakesAll'
  BY <1>12, Zenon DEF PopReacquire, Lock
<1>13. ASSUME NEW c \in Consumers, PopUnlock(c) PROVE CloseWakesAll'
  BY <1>13, Zenon DEF PopUnlock, Unlock
<1>14. ASSUME NEW k \in Closers, Close(k) PROVE CloseWakesAll'
  BY <1>14, Zenon DEF Close
<1>15. ASSUME NEW k \in Closers, CloseLock(k) PROVE CloseWakesAll'
  BY <1>15, Zenon DEF CloseLock, Lock
<1>16. ASSUME NEW k \in Closers, CloseSet(k) PROVE CloseWakesAll'
  BY <1>16, Zenon DEF CloseSet
<1>17. ASSUME NEW k \in Closers, CloseBroadcast(k) PROVE CloseWakesAll'
  BY <1>17, Zenon DEF CloseBroadcast
<1>18. ASSUME NEW k \in Closers, CloseUnlock(k) PROVE CloseWakesAll'
  BY <1>18, Zenon DEF CloseUnlock, Unlock
<1>19. CASE UNCHANGED queueVars
  BY <1>19, Zenon DEF queueVars
<1> QED
  BY <1>1, <1>2, <1>3, <1>4, <1>5, <1>6, <1>7, <1>8, <1>9, <1>10, <1>11,
     <1>12, <1>13, <1>14, <1>15, <1>16, <1>17, <1>18, <1>19, Zenon
     DEF Next, PushStep, PopStep, CloseStep

\* Once message_queue_unlock is through its broadcast no thread is blocked in
\* pthread_cond_wait.
THEOREM UnlockLeavesNobody == Spec => []CloseWakesAll
<1>1. Init => CloseWakesAll
  BY Zenon DEF Init, CloseWakesAll
<1> QED
  BY <1>1, CloseStepWakesAll, Typing, PTL DEF Spec

-----------------------------------------------------------------------------
(* No lost wakeup *)

\* A set of threads that push or pop is finite, so it can be counted.
LEMMA ThreadsCount ==
    ASSUME NEW S \in SUBSET (Consumers \union Producers)
    PROVE  IsFiniteSet(S) /\ Cardinality(S) \in Nat
<1>1. IsFiniteSet(Consumers \union Producers)
  BY QueueAssumption, FS_Union, Zenon
<1> QED
  BY <1>1, FS_Subset, FS_CardinalityType, Zenon

\* Replacing one member of a finite set by another keeps its cardinality.
LEMMA SwapCardinality ==
    ASSUME NEW S, IsFiniteSet(S), NEW x \in S, NEW y, y \notin S
    PROVE  Cardinality((S \ {x}) \union {y}) = Cardinality(S)
<1> DEFINE T == S \ {x}
<1>1. /\ IsFiniteSet(T)
      /\ Cardinality(T) = Cardinality(S) - 1
  BY FS_RemoveElement, Zenon
<1>2. y \notin T
  OBVIOUS
<1> HIDE DEF T
<1>3. Cardinality(T \union {y}) = Cardinality(T) + 1
  BY <1>1, <1>2, FS_AddElement, Zenon
<1>4. Cardinality(S) \in Nat
  BY FS_CardinalityType, Zenon
<1> QED
  BY <1>1, <1>3, <1>4 DEF T

\* The steps that change neither the list nor the wakers, and make nobody
\* wait, preserve NoLostWakeup.
LEMMA WakeupFrame ==
    ASSUME TypeOK, NoLostWakeup,
           Wakers' = Wakers, list' = list,
           Waiting' = Waiting, unlocked' = unlocked
    PROVE  NoLostWakeup'
BY Zenon DEF NoLostWakeup

\* Counting: each step that adds a value to the list adds a waker, and each
\* waker that leaves takes a value with it, hands its duty to a thread it
\* wakes, or leaves nobody waiting.
LEMMA WakeupStep == TypeOK /\ NoLostWakeup /\ [Next]_queueVars => NoLostWakeup'
<1> SUFFICES ASSUME TypeOK, NoLostWakeup, [Next]_queueVars PROVE NoLostWakeup'
  OBVIOUS
<1> USE QueueAssumption
    DEF TypeOK, Threads, ProducerPc, ConsumerPc, CloserPc, At, Goto
<1>0. /\ IsFiniteSet(Wakers) /\ Cardinality(Wakers) \in Nat
      /\ IsFiniteSet(Wakers') /\ Cardinality(Wakers') \in Nat
      /\ Len(list) \in Nat
  <2>1. /\ Wakers \in SUBSET (Consumers \union Producers)
        /\ Wakers' \in SUBSET (Consumers \union Producers)
    BY Zenon DEF Wakers
  <2> QED
    BY <2>1, ThreadsCount, LenProperties, Zenon
<1>1. ASSUME NEW p \in Producers, NEW v \in Values, Push(p, v) PROVE NoLostWakeup'
  BY <1>1, WakeupFrame, Zenon DEF Push, Wakers, Waiting
<1>2. ASSUME NEW p \in Producers, PushLock(p) PROVE NoLostWakeup'
  BY <1>2, WakeupFrame, Zenon DEF PushLock, Lock, Wakers, Waiting
<1>3. ASSUME NEW p \in Producers, PushAdd(p) PROVE NoLostWakeup'
  <2>1. /\ Wakers' = Wakers \union {p}
        /\ p \notin Wakers
        /\ Waiting' = Waiting
    BY <1>3 DEF PushAdd, Wakers, Waiting
  <2>2. Cardinality(Wakers') = Cardinality(Wakers) + 1
    BY <1>0, <2>1, FS_AddElement, Zenon
  <2>3. Len(list') = Len(list) + 1
    BY <1>3, AppendProperties DEF PushAdd
  <2> QED
    BY <1>0, <1>3, <2>1, <2>2, <2>3 DEF PushAdd, NoLostWakeup
<1>4. ASSUME NEW p \in Producers, PushSignal(p) PROVE NoLostWakeup'
  <2>1. CASE Waiting = {}
    <3>1. Waiting' = {}
      BY <1>4, <2>1, Zenon DEF PushSignal, Waiting
    <3> QED
      BY <3>1, Zenon DEF NoLostWakeup
  <2>2. CASE Waiting # {}
    <3>1. PICK woken \in SUBSET Waiting :
             /\ woken # {}
             /\ pc' = [t \in Threads |-> IF t = p THEN "push_signalled"
                                         ELSE IF t \in woken THEN "pop_woken"
                                         ELSE pc[t]]
      BY <1>4, <2>2, Zenon DEF PushSignal
    <3>2. PICK c \in woken : TRUE
      BY <3>1, Zenon
    <3>3. /\ c \in Consumers
          /\ c \notin Wakers
          /\ p \in Wakers
          /\ (Wakers \ {p}) \union {c} \subseteq Wakers'
      BY <1>4, <3>1, <3>2 DEF PushSignal, Wakers, Waiting
    <3>4. Cardinality((Wakers \ {p}) \union {c}) = Cardinality(Wakers)
      BY <1>0, <3>3, SwapCardinality, Zenon
    <3>5. Cardinality(Wakers) <= Cardinality(Wakers')
      BY <1>0, <3>3, <3>4, FS_Subset, Zenon
    <3> QED
      BY <1>0, <1>4, <2>2, <3>5 DEF PushSignal, NoLostWakeup
  <2> QED
    BY <2>1, <2>2, Zenon
<1>5. ASSUME NEW p \in Producers, PushUnlock(p) PROVE NoLostWakeup'
  BY <1>5, WakeupFrame, Zenon DEF PushUnlock, Unlock, Wakers, Waiting
<1>6. ASSUME NEW c \in Consumers, Pop(c) PROVE NoLostWakeup'
  BY <1>6, WakeupFrame, Zenon DEF Pop, Wakers, Waiting
<1>7. ASSUME NEW c \in Consumers, PopLock(c) PROVE NoLostWakeup'
  <2>1. /\ Wakers' = Wakers \union {c}
        /\ Waiting' = Waiting
    BY <1>7 DEF PopLock, Lock, Wakers, Waiting
  <2>2. /\ Cardinality(Wakers') \in Nat
        /\ Cardinality(Wakers) <= Cardinality(Wakers')
    BY <1>0, <2>1, FS_AddElement
  <2> QED
    BY <1>0, <1>7, <2>1, <2>2 DEF PopLock, NoLostWakeup
<1>8. ASSUME NEW c \in Consumers, PopGiveUp(c) PROVE NoLostWakeup'
  BY <1>8, Zenon DEF PopGiveUp, NoLostWakeup
<1>9. ASSUME NEW c \in Consumers, PopRemove(c) PROVE NoLostWakeup'
  <2>1. /\ Wakers' = Wakers \ {c}
        /\ c \in Wakers
        /\ Waiting' = Waiting
    BY <1>9, Zenon DEF PopRemove, Wakers, Waiting
  <2>2. Cardinality(Wakers') = Cardinality(Wakers) - 1
    BY <1>0, <2>1, FS_RemoveElement, Zenon
  <2>3. Len(list') = Len(list) - 1
    BY <1>9, HeadTailProperties, Zenon DEF PopRemove
  <2> QED
    BY <1>0, <1>9, <2>1, <2>2, <2>3 DEF PopRemove, NoLostWakeup
<1>10. ASSUME NEW c \in Consumers, PopWait(c) PROVE NoLostWakeup'
  <2>1. Len(list') = 0
    BY <1>10, Zenon DEF PopWait
  <2> QED
    BY <1>0, <2>1 DEF NoLostWakeup
<1>11. ASSUME NEW c \in Consumers, SpuriousWakeup(c) PROVE NoLostWakeup'
  <2>1. /\ Wakers' = Wakers \union {c}
        /\ Waiting' \subseteq Waiting
    BY <1>11 DEF SpuriousWakeup, Wakers, Waiting
  <2>2. /\ Cardinality(Wakers') \in Nat
        /\ Cardinality(Wakers) <= Cardinality(Wakers')
    BY <1>0, <2>1, FS_AddElement
  <2> QED
    BY <1>0, <1>11, <2>1, <2>2 DEF SpuriousWakeup, NoLostWakeup
<1>12. ASSUME NEW c \in Consumers, PopReacquire(c) PROVE NoLostWakeup'
  BY <1>12, WakeupFrame, Zenon DEF PopReacquire, Lock, Wakers, Waiting
<1>13. ASSUME NEW c \in Consumers, PopUnlock(c) PROVE NoLostWakeup'
  BY <1>13, WakeupFrame, Zenon DEF PopUnlock, Unlock, Wakers, Waiting
<1>14. ASSUME NEW k \in Closers, Close(k) PROVE NoLostWakeup'
  BY <1>14, WakeupFrame, Zenon DEF Close, Wakers, Waiting
<1>15. ASSUME NEW k \in Closers, CloseLock(k) PROVE NoLostWakeup'
  BY <1>15, WakeupFrame, Zenon DEF CloseLock, Lock, Wakers, Waiting
<1>16. ASSUME NEW k \in Closers, CloseSet(k) PROVE NoLostWakeup'
  BY <1>16, Zenon DEF CloseSet, NoLostWakeup
<1>17. ASSUME NEW k \in Closers, CloseBroadcast(k) PROVE NoLostWakeup'
  <2>1. Waiting' = {}
    BY <1>17, Zenon DEF CloseBroadcast, Waiting
  <2> QED
    BY <2>1, Zenon DEF NoLostWakeup
<1>18. ASSUME NEW k \in Closers, CloseUnlock(k) PROVE NoLostWakeup'
  BY <1>18, WakeupFrame, Zenon DEF CloseUnlock, Unlock, Wakers, Waiting
<1>19. CASE UNCHANGED queueVars
  BY <1>19, WakeupFrame, Zenon DEF queueVars, Wakers, Waiting
<1> QED
  BY <1>1, <1>2, <1>3, <1>4, <1>5, <1>6, <1>7, <1>8, <1>9, <1>10, <1>11,
     <1>12, <1>13, <1>14, <1>15, <1>16, <1>17, <1>18, <1>19, Zenon
     DEF Next, PushStep, PopStep, CloseStep

\* No consumer sleeps on a non-empty open queue unless enough other threads
\* are already on their way to the values in it.
THEOREM WakeupNeverLost == Spec => []NoLostWakeup
<1>1. Init => NoLostWakeup
  BY Zenon DEF Init, NoLostWakeup, Waiting, Threads
<1> QED
  BY <1>1, WakeupStep, Typing, PTL DEF Spec

-----------------------------------------------------------------------------
(* Refinement *)

\* Every step of the queue is a step of the abstract FIFO or leaves it alone.
LEMMA RefinementStep ==
    TypeOK /\ [Next]_queueVars => [Fifo!Next]_(Fifo!fifoVars)
<1> SUFFICES ASSUME TypeOK, [Next]_queueVars
             PROVE  [Fifo!Next]_(Fifo!fifoVars)
  OBVIOUS
<1> USE QueueAssumption
    DEF TypeOK, Threads, ProducerPc, ConsumerPc, CloserPc, At, Goto, Asking,
        Fifo!fifoVars
<1>1. ASSUME NEW p \in Producers, NEW v \in Values, Push(p, v) PROVE UNCHANGED Fifo!fifoVars
  BY <1>1 DEF Push
<1>2. ASSUME NEW p \in Producers, PushLock(p) PROVE UNCHANGED Fifo!fifoVars
  BY <1>2, Zenon DEF PushLock, Lock
<1>3. ASSUME NEW p \in Producers, PushAdd(p) PROVE \E v \in Values : Fifo!Enqueue(v)
  BY <1>3 DEF PushAdd, Fifo!Enqueue
<1>4. ASSUME NEW p \in Producers, PushSignal(p) PROVE UNCHANGED Fifo!fifoVars
  BY <1>4 DEF PushSignal, Waiting
<1>5. ASSUME NEW p \in Producers, PushUnlock(p) PROVE UNCHANGED Fifo!fifoVars
  BY <1>5, Zenon DEF PushUnlock, Unlock
<1>6. ASSUME NEW c \in Consumers, Pop(c) PROVE Fifo!Ask(c)
  <2>1. c \notin Asking /\ Asking' = Asking \union {c}
    BY <1>6 DEF Pop
  <2>2. [d \in Consumers |-> value[d]]'
          = [[d \in Consumers |-> value[d]] EXCEPT ![c] = NULL]
    BY <1>6, Zenon DEF Pop
  <2> QED
    BY <1>6, <2>1, <2>2, Zenon DEF Pop, Fifo!Ask
<1>7. ASSUME NEW c \in Consumers, PopLock(c) PROVE UNCHANGED Fifo!fifoVars
  BY <1>7, Zenon DEF PopLock, Lock
<1>8. ASSUME NEW c \in Consumers, PopGiveUp(c) PROVE Fifo!GiveUp(c)
  BY <1>8, Zenon DEF PopGiveUp, Fifo!GiveUp
<1>9. ASSUME NEW c \in Consumers, PopRemove(c) PROVE Fifo!Take(c)
  BY <1>9, Zenon DEF PopRemove, Fifo!Take
<1>10. ASSUME NEW c \in Consumers, PopWait(c) PROVE UNCHANGED Fifo!fifoVars
  BY <1>10, Zenon DEF PopWait, Unlock
<1>11. ASSUME NEW c \in Consumers, SpuriousWakeup(c) PROVE UNCHANGED Fifo!fifoVars
  BY <1>11, Zenon DEF SpuriousWakeup
<1>12. ASSUME NEW c \in Consumers, PopReacquire(c) PROVE UNCHANGED Fifo!fifoVars
  BY <1>12, Zenon DEF PopReacquire, Lock
<1>13. ASSUME NEW c \in Consumers, PopUnlock(c) PROVE UNCHANGED Fifo!fifoVars
  BY <1>13, Zenon DEF PopUnlock, Unlock
<1>14. ASSUME NEW k \in Closers, Close(k) PROVE UNCHANGED Fifo!fifoVars
  BY <1>14, Zenon DEF Close
<1>15. ASSUME NEW k \in Closers, CloseLock(k) PROVE UNCHANGED Fifo!fifoVars
  BY <1>15, Zenon DEF CloseLock, Lock
<1>16. ASSUME NEW k \in Closers, CloseSet(k) PROVE Fifo!Close
  BY <1>16, Zenon DEF CloseSet, Fifo!Close
<1>17. ASSUME NEW k \in Closers, CloseBroadcast(k) PROVE UNCHANGED Fifo!fifoVars
  BY <1>17, Zenon DEF CloseBroadcast, Waiting
<1>18. ASSUME NEW k \in Closers, CloseUnlock(k) PROVE UNCHANGED Fifo!fifoVars
  BY <1>18, Zenon DEF CloseUnlock, Unlock
<1>19. CASE UNCHANGED queueVars
  BY <1>19, Zenon DEF queueVars
<1> QED
  BY <1>1, <1>2, <1>3, <1>4, <1>5, <1>6, <1>7, <1>8, <1>9, <1>10, <1>11,
     <1>12, <1>13, <1>14, <1>15, <1>16, <1>17, <1>18, <1>19, Zenon
     DEF Next, PushStep, PopStep, CloseStep, Fifo!Next

\* The mutex, the condition variable and the flag together implement the
\* abstract blocking FIFO.
THEOREM Refinement == Spec => ImplementsFifo
<1>1. Init => Fifo!Init
  BY Zenon DEF Init, Fifo!Init, Asking, Threads
<1> QED
  BY <1>1, RefinementStep, Typing, PTL DEF Spec, ImplementsFifo, Fifo!Spec

=============================================================================
