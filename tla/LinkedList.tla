----------------------------- MODULE LinkedList -----------------------------
(***************************************************************************)
(* The list of datastructures/list/list.c: a circular doubly linked list   *)
(* with a cursor.  Every access by index walks the cursor there, in the    *)
(* direction that looks shorter.  Sets and queues are lists under another  *)
(* name (set.c, queue.c); set_addValue is the only new operation.          *)
(***************************************************************************)
EXTENDS Integers, Sequences, FiniteSets

CONSTANTS
    Pointers,   \* values stored in the list
    Nodes,      \* memory for nodes: bounds the length of the list
    SizeBits,   \* width of size_t
    Nil         \* the null pointer

\* A size_t counts every byte of the memory, so every node too.
ASSUME ListAssumption ==
    /\ IsFiniteSet(Nodes) /\ Nodes # {}
    /\ SizeBits \in Nat \ {0}
    /\ Cardinality(Nodes) < 2 ^ SizeBits
    /\ Nil \notin Pointers \union Nodes

Indices == 0..Cardinality(Nodes)

VARIABLES
    node,          \* the heap: next, previous and value of each node in use
    current,       \* list->current
    tail,          \* list->tail
    currentIndex,  \* list->currentIndex
    length,        \* list->length
    result,        \* what the last operation returned
    hung,          \* the last operation does not return
    strayed        \* the length of the list when a walk strayed, 0 before (see Strays)

listVars == <<node, current, tail, currentIndex, length, result, hung, strayed>>

Free == [next |-> Nil, previous |-> Nil, value |-> Nil]

ListInit ==
    /\ node = [n \in Nodes |-> Free]
    /\ current = Nil
    /\ tail = Nil
    /\ currentIndex = 0
    /\ length = 0
    /\ result = Nil
    /\ hung = FALSE
    /\ strayed = 0

-----------------------------------------------------------------------------
(* list_moveToIndex *)

\* The direction with fewer steps, each estimated as the code does.
Direction(index) ==
    IF currentIndex < index
    THEN IF 1 + currentIndex + length - index < index - currentIndex THEN -1 ELSE 1
    ELSE IF currentIndex - index < 1 + length - currentIndex + index THEN -1 ELSE 1

\* (index + 1 * direction) % length in size_t: below zero it wraps at 2^w.
StepIndex(index, direction) == ((index + direction) % 2 ^ SizeBits) % length
StepNode(n, direction) == IF direction = 1 THEN node[n].next ELSE node[n].previous

\* The cursor after k rounds of the loop.
Walk(direction) ==
    LET at[k \in 0..length] ==
            IF k = 0 THEN <<currentIndex, current>>
            ELSE LET last == at[k - 1]
                 IN  <<StepIndex(last[1], direction), StepNode(last[2], direction)>>
    IN  at

\* Where the cursor ends, or <<>> when the loop never meets its index: the
\* index takes at most `length` values before it repeats.
list_moveToIndex(index) ==
    IF currentIndex = index THEN <<index, current>>
    ELSE IF index = 0 THEN <<0, node[tail].next>>
    ELSE IF index + 1 = length THEN <<index, tail>>
    ELSE LET at == Walk(Direction(index))
             hits == {k \in 0..length : at[k][1] = index}
         IN  IF hits = {} THEN <<>>
             ELSE at[CHOOSE k \in hits : \A j \in hits : k <= j]

\* The loop walks left from an index below the one it looks for, so it passes
\* index 0, where the index wraps at 2^w and not at the length of the list.
Strays(index) ==
    /\ index + 1 # length
    /\ currentIndex < index
    /\ Direction(index) = -1
    /\ 2 ^ SizeBits % length # 0

\* The operation that strays is modelled to its end, what is done with such a
\* list afterwards is not.
Running == ~hung /\ strayed = 0

Move(index) == strayed' = IF Strays(index) THEN length ELSE 0

Hang ==
    /\ hung' = TRUE
    /\ UNCHANGED <<node, current, tail, currentIndex, length, result>>

-----------------------------------------------------------------------------
(* list_addValue; malloc returns any unused node *)

list_addValue(v) ==
    /\ Running
    /\ \E n \in Nodes :
          /\ node[n] = Free
          /\ IF length = 0
             THEN /\ node' = [node EXCEPT ![n] = [next |-> n, previous |-> n, value |-> v]]
                  /\ current' = n
             ELSE /\ LET head == node[tail].next
                         linked == [node EXCEPT ![n] = [next |-> head, previous |-> tail,
                                                        value |-> v],
                                                ![head].previous = n]
                     IN  node' = [linked EXCEPT ![tail].next = n]
                  /\ UNCHANGED current
          /\ tail' = n
    /\ length' = length + 1
    /\ UNCHANGED <<currentIndex, result, hung, strayed>>

\* list_findIndex walks once around from the cursor and stops at a match.
Matches(v) ==
    LET at == Walk(1) IN {k \in 0..(length - 1) : node[at[k][2]].value = v}

FirstMatch(v) ==
    LET matches == Matches(v)
    IN  Walk(1)[CHOOSE k \in matches : \A j \in matches : k <= j]

MoveToMatch(v) ==
    IF Matches(v) = {}
    THEN UNCHANGED <<current, currentIndex>>
    ELSE currentIndex' = FirstMatch(v)[1] /\ current' = FirstMatch(v)[2]

\* Mutant: the index that is returned does not wrap at the length.
list_findIndex_NoWrap(v) ==
    /\ Running
    /\ result' = <<IF Matches(v) = {} THEN -1
                  ELSE currentIndex + CHOOSE k \in Matches(v) : \A j \in Matches(v) : k <= j>>
    /\ MoveToMatch(v)
    /\ UNCHANGED <<node, tail, length, hung, strayed>>

\* list_findIndex
list_findIndex(v) ==
    /\ Running
    /\ result' = <<IF Matches(v) = {} THEN -1 ELSE FirstMatch(v)[1]>>
    /\ MoveToMatch(v)
    /\ UNCHANGED <<node, tail, length, hung, strayed>>

\* set_addValue
set_addValue(v) ==
    \/ Matches(v) = {} /\ list_addValue(v)
    \/ /\ Running
       /\ Matches(v) # {}
       /\ MoveToMatch(v)
       /\ UNCHANGED <<node, tail, length, result, hung, strayed>>

-----------------------------------------------------------------------------
(* list_removeValue, list_getValue, list_setValue, list_clear *)

OutOfBounds(i) ==
    /\ length <= i
    /\ result' = Nil
    /\ UNCHANGED <<node, current, tail, currentIndex, length, hung, strayed>>

\* Mutant: the tail is not moved when the last node goes.
Unlink_KeepTail(index, n) ==
    LET next == node[n].next
        previous == node[n].previous
        linked == [node EXCEPT ![next].previous = previous]
    IN  /\ node' = [[linked EXCEPT ![previous].next = next] EXCEPT ![n] = Free]
        /\ tail' = tail
        /\ current' = next
        /\ currentIndex' = index % (length - 1)

\* The value at the cursor is unlinked; the cursor moves on to the next one.
Unlink(index, n) ==
    LET next == node[n].next
        previous == node[n].previous
        linked == [node EXCEPT ![next].previous = previous]
    IN  /\ node' = [[linked EXCEPT ![previous].next = next] EXCEPT ![n] = Free]
        /\ tail' = IF index + 1 = length THEN previous ELSE tail
        /\ current' = next
        /\ currentIndex' = index % (length - 1)

list_removeValue(i) ==
    /\ Running
    /\ \/ OutOfBounds(i)
       \/ /\ i < length
          /\ length = 1
          /\ node' = [node EXCEPT ![current] = Free]
          /\ result' = node[current].value
          /\ current' = Nil /\ tail' = Nil /\ currentIndex' = 0 /\ length' = 0
          /\ UNCHANGED <<hung, strayed>>
       \/ /\ i < length
          /\ length > 1
          /\ Move(i)
          /\ LET at == list_moveToIndex(i)
             IN  IF at = <<>> THEN Hang
                 ELSE /\ Unlink(at[1], at[2])
                      /\ result' = node[at[2]].value
                      /\ length' = length - 1
                      /\ UNCHANGED hung

\* list_getValue and list_setValue: the value is read, and replaced unless
\* `stored` is Nil.
Access(i, stored) ==
    /\ Running
    /\ \/ OutOfBounds(i)
       \/ /\ i < length
          /\ Move(i)
          /\ LET at == list_moveToIndex(i)
             IN  IF at = <<>> THEN Hang
                 ELSE /\ currentIndex' = at[1] /\ current' = at[2]
                      /\ result' = node[at[2]].value
                      /\ node' = [node EXCEPT ![at[2]].value = IF stored = Nil THEN @ ELSE stored]
                      /\ UNCHANGED <<tail, length, hung>>

list_getValue(i) == Access(i, Nil)
list_setValue(i, v) == Access(i, v)

\* list_removeValue(list, 0) until the list is empty
list_clear ==
    /\ Running
    /\ node' = [n \in Nodes |-> Free]
    /\ current' = Nil /\ tail' = Nil /\ currentIndex' = 0 /\ length' = 0
    /\ UNCHANGED <<result, hung, strayed>>

\* The calling thread is in an endless loop, or the walk has strayed.
Stuck == ~Running /\ UNCHANGED listVars

ListNext ==
    \/ \E v \in Pointers : list_addValue(v) \/ set_addValue(v) \/ list_findIndex(v)
    \/ \E i \in Indices :
          \/ list_removeValue(i)
          \/ list_getValue(i)
          \/ \E v \in Pointers : list_setValue(i, v)
    \/ list_clear
    \/ Stuck

ListSpec == ListInit /\ [][ListNext]_listVars

-----------------------------------------------------------------------------
(* Properties *)

\* Type invariant of the list and of its heap.
ListTypeOK ==
    /\ node \in [Nodes -> [next : Nodes \union {Nil}, previous : Nodes \union {Nil},
                           value : Pointers \union {Nil}]]
    /\ current \in Nodes \union {Nil} /\ tail \in Nodes \union {Nil}
    /\ currentIndex \in Indices /\ length \in Indices
    /\ hung \in BOOLEAN

\* The nodes in list order, from the one after the tail.
Chain ==
    LET at[k \in 1..length] == IF k = 1 THEN node[tail].next ELSE node[at[k - 1]].next
    IN  at

\* The ring is closed in both directions, has `length` nodes and no others are
\* in use, the tail is its last node, the cursor is where currentIndex says and
\* every call returns ("The code is manually checked and is correct", list.c,
\* line 91), unless a walk has strayed.  That takes at least six values, and a
\* number of them that does not divide 2^w.
WellFormed ==
    /\ strayed # 0 => strayed >= 6 /\ 2 ^ SizeBits % strayed # 0
    /\ strayed = 0 =>
         /\ ListTypeOK
         /\ ~hung
         /\ Cardinality({n \in Nodes : node[n] # Free}) = length
         /\ length > 0 =>
              /\ Cardinality({Chain[k] : k \in 1..length}) = length
              /\ Chain[length] = tail
              /\ Chain[currentIndex + 1] = current
              /\ \A k \in 1..length : node[node[Chain[k]].next].previous = Chain[k]

InOrder == [k \in 1..length |-> node[Chain[k]].value]

\* The list implements the sequence of list.h, up to a walk that strays: each
\* operation leaves and returns what the operation on a sequence does.
Sequence == INSTANCE SequenceList WITH
                Values <- Pointers,
                NULL <- Nil,
                seq <- InOrder

ImplementsSequence ==
    Sequence!Init /\ [][strayed' # 0 \/ Sequence!Next]_(Sequence!vars)

=============================================================================
