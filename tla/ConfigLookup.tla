---------------------------- MODULE ConfigLookup ----------------------------
(***************************************************************************)
(* Looking up a virtual host (config.c) in the list of server configs,     *)
(* which all the workers share.  Nobody changes the list, but list_getValue*)
(* moves its cursor, so even readers write to it (list.c), without a lock. *)
(* Each access to the shared cursor is one step.                           *)
(***************************************************************************)
EXTENDS Naturals, Integers

CONSTANTS
    Readers,   \* worker threads
    NConfigs,  \* length of config->serverConfigs, at least 1; config i is at index i
    SizeBits,  \* width of size_t
    NULL

Configs == 0..(NConfigs - 1)

VARIABLES
    currentIndex,  \* list->currentIndex, shared
    current,       \* list->current, shared: the config of the node it points to
    pc,            \* position of each reader
    wanted,        \* the config whose domain and port the request names
    i,             \* its loop counter
    direction,     \* its local variable in list_moveToIndex
    found          \* what its last lookup returned

vars == <<currentIndex, current, pc, wanted, i, direction, found>>

Init ==
    /\ currentIndex = 0
    /\ current = 0
    /\ pc = [r \in Readers |-> "idle"]
    /\ wanted = [r \in Readers |-> NULL]
    /\ i = [r \in Readers |-> 0]
    /\ direction = [r \in Readers |-> 0]
    /\ found = [r \in Readers |-> NULL]

Goto(r, here, there) == pc[r] = here /\ pc' = [pc EXCEPT ![r] = there]

\* config_getServerConfigByDomain for a domain that is configured
Lookup(r, d) ==
    /\ Goto(r, "idle", "move")
    /\ wanted' = [wanted EXCEPT ![r] = d]
    /\ i' = [i EXCEPT ![r] = 0]
    /\ found' = [found EXCEPT ![r] = NULL]
    /\ UNCHANGED <<currentIndex, current, direction>>

DirectionTo(index) ==
    IF currentIndex < index
    THEN IF 1 + currentIndex + NConfigs - index < index - currentIndex THEN -1 ELSE 1
    ELSE IF currentIndex - index < 1 + NConfigs - currentIndex + index THEN -1 ELSE 1

\* list_moveToIndex up to its loop
Move(r) ==
    /\ Goto(r, "move", IF currentIndex = i[r] THEN "read"
                       ELSE IF i[r] = 0 \/ i[r] + 1 = NConfigs THEN "jump" ELSE "walk")
    /\ direction' = [direction EXCEPT ![r] = DirectionTo(i[r])]
    /\ UNCHANGED <<currentIndex, current, wanted, i, found>>

\* The first and the last index: the two assignments before the early return
JumpIndex(r) ==
    /\ Goto(r, "jump", "jump_node")
    /\ currentIndex' = i[r]
    /\ UNCHANGED <<current, wanted, i, direction, found>>

JumpNode(r) ==
    /\ Goto(r, "jump_node", "read")
    /\ current' = i[r]
    /\ UNCHANGED <<currentIndex, wanted, i, direction, found>>

\* The loop: its test, and its two assignments.  The index is a size_t.
WalkIndex(r) ==
    \/ /\ currentIndex = i[r]
       /\ Goto(r, "walk", "read")
       /\ UNCHANGED <<currentIndex, current, wanted, i, direction, found>>
    \/ /\ currentIndex # i[r]
       /\ Goto(r, "walk", "walk_node")
       /\ currentIndex' = ((currentIndex + direction[r]) % 2 ^ SizeBits) % NConfigs
       /\ UNCHANGED <<current, wanted, i, direction, found>>

WalkNode(r) ==
    /\ Goto(r, "walk_node", "walk")
    /\ current' = (current + direction[r]) % NConfigs
    /\ UNCHANGED <<currentIndex, wanted, i, direction, found>>

\* list->current->value, compared with what the request names
Read(r) ==
    /\ Goto(r, "read", IF current = wanted[r] \/ i[r] + 1 = NConfigs THEN "idle" ELSE "move")
    /\ found' = [found EXCEPT ![r] = IF current = wanted[r] THEN current ELSE NULL]
    /\ i' = [i EXCEPT ![r] = IF current = wanted[r] THEN @ ELSE @ + 1]
    /\ UNCHANGED <<currentIndex, current, wanted, direction>>

Step(r) ==
    \/ Move(r) \/ JumpIndex(r) \/ JumpNode(r) \/ WalkIndex(r) \/ WalkNode(r) \/ Read(r)

Next == \E r \in Readers : Step(r) \/ \E d \in Configs : Lookup(r, d)

Spec == Init /\ [][Next]_vars

-----------------------------------------------------------------------------
(* Properties *)

\* A lookup of a virtual host that is configured finds it.  README,
\* Architecture: the pool "handles each request separately and concurrently".
LookupFinds ==
    \A r \in Readers : (pc[r] = "idle" /\ wanted[r] # NULL) => found[r] = wanted[r]

=============================================================================
