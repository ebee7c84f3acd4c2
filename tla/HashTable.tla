------------------------------ MODULE HashTable ------------------------------
(***************************************************************************)
(* The table of hash-table.c: a list of entries that is searched for the   *)
(* hash of a key, starting at the cursor the last call left in the list.   *)
(* The table owns the key strings it is given and none of the values.      *)
(***************************************************************************)
EXTENDS Naturals, Sequences, FiniteSetsExt

CONSTANTS
    Texts,    \* contents of key strings
    Values,   \* pointers to values
    HashOf,   \* hash of each text
    MaxKeys,  \* bound on the key strings handed to the table
    NULL

TableAssumption ==
    /\ MaxKeys \in Nat
    /\ DOMAIN HashOf = Texts
    /\ NULL \notin Values \union Texts

VARIABLES
    entries,  \* the entries in order: key (a string, numbered), text, keyHash, value
    cursor,   \* currentIndex of the list, counted from 1
    given,    \* key strings handed over so far
    freed,    \* those the table has freed
    reply     \* the last call, its text and what it returned

vars == <<entries, cursor, given, freed, reply>>

Init ==
    /\ entries = <<>>
    /\ cursor = 1
    /\ given = 0
    /\ freed = {}
    /\ reply = [call |-> "create", text |-> NULL, value |-> NULL]

\* list_removeValue on the list of entries
RemoveAt(s, i) == SubSeq(s, 1, i - 1) \o SubSeq(s, i + 1, Len(s))

\* The index the search reaches in its k-th round when it begins at "from"
Round(from, k) == ((from + k - 2) % Len(entries)) + 1

\* Mutant: the search ends one entry early.
FindIndex_Short(from, hash) ==
    LET hits == {k \in 1..(Len(entries) - 1) : entries[Round(from, k)].keyHash = hash}
    IN  IF hits = {} THEN 0
        ELSE Round(from, Min(hits))

\* hash_table_findIndex: the first entry with the hash, 0 when there is none
FindIndex(from, hash) ==
    LET hits == {k \in DOMAIN entries : entries[Round(from, k)].keyHash = hash}
    IN  IF hits = {} THEN 0
        ELSE Round(from, Min(hits))

\* The cursor stays at the entry found; a search without a hit goes all round.
CursorAfter(from, hash) ==
    IF FindIndex(from, hash) = 0 THEN from ELSE FindIndex(from, hash)

\* Mutant: the key that is replaced is not freed.
SetValue_Leak(text, v) ==
    /\ given < MaxKeys
    /\ given' = given + 1
    /\ cursor' = CursorAfter(cursor, HashOf[text])
    /\ LET at == FindIndex(cursor, HashOf[text])
       IN  \/ /\ at = 0
              /\ entries' = Append(entries, [key |-> given + 1, text |-> text,
                                             keyHash |-> HashOf[text], value |-> v])
              /\ reply' = [call |-> "set", text |-> text, value |-> NULL]
              /\ UNCHANGED freed
           \/ /\ at # 0
              /\ UNCHANGED freed
              /\ entries' = [entries EXCEPT ![at].value = v,
                                            ![at].key = given + 1, ![at].text = text]
              /\ reply' = [call |-> "set", text |-> text, value |-> entries[at].value]

\* hash_table_setValue with the next key string
SetValue(text, v) ==
    /\ given < MaxKeys
    /\ given' = given + 1
    /\ cursor' = CursorAfter(cursor, HashOf[text])
    /\ LET at == FindIndex(cursor, HashOf[text])
       IN  \/ /\ at = 0
              /\ entries' = Append(entries, [key |-> given + 1, text |-> text,
                                             keyHash |-> HashOf[text], value |-> v])
              /\ reply' = [call |-> "set", text |-> text, value |-> NULL]
              /\ UNCHANGED freed
           \/ /\ at # 0
              /\ freed' = freed \union {entries[at].key}
              /\ entries' = [entries EXCEPT ![at].value = v,
                                            ![at].key = given + 1, ![at].text = text]
              /\ reply' = [call |-> "set", text |-> text, value |-> entries[at].value]

\* hash_table_removeValue; list_removeValue leaves the cursor at the next entry
RemoveFrom(from, text) ==
    LET at == FindIndex(from, HashOf[text])
    IN  /\ \/ /\ at = 0
              /\ cursor' = from
              /\ reply' = [call |-> "remove", text |-> text, value |-> NULL]
              /\ UNCHANGED <<entries, freed>>
           \/ /\ at # 0
              /\ entries' = RemoveAt(entries, at)
              /\ cursor' = IF at = Len(entries) THEN 1 ELSE at
              /\ freed' = freed \union {entries[at].key}
              /\ reply' = [call |-> "remove", text |-> text, value |-> entries[at].value]
        /\ UNCHANGED given

RemoveValue(text) == RemoveFrom(cursor, text)

\* One turn of the loop with which http.c, url.c, www.c and worker.c empty a
\* table: hash_table_removeValue with the key hash_table_getKeyByIndex(0) gave
RemoveIndexZero ==
    /\ entries # <<>>
    /\ RemoveFrom(1, entries[1].text)

\* hash_table_getValue
GetValue(text) ==
    LET at == FindIndex(cursor, HashOf[text])
    IN  /\ cursor' = CursorAfter(cursor, HashOf[text])
        /\ reply' = [call |-> "get", text |-> text,
                     value |-> IF at = 0 THEN NULL ELSE entries[at].value]
        /\ UNCHANGED <<entries, freed, given>>

\* hash_table_getKeyByIndex and hash_table_getValueByIndex of the same index
GetByIndex(i) ==
    /\ i \in DOMAIN entries
    /\ cursor' = i
    /\ reply' = [call |-> "get", text |-> entries[i].text, value |-> entries[i].value]
    /\ UNCHANGED <<entries, freed, given>>

\* hash_table_clear
Clear ==
    /\ entries' = <<>>
    /\ cursor' = 1
    /\ freed' = freed \union {entries[k].key : k \in DOMAIN entries}
    /\ reply' = [call |-> "clear", text |-> NULL, value |-> NULL]
    /\ UNCHANGED given

Next ==
    \/ \E text \in Texts, v \in Values : SetValue(text, v)
    \/ \E text \in Texts : RemoveValue(text)
    \/ \E text \in Texts : GetValue(text)
    \/ \E i \in 1..MaxKeys : GetByIndex(i)
    \/ RemoveIndexZero
    \/ Clear

Spec == Init /\ [][Next]_vars

-----------------------------------------------------------------------------
(* Properties *)

\* Type invariant of the table; the cursor is on an entry unless it is empty.
TypeOK ==
    /\ \A k \in DOMAIN entries :
          entries[k] \in [key : 1..MaxKeys, text : Texts, keyHash : {HashOf[t] : t \in Texts},
                          value : Values]
    /\ cursor \in DOMAIN entries \union {1}
    /\ given \in 0..MaxKeys
    /\ freed \subseteq 1..MaxKeys
    /\ reply.value \in Values \union {NULL}

\* hash-table.h, line 29: "The hash table owns the key, but not the value".
\* Each key string handed over is in exactly one entry or was freed, never
\* both: none leaks, is freed twice, or stays in an entry after it was freed.
OwnsKeys ==
    LET held == {entries[k].key : k \in DOMAIN entries}
    IN  /\ TypeOK
        /\ held \intersect freed = {}
        /\ held \union freed = 1..given
        /\ Cardinality(held) = Len(entries)

\* Texts whose hash no other text has
Unique == {t \in Texts : \A s \in Texts \ {t} : HashOf[s] # HashOf[t]}

\* The value each of them has
Contents ==
    [t \in Unique |-> LET at == {k \in DOMAIN entries : entries[k].text = t}
                      IN  IF at = {} THEN NULL ELSE entries[CHOOSE k \in at : TRUE].value]

\* A call answers with the value its text had, and changes no other's.
AnswersAsMap ==
    LET t == reply'.text
    IN  /\ reply'.call # "clear" => \A s \in Unique \ {t} : Contents'[s] = Contents[s]
        /\ t \in Unique => /\ reply'.value = Contents[t]
                           /\ reply'.call = "get" => Contents'[t] = Contents[t]
                           /\ reply'.call = "set" => Contents'[t] # NULL
                           /\ reply'.call = "remove" => Contents'[t] = NULL

\* For texts whose hash is their own the table is a map, wherever earlier calls
\* left the cursor: hash_table_setValue, hash_table_removeValue and the getters
\* answer with the value the text had, and no call changes the value of another
\* one, also when other keys collide and share an entry.
BehavesAsMap == [][AnswersAsMap]_vars

=============================================================================
