--------------------------- MODULE ConnectionProofs ---------------------------
(***************************************************************************)
(* Whatever the client sends and in whatever pieces: the size of a         *)
(* request's header stays below its limit, its lines are read in order,    *)
(* and a body that is there is read.                                       *)
(***************************************************************************)
EXTENDS Connection, SequenceTheorems, WellFoundedInduction, TLAPS

-----------------------------------------------------------------------------
(* Strings and numbers *)

\* A set of naturals that is not empty has a minimum, and Min chooses it.
LEMMA MinOf ==
  ASSUME NEW S \in SUBSET Nat, S # {}
  PROVE  Min(S) \in S /\ \A y \in S : Min(S) <= y
<1> DEFINE R == OpToRel(<, Nat)
<1>1. PICK x \in S : \A y \in S : ~ (<<y, x>> \in R)
  BY NatLessThanWellFounded, WFMin, Zenon
<1>2. \A y \in S : ~ (y < x)
  BY <1>1, Zenon DEF OpToRel
<1>3. \A y \in S : x <= y
  BY <1>2, SMT
<1>. QED
  BY <1>3, Zenon DEF Min

\* The smaller of two
LEMMA MinOfTwo ==
  ASSUME NEW a \in Nat, NEW b \in Nat
  PROVE  /\ Min({a, b}) \in {a, b}
         /\ Min({a, b}) <= a /\ Min({a, b}) <= b
BY MinOf, SMT

\* A set of naturals that is not empty and is bounded has a maximum.
LEMMA MaxOf ==
  ASSUME NEW n \in Nat, NEW S \in SUBSET (0..n), S # {}
  PROVE  Max(S) \in S /\ \A y \in S : Max(S) >= y
<1> DEFINE T == {n - y : y \in S}
<1>1. T \in SUBSET Nat /\ T # {}
  <2>1. \A y \in S : n - y \in Nat
    OBVIOUS
  <2>2. PICK y \in S : TRUE
    OBVIOUS
  <2>. QED
    BY <2>1, <2>2, Zenon
<1>2. Min(T) \in T /\ \A y \in T : Min(T) <= y
  BY <1>1, MinOf, Zenon
<1>3. PICK x \in S : Min(T) = n - x
  BY <1>2, Zenon
<1>4. \A y \in S : n - x <= n - y
  BY <1>2, <1>3, Zenon
<1>5. \A y \in S : x >= y
  BY <1>4, SMT
<1>. QED
  BY <1>5, Zenon DEF Max

\* A part of a sequence
LEMMA Part ==
  ASSUME NEW s, NEW c \in Nat, NEW n \in Nat
  PROVE  /\ DOMAIN SubSeq(s, c + 1, c + n) = 1..n
         /\ \A i \in 1..n : SubSeq(s, c + 1, c + n)[i] = s[c + i]
<1> DEFINE S == {s[j] : j \in (c + 1)..(c + n)}
           t == SubSeq(s, c + 1, c + n)
<1>1. \A i \in (c + 1)..(c + n) : s[i] \in S
  OBVIOUS
<1>2. c + 1 \in Int /\ c + n \in Int
  OBVIOUS
<1> HIDE DEF S
<1>3. /\ t \in Seq(S)
      /\ Len(t) = IF c + 1 <= c + n THEN (c + n) - (c + 1) + 1 ELSE 0
      /\ \A i \in 1..((c + n) - (c + 1) + 1) : t[i] = s[c + 1 + i - 1]
  BY <1>1, <1>2, SubSeqProperties
<1> HIDE DEF t
<1>4. Len(t) = n
  BY <1>3
<1>5. DOMAIN t = 1..n
  BY <1>3, <1>4, LenProperties, Zenon
<1>6. (c + n) - (c + 1) + 1 = n /\ \A i \in 1..n : c + 1 + i - 1 = c + i
  OBVIOUS
<1>7. \A i \in 1..n : t[i] = s[c + i]
  BY <1>3, <1>6, Zenon
<1>. QED
  BY <1>5, <1>7, Zenon DEF t

\* Its length
LEMMA PartLen ==
  ASSUME NEW s, NEW c \in Nat, NEW n \in Nat
  PROVE  Len(SubSeq(s, c + 1, c + n)) = n
<1> DEFINE S == {s[j] : j \in (c + 1)..(c + n)}
<1>1. \A i \in (c + 1)..(c + n) : s[i] \in S
  OBVIOUS
<1>2. c + 1 \in Int /\ c + n \in Int
  OBVIOUS
<1> HIDE DEF S
<1>3. Len(SubSeq(s, c + 1, c + n)) = IF c + 1 <= c + n THEN (c + n) - (c + 1) + 1 ELSE 0
  BY <1>1, <1>2, SubSeqProperties, Zenon
<1>. QED
  BY <1>3

\* string_trimEnd drops at least the newline that ends a line.
LEMMA Trimmed ==
  ASSUME NEW s, NEW n \in Nat \ {0}, DOMAIN s = 1..n, s[n] = Newline
  PROVE  Len(Trim(s)) \in 0..(n - 1)
<1> DEFINE K == {k \in DOMAIN s : s[k] \notin {Newline, Blank}} \union {0}
<1>1. K \in SUBSET (0..(n - 1)) /\ K # {} /\ n - 1 \in Nat
  OBVIOUS
<1>2. Max(K) \in K
  BY <1>1, MaxOf, Zenon
<1> DEFINE m == Max(K)
<1>3. m \in 0..(n - 1) /\ Trim(s) = SubSeq(s, 1, m)
  BY <1>1, <1>2, Zenon DEF Trim
<1> HIDE DEF m
<1>4. \A i \in 1..m : s[i] \in {s[j] : j \in 1..n}
  BY <1>3
<1>5. Len(SubSeq(s, 1, m)) = IF 1 <= m THEN m - 1 + 1 ELSE 0
  BY <1>3, <1>4, SubSeqProperties
<1>. QED
  BY <1>3, <1>5

\* Less is left of less.
LEMMA LessIsLess ==
  ASSUME NEW a \in Int, NEW b \in Int, NEW c \in Int, a <= b
  PROVE  a - c \in Int /\ b - c \in Int /\ a - c <= b - c
OBVIOUS

\* More is left of more.
LEMMA MoreIsMore ==
  ASSUME NEW a \in Nat, NEW b \in Nat, NEW c \in Nat, NEW d \in Nat, a <= b
  PROVE  a - c >= d => b - c >= d
OBVIOUS

-----------------------------------------------------------------------------
(* The inductive invariant *)

\* The worker is inside connection_readLine or connection_read.
Reading == pc \in {"poll", "available", "peek", "consume"}

\* What was looked at is still there, and connection_readLine never looks
\* behind the limit.
Looked ==
    Reading => /\ available <= BytesAvailable
               /\ call = "readLine" => available <= MaxBytes

\* Before it reads, it knows that the bytes are there: a line up to its
\* newline, or the whole body.
Found ==
    pc = "consume" =>
        IF call = "readLine"
        THEN lineLength \in 1..available /\ message[consumed + lineLength] = Newline
        ELSE bodyLength <= available

IInv ==
    /\ TypeOK
    /\ headerSize < MaxHeader /\ headerSize <= consumed
    /\ pc = "peek" => call = "readLine"
    /\ Looked
    /\ Found

-----------------------------------------------------------------------------
(* The steps *)

\* The constants and what they bound are numbers.
Numbers ==
    /\ MaxRecord \in Nat /\ MaxRecord > 0 /\ MaxHeader \in Nat /\ MaxHeader > 0
    /\ Response \in Nat /\ SendBuffer \in Nat /\ Retries \in Nat
    /\ Len(message) \in Nat /\ bodyLength \in Nat

\* The assumptions on the constants make them so.
LEMMA AreNumbers ==
  ASSUME message \in Messages, bodyLength \in BodyLengths
  PROVE  Numbers
<1>1. message \in Seq({message[i] : i \in DOMAIN message})
  BY ConnectionAssumption, Zenon DEF ConnectionAssumption
<1>2. Len(message) \in Nat
  BY <1>1, LenProperties, Zenon
<1>3. /\ MaxRecord \in Nat \ {0} /\ MaxHeader \in Nat \ {0}
      /\ Response \in Nat /\ SendBuffer \in Nat /\ Retries \in Nat
      /\ bodyLength \in Nat
  BY ConnectionAssumption, Zenon DEF ConnectionAssumption
<1>. QED
  BY <1>2, <1>3, SMT DEF Numbers

\* The header's size is 0 before the first line.
LEMMA IInvInit == Init => IInv
<1>. SUFFICES ASSUME Init PROVE IInv
  OBVIOUS
<1>1. Numbers
  BY AreNumbers, Zenon DEF Init
<1>2. TypeOK
  BY <1>1 DEF Numbers, Init, TypeOK
<1>3. Looked /\ Found
  BY <1>1 DEF Numbers, Init, Looked, Found, Reading, BytesAvailable, Pending, MaxBytes
<1>. QED
  BY <1>1, <1>2, <1>3 DEF Numbers, Init, IInv

\* A step of the client only adds bytes.
LEMMA ClientStep ==
  ASSUME IInv, Numbers, Arrive \/ Leave
  PROVE  IInv'
<1>1. TypeOK'
  <2>1. CASE Arrive
    <3>1. arrived' \in (arrived + 1)..Len(message)
      BY <2>1, Zenon DEF Arrive
    <3>. QED
      BY <2>1, <3>1 DEF Numbers, IInv, TypeOK, Arrive, tls, frame, out, fin
  <2>2. CASE Leave
    BY <2>2, Zenon DEF Numbers, IInv, TypeOK, Leave, tls, frame, out, fin
  <2>. QED
    BY <2>1, <2>2, Zenon
<1>2. Looked' /\ Found'
  BY DEF Numbers, IInv, TypeOK, Looked, Found, Reading, BytesAvailable, Pending,
     MaxBytes, Arrive, Leave, tls, frame, out, fin
<1>. QED
  BY <1>1, <1>2, Zenon DEF IInv, Arrive, Leave, tls, frame, out, fin

\* A call that returns NULL leaves the header's size alone.
LEMMA NullStep ==
  ASSUME IInv, Numbers, Reading, ReturnNull, UNCHANGED <<net, tls, consumed, fin>>
  PROVE  IInv'
<1>. USE DEF ReturnNull, HeaderDone, Begin, Answer, net, tls, frame, out, fin
<1>1. TypeOK'
  BY DEF Numbers, IInv, TypeOK
<1>2. Looked' /\ Found'
  BY DEF Numbers, IInv, TypeOK, Looked, Found, Reading, BytesAvailable, Pending, MaxBytes
<1>. QED
  BY <1>1, <1>2, Zenon DEF IInv

\* connection_pollForData and the count of rounds
LEMMA PollStep ==
  ASSUME IInv, Numbers, Poll
  PROVE  IInv'
<1>1. CASE ReturnNull
  BY <1>1, NullStep, Zenon DEF Poll, Reading
<1>2. CASE /\ timeouts <= Retries /\ timeouts' = timeouts + 1
           /\ pc' \in {"available", "poll"}
           /\ UNCHANGED <<call, early, offset, available, lineLength, out>>
           /\ UNCHANGED <<net, tls, consumed, fin>>
  <2>. USE <1>2 DEF net, tls, out, fin
  <2>1. TypeOK'
    BY DEF Numbers, IInv, TypeOK
  <2>2. Looked' /\ Found'
    BY DEF IInv, Looked, Found, Reading, BytesAvailable, Pending, MaxBytes, Poll
  <2>. QED
    BY <2>1, <2>2, Zenon DEF IInv
<1>. QED
  BY <1>1, <1>2 DEF Poll, Numbers, IInv, TypeOK

\* SSL_peek takes over bytes that have arrived, and gives none back.
LEMMA PeekAdds ==
  ASSUME TypeOK, Numbers, SSLPeek
  PROVE  /\ absorbed' \in 0..arrived /\ decrypted' \in 0..absorbed'
         /\ decrypted <= decrypted'
<1>1. decrypted + MaxRecord \in Nat /\ arrived \in Nat
  BY DEF TypeOK, Numbers
<1>2. RecordEnd \in Nat /\ decrypted <= RecordEnd
  BY <1>1, MinOfTwo DEF RecordEnd, TypeOK, Numbers
<1>3. absorbed' \in {arrived, RecordEnd} /\ absorbed' <= arrived /\ absorbed' <= RecordEnd
  BY <1>1, <1>2, MinOfTwo, Zenon DEF SSLPeek
<1>. QED
  BY <1>1, <1>2, <1>3 DEF SSLPeek, TypeOK, Numbers

\* A round that ends because there are not enough bytes
LEMMA WaitStep ==
  ASSUME IInv, Numbers, NotEnoughBytes
  PROVE  IInv'
<1>. USE DEF NotEnoughBytes, net, tls, frame, out, fin
<1>1. /\ absorbed' \in 0..arrived /\ decrypted' \in 0..absorbed'
      /\ decrypted <= decrypted'
  BY PeekAdds DEF IInv, TypeOK
<1>2. TypeOK'
  BY <1>1 DEF Numbers, IInv, TypeOK
<1>3. Looked' /\ Found'
  <2>1. /\ BytesAvailable \in Int /\ BytesAvailable' \in Int /\ available \in Int
        /\ BytesAvailable <= BytesAvailable'
    <3>1. UNCHANGED <<secure, arrived, consumed>>
      OBVIOUS
    <3> HIDE DEF NotEnoughBytes
    <3>2. /\ decrypted \in Int /\ arrived \in Int /\ consumed \in Int
          /\ available \in Int
      BY DEF IInv, TypeOK, Numbers
    <3>3. decrypted' \in Int /\ decrypted <= decrypted'
      BY <1>1, <3>2
    <3>4. CASE secure
      <4>1. BytesAvailable = decrypted - consumed
        BY <3>4, Zenon DEF BytesAvailable, Pending
      <4>2. BytesAvailable' = decrypted' - consumed
        BY <3>1, <3>4, Zenon DEF BytesAvailable, Pending
      <4>. QED
        BY <3>2, <3>3, <4>1, <4>2, LessIsLess, Zenon
    <3>5. CASE ~secure
      BY <3>1, <3>2, <3>5 DEF BytesAvailable
    <3>. QED
      BY <3>4, <3>5, Zenon
  <2>. QED
    BY <2>1 DEF IInv, Looked, Found, Reading, MaxBytes
<1>. QED
  BY <1>2, <1>3, Zenon DEF IInv

\* connection_readLine looks at no more bytes than are left below the limit,
\* and at no fewer than in the round before.
LEMMA EnoughStep ==
  ASSUME IInv, Numbers, EnoughBytes
  PROVE  IInv'
<1>. USE DEF EnoughBytes, net, tls, out, fin
<1>1. BytesAvailable \in Nat /\ BytesAvailable <= arrived /\ MaxBytes \in Nat
  BY DEF IInv, TypeOK, Numbers, BytesAvailable, Pending, MaxBytes
<1>2. /\ available' \in Nat /\ available' <= BytesAvailable /\ available <= available'
      /\ call = "readLine" => available' <= MaxBytes
  BY <1>1, MinOfTwo DEF IInv, TypeOK, Looked, Reading
<1>3. TypeOK'
  BY <1>1, <1>2 DEF IInv, TypeOK, Numbers
<1>4. Looked' /\ Found'
  BY <1>1, <1>2, Zenon DEF IInv, TypeOK, Looked, Found, Reading, BytesAvailable, Pending, MaxBytes
<1>. QED
  BY <1>3, <1>4, Zenon DEF IInv

\* The search for the newline: what is found is inside what was looked at.
LEMMA SearchStep ==
  ASSUME IInv, Numbers, Peek
  PROVE  IInv'
<1>1. CASE ReturnNull
  BY <1>1, NullStep, Zenon DEF Peek, Reading
<1>2. Stops \in SUBSET ((offset + 1)..available)
  BY Zenon DEF Stops
<1>3. Stops # {} => Min(Stops) \in (offset + 1)..available
  <2>1. (offset + 1)..available \subseteq Nat
    BY DEF IInv, TypeOK
  <2>. QED
    BY <1>2, <2>1, MinOf, Zenon
<1>4. CASE /\ LineFound /\ lineLength' = Min(Stops) /\ offset' = Min(Stops)
           /\ pc' = "consume"
           /\ UNCHANGED <<call, early, timeouts, available, out, net, tls, consumed, fin>>
  <2>. USE <1>4 DEF net, tls, out, fin
  <2>1. Min(Stops) \in 1..available
    BY <1>3 DEF LineFound, IInv, TypeOK
  <2>2. TypeOK'
    BY <2>1 DEF IInv, TypeOK, Numbers
  <2>3. Looked'
    BY DEF IInv, Looked, Reading, BytesAvailable, Pending, MaxBytes, Peek
  <2>4. message[consumed + Min(Stops)] = Newline
    <3>1. Bytes(available)[Min(Stops)] = Newline
      BY Zenon DEF LineFound
    <3>2. consumed \in Nat /\ available \in Nat
      BY DEF IInv, TypeOK, Numbers
    <3>3. \A i \in 1..available : Bytes(available)[i] = message[consumed + i]
      BY <3>2, Part, Zenon DEF Bytes
    <3>. QED
      BY <2>1, <3>1, <3>3, Zenon
  <2>5. Found'
    BY <2>1, <2>4, Zenon DEF Found, IInv, Peek
  <2>. QED
    BY <2>2, <2>3, <2>5, Zenon DEF IInv
<1>5. CASE /\ offset' = IF Stops = {} THEN available ELSE Min(Stops)
           /\ pc' = "poll"
           /\ UNCHANGED <<call, early, timeouts, available, lineLength, out, net, tls,
                          consumed, fin>>
  <2>. USE <1>5 DEF net, tls, out, fin
  <2>1. offset' \in 0..available
    BY <1>3 DEF IInv, TypeOK
  <2>2. TypeOK'
    BY <2>1, Zenon DEF IInv, TypeOK, Numbers
  <2>3. Looked' /\ Found'
    BY DEF IInv, Looked, Found, Reading, BytesAvailable, Pending, MaxBytes, Peek
  <2>. QED
    BY <2>2, <2>3, Zenon DEF IInv
<1>. QED
  BY <1>1, <1>4, <1>5, Zenon DEF Peek

\* The line is counted without its newline, so the size stays below the limit
\* even when the line takes all that was left.
LEMMA LineStep ==
  ASSUME IInv, Numbers, ConsumeLine
  PROVE  IInv'
<1>. DEFINE n == Len(Trim(Bytes(lineLength)))
<1>1. /\ lineLength \in 1..available /\ message[consumed + lineLength] = Newline
      /\ available <= BytesAvailable /\ available <= MaxBytes /\ available \in Nat
  BY DEF IInv, TypeOK, Found, Looked, Reading, ConsumeLine
<1>2. /\ consumed \in Nat /\ consumed + lineLength <= arrived /\ arrived <= Len(message)
      /\ (secure => consumed + lineLength <= decrypted)
  BY <1>1 DEF IInv, TypeOK, BytesAvailable, Pending, Numbers
<1>3. n \in 0..(lineLength - 1)
  <2>1. lineLength \in Nat /\ consumed \in Nat
    BY <1>1, <1>2
  <2>2. /\ DOMAIN Bytes(lineLength) = 1..lineLength
        /\ \A i \in 1..lineLength : Bytes(lineLength)[i] = message[consumed + i]
    BY <2>1, Part, Zenon DEF Bytes
  <2>3. Bytes(lineLength)[lineLength] = Newline /\ lineLength \in Nat \ {0}
    BY <1>1, <2>2
  <2>. QED
    BY <2>2, <2>3, Trimmed, Zenon
<1>4. headerSize' = headerSize + n /\ consumed' = consumed + lineLength
  BY Zenon DEF ConsumeLine
<1> HIDE DEF n
<1>5. /\ headerSize' \in Nat /\ headerSize' < MaxHeader /\ headerSize' <= consumed'
      /\ consumed' \in 0..arrived
  BY <1>1, <1>2, <1>3, <1>4 DEF IInv, TypeOK, MaxBytes, Numbers
<1>6. \/ pc' = "poll" /\ (call' = "read" \/ call' = "readLine") /\ early' = arrived
         /\ timeouts' = 0 /\ offset' = 0 /\ available' = 0 /\ lineLength' = 0
      \/ pc' = "write" /\ UNCHANGED frame
  BY Zenon DEF ConsumeLine, HeaderDone, Begin, Answer
<1>7. UNCHANGED <<net, tls, fin>>
  BY Zenon DEF ConsumeLine
<1>8. TypeOK'
  BY <1>2, <1>4, <1>5, <1>6, <1>7 DEF IInv, TypeOK, Numbers, net, tls, fin, frame
<1>9. Looked' /\ Found'
  BY <1>2, <1>4, <1>5, <1>6, <1>7 DEF IInv, TypeOK, Looked, Found, Reading, BytesAvailable,
     Pending, MaxBytes, Numbers, net, tls, fin, frame
<1>. QED
  BY <1>5, <1>6, <1>8, <1>9, Zenon DEF IInv, TypeOK

\* The body is read; the header's size is left alone.
LEMMA BodyStep ==
  ASSUME IInv, Numbers, ConsumeBody
  PROVE  IInv'
<1>1. consumed' = consumed + bodyLength /\ bodyLength <= BytesAvailable
  BY DEF ConsumeBody, IInv, TypeOK, Looked, Found, Reading, BytesAvailable, Pending, Numbers
<1>2. pc' = "write" /\ UNCHANGED <<net, tls, frame, headerSize, fin>>
  BY Zenon DEF ConsumeBody, Answer
<1>3. TypeOK'
  BY <1>1, <1>2 DEF IInv, TypeOK, Numbers, BytesAvailable, Pending, net, tls, frame, fin
<1>4. Looked' /\ Found' /\ headerSize' <= consumed'
  BY <1>1, <1>2 DEF IInv, TypeOK, Looked, Found, Reading, Numbers
<1>. QED
  BY <1>2, <1>3, <1>4, Zenon DEF IInv

\* The response, and the end
LEMMA AnswerStep ==
  ASSUME IInv, Numbers, Write \/ Free
  PROVE  IInv'
<1>. USE DEF net, tls, frame, out, fin
<1>1. TypeOK'
  <2>1. CASE Write
    <3>1. delivered' \in 0..Response
      BY <2>1, MinOfTwo DEF Write, Numbers
    <3>. QED
      BY <2>1, <3>1, Zenon DEF Write, IInv, TypeOK
  <2>2. CASE Free
    BY <2>2, Zenon DEF Free, IInv, TypeOK
  <2>. QED
    BY <2>1, <2>2, Zenon
<1>2. Looked' /\ Found'
  BY Zenon DEF Write, Free, Looked, Found, Reading
<1>. QED
  BY <1>1, <1>2, Zenon DEF IInv, Write, Free

\* Every step keeps the invariant.
LEMMA IInvStep == IInv /\ [Next]_vars => IInv'
<1>. SUFFICES ASSUME IInv, [Next]_vars PROVE IInv'
  OBVIOUS
<1>1. Numbers
  BY AreNumbers, Zenon DEF IInv, TypeOK
<1>2. CASE Arrive \/ Leave
  BY <1>1, <1>2, ClientStep, Zenon
<1>3. CASE Poll
  BY <1>1, <1>3, PollStep, Zenon
<1>4. CASE NotEnoughBytes
  BY <1>1, <1>4, WaitStep, Zenon
<1>5. CASE EnoughBytes
  BY <1>1, <1>5, EnoughStep, Zenon
<1>6. CASE AvailableFails \/ ConsumeFails
  BY <1>1, <1>6, NullStep, Zenon DEF AvailableFails, ConsumeFails, Reading
<1>7. CASE Peek
  BY <1>1, <1>7, SearchStep, Zenon
<1>8. CASE PeekFails
  BY <1>8 DEF PeekFails, IInv, TypeOK, Looked, Found, Reading, BytesAvailable, Pending,
     MaxBytes, net, tls, frame, out, fin
<1>9. CASE ConsumeLine
  BY <1>1, <1>9, LineStep, Zenon
<1>10. CASE ConsumeBody
  BY <1>1, <1>10, BodyStep, Zenon
<1>11. CASE Write \/ Free
  BY <1>1, <1>11, AnswerStep, Zenon
<1>12. CASE UNCHANGED vars
  BY <1>12 DEF vars, IInv, TypeOK, Looked, Found, Reading, BytesAvailable, Pending,
     MaxBytes, net, tls, frame, out, fin
<1>. QED
  BY <1>2, <1>3, <1>4, <1>5, <1>6, <1>7, <1>8, <1>9, <1>10, <1>11, <1>12, Zenon
     DEF Next, Worker, Over

\* However the client sends its bytes and whatever REQUEST_MAX_HEADER_SIZE is,
\* worker_handleConnection's REQUEST_MAX_HEADER_SIZE - headerSize stays above
\* 0: a line fits in what is left, and its newline is not counted.
THEOREM HeaderLimit == Spec => []HeaderBelowLimit
<1>1. IInv => HeaderBelowLimit
  BY Zenon DEF IInv, HeaderBelowLimit
<1>. QED
  BY <1>1, IInvInit, IInvStep, PTL DEF Spec

-----------------------------------------------------------------------------
(* The lines *)

\* What a trimmed text is made of
LEMMA TrimSeq ==
  ASSUME NEW S, NEW s \in Seq(S)
  PROVE  Trim(s) \in Seq(S)
<1> DEFINE K == {k \in DOMAIN s : s[k] \notin {Newline, Blank}} \union {0}
<1>1. Len(s) \in Nat /\ DOMAIN s = 1..Len(s) /\ \A i \in 1..Len(s) : s[i] \in S
  BY LenProperties, ElementOfSeq, Zenon
<1>2. K \in SUBSET (0..Len(s)) /\ K # {}
  BY <1>1
<1>3. Max(K) \in 0..Len(s)
  BY <1>1, <1>2, MaxOf, Zenon
<1> DEFINE m == Max(K)
<1>4. Trim(s) = SubSeq(s, 1, m)
  BY Zenon DEF Trim
<1> HIDE DEF m
<1>5. \A i \in 1..m : s[i] \in S
  BY <1>1, <1>3 DEF m
<1>6. m \in Int
  BY <1>1, <1>3 DEF m
<1>. QED
  BY <1>4, <1>5, <1>6, SubSeqProperties

Characters == {message[i] : i \in DOMAIN message}

\* How far connection_readLine knows that there is no newline
Searched == IF pc = "consume" THEN lineLength - 1 ELSE offset

LineInv ==
    /\ Reading => body = NULL
    /\ lines \in Seq(Seq(Characters))
    /\ LinesInOrder
    /\ Reading /\ call = "readLine"
          => \A k \in 1..Searched : message[consumed + k] # Newline

\* There are none before the first line.
LEMMA LineInvInit == Init => LineInv
<1>. SUFFICES ASSUME Init PROVE LineInv
  OBVIOUS
<1>1. HeaderBytes = 0
  BY DEF Init, HeaderBytes
<1>2. lines \in Seq(Seq(Characters)) /\ DOMAIN lines = {}
  BY DEF Init
<1>3. AreLines(lines, 0)
  <2>. DEFINE end == [i \in DOMAIN lines |-> 0]
  <2>1. end \in [DOMAIN lines -> {k \in 1..0 : message[k] = Newline}]
    BY <1>2, Zenon
  <2>. QED
    <3>. HIDE DEF end
    <3>1. 1..0 = {}
      OBVIOUS
    <3>2. {k \in 1..0 : message[k] = Newline} = {}
      BY <3>1, Zenon
    <3>. QED
      BY <1>2, <2>1, <3>2, Zenon DEF AreLines
<1>. QED
  BY <1>1, <1>2, <1>3 DEF LineInv, LinesInOrder, Init, Searched

\* Steps that return no line and read nothing
LEMMA LinesKept ==
  ASSUME LineInv, UNCHANGED <<message, lines, consumed, body>>
  PROVE  /\ lines' \in Seq(Seq(Characters'))
         /\ LinesInOrder'
<1>1. lines' \in Seq(Seq(Characters'))
  BY Zenon DEF LineInv, Characters
<1>2. HeaderBytes' = HeaderBytes
  BY Zenon DEF HeaderBytes
<1>3. AreLines(lines, HeaderBytes)' = AreLines(lines, HeaderBytes)
  BY <1>2 DEF AreLines
<1>. QED
  BY <1>1, <1>2, <1>3, Zenon DEF LineInv, LinesInOrder

\* One more line: it ends at the first newline behind those that were read.
LEMMA OneMoreLine ==
  ASSUME IInv, Numbers, LineInv, ConsumeLine
  PROVE  lines' \in Seq(Seq(Characters')) /\ LinesInOrder'
<1>. DEFINE c == consumed
            m == lineLength
            n == Len(lines)
            text == Trim(Bytes(lineLength))
            newlines(k) == {i \in 1..k : message[i] = Newline}
<1>1. /\ c \in Nat /\ m \in Nat /\ m > 0 /\ c + m <= Len(message)
      /\ message[c + m] = Newline
      /\ \A k \in 1..(m - 1) : message[c + k] # Newline
  <2>1. /\ m \in 1..available /\ message[c + m] = Newline
        /\ available <= BytesAvailable /\ available \in Nat
    BY DEF IInv, TypeOK, Found, Looked, Reading, ConsumeLine
  <2>2. c \in Nat /\ c + m <= Len(message)
    BY <2>1 DEF IInv, TypeOK, BytesAvailable, Pending, Numbers
  <2>3. \A k \in 1..(m - 1) : message[c + k] # Newline
    BY Zenon DEF LineInv, Reading, ConsumeLine, Searched
  <2>. QED
    BY <2>1, <2>2, <2>3
<1>2. HeaderBytes = c /\ HeaderBytes' = c + m /\ message' = message
  <2>1. body = NULL /\ body' = body /\ consumed' = c + m /\ message' = message
    BY Zenon DEF LineInv, Reading, ConsumeLine, net
  <2>. QED
    BY <1>1, <2>1 DEF HeaderBytes
<1>3. text \in Seq(Characters)
  <2>1. message \in Seq(Characters)
    BY ConnectionAssumption, Zenon DEF ConnectionAssumption, IInv, TypeOK, Characters
  <2>2. \A i \in (c + 1)..(c + m) : message[i] \in Characters
    BY <1>1, <2>1, ElementOfSeq
  <2>3. c + 1 \in Int /\ c + m \in Int
    BY <1>1
  <2>4. Bytes(m) \in Seq(Characters)
    BY <2>2, <2>3, SubSeqProperties, Zenon DEF Bytes
  <2>. QED
    BY <2>4, TrimSeq, Zenon
<1>4. /\ n \in Nat /\ DOMAIN lines = 1..n
      /\ lines' \in Seq(Seq(Characters))
      /\ DOMAIN lines' = 1..(n + 1)
      /\ \A i \in 1..n : lines'[i] = lines[i]
      /\ lines'[n + 1] = text
  <2>1. lines \in Seq(Seq(Characters)) /\ lines' = Append(lines, text)
    BY Zenon DEF LineInv, ConsumeLine
  <2>. HIDE DEF text
  <2>2. n \in Nat /\ DOMAIN lines = 1..n
    BY <2>1, LenProperties, Zenon
  <2>3. /\ lines' \in Seq(Seq(Characters)) /\ Len(lines') = n + 1
        /\ \A i \in 1..n : lines'[i] = lines[i]
        /\ lines'[n + 1] = text
    BY <1>3, <2>1, AppendProperties
  <2>. QED
    BY <2>2, <2>3, LenProperties, Zenon
<1>5. PICK end \in [1..n -> newlines(c)] :
         /\ \A i, j \in 1..n : i < j => end[i] < end[j]
         /\ \A k \in newlines(c) : \E i \in 1..n : end[i] = k
         /\ \A i \in 1..n :
               lines[i] = Trim(SubSeq(message, IF i = 1 THEN 1 ELSE end[i - 1] + 1, end[i]))
  <2>1. AreLines(lines, c)
    BY <1>2, Zenon DEF LineInv, LinesInOrder
  <2>2. DOMAIN lines = 1..n
    BY <1>4, Zenon
  <2>. QED
    BY <2>1, <2>2, Zenon DEF AreLines
<1>6. c > 0 => message[c] = Newline
  BY <1>2, Zenon DEF LineInv, LinesInOrder
<1>. HIDE DEF n, text
<1>7. IF n = 0 THEN c = 0 ELSE end[n] = c
  <2>1. CASE n = 0
    <3>. SUFFICES ASSUME c > 0 PROVE FALSE
      BY <1>1, <2>1
    <3>1. c \in newlines(c)
      BY <1>1, <1>6
    <3>. QED
      BY <1>5, <2>1, <3>1
  <2>2. CASE n # 0
    <3>1. n \in 1..n
      BY <1>4, <2>2
    <3>2. end[n] \in 1..c
      BY <1>5, <3>1, Zenon
    <3>3. c \in newlines(c)
      BY <1>1, <1>6, <3>2
    <3>4. PICK i \in 1..n : end[i] = c
      BY <1>5, <3>3, Zenon
    <3>5. i < n => end[i] < end[n]
      BY <1>5, <3>1, Zenon
    <3>. QED
      BY <1>1, <1>4, <2>2, <3>2, <3>4, <3>5
  <2>. QED
    BY <2>1, <2>2, Zenon
<1>. DEFINE next == [i \in 1..(n + 1) |-> IF i = n + 1 THEN c + m ELSE end[i]]
<1>8. \A i \in 1..n : next[i] = end[i] /\ end[i] \in 1..c /\ message[end[i]] = Newline
  BY <1>4, <1>5
<1>9. next[n + 1] = c + m /\ n + 1 \in 1..(n + 1) /\ \A i \in 1..(n + 1) : i \in 1..n \/ i = n + 1
  BY <1>4
<1>10. next \in [1..(n + 1) -> newlines(c + m)]
  <2>. SUFFICES ASSUME NEW i \in 1..(n + 1) PROVE next[i] \in newlines(c + m)
    BY Zenon
  <2>1. CASE i \in 1..n
    BY <1>1, <1>8, <2>1
  <2>2. CASE i = n + 1
    BY <1>1, <1>9, <2>2
  <2>. QED
    BY <1>9, <2>1, <2>2, Zenon
<1>. HIDE DEF next
<1>11. \A i, j \in 1..(n + 1) : i < j => next[i] < next[j]
  <2>. SUFFICES ASSUME NEW i \in 1..(n + 1), NEW j \in 1..(n + 1), i < j PROVE next[i] < next[j]
    OBVIOUS
  <2>1. i \in 1..n
    BY <1>4
  <2>2. CASE j \in 1..n
    BY <1>5, <1>8, <2>1, <2>2, Zenon
  <2>3. CASE j = n + 1
    BY <1>1, <1>8, <1>9, <2>1, <2>3
  <2>. QED
    BY <1>9, <2>2, <2>3, Zenon
<1>12. \A k \in newlines(c + m) : \E i \in 1..(n + 1) : next[i] = k
  <2>. SUFFICES ASSUME NEW k \in newlines(c + m) PROVE \E i \in 1..(n + 1) : next[i] = k
    OBVIOUS
  <2>1. CASE k <= c
    <3>1. PICK i \in 1..n : end[i] = k
      BY <1>1, <1>5, <2>1
    <3>2. next[i] = k
      BY <1>8, <3>1, Zenon
    <3>3. i \in 1..(n + 1)
      BY <1>4
    <3>. QED
      BY ONLY <3>2, <3>3, Zenon
  <2>2. CASE k > c
    <3>1. k = c + (k - c) /\ k - c \in 1..m
      BY <1>1, <2>2
    <3>2. k - c \notin 1..(m - 1)
      BY <1>1, <3>1, Zenon
    <3>3. k = c + m
      BY <1>1, <3>1, <3>2
    <3>. QED
      BY <1>9, <3>3, Zenon
  <2>. QED
    BY <1>1, <2>1, <2>2
<1>13. \A i \in 1..(n + 1) :
          lines'[i] = Trim(SubSeq(message, IF i = 1 THEN 1 ELSE next[i - 1] + 1, next[i]))
  <2>. SUFFICES ASSUME NEW i \in 1..(n + 1)
                PROVE  lines'[i] = Trim(SubSeq(message, IF i = 1 THEN 1 ELSE next[i - 1] + 1, next[i]))
    OBVIOUS
  <2>1. CASE i \in 1..n
    <3>1. i # 1 => i - 1 \in 1..n
      BY <1>4, <2>1
    <3>. QED
      BY <1>4, <1>5, <1>8, <2>1, <3>1, Zenon
  <2>2. CASE i = n + 1
    <3>1. (IF i = 1 THEN 1 ELSE next[i - 1] + 1) = c + 1
      <4>1. CASE n = 0
        BY <1>7, <2>2, <4>1
      <4>2. CASE n # 0
        <5>1. i # 1 /\ i - 1 = n /\ n \in 1..n
          BY <1>4, <2>2, <4>2
        <5>. QED
          BY <1>7, <1>8, <4>2, <5>1, Zenon
      <4>. QED
        BY <4>1, <4>2, Zenon
    <3>. QED
      BY <1>4, <1>9, <2>2, <3>1, Zenon DEF text, Bytes
  <2>. QED
    BY <1>9, <2>1, <2>2, Zenon
<1>14. AreLines(lines, HeaderBytes)'
  <2>. DEFINE newlines1 == {k \in 1..HeaderBytes' : message'[k] = Newline}
  <2>1. DOMAIN lines' = 1..(n + 1) /\ newlines1 = newlines(c + m)
    BY <1>2, <1>4, Zenon
  <2>2. /\ next \in [DOMAIN lines' -> newlines1]
        /\ \A i, j \in DOMAIN lines' : i < j => next[i] < next[j]
        /\ \A k \in newlines1 : \E i \in DOMAIN lines' : next[i] = k
    BY <1>10, <1>11, <1>12, <2>1, Zenon
  <2>3. \A i \in DOMAIN lines' :
           lines'[i] = Trim(SubSeq(message', IF i = 1 THEN 1 ELSE next[i - 1] + 1, next[i]))
    BY <1>2, <1>13, <2>1, Zenon
  <2>. QED
    BY <2>2, <2>3, Zenon DEF AreLines
<1>. QED
  BY <1>1, <1>2, <1>4, <1>14, Zenon DEF LinesInOrder, Characters

\* The body does not count.
LEMMA BodyApart ==
  ASSUME IInv, Numbers, LineInv, ConsumeBody
  PROVE  lines' \in Seq(Seq(Characters')) /\ LinesInOrder'
<1>1. body = NULL /\ consumed' = consumed + bodyLength /\ body' = Bytes(bodyLength)
      /\ UNCHANGED <<message, lines>>
  BY Zenon DEF LineInv, ConsumeBody, Reading, net
<1>2. consumed \in 0..Len(message) /\ consumed + bodyLength \in 0..Len(message)
  BY DEF ConsumeBody, IInv, TypeOK, Looked, Found, Reading, BytesAvailable, Pending, Numbers
<1>3. consumed \in Nat /\ bodyLength \in Nat
  BY DEF IInv, TypeOK, Numbers
<1>4. body' # NULL
  <2>1. message \in Messages
    BY Zenon DEF IInv, TypeOK
  <2>. QED
    BY <1>1, <1>2, <2>1, ConnectionAssumption, Zenon DEF ConnectionAssumption, Bytes
<1>5. Len(body') = bodyLength
  BY <1>1, <1>3, PartLen, Zenon DEF Bytes
<1>6. HeaderBytes' = HeaderBytes
  BY <1>1, <1>3, <1>4, <1>5 DEF HeaderBytes
<1>7. AreLines(lines, HeaderBytes)' = AreLines(lines, HeaderBytes)
  BY <1>1, <1>6 DEF AreLines
<1>. QED
  BY <1>1, <1>6, <1>7, Zenon DEF LineInv, LinesInOrder, Characters

\* A call that returns NULL
LEMMA NullLines ==
  ASSUME LineInv, Reading, ReturnNull, UNCHANGED <<net, consumed>>
  PROVE  LineInv'
<1>1. lines' \in Seq(Seq(Characters')) /\ LinesInOrder' /\ body' = NULL
  BY LinesKept, Zenon DEF LineInv, ReturnNull, net, out
<1>2. pc' = "write" \/ (pc' = "poll" /\ offset' = 0)
  BY Zenon DEF ReturnNull, HeaderDone, Begin, Answer
<1>. QED
  BY <1>1, <1>2 DEF LineInv, Reading, Searched

\* A step that changes neither the call nor the offset
LEMMA CallGoesOn ==
  ASSUME LineInv, UNCHANGED <<net, consumed, call, offset, lineLength, out>>,
         Reading' => Reading,
         Reading' /\ call = "readLine" => (pc' = "consume" <=> pc = "consume")
  PROVE  LineInv'
<1>1. lines' \in Seq(Seq(Characters')) /\ LinesInOrder' /\ body' = body
  BY LinesKept, Zenon DEF LineInv, net, out
<1>2. Reading' /\ call' = "readLine" => Searched' = Searched
  BY Zenon DEF Searched
<1>3. message' = message
  BY Zenon DEF net
<1>. QED
  BY <1>1, <1>2, <1>3, Zenon DEF LineInv

\* The search goes on where it stopped.
LEMMA SearchGoesOn ==
  ASSUME IInv, LineInv, Peek
  PROVE  LineInv'
<1>1. CASE ReturnNull
  BY <1>1, NullLines, Zenon DEF Peek, Reading
<1>2. CASE UNCHANGED <<call, out, net, consumed>> /\ ~ReturnNull
  <2>. pc = "peek" /\ Reading
    BY Zenon DEF Peek, Reading
  <2>1. lines' \in Seq(Seq(Characters')) /\ LinesInOrder' /\ body' = NULL
    BY <1>2, LinesKept, Zenon DEF LineInv, net, out
  <2>2. consumed \in Nat /\ offset \in Nat /\ available \in Nat /\ offset <= available
    BY DEF IInv, TypeOK
  <2>3. \A i \in 1..available : Bytes(available)[i] = message[consumed + i]
    BY <2>2, Part, Zenon DEF Bytes
  <2>4. \A k \in 1..offset : message[consumed + k] # Newline
    BY Zenon DEF LineInv, Searched, IInv
  <2>5. Stops \in SUBSET Nat /\ \A k \in Stops : k \in (offset + 1)..available
    BY <2>2 DEF Stops
  <2>6. \A k \in (offset + 1)..available : k \notin Stops => message[consumed + k] # Newline
    BY <2>2, <2>3 DEF Stops
  <2>7. Stops # {} => Min(Stops) \in Stops /\ \A k \in Stops : Min(Stops) <= k
    BY <2>5, MinOf, Zenon
  <2>. DEFINE first == Min(Stops)
  <2>. HIDE DEF first
  <2>8. Stops # {} => /\ first \in (offset + 1)..available
                      /\ \A k \in 1..(first - 1) : message[consumed + k] # Newline
    <3>. SUFFICES ASSUME Stops # {}, NEW k \in 1..(first - 1)
                  PROVE  message[consumed + k] # Newline
      BY <2>5, <2>7, Zenon DEF first
    <3>1. first \in Stops /\ \A j \in Stops : first <= j
      BY <2>7, Zenon DEF first
    <3>2. first \in (offset + 1)..available
      BY <2>5, <3>1, Zenon
    <3>3. ~(first <= k) /\ k \in 1..available
      BY <2>2, <3>2
    <3>4. k \notin Stops
      BY <3>1, <3>3, Zenon
    <3>. QED
      BY <2>2, <2>4, <2>6, <3>3, <3>4
  <2>9. Stops # {} /\ ~LineFound => message[consumed + first] # Newline
    <3>1. Stops # {} => first \in 1..available
      BY <2>2, <2>8
    <3>. QED
      BY <2>3, <3>1, Zenon DEF LineFound, first
  <2>10. message' = message /\ consumed' = consumed
    BY <1>2, Zenon DEF net
  <2>11. CASE LineFound
    <3>1. pc' = "consume" /\ lineLength' = first /\ Stops # {}
      BY <1>2, <2>11, Zenon DEF Peek, LineFound, first
    <3>. QED
      BY <2>1, <2>8, <2>10, <3>1, Zenon DEF LineInv, Searched
  <2>12. CASE ~LineFound
    <3>1. pc' = "poll" /\ offset' = IF Stops = {} THEN available ELSE first
      BY <1>2, <2>12, Zenon DEF Peek, first
    <3>2. CASE Stops = {}
      <4>1. \A k \in 1..available : message[consumed + k] # Newline
        BY <2>2, <2>4, <2>6, <3>2
      <4>. QED
        BY <2>1, <2>10, <3>1, <3>2, <4>1, Zenon DEF LineInv, Searched
    <3>3. CASE Stops # {}
      <4>1. \A k \in 1..first : message[consumed + k] # Newline
        BY <2>2, <2>8, <2>9, <2>12, <3>3
      <4>. QED
        BY <2>1, <2>10, <3>1, <3>3, <4>1, Zenon DEF LineInv, Searched
    <3>. QED
      BY <3>2, <3>3, Zenon
  <2>. QED
    BY <2>11, <2>12, Zenon
<1>. QED
  BY <1>1, <1>2, Zenon DEF Peek

\* Every step keeps the lines in order.
LEMMA LineInvStep == IInv /\ LineInv /\ [Next]_vars => LineInv'
<1>. SUFFICES ASSUME IInv, LineInv, [Next]_vars PROVE LineInv'
  OBVIOUS
<1>1. Numbers
  BY AreNumbers, Zenon DEF IInv, TypeOK
<1>2. CASE Arrive \/ Leave
  <2>1. lines' \in Seq(Seq(Characters')) /\ LinesInOrder'
    BY <1>2, LinesKept, Zenon DEF Arrive, Leave, out
  <2>2. UNCHANGED <<message, consumed, pc, call, offset, lineLength, body>>
    BY <1>2, Zenon DEF Arrive, Leave, frame, out
  <2>. QED
    BY <2>1, <2>2, Zenon DEF LineInv, Reading, Searched
<1>3. CASE Poll
  <2>1. CASE ReturnNull
    BY <1>3, <2>1, NullLines, Zenon DEF Poll, Reading
  <2>2. CASE UNCHANGED <<call, offset, lineLength, out>> /\ pc' \in {"available", "poll"}
    BY <1>3, <2>2, CallGoesOn, Zenon DEF Poll, Reading
  <2>. QED
    BY <1>3, <2>1, <2>2, Zenon DEF Poll
<1>4. CASE NotEnoughBytes
  BY <1>4, CallGoesOn, Zenon DEF NotEnoughBytes, Reading, frame
<1>5. CASE EnoughBytes
  BY <1>5, CallGoesOn, Zenon DEF EnoughBytes, Reading
<1>6. CASE AvailableFails \/ ConsumeFails
  BY <1>6, NullLines, Zenon DEF AvailableFails, ConsumeFails, Reading
<1>7. CASE Peek
  BY <1>7, SearchGoesOn, Zenon
<1>8. CASE PeekFails
  BY <1>8, CallGoesOn, Zenon DEF PeekFails, Reading, frame
<1>9. CASE ConsumeLine
  <2>1. pc' = "write" \/ (pc' = "poll" /\ offset' = 0)
    BY <1>9, Zenon DEF ConsumeLine, HeaderDone, Begin, Answer
  <2>2. body' = NULL
    BY <1>9, Zenon DEF ConsumeLine, LineInv, Reading
  <2>. QED
    BY <1>1, <1>9, <2>1, <2>2, OneMoreLine DEF LineInv, Reading, Searched
<1>10. CASE ConsumeBody
  <2>1. pc' = "write"
    BY <1>10, Zenon DEF ConsumeBody, Answer
  <2>. QED
    BY <1>1, <1>10, <2>1, BodyApart, Zenon DEF LineInv, Reading
<1>11. CASE Write \/ Free
  <2>1. pc' \in {"free", "freed"}
    BY <1>11, Zenon DEF Write, Free
  <2>2. lines' \in Seq(Seq(Characters')) /\ LinesInOrder'
    BY <1>11, LinesKept, Zenon DEF Write, Free, net, out
  <2>. QED
    BY <2>1, <2>2, Zenon DEF LineInv, Reading
<1>12. CASE UNCHANGED vars
  BY <1>12, CallGoesOn, Zenon DEF vars, frame, Reading
<1>. QED
  BY <1>2, <1>3, <1>4, <1>5, <1>6, <1>7, <1>8, <1>9, <1>10, <1>11, <1>12, Zenon
     DEF Next, Worker, Over

\* However the client sends its bytes, whatever the limits are and whichever
\* calls fail: the lines connection_readLine has returned are the lines of the
\* bytes it consumed.
THEOREM LinesRead == Spec => []LinesInOrder
<1>1. LineInv => LinesInOrder
  BY Zenon DEF LineInv
<1>. QED
  BY <1>1, IInvInit, IInvStep, LineInvInit, LineInvStep, PTL DEF Spec

-----------------------------------------------------------------------------
(* The body *)

\* One full record further the next one ends, and none in between.
LEMMA Multiples ==
  ASSUME NEW M \in Nat \ {0}, NEW d \in Nat, d % M = 0
  PROVE  (d + M) % M = 0 /\ \A k \in 1..(M - 1) : (d + k) % M # 0
<1>. DEFINE q == d \div M
<1>1. q \in Nat /\ d = M * q
  OBVIOUS
<1>. HIDE DEF q
<1>2. (M * q + M) % M = 0
  BY <1>1
<1>3. ASSUME NEW k \in Nat, k < M PROVE (M * q + k) % M = k
  BY <1>1, <1>3
<1>4. ASSUME NEW k \in 1..(M - 1) PROVE (d + k) % M # 0
  <2>1. k \in Nat /\ k < M /\ k # 0
    OBVIOUS
  <2>. QED
    BY <1>1, <1>3, <2>1, Zenon
<1>. QED
  BY <1>1, <1>2, <1>4, Zenon

\* OpenSSL decrypts whole records, and has taken less than the next one.
Records ==
    /\ RecordEndsAt(decrypted)
    /\ absorbed = decrypted \/ absorbed < RecordEnd

\* Two rounds are enough: in the first one SSL_peek takes the record if
\* nothing is pending, in the second one the body is there.
Rounds ==
    call = "read" /\ BodyWasThere =>
        /\ pc = "poll" => timeouts = 0 \/ (timeouts = 1 /\ BytesAvailable >= bodyLength)
        /\ pc = "available" => timeouts = 1 \/ (timeouts = 2 /\ BytesAvailable >= bodyLength)

BodyInv ==
    /\ Records
    /\ call = "read" => bodyLength > 0
    /\ Rounds

\* The record behind the decrypted bytes
LEMMA NextRecord ==
  ASSUME TypeOK, Numbers
  PROVE  /\ RecordEnd \in Nat /\ decrypted <= RecordEnd /\ RecordEnd <= Len(message)
         /\ RecordEnd = decrypted + MaxRecord \/ RecordEnd = Len(message)
         /\ RecordEnd <= decrypted + MaxRecord
         /\ RecordEndsAt(decrypted) => RecordEndsAt(RecordEnd)
<1>1. decrypted \in Nat /\ decrypted <= Len(message) /\ MaxRecord \in Nat \ {0} /\ Len(message) \in Nat
  BY DEF TypeOK, Numbers
<1>2. /\ RecordEnd \in {decrypted + MaxRecord, Len(message)}
      /\ RecordEnd <= decrypted + MaxRecord /\ RecordEnd <= Len(message)
  BY <1>1, MinOfTwo DEF RecordEnd
<1>3. CASE RecordEnd = Len(message)
  BY <1>1, <1>2, <1>3, Zenon DEF RecordEndsAt
<1>4. CASE RecordEnd = decrypted + MaxRecord
  <2>1. decrypted # Len(message)
    BY <1>1, <1>2, <1>4
  <2>2. decrypted % MaxRecord = 0 => RecordEnd % MaxRecord = 0
    BY <1>1, <1>4, Multiples, Zenon
  <2>. QED
    BY <1>1, <1>2, <1>4, <2>1, <2>2 DEF RecordEndsAt
<1>. QED
  BY <1>2, <1>3, <1>4, Zenon

\* A body that was there and is not pending is the next record's, and the
\* socket still has bytes of it.
LEMMA BodyNext ==
  ASSUME TypeOK, Numbers, Records, bodyLength > 0, secure, BodyWasThere, Pending < bodyLength
  PROVE  /\ Pending = 0
         /\ arrived > absorbed
         /\ arrived >= RecordEnd /\ RecordEnd - consumed >= bodyLength
<1>1. /\ consumed \in Nat /\ decrypted \in Nat /\ absorbed \in Nat /\ arrived \in Nat
      /\ bodyLength \in Nat /\ Len(message) \in Nat /\ early \in Nat
      /\ consumed <= decrypted /\ arrived <= Len(message) /\ early <= arrived
      /\ MaxRecord \in Nat \ {0}
  BY DEF TypeOK, Numbers
<1>2. consumed + bodyLength <= early
  BY Zenon DEF BodyWasThere
<1>3. \A r \in (consumed + 1)..(consumed + bodyLength - 1) : ~RecordEndsAt(r)
  BY Zenon DEF BodyWasThere
<1>4. PICK r \in (consumed + bodyLength)..early : RecordEndsAt(r)
  BY Zenon DEF BodyWasThere
<1>5. consumed = decrypted
  <2>1. decrypted < consumed + bodyLength
    BY <1>1 DEF Pending
  <2>2. decrypted > consumed => decrypted \in (consumed + 1)..(consumed + bodyLength - 1)
    BY <1>1, <2>1
  <2>. QED
    BY <1>1, <1>3, <2>2 DEF Records
<1>6. /\ RecordEnd \in Nat /\ RecordEnd <= Len(message)
      /\ RecordEnd = decrypted + MaxRecord \/ RecordEnd = Len(message)
      /\ RecordEnd <= decrypted + MaxRecord
  BY NextRecord, Zenon
<1>7. decrypted % MaxRecord = 0
  BY <1>1, <1>2, <1>5 DEF Records, RecordEndsAt
<1>8. RecordEnd <= r
  <2>1. CASE r = Len(message)
    BY <1>6, <2>1, Zenon
  <2>2. CASE r % MaxRecord = 0
    <3>. SUFFICES ASSUME r < decrypted + MaxRecord PROVE FALSE
      BY <1>1, <1>4, <1>6
    <3>1. r - decrypted \in 1..(MaxRecord - 1) /\ decrypted + (r - decrypted) = r
      BY <1>1, <1>4, <1>5
    <3>. QED
      <4>1. \A k \in 1..(MaxRecord - 1) : (decrypted + k) % MaxRecord # 0
        BY <1>1, <1>7, Multiples, Zenon
      <4>2. (decrypted + (r - decrypted)) % MaxRecord # 0
        BY <3>1, <4>1, Zenon
      <4>. QED
        BY <2>2, <3>1, <4>2, Zenon
  <2>. QED
    BY <1>4, <2>1, <2>2, Zenon DEF RecordEndsAt
<1>9. RecordEnd >= consumed + bodyLength
  <2>1. CASE RecordEnd = Len(message)
    BY <1>1, <1>2, <2>1
  <2>2. CASE RecordEnd = decrypted + MaxRecord
    <3>1. RecordEndsAt(decrypted + MaxRecord)
      BY <1>1, <1>7, Multiples, Zenon DEF RecordEndsAt
    <3>2. decrypted + MaxRecord \notin (consumed + 1)..(consumed + bodyLength - 1)
      BY <1>3, <3>1, Zenon
    <3>. QED
      BY <1>1, <1>5, <2>2, <3>2
  <2>. QED
    BY <1>6, <2>1, <2>2, Zenon
<1>10. arrived > absorbed
  BY <1>1, <1>2, <1>4, <1>5, <1>6, <1>8 DEF Records
<1>. QED
  BY <1>1, <1>4, <1>5, <1>6, <1>8, <1>9, <1>10 DEF Pending

\* SSL_peek decrypts a record that is complete.
LEMMA PeekRecord ==
  ASSUME TypeOK, Numbers, Records, SSLPeek, UNCHANGED <<message, arrived>>
  PROVE  /\ Records'
         /\ arrived >= RecordEnd => decrypted' = RecordEnd
<1>1. /\ RecordEnd \in Nat /\ arrived \in Nat /\ RecordEndsAt(RecordEnd)
  BY NextRecord DEF Records, TypeOK, Numbers
<1>2. absorbed' \in {arrived, RecordEnd} /\ absorbed' <= arrived /\ absorbed' <= RecordEnd
  BY <1>1, MinOfTwo, Zenon DEF SSLPeek
<1>3. CASE arrived < RecordEnd
  <2>1. decrypted' = decrypted /\ absorbed' = arrived
    BY <1>1, <1>2, <1>3 DEF SSLPeek
  <2>2. RecordEnd' = RecordEnd
    BY <2>1, Zenon DEF RecordEnd
  <2>. QED
    BY <1>1, <1>3, <2>1, <2>2 DEF Records, RecordEndsAt
<1>4. CASE arrived >= RecordEnd
  <2>1. decrypted' = RecordEnd /\ absorbed' = RecordEnd
    BY <1>1, <1>2, <1>4 DEF SSLPeek
  <2>2. RecordEndsAt(decrypted)'
    BY <1>1, <2>1, Zenon DEF RecordEndsAt
  <2>. QED
    BY <1>1, <2>1, <2>2, Zenon DEF Records
<1>. QED
  BY <1>1, <1>3, <1>4

\* Nothing is decrypted at first.
LEMMA BodyInvInit == Init => BodyInv
<1>. SUFFICES ASSUME Init PROVE BodyInv
  OBVIOUS
<1>1. MaxRecord \in Nat \ {0}
  BY ConnectionAssumption, Zenon DEF ConnectionAssumption
<1>2. 0 % MaxRecord = 0
  BY <1>1
<1>. QED
  BY <1>2, Zenon DEF Init, BodyInv, Records, Rounds, RecordEndsAt

\* Outside OpenSSL nothing is decrypted.
LEMMA RecordsKept ==
  ASSUME Records, UNCHANGED <<message, tls>>
  PROVE  Records'
BY Zenon DEF Records, RecordEndsAt, RecordEnd, tls

\* A call that returns NULL, and a line: if connection_read is called next, no
\* round of it is over.
LEMMA CallEnds ==
  ASSUME BodyInv, UNCHANGED <<net, tls>>,
         HeaderDone \/ Answer \/ Begin("readLine")
  PROVE  BodyInv'
<1>1. Records'
  BY RecordsKept, Zenon DEF BodyInv, net
<1>2. \/ pc' = "write" /\ call' = call
      \/ pc' = "poll" /\ timeouts' = 0 /\ (call' = "readLine" \/ bodyLength > 0)
  BY Zenon DEF HeaderDone, Answer, Begin, frame
<1>3. bodyLength' = bodyLength
  BY Zenon DEF net
<1>. QED
  BY <1>1, <1>2, <1>3, Zenon DEF BodyInv, Rounds

\* Whether the body was there does not change during the call.
LEMMA StillThere ==
  ASSUME UNCHANGED <<secure, message, bodyLength, consumed, early>>
  PROVE  BodyWasThere' <=> BodyWasThere
BY Zenon DEF BodyWasThere, RecordEndsAt

\* A round begins: there is data if the body was there, and no time-out yet.
LEMMA RoundBegins ==
  ASSUME IInv, Numbers, BodyInv, Poll
  PROVE  /\ BodyInv'
         /\ call = "read" /\ BodyWasThere => pc' # "write"
<1>. UNCHANGED <<net, tls, consumed, fin>> /\ pc = "poll"
  BY Zenon DEF Poll
<1>. TypeOK /\ timeouts \in Nat /\ Retries \in Nat /\ bodyLength \in Nat
  BY DEF IInv, TypeOK, Numbers
<1>0. Retries >= 1
  BY ConnectionAssumption, Zenon DEF ConnectionAssumption
<1>1. ASSUME call = "read", BodyWasThere
      PROVE  /\ timeouts = 0 \/ (timeouts = 1 /\ BytesAvailable >= bodyLength)
             /\ PendingData \/ Readable
  <2>1. timeouts = 0 \/ (timeouts = 1 /\ BytesAvailable >= bodyLength)
    BY <1>1, Zenon DEF BodyInv, Rounds
  <2>2. bodyLength > 0
    BY <1>1, Zenon DEF BodyInv
  <2>3. CASE secure
    <3>0. Pending \in Int
      BY DEF Pending, TypeOK, Numbers
    <3>1. CASE Pending < bodyLength
      <4>1. arrived > absorbed
        BY <1>1, <2>2, <2>3, <3>1, BodyNext, Zenon DEF BodyInv
      <4>. QED
        BY <2>1, <2>3, <4>1, Zenon DEF Readable
    <3>2. CASE Pending >= bodyLength
      <4>1. Pending > 0
        BY <2>2, <3>0, <3>2
      <4>. QED
        BY <2>1, <2>3, <4>1, Zenon DEF PendingData
    <3>. QED
      BY <3>0, <3>1, <3>2
  <2>4. CASE ~secure
    <3>1. arrived > consumed
      BY <1>1, <2>2 DEF BodyWasThere, TypeOK, Numbers
    <3>. QED
      BY <2>1, <2>4, <3>1, Zenon DEF Readable
  <2>. QED
    BY <2>1, <2>3, <2>4, Zenon
<1>2. CASE timeouts > Retries
  <2>1. ~(call = "read" /\ BodyWasThere)
    BY <1>0, <1>1, <1>2
  <2>2. HeaderDone \/ Answer
    BY <1>2, Zenon DEF Poll, ReturnNull
  <2>. QED
    BY <2>1, <2>2, CallEnds, Zenon
<1>3. CASE ~(timeouts > Retries)
  <2>1. /\ timeouts' = timeouts + 1 /\ pc' \in {"available", "poll"}
        /\ UNCHANGED <<call, early>>
        /\ PendingData \/ Readable => pc' = "available"
    BY <1>3, Zenon DEF Poll
  <2>2. BodyWasThere' <=> BodyWasThere
    BY <2>1, StillThere, Zenon DEF net
  <2>3. Records'
    BY RecordsKept, Zenon DEF BodyInv, net
  <2>4. BytesAvailable' = BytesAvailable /\ bodyLength' = bodyLength
    BY Zenon DEF BytesAvailable, Pending, net, tls
  <2>5. Rounds'
    BY <1>1, <2>1, <2>2, <2>4 DEF Rounds
  <2>. QED
    BY <2>1, <2>3, <2>4, <2>5, Zenon DEF BodyInv
<1>. QED
  BY <1>2, <1>3, Zenon

\* A round that finds too little: the next one finds the body if it was there.
LEMMA RoundEnds ==
  ASSUME IInv, Numbers, BodyInv, NotEnoughBytes
  PROVE  BodyInv'
<1>. UNCHANGED <<net, consumed, frame>> /\ pc = "available" /\ pc' = "poll"
  BY Zenon DEF NotEnoughBytes
<1>. TypeOK
  BY Zenon DEF IInv
<1>1. Records'
  <2>1. CASE UNCHANGED tls
    BY <2>1, RecordsKept, Zenon DEF BodyInv, net
  <2>2. CASE SSLPeek
    BY <2>2, PeekRecord, Zenon DEF BodyInv, net
  <2>. QED
    BY <2>1, <2>2, Zenon DEF NotEnoughBytes
<1>2. ASSUME call = "read", BodyWasThere
      PROVE  timeouts = 1 /\ BytesAvailable' >= bodyLength
  <2>1. bodyLength > 0 /\ bodyLength \in Nat
    BY <1>2, Zenon DEF BodyInv, Numbers
  <2>2. BytesAvailable \in Int /\ BytesAvailable < bodyLength
    <3>1. BytesAvailable \in Int
      BY DEF BytesAvailable, Pending, TypeOK, Numbers
    <3>. QED
      BY <2>1, <3>1, Zenon DEF NotEnoughBytes
  <2>3. timeouts = 1
    BY <1>2, <2>1, <2>2 DEF BodyInv, Rounds
  <2>4. secure
    <3>. SUFFICES ASSUME ~secure PROVE FALSE
      OBVIOUS
    <3>1. BytesAvailable >= bodyLength
      BY <1>2, <2>1 DEF BytesAvailable, BodyWasThere, TypeOK, Numbers
    <3>. QED
      BY <2>1, <2>2, <3>1
  <2>5. Pending = 0 /\ arrived >= RecordEnd /\ RecordEnd - consumed >= bodyLength
    BY <1>2, <2>1, <2>2, <2>4, BodyNext, Zenon DEF BodyInv, BytesAvailable
  <2>6. SSLPeek
    <3>1. BytesAvailable = 0
      BY <2>4, <2>5, Zenon DEF BytesAvailable
    <3>. QED
      BY <2>4, <3>1 DEF NotEnoughBytes
  <2>7. decrypted' = RecordEnd
    BY <2>5, <2>6, PeekRecord, Zenon DEF BodyInv, net
  <2>8. BytesAvailable' = RecordEnd - consumed
    BY <2>4, <2>7, Zenon DEF BytesAvailable, Pending, net
  <2>. QED
    BY <2>3, <2>5, <2>8, Zenon
<1>3. BodyWasThere' <=> BodyWasThere
  BY StillThere, Zenon DEF net, frame
<1>. QED
  BY <1>1, <1>2, <1>3, Zenon DEF BodyInv, Rounds, net, frame

\* Every step keeps the invariant.
LEMMA BodyInvStep == IInv /\ BodyInv /\ [Next]_vars => BodyInv'
<1>. SUFFICES ASSUME IInv, BodyInv, [Next]_vars PROVE BodyInv'
  OBVIOUS
<1>1. Numbers
  BY AreNumbers, Zenon DEF IInv, TypeOK
<1>2. CASE Arrive \/ Leave
  <2>1. Records'
    BY <1>2, RecordsKept, Zenon DEF BodyInv, Arrive, Leave
  <2>2. UNCHANGED <<secure, message, bodyLength, consumed, pc, call, early, timeouts, decrypted>>
    BY <1>2, Zenon DEF Arrive, Leave, tls, frame
  <2>3. arrived \in Nat /\ consumed \in Nat /\ arrived' \in Nat /\ arrived <= arrived'
    BY <1>1, <1>2 DEF Arrive, Leave, IInv, TypeOK, Numbers
  <2>4. BodyWasThere' <=> BodyWasThere
    BY <2>2, StillThere, Zenon
  <2>5. BytesAvailable >= bodyLength => BytesAvailable' >= bodyLength
    <3>1. bodyLength \in Nat
      BY <1>1, Zenon DEF Numbers
    <3>2. CASE secure
      BY <2>2, <3>2, Zenon DEF BytesAvailable, Pending
    <3>3. CASE ~secure
      <4>1. BytesAvailable = arrived - consumed /\ BytesAvailable' = arrived' - consumed
        BY <2>2, <3>3, Zenon DEF BytesAvailable
      <4>2. arrived - consumed >= bodyLength => arrived' - consumed >= bodyLength
        BY <2>3, <3>1, MoreIsMore, Zenon
      <4>. QED
        BY <2>2, <4>1, <4>2, Zenon
    <3>. QED
      BY <3>2, <3>3, Zenon
  <2>. QED
    BY <2>1, <2>2, <2>4, <2>5, Zenon DEF BodyInv, Rounds
<1>3. CASE Poll
  BY <1>1, <1>3, RoundBegins, Zenon
<1>4. CASE NotEnoughBytes
  BY <1>1, <1>4, RoundEnds, Zenon
<1>5. CASE AvailableFails \/ ConsumeFails \/ ConsumeLine \/ ConsumeBody \/ (Peek /\ ReturnNull)
  BY <1>5, CallEnds, Zenon DEF AvailableFails, ConsumeFails, ConsumeLine, ConsumeBody, Peek, ReturnNull
<1>6. CASE EnoughBytes \/ (Peek /\ ~ReturnNull) \/ PeekFails \/ Write \/ Free
  <2>1. Records'
    BY <1>6, RecordsKept, Zenon DEF BodyInv, EnoughBytes, Peek, PeekFails, Write, Free, net
  <2>2. UNCHANGED <<call, bodyLength>>
    BY <1>6, Zenon DEF EnoughBytes, Peek, PeekFails, Write, Free, net, frame
  <2>3. call = "readLine" \/ pc' \notin {"poll", "available"}
    BY <1>6, Zenon DEF EnoughBytes, Peek, PeekFails, Write, Free, IInv, TypeOK
  <2>. QED
    BY <2>1, <2>2, <2>3, Zenon DEF BodyInv, Rounds
<1>7. CASE UNCHANGED vars
  <2>1. Records'
    BY <1>7, RecordsKept, Zenon DEF BodyInv, vars, net
  <2>. QED
    BY <1>7, <2>1, StillThere, Zenon DEF vars, BodyInv, Rounds, BytesAvailable, Pending, net, tls, frame
<1>. QED
  BY <1>2, <1>3, <1>4, <1>5, <1>6, <1>7, Zenon DEF Next, Worker, Over

\* Whatever the sizes of the records, the body and the message, and whichever
\* calls fail: connection_read does not run out of rounds when the body was
\* there, in one record, when it was called.
THEOREM BodyRead == Spec => WholeBodyIsRead
<1>1. IInv /\ BodyInv /\ [Next]_vars
        => [pc = "poll" /\ pc' = "write" /\ call = "read" => ~BodyWasThere]_vars
  <2>. SUFFICES ASSUME IInv, BodyInv, Next, pc = "poll", pc' = "write", call = "read"
                PROVE  ~BodyWasThere
    OBVIOUS
  <2>1. Numbers
    BY AreNumbers, Zenon DEF IInv, TypeOK
  <2>2. Poll
    BY DEF Next, Worker, Over, NotEnoughBytes, EnoughBytes, AvailableFails, Peek, PeekFails,
       ConsumeLine, ConsumeBody, ConsumeFails, Write, Free, Arrive, Leave, vars
  <2>. QED
    BY <2>1, <2>2, RoundBegins, Zenon
<1>. QED
  BY <1>1, IInvInit, IInvStep, BodyInvInit, BodyInvStep, PTL DEF Spec, WholeBodyIsRead

=============================================================================
