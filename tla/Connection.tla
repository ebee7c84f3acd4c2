------------------------------ MODULE Connection ------------------------------
(***************************************************************************)
(* One client connection as connection.c reads, answers and closes it for  *)
(* the request loop of worker.c.  The socket is non-blocking, the client   *)
(* sends its bytes whenever it likes, and over TLS OpenSSL hands out the   *)
(* bytes of one record at a time.                                          *)
(***************************************************************************)
EXTENDS Naturals, Sequences, FiniteSetsExt

CONSTANTS
    Messages,    \* what the client may send: sequences of characters
    MaxRecord,   \* bytes in a full TLS record
    MaxHeader,   \* REQUEST_MAX_HEADER_SIZE
    BodyLengths, \* values of the Content-Length, 0 when there is none
    Response,    \* bytes of the response
    SendBuffer,  \* room in the socket's send buffer when it is empty
    Retries,     \* the 5 of "timeouts++ > 5"
    Faults,      \* subset of {"ioctl", "recv", "interrupt"}: calls that may fail
    NULL

ASSUME ConnectionAssumption ==
    /\ \A m \in Messages : m \in Seq({m[i] : i \in DOMAIN m})
    /\ {MaxRecord, MaxHeader} \subseteq Nat \ {0}
    /\ BodyLengths \union {Response, SendBuffer, Retries} \subseteq Nat
    /\ Retries >= 1
    /\ Faults \subseteq {"ioctl", "recv", "interrupt"}
    /\ \A m \in Messages : \A i, j \in 0..Len(m) : SubSeq(m, i + 1, j) # NULL

Newline == "newline"
Nul     == "nul"
Blank   == "blank"    \* a space, a tab or a carriage return

VARIABLES
    secure,      \* whether the connection uses TLS
    message,     \* what this client sends in all
    bodyLength,  \* the Content-Length its header states
    arrived,     \* bytes of it that reached the socket
    client,      \* "open", "closed" (its end is shut) or "reset"
    absorbed,    \* bytes OpenSSL took from the socket
    decrypted,   \* bytes OpenSSL has decrypted
    consumed,    \* bytes handed to the server
    pc,          \* where the worker is
    call,        \* "readLine" or "read", the call in progress
    timeouts,    \* its local timeouts
    offset,      \* its local offset
    available,   \* its local bytesAvailable
    lineLength,  \* its local lineLength
    early,       \* the bytes that had arrived when this call began
    headerSize,  \* the worker's local headerSize
    lines,       \* lines returned so far
    body,        \* what connection_read returned
    delivered,   \* bytes of the response accepted by the socket
    open         \* the descriptor is open

net   == <<secure, message, bodyLength, arrived, client>>
tls   == <<absorbed, decrypted>>
frame == <<call, early, timeouts, offset, available, lineLength>>
out   == <<headerSize, lines, body>>
fin   == <<delivered, open>>
vars  == <<net, tls, consumed, pc, frame, out, fin>>

\* The worker has taken the connection from the queue and asks for a line.
Init ==
    /\ secure \in BOOLEAN /\ message \in Messages /\ bodyLength \in BodyLengths
    /\ arrived = 0 /\ client = "open"
    /\ absorbed = 0 /\ decrypted = 0 /\ consumed = 0
    /\ pc = "poll" /\ call = "readLine" /\ early = 0
    /\ timeouts = 0 /\ offset = 0 /\ available = 0 /\ lineLength = 0
    /\ headerSize = 0 /\ lines = <<>> /\ body = NULL
    /\ delivered = 0 /\ open = TRUE

-----------------------------------------------------------------------------
(* What the kernel and OpenSSL answer *)

Pending == decrypted - consumed

\* poll() reports the socket: bytes to take, or the client's end is gone.
Readable ==
    \/ client # "open"
    \/ IF secure THEN arrived > absorbed ELSE arrived > consumed

\* SSL_pending() spares connection_pollForData the poll().
PendingData == secure /\ Pending > 0

\* The end of the record behind the decrypted bytes
RecordEnd == Min({decrypted + MaxRecord, Len(message)})

\* SSL_peek with nothing pending takes what has arrived of the next record.
SSLPeek ==
    /\ absorbed' = Min({arrived, RecordEnd})
    /\ decrypted' = IF arrived < RecordEnd THEN decrypted ELSE RecordEnd

\* The next n bytes, as recv() and SSL_read_ex() give them
Bytes(n) == SubSeq(message, consumed + 1, consumed + n)

\* Mutant: the line keeps its newline.
Trim_Nothing(s) == s

\* string_trimEnd
Trim(s) ==
    SubSeq(s, 1, Max({k \in DOMAIN s : s[k] \notin {Newline, Blank}} \union {0}))

-----------------------------------------------------------------------------
(* The calls of worker_handleConnection *)

\* A call of connection_readLine or connection_read begins.
Begin(c) ==
    /\ pc' = "poll" /\ call' = c /\ early' = arrived
    /\ timeouts' = 0 /\ offset' = 0 /\ available' = 0 /\ lineLength' = 0

\* The request is answered next.
Answer == pc' = "write" /\ UNCHANGED frame

\* The header has ended; a request with a Content-Length has a body to read.
HeaderDone == IF bodyLength > 0 THEN Begin("read") ELSE Answer

\* A NULL ends the header like an empty line does, and an unread body is a 400.
ReturnNull ==
    /\ IF call = "readLine" THEN HeaderDone ELSE Answer
    /\ UNCHANGED out

\* maxBytes of connection_readLine
MaxBytes == MaxHeader - headerSize

-----------------------------------------------------------------------------
(* connection_readLine and connection_read: one round of the loop *)

\* Mutant: the rounds are not counted.
Poll_NoCount ==
    /\ pc = "poll"
    /\ \E data \in BOOLEAN :
          /\ data => PendingData \/ Readable \/ "interrupt" \in Faults
          /\ ~data => ~PendingData /\ ~Readable
          /\ IF timeouts > Retries
             THEN ReturnNull
             ELSE /\ timeouts' = timeouts
                  /\ pc' = IF data THEN "available" ELSE "poll"
                  /\ UNCHANGED <<call, early, offset, available, lineLength, out>>
    /\ UNCHANGED <<net, tls, consumed, fin>>

\* connection_pollForData, then the count of rounds.  An interrupted poll()
\* passes for data.
Poll ==
    /\ pc = "poll"
    /\ \E data \in BOOLEAN :
          /\ data => PendingData \/ Readable \/ "interrupt" \in Faults
          /\ ~data => ~PendingData /\ ~Readable
          /\ IF timeouts > Retries
             THEN ReturnNull
             ELSE /\ timeouts' = timeouts + 1
                  /\ pc' = IF data THEN "available" ELSE "poll"
                  /\ UNCHANGED <<call, early, offset, available, lineLength, out>>
    /\ UNCHANGED <<net, tls, consumed, fin>>

BytesAvailable == IF secure THEN Pending ELSE arrived - consumed

\* Mutant: a body that is just there counts as too short.
NotEnoughBytes_OrEqual ==
    /\ pc = "available"
    /\ \/ BytesAvailable = 0 /\ IF secure THEN SSLPeek ELSE UNCHANGED tls
       \/ /\ BytesAvailable > 0
          /\ call = "read" /\ BytesAvailable <= bodyLength
          /\ UNCHANGED tls
    /\ pc' = "poll"
    /\ UNCHANGED <<net, consumed, frame, out, fin>>

\* connection_getAvailableBytes finds nothing, or less than connection_read
\* was asked for: wait for the next event.
NotEnoughBytes ==
    /\ pc = "available"
    /\ \/ BytesAvailable = 0 /\ IF secure THEN SSLPeek ELSE UNCHANGED tls
       \/ /\ BytesAvailable > 0
          /\ call = "read" /\ BytesAvailable < bodyLength
          /\ UNCHANGED tls
    /\ pc' = "poll"
    /\ UNCHANGED <<net, consumed, frame, out, fin>>

\* There are bytes; connection_readLine looks at maxBytes of them at most.
EnoughBytes ==
    /\ pc = "available"
    /\ BytesAvailable > 0
    /\ \/ /\ call = "readLine"
          /\ available' = Min({BytesAvailable, MaxBytes})
          /\ pc' = "peek"
       \/ /\ call = "read" /\ BytesAvailable >= bodyLength
          /\ available' = BytesAvailable
          /\ pc' = "consume"
    /\ UNCHANGED <<net, tls, consumed, call, early, timeouts, offset, lineLength,
                   out, fin>>

\* FIONREAD fails.
AvailableFails ==
    /\ pc = "available" /\ ~secure /\ "ioctl" \in Faults
    /\ ReturnNull
    /\ UNCHANGED <<net, tls, consumed, fin>>

\* Where the search for a newline behind offset ends: a NUL stops it too.
Stops == {k \in (offset + 1)..available : Bytes(available)[k] \in {Newline, Nul}}

LineFound == Stops # {} /\ Bytes(available)[Min(Stops)] = Newline

\* Mutant: everything that was peeked at is taken for the line.
Peek_WholeBuffer ==
    /\ pc = "peek"
    /\ \/ /\ LineFound
          /\ lineLength' = available /\ offset' = available
          /\ pc' = "consume"
          /\ UNCHANGED <<call, early, timeouts, available, out>>
       \/ /\ ~LineFound /\ available >= MaxBytes
          /\ ReturnNull
       \/ /\ ~LineFound /\ available < MaxBytes
          /\ offset' = IF Stops = {} THEN available ELSE Min(Stops)
          /\ pc' = "poll"
          /\ UNCHANGED <<call, early, timeouts, available, lineLength, out>>
    /\ UNCHANGED <<net, tls, consumed, fin>>

Peek ==
    /\ pc = "peek"
    /\ \/ /\ LineFound
          /\ lineLength' = Min(Stops) /\ offset' = Min(Stops)
          /\ pc' = "consume"
          /\ UNCHANGED <<call, early, timeouts, available, out>>
       \/ /\ ~LineFound /\ available >= MaxBytes
          /\ ReturnNull
       \/ /\ ~LineFound /\ available < MaxBytes
          /\ offset' = IF Stops = {} THEN available ELSE Min(Stops)
          /\ pc' = "poll"
          /\ UNCHANGED <<call, early, timeouts, available, lineLength, out>>
    /\ UNCHANGED <<net, tls, consumed, fin>>

\* The peek fails: wait for the next event.
PeekFails ==
    /\ pc = "peek" /\ "recv" \in Faults
    /\ pc' = "poll"
    /\ UNCHANGED <<net, tls, consumed, frame, out, fin>>

\* The line is read, trimmed and given to the request loop, which ends at an
\* empty line or at one that http_parseRequestLine or http_parseHeader rejects.
ConsumeLine ==
    /\ pc = "consume" /\ call = "readLine"
    /\ LET line == Trim(Bytes(lineLength))
       IN  /\ lines' = Append(lines, line)
           /\ headerSize' = headerSize + Len(line)
           /\ \/ Len(line) = 0 /\ HeaderDone
              \/ Len(line) > 0 /\ (Begin("readLine") \/ Answer)
    /\ consumed' = consumed + lineLength
    /\ UNCHANGED <<net, tls, body, fin>>

\* The body is read.
ConsumeBody ==
    /\ pc = "consume" /\ call = "read"
    /\ body' = Bytes(bodyLength)
    /\ consumed' = consumed + bodyLength
    /\ Answer
    /\ UNCHANGED <<net, tls, headerSize, lines, fin>>

\* The bytes cannot be read after all.
ConsumeFails ==
    /\ pc = "consume" /\ "recv" \in Faults
    /\ ReturnNull
    /\ UNCHANGED <<net, tls, consumed, fin>>

-----------------------------------------------------------------------------
(* connection_write, connection_free and the client *)

\* One send() on the non-blocking socket takes what fits.
Write ==
    /\ pc = "write"
    /\ delivered' = IF client = "reset" THEN 0 ELSE Min({Response, SendBuffer})
    /\ pc' = "free"
    /\ UNCHANGED <<net, tls, consumed, frame, out, open>>

\* connection_close: shutdown() of a reset connection fails with ENOTCONN and
\* the descriptor is then left as it is.
Free ==
    /\ pc = "free"
    /\ open' = (client = "reset")
    /\ pc' = "freed"
    /\ UNCHANGED <<net, tls, consumed, frame, out, delivered>>

Arrive ==
    /\ client = "open" /\ arrived < Len(message)
    /\ \E n \in (arrived + 1)..Len(message) : arrived' = n
    /\ UNCHANGED <<secure, message, bodyLength, client, tls, consumed, pc, frame, out, fin>>

Leave ==
    /\ client = "open"
    /\ client' \in {"closed", "reset"}
    /\ UNCHANGED <<secure, message, bodyLength, arrived, tls, consumed, pc, frame, out, fin>>

Over == pc = "freed" /\ UNCHANGED vars

Worker ==
    \/ Poll \/ NotEnoughBytes \/ EnoughBytes \/ AvailableFails
    \/ Peek \/ PeekFails \/ ConsumeLine \/ ConsumeBody \/ ConsumeFails
    \/ Write \/ Free

Next == Worker \/ Arrive \/ Leave \/ Over

Spec == Init /\ [][Next]_vars

\* The worker's thread runs; the client need not do anything.
FairSpec == Spec /\ WF_vars(Worker)

-----------------------------------------------------------------------------
(* Properties *)

\* Type invariant: every local of the two calls and the socket's counters.
TypeOK ==
    /\ secure \in BOOLEAN /\ message \in Messages /\ bodyLength \in BodyLengths
    /\ client \in {"open", "closed", "reset"}
    /\ arrived \in 0..Len(message)
    /\ absorbed \in 0..arrived /\ decrypted \in 0..absorbed
    /\ consumed \in 0..arrived /\ (secure => consumed <= decrypted)
    /\ pc \in {"poll", "available", "peek", "consume", "write", "free", "freed"}
    /\ call \in {"readLine", "read"}
    /\ timeouts \in 0..(Retries + 1)
    /\ offset \in 0..available /\ available \in 0..arrived
    /\ early \in 0..arrived
    /\ headerSize \in 0..Len(message)
    /\ delivered \in 0..Response /\ open \in BOOLEAN

\* The bytes the lines were made of
HeaderBytes == consumed - (IF body = NULL THEN 0 ELSE Len(body))

\* The lines of the first n bytes, by definition: what lies between one newline
\* and the next, trimmed
AreLines(texts, n) ==
    LET newlines == {k \in 1..n : message[k] = Newline}
    IN  \E end \in [DOMAIN texts -> newlines] :
           /\ \A i, j \in DOMAIN texts : i < j => end[i] < end[j]
           /\ \A k \in newlines : \E i \in DOMAIN texts : end[i] = k
           /\ \A i \in DOMAIN texts :
                 texts[i] = Trim(SubSeq(message, IF i = 1 THEN 1 ELSE end[i - 1] + 1, end[i]))

\* However the bytes arrive, connection_readLine has returned exactly the
\* lines of the bytes it consumed, in order: no byte is skipped by the offset
\* it keeps between rounds, read twice, or left over from a line.
LinesInOrder ==
    /\ AreLines(lines, HeaderBytes)
    /\ HeaderBytes > 0 => message[HeaderBytes] = Newline

\* REQUEST_MAX_HEADER_SIZE - headerSize (worker.c, line 129) never reaches 0
\* or wraps: the newline of each line is trimmed off before it is counted.
HeaderBelowLimit == TypeOK /\ headerSize < MaxHeader

\* A TLS record ends after r bytes.
RecordEndsAt(r) == r % MaxRecord = 0 \/ r = Len(message)

\* The body had arrived when connection_read was called; over TLS, in one
\* record, all of which had arrived.
BodyWasThere ==
    /\ consumed + bodyLength <= early
    /\ secure => /\ \A r \in (consumed + 1)..(consumed + bodyLength - 1) : ~RecordEndsAt(r)
                 /\ \E r \in (consumed + bodyLength)..early : RecordEndsAt(r)

\* A body that was there when connection_read was called is read, unless it is
\* spread over TLS records: SSL_pending() counts the bytes of one record, and
\* connection_read waits until they are enough.  Two rounds are all it takes,
\* so it does not give up for lack of them.
WholeBodyIsRead ==
    [][pc = "poll" /\ pc' = "write" /\ call = "read" => ~BodyWasThere]_vars

\* Whatever the client does, and also if it does nothing, the worker comes
\* back from every read, answers and gives the connection up.
WorkerReleased == <>(pc = "freed")

=============================================================================
