------------------------------- MODULE Strings -------------------------------
(***************************************************************************)
(* The operations of string.c.  A string is a buffer of characters and the *)
(* size of its content; bufferSize is the length of the buffer.  Indices   *)
(* count from 0, as in the code.  The memory for a buffer can be had.      *)
(***************************************************************************)
EXTENDS Integers, Sequences
LOCAL INSTANCE FiniteSetsExt
LOCAL INSTANCE SequencesExt

CONSTANT NULL

\* The null byte, a byte that realloc gave and nothing has written, white space
NUL == "NUL"
UNSET == "UNSET"
Whitespace == {" ", "\n"}

Bytes(n, byte) == [k \in 1..n |-> byte]

string_create == [buffer |-> <<>>, size |-> 0]

\* One byte more than asked for; all behind the content is set to 0.
string_setBufferSize(s, bufferSize) ==
    IF bufferSize = Len(s.buffer) THEN s
    ELSE LET size == Min({s.size, bufferSize})
         IN  [buffer |-> SubSeq(s.buffer, 1, size) \o Bytes(bufferSize + 1 - size, NUL),
              size |-> size]

\* Only the first byte is overwritten.
string_clear(s) ==
    [buffer |-> IF s.buffer = <<>> THEN <<>> ELSE [s.buffer EXCEPT ![1] = NUL], size |-> 0]

string_fromBufferWithLength(text) == [buffer |-> Append(text, NUL), size |-> Len(text)]

\* Characters up to the first null byte
Terminated(buffer) ==
    LET nulls == {k \in DOMAIN buffer : buffer[k] = NUL}
    IN  SubSeq(buffer, 1, IF nulls = {} THEN Len(buffer) ELSE Min(nulls) - 1)

\* What strlen, strcmp and the hash see of a string
CString(s) == Terminated(s.buffer)

\* The buffer, longer if need be
WithSpace(s, newSize) ==
    IF newSize >= Len(s.buffer)
    THEN s.buffer \o Bytes(newSize + 1 - Len(s.buffer), UNSET)
    ELSE s.buffer

\* Mutant: the buffer is expanded when the content alone does not fit.
string_appendBufferWithLength_Tight(s, text) ==
    LET newSize == s.size + Len(text)
        buffer == IF newSize > Len(s.buffer) THEN WithSpace(s, newSize) ELSE s.buffer
        copied == IF text # <<>> /\ Last(text) = NUL THEN Len(text) - 1 ELSE Len(text)
        content == SubSeq(s.buffer, 1, s.size) \o SubSeq(text, 1, copied)
    IN  [buffer |-> IF buffer = <<>> THEN <<>>
                    ELSE SubSeq(content \o SubSeq(buffer, Len(content) + 1, Len(buffer)),
                                1, Len(buffer) - 1) \o <<NUL>>,
         size |-> newSize]

\* The last byte of the buffer is the terminator, not the one behind the
\* content; a null byte at the end of the text counts but is not copied.
string_appendBufferWithLength(s, text) ==
    LET newSize == s.size + Len(text)
        buffer == WithSpace(s, newSize)
        copied == IF text # <<>> /\ Last(text) = NUL THEN Len(text) - 1 ELSE Len(text)
        content == SubSeq(s.buffer, 1, s.size) \o SubSeq(text, 1, copied)
    IN  [buffer |-> content \o SubSeq(buffer, Len(content) + 1, Len(buffer) - 1) \o <<NUL>>,
         size |-> newSize]

string_appendBuffer(s, text) == string_appendBufferWithLength(s, Terminated(text))
string_append(s, other) == string_appendBuffer(s, other.buffer)
string_appendChar(s, c) == string_appendBufferWithLength(s, <<c>>)

string_setCharAt(s, index, c) ==
    IF index >= s.size THEN s ELSE [s EXCEPT !.buffer[index + 1] = c]

\* White space at the end is overwritten.
string_trimEnd(s) ==
    LET kept == Max({0} \union {k \in 1..s.size : s.buffer[k] \notin Whitespace})
    IN  [buffer |-> SubSeq(s.buffer, 1, kept) \o Bytes(s.size - kept, NUL)
                       \o SubSeq(s.buffer, s.size + 1, Len(s.buffer)),
         size |-> kept]

string_substring(s, firstIndex, lastIndex) ==
    IF firstIndex >= s.size \/ lastIndex > s.size \/ s.buffer = <<>> THEN NULL
    ELSE string_fromBufferWithLength(SubSeq(s.buffer, firstIndex + 1, lastIndex))

\* The next index of a character at or behind an offset, -1 when the string, or
\* a null byte, ends before
string_findNextChar(s, offset, needle) ==
    LET stops == {k \in offset..(s.size - 1) : s.buffer[k + 1] \in {needle, NUL}}
    IN  IF stops = {} \/ s.buffer[Min(stops) + 1] = NUL THEN -1 ELSE Min(stops)

Digits == <<"0", "1", "2", "3", "4", "5", "6", "7", "8", "9">>

\* Mutant: one digit too few is asked for at a power of ten.
string_fromInt_Short(n) ==
    IF n = 0 THEN string_fromBufferWithLength(<<"0">>)
    ELSE LET digits == CHOOSE d \in 1..10 : 10^d >= n /\ (d = 1 \/ 10^(d - 1) < n)
         IN  string_fromBufferWithLength(
                [k \in 1..digits |-> Digits[((n \div 10^(digits - k)) % 10) + 1]])

\* For numbers that are not negative: as many digits as log10 says
string_fromInt(n) ==
    IF n = 0 THEN string_fromBufferWithLength(<<"0">>)
    ELSE LET digits == CHOOSE d \in 1..10 : 10^(d - 1) <= n /\ n < 10^d
         IN  string_fromBufferWithLength(
                [k \in 1..digits |-> Digits[((n \div 10^(digits - k)) % 10) + 1]])

=============================================================================
