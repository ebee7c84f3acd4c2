---------------------------- MODULE MCConnection ----------------------------
(* Small instances of a connection for TLC: what the client sends is any text
   of up to MaxLength characters of an alphabet. *)
EXTENDS Connection, TLC

CONSTANTS Alphabet, MaxLength

MCMessages == UNION {[1..n -> Alphabet] : n \in 0..MaxLength}

=============================================================================
