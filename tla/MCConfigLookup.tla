--------------------------- MODULE MCConfigLookup ---------------------------
(* Small instances of the lookup for TLC. *)
EXTENDS ConfigLookup, TLC

=============================================================================
