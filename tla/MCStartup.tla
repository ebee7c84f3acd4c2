------------------------------ MODULE MCStartup ------------------------------
(* Small instances of the start-up for TLC. *)
EXTENDS Startup, TLC

INSTANCE MCSettings

=============================================================================
