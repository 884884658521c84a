------------------------------ MODULE MCPanic ------------------------------
(* The real screen height and dump length; a message of up to six rows.    *)
EXTENDS Panic

MCInfoRows == 1 .. 6

(* Dumps that start below the stack, at its ends, inside and above it.     *)
MCAddresses == {0, 123, 127, 128, 130, 133, 317, 319, 320, 322, 330}
MCDwordCounts == {0, 1, 3, 50}
=============================================================================
