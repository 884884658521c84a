------------------------------- MODULE MCBoot -------------------------------
(* The real magic number and a few others; info pointers in low memory.    *)
EXTENDS Boot

MCMagics == {732803074, 0, 464367618}
MCInfos == {0, 4096, 65536, 589824}
=============================================================================
