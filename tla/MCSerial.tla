------------------------------- MODULE MCSerial -------------------------------
(***************************************************************************)
(* Serial for TLC: the strings "" and "AB"; DLAB, loopback and interrupts  *)
(* on or off at the start.                                                 *)
(***************************************************************************)
EXTENDS Serial

MCByte == 0 .. 255
MCTexts == {<< >>, << 65, 66 >>}
MCSettings == [ier : {0, 1}, dll : {1}, dlm : {1}, lcr : {0, 131}, mcr : {0, 16}]
===============================================================================
