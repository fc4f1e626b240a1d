------------------------------ MODULE MCStream -------------------------------
(* A stream with each of its owners, over a buffer of three bytes.         *)
EXTENDS Stream

MCByte == 0 .. MaxBytes
=============================================================================
