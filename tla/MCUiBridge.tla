----------------------------- MODULE MCUiBridge -----------------------------
(* The bridge between the main thread and the terminal UI's thread.        *)
EXTENDS UiBridge, TLC
=============================================================================
