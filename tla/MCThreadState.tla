--------------------------- MODULE MCThreadState ---------------------------
(* Small instances of ThreadState for TLC.                                 *)
EXTENDS ThreadState

CONSTANTS h0, h1, h2, s0, s1, s2
=============================================================================
