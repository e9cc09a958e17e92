------------------------------ MODULE MCEqueue ------------------------------
(* Instance of Equeue for TLC.                                             *)
EXTENDS Equeue

CONSTANTS a, b, tm, hr, us
=============================================================================
