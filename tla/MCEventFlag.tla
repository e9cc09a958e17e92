---------------------------- MODULE MCEventFlag ----------------------------
(* A small instance of EventFlag for TLC: waits for all of both bits, for  *)
(* any of them and for one, with each of the clear modes, with and without *)
(* a timeout.                                                              *)
EXTENDS EventFlag

CONSTANTS t1, t2, t3, b1, b2

FewWaits == {Call({b1, b2}, "And", "Bits", FALSE), Call({b1, b2}, "And", "None", TRUE),
             Call({b1, b2}, "Or", "All", TRUE), Call({b1, b2}, "Or", "Bits", FALSE),
             Call({b1}, "And", "All", FALSE), Call({b1}, "Or", "None", TRUE),
             Call({b2}, "And", "Bits", TRUE), Call({b2}, "Or", "None", FALSE)}
=============================================================================
