----------------------------- MODULE MCVideoOut -----------------------------
(* VideoOut with a renderer, a thread that flips, and model values for frames. *)
EXTENDS VideoOut

CONSTANTS r1, c1, f1, f2

AllBuffers == {Buffers}
=============================================================================
