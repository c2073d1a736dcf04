----------------------------- MODULE MCLoopback -----------------------------
(* Instances of Loopback for TLC.                                          *)
EXTENDS Loopback

CONSTANTS get1, watch1, stop1, watch2, stop2

StopOfTwo == [w \in {watch1, watch2} |-> IF w = watch1 THEN stop1 ELSE stop2]
=============================================================================
