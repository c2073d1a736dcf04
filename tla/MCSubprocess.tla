---------------------------- MODULE MCSubprocess ----------------------------
(* Instances of Subprocess for TLC.                                        *)
EXTENDS SubprocessContract

CONSTANTS get1, get2, get3, watch1, stop1, watch2, stop2

NoFunction == [c \in {} |-> watch1]

StopOfOne  == [w \in {watch1} |-> stop1]
StopOfTwo  == [w \in {watch1, watch2} |-> IF w = watch1 THEN stop1 ELSE stop2]
GetInWatch == [c \in {get1} |-> watch1]
=============================================================================
