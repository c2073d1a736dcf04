---------------------------- MODULE MCServeStdio ----------------------------
(* Instances of ServeStdio for TLC.                                        *)
EXTENDS ServeStdio

(* What a connected whoctl sends, and what any far side may.                *)
ClientMethods == {"get", "watch", "stopWatch"}
AnyMethods    == {"handshake", "schema", "get", "watch", "stopWatch", "junk"}
=============================================================================
