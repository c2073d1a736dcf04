-------------------------- MODULE SubprocessContract --------------------------
(***************************************************************************)
(* The refinement: a Subprocess with a provider behind it keeps the        *)
(* contract of a Transport.                                                *)
(***************************************************************************)
EXTENDS Subprocess

StatusOf(c) ==
  CASE pc[c] \in {"idle", "ready", "writing"} -> "unasked"
    [] pc[c] = "waiting"                      -> "open"
    [] pc[c] = "inFrame"                      -> "handling"
    [] OTHER                                  -> "over"

FinalMade(c) == IF c \in Streams THEN stream[c] = "ended" ELSE made[c] > 0

Contract(c) ==
  INSTANCE CallContract WITH
    call     <- c,
    isStream <- c \in Streams,
    status   <- StatusOf(c),
    made     <- made[c],
    final    <- FinalMade(c),
    seen     <- [k \in 1..Len(got[c]) |-> <<got[c][k].to, got[c][k].n>>]

(* Whatever the transport does, with a provider that crashes, talks         *)
(* nonsense, cannot be started or is closed, is something the contract      *)
(* allows: every caller is handed its own frames in order, each once, and   *)
(* none once its call is over.  This is \A c \in Calls : Contract(c)!Spec,  *)
(* in the form that TLC evaluates.                                          *)
KeepsContract ==
  /\ \A c \in Calls : Contract(c)!Init
  /\ [][\A c \in Calls : [Contract(c)!Next]_(Contract(c)!vars)]_vars
=============================================================================
