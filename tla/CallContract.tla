---------------------------- MODULE CallContract ----------------------------
(***************************************************************************)
(* What a Transport promises about one call (protocol/client.go), with no  *)
(* word of processes, pipes or ids: the answer is a numbered list of       *)
(* frames; the caller is handed them one at a time, in order, each once,   *)
(* and only while the call is in progress.  A unary call is over with the  *)
(* first.  A stream's callback accepts a frame and waits for the next, or  *)
(* the call ends: with the last frame, with a frame the callback refuses,  *)
(* or for a reason of the transport's own.  A transport keeps the promise  *)
(* to each of its calls, whatever the others do.                           *)
(***************************************************************************)
EXTENDS Naturals, Sequences

CONSTANTS call,    \* whose answer it is
          isStream \* the call is a watch

VARIABLES
  status, \* unasked, open, handling a frame, over
  made,   \* how many frames there are of the answer
  final,  \* the last frame of the answer has been made
  seen    \* the frames the caller was handed, <<whose, number>>

vars == <<status, made, final, seen>>

Init ==
  /\ status = "unasked"
  /\ made = 0
  /\ final = FALSE
  /\ seen = <<>>

Ask ==
  /\ status = "unasked"
  /\ status' = "open"
  /\ UNCHANGED <<made, final, seen>>

(* The provider may go on making frames of a call that is over. *)
Make ==
  /\ status # "unasked"
  /\ ~final
  /\ made' = made + 1
  /\ final' \in BOOLEAN /\ (isStream \/ final')
  /\ UNCHANGED <<status, seen>>

HandOver ==
  /\ status = "open"
  /\ Len(seen) < made
  /\ status' = IF isStream THEN "handling" ELSE "over"
  /\ seen' = Append(seen, <<call, Len(seen) + 1>>)
  /\ UNCHANGED <<made, final>>

(* The callback returned without an error; with one, the call Ends. *)
Accept ==
  /\ status = "handling"
  /\ ~(final /\ Len(seen) = made)
  /\ status' = "open"
  /\ UNCHANGED <<made, final, seen>>

End ==
  /\ status # "over"
  /\ status' = "over"
  /\ UNCHANGED <<made, final, seen>>

Next == Ask \/ Make \/ HandOver \/ Accept \/ End

Spec == Init /\ [][Next]_vars
=============================================================================
