---------------------------- MODULE LoopbackProofs ----------------------------
(***************************************************************************)
(* What the in-process transport promises for any calls and watches,       *)
(* proved: its types, its registry, and that it keeps the contract with    *)
(* every call whose callback has not failed.                               *)
(***************************************************************************)
EXTENDS Loopback, TLAPS

(* How many frames there are of an answer, and how many the caller has, at  *)
(* each place; the last frame is the one that is no event.                  *)
Counted(c) ==
  /\ pc[c] \in {"idle", "serving"} => made[c] = 0 /\ ~final[c] /\ seen[c] = <<>>
  /\ pc[c] = "answered" => made[c] = Len(seen[c]) + 1
  /\ pc[c] \in {"watching", "inFrame", "returned"} => made[c] = Len(seen[c])

LastIsFinal(c) ==
  /\ c \notin Streams => pc[c] \in {"idle", "serving", "answered", "returned"}
  /\ c \in Streams /\ pc[c] = "watching" => ~final[c]
  /\ c \in Streams /\ pc[c] \in {"answered", "inFrame"} => (final[c] <=> kind[c] # "event") /\ kind[c] # "none"

FramesCounted == \A c \in Calls : Counted(c) /\ LastIsFinal(c)

(* The variables start with their types. *)
LEMMA TypeInit == Init => TypeOK
  BY DEF Init, TypeOK

(* No step breaks a type. *)
LEMMA TypeStep ==
  ASSUME TypeOK, [Next]_vars
  PROVE  TypeOK'
  <1> USE LoopbackAssumption
  <1>1. ASSUME NEW c \in Calls, Begin(c) PROVE TypeOK'
    BY <1>1 DEF Begin, Goto, TypeOK
  <1>2. ASSUME NEW c \in Calls, Handle(c) PROVE TypeOK'
    BY <1>2 DEF Handle, Goto, TypeOK
  <1>3. ASSUME NEW c \in Calls, TakeFrame(c) PROVE TypeOK'
    <2>1. seen' \in [Calls -> Seq(Calls \X Nat)]
      BY <1>3 DEF TakeFrame, TypeOK
    <2> QED BY <1>3, <2>1 DEF TakeFrame, Goto, TypeOK
  <1>4. ASSUME NEW w \in Streams, NEW k \in {"event", "end", "error"}, Emits(w, k),
               UNCHANGED <<watches, cancelled, refused, seen>>
        PROVE  TypeOK'
    BY <1>4 DEF Emits, Goto, TypeOK
  <1>5. ASSUME NEW w \in Streams, StartWatch(w) PROVE TypeOK'
    BY <1>5 DEF StartWatch, Goto, TypeOK
  <1>6. ASSUME NEW w \in Streams, Cancel(w) PROVE TypeOK'
    BY <1>6 DEF Cancel, TypeOK
  <1>7. ASSUME NEW w \in Streams, OnFrameReturns(w) PROVE TypeOK'
    BY <1>7 DEF OnFrameReturns, Goto, TypeOK
  <1>8. CASE UNCHANGED vars
    BY <1>8 DEF vars, TypeOK
  <1> QED
    BY <1>1, <1>2, <1>3, <1>4, <1>5, <1>6, <1>7, <1>8 DEF Next, RefuseWatch, Event, WatchReturns

(* Type correctness is inductive by itself. *)
THEOREM TypeCorrect == Spec => []TypeOK
  BY TypeInit, TypeStep, PTL DEF Spec

-----------------------------------------------------------------------------
(* The frames stay counted, and the last stays last. *)
LEMMA CountStep ==
  ASSUME TypeOK, FramesCounted, [Next]_vars
  PROVE  FramesCounted'
  <1> USE LoopbackAssumption
  <1> SUFFICES ASSUME NEW d \in Calls PROVE Counted(d)' /\ LastIsFinal(d)'
    BY DEF FramesCounted
  <1>0. Counted(d) /\ LastIsFinal(d)
    BY DEF FramesCounted
  <1>1. ASSUME NEW c \in Calls, Begin(c) PROVE Counted(d)' /\ LastIsFinal(d)'
    BY <1>0, <1>1 DEF Begin, Goto, TypeOK, Counted, LastIsFinal
  <1>2. ASSUME NEW c \in Calls, Handle(c) PROVE Counted(d)' /\ LastIsFinal(d)'
    BY <1>0, <1>2 DEF Handle, Goto, TypeOK, Counted, LastIsFinal
  <1>3. ASSUME NEW c \in Calls, TakeFrame(c) PROVE Counted(d)' /\ LastIsFinal(d)'
    <2>1. seen[c] \in Seq(Calls \X Nat) /\ seen'[c] = Append(seen[c], <<c, made[c]>>) /\ made[c] \in Nat
      BY <1>3 DEF TakeFrame, TypeOK
    <2>2. Len(seen'[c]) = Len(seen[c]) + 1
      BY <2>1
    <2> QED BY <1>0, <1>3, <2>2 DEF TakeFrame, Goto, TypeOK, Counted, LastIsFinal
  <1>4. ASSUME NEW w \in Streams, NEW k \in {"event", "end", "error"}, Emits(w, k),
               pc[w] \in {"serving", "watching"}, UNCHANGED <<watches, cancelled, refused, seen>>
        PROVE  Counted(d)' /\ LastIsFinal(d)'
    BY <1>0, <1>4 DEF Emits, Goto, TypeOK, Counted, LastIsFinal
  <1>5. ASSUME NEW w \in Streams, StartWatch(w) PROVE Counted(d)' /\ LastIsFinal(d)'
    BY <1>0, <1>5 DEF StartWatch, Goto, TypeOK, Counted, LastIsFinal
  <1>6. ASSUME NEW w \in Streams, Cancel(w) PROVE Counted(d)' /\ LastIsFinal(d)'
    BY <1>0, <1>6 DEF Cancel, TypeOK, Counted, LastIsFinal
  <1>7. ASSUME NEW w \in Streams, OnFrameReturns(w) PROVE Counted(d)' /\ LastIsFinal(d)'
    BY <1>0, <1>7 DEF OnFrameReturns, Goto, TypeOK, Counted, LastIsFinal
  <1>8. CASE UNCHANGED vars
    BY <1>0, <1>8 DEF vars, Counted, LastIsFinal
  <1> QED
    BY <1>1, <1>2, <1>3, <1>4, <1>5, <1>6, <1>7, <1>8 DEF Next, RefuseWatch, Event, WatchReturns

-----------------------------------------------------------------------------
(* RegistryFollowsWatches is about a handler that runs; while its emit is   *)
(* in the callback it is still registered, or has been cancelled.           *)
RegisteredInCallback ==
  \A w \in Streams : pc[w] \in {"answered", "inFrame"} /\ kind[w] = "event" => w \in watches \cup cancelled

(* A watch in its callback stays registered. *)
LEMMA RegistryStep ==
  ASSUME TypeOK, FramesCounted, RegistryFollowsWatches, RegisteredInCallback, [Next]_vars
  PROVE  RegistryFollowsWatches' /\ RegisteredInCallback'
  <1> USE LoopbackAssumption DEF TypeOK, RegistryFollowsWatches, RegisteredInCallback
  <1>1. ASSUME NEW c \in Calls, Begin(c) PROVE RegistryFollowsWatches' /\ RegisteredInCallback'
    BY <1>1 DEF Begin, Goto
  <1>2. ASSUME NEW c \in Calls, Handle(c) PROVE RegistryFollowsWatches' /\ RegisteredInCallback'
    BY <1>2 DEF Handle, Goto
  <1>3. ASSUME NEW c \in Calls, TakeFrame(c) PROVE RegistryFollowsWatches' /\ RegisteredInCallback'
    BY <1>3 DEF TakeFrame, Goto
  <1>4. ASSUME NEW w \in Streams, NEW k \in {"event", "end", "error"}, Emits(w, k),
               k = "event" => pc[w] = "watching", UNCHANGED <<watches, cancelled, refused, seen>>
        PROVE  RegistryFollowsWatches' /\ RegisteredInCallback'
    BY <1>4 DEF Emits, Goto
  <1>5. ASSUME NEW w \in Streams, StartWatch(w) PROVE RegistryFollowsWatches' /\ RegisteredInCallback'
    BY <1>5 DEF StartWatch, Goto
  <1>6. ASSUME NEW w \in Streams, Cancel(w) PROVE RegistryFollowsWatches' /\ RegisteredInCallback'
    BY <1>6 DEF Cancel
  <1>7. ASSUME NEW w \in Streams, OnFrameReturns(w) PROVE RegistryFollowsWatches' /\ RegisteredInCallback'
    BY <1>7, ZenonT(30) DEF OnFrameReturns, Goto
  <1>8. CASE UNCHANGED vars
    BY <1>8 DEF vars
  <1> QED
    BY <1>1, <1>2, <1>3, <1>4, <1>5, <1>6, <1>7, <1>8 DEF Next, RefuseWatch, Event, WatchReturns

(* However many watches run and whoever stops, cancels or refuses them, a   *)
(* CallStream that has returned has left nothing in the registry.           *)
THEOREM RegistryAlwaysFollows == Spec => []RegistryFollowsWatches
  <1>1. Init => FramesCounted /\ RegistryFollowsWatches /\ RegisteredInCallback
    BY LoopbackAssumption
    DEF Init, FramesCounted, Counted, LastIsFinal, RegistryFollowsWatches, RegisteredInCallback
  <1> QED BY <1>1, TypeInit, TypeStep, CountStep, RegistryStep, PTL DEF Spec

-----------------------------------------------------------------------------
(* The refinement: what a step does to one call whose callback has not      *)
(* failed, the contract allows; a failure, which ends it, included.         *)
LEMMA CallKeepsContract ==
  ASSUME TypeOK, FramesCounted, [Next]_vars, NEW d \in Calls, d \notin refused
  PROVE  [Contract(d)!Next]_(Contract(d)!vars)
  <1> USE LoopbackAssumption DEF TypeOK, StatusOf, Goto
  <1>0. Counted(d) /\ LastIsFinal(d)
    BY DEF FramesCounted
  <1>1. ASSUME NEW c \in Calls, c # d, Begin(c) \/ Handle(c) \/ TakeFrame(c)
        PROVE  UNCHANGED Contract(d)!vars
    BY <1>1 DEF Begin, Handle, TakeFrame, Contract!vars
  <1>2. ASSUME NEW w \in Streams, w # d,
               RefuseWatch(w) \/ StartWatch(w) \/ Event(w) \/ WatchReturns(w) \/ OnFrameReturns(w)
        PROVE  UNCHANGED Contract(d)!vars
    BY <1>2 DEF RefuseWatch, StartWatch, Event, WatchReturns, OnFrameReturns, Emits, Contract!vars
  <1>3. ASSUME NEW w \in Streams, Cancel(w) PROVE UNCHANGED Contract(d)!vars
    BY <1>3 DEF Cancel, Contract!vars
  <1>4. CASE Begin(d)
    BY <1>4 DEF Begin, Contract!Next, Contract!Ask
  <1>5. CASE Handle(d)
    BY <1>0, <1>5 DEF Handle, Counted, Contract!Next, Contract!Make
  <1>6. CASE TakeFrame(d)
    <2>1. seen'[d] = Append(seen[d], <<d, Len(seen[d]) + 1>>) /\ Len(seen[d]) < made[d]
      BY <1>0, <1>6 DEF TakeFrame, Counted
    <2>2. UNCHANGED <<made[d], final[d]>> /\ StatusOf(d) = "open"
      BY <1>6 DEF TakeFrame
    <2>3. StatusOf(d)' = IF d \in Streams THEN "handling" ELSE "over"
      BY <1>6 DEF TakeFrame
    <2> QED BY <2>1, <2>2, <2>3 DEF Contract!Next, Contract!HandOver
  <1>7. ASSUME d \in Streams, NEW k \in {"event", "end", "error"}, Emits(d, k),
               pc[d] \in {"serving", "watching"}, UNCHANGED <<watches, cancelled, refused, seen>>
        PROVE  Contract(d)!Make
    BY <1>0, <1>7 DEF Emits, Counted, LastIsFinal, Contract!Make
  <1>8. ASSUME d \in Streams, StartWatch(d) PROVE UNCHANGED Contract(d)!vars
    BY <1>8 DEF StartWatch, Contract!vars
  <1>9. ASSUME d \in Streams, OnFrameReturns(d) PROVE Contract(d)!Accept \/ Contract(d)!End
    BY <1>0, <1>9 DEF OnFrameReturns, LastIsFinal, Contract!Accept, Contract!End
  <1>10. CASE UNCHANGED vars
    BY <1>10 DEF vars, Contract!vars
  <1>11. ASSUME d \in Streams, RefuseWatch(d) \/ Event(d) \/ WatchReturns(d) PROVE Contract(d)!Make
    BY <1>7, <1>11 DEF RefuseWatch, Event, WatchReturns
  <1> QED
    BY <1>1, <1>2, <1>3, <1>4, <1>5, <1>6, <1>8, <1>9, <1>10, <1>11 DEF Next, Contract!Next

(* The in-process transport keeps the contract of a Transport for any set   *)
(* of calls and whoever cancels them, with each until its callback fails.   *)
THEOREM LoopbackKeepsContract == Spec => KeepsContractUntilRefused
  <1>1. Init => FramesCounted
    BY LoopbackAssumption, ZenonT(30) DEF Init, FramesCounted, Counted, LastIsFinal
  <1>2. Init => \A c \in Calls : Contract(c)!Init
    BY DEF Init, StatusOf, Contract!Init
  <1>3. TypeOK /\ FramesCounted /\ [Next]_vars
        => [\A c \in Calls : c \in refused \/ [Contract(c)!Next]_(Contract(c)!vars)]_vars
    BY CallKeepsContract
  <1> QED BY <1>1, <1>2, <1>3, TypeInit, TypeStep, CountStep, PTL DEF Spec, KeepsContractUntilRefused
=============================================================================
