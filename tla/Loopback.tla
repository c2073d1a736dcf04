------------------------------- MODULE Loopback -------------------------------
(***************************************************************************)
(* The in-process transport (protocol/loopback.go) under the calls of      *)
(* protocol/client.go: Call runs Server.Handle, and CallStream runs        *)
(* Server.HandleStream, on the caller's own goroutine, with the caller's   *)
(* callback as the emit function.  Requests and responses are encoded and  *)
(* decoded on the way, which changes neither their order nor their number. *)
(*                                                                         *)
(* Calls, Streams and stopFor are those of Subprocess.  A watch's handler  *)
(* is anybody's: it emits and returns when it likes.  core.Watcher asks it *)
(* to return once its emit has failed, and nothing makes it.               *)
(***************************************************************************)
EXTENDS Naturals, Sequences

CONSTANTS Calls, Streams, stopFor,
          Cancellable, \* the watches whose reader may cancel
          MayRefuse,   \* a callback may fail
          MaxEvents    \* bound on the events of one watch

ASSUME LoopbackAssumption ==
  /\ Streams \subseteq Calls
  /\ stopFor \in [Streams -> Calls \ Streams]
  /\ Cancellable \subseteq Streams
  /\ MayRefuse \in BOOLEAN
  /\ MaxEvents \in Nat

VARIABLES
  pc,        \* where each call is
  watches,   \* Server.watches
  cancelled, \* the watches whose scoped context is cancelled
  refused,   \* the watches whose callback has failed
  made,      \* frames emitted for each call
  final,     \* the last one has been emitted
  kind,      \* the frame being handed over
  seen       \* the frames each caller was handed

vars == <<pc, watches, cancelled, refused, made, final, kind, seen>>

Init ==
  /\ pc = [c \in Calls |-> "idle"]
  /\ watches = {}
  /\ cancelled = {}
  /\ refused = {}
  /\ made = [c \in Calls |-> 0]
  /\ final = [c \in Calls |-> FALSE]
  /\ kind = [c \in Calls |-> "none"]
  /\ seen = [c \in Calls |-> <<>>]

Goto(c, place) == pc' = [pc EXCEPT ![c] = place]

Begin(c) ==
  /\ pc[c] = "idle"
  /\ \A w \in Streams : stopFor[w] = c => pc[w] = "returned"
  /\ Goto(c, "serving")
  /\ UNCHANGED <<watches, cancelled, refused, made, final, kind, seen>>

(* Wrong: stopWatch cancels the id of its own request. *)
HandleStopsItself(c) ==
  /\ c \notin Streams
  /\ pc[c] = "serving"
  /\ made' = [made EXCEPT ![c] = 1]
  /\ final' = [final EXCEPT ![c] = TRUE]
  /\ cancelled' = IF \E w \in Streams : stopFor[w] = c THEN cancelled \cup {c} ELSE cancelled
  /\ Goto(c, "answered")
  /\ UNCHANGED <<watches, refused, kind, seen>>

(* Handle: one answer.  stopWatch ends the watch it names if it is open.    *)
Handle(c) ==
  /\ c \notin Streams
  /\ pc[c] = "serving"
  /\ made' = [made EXCEPT ![c] = 1]
  /\ final' = [final EXCEPT ![c] = TRUE]
  /\ cancelled' = cancelled \cup {w \in watches : stopFor[w] = c}
  /\ watches' = {w \in watches : stopFor[w] # c}
  /\ Goto(c, "answered")
  /\ UNCHANGED <<refused, kind, seen>>

(* The caller is handed the frame: it returns from Call, or enters onFrame. *)
TakeFrame(c) ==
  /\ pc[c] = "answered"
  /\ seen' = [seen EXCEPT ![c] = Append(@, <<c, made[c]>>)]
  /\ Goto(c, IF c \in Streams THEN "inFrame" ELSE "returned")
  /\ UNCHANGED <<watches, cancelled, refused, made, final, kind>>

(* emit: the frame goes through the encoding to onFrame. *)
Emits(w, k) ==
  /\ made' = [made EXCEPT ![w] = @ + 1]
  /\ final' = [final EXCEPT ![w] = k # "event"]
  /\ kind' = [kind EXCEPT ![w] = k]
  /\ Goto(w, "answered")

RefuseWatch(w) ==
  /\ w \in Streams
  /\ pc[w] = "serving"
  /\ Emits(w, "error")
  /\ UNCHANGED <<watches, cancelled, refused, seen>>

(* Wrong: the watch is not registered. *)
StartUnregistered(w) ==
  /\ w \in Streams
  /\ pc[w] = "serving"
  /\ Goto(w, "watching")
  /\ UNCHANGED <<watches, cancelled, refused, made, final, kind, seen>>

StartWatch(w) ==
  /\ w \in Streams
  /\ pc[w] = "serving"
  /\ watches' = watches \cup {w}
  /\ Goto(w, "watching")
  /\ UNCHANGED <<cancelled, refused, made, final, kind, seen>>

Event(w) ==
  /\ pc[w] = "watching"
  /\ made[w] < MaxEvents
  /\ Emits(w, "event")
  /\ UNCHANGED <<watches, cancelled, refused, seen>>

(* The watch's reader cancels; nothing but the handler listens. *)
Cancel(w) ==
  /\ w \in Cancellable
  /\ pc[w] \in {"watching", "inFrame"}
  /\ cancelled' = cancelled \cup {w}
  /\ UNCHANGED <<pc, watches, refused, made, final, kind, seen>>

(* Watch returns: HandleStream emits the last frame whatever became of the  *)
(* callback.                                                                *)
WatchReturns(w) ==
  /\ pc[w] = "watching"
  /\ \/ Emits(w, "end")
     \/ w \notin cancelled /\ Emits(w, "error")
  /\ UNCHANGED <<watches, cancelled, refused, seen>>

(* Wrong: HandleStream goes on after the frame that says the watch failed. *)
OnFrameGoesOn(w) ==
  /\ pc[w] = "inFrame"
  /\ IF kind[w] # "end" THEN Goto(w, "watching") /\ UNCHANGED watches
                        ELSE Goto(w, "returned") /\ watches' = watches \ {w}
  /\ UNCHANGED <<cancelled, refused, made, final, kind, seen>>

(* onFrame fails on an error frame and on a frame the consumer refuses. *)
OnFrameReturns(w) ==
  /\ pc[w] = "inFrame"
  /\ \/ kind[w] # "error" /\ UNCHANGED refused
     \/ kind[w] = "error" /\ refused' = refused \cup {w}
     \/ kind[w] = "event" /\ MayRefuse /\ refused' = refused \cup {w}
  /\ IF kind[w] = "event" THEN Goto(w, "watching") /\ UNCHANGED watches
                          ELSE Goto(w, "returned") /\ watches' = watches \ {w}
  /\ UNCHANGED <<cancelled, made, final, kind, seen>>

Next ==
  \/ \E c \in Calls : Begin(c) \/ Handle(c) \/ TakeFrame(c)
  \/ \E w \in Streams : \/ RefuseWatch(w) \/ StartWatch(w) \/ Event(w) \/ Cancel(w)
                        \/ WatchReturns(w) \/ OnFrameReturns(w)

Spec == Init /\ [][Next]_vars

-----------------------------------------------------------------------------
(* Type correctness of every variable. *)
TypeOK ==
  /\ pc \in [Calls -> {"idle", "serving", "answered", "watching", "inFrame", "returned"}]
  /\ watches \subseteq Streams
  /\ cancelled \subseteq Streams
  /\ refused \subseteq Streams
  /\ made \in [Calls -> Nat]
  /\ final \in [Calls -> BOOLEAN]
  /\ kind \in [Calls -> {"none", "event", "end", "error"}]
  /\ seen \in [Calls -> Seq(Calls \X Nat)]

(* When CallStream has returned its watch is out of the registry: the       *)
(* deferred stopWatch of HandleStream ran, however the watch ended, and a   *)
(* running watch is always there or cancelled.                              *)
RegistryFollowsWatches ==
  \A w \in Streams : /\ pc[w] = "returned" => w \notin watches
                     /\ pc[w] = "watching" => w \in watches \cup cancelled

(* A call is over for its caller when it returns, or when its callback has  *)
(* failed: client.go:20 has CallStream return then.                         *)
StatusOf(c) ==
  CASE pc[c] = "returned" \/ c \in refused -> "over"
    [] pc[c] = "idle"    -> "unasked"
    [] pc[c] = "inFrame" -> "handling"
    [] OTHER             -> "open"

Contract(c) ==
  INSTANCE CallContract WITH
    call     <- c,
    isStream <- c \in Streams,
    status   <- StatusOf(c),
    made     <- made[c],
    final    <- final[c],
    seen     <- seen[c]

(* Loopback keeps the contract that Subprocess keeps (client.go:16: nothing *)
(* above this interface knows which it is) with a call whose callback has   *)
(* not failed: frames in order, each once, none past the last.  Of a        *)
(* callback that has failed client.go:18 says the call returns then;        *)
(* HandleStream calls it again, so the contract ends there.                 *)
(* This is \A c \in Calls : Contract(c)!Spec up to the failure, in the form *)
(* that TLC evaluates.                                                      *)
KeepsContractUntilRefused ==
  /\ \A c \in Calls : Contract(c)!Init
  /\ [][\A c \in Calls : c \in refused \/ [Contract(c)!Next]_(Contract(c)!vars)]_vars
=============================================================================
