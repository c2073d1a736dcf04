------------------------------ MODULE Subprocess ------------------------------
(***************************************************************************)
(* The client end of the protocol over a provider binary: the transport of *)
(* protocol/stdio.go (Subprocess: send, start, read, deliver, death,       *)
(* stopped, forget, Close) driven by the calls of protocol/client.go       *)
(* (takeID, call, stream, stop), against a provider process that behaves   *)
(* as ServeStdio does, seen from outside: unary requests are answered in   *)
(* the order read, each watch emits from a goroutine of its own.           *)
(*                                                                         *)
(* Every element of Calls is one request the client makes, in a goroutine  *)
(* of its own.  A call in Streams is a Watch.  When its CallStream         *)
(* returns, the same goroutine calls stopWatch: that second request is the *)
(* call stopFor[w].  A call in the domain of within is made from inside    *)
(* the callback of the watch within[c].                                    *)
(*                                                                         *)
(* The initial state is the one Connect leaves: process 1 runs and has     *)
(* been handshaken, two ids are spent, nobody is waiting.                  *)
(***************************************************************************)
EXTENDS Integers, Sequences

CONSTANTS Calls,       \* the requests made after Connect
          Streams,     \* those that are watches
          stopFor,     \* watch |-> the stopWatch call that follows it
          within,      \* call |-> the watch whose callback makes it
          Cancellable, \* the calls whose context may be cancelled
          FrameCap,    \* capacity of pending.frames (16 in the code)
          InCap,       \* requests the stdin pipe holds
          OutCap,      \* responses the stdout pipe holds, with the one in the reader's hand
          MaxGen,      \* bound on the processes started
          MaxEvents,   \* bound on the events of one watch
          Faults,      \* which faults the environment may inject
          MaxFaults,   \* bound on how many
          MayClose,    \* whether somebody calls Close
          Free,        \* mu is not held
          None         \* no call

Gens == 1..MaxGen

ASSUME CallsAssumption ==
  /\ Streams \subseteq Calls
  /\ stopFor \in [Streams -> Calls \ Streams]
  /\ \A v, w \in Streams : stopFor[v] = stopFor[w] => v = w
  /\ DOMAIN within \subseteq Calls
  /\ \A c \in DOMAIN within : within[c] \in Streams
  /\ Cancellable \subseteq Calls
  /\ \A w \in Streams : stopFor[w] \notin Cancellable
  /\ Free \notin Calls
  /\ None \notin Calls

ASSUME BoundsAssumption ==
  /\ FrameCap \in Nat \ {0}
  /\ InCap \in Nat \ {0}
  /\ OutCap \in Nat \ {0}
  /\ MaxGen \in Nat \ {0}
  /\ MaxEvents \in Nat
  /\ Faults \subseteq {"crash", "garbage", "start"}
  /\ MaxFaults \in Nat
  /\ MayClose \in BOOLEAN

VARIABLES
  nextID,    \* Client.nextID
  id,        \* the id each call took, 0 before it takes one
  pc,        \* where each call is
  outcome,   \* how each call's transport call ended
  got,       \* the frames each call has taken off its channel
  mu,        \* who holds Subprocess.mu while blocked: a call, or Free
  cmd,       \* the process s.cmd names, 0 for nil
  gen,       \* the last process started: s.closed and s.pending are its own
  pending,   \* s.pending: id |-> the call waiting on it
  sentTo,    \* the process a call was written to, which fixes its closed channel
  frames,    \* pending.frames of each call
  done,      \* pending.done of each call is shut
  closed,    \* the closed channel of each process is shut
  victim,    \* the process Wait is running on under mu, 0 for none
  reaped,    \* how many times Wait has returned for each process
  readerAt,  \* where the reader goroutine of each process is
  target,    \* whom it is handing the first line of the pipe to
  closer,    \* where the caller of Close is
  closing,   \* the process Close waits for, 0 for none
  proc,      \* each process: off, running, exited
  eof,       \* its stdin has been closed
  in,        \* requests in its stdin pipe
  out,       \* responses in its stdout pipe
  stream,    \* what the provider knows of each watch
  made,      \* how many frames the provider has made for each call
  faults     \* faults injected so far

clientVars    == <<nextID, id>>
callVars      == <<pc, outcome, got>>
transportVars == <<mu, cmd, gen, pending, sentTo, frames, done, closed, victim, reaped>>
readerVars    == <<readerAt, target>>
closeVars     == <<closer, closing>>
pipeVars      == <<in, out>>
providerVars  == <<proc, eof, stream, made>>

vars == <<clientVars, callVars, transportVars, readerVars, closeVars, pipeVars,
          providerVars, faults>>

-----------------------------------------------------------------------------
(* Messages.  `from` and `to` record the call a line belongs to; the code   *)
(* has only the id to go by.  `n` numbers the frames of one answer.         *)

Request  == [id : Nat, from : Calls]
FinalKind == {"result", "end", "error", "unready"}
Response == [kind : FinalKind \cup {"event"}, id : Nat, to : Calls, n : Nat]
Garbage  == [kind |-> "garbage"]

IsLast(resp) == resp.kind \in FinalKind

Handshaken(g) == g = 1

(* The frame the provider writes next in answer to c. *)
Frame(kind, i, c) == [kind |-> kind, id |-> i, to |-> c, n |-> made[c] + 1]

(* Two ways to get the pending map wrong: send making it anew for every     *)
(* request, and forget or a failed write leaving the entry, or its ghost.   *)
OnlyRegistered(p, i, c) == [j \in {i} |-> c]
StillRegistered(p, i)   == p
BlankRegistered(p, i)   == [j \in DOMAIN p |-> IF j = i THEN None ELSE p[j]]

Registered(p, i, c) == [j \in DOMAIN p \cup {i} |-> IF j = i THEN c ELSE p[j]]
Unregistered(p, i)  == [j \in DOMAIN p \ {i} |-> p[j]]

Init ==
  /\ nextID = 2
  /\ id = [c \in Calls |-> 0]
  /\ pc = [c \in Calls |-> "idle"]
  /\ outcome = [c \in Calls |-> "none"]
  /\ got = [c \in Calls |-> <<>>]
  /\ mu = Free
  /\ cmd = 1
  /\ gen = 1
  /\ pending = [i \in {} |-> None]
  /\ sentTo = [c \in Calls |-> 0]
  /\ frames = [c \in Calls |-> <<>>]
  /\ done = [c \in Calls |-> FALSE]
  /\ closed = [g \in Gens |-> FALSE]
  /\ victim = 0
  /\ reaped = [g \in Gens |-> 0]
  /\ readerAt = [g \in Gens |-> IF g = 1 THEN "scanning" ELSE "off"]
  /\ target = [g \in Gens |-> None]
  /\ closer = "idle"
  /\ closing = 0
  /\ proc = [g \in Gens |-> IF g = 1 THEN "running" ELSE "off"]
  /\ eof = [g \in Gens |-> FALSE]
  /\ in = [g \in Gens |-> <<>>]
  /\ out = [g \in Gens |-> <<>>]
  /\ stream = [w \in Streams |-> "none"]
  /\ made = [c \in Calls |-> 0]
  /\ faults = 0

-----------------------------------------------------------------------------
(* The calls.                                                               *)

Goto(c, place) == pc' = [pc EXCEPT ![c] = place]

(* Return from Call or CallStream with its deferred forget still to run. *)
Finish(c, how) == Goto(c, "forgetting") /\ outcome' = [outcome EXCEPT ![c] = how]

(* Wrong: a watch is stopped only if it ended well. *)
MayStartAfterEnd(c) ==
  /\ \A w \in Streams : stopFor[w] = c => pc[w] = "returned" /\ outcome[w] = "ended"
  /\ c \in DOMAIN within => pc[within[c]] = "inFrame"

(* A stopWatch follows its watch; a nested call runs inside a callback. *)
MayStart(c) ==
  /\ \A w \in Streams : stopFor[w] = c => pc[w] = "returned"
  /\ c \in DOMAIN within => pc[within[c]] = "inFrame"

(* Wrong: takeID without idMu, an increment lost to another one's. *)
TakeIDUnlocked(c) ==
  /\ pc[c] = "idle"
  /\ MayStart(c)
  /\ \E read \in {nextID, nextID - 1} : nextID' = read + 1
  /\ id' = [id EXCEPT ![c] = nextID']
  /\ Goto(c, "ready")
  /\ UNCHANGED <<outcome, got, transportVars, readerVars, closeVars, pipeVars, providerVars, faults>>

TakeID(c) ==
  /\ pc[c] = "idle"
  /\ MayStart(c)
  /\ nextID' = nextID + 1
  /\ id' = [id EXCEPT ![c] = nextID + 1]
  /\ Goto(c, "ready")
  /\ UNCHANGED <<outcome, got, transportVars, readerVars, closeVars, pipeVars, providerVars, faults>>

(* send takes mu, finds the provider running and registers the caller.  It  *)
(* keeps mu while it writes.                                                *)
SendToRunning(c) ==
  /\ pc[c] = "ready"
  /\ mu = Free
  /\ cmd # 0
  /\ mu' = c
  /\ pending' = Registered(pending, id[c], c)
  /\ Goto(c, "writing")
  /\ UNCHANGED <<clientVars, outcome, got, cmd, gen, sentTo, frames, done, closed, victim, reaped,
                 readerVars, closeVars, pipeVars, providerVars, faults>>

(* send finds no provider: start runs one, with a new pending map, a new    *)
(* closed channel and a reader of its own.                                  *)
SendStarting(c) ==
  /\ pc[c] = "ready"
  /\ mu = Free
  /\ cmd = 0
  /\ gen < MaxGen
  /\ mu' = c
  /\ gen' = gen + 1
  /\ cmd' = gen + 1
  /\ pending' = [i \in {id[c]} |-> c]
  /\ proc' = [proc EXCEPT ![gen + 1] = "running"]
  /\ readerAt' = [readerAt EXCEPT ![gen + 1] = "scanning"]
  /\ Goto(c, "writing")
  /\ UNCHANGED <<clientVars, outcome, got, sentTo, frames, done, closed, victim, reaped, target,
                 closeVars, pipeVars, eof, stream, made, faults>>

(* start cannot run the binary: the call fails with nothing registered. *)
StartFails(c) ==
  /\ "start" \in Faults /\ faults < MaxFaults
  /\ pc[c] = "ready"
  /\ mu = Free
  /\ cmd = 0
  /\ Goto(c, "returned")
  /\ outcome' = [outcome EXCEPT ![c] = "unavailable"]
  /\ faults' = faults + 1
  /\ UNCHANGED <<clientVars, got, transportVars, readerVars, closeVars, pipeVars, providerVars>>

Write(c) ==
  /\ pc[c] = "writing"
  /\ proc[cmd] = "running"
  /\ Len(in[cmd]) < InCap
  /\ in' = [in EXCEPT ![cmd] = Append(@, [id |-> id[c], from |-> c])]
  /\ sentTo' = [sentTo EXCEPT ![c] = cmd]
  /\ mu' = Free
  /\ Goto(c, "waiting")
  /\ UNCHANGED <<clientVars, outcome, got, cmd, gen, pending, frames, done, closed, victim, reaped,
                 readerVars, closeVars, out, providerVars, faults>>

(* Wrong: the failed write forgets the provider without waiting for it. *)
WriteFailsUnreaped(c) ==
  /\ pc[c] = "writing"
  /\ proc[cmd] = "exited"
  /\ pending' = Unregistered(pending, id[c])
  /\ cmd' = 0
  /\ mu' = Free
  /\ Goto(c, "returned")
  /\ UNCHANGED <<clientVars, outcome, got, gen, sentTo, frames, done, closed, victim, reaped,
                 readerVars, closeVars, pipeVars, providerVars, faults>>

(* The pipe is broken: send unregisters and stopped tears the connection    *)
(* down, still under mu.                                                    *)
WriteFails(c) ==
  /\ pc[c] = "writing"
  /\ proc[cmd] = "exited"
  /\ pending' = Unregistered(pending, id[c])
  /\ victim' = cmd
  /\ cmd' = 0
  /\ Goto(c, "reaping")
  /\ UNCHANGED <<clientVars, outcome, got, mu, gen, sentTo, frames, done, closed, reaped,
                 readerVars, closeVars, pipeVars, providerVars, faults>>

(* One arm of the select: a frame.  A unary call is over with it. *)
Receive(c) ==
  /\ pc[c] = "waiting"
  /\ frames[c] # <<>>
  /\ got' = [got EXCEPT ![c] = Append(@, Head(frames[c]))]
  /\ frames' = [frames EXCEPT ![c] = Tail(@)]
  /\ IF c \in Streams THEN Goto(c, "inFrame") /\ UNCHANGED outcome
                      ELSE Finish(c, "answer")
  /\ UNCHANGED <<clientVars, mu, cmd, gen, pending, sentTo, done, closed, victim, reaped,
                 readerVars, closeVars, pipeVars, providerVars, faults>>

(* Wrong: the stream goes on waiting after its last frame. *)
OnFrameWaitsOn(c) ==
  /\ pc[c] = "inFrame"
  /\ \/ Goto(c, "waiting") /\ UNCHANGED outcome
     \/ got[c][Len(got[c])].kind # "end" /\ Finish(c, "failed")
  /\ UNCHANGED <<clientVars, got, transportVars, readerVars, closeVars, pipeVars, providerVars, faults>>

(* onFrame returns.  It fails on an error frame, and on any frame the       *)
(* consumer refuses; a frame with Stream unset ends the stream.             *)
OnFrameReturns(c) ==
  LET resp == got[c][Len(got[c])] IN
  /\ pc[c] = "inFrame"
  /\ \A d \in DOMAIN within : within[d] = c => pc[d] \in {"idle", "returned"}
  /\ \/ resp.kind = "event" /\ Goto(c, "waiting") /\ UNCHANGED outcome
     \/ resp.kind # "end" /\ Finish(c, "failed")
     \/ resp.kind \in {"end", "result"} /\ Finish(c, "ended")
  /\ UNCHANGED <<clientVars, got, transportVars, readerVars, closeVars, pipeVars, providerVars, faults>>

(* Wrong: the transport sends the request again when the provider is gone. *)
SendAgain(c) ==
  /\ pc[c] = "waiting"
  /\ closed[sentTo[c]]
  /\ Goto(c, "ready")
  /\ UNCHANGED <<clientVars, outcome, got, transportVars, readerVars, closeVars, pipeVars,
                 providerVars, faults>>

(* Another arm: the provider stopped answering. *)
SeeClosed(c) ==
  /\ pc[c] = "waiting"
  /\ closed[sentTo[c]]
  /\ Goto(c, "death")
  /\ UNCHANGED <<clientVars, outcome, got, transportVars, readerVars, closeVars, pipeVars,
                 providerVars, faults>>

(* The third arm: the caller's context is cancelled. *)
GiveUp(c) ==
  /\ c \in Cancellable
  /\ pc[c] = "waiting"
  /\ Finish(c, "cancelled")
  /\ UNCHANGED <<clientVars, got, transportVars, readerVars, closeVars, pipeVars, providerVars, faults>>

(* death finds that somebody has torn the connection down already: the      *)
(* caller gets the bare cause.                                              *)
DeathNothingToReap(c) ==
  /\ pc[c] = "death"
  /\ mu = Free
  /\ cmd = 0
  /\ Finish(c, "cause")
  /\ UNCHANGED <<clientVars, got, transportVars, readerVars, closeVars, pipeVars, providerVars, faults>>

(* Wrong: death leaves s.cmd for the next one to wait for again. *)
DeathKeepsCmd(c) ==
  /\ pc[c] = "death"
  /\ mu = Free
  /\ cmd # 0
  /\ mu' = c
  /\ victim' = cmd
  /\ Goto(c, "reaping")
  /\ UNCHANGED <<clientVars, outcome, got, cmd, gen, pending, sentTo, frames, done, closed, reaped,
                 readerVars, closeVars, pipeVars, providerVars, faults>>

(* death takes whatever s.cmd names and waits for it, under mu. *)
DeathReaps(c) ==
  /\ pc[c] = "death"
  /\ mu = Free
  /\ cmd # 0
  /\ mu' = c
  /\ victim' = cmd
  /\ cmd' = 0
  /\ Goto(c, "reaping")
  /\ UNCHANGED <<clientVars, outcome, got, gen, pending, sentTo, frames, done, closed, reaped,
                 readerVars, closeVars, pipeVars, providerVars, faults>>

(* Wait returns when the process has exited, and closes this end of its     *)
(* stdout: what the reader has not taken yet may be lost, the line it has   *)
(* in its hand is not.                                                      *)
ReapedOutput(g) ==
  {SubSeq(out[g], 1, k) : k \in (IF readerAt[g] = "delivering" THEN 1 ELSE 0)..Len(out[g])}

Reap(c) ==
  /\ pc[c] = "reaping"
  /\ proc[victim] = "exited"
  /\ reaped' = [reaped EXCEPT ![victim] = @ + 1]
  /\ \E rest \in ReapedOutput(victim) : out' = [out EXCEPT ![victim] = rest]
  /\ victim' = 0
  /\ mu' = Free
  /\ outcome' = [outcome EXCEPT ![c] = "exited"]
  /\ Goto(c, IF sentTo[c] = 0 THEN "returned" ELSE "forgetting")
  /\ UNCHANGED <<clientVars, got, cmd, gen, pending, sentTo, frames, done, closed,
                 readerVars, closeVars, in, providerVars, faults>>

(* Wrong: forget does not shut the done channel. *)
ForgetQuietly(c) ==
  /\ pc[c] = "forgetting"
  /\ mu = Free
  /\ pending' = IF id[c] \in DOMAIN pending /\ pending[id[c]] = c
                THEN Unregistered(pending, id[c]) ELSE pending
  /\ Goto(c, "returned")
  /\ UNCHANGED <<clientVars, outcome, got, mu, cmd, gen, sentTo, frames, done, closed, victim, reaped,
                 readerVars, closeVars, pipeVars, providerVars, faults>>

Forget(c) ==
  /\ pc[c] = "forgetting"
  /\ mu = Free
  /\ pending' = IF id[c] \in DOMAIN pending /\ pending[id[c]] = c
                THEN Unregistered(pending, id[c]) ELSE pending
  /\ done' = [done EXCEPT ![c] = TRUE]
  /\ Goto(c, "returned")
  /\ UNCHANGED <<clientVars, outcome, got, mu, cmd, gen, sentTo, frames, closed, victim, reaped,
                 readerVars, closeVars, pipeVars, providerVars, faults>>

-----------------------------------------------------------------------------
(* The reader goroutine of process g.                                       *)

IsAnswer(line) == line.kind # "garbage"

(* deliver looks the id up under mu. *)
Lookup(g) ==
  /\ readerAt[g] = "scanning"
  /\ out[g] # <<>> /\ IsAnswer(Head(out[g]))
  /\ mu = Free
  /\ Head(out[g]).id \in DOMAIN pending
  /\ target' = [target EXCEPT ![g] = pending[Head(out[g]).id]]
  /\ readerAt' = [readerAt EXCEPT ![g] = "delivering"]
  /\ UNCHANGED <<clientVars, callVars, transportVars, closeVars, pipeVars, providerVars, faults>>

(* Nobody is waiting on that id: the frame is dropped. *)
DropUnclaimed(g) ==
  /\ readerAt[g] = "scanning"
  /\ out[g] # <<>> /\ IsAnswer(Head(out[g]))
  /\ mu = Free
  /\ Head(out[g]).id \notin DOMAIN pending
  /\ out' = [out EXCEPT ![g] = Tail(@)]
  /\ UNCHANGED <<clientVars, callVars, transportVars, readerVars, closeVars, in, providerVars, faults>>

HandOver(g) ==
  /\ readerAt[g] = "delivering"
  /\ Len(frames[target[g]]) < FrameCap
  /\ frames' = [frames EXCEPT ![target[g]] = Append(@, Head(out[g]))]
  /\ out' = [out EXCEPT ![g] = Tail(@)]
  /\ readerAt' = [readerAt EXCEPT ![g] = "scanning"]
  /\ target' = [target EXCEPT ![g] = None]
  /\ UNCHANGED <<clientVars, callVars, mu, cmd, gen, pending, sentTo, done, closed, victim, reaped,
                 closeVars, in, providerVars, faults>>

(* Wrong: a frame is dropped when the caller's buffer is full. *)
SkipWhenFull(g) ==
  /\ readerAt[g] = "delivering"
  /\ Len(frames[target[g]]) = FrameCap \/ done[target[g]]
  /\ out' = [out EXCEPT ![g] = Tail(@)]
  /\ readerAt' = [readerAt EXCEPT ![g] = "scanning"]
  /\ target' = [target EXCEPT ![g] = None]
  /\ UNCHANGED <<clientVars, callVars, transportVars, closeVars, in, providerVars, faults>>

(* The caller went away while the reader held its frame. *)
SkipForgotten(g) ==
  /\ readerAt[g] = "delivering"
  /\ done[target[g]]
  /\ out' = [out EXCEPT ![g] = Tail(@)]
  /\ readerAt' = [readerAt EXCEPT ![g] = "scanning"]
  /\ target' = [target EXCEPT ![g] = None]
  /\ UNCHANGED <<clientVars, callVars, transportVars, closeVars, in, providerVars, faults>>

(* The scan loop ends: at the end of the output, or at a line that is not a *)
(* response.                                                                *)
StopScanning(g) ==
  /\ readerAt[g] = "scanning"
  /\ \/ out[g] = <<>> /\ proc[g] = "exited"
     \/ out[g] # <<>> /\ ~IsAnswer(Head(out[g]))
  /\ readerAt' = [readerAt EXCEPT ![g] = "shutting"]
  /\ UNCHANGED <<clientVars, callVars, transportVars, target, closeVars, pipeVars, providerVars, faults>>

(* Wrong: the reader shuts the channel of a provider other than its own. *)
ShutOther(g) ==
  /\ readerAt[g] = "shutting"
  /\ mu = Free
  /\ closed' = IF gen # g THEN [closed EXCEPT ![g] = TRUE] ELSE closed
  /\ readerAt' = [readerAt EXCEPT ![g] = "ended"]
  /\ UNCHANGED <<clientVars, callVars, mu, cmd, gen, pending, sentTo, frames, done, victim, reaped,
                 target, closeVars, pipeVars, providerVars, faults>>

(* The reader shuts its closed channel if it is still the transport's. *)
Shut(g) ==
  /\ readerAt[g] = "shutting"
  /\ mu = Free
  /\ closed' = IF gen = g THEN [closed EXCEPT ![g] = TRUE] ELSE closed
  /\ readerAt' = [readerAt EXCEPT ![g] = "ended"]
  /\ UNCHANGED <<clientVars, callVars, mu, cmd, gen, pending, sentTo, frames, done, victim, reaped,
                 target, closeVars, pipeVars, providerVars, faults>>

-----------------------------------------------------------------------------
(* Close.                                                                   *)

CloseNothing ==
  /\ MayClose
  /\ closer = "idle"
  /\ mu = Free
  /\ cmd = 0
  /\ closer' = "returned"
  /\ UNCHANGED <<clientVars, callVars, transportVars, readerVars, closing, pipeVars, providerVars, faults>>

(* Wrong: Close waits without closing the provider's stdin. *)
CloseWithoutEOF ==
  /\ MayClose
  /\ closer = "idle"
  /\ mu = Free
  /\ cmd # 0
  /\ closing' = cmd
  /\ cmd' = 0
  /\ closer' = "reaping"
  /\ UNCHANGED <<clientVars, callVars, mu, gen, pending, sentTo, frames, done, closed, victim, reaped,
                 readerVars, pipeVars, providerVars, faults>>

CloseBegins ==
  /\ MayClose
  /\ closer = "idle"
  /\ mu = Free
  /\ cmd # 0
  /\ closing' = cmd
  /\ cmd' = 0
  /\ eof' = [eof EXCEPT ![cmd] = TRUE]
  /\ closer' = "reaping"
  /\ UNCHANGED <<clientVars, callVars, mu, gen, pending, sentTo, frames, done, closed, victim, reaped,
                 readerVars, pipeVars, proc, stream, made, faults>>

CloseReaps ==
  /\ closer = "reaping"
  /\ proc[closing] = "exited"
  /\ reaped' = [reaped EXCEPT ![closing] = @ + 1]
  /\ \E rest \in ReapedOutput(closing) : out' = [out EXCEPT ![closing] = rest]
  /\ closing' = 0
  /\ closer' = "returned"
  /\ UNCHANGED <<clientVars, callVars, mu, cmd, gen, pending, sentTo, frames, done, closed, victim,
                 readerVars, in, providerVars, faults>>

-----------------------------------------------------------------------------
(* The provider process g.  Its main loop answers unary requests one at a   *)
(* time; a process that was never handshaken refuses everything.            *)

CanRead(g)  == proc[g] = "running" /\ in[g] # <<>>
CanWrite(g) == proc[g] = "running" /\ Len(out[g]) < OutCap

IsStop(c) == \E w \in Streams : stopFor[w] = c

Put(g, kind, i, c) ==
  /\ CanWrite(g)
  /\ out' = [out EXCEPT ![g] = Append(@, Frame(kind, i, c))]
  /\ made' = [made EXCEPT ![c] = @ + 1]

(* A request answered with one frame.  stopWatch cancels the watch it       *)
(* names, if that watch is open.                                            *)
Answer(g) ==
  LET req == Head(in[g]) IN
  /\ CanRead(g)
  /\ Handshaken(g)
  /\ req.from \notin Streams
  /\ Put(g, "result", req.id, req.from)
  /\ in' = [in EXCEPT ![g] = Tail(@)]
  /\ stream' = [w \in Streams |->
                  IF stopFor[w] = req.from /\ sentTo[w] = g /\ stream[w] = "open"
                  THEN "stopped" ELSE stream[w]]
  /\ UNCHANGED <<clientVars, callVars, transportVars, readerVars, closeVars, proc, eof, faults>>

(* A watch gets a goroutine of its own, whether it will be served or not; a *)
(* stopWatch read before that goroutine registers the watch finds nothing   *)
(* to cancel.                                                               *)
OpenWatch(g) ==
  LET req == Head(in[g]) IN
  /\ CanRead(g)
  /\ req.from \in Streams
  /\ stream' = [stream EXCEPT ![req.from] = "spawned"]
  /\ in' = [in EXCEPT ![g] = Tail(@)]
  /\ UNCHANGED <<clientVars, callVars, transportVars, readerVars, closeVars, out, proc, eof, made, faults>>

RefuseUnready(g) ==
  LET req == Head(in[g]) IN
  /\ CanRead(g)
  /\ ~Handshaken(g)
  /\ req.from \notin Streams
  /\ Put(g, "unready", req.id, req.from)
  /\ in' = [in EXCEPT ![g] = Tail(@)]
  /\ UNCHANGED <<clientVars, callVars, transportVars, readerVars, closeVars, proc, eof, stream, faults>>

StartWatch(w) ==
  /\ stream[w] = "spawned"
  /\ Handshaken(sentTo[w])
  /\ proc[sentTo[w]] = "running"
  /\ stream' = [stream EXCEPT ![w] = "open"]
  /\ UNCHANGED <<clientVars, callVars, transportVars, readerVars, closeVars, pipeVars, proc, eof, made, faults>>

(* A watch emits an event. *)
Emit(w) ==
  /\ stream[w] \in {"open", "stopped"}
  /\ made[w] < MaxEvents
  /\ Put(sentTo[w], "event", id[w], w)
  /\ UNCHANGED <<clientVars, callVars, transportVars, readerVars, closeVars, in, proc, eof, stream, faults>>

(* A watch ends: refused for want of a handshake, by itself, well or badly, *)
(* or because it was stopped, which is never an error.                      *)
EndStream(w) ==
  /\ \/ stream[w] = "spawned" /\ ~Handshaken(sentTo[w]) /\ Put(sentTo[w], "unready", id[w], w)
     \/ stream[w] = "open" /\ \E kind \in {"end", "error"} : Put(sentTo[w], kind, id[w], w)
     \/ stream[w] = "stopped" /\ Put(sentTo[w], "end", id[w], w)
  /\ stream' = [stream EXCEPT ![w] = "ended"]
  /\ UNCHANGED <<clientVars, callVars, transportVars, readerVars, closeVars, in, proc, eof, faults>>

(* ServeStdio returns at EOF once every stream has ended. *)
ExitAtEOF(g) ==
  /\ proc[g] = "running"
  /\ eof[g]
  /\ in[g] = <<>>
  /\ \A w \in Streams : sentTo[w] = g => stream[w] \in {"none", "ended"}
  /\ proc' = [proc EXCEPT ![g] = "exited"]
  /\ UNCHANGED <<clientVars, callVars, transportVars, readerVars, closeVars, pipeVars, eof, stream, made, faults>>

Crash(g) ==
  /\ "crash" \in Faults /\ faults < MaxFaults
  /\ proc[g] = "running"
  /\ proc' = [proc EXCEPT ![g] = "exited"]
  /\ faults' = faults + 1
  /\ UNCHANGED <<clientVars, callVars, transportVars, readerVars, closeVars, pipeVars, eof, stream, made>>

(* The provider writes a line that is not a response, and carries on. *)
WriteGarbage(g) ==
  /\ "garbage" \in Faults /\ faults < MaxFaults
  /\ CanWrite(g)
  /\ out' = [out EXCEPT ![g] = Append(@, Garbage)]
  /\ faults' = faults + 1
  /\ UNCHANGED <<clientVars, callVars, transportVars, readerVars, closeVars, in, providerVars>>

-----------------------------------------------------------------------------
Select(c) == Receive(c) \/ SeeClosed(c)

Send(c) == SendToRunning(c) \/ SendStarting(c) \/ StartFails(c) \/ Write(c) \/ WriteFails(c)

Return(c) == DeathNothingToReap(c) \/ DeathReaps(c) \/ Reap(c) \/ Forget(c)

Caller(c) == TakeID(c) \/ Send(c) \/ Select(c) \/ OnFrameReturns(c) \/ GiveUp(c) \/ Return(c)

Reader(g) == Lookup(g) \/ DropUnclaimed(g) \/ HandOver(g) \/ SkipForgotten(g) \/ StopScanning(g) \/ Shut(g)

Close == CloseNothing \/ CloseBegins \/ CloseReaps

ServeNext(g) == Answer(g) \/ OpenWatch(g) \/ RefuseUnready(g)

Provider(g) == ServeNext(g) \/ ExitAtEOF(g) \/ Crash(g) \/ WriteGarbage(g)

Watching(w) == StartWatch(w) \/ Emit(w) \/ EndStream(w)

(* Every call has returned, or was never made. *)
AllReturned == \A c \in Calls : pc[c] = "returned" \/ (c \in DOMAIN within /\ pc[c] = "idle")

Terminated == AllReturned /\ UNCHANGED vars

Next ==
  \/ \E c \in Calls : Caller(c)
  \/ \E g \in Gens : Reader(g) \/ Provider(g)
  \/ \E w \in Streams : Watching(w)
  \/ Close
  \/ Terminated

Spec == Init /\ [][Next]_vars

(* What the code's own goroutines must do in the end: a goroutine that can  *)
(* go on does, and sync.Mutex starves nobody.  Nothing makes a call start,  *)
(* a context get cancelled, a watch say anything or end by itself, or a     *)
(* fault happen; a consumer's callback is assumed to return.                *)
Fairness ==
  /\ \A c \in Calls : /\ WF_vars(Send(c))
                      /\ WF_vars(Select(c))
                      /\ WF_vars(OnFrameReturns(c))
                      /\ WF_vars(Return(c))
  /\ \A c \in Calls : IsStop(c) => WF_vars(TakeID(c))
  /\ \A g \in Gens : WF_vars(Reader(g)) /\ WF_vars(ServeNext(g)) /\ WF_vars(ExitAtEOF(g))
  /\ \A w \in Streams : WF_vars(StartWatch(w))
  /\ \A w \in Streams : WF_vars(stream[w] \in {"spawned", "stopped"} /\ EndStream(w))
  /\ WF_vars(CloseReaps)

FairSpec == Spec /\ Fairness

-----------------------------------------------------------------------------
Places       == {"idle", "ready", "writing", "waiting", "inFrame", "death", "reaping",
                 "forgetting", "returned"}
Outcomes     == {"none", "answer", "ended", "failed", "cancelled", "unavailable", "exited", "cause"}
ReaderPlaces == {"off", "scanning", "delivering", "shutting", "ended"}
StreamStates == {"none", "spawned", "open", "stopped", "ended"}

(* Type correctness of every variable. *)
TypeOK ==
  /\ nextID \in Nat
  /\ id \in [Calls -> Nat]
  /\ pc \in [Calls -> Places]
  /\ outcome \in [Calls -> Outcomes]
  /\ got \in [Calls -> Seq(Response)]
  /\ mu \in Calls \cup {Free}
  /\ gen \in Gens
  /\ cmd \in {0, gen}
  /\ DOMAIN pending \subseteq Nat
  /\ pending \in [DOMAIN pending -> Calls]
  /\ sentTo \in [Calls -> {0} \cup Gens]
  /\ frames \in [Calls -> Seq(Response)]
  /\ done \in [Calls -> BOOLEAN]
  /\ closed \in [Gens -> BOOLEAN]
  /\ victim \in {0} \cup Gens
  /\ reaped \in [Gens -> Nat]
  /\ readerAt \in [Gens -> ReaderPlaces]
  /\ target \in [Gens -> Calls \cup {None}]
  /\ closer \in {"idle", "reaping", "returned"}
  /\ closing \in {0} \cup Gens
  /\ proc \in [Gens -> {"off", "running", "exited"}]
  /\ eof \in [Gens -> BOOLEAN]
  /\ in \in [Gens -> Seq(Request)]
  /\ out \in [Gens -> Seq(Response \cup {Garbage})]
  /\ stream \in [Streams -> StreamStates]
  /\ made \in [Calls -> Nat]
  /\ faults \in Nat

-----------------------------------------------------------------------------
(* What makes the transport correct.                                        *)

SeqSet(s) == {s[k] : k \in 1..Len(s)}

(* Two requests sharing an id would have the transport hand one caller the  *)
(* other's answer (client.go takeID): no frame taken by a call, or buffered *)
(* for it, answers another call's request, whatever requests run beside it  *)
(* and however often the provider was replaced.                             *)
OwnAnswers == \A c \in Calls : \A resp \in SeqSet(got[c]) \cup SeqSet(frames[c]) : resp.to = c

(* Frames reach a call in the order the provider wrote them, none missing   *)
(* and none twice, and nothing follows the one that ends the answer; that   *)
(* is what read, deliver and the buffered channel of stdio.go preserve.     *)
(* Frames may only be missing at the end, when the caller stopped listening *)
(* or the provider died.                                                    *)
FramesInOrder ==
  \A c \in Calls :
    LET seen == got[c] \o frames[c] IN
    \A k \in 1..Len(seen) : seen[k].n = k /\ (IsLast(seen[k]) => k = Len(seen))

(* A call waiting on the running provider is registered with it, so the     *)
(* reader will find it: restarting (a new pending map) and forgetting never *)
(* take away the entry of a live call.                                      *)
WaitersAreRegistered ==
  \A c \in Calls :
    pc[c] = "waiting" /\ sentTo[c] = gen => id[c] \in DOMAIN pending /\ pending[id[c]] = c

(* Every way out of send, Call and CallStream gives back the entry: when    *)
(* nobody has a call in hand the pending map is empty.                      *)
NothingLeaks == \A i \in DOMAIN pending : pc[pending[i]] # "returned"

(* exec.Cmd.Wait may be called once: of the callers that find the provider  *)
(* gone and the one that closes it, exactly one takes the process.          *)
ReapedOnce == \A g \in Gens : reaped[g] <= 1 /\ (g \in {cmd, victim, closing} => reaped[g] = 0)

(* No provider is left running that nobody will reap: a running process is  *)
(* the one in use or one that somebody is waiting for.                      *)
NoOrphan == \A g \in Gens : proc[g] # "off" /\ reaped[g] = 0 => g \in {cmd, victim, closing}

(* A request is written to at most one provider, and never again once it    *)
(* failed: the transport does not retry behind its caller, who could not    *)
(* tell a mutation done once from one done twice.                           *)
NeverResent ==
  [][\A c \in Calls : sentTo[c] # 0 => sentTo'[c] = sentTo[c]
                      /\ \A g \in Gens : Len(in'[g]) > Len(in[g]) => in'[g][Len(in'[g])].from # c]_vars

(* The reader holds a frame for a watch whose buffer is full, and that      *)
(* watch's callback waits for the answer to a request of its own, which     *)
(* only the reader could bring.                                             *)
Jammed ==
  \E g \in Gens, d \in DOMAIN within :
    /\ readerAt[g] = "delivering" /\ target[g] = within[d]
    /\ Len(frames[within[d]]) = FrameCap
    /\ pc[within[d]] = "inFrame"
    /\ pc[d] \notin {"idle", "returned"}

(* A call that is made ends by itself: answered, told that the provider is  *)
(* gone, or given up.  One thing can keep it from that, with a provider     *)
(* that is well: a callback that asks for something behind its own watch's  *)
(* full buffer, which jams the reader for everybody (deliver, stdio.go:296).*)
(* (A watch nobody ends may go on for ever, so this is about the others.)   *)
EveryCallReturns ==
  \A c \in Calls \ Streams : pc[c] = "ready" ~> pc[c] = "returned" \/ []Jammed

Over(g) == g \in Gens /\ proc[g] = "exited"

(* A call whose provider has exited returns, if no other provider was       *)
(* started meanwhile (that case is StaleReaderWakes): the reader sees the   *)
(* end of the output and shuts the closed channel (read, stdio.go:278).     *)
DeathWakesCallers ==
  \A c \in Calls :
    pc[c] = "waiting" /\ Over(sentTo[c]) ~> pc[c] = "returned" \/ gen > sentTo[c]

KeptOpen(g) == \E w \in Streams : sentTo[w] = g /\ stream[w] \in {"spawned", "open"}

(* Close returns once the provider has answered what it was sent, unless a  *)
(* watch nobody stopped keeps it alive: closing stdin is what ServeStdio    *)
(* waits for (Close, stdio.go:329).                                         *)
CloseReturns == closer = "reaping" ~> (closer = "returned" \/ [](KeptOpen(closing)))

(* A watch that its reader abandons after a first frame is over at the      *)
(* provider too: the stop call reaches it (client.go stream: nothing else   *)
(* would stop it).                                                          *)
AbandonedWatchEnds ==
  \A w \in Streams :
    pc[w] = "returned" /\ got[w] # <<>> ~> stream[w] = "ended" \/ Over(sentTo[w])

-----------------------------------------------------------------------------
(* What comments, tests and messages of the repository say, where the code  *)
(* does otherwise.                                                          *)

(* stdio.go:127: closed is shut when the provider stops answering, which    *)
(* wakes everybody waiting.  So when a provider's reader is through, its    *)
(* closed channel is shut if a caller still waits on it.                    *)
StaleReaderWakes ==
  \A c \in Calls : pc[c] = "waiting" /\ readerAt[sentTo[c]] = "ended" => closed[sentTo[c]]

(* stdio.go:29: the requests behind a watch keep being served.  So a get    *)
(* that is being written beside an open watch returns, though every pipe    *)
(* may be full: nothing but the provider's answer is needed for that.       *)
RequestsBehindServed ==
  \A c \in Calls \ Streams :
    pc[c] = "writing" /\ (\E w \in Streams : stream[w] = "open") ~> pc[c] = "returned"

(* stdio_test.go:174: anything on stdout that is not a response is a        *)
(* provider bug, and the message has to say so.  So a call whose provider   *)
(* wrote such a line returns.                                               *)
GarbageIsReported ==
  \A c \in Calls : pc[c] = "waiting" /\ readerAt[sentTo[c]] = "shutting" ~> pc[c] = "returned"

(* server.go:116: whoctl must call handshake before anything else.  So no   *)
(* call is refused for want of a handshake after Connect succeeded.         *)
HandshakenBeforeUse ==
  \A c \in Calls : \A resp \in SeqSet(got[c]) : resp.kind # "unready"
=============================================================================
