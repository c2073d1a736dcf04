----------------------------- MODULE ServeStdio -----------------------------
(***************************************************************************)
(* The provider end of the protocol: the read loop of protocol/stdio.go    *)
(* (ServeStdio) and what it shares with the watches it starts, the         *)
(* registry and HandleStream of protocol/server.go.                        *)
(*                                                                         *)
(* Threads are numbered: 0 is the read loop, i is the goroutine serving    *)
(* the watch with id i.  A thread with a line to write is "saying" it: it  *)
(* takes the write mutex, and the line reaches the pipe in two pieces, so  *)
(* that two threads writing at once would be seen.                         *)
(*                                                                         *)
(* The far side may send any request of Methods at any time, and close the *)
(* pipe.  With Connected, it has finished Connect: the handshake is done.  *)
(***************************************************************************)
EXTENDS Integers, Sequences, FiniteSets

CONSTANTS MaxRequests, \* bound on the requests sent
          MaxEvents,   \* bound on the events of one watch
          Methods,     \* what the far side may send
          Connected,   \* the handshake was done before
          MayBreak     \* the far side may stop reading

Ids     == 1..MaxRequests
Main    == 0
Threads == {Main} \cup Ids
NoOne   == MaxRequests + 1

ASSUME ServeAssumption ==
  /\ MaxRequests \in Nat \ {0}
  /\ MaxEvents \in Nat
  /\ Methods \subseteq {"handshake", "schema", "get", "stopWatch", "watch", "junk"}
  /\ Connected \in BOOLEAN
  /\ MayBreak \in BOOLEAN

VARIABLES
  asked,     \* requests sent so far; the next one takes the next id
  method,    \* the method of each request
  names,     \* the watch a stopWatch names
  in,        \* ids of the requests in the pipe
  eof,       \* the far side closed it
  broken,    \* the far side stopped reading
  provider,  \* Server.provider is set
  watches,   \* Server.watches: the ids registered
  cancelled, \* the watches whose context is cancelled
  at,        \* where each thread is
  say,       \* the line a saying thread has to write
  events,    \* the events of each watch so far
  write,     \* who holds the write mutex
  halfway,   \* the threads in the middle of a line
  out        \* the lines written, in the order they were completed

askVars    == <<asked, method, names, eof, broken>>
serverVars == <<provider, watches, cancelled>>
lineVars   == <<write, halfway, out>>

vars == <<askVars, in, serverVars, at, say, events, lineVars>>

Line == [id : {0} \cup Ids, kind : {"result", "error", "refused", "event", "failed", "end"}]
Silence == [id |-> 0, kind |-> "none"]

IsLast(line) == line.kind # "event"

Init ==
  /\ asked = 0
  /\ method = [i \in Ids |-> "none"]
  /\ names = [i \in Ids |-> 0]
  /\ in = <<>>
  /\ eof = FALSE
  /\ broken = FALSE
  /\ provider = Connected
  /\ watches = {}
  /\ cancelled = {}
  /\ at = [t \in Threads |-> IF t = Main THEN "scanning" ELSE "none"]
  /\ say = [t \in Threads |-> Silence]
  /\ events = [i \in Ids |-> 0]
  /\ write = NoOne
  /\ halfway = {}
  /\ out = <<>>

-----------------------------------------------------------------------------
(* The far side.                                                            *)

Ask(m) ==
  /\ asked < MaxRequests
  /\ ~eof
  /\ asked' = asked + 1
  /\ method' = [method EXCEPT ![asked + 1] = m]
  /\ IF m = "stopWatch"
     THEN \E w \in Ids : method[w] = "watch" /\ names' = [names EXCEPT ![asked + 1] = w]
     ELSE UNCHANGED names
  /\ in' = Append(in, asked + 1)
  /\ UNCHANGED <<eof, broken, serverVars, at, say, events, lineVars>>

CloseInput ==
  /\ ~eof
  /\ eof' = TRUE
  /\ UNCHANGED <<asked, method, names, broken, in, serverVars, at, say, events, lineVars>>

Break ==
  /\ MayBreak
  /\ ~broken
  /\ broken' = TRUE
  /\ UNCHANGED <<asked, method, names, eof, in, serverVars, at, say, events, lineVars>>

-----------------------------------------------------------------------------
(* The read loop.                                                           *)

Says(t, i, kind) ==
  /\ at' = [at EXCEPT ![t] = "saying"]
  /\ say' = [say EXCEPT ![t] = [id |-> i, kind |-> kind]]

(* Wrong: watches are served on the loop's own goroutine. *)
ReadsInline(i) ==
  /\ at[Main] = "scanning" /\ in # <<>> /\ i = Head(in) /\ in' = Tail(in)
  /\ \A w \in Ids : at[w] \in {"none", "finished"}

Reads(i) == at[Main] = "scanning" /\ in # <<>> /\ i = Head(in) /\ in' = Tail(in)

ReadJunk(i) ==
  /\ Reads(i) /\ method[i] = "junk"
  /\ Says(Main, 0, "error")
  /\ UNCHANGED <<askVars, serverVars, events, lineVars>>

(* Welcomed; or refused, by params, a protocol or a constructor before      *)
(* anything changes, or by two handlers that clash once the provider is set. *)
ReadHandshake(i) ==
  /\ Reads(i) /\ method[i] = "handshake"
  /\ \/ Says(Main, i, "result") /\ provider' = TRUE
     \/ Says(Main, i, "error") /\ provider' \in {provider, TRUE}
  /\ UNCHANGED <<askVars, watches, cancelled, events, lineVars>>

(* schema does not ask whether there is a provider: without one the method  *)
(* call on a nil interface panics, and the process with it.                 *)
ReadSchema(i) ==
  /\ Reads(i) /\ method[i] = "schema"
  /\ IF provider THEN Says(Main, i, "result")
                 ELSE at' = [at EXCEPT ![Main] = "panicked"] /\ UNCHANGED say
  /\ UNCHANGED <<askVars, serverVars, events, lineVars>>

ReadBeforeHandshake(i) ==
  /\ Reads(i) /\ method[i] \in {"get", "stopWatch"}
  /\ ~provider
  /\ Says(Main, i, "error")
  /\ UNCHANGED <<askVars, serverVars, events, lineVars>>

(* Any verb that names a kind: it works or it fails. *)
ReadVerb(i) ==
  /\ Reads(i) /\ method[i] = "get"
  /\ provider
  /\ \E kind \in {"result", "error"} : Says(Main, i, kind)
  /\ UNCHANGED <<askVars, serverVars, events, lineVars>>

(* Wrong: stopWatch takes the watch out of the registry and cancels nothing. *)
ReadStopForgets(i) ==
  /\ Reads(i) /\ method[i] = "stopWatch"
  /\ provider
  /\ watches' = watches \ {names[i]}
  /\ Says(Main, i, "result")
  /\ UNCHANGED <<askVars, provider, cancelled, events, lineVars>>

ReadStop(i) ==
  /\ Reads(i) /\ method[i] = "stopWatch"
  /\ provider
  /\ watches' = watches \ {names[i]}
  /\ cancelled' = IF names[i] \in watches THEN cancelled \cup {names[i]} ELSE cancelled
  /\ Says(Main, i, "result")
  /\ UNCHANGED <<askVars, provider, events, lineVars>>

(* A stream gets a goroutine of its own and the loop goes on reading. *)
SpawnWatch(i) ==
  /\ Reads(i) /\ method[i] = "watch"
  /\ at' = [at EXCEPT ![i] = "spawned"]
  /\ UNCHANGED <<askVars, serverVars, say, events, lineVars>>

ReachEOF ==
  /\ at[Main] = "scanning"
  /\ in = <<>> /\ eof
  /\ at' = [at EXCEPT ![Main] = "draining"]
  /\ UNCHANGED <<askVars, in, serverVars, say, events, lineVars>>

(* Wrong: nobody waits for the streams. *)
ReturnAtOnce ==
  /\ at[Main] = "draining"
  /\ at' = [at EXCEPT ![Main] = "returned"]
  /\ UNCHANGED <<askVars, in, serverVars, say, events, lineVars>>

(* The deferred streams.Wait. *)
Return ==
  /\ at[Main] = "draining"
  /\ \A i \in Ids : at[i] \in {"none", "finished"}
  /\ at' = [at EXCEPT ![Main] = "returned"]
  /\ UNCHANGED <<askVars, in, serverVars, say, events, lineVars>>

-----------------------------------------------------------------------------
(* A watch's goroutine: HandleStream.  It runs unless the process is gone.  *)

Runs(i, place) == at[i] = place /\ at[Main] \notin {"panicked", "returned"}

(* No handshake, no such kind, a kind that is not watched. *)
RefuseWatch(i) ==
  /\ Runs(i, "spawned")
  /\ Says(i, i, "refused")
  /\ UNCHANGED <<askVars, in, serverVars, events, lineVars>>

(* Wrong: the watch is registered under no id. *)
StartWatchUnnamed(i) ==
  /\ Runs(i, "spawned")
  /\ provider
  /\ watches' = watches \cup {0}
  /\ at' = [at EXCEPT ![i] = "watching"]
  /\ UNCHANGED <<askVars, in, provider, cancelled, say, events, lineVars>>

StartWatch(i) ==
  /\ Runs(i, "spawned")
  /\ provider
  /\ watches' = watches \cup {i}
  /\ at' = [at EXCEPT ![i] = "watching"]
  /\ UNCHANGED <<askVars, in, provider, cancelled, say, events, lineVars>>

Event(i) ==
  /\ Runs(i, "watching")
  /\ events[i] < MaxEvents
  /\ events' = [events EXCEPT ![i] = @ + 1]
  /\ Says(i, i, "event")
  /\ UNCHANGED <<askVars, in, serverVars, lineVars>>

(* Watch returns, with or without an error; an error of a cancelled watch   *)
(* is not one.                                                              *)
WatchReturns(i) ==
  /\ Runs(i, "watching")
  /\ \/ Says(i, i, "end")
     \/ i \notin cancelled /\ Says(i, i, "failed")
  /\ UNCHANGED <<askVars, in, serverVars, events, lineVars>>

(* Wrong: the registry keeps the watch. *)
FinishWatchKept(i) ==
  /\ Runs(i, "closing")
  /\ cancelled' = cancelled \cup {i}
  /\ at' = [at EXCEPT ![i] = "finished"]
  /\ UNCHANGED <<askVars, in, provider, watches, say, events, lineVars>>

(* The deferred stopWatch and cancel. *)
FinishWatch(i) ==
  /\ Runs(i, "closing")
  /\ watches' = watches \ {i}
  /\ cancelled' = cancelled \cup {i}
  /\ at' = [at EXCEPT ![i] = "finished"]
  /\ UNCHANGED <<askVars, in, provider, say, events, lineVars>>

-----------------------------------------------------------------------------
(* emit: one line at a time, under the write mutex.                         *)

(* Wrong: a watch carries on after the frame that says it failed. *)
AfterLineOn(t, line) ==
  IF t = Main THEN "scanning"
  ELSE CASE line.kind \in {"event", "failed"} -> "watching"
         [] line.kind = "end"                -> "closing"
         [] OTHER                            -> "finished"

(* Where a thread goes once its line is written, or cannot be. *)
AfterLine(t, line) ==
  IF t = Main THEN "scanning"
  ELSE CASE line.kind = "event"           -> "watching"
         [] line.kind \in {"failed", "end"} -> "closing"
         [] OTHER                          -> "finished"

(* Wrong: emit without the write mutex. *)
BeginLineUnlocked(t) ==
  /\ Runs(t, "saying")
  /\ t \notin halfway
  /\ ~broken
  /\ write' = t
  /\ halfway' = halfway \cup {t}
  /\ UNCHANGED <<askVars, in, serverVars, at, say, events, out>>

BeginLine(t) ==
  /\ Runs(t, "saying")
  /\ t \notin halfway
  /\ write = NoOne
  /\ ~broken
  /\ write' = t
  /\ halfway' = halfway \cup {t}
  /\ UNCHANGED <<askVars, in, serverVars, at, say, events, out>>

FinishLine(t) ==
  /\ Runs(t, "saying")
  /\ t \in halfway
  /\ ~broken
  /\ write' = NoOne
  /\ halfway' = halfway \ {t}
  /\ out' = Append(out, say[t])
  /\ at' = [at EXCEPT ![t] = AfterLine(t, say[t])]
  /\ say' = [say EXCEPT ![t] = Silence]
  /\ UNCHANGED <<askVars, in, serverVars, events>>

(* The pipe is gone.  The loop stops reading; a watch is told through its   *)
(* callback and may carry on.                                               *)
LineFails(t) ==
  /\ Runs(t, "saying")
  /\ broken
  /\ write \in {t, NoOne}
  /\ write' = NoOne
  /\ halfway' = halfway \ {t}
  /\ at' = [at EXCEPT ![t] = IF t = Main THEN "draining" ELSE AfterLine(t, say[t])]
  /\ say' = [say EXCEPT ![t] = Silence]
  /\ UNCHANGED <<askVars, in, serverVars, events, out>>

-----------------------------------------------------------------------------
Read(i) == \/ ReadJunk(i) \/ ReadHandshake(i) \/ ReadSchema(i) \/ ReadBeforeHandshake(i)
           \/ ReadVerb(i) \/ ReadStop(i) \/ SpawnWatch(i)

Loop == (\E i \in Ids : Read(i)) \/ ReachEOF \/ Return

Open(i) == RefuseWatch(i) \/ StartWatch(i)

Emit(t) == BeginLine(t) \/ FinishLine(t) \/ LineFails(t)

Watch(i) == Open(i) \/ Event(i) \/ WatchReturns(i) \/ FinishWatch(i)

FarSide == (\E m \in Methods : Ask(m)) \/ CloseInput \/ Break

Terminated == at[Main] \in {"returned", "panicked"} /\ UNCHANGED vars

Next ==
  \/ FarSide
  \/ Loop
  \/ \E i \in Ids : Watch(i)
  \/ \E t \in Threads : Emit(t)
  \/ Terminated

Spec == Init /\ [][Next]_vars

(* The goroutines run.  A watch must return only once it is cancelled, as   *)
(* core.Watcher asks; nothing makes the far side send or close anything.    *)
Fairness ==
  /\ WF_vars(Loop)
  /\ \A t \in Threads : WF_vars(Emit(t))
  /\ \A i \in Ids : /\ WF_vars(Open(i))
                    /\ WF_vars(i \in cancelled /\ WatchReturns(i))
                    /\ WF_vars(FinishWatch(i))

FairSpec == Spec /\ Fairness

-----------------------------------------------------------------------------
(* Type correctness of every variable. *)
TypeOK ==
  /\ asked \in 0..MaxRequests
  /\ method \in [Ids -> Methods \cup {"none"}]
  /\ names \in [Ids -> {0} \cup Ids]
  /\ in \in Seq(Ids)
  /\ eof \in BOOLEAN
  /\ broken \in BOOLEAN
  /\ provider \in BOOLEAN
  /\ watches \subseteq Ids
  /\ cancelled \subseteq Ids
  /\ at \in [Threads -> {"none", "scanning", "spawned", "watching", "saying", "closing",
                         "finished", "draining", "returned", "panicked"}]
  /\ say \in [Threads -> Line \cup {Silence}]
  /\ events \in [Ids -> Nat]
  /\ write \in Threads \cup {NoOne}
  /\ halfway \subseteq Threads
  /\ out \in Seq(Line)

Written == {out[k] : k \in 1..Len(out)}

(* The encoder is serialized because those goroutines share one pipe        *)
(* (stdio.go:30): no two threads are ever in the middle of a line, and no   *)
(* thread is in the middle of one after ServeStdio returned.                *)
LinesAreWhole == Cardinality(halfway) <= IF at[Main] = "returned" THEN 0 ELSE 1

(* The frame that ends a stream carries Stream false, with or without an    *)
(* error (protocol.go:66), and a unary request has exactly one answer:      *)
(* nothing is written under an id after its last frame.                     *)
OneLastFrame ==
  \A k, l \in 1..Len(out) : k < l /\ out[k].id = out[l].id /\ out[k].id # 0 => ~IsLast(out[k])

(* A running watch can be stopped: it is in the registry, or its context is *)
(* cancelled already; and the registry keeps no watch that has finished, so *)
(* it does not grow with every watch ever opened.                           *)
RegistryIsExact ==
  \A i \in Ids :
    /\ at[i] = "watching" => i \in watches \cup cancelled
    /\ i \in watches => at[i] \in {"watching", "saying", "closing"}

Answered(i) == \E line \in Written : line.id = i /\ IsLast(line)

(* Every stream still running when the pipe closes is waited for            *)
(* (stdio.go:44), so ServeStdio returns with nothing left to say: if the    *)
(* far side reads on, every request it sent has its last frame by then,     *)
(* those still in the pipe when it closed it and every watch included.      *)
NothingLeftUnsaid ==
  at[Main] = "returned" /\ ~broken => \A i \in 1..asked : method[i] # "junk" => Answered(i)

(* The far side no longer reads, or the provider crashed.                   *)
Down == broken \/ at[Main] = "panicked"

(* The requests behind a watch keep being served (stdio.go:29): every       *)
(* request that is read in is answered, whatever the watches are doing.     *)
RequestsAreAnswered ==
  \A i \in Ids :
    method[i] \notin {"none", "watch", "junk"} ~> Answered(i) \/ Down

StopAnswered(i) ==
  \E j \in Ids : method[j] = "stopWatch" /\ names[j] = i /\ [id |-> j, kind |-> "result"] \in Written

(* A watch told to stop after its first frame was written ends: the stop    *)
(* still to be read will find it registered, or over.                       *)
StopAfterFrameEndsWatch ==
  \A i, j \in Ids :
    /\ method[j] = "stopWatch" /\ names[j] = i /\ \E k \in 1..Len(in) : in[k] = j
    /\ \E line \in Written : line.id = i
    ~> at[i] = "finished" \/ Down

(* At EOF ServeStdio returns, unless a watch nobody stopped stays open for  *)
(* ever.                                                                    *)
ReturnsUnlessWatched == at[Main] = "draining" ~> (at[Main] = "returned" \/ [](watches # {}))

-----------------------------------------------------------------------------
(* What a test of the repository says, where the code does otherwise.       *)

(* stdio_test.go:278: a watch really ends on the provider's side when it is *)
(* told to.  So a watch whose stop was answered ends.                       *)
StopReachesTheWatch == \A i \in Ids : StopAnswered(i) ~> at[i] = "finished"
=============================================================================
