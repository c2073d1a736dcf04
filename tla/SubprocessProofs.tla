--------------------------- MODULE SubprocessProofs ---------------------------
(***************************************************************************)
(* Proofs about Subprocess, for any number of calls, watches, processes,   *)
(* frames and faults: type correctness; OwnAnswers, that no call is ever   *)
(* handed the answer to another; and what a Subprocess holds on to, its    *)
(* mutex, its processes and its pending map: every process is reaped once  *)
(* and none is left running that nobody will reap, every call that waits   *)
(* on the running provider is registered, and none that has returned is.   *)
(*                                                                         *)
(* ReaderHolds adds to TypeOK what the reader knows of the line it holds.  *)
(* OwnInv is the strengthening OwnAnswers needs: ids are distinct, and     *)
(* every id on its way through the pipes, the pending map and the reader's *)
(* hand is the id of the call the line belongs to.                         *)
(*                                                                         *)
(* The rest of the argument is about mu.  A caller keeps it from the       *)
(* request it registers to the end of the write, and while it waits for a  *)
(* process to exit (LockInv), so the process s.cmd names, the one a caller *)
(* waits for and the one Close waits for are three different ones          *)
(* (ProcInv).                                                              *)
(*                                                                         *)
(* FrameInv follows the frames of a call from the provider to its caller:  *)
(* a request is read once, its frames are numbered as they are made, lie   *)
(* in one pipe in that order, and while the reader can still find the      *)
(* caller none between the last it was given and the last one made is      *)
(* missing, unless the process has exited and the end of its output with   *)
(* it.  With it, a Subprocess keeps the contract of a Transport.           *)
(***************************************************************************)
EXTENDS SubprocessContract, TLAPS

(* Queues and counters kept in a function. *)
LEMMA QueueAppend ==
  ASSUME NEW I, NEW S, NEW q \in [I -> Seq(S)], NEW i \in I, NEW e \in S
  PROVE  [q EXCEPT ![i] = Append(@, e)] \in [I -> Seq(S)]
  OBVIOUS

(* A family of queues, one of them without its first element. *)
LEMMA QueueTail ==
  ASSUME NEW I, NEW S, NEW q \in [I -> Seq(S)], NEW i \in I, q[i] # <<>>
  PROVE  [q EXCEPT ![i] = Tail(@)] \in [I -> Seq(S)]
  OBVIOUS

(* A family of queues, one of them cut short. *)
LEMMA QueuePrefix ==
  ASSUME NEW I, NEW S, NEW q \in [I -> Seq(S)], NEW i \in I, NEW k \in 0..Len(q[i])
  PROVE  [q EXCEPT ![i] = SubSeq(q[i], 1, k)] \in [I -> Seq(S)]
  OBVIOUS

(* A family of counters, one of them one more. *)
LEMMA Counted ==
  ASSUME NEW I, NEW f \in [I -> Nat], NEW i
  PROVE  [f EXCEPT ![i] = @ + 1] \in [I -> Nat]
<1>1. CASE i \in I
  BY <1>1
<1>2. CASE i \notin I
  <2>1. [f EXCEPT ![i] = @ + 1] = f
    BY <1>2
  <2>. QED
    BY <2>1
<1>. QED
  BY <1>1, <1>2

(* The reader's line is still at the head of the pipe: it is a response,    *)
(* and a call is to be handed it.                                           *)
ReaderHolds ==
  \A g \in Gens : readerAt[g] = "delivering" =>
    /\ out[g] # <<>>
    /\ Head(out[g]) \in Response
    /\ target[g] \in Calls

(* No step breaks a type. *)
LEMMA TypeStep ==
  ASSUME TypeOK, ReaderHolds, [Next]_vars
  PROVE  TypeOK'
<1>1. ASSUME NEW c \in Calls, TakeID(c) PROVE TypeOK'
  <2>1. nextID' \in Nat
    BY <1>1 DEF TypeOK, TakeID
  <2>2. id' \in [Calls -> Nat]
    BY <1>1 DEF TypeOK, TakeID
  <2>3. pc' \in [Calls -> Places]
    BY <1>1 DEF TypeOK, TakeID, Goto, Places
  <2>. QED
    BY <1>1, <2>1, <2>2, <2>3
    DEF TypeOK, TakeID, clientVars, callVars, transportVars, readerVars, closeVars, pipeVars, providerVars
<1>2. ASSUME NEW c \in Calls, SendToRunning(c) PROVE TypeOK'
  <2>1. pc' \in [Calls -> Places]
    BY <1>2 DEF TypeOK, SendToRunning, Goto, Places
  <2>2. mu' \in Calls \cup {Free}
    BY <1>2 DEF TypeOK, SendToRunning
  <2>3. DOMAIN pending' \subseteq Nat /\ pending' \in [DOMAIN pending' -> Calls]
    BY <1>2 DEF TypeOK, SendToRunning, Registered
  <2>. QED
    BY <1>2, <2>1, <2>2, <2>3
    DEF TypeOK, SendToRunning, clientVars, callVars, transportVars, readerVars, closeVars, pipeVars, providerVars
<1>3. ASSUME NEW c \in Calls, SendStarting(c) PROVE TypeOK'
  <2>1. pc' \in [Calls -> Places]
    BY <1>3 DEF TypeOK, SendStarting, Goto, Places
  <2>2. mu' \in Calls \cup {Free}
    BY <1>3 DEF TypeOK, SendStarting
  <2>3. cmd' \in {0, gen'}
    BY <1>3 DEF TypeOK, SendStarting
  <2>4. gen' \in Gens
    <3>1. gen \in Gens /\ gen < MaxGen /\ gen' = gen + 1
      BY <1>3 DEF TypeOK, SendStarting
    <3>. QED
      BY <3>1, BoundsAssumption DEF Gens
  <2>5. DOMAIN pending' \subseteq Nat /\ pending' \in [DOMAIN pending' -> Calls]
    BY <1>3 DEF TypeOK, SendStarting
  <2>6. readerAt' \in [Gens -> ReaderPlaces]
    BY <1>3 DEF TypeOK, SendStarting, ReaderPlaces
  <2>7. proc' \in [Gens -> {"off", "running", "exited"}]
    BY <1>3 DEF TypeOK, SendStarting
  <2>. QED
    BY <1>3, <2>1, <2>2, <2>3, <2>4, <2>5, <2>6, <2>7
    DEF TypeOK, SendStarting, clientVars, callVars, transportVars, readerVars, closeVars, pipeVars, providerVars
<1>4. ASSUME NEW c \in Calls, StartFails(c) PROVE TypeOK'
  <2>1. pc' \in [Calls -> Places]
    BY <1>4 DEF TypeOK, StartFails, Goto, Places
  <2>2. outcome' \in [Calls -> Outcomes]
    BY <1>4 DEF TypeOK, StartFails, Outcomes
  <2>3. faults' \in Nat
    BY <1>4 DEF TypeOK, StartFails
  <2>. QED
    BY <1>4, <2>1, <2>2, <2>3
    DEF TypeOK, StartFails, clientVars, callVars, transportVars, readerVars, closeVars, pipeVars, providerVars
<1>5. ASSUME NEW c \in Calls, Write(c) PROVE TypeOK'
  <2>1. pc' \in [Calls -> Places]
    BY <1>5 DEF TypeOK, Write, Goto, Places
  <2>2. mu' \in Calls \cup {Free}
    BY <1>5 DEF TypeOK, Write
  <2>3. sentTo' \in [Calls -> {0} \cup Gens]
    BY <1>5 DEF TypeOK, Write
  <2>4. in' \in [Gens -> Seq(Request)]
    <3>1. [id |-> id[c], from |-> c] \in Request
      BY DEF TypeOK, Request
    <3>2. PICK g : g = cmd
      OBVIOUS
    <3>3. in' = [in EXCEPT ![g] = Append(@, [id |-> id[c], from |-> c])] /\ in \in [Gens -> Seq(Request)]
      BY <1>5, <3>2 DEF TypeOK, Write
    <3>5. CASE g \in Gens
      BY <3>1, <3>3, <3>5, QueueAppend
    <3>6. CASE g \notin Gens
      BY <3>1, <3>3, <3>6
    <3>. QED
      BY <3>5, <3>6
  <2>. QED
    BY <1>5, <2>1, <2>2, <2>3, <2>4
    DEF TypeOK, Write, clientVars, callVars, transportVars, readerVars, closeVars, pipeVars, providerVars
<1>6. ASSUME NEW c \in Calls, WriteFails(c) PROVE TypeOK'
  <2>1. pc' \in [Calls -> Places]
    BY <1>6 DEF TypeOK, WriteFails, Goto, Places
  <2>2. cmd' \in {0, gen'}
    BY <1>6 DEF TypeOK, WriteFails
  <2>3. DOMAIN pending' \subseteq Nat /\ pending' \in [DOMAIN pending' -> Calls]
    BY <1>6 DEF TypeOK, WriteFails, Unregistered
  <2>4. victim' \in {0} \cup Gens
    BY <1>6 DEF TypeOK, WriteFails
  <2>. QED
    BY <1>6, <2>1, <2>2, <2>3, <2>4
    DEF TypeOK, WriteFails, clientVars, callVars, transportVars, readerVars, closeVars, pipeVars, providerVars
<1>7. ASSUME NEW c \in Calls, Receive(c) PROVE TypeOK'
  <2>1. pc' \in [Calls -> Places]
    <3>1. \E p \in Places : pc' = [pc EXCEPT ![c] = p]
      BY <1>7 DEF Receive, Goto, Finish, Places
    <3>. QED
      BY <3>1 DEF TypeOK
  <2>2. outcome' \in [Calls -> Outcomes]
    BY <1>7 DEF TypeOK, Receive, Finish, Outcomes
  <2>3. got' \in [Calls -> Seq(Response)]
    BY <1>7 DEF TypeOK, Receive
  <2>4. frames' \in [Calls -> Seq(Response)]
    BY <1>7 DEF TypeOK, Receive
  <2>. QED
    BY <1>7, <2>1, <2>2, <2>3, <2>4
    DEF TypeOK, Receive, clientVars, callVars, transportVars, readerVars, closeVars, pipeVars, providerVars
<1>8. ASSUME NEW c \in Calls, OnFrameReturns(c) PROVE TypeOK'
  <2>1. pc' \in [Calls -> Places]
    <3>1. \E place \in {"waiting", "forgetting"} : pc' = [pc EXCEPT ![c] = place]
      BY <1>8 DEF OnFrameReturns, Goto, Finish
    <3>. QED
      BY <3>1 DEF TypeOK, Places
  <2>2. outcome' \in [Calls -> Outcomes]
    BY <1>8 DEF TypeOK, OnFrameReturns, Finish, Outcomes
  <2>. QED
    BY <1>8, <2>1, <2>2
    DEF TypeOK, OnFrameReturns, clientVars, callVars, transportVars, readerVars, closeVars, pipeVars, providerVars
<1>9. ASSUME NEW c \in Calls, SeeClosed(c) PROVE TypeOK'
  <2>1. pc' \in [Calls -> Places]
    BY <1>9 DEF TypeOK, SeeClosed, Goto, Places
  <2>. QED
    BY <1>9, <2>1
    DEF TypeOK, SeeClosed, clientVars, callVars, transportVars, readerVars, closeVars, pipeVars, providerVars
<1>10. ASSUME NEW c \in Calls, GiveUp(c) PROVE TypeOK'
  <2>1. pc' \in [Calls -> Places]
    BY <1>10 DEF TypeOK, GiveUp, Finish, Goto, Places
  <2>2. outcome' \in [Calls -> Outcomes]
    BY <1>10 DEF TypeOK, GiveUp, Finish, Outcomes
  <2>. QED
    BY <1>10, <2>1, <2>2
    DEF TypeOK, GiveUp, clientVars, callVars, transportVars, readerVars, closeVars, pipeVars, providerVars
<1>11. ASSUME NEW c \in Calls, DeathNothingToReap(c) PROVE TypeOK'
  <2>1. pc' \in [Calls -> Places]
    BY <1>11 DEF TypeOK, DeathNothingToReap, Finish, Goto, Places
  <2>2. outcome' \in [Calls -> Outcomes]
    BY <1>11 DEF TypeOK, DeathNothingToReap, Finish, Outcomes
  <2>. QED
    BY <1>11, <2>1, <2>2
    DEF TypeOK, DeathNothingToReap, clientVars, callVars, transportVars, readerVars, closeVars, pipeVars, providerVars
<1>12. ASSUME NEW c \in Calls, DeathReaps(c) PROVE TypeOK'
  <2>1. pc' \in [Calls -> Places]
    BY <1>12 DEF TypeOK, DeathReaps, Goto, Places
  <2>2. mu' \in Calls \cup {Free}
    BY <1>12 DEF TypeOK, DeathReaps
  <2>3. cmd' \in {0, gen'}
    BY <1>12 DEF TypeOK, DeathReaps
  <2>4. victim' \in {0} \cup Gens
    BY <1>12 DEF TypeOK, DeathReaps
  <2>. QED
    BY <1>12, <2>1, <2>2, <2>3, <2>4
    DEF TypeOK, DeathReaps, clientVars, callVars, transportVars, readerVars, closeVars, pipeVars, providerVars
<1>13. ASSUME NEW c \in Calls, Reap(c) PROVE TypeOK'
  <2>1. pc' \in [Calls -> Places]
    BY <1>13 DEF TypeOK, Reap, Goto, Places
  <2>2. outcome' \in [Calls -> Outcomes]
    BY <1>13 DEF TypeOK, Reap, Outcomes
  <2>3. mu' \in Calls \cup {Free}
    BY <1>13 DEF TypeOK, Reap
  <2>4. victim' \in {0} \cup Gens
    BY <1>13 DEF TypeOK, Reap
  <2>5. reaped' \in [Gens -> Nat]
    <3>1. reaped' = [reaped EXCEPT ![victim] = @ + 1] /\ reaped \in [Gens -> Nat]
      BY <1>13 DEF TypeOK, Reap
    <3>. QED
      BY <3>1, Counted
  <2>6. out' \in [Gens -> Seq(Response \cup {Garbage})]
    <3>1. PICK k \in (IF readerAt[victim] = "delivering" THEN 1 ELSE 0)..Len(out[victim]) :
            out' = [out EXCEPT ![victim] = SubSeq(out[victim], 1, k)]
      BY <1>13 DEF Reap, ReapedOutput
    <3>2. out \in [Gens -> Seq(Response \cup {Garbage})]
      BY DEF TypeOK
    <3>3. CASE victim \in Gens
      <4>1. k \in 0..Len(out[victim])
        BY <3>1, <3>2, <3>3
      <4>. QED
        BY <3>1, <3>2, <3>3, <4>1, QueuePrefix
    <3>4. CASE victim \notin Gens
      BY <3>1, <3>2, <3>4
    <3>. QED
      BY <3>3, <3>4
  <2>. QED
    BY <1>13, <2>1, <2>2, <2>3, <2>4, <2>5, <2>6
    DEF TypeOK, Reap, clientVars, callVars, transportVars, readerVars, closeVars, pipeVars, providerVars
<1>14. ASSUME NEW c \in Calls, Forget(c) PROVE TypeOK'
  <2>1. pc' \in [Calls -> Places]
    BY <1>14 DEF TypeOK, Forget, Goto, Places
  <2>2. DOMAIN pending' \subseteq Nat /\ pending' \in [DOMAIN pending' -> Calls]
    BY <1>14 DEF TypeOK, Forget, Unregistered
  <2>3. done' \in [Calls -> BOOLEAN]
    BY <1>14 DEF TypeOK, Forget
  <2>. QED
    BY <1>14, <2>1, <2>2, <2>3
    DEF TypeOK, Forget, clientVars, callVars, transportVars, readerVars, closeVars, pipeVars, providerVars
<1>15. ASSUME NEW g \in Gens, Lookup(g) PROVE TypeOK'
  <2>1. readerAt' \in [Gens -> ReaderPlaces]
    BY <1>15 DEF TypeOK, Lookup, ReaderPlaces
  <2>2. target' \in [Gens -> Calls \cup {None}]
    BY <1>15 DEF TypeOK, Lookup
  <2>. QED
    BY <1>15, <2>1, <2>2
    DEF TypeOK, Lookup, clientVars, callVars, transportVars, readerVars, closeVars, pipeVars, providerVars
<1>16. ASSUME NEW g \in Gens, DropUnclaimed(g) PROVE TypeOK'
  <2>1. out' \in [Gens -> Seq(Response \cup {Garbage})]
    BY <1>16 DEF TypeOK, DropUnclaimed
  <2>. QED
    BY <1>16, <2>1
    DEF TypeOK, DropUnclaimed, clientVars, callVars, transportVars, readerVars, closeVars, pipeVars, providerVars
<1>17. ASSUME NEW g \in Gens, HandOver(g) PROVE TypeOK'
  <2>1. frames' \in [Calls -> Seq(Response)]
    <3>1. /\ frames' = [frames EXCEPT ![target[g]] = Append(@, Head(out[g]))]
          /\ Head(out[g]) \in Response /\ target[g] \in Calls
      BY <1>17 DEF HandOver, ReaderHolds
    <3>2. frames \in [Calls -> Seq(Response)]
      BY DEF TypeOK
    <3>. QED
      BY <3>1, <3>2, QueueAppend
  <2>2. readerAt' \in [Gens -> ReaderPlaces]
    BY <1>17 DEF TypeOK, HandOver, ReaderPlaces
  <2>3. target' \in [Gens -> Calls \cup {None}]
    BY <1>17 DEF TypeOK, HandOver
  <2>4. out' \in [Gens -> Seq(Response \cup {Garbage})]
    <3>1. out' = [out EXCEPT ![g] = Tail(@)] /\ out[g] # <<>>
      BY <1>17 DEF HandOver, ReaderHolds
    <3>2. out \in [Gens -> Seq(Response \cup {Garbage})]
      BY DEF TypeOK
    <3>. QED
      BY <3>1, <3>2, QueueTail
  <2>. QED
    BY <1>17, <2>1, <2>2, <2>3, <2>4
    DEF TypeOK, HandOver, clientVars, callVars, transportVars, readerVars, closeVars, pipeVars, providerVars
<1>18. ASSUME NEW g \in Gens, SkipForgotten(g) PROVE TypeOK'
  <2>1. readerAt' \in [Gens -> ReaderPlaces]
    BY <1>18 DEF TypeOK, SkipForgotten, ReaderPlaces
  <2>2. target' \in [Gens -> Calls \cup {None}]
    BY <1>18 DEF TypeOK, SkipForgotten
  <2>3. out' \in [Gens -> Seq(Response \cup {Garbage})]
    <3>1. out' = [out EXCEPT ![g] = Tail(@)] /\ out[g] # <<>>
      BY <1>18 DEF SkipForgotten, ReaderHolds
    <3>2. out \in [Gens -> Seq(Response \cup {Garbage})]
      BY DEF TypeOK
    <3>. QED
      BY <3>1, <3>2, QueueTail
  <2>. QED
    BY <1>18, <2>1, <2>2, <2>3
    DEF TypeOK, SkipForgotten, clientVars, callVars, transportVars, readerVars, closeVars, pipeVars, providerVars
<1>19. ASSUME NEW g \in Gens, StopScanning(g) PROVE TypeOK'
  <2>1. readerAt' \in [Gens -> ReaderPlaces]
    BY <1>19 DEF TypeOK, StopScanning, ReaderPlaces
  <2>. QED
    BY <1>19, <2>1
    DEF TypeOK, StopScanning, clientVars, callVars, transportVars, readerVars, closeVars, pipeVars, providerVars
<1>20. ASSUME NEW g \in Gens, Shut(g) PROVE TypeOK'
  <2>1. closed' \in [Gens -> BOOLEAN]
    BY <1>20 DEF TypeOK, Shut
  <2>2. readerAt' \in [Gens -> ReaderPlaces]
    BY <1>20 DEF TypeOK, Shut, ReaderPlaces
  <2>. QED
    BY <1>20, <2>1, <2>2
    DEF TypeOK, Shut, clientVars, callVars, transportVars, readerVars, closeVars, pipeVars, providerVars
<1>21. ASSUME NEW g \in Gens, Answer(g) PROVE TypeOK'
  <2>1. in' \in [Gens -> Seq(Request)]
    <3>1. in' = [in EXCEPT ![g] = Tail(@)] /\ in[g] # <<>> /\ in \in [Gens -> Seq(Request)]
      BY <1>21 DEF TypeOK, CanRead, Answer
    <3>. QED
      BY <3>1, QueueTail
  <2>2. out' \in [Gens -> Seq(Response \cup {Garbage})]
    <3>1. Head(in[g]) \in Request
      BY <1>21 DEF TypeOK, Answer, CanRead
    <3>2. Frame("result", Head(in[g]).id, Head(in[g]).from) \in Response
      <4>1. Head(in[g]).id \in Nat /\ Head(in[g]).from \in Calls
        BY <3>1 DEF Request
      <4>2. made[Head(in[g]).from] + 1 \in Nat
        BY <4>1, SMTT(30) DEF TypeOK
      <4>. QED
        BY <4>1, <4>2 DEF Frame, Response, FinalKind
    <3>3. out' = [out EXCEPT ![g] = Append(@, Frame("result", Head(in[g]).id, Head(in[g]).from))]
      BY <1>21 DEF Answer, Put
    <3>4. out \in [Gens -> Seq(Response \cup {Garbage})]
      BY DEF TypeOK
    <3>. QED
      BY <3>2, <3>3, <3>4, QueueAppend
  <2>3. stream' \in [Streams -> StreamStates]
    BY <1>21 DEF TypeOK, Answer, Put, StreamStates
  <2>4. made' \in [Calls -> Nat]
    <3>1. made' = [made EXCEPT ![Head(in[g]).from] = @ + 1] /\ made \in [Calls -> Nat]
      BY <1>21 DEF TypeOK, Answer, Put
    <3>. QED
      BY <3>1, Counted
  <2>. QED
    BY <1>21, <2>1, <2>2, <2>3, <2>4
    DEF TypeOK, Answer, clientVars, callVars, transportVars, readerVars, closeVars, pipeVars, providerVars
<1>22. ASSUME NEW g \in Gens, OpenWatch(g) PROVE TypeOK'
  <2>1. in' \in [Gens -> Seq(Request)]
    <3>1. in' = [in EXCEPT ![g] = Tail(@)] /\ in[g] # <<>> /\ in \in [Gens -> Seq(Request)]
      BY <1>22 DEF TypeOK, CanRead, OpenWatch
    <3>. QED
      BY <3>1, QueueTail
  <2>2. stream' \in [Streams -> StreamStates]
    BY <1>22 DEF TypeOK, OpenWatch, StreamStates
  <2>. QED
    BY <1>22, <2>1, <2>2
    DEF TypeOK, OpenWatch, clientVars, callVars, transportVars, readerVars, closeVars, pipeVars, providerVars
<1>23. ASSUME NEW g \in Gens, RefuseUnready(g) PROVE TypeOK'
  <2>1. in' \in [Gens -> Seq(Request)]
    <3>1. in' = [in EXCEPT ![g] = Tail(@)] /\ in[g] # <<>> /\ in \in [Gens -> Seq(Request)]
      BY <1>23 DEF TypeOK, CanRead, RefuseUnready
    <3>. QED
      BY <3>1, QueueTail
  <2>2. out' \in [Gens -> Seq(Response \cup {Garbage})]
    <3>1. Head(in[g]) \in Request
      BY <1>23 DEF TypeOK, RefuseUnready, CanRead
    <3>2. Frame("unready", Head(in[g]).id, Head(in[g]).from) \in Response
      <4>1. Head(in[g]).id \in Nat /\ Head(in[g]).from \in Calls
        BY <3>1 DEF Request
      <4>2. made[Head(in[g]).from] + 1 \in Nat
        BY <4>1, SMTT(30) DEF TypeOK
      <4>. QED
        BY <4>1, <4>2 DEF Frame, Response, FinalKind
    <3>3. out' = [out EXCEPT ![g] = Append(@, Frame("unready", Head(in[g]).id, Head(in[g]).from))]
      BY <1>23 DEF RefuseUnready, Put
    <3>4. out \in [Gens -> Seq(Response \cup {Garbage})]
      BY DEF TypeOK
    <3>. QED
      BY <3>2, <3>3, <3>4, QueueAppend
  <2>3. made' \in [Calls -> Nat]
    <3>1. made' = [made EXCEPT ![Head(in[g]).from] = @ + 1] /\ made \in [Calls -> Nat]
      BY <1>23 DEF TypeOK, RefuseUnready, Put
    <3>. QED
      BY <3>1, Counted
  <2>. QED
    BY <1>23, <2>1, <2>2, <2>3
    DEF TypeOK, RefuseUnready, clientVars, callVars, transportVars, readerVars, closeVars, pipeVars, providerVars
<1>24. ASSUME NEW g \in Gens, ExitAtEOF(g) PROVE TypeOK'
  <2>1. proc' \in [Gens -> {"off", "running", "exited"}]
    BY <1>24 DEF TypeOK, ExitAtEOF
  <2>. QED
    BY <1>24, <2>1
    DEF TypeOK, ExitAtEOF, clientVars, callVars, transportVars, readerVars, closeVars, pipeVars, providerVars
<1>25. ASSUME NEW g \in Gens, Crash(g) PROVE TypeOK'
  <2>1. proc' \in [Gens -> {"off", "running", "exited"}]
    BY <1>25 DEF TypeOK, Crash
  <2>2. faults' \in Nat
    BY <1>25 DEF TypeOK, Crash
  <2>. QED
    BY <1>25, <2>1, <2>2
    DEF TypeOK, Crash, clientVars, callVars, transportVars, readerVars, closeVars, pipeVars, providerVars
<1>26. ASSUME NEW g \in Gens, WriteGarbage(g) PROVE TypeOK'
  <2>1. out' \in [Gens -> Seq(Response \cup {Garbage})]
    BY <1>26, SMTT(30) DEF TypeOK, WriteGarbage
  <2>2. faults' \in Nat
    BY <1>26 DEF TypeOK, WriteGarbage
  <2>. QED
    BY <1>26, <2>1, <2>2
    DEF TypeOK, WriteGarbage, clientVars, callVars, transportVars, readerVars, closeVars, pipeVars, providerVars
<1>27. ASSUME NEW w \in Streams, StartWatch(w) PROVE TypeOK'
  <2>1. stream' \in [Streams -> StreamStates]
    BY <1>27 DEF TypeOK, StartWatch, StreamStates
  <2>. QED
    BY <1>27, <2>1
    DEF TypeOK, StartWatch, clientVars, callVars, transportVars, readerVars, closeVars, pipeVars, providerVars
<1>28. ASSUME NEW w \in Streams, Emit(w) PROVE TypeOK'
  <2>1. out' \in [Gens -> Seq(Response \cup {Garbage})]
    <3>1. Frame("event", id[w], w) \in Response
      <4>1. w \in Calls
        BY CallsAssumption
      <4>2. id[w] \in Nat /\ made[w] + 1 \in Nat
        BY <4>1 DEF TypeOK
      <4>. QED
        BY <4>1, <4>2 DEF Frame, Response
    <3>2. PICK g : out' = [out EXCEPT ![g] = Append(@, Frame("event", id[w], w))]
      BY <1>28 DEF Emit, Put
    <3>3. out \in [Gens -> Seq(Response \cup {Garbage})]
      BY DEF TypeOK
    <3>5. CASE g \in Gens
      BY <3>1, <3>2, <3>3, <3>5, QueueAppend
    <3>6. CASE g \notin Gens
      BY <3>1, <3>2, <3>3, <3>6
    <3>. QED
      BY <3>5, <3>6
  <2>2. made' \in [Calls -> Nat]
    <3>1. made' = [made EXCEPT ![w] = @ + 1] /\ made \in [Calls -> Nat]
      BY <1>28 DEF TypeOK, Emit, Put
    <3>. QED
      BY <3>1, Counted
  <2>. QED
    BY <1>28, <2>1, <2>2
    DEF TypeOK, Emit, clientVars, callVars, transportVars, readerVars, closeVars, pipeVars, providerVars
<1>29. ASSUME NEW w \in Streams, EndStream(w) PROVE TypeOK'
  <2>1. out' \in [Gens -> Seq(Response \cup {Garbage})]
    <3>1. PICK kind \in {"end", "error", "unready"} : Put(sentTo[w], kind, id[w], w)
      BY <1>29 DEF EndStream
    <3>2. Frame(kind, id[w], w) \in Response
      <4>1. w \in Calls
        BY CallsAssumption
      <4>2. id[w] \in Nat /\ made[w] + 1 \in Nat
        BY <4>1 DEF TypeOK
      <4>. QED
        BY <4>1, <4>2 DEF Frame, Response, FinalKind
    <3>3. PICK g : out' = [out EXCEPT ![g] = Append(@, Frame(kind, id[w], w))]
      BY <3>1 DEF Put
    <3>4. out \in [Gens -> Seq(Response \cup {Garbage})]
      BY DEF TypeOK
    <3>5. CASE g \in Gens
      BY <3>2, <3>3, <3>4, <3>5, QueueAppend
    <3>6. CASE g \notin Gens
      BY <3>2, <3>3, <3>4, <3>6
    <3>. QED
      BY <3>5, <3>6
  <2>2. stream' \in [Streams -> StreamStates]
    BY <1>29 DEF TypeOK, EndStream, Put, StreamStates
  <2>3. made' \in [Calls -> Nat]
    <3>1. made' = [made EXCEPT ![w] = @ + 1] /\ made \in [Calls -> Nat]
      BY <1>29 DEF TypeOK, EndStream, Put
    <3>. QED
      BY <3>1, Counted
  <2>. QED
    BY <1>29, <2>1, <2>2, <2>3
    DEF TypeOK, EndStream, clientVars, callVars, transportVars, readerVars, closeVars, pipeVars, providerVars
<1>30. ASSUME CloseNothing PROVE TypeOK'
  <2>1. closer' \in {"idle", "reaping", "returned"}
    BY <1>30 DEF TypeOK, CloseNothing
  <2>. QED
    BY <1>30, <2>1
    DEF TypeOK, CloseNothing, clientVars, callVars, transportVars, readerVars, closeVars, pipeVars, providerVars
<1>31. ASSUME CloseBegins PROVE TypeOK'
  <2>1. cmd' \in {0, gen'}
    BY <1>31 DEF TypeOK, CloseBegins
  <2>2. closer' \in {"idle", "reaping", "returned"}
    BY <1>31 DEF TypeOK, CloseBegins
  <2>3. closing' \in {0} \cup Gens
    BY <1>31 DEF TypeOK, CloseBegins
  <2>4. eof' \in [Gens -> BOOLEAN]
    BY <1>31 DEF TypeOK, CloseBegins
  <2>. QED
    BY <1>31, <2>1, <2>2, <2>3, <2>4
    DEF TypeOK, CloseBegins, clientVars, callVars, transportVars, readerVars, closeVars, pipeVars, providerVars
<1>32. ASSUME CloseReaps PROVE TypeOK'
  <2>1. reaped' \in [Gens -> Nat]
    <3>1. reaped' = [reaped EXCEPT ![closing] = @ + 1] /\ reaped \in [Gens -> Nat]
      BY <1>32 DEF TypeOK, CloseReaps
    <3>. QED
      BY <3>1, Counted
  <2>2. closer' \in {"idle", "reaping", "returned"}
    BY <1>32 DEF TypeOK, CloseReaps
  <2>3. closing' \in {0} \cup Gens
    BY <1>32 DEF TypeOK, CloseReaps
  <2>4. out' \in [Gens -> Seq(Response \cup {Garbage})]
    <3>1. PICK k \in (IF readerAt[closing] = "delivering" THEN 1 ELSE 0)..Len(out[closing]) :
            out' = [out EXCEPT ![closing] = SubSeq(out[closing], 1, k)]
      BY <1>32 DEF CloseReaps, ReapedOutput
    <3>2. out \in [Gens -> Seq(Response \cup {Garbage})]
      BY DEF TypeOK
    <3>3. CASE closing \in Gens
      <4>1. k \in 0..Len(out[closing])
        BY <3>1, <3>2, <3>3
      <4>. QED
        BY <3>1, <3>2, <3>3, <4>1, QueuePrefix
    <3>4. CASE closing \notin Gens
      BY <3>1, <3>2, <3>4
    <3>. QED
      BY <3>3, <3>4
  <2>. QED
    BY <1>32, <2>1, <2>2, <2>3, <2>4
    DEF TypeOK, CloseReaps, clientVars, callVars, transportVars, readerVars, closeVars, pipeVars, providerVars
<1>33. CASE UNCHANGED vars
  BY <1>33 DEF TypeOK, vars, clientVars, callVars, transportVars, readerVars, closeVars, pipeVars, providerVars
<1>. QED
  BY <1>1, <1>2, <1>3, <1>4, <1>5, <1>6, <1>7, <1>8, <1>9, <1>10, <1>11, <1>12, <1>13, <1>14, <1>15, <1>16, <1>17, <1>18, <1>19, <1>20, <1>21, <1>22, <1>23, <1>24, <1>25, <1>26, <1>27, <1>28, <1>29, <1>30, <1>31, <1>32, <1>33
  DEF Next, Caller, Send, Select, Return, Reader, Provider, ServeNext, Watching, Close, Terminated

(* What a queue holds. *)
LEMMA HoldsAppend ==
  ASSUME NEW S, NEW s \in Seq(S), NEW e
  PROVE  SeqSet(Append(s, e)) = SeqSet(s) \cup {e}
<1>1. Len(Append(s, e)) = Len(s) + 1 /\ Append(s, e)[Len(s) + 1] = e /\ Len(s) \in Nat
  OBVIOUS
<1>2. \A k \in 1..Len(s) : Append(s, e)[k] = s[k]
  OBVIOUS
<1>3. SeqSet(Append(s, e)) = {Append(s, e)[k] : k \in 1..(Len(s) + 1)}
  BY <1>1 DEF SeqSet
<1>4. 1..(Len(s) + 1) = (1..Len(s)) \cup {Len(s) + 1}
  BY <1>1
<1>. QED
  BY <1>1, <1>2, <1>3, <1>4 DEF SeqSet

(* What is left of a queue was in it. *)
LEMMA HoldsTail ==
  ASSUME NEW S, NEW s \in Seq(S), s # <<>>
  PROVE  SeqSet(Tail(s)) \subseteq SeqSet(s) /\ Head(s) \in SeqSet(s)
<1>1. Len(Tail(s)) = Len(s) - 1 /\ Len(s) \in Nat /\ Len(s) > 0 /\ Head(s) = s[1]
  OBVIOUS
<1>2. \A k \in 1..Len(Tail(s)) : Tail(s)[k] = s[k + 1]
  OBVIOUS
<1>. QED
  BY <1>1, <1>2 DEF SeqSet

(* What a prefix of a queue holds was in it. *)
LEMMA HoldsPrefix ==
  ASSUME NEW S, NEW s \in Seq(S), NEW k \in 0..Len(s)
  PROVE  SeqSet(SubSeq(s, 1, k)) \subseteq SeqSet(s)
<1>1. Len(SubSeq(s, 1, k)) = k /\ \A j \in 1..k : SubSeq(s, 1, k)[j] = s[j]
  OBVIOUS
<1>. QED
  BY <1>1 DEF SeqSet

(* What happens to a pipe leaves the line at its head alone. *)
LEMMA HeadStays ==
  ASSUME NEW S, NEW s \in Seq(S), s # <<>>
  PROVE  /\ \A e : Append(s, e) # <<>> /\ Head(Append(s, e)) = Head(s)
         /\ \A k \in 1..Len(s) : SubSeq(s, 1, k) # <<>> /\ Head(SubSeq(s, 1, k)) = Head(s)
<1>1. Len(s) \in Nat /\ Len(s) > 0 /\ Head(s) = s[1]
  OBVIOUS
<1>2. ASSUME NEW e PROVE Append(s, e) # <<>> /\ Head(Append(s, e)) = Head(s)
  <2>1. Len(Append(s, e)) = Len(s) + 1 /\ Append(s, e)[1] = s[1]
    BY <1>1
  <2>. QED
    BY <1>1, <2>1
<1>3. ASSUME NEW k \in 1..Len(s) PROVE SubSeq(s, 1, k) # <<>> /\ Head(SubSeq(s, 1, k)) = Head(s)
  <2>1. Len(SubSeq(s, 1, k)) = k /\ SubSeq(s, 1, k)[1] = s[1]
    BY <1>1
  <2>. QED
    BY <1>1, <2>1
<1>. QED
  BY <1>2, <1>3

(* Nor takes the line out of the reader's hand. *)
LEMMA ReaderStep ==
  ASSUME TypeOK, ReaderHolds, [Next]_vars
  PROVE  ReaderHolds'
<1>0. UNCHANGED <<readerAt, out, target>> => ReaderHolds'
  BY DEF ReaderHolds
<1>1. ASSUME NEW c \in Calls, TakeID(c) PROVE ReaderHolds'
  BY <1>0, <1>1 DEF TakeID, readerVars, pipeVars
<1>2. ASSUME NEW c \in Calls, SendToRunning(c) PROVE ReaderHolds'
  BY <1>0, <1>2 DEF SendToRunning, readerVars, pipeVars
<1>3. ASSUME NEW c \in Calls, SendStarting(c) PROVE ReaderHolds'
  BY <1>3 DEF TypeOK, ReaderHolds, SendStarting, pipeVars
<1>4. ASSUME NEW c \in Calls, StartFails(c) PROVE ReaderHolds'
  BY <1>0, <1>4 DEF StartFails, readerVars, pipeVars
<1>5. ASSUME NEW c \in Calls, Write(c) PROVE ReaderHolds'
  BY <1>0, <1>5 DEF Write, readerVars, pipeVars
<1>6. ASSUME NEW c \in Calls, WriteFails(c) PROVE ReaderHolds'
  BY <1>0, <1>6 DEF WriteFails, readerVars, pipeVars
<1>7. ASSUME NEW c \in Calls, Receive(c) PROVE ReaderHolds'
  BY <1>0, <1>7 DEF Receive, readerVars, pipeVars
<1>8. ASSUME NEW c \in Calls, OnFrameReturns(c) PROVE ReaderHolds'
  BY <1>0, <1>8 DEF OnFrameReturns, readerVars, pipeVars
<1>9. ASSUME NEW c \in Calls, SeeClosed(c) PROVE ReaderHolds'
  BY <1>0, <1>9 DEF SeeClosed, readerVars, pipeVars
<1>10. ASSUME NEW c \in Calls, GiveUp(c) PROVE ReaderHolds'
  BY <1>0, <1>10 DEF GiveUp, readerVars, pipeVars
<1>11. ASSUME NEW c \in Calls, DeathNothingToReap(c) PROVE ReaderHolds'
  BY <1>0, <1>11 DEF DeathNothingToReap, readerVars, pipeVars
<1>12. ASSUME NEW c \in Calls, DeathReaps(c) PROVE ReaderHolds'
  BY <1>0, <1>12 DEF DeathReaps, readerVars, pipeVars
<1>13. ASSUME NEW c \in Calls, Reap(c) PROVE ReaderHolds'
  <2>1. PICK k \in (IF readerAt[victim] = "delivering" THEN 1 ELSE 0)..Len(out[victim]) :
          out' = [out EXCEPT ![victim] = SubSeq(out[victim], 1, k)]
    BY <1>13 DEF Reap, ReapedOutput
  <2>2. UNCHANGED <<readerAt, target>>
    BY <1>13 DEF Reap, readerVars
  <2>3. SUFFICES ASSUME NEW h \in Gens, readerAt[h] = "delivering"
                 PROVE  out'[h] # <<>> /\ Head(out'[h]) \in Response /\ target[h] \in Calls
    BY <2>2 DEF ReaderHolds
  <2>4. out \in [Gens -> Seq(Response \cup {Garbage})] /\ out[h] # <<>> /\ Head(out[h]) \in Response /\ target[h] \in Calls
    BY <2>3 DEF TypeOK, ReaderHolds
  <2>5. CASE h = victim
    <3>1. k \in 1..Len(out[h]) /\ out'[h] = SubSeq(out[h], 1, k)
      BY <2>1, <2>3, <2>4, <2>5
    <3>. QED
      BY <2>4, <3>1, HeadStays
  <2>6. CASE h # victim
    BY <2>1, <2>4, <2>6
  <2>. QED
    BY <2>5, <2>6
<1>14. ASSUME NEW c \in Calls, Forget(c) PROVE ReaderHolds'
  BY <1>0, <1>14 DEF Forget, readerVars, pipeVars
<1>15. ASSUME NEW g \in Gens, Lookup(g) PROVE ReaderHolds'
  <2>1. out[g] # <<>> /\ Head(out[g]) \in Response
    <3>1. Head(out[g]) \in Response \cup {Garbage} /\ out[g] # <<>>
      BY <1>15 DEF TypeOK, Lookup
    <3>. QED
      BY <1>15, <3>1 DEF Lookup, IsAnswer, Garbage
  <2>2. pending[Head(out[g]).id] \in Calls
    BY <1>15 DEF TypeOK, Lookup
  <2>. QED
    BY <1>15, <2>1, <2>2 DEF TypeOK, ReaderHolds, Lookup, pipeVars
<1>16. ASSUME NEW g \in Gens, DropUnclaimed(g) PROVE ReaderHolds'
  BY <1>16 DEF TypeOK, ReaderHolds, DropUnclaimed, readerVars
<1>17. ASSUME NEW g \in Gens, HandOver(g) PROVE ReaderHolds'
  BY <1>17 DEF TypeOK, ReaderHolds, HandOver
<1>18. ASSUME NEW g \in Gens, SkipForgotten(g) PROVE ReaderHolds'
  BY <1>18 DEF TypeOK, ReaderHolds, SkipForgotten
<1>19. ASSUME NEW g \in Gens, StopScanning(g) PROVE ReaderHolds'
  BY <1>19 DEF TypeOK, ReaderHolds, StopScanning, pipeVars
<1>20. ASSUME NEW g \in Gens, Shut(g) PROVE ReaderHolds'
  BY <1>20 DEF TypeOK, ReaderHolds, Shut, pipeVars
<1>21. ASSUME NEW g \in Gens, Answer(g) PROVE ReaderHolds'
  <2>1. PICK h, e : out' = [out EXCEPT ![h] = Append(@, e)] /\ UNCHANGED <<readerAt, target>>
    BY <1>21 DEF Answer, Put, readerVars
  <2>2. SUFFICES ASSUME NEW k \in Gens, readerAt[k] = "delivering"
                 PROVE  out'[k] # <<>> /\ Head(out'[k]) \in Response /\ target[k] \in Calls
    BY <2>1 DEF ReaderHolds
  <2>3. out \in [Gens -> Seq(Response \cup {Garbage})] /\ out[k] # <<>> /\ Head(out[k]) \in Response /\ target[k] \in Calls
    BY <2>2 DEF TypeOK, ReaderHolds
  <2>4. out'[k] = out[k] \/ out'[k] = Append(out[k], e)
    BY <2>1, <2>3
  <2>. QED
    BY <2>3, <2>4, HeadStays
<1>22. ASSUME NEW g \in Gens, OpenWatch(g) PROVE ReaderHolds'
  BY <1>0, <1>22 DEF OpenWatch, readerVars, pipeVars
<1>23. ASSUME NEW g \in Gens, RefuseUnready(g) PROVE ReaderHolds'
  <2>1. PICK h, e : out' = [out EXCEPT ![h] = Append(@, e)] /\ UNCHANGED <<readerAt, target>>
    BY <1>23 DEF RefuseUnready, Put, readerVars
  <2>2. SUFFICES ASSUME NEW k \in Gens, readerAt[k] = "delivering"
                 PROVE  out'[k] # <<>> /\ Head(out'[k]) \in Response /\ target[k] \in Calls
    BY <2>1 DEF ReaderHolds
  <2>3. out \in [Gens -> Seq(Response \cup {Garbage})] /\ out[k] # <<>> /\ Head(out[k]) \in Response /\ target[k] \in Calls
    BY <2>2 DEF TypeOK, ReaderHolds
  <2>4. out'[k] = out[k] \/ out'[k] = Append(out[k], e)
    BY <2>1, <2>3
  <2>. QED
    BY <2>3, <2>4, HeadStays
<1>24. ASSUME NEW g \in Gens, ExitAtEOF(g) PROVE ReaderHolds'
  BY <1>0, <1>24 DEF ExitAtEOF, readerVars, pipeVars
<1>25. ASSUME NEW g \in Gens, Crash(g) PROVE ReaderHolds'
  BY <1>0, <1>25 DEF Crash, readerVars, pipeVars
<1>26. ASSUME NEW g \in Gens, WriteGarbage(g) PROVE ReaderHolds'
  <2>1. PICK h, e : out' = [out EXCEPT ![h] = Append(@, e)] /\ UNCHANGED <<readerAt, target>>
    BY <1>26 DEF WriteGarbage, readerVars
  <2>2. SUFFICES ASSUME NEW k \in Gens, readerAt[k] = "delivering"
                 PROVE  out'[k] # <<>> /\ Head(out'[k]) \in Response /\ target[k] \in Calls
    BY <2>1 DEF ReaderHolds
  <2>3. out \in [Gens -> Seq(Response \cup {Garbage})] /\ out[k] # <<>> /\ Head(out[k]) \in Response /\ target[k] \in Calls
    BY <2>2 DEF TypeOK, ReaderHolds
  <2>4. out'[k] = out[k] \/ out'[k] = Append(out[k], e)
    BY <2>1, <2>3
  <2>. QED
    BY <2>3, <2>4, HeadStays
<1>27. ASSUME NEW w \in Streams, StartWatch(w) PROVE ReaderHolds'
  BY <1>0, <1>27 DEF StartWatch, readerVars, pipeVars
<1>28. ASSUME NEW w \in Streams, Emit(w) PROVE ReaderHolds'
  <2>1. PICK h, e : out' = [out EXCEPT ![h] = Append(@, e)] /\ UNCHANGED <<readerAt, target>>
    BY <1>28 DEF Emit, Put, readerVars
  <2>2. SUFFICES ASSUME NEW k \in Gens, readerAt[k] = "delivering"
                 PROVE  out'[k] # <<>> /\ Head(out'[k]) \in Response /\ target[k] \in Calls
    BY <2>1 DEF ReaderHolds
  <2>3. out \in [Gens -> Seq(Response \cup {Garbage})] /\ out[k] # <<>> /\ Head(out[k]) \in Response /\ target[k] \in Calls
    BY <2>2 DEF TypeOK, ReaderHolds
  <2>4. out'[k] = out[k] \/ out'[k] = Append(out[k], e)
    BY <2>1, <2>3
  <2>. QED
    BY <2>3, <2>4, HeadStays
<1>29. ASSUME NEW w \in Streams, EndStream(w) PROVE ReaderHolds'
  <2>1. PICK h, e : out' = [out EXCEPT ![h] = Append(@, e)] /\ UNCHANGED <<readerAt, target>>
    BY <1>29 DEF EndStream, Put, readerVars
  <2>2. SUFFICES ASSUME NEW k \in Gens, readerAt[k] = "delivering"
                 PROVE  out'[k] # <<>> /\ Head(out'[k]) \in Response /\ target[k] \in Calls
    BY <2>1 DEF ReaderHolds
  <2>3. out \in [Gens -> Seq(Response \cup {Garbage})] /\ out[k] # <<>> /\ Head(out[k]) \in Response /\ target[k] \in Calls
    BY <2>2 DEF TypeOK, ReaderHolds
  <2>4. out'[k] = out[k] \/ out'[k] = Append(out[k], e)
    BY <2>1, <2>3
  <2>. QED
    BY <2>3, <2>4, HeadStays
<1>30. ASSUME CloseNothing PROVE ReaderHolds'
  BY <1>0, <1>30 DEF CloseNothing, readerVars, pipeVars
<1>31. ASSUME CloseBegins PROVE ReaderHolds'
  BY <1>0, <1>31 DEF CloseBegins, readerVars, pipeVars
<1>32. ASSUME CloseReaps PROVE ReaderHolds'
  <2>1. PICK k \in (IF readerAt[closing] = "delivering" THEN 1 ELSE 0)..Len(out[closing]) :
          out' = [out EXCEPT ![closing] = SubSeq(out[closing], 1, k)]
    BY <1>32 DEF CloseReaps, ReapedOutput
  <2>2. UNCHANGED <<readerAt, target>>
    BY <1>32 DEF CloseReaps, readerVars
  <2>3. SUFFICES ASSUME NEW h \in Gens, readerAt[h] = "delivering"
                 PROVE  out'[h] # <<>> /\ Head(out'[h]) \in Response /\ target[h] \in Calls
    BY <2>2 DEF ReaderHolds
  <2>4. out \in [Gens -> Seq(Response \cup {Garbage})] /\ out[h] # <<>> /\ Head(out[h]) \in Response /\ target[h] \in Calls
    BY <2>3 DEF TypeOK, ReaderHolds
  <2>5. CASE h = closing
    <3>1. k \in 1..Len(out[h]) /\ out'[h] = SubSeq(out[h], 1, k)
      BY <2>1, <2>3, <2>4, <2>5
    <3>. QED
      BY <2>4, <3>1, HeadStays
  <2>6. CASE h # closing
    BY <2>1, <2>4, <2>6
  <2>. QED
    BY <2>5, <2>6
<1>33. CASE UNCHANGED vars
  BY <1>0, <1>33 DEF vars, readerVars, pipeVars
<1>. QED
  BY <1>1, <1>2, <1>3, <1>4, <1>5, <1>6, <1>7, <1>8, <1>9, <1>10, <1>11, <1>12, <1>13, <1>14, <1>15, <1>16, <1>17, <1>18, <1>19, <1>20, <1>21, <1>22, <1>23, <1>24, <1>25, <1>26, <1>27, <1>28, <1>29, <1>30, <1>31, <1>32, <1>33
  DEF Next, Caller, Send, Select, Return, Reader, Provider, ServeNext, Watching, Close, Terminated

-----------------------------------------------------------------------------
(* The inductive invariant.                                                 *)

(* An id belongs to the call that took it. *)
Owns(c, i) == id[c] = i /\ i # 0

IdsOwn ==
  /\ \A c \in Calls : id[c] <= nextID /\ (pc[c] = "idle" <=> id[c] = 0)
  /\ \A c, d \in Calls : id[c] = id[d] /\ id[c] # 0 => c = d

InOwn == \A g \in Gens : \A req \in SeqSet(in[g]) : Owns(req.from, req.id)

OutOwn == \A g \in Gens : \A line \in SeqSet(out[g]) : IsAnswer(line) => Owns(line.to, line.id)

PendingOwn == \A i \in DOMAIN pending : Owns(pending[i], i)

StreamOwn == \A w \in Streams : stream[w] # "none" => id[w] # 0

HandOwn == \A g \in Gens : readerAt[g] = "delivering" => Head(out[g]).to = target[g]

OwnInv ==
  /\ IdsOwn
  /\ InOwn
  /\ OutOwn
  /\ PendingOwn
  /\ StreamOwn
  /\ HandOwn
  /\ OwnAnswers

(* What the types say of the lines in the pipes. *)
LEMMA LinesTyped ==
  ASSUME TypeOK, NEW g \in Gens
  PROVE  /\ \A req \in SeqSet(in[g]) : req.from \in Calls
         /\ \A line \in SeqSet(out[g]) : IsAnswer(line) => line.to \in Calls
<1>1. in[g] \in Seq(Request) /\ out[g] \in Seq(Response \cup {Garbage})
  BY DEF TypeOK
<1>2. \A req \in SeqSet(in[g]) : req \in Request
  BY <1>1 DEF SeqSet
<1>3. \A line \in SeqSet(out[g]) : line \in Response \cup {Garbage}
  BY <1>1 DEF SeqSet
<1>4. \A line \in SeqSet(out[g]) : IsAnswer(line) => line \in Response
  BY <1>3 DEF IsAnswer, Garbage
<1>. QED
  BY <1>2, <1>4 DEF Request, Response

(* Every step keeps ids where they belong. *)
LEMMA OwnStep ==
  ASSUME TypeOK, ReaderHolds, OwnInv, [Next]_vars
  PROVE  OwnInv'
<1>1. ASSUME NEW c \in Calls, TakeID(c) PROVE OwnInv'
  <2>1. /\ id[c] = 0 /\ id' = [id EXCEPT ![c] = nextID + 1] /\ nextID' = nextID + 1
        /\ id \in [Calls -> Nat] /\ nextID \in Nat
        /\ pc' = [pc EXCEPT ![c] = "ready"] /\ pc \in [Calls -> Places]
    BY <1>1 DEF TypeOK, TakeID, Goto, OwnInv, IdsOwn
  <2>2. ASSUME NEW d \in Calls, NEW i, Owns(d, i) PROVE Owns(d, i)'
    BY <2>1, <2>2 DEF Owns
  <2>3. IdsOwn'
    <3>1. \A d \in Calls : id[d] <= nextID
      BY DEF OwnInv, IdsOwn
    <3>2. \A d \in Calls : id'[d] <= nextID'
      BY <2>1, <3>1
    <3>3. \A d \in Calls : pc'[d] = "idle" <=> id'[d] = 0
      BY <2>1 DEF OwnInv, IdsOwn
    <3>4. \A d, e \in Calls : id'[d] = id'[e] /\ id'[d] # 0 => d = e
      <4>1. \A d \in Calls : id[d] # nextID + 1
        BY <2>1, <3>1
      <4>. QED
        BY <2>1, <4>1 DEF OwnInv, IdsOwn
    <3>. QED
      BY <3>2, <3>3, <3>4 DEF IdsOwn
  <2>4. InOwn'
    BY <1>1, <2>2, LinesTyped DEF TakeID, OwnInv, InOwn, pipeVars
  <2>5. OutOwn'
    BY <1>1, <2>2, LinesTyped DEF TakeID, OwnInv, OutOwn, pipeVars
  <2>6. PendingOwn'
    BY <1>1, <2>2 DEF TypeOK, TakeID, OwnInv, PendingOwn, transportVars
  <2>7. StreamOwn'
    BY <1>1, <2>1, CallsAssumption DEF TakeID, OwnInv, StreamOwn, providerVars
  <2>8. HandOwn' /\ OwnAnswers'
    BY <1>1 DEF TakeID, OwnInv, HandOwn, OwnAnswers, readerVars, pipeVars, transportVars
  <2>. QED
    BY <2>3, <2>4, <2>5, <2>6, <2>7, <2>8 DEF OwnInv
<1>2. ASSUME NEW c \in Calls, SendToRunning(c) PROVE OwnInv'
  <2>1. IdsOwn'
    BY <1>2 DEF TypeOK, OwnInv, IdsOwn, SendToRunning, Goto, clientVars
  <2>2. PendingOwn'
    <3>1. id[c] # 0
      BY <1>2 DEF OwnInv, IdsOwn, SendToRunning
    <3>. QED
      BY <1>2, <3>1 DEF OwnInv, Owns, PendingOwn, SendToRunning, Registered, clientVars
  <2>3. InOwn' /\ OutOwn' /\ StreamOwn' /\ HandOwn' /\ OwnAnswers'
    BY <1>2 DEF OwnInv, InOwn, OutOwn, StreamOwn, HandOwn, OwnAnswers, Owns, SendToRunning, clientVars, callVars, transportVars, readerVars, pipeVars, providerVars
  <2>. QED
    BY <2>1, <2>2, <2>3 DEF OwnInv
<1>3. ASSUME NEW c \in Calls, SendStarting(c) PROVE OwnInv'
  <2>1. IdsOwn'
    BY <1>3 DEF TypeOK, OwnInv, IdsOwn, SendStarting, Goto, clientVars
  <2>2. PendingOwn'
    <3>1. id[c] # 0
      BY <1>3 DEF OwnInv, IdsOwn, SendStarting
    <3>. QED
      BY <1>3, <3>1 DEF Owns, PendingOwn, SendStarting, clientVars
  <2>3. HandOwn'
    BY <1>3 DEF TypeOK, OwnInv, HandOwn, SendStarting, pipeVars
  <2>4. InOwn' /\ OutOwn' /\ StreamOwn' /\ OwnAnswers'
    BY <1>3 DEF OwnInv, InOwn, OutOwn, StreamOwn, OwnAnswers, Owns, SendStarting, clientVars, callVars, transportVars, pipeVars, providerVars
  <2>. QED
    BY <2>1, <2>2, <2>3, <2>4 DEF OwnInv
<1>4. ASSUME NEW c \in Calls, StartFails(c) PROVE OwnInv'
  <2>1. IdsOwn'
    BY <1>4 DEF TypeOK, OwnInv, IdsOwn, StartFails, Goto, clientVars
  <2>2. InOwn' /\ OutOwn' /\ PendingOwn' /\ StreamOwn' /\ HandOwn' /\ OwnAnswers'
    BY <1>4 DEF OwnInv, InOwn, OutOwn, PendingOwn, StreamOwn, HandOwn, OwnAnswers, Owns, StartFails, clientVars, callVars, transportVars, readerVars, pipeVars, providerVars
  <2>. QED
    BY <2>1, <2>2 DEF OwnInv
<1>5. ASSUME NEW c \in Calls, Write(c) PROVE OwnInv'
  <2>1. IdsOwn'
    BY <1>5 DEF TypeOK, OwnInv, IdsOwn, Write, Goto, clientVars
  <2>2. InOwn'
    <3>1. PICK g : g = cmd
      OBVIOUS
    <3>2. PICK req : req = [id |-> id[c], from |-> c]
      OBVIOUS
    <3>3. in' = [in EXCEPT ![g] = Append(@, req)] /\ id' = id /\ in \in [Gens -> Seq(Request)]
      BY <1>5, <3>1, <3>2 DEF TypeOK, Write, clientVars
    <3>4. Owns(req.from, req.id)
      BY <1>5, <3>2 DEF OwnInv, IdsOwn, Owns, Write
    <3>5. ASSUME NEW h \in Gens PROVE SeqSet(in'[h]) \subseteq SeqSet(in[h]) \cup {req}
      <4>1. in'[h] = in[h] \/ in'[h] = Append(in[h], req)
        BY <3>3
      <4>. QED
        BY <3>3, <4>1, HoldsAppend
    <3>. QED
      BY <3>3, <3>4, <3>5 DEF OwnInv, InOwn, Owns
  <2>3. OutOwn' /\ PendingOwn' /\ StreamOwn' /\ HandOwn' /\ OwnAnswers'
    BY <1>5 DEF OwnInv, OutOwn, PendingOwn, StreamOwn, HandOwn, OwnAnswers, Owns, Write, clientVars, callVars, transportVars, readerVars, pipeVars, providerVars
  <2>. QED
    BY <2>1, <2>2, <2>3 DEF OwnInv
<1>6. ASSUME NEW c \in Calls, WriteFails(c) PROVE OwnInv'
  <2>1. IdsOwn'
    BY <1>6 DEF TypeOK, OwnInv, IdsOwn, WriteFails, Goto, clientVars
  <2>2. PendingOwn'
    BY <1>6 DEF OwnInv, Owns, PendingOwn, WriteFails, Unregistered, clientVars
  <2>3. InOwn' /\ OutOwn' /\ StreamOwn' /\ HandOwn' /\ OwnAnswers'
    BY <1>6 DEF OwnInv, InOwn, OutOwn, StreamOwn, HandOwn, OwnAnswers, Owns, WriteFails, clientVars, callVars, transportVars, readerVars, pipeVars, providerVars
  <2>. QED
    BY <2>1, <2>2, <2>3 DEF OwnInv
<1>7. ASSUME NEW c \in Calls, Receive(c) PROVE OwnInv'
  <2>1. IdsOwn'
    BY <1>7 DEF TypeOK, OwnInv, IdsOwn, Receive, Goto, Finish, clientVars
  <2>2. OwnAnswers'
    <3>1. /\ got' = [got EXCEPT ![c] = Append(@, Head(frames[c]))]
          /\ frames' = [frames EXCEPT ![c] = Tail(@)] /\ frames[c] # <<>>
      BY <1>7 DEF Receive
    <3>2. got \in [Calls -> Seq(Response)] /\ frames \in [Calls -> Seq(Response)]
      BY DEF TypeOK
    <3>3. Head(frames[c]) \in SeqSet(frames[c]) /\ SeqSet(frames'[c]) \subseteq SeqSet(frames[c])
      BY <3>1, <3>2, HoldsTail
    <3>4. SeqSet(got'[c]) = SeqSet(got[c]) \cup {Head(frames[c])}
      BY <3>1, <3>2, HoldsAppend
    <3>5. \A d \in Calls \ {c} : got'[d] = got[d] /\ frames'[d] = frames[d]
      BY <3>1, <3>2
    <3>. QED
      BY <3>3, <3>4, <3>5 DEF OwnInv, OwnAnswers
  <2>3. InOwn' /\ OutOwn' /\ PendingOwn' /\ StreamOwn' /\ HandOwn'
    BY <1>7 DEF OwnInv, InOwn, OutOwn, PendingOwn, StreamOwn, HandOwn, Owns, Receive, clientVars, transportVars, readerVars, pipeVars, providerVars
  <2>. QED
    BY <2>1, <2>2, <2>3 DEF OwnInv
<1>8. ASSUME NEW c \in Calls, OnFrameReturns(c) PROVE OwnInv'
  <2>1. IdsOwn'
    <3>1. UNCHANGED <<nextID, id>> /\ \E place \in {"waiting", "forgetting"} : pc' = [pc EXCEPT ![c] = place]
      BY <1>8 DEF OnFrameReturns, Goto, Finish, clientVars
    <3>2. pc[c] = "inFrame"
      BY <1>8 DEF OnFrameReturns
    <3>. QED
      BY <3>1, <3>2 DEF TypeOK, OwnInv, IdsOwn
  <2>2. InOwn' /\ OutOwn' /\ PendingOwn' /\ StreamOwn' /\ HandOwn' /\ OwnAnswers'
    BY <1>8 DEF OwnInv, InOwn, OutOwn, PendingOwn, StreamOwn, HandOwn, OwnAnswers, Owns, OnFrameReturns, clientVars, callVars, transportVars, readerVars, pipeVars, providerVars
  <2>. QED
    BY <2>1, <2>2 DEF OwnInv
<1>9. ASSUME NEW c \in Calls, SeeClosed(c) PROVE OwnInv'
  <2>1. IdsOwn'
    BY <1>9 DEF TypeOK, OwnInv, IdsOwn, SeeClosed, Goto, clientVars
  <2>2. InOwn' /\ OutOwn' /\ PendingOwn' /\ StreamOwn' /\ HandOwn' /\ OwnAnswers'
    BY <1>9 DEF OwnInv, InOwn, OutOwn, PendingOwn, StreamOwn, HandOwn, OwnAnswers, Owns, SeeClosed, clientVars, callVars, transportVars, readerVars, pipeVars, providerVars
  <2>. QED
    BY <2>1, <2>2 DEF OwnInv
<1>10. ASSUME NEW c \in Calls, GiveUp(c) PROVE OwnInv'
  <2>1. IdsOwn'
    BY <1>10 DEF TypeOK, OwnInv, IdsOwn, GiveUp, Finish, Goto, clientVars
  <2>2. InOwn' /\ OutOwn' /\ PendingOwn' /\ StreamOwn' /\ HandOwn' /\ OwnAnswers'
    BY <1>10 DEF OwnInv, InOwn, OutOwn, PendingOwn, StreamOwn, HandOwn, OwnAnswers, Owns, GiveUp, clientVars, callVars, transportVars, readerVars, pipeVars, providerVars
  <2>. QED
    BY <2>1, <2>2 DEF OwnInv
<1>11. ASSUME NEW c \in Calls, DeathNothingToReap(c) PROVE OwnInv'
  <2>1. IdsOwn'
    BY <1>11 DEF TypeOK, OwnInv, IdsOwn, DeathNothingToReap, Finish, Goto, clientVars
  <2>2. InOwn' /\ OutOwn' /\ PendingOwn' /\ StreamOwn' /\ HandOwn' /\ OwnAnswers'
    BY <1>11 DEF OwnInv, InOwn, OutOwn, PendingOwn, StreamOwn, HandOwn, OwnAnswers, Owns, DeathNothingToReap, clientVars, callVars, transportVars, readerVars, pipeVars, providerVars
  <2>. QED
    BY <2>1, <2>2 DEF OwnInv
<1>12. ASSUME NEW c \in Calls, DeathReaps(c) PROVE OwnInv'
  <2>1. IdsOwn'
    BY <1>12 DEF TypeOK, OwnInv, IdsOwn, DeathReaps, Goto, clientVars
  <2>2. InOwn' /\ OutOwn' /\ PendingOwn' /\ StreamOwn' /\ HandOwn' /\ OwnAnswers'
    BY <1>12 DEF OwnInv, InOwn, OutOwn, PendingOwn, StreamOwn, HandOwn, OwnAnswers, Owns, DeathReaps, clientVars, callVars, transportVars, readerVars, pipeVars, providerVars
  <2>. QED
    BY <2>1, <2>2 DEF OwnInv
<1>13. ASSUME NEW c \in Calls, Reap(c) PROVE OwnInv'
  <2>1. IdsOwn'
    BY <1>13 DEF TypeOK, OwnInv, IdsOwn, Reap, Goto, clientVars
  <2>2. OutOwn'
    <3>1. PICK k \in (IF readerAt[victim] = "delivering" THEN 1 ELSE 0)..Len(out[victim]) :
            out' = [out EXCEPT ![victim] = SubSeq(out[victim], 1, k)]
      BY <1>13 DEF Reap, ReapedOutput
    <3>2. ASSUME NEW h \in Gens PROVE SeqSet(out'[h]) \subseteq SeqSet(out[h])
      <4>1. out \in [Gens -> Seq(Response \cup {Garbage})]
        BY DEF TypeOK
      <4>2. CASE h = victim
        <5>1. k \in 0..Len(out[h]) /\ out'[h] = SubSeq(out[h], 1, k)
          BY <3>1, <4>1, <4>2
        <5>. QED
          BY <4>1, <5>1, HoldsPrefix
      <4>3. CASE h # victim
        BY <3>1, <4>1, <4>3
      <4>. QED
        BY <4>2, <4>3
    <3>3. id' = id
      BY <1>13 DEF Reap, clientVars
    <3>. QED
      BY <3>2, <3>3 DEF OwnInv, OutOwn, Owns
  <2>3. HandOwn'
    <3>1. PICK k \in (IF readerAt[victim] = "delivering" THEN 1 ELSE 0)..Len(out[victim]) :
            out' = [out EXCEPT ![victim] = SubSeq(out[victim], 1, k)]
      BY <1>13 DEF Reap, ReapedOutput
    <3>2. ASSUME NEW h \in Gens, readerAt[h] = "delivering" PROVE Head(out'[h]) = Head(out[h])
      <4>1. out \in [Gens -> Seq(Response \cup {Garbage})] /\ out[h] # <<>>
        BY <3>2 DEF TypeOK, ReaderHolds
      <4>2. CASE h = victim
        <5>1. k \in 1..Len(out[h]) /\ out'[h] = SubSeq(out[h], 1, k)
          BY <3>1, <3>2, <4>1, <4>2
        <5>. QED
          BY <4>1, <5>1, HeadStays
      <4>3. CASE h # victim
        BY <3>1, <4>1, <4>3
      <4>. QED
        BY <4>2, <4>3
    <3>3. UNCHANGED <<readerAt, target>>
      BY <1>13 DEF Reap, readerVars
    <3>. QED
      BY <3>2, <3>3 DEF OwnInv, HandOwn
  <2>4. InOwn' /\ PendingOwn' /\ StreamOwn' /\ OwnAnswers'
    BY <1>13 DEF OwnInv, InOwn, PendingOwn, StreamOwn, OwnAnswers, Owns, Reap, clientVars, callVars, transportVars, pipeVars, providerVars
  <2>. QED
    BY <2>1, <2>2, <2>3, <2>4 DEF OwnInv
<1>14. ASSUME NEW c \in Calls, Forget(c) PROVE OwnInv'
  <2>1. IdsOwn'
    BY <1>14 DEF TypeOK, OwnInv, IdsOwn, Forget, Goto, clientVars
  <2>2. PendingOwn'
    BY <1>14 DEF OwnInv, Owns, PendingOwn, Forget, Unregistered, clientVars
  <2>3. InOwn' /\ OutOwn' /\ StreamOwn' /\ HandOwn' /\ OwnAnswers'
    BY <1>14 DEF OwnInv, InOwn, OutOwn, StreamOwn, HandOwn, OwnAnswers, Owns, Forget, clientVars, callVars, transportVars, readerVars, pipeVars, providerVars
  <2>. QED
    BY <2>1, <2>2, <2>3 DEF OwnInv
<1>15. ASSUME NEW g \in Gens, Lookup(g) PROVE OwnInv'
  <2>1. HandOwn'
    <3>1. PICK i : i = Head(out[g]).id
      OBVIOUS
    <3>2. /\ out[g] \in Seq(Response \cup {Garbage}) /\ out[g] # <<>> /\ IsAnswer(Head(out[g]))
          /\ i \in DOMAIN pending /\ pending[i] \in Calls
      BY <1>15, <3>1 DEF TypeOK, Lookup
    <3>3. Head(out[g]) \in SeqSet(out[g])
      BY <3>2, HoldsTail
    <3>4. Head(out[g]).to \in Calls
      BY <3>2, <3>3, LinesTyped
    <3>5. Owns(Head(out[g]).to, i)
      BY <3>1, <3>2, <3>3 DEF OwnInv, OutOwn
    <3>6. Owns(pending[i], i)
      BY <3>2 DEF OwnInv, PendingOwn
    <3>7. Head(out[g]).to = pending[i]
      BY <3>2, <3>4, <3>5, <3>6 DEF OwnInv, IdsOwn, Owns
    <3>. QED
      BY <1>15, <3>1, <3>7 DEF TypeOK, OwnInv, HandOwn, Lookup, pipeVars
  <2>2. IdsOwn' /\ InOwn' /\ OutOwn' /\ PendingOwn' /\ StreamOwn' /\ OwnAnswers'
    BY <1>15 DEF OwnInv, IdsOwn, InOwn, OutOwn, PendingOwn, StreamOwn, OwnAnswers, Owns, Lookup, clientVars, callVars, transportVars, pipeVars, providerVars
  <2>. QED
    BY <2>1, <2>2 DEF OwnInv
<1>16. ASSUME NEW g \in Gens, DropUnclaimed(g) PROVE OwnInv'
  <2>1. OutOwn'
    <3>1. out' = [out EXCEPT ![g] = Tail(@)] /\ out[g] # <<>> /\ id' = id
      BY <1>16 DEF DropUnclaimed, ReaderHolds, clientVars
    <3>2. out \in [Gens -> Seq(Response \cup {Garbage})]
      BY DEF TypeOK
    <3>3. ASSUME NEW h \in Gens PROVE SeqSet(out'[h]) \subseteq SeqSet(out[h])
      BY <3>1, <3>2, HoldsTail
    <3>. QED
      BY <3>1, <3>3 DEF OwnInv, OutOwn, Owns
  <2>2. HandOwn'
    <3>1. /\ out' = [out EXCEPT ![g] = Tail(@)] /\ readerAt'[g] = "scanning"
          /\ \A h \in Gens \ {g} : readerAt'[h] = readerAt[h] /\ target'[h] = target[h]
      BY <1>16 DEF TypeOK, DropUnclaimed, readerVars
    <3>2. \A h \in Gens \ {g} : out'[h] = out[h]
      BY <3>1 DEF TypeOK
    <3>. QED
      BY <3>1, <3>2 DEF OwnInv, HandOwn
  <2>3. IdsOwn' /\ InOwn' /\ PendingOwn' /\ StreamOwn' /\ OwnAnswers'
    BY <1>16 DEF OwnInv, IdsOwn, InOwn, PendingOwn, StreamOwn, OwnAnswers, Owns, DropUnclaimed, clientVars, callVars, transportVars, pipeVars, providerVars
  <2>. QED
    BY <2>1, <2>2, <2>3 DEF OwnInv
<1>17. ASSUME NEW g \in Gens, HandOver(g) PROVE OwnInv'
  <2>1. OutOwn'
    <3>1. out' = [out EXCEPT ![g] = Tail(@)] /\ out[g] # <<>> /\ id' = id
      BY <1>17 DEF HandOver, ReaderHolds, clientVars
    <3>2. out \in [Gens -> Seq(Response \cup {Garbage})]
      BY DEF TypeOK
    <3>3. ASSUME NEW h \in Gens PROVE SeqSet(out'[h]) \subseteq SeqSet(out[h])
      BY <3>1, <3>2, HoldsTail
    <3>. QED
      BY <3>1, <3>3 DEF OwnInv, OutOwn, Owns
  <2>2. HandOwn'
    <3>1. /\ out' = [out EXCEPT ![g] = Tail(@)] /\ readerAt'[g] = "scanning"
          /\ \A h \in Gens \ {g} : readerAt'[h] = readerAt[h] /\ target'[h] = target[h]
      BY <1>17 DEF TypeOK, HandOver, readerVars
    <3>2. \A h \in Gens \ {g} : out'[h] = out[h]
      BY <3>1 DEF TypeOK
    <3>. QED
      BY <3>1, <3>2 DEF OwnInv, HandOwn
  <2>3. OwnAnswers'
    <3>1. /\ frames' = [frames EXCEPT ![target[g]] = Append(@, Head(out[g]))]
          /\ Head(out[g]).to = target[g] /\ target[g] \in Calls /\ got' = got
      BY <1>17 DEF HandOver, ReaderHolds, OwnInv, HandOwn, callVars
    <3>2. frames \in [Calls -> Seq(Response)]
      BY DEF TypeOK
    <3>3. ASSUME NEW c \in Calls PROVE \A resp \in SeqSet(frames'[c]) : resp.to = c
      <4>1. CASE c = target[g]
        <5>1. SeqSet(frames'[c]) = SeqSet(frames[c]) \cup {Head(out[g])}
          BY <3>1, <3>2, <4>1, HoldsAppend
        <5>. QED
          BY <3>1, <4>1, <5>1 DEF OwnInv, OwnAnswers
      <4>2. CASE c # target[g]
        BY <3>1, <3>2, <4>2 DEF OwnInv, OwnAnswers
      <4>. QED
        BY <4>1, <4>2
    <3>. QED
      BY <3>1, <3>3 DEF OwnInv, OwnAnswers
  <2>4. IdsOwn' /\ InOwn' /\ PendingOwn' /\ StreamOwn'
    BY <1>17 DEF OwnInv, IdsOwn, InOwn, PendingOwn, StreamOwn, Owns, HandOver, clientVars, callVars, transportVars, pipeVars, providerVars
  <2>. QED
    BY <2>1, <2>2, <2>3, <2>4 DEF OwnInv
<1>18. ASSUME NEW g \in Gens, SkipForgotten(g) PROVE OwnInv'
  <2>1. OutOwn'
    <3>1. out' = [out EXCEPT ![g] = Tail(@)] /\ out[g] # <<>> /\ id' = id
      BY <1>18 DEF SkipForgotten, ReaderHolds, clientVars
    <3>2. out \in [Gens -> Seq(Response \cup {Garbage})]
      BY DEF TypeOK
    <3>3. ASSUME NEW h \in Gens PROVE SeqSet(out'[h]) \subseteq SeqSet(out[h])
      BY <3>1, <3>2, HoldsTail
    <3>. QED
      BY <3>1, <3>3 DEF OwnInv, OutOwn, Owns
  <2>2. HandOwn'
    <3>1. /\ out' = [out EXCEPT ![g] = Tail(@)] /\ readerAt'[g] = "scanning"
          /\ \A h \in Gens \ {g} : readerAt'[h] = readerAt[h] /\ target'[h] = target[h]
      BY <1>18 DEF TypeOK, SkipForgotten, readerVars
    <3>2. \A h \in Gens \ {g} : out'[h] = out[h]
      BY <3>1 DEF TypeOK
    <3>. QED
      BY <3>1, <3>2 DEF OwnInv, HandOwn
  <2>3. IdsOwn' /\ InOwn' /\ PendingOwn' /\ StreamOwn' /\ OwnAnswers'
    BY <1>18 DEF OwnInv, IdsOwn, InOwn, PendingOwn, StreamOwn, OwnAnswers, Owns, SkipForgotten, clientVars, callVars, transportVars, pipeVars, providerVars
  <2>. QED
    BY <2>1, <2>2, <2>3 DEF OwnInv
<1>19. ASSUME NEW g \in Gens, StopScanning(g) PROVE OwnInv'
  <2>1. HandOwn'
    BY <1>19 DEF TypeOK, OwnInv, HandOwn, StopScanning, pipeVars
  <2>2. IdsOwn' /\ InOwn' /\ OutOwn' /\ PendingOwn' /\ StreamOwn' /\ OwnAnswers'
    BY <1>19 DEF OwnInv, IdsOwn, InOwn, OutOwn, PendingOwn, StreamOwn, OwnAnswers, Owns, StopScanning, clientVars, callVars, transportVars, pipeVars, providerVars
  <2>. QED
    BY <2>1, <2>2 DEF OwnInv
<1>20. ASSUME NEW g \in Gens, Shut(g) PROVE OwnInv'
  <2>1. HandOwn'
    BY <1>20 DEF TypeOK, OwnInv, HandOwn, Shut, pipeVars
  <2>2. IdsOwn' /\ InOwn' /\ OutOwn' /\ PendingOwn' /\ StreamOwn' /\ OwnAnswers'
    BY <1>20 DEF OwnInv, IdsOwn, InOwn, OutOwn, PendingOwn, StreamOwn, OwnAnswers, Owns, Shut, clientVars, callVars, transportVars, pipeVars, providerVars
  <2>. QED
    BY <2>1, <2>2 DEF OwnInv
<1>21. ASSUME NEW g \in Gens, Answer(g) PROVE OwnInv'
  <2>1. InOwn'
    <3>1. in' = [in EXCEPT ![g] = Tail(@)] /\ in[g] # <<>> /\ id' = id /\ in \in [Gens -> Seq(Request)]
      BY <1>21 DEF TypeOK, CanRead, clientVars, Answer
    <3>2. ASSUME NEW h \in Gens PROVE SeqSet(in'[h]) \subseteq SeqSet(in[h])
      BY <3>1, HoldsTail
    <3>. QED
      BY <3>1, <3>2 DEF OwnInv, InOwn, Owns
  <2>2. OutOwn'
    <3>1. PICK h : h = g
      OBVIOUS
    <3>2. PICK e : e = Frame("result", Head(in[g]).id, Head(in[g]).from)
      OBVIOUS
    <3>3. out' = [out EXCEPT ![h] = Append(@, e)] /\ id' = id
      BY <1>21, <3>1, <3>2 DEF Answer, Put, clientVars
    <3>4. IsAnswer(e) => Owns(e.to, e.id)
      <4>1. Head(in[g]) \in SeqSet(in[g])
        BY <1>21, HoldsTail DEF TypeOK, CanRead, Answer
      <4>2. Owns(Head(in[g]).from, Head(in[g]).id)
        BY <4>1 DEF OwnInv, InOwn
      <4>. QED
        BY <3>2, <4>2 DEF Frame
    <3>5. ASSUME NEW k \in Gens PROVE SeqSet(out'[k]) \subseteq SeqSet(out[k]) \cup {e}
      <4>1. out[k] \in Seq(Response \cup {Garbage})
        BY DEF TypeOK
      <4>2. out'[k] = out[k] \/ out'[k] = Append(out[k], e)
        BY <3>3 DEF TypeOK
      <4>. QED
        BY <4>1, <4>2, HoldsAppend
    <3>. QED
      BY <3>3, <3>4, <3>5 DEF OwnInv, OutOwn, Owns
  <2>3. StreamOwn'
    BY <1>21 DEF OwnInv, StreamOwn, Answer, clientVars
  <2>4. HandOwn'
    <3>1. PICK h, e : out' = [out EXCEPT ![h] = Append(@, e)] /\ UNCHANGED <<readerAt, target>>
      BY <1>21 DEF Answer, Put, readerVars
    <3>2. ASSUME NEW k \in Gens, readerAt[k] = "delivering" PROVE Head(out'[k]) = Head(out[k])
      <4>1. out[k] \in Seq(Response \cup {Garbage}) /\ out[k] # <<>>
        BY <3>2 DEF TypeOK, ReaderHolds
      <4>2. out'[k] = out[k] \/ out'[k] = Append(out[k], e)
        BY <3>1 DEF TypeOK
      <4>. QED
        BY <4>1, <4>2, HeadStays
    <3>. QED
      BY <3>1, <3>2 DEF OwnInv, HandOwn
  <2>5. IdsOwn' /\ PendingOwn' /\ OwnAnswers'
    BY <1>21 DEF OwnInv, IdsOwn, PendingOwn, OwnAnswers, Owns, Answer, Put, clientVars, callVars, transportVars
  <2>. QED
    BY <2>1, <2>2, <2>3, <2>4, <2>5 DEF OwnInv
<1>22. ASSUME NEW g \in Gens, OpenWatch(g) PROVE OwnInv'
  <2>1. InOwn'
    <3>1. in' = [in EXCEPT ![g] = Tail(@)] /\ in[g] # <<>> /\ id' = id /\ in \in [Gens -> Seq(Request)]
      BY <1>22 DEF TypeOK, CanRead, clientVars, OpenWatch
    <3>2. ASSUME NEW h \in Gens PROVE SeqSet(in'[h]) \subseteq SeqSet(in[h])
      BY <3>1, HoldsTail
    <3>. QED
      BY <3>1, <3>2 DEF OwnInv, InOwn, Owns
  <2>2. StreamOwn'
    <3>1. Head(in[g]) \in SeqSet(in[g])
      BY <1>22, HoldsTail DEF TypeOK, CanRead, OpenWatch
    <3>2. id[Head(in[g]).from] # 0
      BY <3>1 DEF OwnInv, InOwn, Owns
    <3>. QED
      BY <1>22, <3>2 DEF TypeOK, OwnInv, StreamOwn, OpenWatch, clientVars
  <2>3. IdsOwn' /\ OutOwn' /\ PendingOwn' /\ HandOwn' /\ OwnAnswers'
    BY <1>22 DEF OwnInv, IdsOwn, OutOwn, PendingOwn, HandOwn, OwnAnswers, Owns, OpenWatch, clientVars, callVars, transportVars, readerVars, pipeVars
  <2>. QED
    BY <2>1, <2>2, <2>3 DEF OwnInv
<1>23. ASSUME NEW g \in Gens, RefuseUnready(g) PROVE OwnInv'
  <2>1. InOwn'
    <3>1. in' = [in EXCEPT ![g] = Tail(@)] /\ in[g] # <<>> /\ id' = id /\ in \in [Gens -> Seq(Request)]
      BY <1>23 DEF TypeOK, CanRead, clientVars, RefuseUnready
    <3>2. ASSUME NEW h \in Gens PROVE SeqSet(in'[h]) \subseteq SeqSet(in[h])
      BY <3>1, HoldsTail
    <3>. QED
      BY <3>1, <3>2 DEF OwnInv, InOwn, Owns
  <2>2. OutOwn'
    <3>1. PICK h : h = g
      OBVIOUS
    <3>2. PICK e : e = Frame("unready", Head(in[g]).id, Head(in[g]).from)
      OBVIOUS
    <3>3. out' = [out EXCEPT ![h] = Append(@, e)] /\ id' = id
      BY <1>23, <3>1, <3>2 DEF RefuseUnready, Put, clientVars
    <3>4. IsAnswer(e) => Owns(e.to, e.id)
      <4>1. Head(in[g]) \in SeqSet(in[g])
        BY <1>23, HoldsTail DEF TypeOK, CanRead, RefuseUnready
      <4>2. Owns(Head(in[g]).from, Head(in[g]).id)
        BY <4>1 DEF OwnInv, InOwn
      <4>. QED
        BY <3>2, <4>2 DEF Frame
    <3>5. ASSUME NEW k \in Gens PROVE SeqSet(out'[k]) \subseteq SeqSet(out[k]) \cup {e}
      <4>1. out[k] \in Seq(Response \cup {Garbage})
        BY DEF TypeOK
      <4>2. out'[k] = out[k] \/ out'[k] = Append(out[k], e)
        BY <3>3 DEF TypeOK
      <4>. QED
        BY <4>1, <4>2, HoldsAppend
    <3>. QED
      BY <3>3, <3>4, <3>5 DEF OwnInv, OutOwn, Owns
  <2>3. StreamOwn'
    BY <1>23 DEF OwnInv, StreamOwn, RefuseUnready, clientVars
  <2>4. HandOwn'
    <3>1. PICK h, e : out' = [out EXCEPT ![h] = Append(@, e)] /\ UNCHANGED <<readerAt, target>>
      BY <1>23 DEF RefuseUnready, Put, readerVars
    <3>2. ASSUME NEW k \in Gens, readerAt[k] = "delivering" PROVE Head(out'[k]) = Head(out[k])
      <4>1. out[k] \in Seq(Response \cup {Garbage}) /\ out[k] # <<>>
        BY <3>2 DEF TypeOK, ReaderHolds
      <4>2. out'[k] = out[k] \/ out'[k] = Append(out[k], e)
        BY <3>1 DEF TypeOK
      <4>. QED
        BY <4>1, <4>2, HeadStays
    <3>. QED
      BY <3>1, <3>2 DEF OwnInv, HandOwn
  <2>5. IdsOwn' /\ PendingOwn' /\ OwnAnswers'
    BY <1>23 DEF OwnInv, IdsOwn, PendingOwn, OwnAnswers, Owns, RefuseUnready, Put, clientVars, callVars, transportVars
  <2>. QED
    BY <2>1, <2>2, <2>3, <2>4, <2>5 DEF OwnInv
<1>24. ASSUME NEW g \in Gens, ExitAtEOF(g) PROVE OwnInv'
  <2>1. IdsOwn' /\ InOwn' /\ OutOwn' /\ PendingOwn' /\ StreamOwn' /\ HandOwn' /\ OwnAnswers'
    BY <1>24 DEF OwnInv, IdsOwn, InOwn, OutOwn, PendingOwn, StreamOwn, HandOwn, OwnAnswers, Owns, ExitAtEOF, clientVars, callVars, transportVars, readerVars, pipeVars, providerVars
  <2>. QED
    BY <2>1 DEF OwnInv
<1>25. ASSUME NEW g \in Gens, Crash(g) PROVE OwnInv'
  <2>1. IdsOwn' /\ InOwn' /\ OutOwn' /\ PendingOwn' /\ StreamOwn' /\ HandOwn' /\ OwnAnswers'
    BY <1>25 DEF OwnInv, IdsOwn, InOwn, OutOwn, PendingOwn, StreamOwn, HandOwn, OwnAnswers, Owns, Crash, clientVars, callVars, transportVars, readerVars, pipeVars, providerVars
  <2>. QED
    BY <2>1 DEF OwnInv
<1>26. ASSUME NEW g \in Gens, WriteGarbage(g) PROVE OwnInv'
  <2>1. OutOwn'
    <3>1. PICK h : h = g
      OBVIOUS
    <3>2. PICK e : e = Garbage
      OBVIOUS
    <3>3. out' = [out EXCEPT ![h] = Append(@, e)] /\ id' = id
      BY <1>26, <3>1, <3>2 DEF WriteGarbage, clientVars
    <3>4. IsAnswer(e) => Owns(e.to, e.id)
      BY <3>2 DEF Garbage, IsAnswer
    <3>5. ASSUME NEW k \in Gens PROVE SeqSet(out'[k]) \subseteq SeqSet(out[k]) \cup {e}
      <4>1. out[k] \in Seq(Response \cup {Garbage})
        BY DEF TypeOK
      <4>2. out'[k] = out[k] \/ out'[k] = Append(out[k], e)
        BY <3>3 DEF TypeOK
      <4>. QED
        BY <4>1, <4>2, HoldsAppend
    <3>. QED
      BY <3>3, <3>4, <3>5 DEF OwnInv, OutOwn, Owns
  <2>2. HandOwn'
    <3>1. PICK h, e : out' = [out EXCEPT ![h] = Append(@, e)] /\ UNCHANGED <<readerAt, target>>
      BY <1>26 DEF WriteGarbage, readerVars
    <3>2. ASSUME NEW k \in Gens, readerAt[k] = "delivering" PROVE Head(out'[k]) = Head(out[k])
      <4>1. out[k] \in Seq(Response \cup {Garbage}) /\ out[k] # <<>>
        BY <3>2 DEF TypeOK, ReaderHolds
      <4>2. out'[k] = out[k] \/ out'[k] = Append(out[k], e)
        BY <3>1 DEF TypeOK
      <4>. QED
        BY <4>1, <4>2, HeadStays
    <3>. QED
      BY <3>1, <3>2 DEF OwnInv, HandOwn
  <2>3. IdsOwn' /\ InOwn' /\ PendingOwn' /\ StreamOwn' /\ OwnAnswers'
    BY <1>26 DEF OwnInv, IdsOwn, InOwn, PendingOwn, StreamOwn, OwnAnswers, Owns, WriteGarbage, clientVars, callVars, transportVars, pipeVars, providerVars
  <2>. QED
    BY <2>1, <2>2, <2>3 DEF OwnInv
<1>27. ASSUME NEW w \in Streams, StartWatch(w) PROVE OwnInv'
  <2>1. StreamOwn'
    BY <1>27 DEF TypeOK, OwnInv, StreamOwn, StartWatch, clientVars
  <2>2. IdsOwn' /\ InOwn' /\ OutOwn' /\ PendingOwn' /\ HandOwn' /\ OwnAnswers'
    BY <1>27 DEF OwnInv, IdsOwn, InOwn, OutOwn, PendingOwn, HandOwn, OwnAnswers, Owns, StartWatch, clientVars, callVars, transportVars, readerVars, pipeVars
  <2>. QED
    BY <2>1, <2>2 DEF OwnInv
<1>28. ASSUME NEW w \in Streams, Emit(w) PROVE OwnInv'
  <2>1. OutOwn'
    <3>1. PICK h : h = sentTo[w]
      OBVIOUS
    <3>2. PICK e : e = Frame("event", id[w], w)
      OBVIOUS
    <3>3. out' = [out EXCEPT ![h] = Append(@, e)] /\ id' = id
      BY <1>28, <3>1, <3>2 DEF Emit, Put, clientVars
    <3>4. IsAnswer(e) => Owns(e.to, e.id)
      <4>1. id[w] # 0
        BY <1>28 DEF OwnInv, StreamOwn, Emit
      <4>. QED
        BY <3>2, <4>1 DEF Frame, Owns
    <3>5. ASSUME NEW k \in Gens PROVE SeqSet(out'[k]) \subseteq SeqSet(out[k]) \cup {e}
      <4>1. out[k] \in Seq(Response \cup {Garbage})
        BY DEF TypeOK
      <4>2. out'[k] = out[k] \/ out'[k] = Append(out[k], e)
        BY <3>3 DEF TypeOK
      <4>. QED
        BY <4>1, <4>2, HoldsAppend
    <3>. QED
      BY <3>3, <3>4, <3>5 DEF OwnInv, OutOwn, Owns
  <2>2. HandOwn'
    <3>1. PICK h, e : out' = [out EXCEPT ![h] = Append(@, e)] /\ UNCHANGED <<readerAt, target>>
      BY <1>28 DEF Emit, Put, readerVars
    <3>2. ASSUME NEW k \in Gens, readerAt[k] = "delivering" PROVE Head(out'[k]) = Head(out[k])
      <4>1. out[k] \in Seq(Response \cup {Garbage}) /\ out[k] # <<>>
        BY <3>2 DEF TypeOK, ReaderHolds
      <4>2. out'[k] = out[k] \/ out'[k] = Append(out[k], e)
        BY <3>1 DEF TypeOK
      <4>. QED
        BY <4>1, <4>2, HeadStays
    <3>. QED
      BY <3>1, <3>2 DEF OwnInv, HandOwn
  <2>3. IdsOwn' /\ InOwn' /\ PendingOwn' /\ StreamOwn' /\ OwnAnswers'
    BY <1>28 DEF OwnInv, IdsOwn, InOwn, PendingOwn, StreamOwn, OwnAnswers, Owns, Emit, Put, clientVars, callVars, transportVars, pipeVars, providerVars
  <2>. QED
    BY <2>1, <2>2, <2>3 DEF OwnInv
<1>29. ASSUME NEW w \in Streams, EndStream(w) PROVE OwnInv'
  <2>1. OutOwn'
    <3>1. PICK h : h = sentTo[w]
      OBVIOUS
    <3>k. PICK kind : Put(sentTo[w], kind, id[w], w)
      BY <1>29 DEF EndStream
    <3>2. PICK e : e = Frame(kind, id[w], w)
      OBVIOUS
    <3>3. out' = [out EXCEPT ![h] = Append(@, e)] /\ id' = id
      BY <1>29, <3>1, <3>2, <3>k DEF EndStream, Put, clientVars
    <3>4. IsAnswer(e) => Owns(e.to, e.id)
      <4>1. id[w] # 0
        BY <1>29 DEF OwnInv, StreamOwn, EndStream
      <4>. QED
        BY <3>2, <4>1 DEF Frame, Owns
    <3>5. ASSUME NEW k \in Gens PROVE SeqSet(out'[k]) \subseteq SeqSet(out[k]) \cup {e}
      <4>1. out[k] \in Seq(Response \cup {Garbage})
        BY DEF TypeOK
      <4>2. out'[k] = out[k] \/ out'[k] = Append(out[k], e)
        BY <3>3 DEF TypeOK
      <4>. QED
        BY <4>1, <4>2, HoldsAppend
    <3>. QED
      BY <3>3, <3>4, <3>5 DEF OwnInv, OutOwn, Owns
  <2>2. StreamOwn'
    <3>1. stream[w] # "none" /\ stream' = [stream EXCEPT ![w] = "ended"] /\ id' = id
      BY <1>29 DEF EndStream, clientVars
    <3>. QED
      BY <3>1 DEF TypeOK, OwnInv, StreamOwn
  <2>3. HandOwn'
    <3>1. PICK h, e : out' = [out EXCEPT ![h] = Append(@, e)] /\ UNCHANGED <<readerAt, target>>
      BY <1>29 DEF EndStream, Put, readerVars
    <3>2. ASSUME NEW k \in Gens, readerAt[k] = "delivering" PROVE Head(out'[k]) = Head(out[k])
      <4>1. out[k] \in Seq(Response \cup {Garbage}) /\ out[k] # <<>>
        BY <3>2 DEF TypeOK, ReaderHolds
      <4>2. out'[k] = out[k] \/ out'[k] = Append(out[k], e)
        BY <3>1 DEF TypeOK
      <4>. QED
        BY <4>1, <4>2, HeadStays
    <3>. QED
      BY <3>1, <3>2 DEF OwnInv, HandOwn
  <2>4. IdsOwn' /\ InOwn' /\ PendingOwn' /\ OwnAnswers'
    BY <1>29 DEF OwnInv, IdsOwn, InOwn, PendingOwn, OwnAnswers, Owns, EndStream, Put, clientVars, callVars, transportVars, pipeVars
  <2>. QED
    BY <2>1, <2>2, <2>3, <2>4 DEF OwnInv
<1>30. ASSUME CloseNothing PROVE OwnInv'
  <2>1. IdsOwn' /\ InOwn' /\ OutOwn' /\ PendingOwn' /\ StreamOwn' /\ HandOwn' /\ OwnAnswers'
    BY <1>30 DEF OwnInv, IdsOwn, InOwn, OutOwn, PendingOwn, StreamOwn, HandOwn, OwnAnswers, Owns, CloseNothing, clientVars, callVars, transportVars, readerVars, pipeVars, providerVars
  <2>. QED
    BY <2>1 DEF OwnInv
<1>31. ASSUME CloseBegins PROVE OwnInv'
  <2>1. IdsOwn' /\ InOwn' /\ OutOwn' /\ PendingOwn' /\ StreamOwn' /\ HandOwn' /\ OwnAnswers'
    BY <1>31 DEF OwnInv, IdsOwn, InOwn, OutOwn, PendingOwn, StreamOwn, HandOwn, OwnAnswers, Owns, CloseBegins, clientVars, callVars, transportVars, readerVars, pipeVars, providerVars
  <2>. QED
    BY <2>1 DEF OwnInv
<1>32. ASSUME CloseReaps PROVE OwnInv'
  <2>1. OutOwn'
    <3>1. PICK k \in (IF readerAt[closing] = "delivering" THEN 1 ELSE 0)..Len(out[closing]) :
            out' = [out EXCEPT ![closing] = SubSeq(out[closing], 1, k)]
      BY <1>32 DEF CloseReaps, ReapedOutput
    <3>2. ASSUME NEW h \in Gens PROVE SeqSet(out'[h]) \subseteq SeqSet(out[h])
      <4>1. out \in [Gens -> Seq(Response \cup {Garbage})]
        BY DEF TypeOK
      <4>2. CASE h = closing
        <5>1. k \in 0..Len(out[h]) /\ out'[h] = SubSeq(out[h], 1, k)
          BY <3>1, <4>1, <4>2
        <5>. QED
          BY <4>1, <5>1, HoldsPrefix
      <4>3. CASE h # closing
        BY <3>1, <4>1, <4>3
      <4>. QED
        BY <4>2, <4>3
    <3>3. id' = id
      BY <1>32 DEF CloseReaps, clientVars
    <3>. QED
      BY <3>2, <3>3 DEF OwnInv, OutOwn, Owns
  <2>2. HandOwn'
    <3>1. PICK k \in (IF readerAt[closing] = "delivering" THEN 1 ELSE 0)..Len(out[closing]) :
            out' = [out EXCEPT ![closing] = SubSeq(out[closing], 1, k)]
      BY <1>32 DEF CloseReaps, ReapedOutput
    <3>2. ASSUME NEW h \in Gens, readerAt[h] = "delivering" PROVE Head(out'[h]) = Head(out[h])
      <4>1. out \in [Gens -> Seq(Response \cup {Garbage})] /\ out[h] # <<>>
        BY <3>2 DEF TypeOK, ReaderHolds
      <4>2. CASE h = closing
        <5>1. k \in 1..Len(out[h]) /\ out'[h] = SubSeq(out[h], 1, k)
          BY <3>1, <3>2, <4>1, <4>2
        <5>. QED
          BY <4>1, <5>1, HeadStays
      <4>3. CASE h # closing
        BY <3>1, <4>1, <4>3
      <4>. QED
        BY <4>2, <4>3
    <3>3. UNCHANGED <<readerAt, target>>
      BY <1>32 DEF CloseReaps, readerVars
    <3>. QED
      BY <3>2, <3>3 DEF OwnInv, HandOwn
  <2>3. IdsOwn' /\ InOwn' /\ PendingOwn' /\ StreamOwn' /\ OwnAnswers'
    BY <1>32 DEF OwnInv, IdsOwn, InOwn, PendingOwn, StreamOwn, OwnAnswers, Owns, CloseReaps, clientVars, callVars, transportVars, pipeVars, providerVars
  <2>. QED
    BY <2>1, <2>2, <2>3 DEF OwnInv
<1>33. CASE UNCHANGED vars
  BY <1>33 DEF OwnInv, IdsOwn, InOwn, OutOwn, PendingOwn, StreamOwn, HandOwn, OwnAnswers, Owns, vars, clientVars, callVars, transportVars, readerVars, closeVars, pipeVars, providerVars
<1>. QED
  BY <1>1, <1>2, <1>3, <1>4, <1>5, <1>6, <1>7, <1>8, <1>9, <1>10, <1>11, <1>12, <1>13, <1>14, <1>15, <1>16, <1>17, <1>18, <1>19, <1>20, <1>21, <1>22, <1>23, <1>24, <1>25, <1>26, <1>27, <1>28, <1>29, <1>30, <1>31, <1>32, <1>33
  DEF Next, Caller, Send, Select, Return, Reader, Provider, ServeNext, Watching, Close, Terminated

(* The state Connect leaves is one of them. *)
LEMMA InitHolds ==
  ASSUME Init
  PROVE  TypeOK /\ ReaderHolds /\ OwnInv
<1>1. TypeOK
  BY CallsAssumption, BoundsAssumption
  DEF Init, TypeOK, Gens, Places, Outcomes, ReaderPlaces, StreamStates
<1>2. ReaderHolds
  BY DEF Init, ReaderHolds
<1>3. \A g \in Gens : in[g] = <<>> /\ out[g] = <<>>
  BY DEF Init
<1>4. \A c \in Calls : got[c] = <<>> /\ frames[c] = <<>>
  BY DEF Init
<1>5. SeqSet(<<>>) = {}
  BY DEF SeqSet
<1>6. IdsOwn /\ PendingOwn /\ StreamOwn /\ HandOwn
  BY DEF Init, IdsOwn, PendingOwn, StreamOwn, HandOwn
<1>7. InOwn /\ OutOwn /\ OwnAnswers
  BY <1>3, <1>4, <1>5 DEF InOwn, OutOwn, OwnAnswers
<1>. QED
  BY <1>1, <1>2, <1>6, <1>7 DEF OwnInv

(* Type correctness, for any calls, watches, pipe capacities, faults and    *)
(* number of providers: in particular the reader is never left holding the  *)
(* first line of an empty pipe.                                             *)
THEOREM TypeCorrect == Spec => []TypeOK
<1>1. Init => TypeOK /\ ReaderHolds
  BY InitHolds
<1>2. TypeOK /\ ReaderHolds /\ [Next]_vars => (TypeOK /\ ReaderHolds)'
  BY TypeStep, ReaderStep
<1>. QED
  BY <1>1, <1>2, PTL DEF Spec

(* No call is ever handed another's answer: takeID never repeats an id, and *)
(* every place an id is kept (the pipes, the pending map, the provider's    *)
(* streams, the reader's hand) keeps it with the call that took it, through *)
(* deaths, restarts and abandoned calls.                                    *)
THEOREM AnswersAreOwn == Spec => []OwnAnswers
<1>1. Init => TypeOK /\ ReaderHolds /\ OwnInv
  BY InitHolds
<1>2. TypeOK /\ ReaderHolds /\ OwnInv /\ [Next]_vars => (TypeOK /\ ReaderHolds /\ OwnInv)'
  BY TypeStep, ReaderStep, OwnStep
<1>3. OwnInv => OwnAnswers
  BY DEF OwnInv
<1>. QED
  BY <1>1, <1>2, <1>3, PTL DEF Spec

(* Who holds mu, and what for. *)
LockInv ==
  /\ \A c \in Calls : pc[c] \in {"writing", "reaping"} <=> mu = c
  /\ \A c \in Calls : pc[c] = "reaping" => victim # 0
  /\ victim # 0 => \E c \in Calls : pc[c] = "reaping"
  /\ \A c \in Calls : pc[c] = "writing" => cmd # 0
  /\ closer = "reaping" <=> closing # 0

(* The processes there have been, and who is to reap each. *)
ProcInv ==
  /\ \A g \in Gens : /\ proc[g] = "off" <=> g > gen
                     /\ g > gen => reaped[g] = 0
  /\ victim <= gen /\ closing <= gen
  /\ victim # 0 => victim # cmd /\ victim # closing
  /\ cmd # 0 => cmd # closing
  /\ ReapedOnce
  /\ NoOrphan

(* What the types say of the lock, the providers and the places. *)
LEMMA LockTypes ==
  ASSUME TypeOK
  PROVE  /\ pc \in [Calls -> Places] /\ mu \in Calls \cup {Free} /\ Free \notin Calls
         /\ gen \in Gens /\ cmd \in {0, gen} /\ victim \in {0} \cup Gens /\ closing \in {0} \cup Gens
         /\ reaped \in [Gens -> Nat] /\ proc \in [Gens -> {"off", "running", "exited"}]
         /\ Gens \subseteq Nat \ {0} /\ gen \in Nat \ {0}
<1>1. Gens \subseteq Nat \ {0}
  BY BoundsAssumption DEF Gens
<1>2. gen \in Gens /\ cmd \in {0, gen} /\ victim \in {0} \cup Gens /\ closing \in {0} \cup Gens
  BY DEF TypeOK
<1>3. /\ pc \in [Calls -> Places] /\ mu \in Calls \cup {Free} /\ Free \notin Calls
      /\ reaped \in [Gens -> Nat] /\ proc \in [Gens -> {"off", "running", "exited"}]
  BY CallsAssumption DEF TypeOK
<1>. QED
  BY <1>1, <1>2, <1>3

(* A call that moves on without mu, all else being as it was. *)
LEMMA MovesOn ==
  ASSUME TypeOK, LockInv, ProcInv, NEW c \in Calls, NEW place,
         pc[c] \notin {"writing", "reaping"}, place \notin {"writing", "reaping"},
         pc' = [pc EXCEPT ![c] = place],
         UNCHANGED <<mu, cmd, gen, victim, reaped, closer, closing, proc>>
  PROVE  LockInv' /\ ProcInv'
<1>1. LockInv'
  BY LockTypes DEF LockInv
<1>2. ProcInv'
  BY DEF ProcInv, ReapedOnce, NoOrphan
<1>. QED
  BY <1>1, <1>2

(* A step that touches neither the mutex nor a process. *)
LEMMA StandsStill ==
  ASSUME LockInv, ProcInv,
         UNCHANGED <<pc, mu, cmd, gen, victim, reaped, closer, closing, proc>>
  PROVE  LockInv' /\ ProcInv'
  BY DEF LockInv, ProcInv, ReapedOnce, NoOrphan

(* A process that exits is still to be reaped by whoever was to reap it. *)
LEMMA ProcessExits ==
  ASSUME TypeOK, LockInv, ProcInv, NEW g \in Gens,
         proc[g] = "running", proc' = [proc EXCEPT ![g] = "exited"],
         UNCHANGED <<pc, mu, cmd, gen, victim, reaped, closer, closing>>
  PROVE  LockInv' /\ ProcInv'
<1>1. LockInv'
  BY DEF LockInv
<1>2. ProcInv'
  BY LockTypes DEF ProcInv, ReapedOnce, NoOrphan
<1>. QED
  BY <1>1, <1>2

(* The steps of a call that take, keep or give back mu. *)
LEMMA SendKeepsReaping ==
  ASSUME TypeOK, LockInv, ProcInv, NEW c \in Calls,
         SendToRunning(c) \/ SendStarting(c) \/ Write(c) \/ WriteFails(c)
  PROVE  LockInv' /\ ProcInv'
<1>1. CASE SendToRunning(c)
  <2>1. LockInv'
    BY <1>1, LockTypes DEF LockInv, SendToRunning, Goto, closeVars
  <2>2. ProcInv'
    BY <1>1 DEF ProcInv, ReapedOnce, NoOrphan, SendToRunning, closeVars, providerVars
  <2>. QED
    BY <2>1, <2>2
<1>2. CASE SendStarting(c)
  <2>1. LockInv'
    BY <1>2, LockTypes DEF LockInv, SendStarting, Goto, closeVars
  <2>2. gen + 1 \in Gens
    BY <1>2, LockTypes, BoundsAssumption DEF SendStarting, Gens
  <2>3. \A g \in Gens : proc'[g] = "off" <=> g > gen'
    BY <1>2, <2>2, LockTypes DEF ProcInv, SendStarting
  <2>4. reaped[gen + 1] = 0
    BY <2>2, LockTypes DEF ProcInv
  <2>5. \A g \in Gens : reaped[g] <= 1 /\ (g \in {cmd', victim, closing} => reaped[g] = 0)
    BY <1>2, <2>4 DEF ProcInv, ReapedOnce, SendStarting
  <2>6. \A g \in Gens : proc'[g] # "off" /\ reaped[g] = 0 => g \in {cmd', victim, closing}
    <3>1. cmd = 0 /\ cmd' = gen + 1 /\ \A g \in Gens : g # gen + 1 => proc'[g] = proc[g]
      BY <1>2, LockTypes DEF SendStarting
    <3>. QED
      BY <3>1, LockTypes DEF ProcInv, NoOrphan
  <2>7. UNCHANGED <<victim, closing, reaped>> /\ gen' = gen + 1 /\ cmd' = gen + 1
    BY <1>2 DEF SendStarting, closeVars
  <2>8. ProcInv'
    BY <2>3, <2>5, <2>6, <2>7, LockTypes DEF ProcInv, ReapedOnce, NoOrphan
  <2>. QED
    BY <2>1, <2>8
<1>3. CASE Write(c)
  <2>1. LockInv'
    BY <1>3, LockTypes DEF LockInv, Write, Goto, closeVars
  <2>2. ProcInv'
    BY <1>3 DEF ProcInv, ReapedOnce, NoOrphan, Write, closeVars, providerVars
  <2>. QED
    BY <2>1, <2>2
<1>4. CASE WriteFails(c)
  <2>1. mu = c /\ victim = 0 /\ cmd # 0
    BY <1>4, LockTypes DEF LockInv, WriteFails
  <2>2. LockInv'
    BY <1>4, <2>1, LockTypes DEF LockInv, WriteFails, Goto, closeVars
  <2>3. ProcInv'
    BY <1>4, <2>1, LockTypes DEF ProcInv, ReapedOnce, NoOrphan, WriteFails, closeVars, providerVars
  <2>. QED
    BY <2>2, <2>3
<1>. QED
  BY <1>1, <1>2, <1>3, <1>4

(* death, by the caller that finds the provider gone. *)
LEMMA DeathKeepsReaping ==
  ASSUME TypeOK, LockInv, ProcInv, NEW c \in Calls, DeathReaps(c) \/ Reap(c)
  PROVE  LockInv' /\ ProcInv'
<1>1. CASE DeathReaps(c)
  <2>1. victim = 0 /\ cmd # 0
    BY <1>1, LockTypes DEF LockInv, DeathReaps
  <2>2. LockInv'
    BY <1>1, <2>1, LockTypes DEF LockInv, DeathReaps, Goto, closeVars
  <2>3. ProcInv'
    BY <1>1, <2>1, LockTypes DEF ProcInv, ReapedOnce, NoOrphan, DeathReaps, closeVars, providerVars
  <2>. QED
    BY <2>2, <2>3
<1>2. CASE Reap(c)
  <2>1. mu = c /\ victim \in Gens
    BY <1>2, LockTypes DEF LockInv, Reap
  <2>2. LockInv'
    BY <1>2, <2>1, LockTypes DEF LockInv, Reap, Goto, closeVars
  <2>3. ProcInv'
    BY <1>2, <2>1, LockTypes DEF ProcInv, ReapedOnce, NoOrphan, Reap, closeVars, providerVars
  <2>. QED
    BY <2>2, <2>3
<1>. QED
  BY <1>1, <1>2

(* Close, by the owner of the client. *)
LEMMA CloseKeepsReaping ==
  ASSUME TypeOK, LockInv, ProcInv, Close
  PROVE  LockInv' /\ ProcInv'
<1>1. CASE CloseNothing
  BY <1>1 DEF LockInv, ProcInv, ReapedOnce, NoOrphan, CloseNothing, callVars, transportVars, providerVars
<1>2. CASE CloseBegins
  <2>1. closing = 0 /\ cmd # 0 /\ victim = 0
    BY <1>2, LockTypes DEF LockInv, CloseBegins
  <2>2. LockInv'
    BY <1>2, <2>1, LockTypes DEF LockInv, CloseBegins, callVars
  <2>3. ProcInv'
    BY <1>2, <2>1, LockTypes DEF ProcInv, ReapedOnce, NoOrphan, CloseBegins
  <2>. QED
    BY <2>2, <2>3
<1>3. CASE CloseReaps
  <2>1. closing \in Gens
    BY <1>3, LockTypes DEF LockInv, CloseReaps
  <2>2. LockInv'
    BY <1>3, LockTypes DEF LockInv, CloseReaps, callVars
  <2>3. ProcInv'
    BY <1>3, <2>1, LockTypes DEF ProcInv, ReapedOnce, NoOrphan, CloseReaps, providerVars
  <2>. QED
    BY <2>2, <2>3
<1>. QED
  BY <1>1, <1>2, <1>3 DEF Close

(* Every step of the system. *)
LEMMA ReapingStep ==
  ASSUME TypeOK, LockInv, ProcInv, [Next]_vars
  PROVE  LockInv' /\ ProcInv'
<1>1. ASSUME NEW c \in Calls,
             TakeID(c) \/ StartFails(c) \/ Receive(c) \/ OnFrameReturns(c) \/ SeeClosed(c) \/ GiveUp(c)
             \/ DeathNothingToReap(c) \/ Forget(c)
      PROVE  LockInv' /\ ProcInv'
  <2>1. PICK place \in Places \ {"writing", "reaping"} : pc' = [pc EXCEPT ![c] = place]
    BY <1>1
    DEF TakeID, StartFails, Receive, OnFrameReturns, SeeClosed, GiveUp, DeathNothingToReap, Forget,
        Goto, Finish, Places
  <2>2. pc[c] \notin {"writing", "reaping"}
    BY <1>1
    DEF TakeID, StartFails, Receive, OnFrameReturns, SeeClosed, GiveUp, DeathNothingToReap, Forget
  <2>3. UNCHANGED <<mu, cmd, gen, victim, reaped, closer, closing, proc>>
    BY <1>1
    DEF TakeID, StartFails, Receive, OnFrameReturns, SeeClosed, GiveUp, DeathNothingToReap, Forget,
        transportVars, closeVars, providerVars
  <2>. QED
    BY <2>1, <2>2, <2>3, MovesOn
<1>2. ASSUME NEW c \in Calls,
             SendToRunning(c) \/ SendStarting(c) \/ Write(c) \/ WriteFails(c) \/ DeathReaps(c) \/ Reap(c)
      PROVE  LockInv' /\ ProcInv'
  BY <1>2, SendKeepsReaping, DeathKeepsReaping
<1>3. ASSUME NEW g \in Gens, Reader(g) PROVE LockInv' /\ ProcInv'
  <2>1. UNCHANGED <<pc, mu, cmd, gen, victim, reaped, closer, closing, proc>>
    BY <1>3
    DEF Reader, Lookup, DropUnclaimed, HandOver, SkipForgotten, StopScanning, Shut,
        callVars, transportVars, closeVars, providerVars
  <2>. QED
    BY <2>1, StandsStill
<1>4. ASSUME NEW g \in Gens, Answer(g) \/ OpenWatch(g) \/ RefuseUnready(g) \/ WriteGarbage(g)
      PROVE  LockInv' /\ ProcInv'
  <2>1. UNCHANGED <<pc, mu, cmd, gen, victim, reaped, closer, closing, proc>>
    BY <1>4
    DEF Answer, OpenWatch, RefuseUnready, WriteGarbage, callVars, transportVars, closeVars, providerVars
  <2>. QED
    BY <2>1, StandsStill
<1>5. ASSUME NEW g \in Gens, ExitAtEOF(g) \/ Crash(g) PROVE LockInv' /\ ProcInv'
  BY <1>5, ProcessExits DEF ExitAtEOF, Crash, callVars, transportVars, closeVars
<1>6. ASSUME NEW w \in Streams, Watching(w) PROVE LockInv' /\ ProcInv'
  <2>1. UNCHANGED <<pc, mu, cmd, gen, victim, reaped, closer, closing, proc>>
    BY <1>6 DEF Watching, StartWatch, Emit, EndStream, callVars, transportVars, closeVars, providerVars
  <2>. QED
    BY <2>1, StandsStill
<1>7. CASE Close
  BY <1>7, CloseKeepsReaping
<1>8. CASE UNCHANGED vars
  BY <1>8, StandsStill DEF vars, callVars, transportVars, closeVars, providerVars
<1>. QED
  BY <1>1, <1>2, <1>3, <1>4, <1>5, <1>6, <1>7, <1>8
  DEF Next, Caller, Send, Select, Return, Provider, ServeNext, Terminated

(* No provider is started to begin with. *)
LEMMA ReapingInit ==
  ASSUME Init
  PROVE  LockInv /\ ProcInv
<1>1. 1 \in Gens /\ Gens \subseteq Nat \ {0} /\ Free \notin Calls
  BY CallsAssumption, BoundsAssumption DEF Gens
<1>. QED
  BY <1>1 DEF Init, LockInv, ProcInv, ReapedOnce, NoOrphan

(* Of the callers that find the provider gone and the one that closes it,   *)
(* one waits for the process, however many they are and however often it    *)
(* was started again.                                                       *)
THEOREM AlwaysReapedOnce == Spec => []ReapedOnce
<1>1. Init => TypeOK /\ ReaderHolds /\ LockInv /\ ProcInv
  BY InitHolds, ReapingInit
<1>2. TypeOK /\ ReaderHolds /\ LockInv /\ ProcInv /\ [Next]_vars
      => (TypeOK /\ ReaderHolds /\ LockInv /\ ProcInv)'
  BY TypeStep, ReaderStep, ReapingStep
<1>3. ProcInv => ReapedOnce
  BY DEF ProcInv
<1>. QED
  BY <1>1, <1>2, <1>3, PTL DEF Spec

(* And none of the processes ever started is left to nobody. *)
THEOREM NeverOrphan == Spec => []NoOrphan
<1>1. Init => TypeOK /\ ReaderHolds /\ LockInv /\ ProcInv
  BY InitHolds, ReapingInit
<1>2. TypeOK /\ ReaderHolds /\ LockInv /\ ProcInv /\ [Next]_vars
      => (TypeOK /\ ReaderHolds /\ LockInv /\ ProcInv)'
  BY TypeStep, ReaderStep, ReapingStep
<1>3. ProcInv => NoOrphan
  BY DEF ProcInv
<1>. QED
  BY <1>1, <1>2, <1>3, PTL DEF Spec

-----------------------------------------------------------------------------
(* The pending map.  An entry belongs to a call that has a request under    *)
(* way; a call that writes, or waits on the last process started, has one.  *)

Waits(c) == pc[c] = "writing" \/ (pc[c] \in {"waiting", "inFrame"} /\ sentTo[c] = gen)

HasEntry(c) == id[c] \in DOMAIN pending /\ pending[id[c]] = c

EntryInv ==
  /\ \A c \in Calls : /\ sentTo[c] <= gen
                      /\ pc[c] \in {"waiting", "inFrame", "death", "forgetting"} => sentTo[c] # 0
                      /\ Waits(c) => HasEntry(c)
  /\ \A i \in DOMAIN pending :
       /\ pc[pending[i]] \notin {"idle", "ready", "returned"}
       /\ pc[pending[i]] = "reaping" => sentTo[pending[i]] # 0

(* What the types and the ids say of the waiting table. *)
LEMMA EntryTypes ==
  ASSUME TypeOK, OwnInv
  PROVE  /\ pc \in [Calls -> Places] /\ id \in [Calls -> Nat] /\ sentTo \in [Calls -> {0} \cup Gens]
         /\ \A i \in DOMAIN pending : pending[i] \in Calls /\ id[pending[i]] = i
         /\ \A c, d \in Calls : id[c] = id[d] /\ id[c] # 0 => c = d
         /\ \A c \in Calls : pc[c] # "idle" => id[c] # 0
<1>1. pc \in [Calls -> Places] /\ id \in [Calls -> Nat] /\ sentTo \in [Calls -> {0} \cup Gens]
  BY DEF TypeOK
<1>2. \A i \in DOMAIN pending : pending[i] \in Calls /\ id[pending[i]] = i
  BY DEF TypeOK, OwnInv, PendingOwn, Owns
<1>3. /\ \A c, d \in Calls : id[c] = id[d] /\ id[c] # 0 => c = d
      /\ \A c \in Calls : pc[c] # "idle" => id[c] # 0
  BY DEF OwnInv, IdsOwn
<1>. QED
  BY <1>1, <1>2, <1>3

(* A call that moves on keeps its entry; it loses none that it needs. *)
LEMMA EntryMoves ==
  ASSUME TypeOK, OwnInv, EntryInv, NEW c \in Calls,
         \/ /\ pc[c] = "idle" /\ pc' = [pc EXCEPT ![c] = "ready"]
            /\ \A d \in Calls : d # c => id'[d] = id[d]
         \/ /\ pc[c] = "ready" /\ pc' = [pc EXCEPT ![c] = "returned"] /\ UNCHANGED id
         \/ /\ pc[c] = "waiting" /\ UNCHANGED id
            /\ \E place \in {"inFrame", "forgetting", "death"} : pc' = [pc EXCEPT ![c] = place]
         \/ /\ pc[c] = "inFrame" /\ UNCHANGED id
            /\ \E place \in {"waiting", "forgetting"} : pc' = [pc EXCEPT ![c] = place]
         \/ /\ pc[c] = "death" /\ UNCHANGED id
            /\ \E place \in {"reaping", "forgetting"} : pc' = [pc EXCEPT ![c] = place]
         \/ /\ pc[c] = "reaping" /\ UNCHANGED id
            /\ pc' = [pc EXCEPT ![c] = IF sentTo[c] = 0 THEN "returned" ELSE "forgetting"],
         UNCHANGED <<pending, sentTo, gen>>
  PROVE  EntryInv'
<1>1. \A d \in Calls : /\ sentTo'[d] <= gen'
                       /\ pc'[d] \in {"waiting", "inFrame", "death", "forgetting"} => sentTo'[d] # 0
  BY EntryTypes DEF EntryInv
<1>2. \A d \in Calls : d # c => (Waits(d)' => HasEntry(d)')
  BY EntryTypes DEF EntryInv, Waits, HasEntry
<1>3. Waits(c)' => HasEntry(c)'
  BY EntryTypes DEF EntryInv, Waits, HasEntry
<1>4. \A i \in DOMAIN pending' :
        /\ pc'[pending'[i]] \notin {"idle", "ready", "returned"}
        /\ pc'[pending'[i]] = "reaping" => sentTo'[pending'[i]] # 0
  BY EntryTypes DEF EntryInv
<1>. QED
  BY <1>1, <1>2, <1>3, <1>4 DEF EntryInv

(* A call gives its entry back: the others keep theirs, ids being distinct. *)
LEMMA EntryReturned ==
  ASSUME TypeOK, OwnInv, EntryInv, NEW c \in Calls, pc[c] \in {"writing", "forgetting"},
         NEW place \in {"reaping", "returned"}, pc' = [pc EXCEPT ![c] = place],
         pending' = Unregistered(pending, id[c]) \/ (pending' = pending /\ ~HasEntry(c)),
         UNCHANGED <<id, sentTo, gen>>
  PROVE  EntryInv'
<1>1. \A d \in Calls : /\ sentTo'[d] <= gen'
                       /\ pc'[d] \in {"waiting", "inFrame", "death", "forgetting"} => sentTo'[d] # 0
  BY EntryTypes DEF EntryInv
<1>2. \A d \in Calls : d # c => (HasEntry(d) => HasEntry(d)')
  BY EntryTypes DEF HasEntry, Unregistered
<1>3. \A d \in Calls : Waits(d)' => d # c /\ Waits(d)
  BY EntryTypes DEF Waits
<1>4. \A i \in DOMAIN pending' : i \in DOMAIN pending /\ pending'[i] = pending[i] /\ pending[i] # c
  BY EntryTypes DEF Unregistered, HasEntry
<1>5. \A i \in DOMAIN pending' :
        /\ pc'[pending'[i]] \notin {"idle", "ready", "returned"}
        /\ pc'[pending'[i]] = "reaping" => sentTo'[pending'[i]] # 0
  BY <1>4, EntryTypes DEF EntryInv
<1>. QED
  BY <1>1, <1>2, <1>3, <1>5 DEF EntryInv

(* A call registers and writes. *)
LEMMA EntrySent ==
  ASSUME TypeOK, OwnInv, LockInv, ProcInv, EntryInv, NEW c \in Calls,
         SendToRunning(c) \/ SendStarting(c) \/ Write(c)
  PROVE  EntryInv'
<1>1. CASE SendToRunning(c)
  <2>1. /\ pc[c] = "ready" /\ pc' = [pc EXCEPT ![c] = "writing"] /\ pending' = Registered(pending, id[c], c)
        /\ UNCHANGED <<id, sentTo, gen>>
    BY <1>1 DEF SendToRunning, Goto, clientVars
  <2>2. \A d \in Calls : d # c => (HasEntry(d) => HasEntry(d)')
    BY <2>1, EntryTypes DEF HasEntry, Registered
  <2>3. HasEntry(c)'
    BY <2>1 DEF HasEntry, Registered
  <2>4. \A d \in Calls : d # c => (Waits(d)' <=> Waits(d))
    BY <2>1, EntryTypes DEF Waits
  <2>5. \A i \in DOMAIN pending' : pending'[i] = c \/ (i \in DOMAIN pending /\ pending'[i] = pending[i])
    BY <2>1 DEF Registered
  <2>6. \A d \in Calls : /\ sentTo'[d] <= gen'
                         /\ pc'[d] \in {"waiting", "inFrame", "death", "forgetting"} => sentTo'[d] # 0
    BY <2>1, EntryTypes DEF EntryInv
  <2>7. \A i \in DOMAIN pending' :
          /\ pc'[pending'[i]] \notin {"idle", "ready", "returned"}
          /\ pc'[pending'[i]] = "reaping" => sentTo'[pending'[i]] # 0
    BY <2>1, <2>5, EntryTypes DEF EntryInv
  <2>. QED
    BY <2>2, <2>3, <2>4, <2>6, <2>7 DEF EntryInv
<1>2. CASE SendStarting(c)
  <2>1. /\ pc[c] = "ready" /\ pc' = [pc EXCEPT ![c] = "writing"] /\ pending' = [i \in {id[c]} |-> c]
        /\ UNCHANGED <<id, sentTo>> /\ gen' = gen + 1 /\ mu = Free
    BY <1>2 DEF SendStarting, Goto, clientVars
  <2>2. \A d \in Calls : sentTo[d] \in Nat /\ sentTo[d] <= gen /\ gen \in Nat
    BY EntryTypes, LockTypes DEF EntryInv
  <2>3. \A d \in Calls : pc[d] # "writing"
    BY <2>1, LockTypes DEF LockInv
  <2>4. \A d \in Calls : Waits(d)' => d = c
    BY <2>1, <2>2, <2>3, EntryTypes DEF Waits
  <2>5. HasEntry(c)'
    BY <2>1 DEF HasEntry
  <2>6. \A d \in Calls : /\ sentTo'[d] <= gen'
                         /\ pc'[d] \in {"waiting", "inFrame", "death", "forgetting"} => sentTo'[d] # 0
    BY <2>1, <2>2, EntryTypes DEF EntryInv
  <2>7. \A i \in DOMAIN pending' : pc'[pending'[i]] = "writing"
    BY <2>1, EntryTypes
  <2>. QED
    BY <2>4, <2>5, <2>6, <2>7 DEF EntryInv
<1>3. CASE Write(c)
  <2>1. /\ pc[c] = "writing" /\ pc' = [pc EXCEPT ![c] = "waiting"] /\ sentTo' = [sentTo EXCEPT ![c] = cmd]
        /\ UNCHANGED <<id, pending, gen>>
    BY <1>3 DEF Write, Goto, clientVars
  <2>2. cmd # 0 /\ cmd = gen /\ gen \in Nat
    BY <2>1, LockTypes DEF LockInv
  <2>3. HasEntry(c)
    BY <2>1 DEF EntryInv, Waits
  <2>4. \A d \in Calls : d # c => (Waits(d)' <=> Waits(d))
    BY <2>1, EntryTypes DEF Waits
  <2>5. \A d \in Calls : HasEntry(d)' <=> HasEntry(d)
    BY <2>1 DEF HasEntry
  <2>6. \A d \in Calls : /\ sentTo'[d] <= gen'
                         /\ pc'[d] \in {"waiting", "inFrame", "death", "forgetting"} => sentTo'[d] # 0
    BY <2>1, <2>2, EntryTypes DEF EntryInv
  <2>7. \A i \in DOMAIN pending' :
          /\ pc'[pending'[i]] \notin {"idle", "ready", "returned"}
          /\ pc'[pending'[i]] = "reaping" => sentTo'[pending'[i]] # 0
    BY <2>1, EntryTypes DEF EntryInv
  <2>. QED
    BY <2>3, <2>4, <2>5, <2>6, <2>7 DEF EntryInv
<1>. QED
  BY <1>1, <1>2, <1>3

(* Every step of the system. *)
LEMMA EntryStep ==
  ASSUME TypeOK, OwnInv, LockInv, ProcInv, EntryInv, [Next]_vars
  PROVE  EntryInv'
<1>1. ASSUME NEW c \in Calls, TakeID(c) PROVE EntryInv'
  <2>1. \A d \in Calls : d # c => id'[d] = id[d]
    BY <1>1, EntryTypes DEF TakeID
  <2>. QED
    BY <1>1, <2>1, EntryMoves DEF TakeID, Goto, transportVars
<1>2. ASSUME NEW c \in Calls, StartFails(c) PROVE EntryInv'
  BY <1>2, EntryMoves DEF StartFails, Goto, clientVars, transportVars
<1>3. ASSUME NEW c \in Calls, Receive(c) \/ SeeClosed(c) \/ GiveUp(c) PROVE EntryInv'
  <2>1. /\ pc[c] = "waiting" /\ UNCHANGED id
        /\ \E place \in {"inFrame", "forgetting", "death"} : pc' = [pc EXCEPT ![c] = place]
    BY <1>3 DEF Receive, SeeClosed, GiveUp, Finish, Goto, clientVars
  <2>2. UNCHANGED <<pending, sentTo, gen>>
    BY <1>3 DEF Receive, SeeClosed, GiveUp, transportVars
  <2>. QED
    BY <2>1, <2>2, EntryMoves
<1>4. ASSUME NEW c \in Calls, OnFrameReturns(c) PROVE EntryInv'
  <2>1. /\ pc[c] = "inFrame" /\ UNCHANGED id
        /\ \E place \in {"waiting", "forgetting"} : pc' = [pc EXCEPT ![c] = place]
    BY <1>4 DEF OnFrameReturns, Finish, Goto, clientVars
  <2>2. UNCHANGED <<pending, sentTo, gen>>
    BY <1>4 DEF OnFrameReturns, transportVars
  <2>. QED
    BY <2>1, <2>2, EntryMoves
<1>5. ASSUME NEW c \in Calls, DeathNothingToReap(c) \/ DeathReaps(c) PROVE EntryInv'
  <2>1. /\ pc[c] = "death" /\ UNCHANGED id
        /\ \E place \in {"reaping", "forgetting"} : pc' = [pc EXCEPT ![c] = place]
    BY <1>5 DEF DeathNothingToReap, DeathReaps, Finish, Goto, clientVars
  <2>2. UNCHANGED <<pending, sentTo, gen>>
    BY <1>5 DEF DeathNothingToReap, DeathReaps, transportVars
  <2>. QED
    BY <2>1, <2>2, EntryMoves
<1>6. ASSUME NEW c \in Calls, Reap(c) PROVE EntryInv'
  BY <1>6, EntryMoves DEF Reap, Goto, clientVars
<1>7. ASSUME NEW c \in Calls, SendToRunning(c) \/ SendStarting(c) \/ Write(c) PROVE EntryInv'
  BY <1>7, EntrySent
<1>8. ASSUME NEW c \in Calls, WriteFails(c) PROVE EntryInv'
  BY <1>8, EntryReturned DEF WriteFails, Goto, clientVars
<1>9. ASSUME NEW c \in Calls, Forget(c) PROVE EntryInv'
  <2>1. pending' = Unregistered(pending, id[c]) \/ (pending' = pending /\ ~HasEntry(c))
    BY <1>9 DEF Forget, HasEntry
  <2>. QED
    BY <1>9, <2>1, EntryReturned DEF Forget, Goto, clientVars
<1>10. CASE UNCHANGED <<pc, id, sentTo, gen, pending>>
  BY <1>10 DEF EntryInv, Waits, HasEntry
<1>11. ASSUME NEW g \in Gens, Reader(g) PROVE UNCHANGED <<pc, id, sentTo, gen, pending>>
  BY <1>11
  DEF Reader, Lookup, DropUnclaimed, HandOver, SkipForgotten, StopScanning, Shut,
      clientVars, callVars, transportVars
<1>12. ASSUME NEW g \in Gens, Provider(g) PROVE UNCHANGED <<pc, id, sentTo, gen, pending>>
  BY <1>12
  DEF Provider, ServeNext, Answer, OpenWatch, RefuseUnready, ExitAtEOF, Crash, WriteGarbage,
      clientVars, callVars, transportVars
<1>13. ASSUME NEW w \in Streams, Watching(w) PROVE UNCHANGED <<pc, id, sentTo, gen, pending>>
  BY <1>13 DEF Watching, StartWatch, Emit, EndStream, clientVars, callVars, transportVars
<1>14. ASSUME Close PROVE UNCHANGED <<pc, id, sentTo, gen, pending>>
  BY <1>14 DEF Close, CloseNothing, CloseBegins, CloseReaps, clientVars, callVars, transportVars
<1>15. ASSUME UNCHANGED vars PROVE UNCHANGED <<pc, id, sentTo, gen, pending>>
  BY <1>15 DEF vars, clientVars, callVars, transportVars
<1>. QED
  BY <1>1, <1>2, <1>3, <1>4, <1>5, <1>6, <1>7, <1>8, <1>9, <1>10, <1>11, <1>12, <1>13, <1>14, <1>15
  DEF Next, Caller, Send, Select, Return, Terminated

(* Nobody waits to begin with. *)
LEMMA EntryInit ==
  ASSUME Init
  PROVE  EntryInv
  BY DEF Init, EntryInv, Waits, HasEntry

(* All of it together, for the theorems below. *)
Holding == TypeOK /\ ReaderHolds /\ OwnInv /\ LockInv /\ ProcInv /\ EntryInv

(* Everything together is kept by every step. *)
LEMMA HoldingStep ==
  ASSUME Holding, [Next]_vars
  PROVE  Holding'
  BY TypeStep, ReaderStep, OwnStep, ReapingStep, EntryStep DEF Holding

(* And holds to begin with. *)
LEMMA HoldingInit ==
  ASSUME Init
  PROVE  Holding
  BY InitHolds, ReapingInit, EntryInit DEF Holding

(* Whatever ended a call (an answer, a refusal of its callback, a           *)
(* cancelled context, a broken pipe, the provider's death), and whoever     *)
(* restarted the provider meanwhile, its entry is gone when it has          *)
(* returned.                                                                *)
THEOREM NeverLeaks == Spec => []NothingLeaks
<1>1. Init => Holding
  BY HoldingInit
<1>2. Holding /\ [Next]_vars => Holding'
  BY HoldingStep
<1>3. Holding => NothingLeaks
  BY DEF Holding, EntryInv, NothingLeaks
<1>. QED
  BY <1>1, <1>2, <1>3, PTL DEF Spec

(* And until then, while its provider is the running one, the reader finds  *)
(* it: no restart and no other call's forgetting takes away its entry.      *)
THEOREM WaitersStayRegistered == Spec => []WaitersAreRegistered
<1>1. Init => Holding
  BY HoldingInit
<1>2. Holding /\ [Next]_vars => Holding'
  BY HoldingStep
<1>3. Holding => WaitersAreRegistered
  BY DEF Holding, EntryInv, WaitersAreRegistered, Waits, HasEntry
<1>. QED
  BY <1>1, <1>2, <1>3, PTL DEF Spec

-----------------------------------------------------------------------------
(* Frames.                                                                 *)

(* A line is a frame of c. *)
Mine(line, c) == IsAnswer(line) /\ line.to = c

(* In a pipe, the frames of one call are in the order of their numbers. *)
InOrder(q) ==
  \A j, k \in 1..Len(q) :
    j < k /\ IsAnswer(q[j]) /\ Mine(q[k], q[j].to) => q[j].n < q[k].n

(* Every frame of c in the pipe is after `base`, and each between is before *)
(* it.                                                                      *)
Dense(q, c, base) ==
  \A k \in 1..Len(q) : Mine(q[k], c) =>
    /\ q[k].n > base
    /\ \A m \in Nat : base < m /\ m <= q[k].n => \E j \in 1..k : Mine(q[j], c) /\ q[j].n = m

(* All frames of c after `base`, to the one numbered `top`, are there. *)
Complete(q, c, base, top) ==
  \A m \in Nat : base < m /\ m <= top => \E j \in 1..Len(q) : Mine(q[j], c) /\ q[j].n = m

(* The reader can find the caller, or has. *)
Reachable(c) == HasEntry(c) \/ \E g \in Gens : readerAt[g] = "delivering" /\ target[g] = c

Fresh(c) == made[c] = 0 /\ (c \in Streams => stream[c] = "none")

(* The number of a frame is one of those made, and it is a last frame if it *)
(* is the last one there will be.                                           *)
Numbered(f, c) == f.n \in 1..made[c] /\ (IsLast(f) <=> f.n = made[c] /\ FinalMade(c))

UnsentInv ==
  \A c \in Calls :
    /\ pc[c] \in {"idle", "ready", "writing"} => sentTo[c] = 0
    /\ sentTo[c] = 0 => Fresh(c) /\ got[c] = <<>> /\ frames[c] = <<>>
    /\ done[c] => pc[c] = "returned"

InInv ==
  \A g \in Gens : \A k \in 1..Len(in[g]) :
    /\ sentTo[in[g][k].from] = g /\ Fresh(in[g][k].from)
    /\ \A j \in 1..Len(in[g]) : in[g][j].from = in[g][k].from => j = k

Sound(line, g) == IsAnswer(line) => sentTo[line.to] = g /\ Numbered(line, line.to)

OutInv == \A g \in Gens : InOrder(out[g]) /\ \A k \in 1..Len(out[g]) : Sound(out[g][k], g)

SeenInv ==
  \A c \in Calls :
    /\ \A k \in 1..Len(got[c]) : got[c][k].n = k /\ Numbered(got[c][k], c)
    /\ \A k \in 1..Len(frames[c]) : frames[c][k].n = Len(got[c]) + k /\ Numbered(frames[c][k], c)

HandedOver(c) == Len(got[c]) + Len(frames[c])

UnderWayInv ==
  \A c \in Calls : \A g \in Gens : Reachable(c) /\ sentTo[c] = g =>
    /\ Dense(out[g], c, HandedOver(c))
    /\ proc[g] = "running" => Complete(out[g], c, HandedOver(c), made[c])

FrameInv == UnsentInv /\ InInv /\ OutInv /\ SeenInv /\ UnderWayInv

-----------------------------------------------------------------------------
(* What a line added to a pipe, taken from it or lost leaves true of it.    *)

Line == Response \cup {Garbage}

(* The lines that answer are responses. *)
LEMMA LineTypes ==
  ASSUME NEW line \in Line, IsAnswer(line)
  PROVE  line \in Response /\ line.n \in Nat /\ line.to \in Calls
  BY DEF Line, IsAnswer, Garbage, Response

(* A queue stays in order when a later frame joins it. *)
LEMMA OrderAppend ==
  ASSUME NEW q \in Seq(Line), NEW f \in Line, InOrder(q),
         IsAnswer(f) => \A k \in 1..Len(q) : Mine(q[k], f.to) => q[k].n < f.n
  PROVE  InOrder(Append(q, f))
<1>1. /\ Len(Append(q, f)) = Len(q) + 1 /\ Append(q, f)[Len(q) + 1] = f /\ Len(q) \in Nat
      /\ \A k \in 1..Len(q) : Append(q, f)[k] = q[k]
  OBVIOUS
<1> SUFFICES ASSUME NEW j \in 1..(Len(q) + 1), NEW k \in 1..(Len(q) + 1), j < k,
                    IsAnswer(Append(q, f)[j]), Mine(Append(q, f)[k], Append(q, f)[j].to)
             PROVE  Append(q, f)[j].n < Append(q, f)[k].n
  BY <1>1 DEF InOrder
<1>2. j \in 1..Len(q) /\ Append(q, f)[j] = q[j]
  BY <1>1
<1>3. CASE k \in 1..Len(q)
  BY <1>1, <1>2, <1>3 DEF InOrder
<1>4. CASE k = Len(q) + 1
  BY <1>1, <1>2, <1>4 DEF Mine
<1>. QED
  BY <1>1, <1>3, <1>4

(* A queue stays in order when its first line leaves it. *)
LEMMA OrderTail ==
  ASSUME NEW q \in Seq(Line), q # <<>>, InOrder(q)
  PROVE  InOrder(Tail(q))
<1>1. /\ Len(Tail(q)) = Len(q) - 1 /\ Len(q) \in Nat \ {0}
      /\ \A k \in 1..(Len(q) - 1) : Tail(q)[k] = q[k + 1]
  OBVIOUS
<1> SUFFICES ASSUME NEW j \in 1..(Len(q) - 1), NEW k \in 1..(Len(q) - 1), j < k,
                    IsAnswer(Tail(q)[j]), Mine(Tail(q)[k], Tail(q)[j].to)
             PROVE  Tail(q)[j].n < Tail(q)[k].n
  BY <1>1 DEF InOrder
<1>2. j + 1 \in 1..Len(q) /\ k + 1 \in 1..Len(q) /\ j + 1 < k + 1
  BY <1>1
<1>. QED
  BY <1>1, <1>2 DEF InOrder

(* What a dying process leaves of a queue is in order. *)
LEMMA OrderPrefix ==
  ASSUME NEW q \in Seq(Line), NEW n \in 0..Len(q), InOrder(q)
  PROVE  InOrder(SubSeq(q, 1, n))
<1>1. Len(SubSeq(q, 1, n)) = n /\ \A k \in 1..n : k \in 1..Len(q) /\ SubSeq(q, 1, n)[k] = q[k]
  OBVIOUS
<1>. QED
  BY <1>1 DEF InOrder

(* The next frame of a call continues what the queue holds of it. *)
LEMMA DenseAppend ==
  ASSUME NEW q \in Seq(Line), NEW f \in Line, NEW c, NEW base \in Nat, NEW top \in Nat, base <= top,
         Dense(q, c, base), Complete(q, c, base, top), Mine(f, c) => f.n = top + 1
  PROVE  /\ Dense(Append(q, f), c, base)
         /\ Complete(Append(q, f), c, base, IF Mine(f, c) THEN top + 1 ELSE top)
<1>1. /\ Len(Append(q, f)) = Len(q) + 1 /\ Append(q, f)[Len(q) + 1] = f /\ Len(q) \in Nat
      /\ \A k \in 1..Len(q) : Append(q, f)[k] = q[k]
  OBVIOUS
<1>2. Complete(Append(q, f), c, base, IF Mine(f, c) THEN top + 1 ELSE top)
  <2> SUFFICES ASSUME NEW m \in Nat, base < m, m <= IF Mine(f, c) THEN top + 1 ELSE top
               PROVE  \E j \in 1..(Len(q) + 1) : Mine(Append(q, f)[j], c) /\ Append(q, f)[j].n = m
    BY <1>1 DEF Complete
  <2>1. CASE m <= top
    <3>1. PICK j \in 1..Len(q) : Mine(q[j], c) /\ q[j].n = m
      BY <2>1 DEF Complete
    <3>2. j \in 1..(Len(q) + 1) /\ Append(q, f)[j] = q[j]
      BY <1>1
    <3>. QED
      BY <3>1, <3>2
  <2>2. CASE m = top + 1 /\ Mine(f, c)
    BY <1>1, <2>2
  <2>. QED
    BY <2>1, <2>2
<1>3. Dense(Append(q, f), c, base)
  <2> SUFFICES ASSUME NEW k \in 1..(Len(q) + 1), Mine(Append(q, f)[k], c)
               PROVE  /\ Append(q, f)[k].n > base
                      /\ \A m \in Nat : base < m /\ m <= Append(q, f)[k].n =>
                           \E j \in 1..k : Mine(Append(q, f)[j], c) /\ Append(q, f)[j].n = m
    BY <1>1 DEF Dense
  <2>1. CASE k \in 1..Len(q)
    <3>1. Append(q, f)[k] = q[k] /\ \A j \in 1..k : Append(q, f)[j] = q[j]
      BY <1>1, <2>1
    <3>. QED
      BY <2>1, <3>1 DEF Dense
  <2>2. CASE k = Len(q) + 1
    <3>1. Mine(f, c) /\ Append(q, f)[k].n = top + 1
      BY <1>1, <2>2
    <3>. QED
      BY <1>1, <1>2, <2>2, <3>1 DEF Complete
  <2>. QED
    BY <1>1, <2>1, <2>2
<1>. QED
  BY <1>2, <1>3

(* The first line goes, and it is not for c. *)
LEMMA DenseSkip ==
  ASSUME NEW q \in Seq(Line), q # <<>>, NEW c, NEW base \in Nat, ~Mine(Head(q), c), Dense(q, c, base)
  PROVE  /\ Dense(Tail(q), c, base)
         /\ \A top \in Nat : Complete(q, c, base, top) => Complete(Tail(q), c, base, top)
<1>1. /\ Len(Tail(q)) = Len(q) - 1 /\ Len(q) \in Nat \ {0} /\ Head(q) = q[1]
      /\ \A k \in 1..(Len(q) - 1) : Tail(q)[k] = q[k + 1]
  OBVIOUS
<1>2. ASSUME NEW k \in 1..Len(q), Mine(q[k], c) PROVE k - 1 \in 1..(Len(q) - 1) /\ Tail(q)[k - 1] = q[k]
  BY <1>1, <1>2
<1>3. Dense(Tail(q), c, base)
  <2> SUFFICES ASSUME NEW k \in 1..(Len(q) - 1), Mine(Tail(q)[k], c)
               PROVE  /\ Tail(q)[k].n > base
                      /\ \A m \in Nat : base < m /\ m <= Tail(q)[k].n =>
                           \E j \in 1..k : Mine(Tail(q)[j], c) /\ Tail(q)[j].n = m
    BY <1>1 DEF Dense
  <2>1. k + 1 \in 1..Len(q) /\ Tail(q)[k] = q[k + 1]
    BY <1>1
  <2>2. q[k + 1].n > base
    BY <2>1 DEF Dense
  <2>3. ASSUME NEW m \in Nat, base < m, m <= q[k + 1].n
        PROVE  \E j \in 1..k : Mine(Tail(q)[j], c) /\ Tail(q)[j].n = m
    <3>1. PICK j \in 1..(k + 1) : Mine(q[j], c) /\ q[j].n = m
      BY <2>1, <2>3 DEF Dense
    <3>2. j \in 1..Len(q)
      BY <1>1, <2>1
    <3>3. j - 1 \in 1..(Len(q) - 1) /\ Tail(q)[j - 1] = q[j]
      BY <1>2, <3>1, <3>2
    <3>. QED
      BY <3>1, <3>3
  <2>. QED
    BY <2>1, <2>2, <2>3
<1>4. ASSUME NEW top \in Nat, Complete(q, c, base, top) PROVE Complete(Tail(q), c, base, top)
  <2> SUFFICES ASSUME NEW m \in Nat, base < m, m <= top
               PROVE  \E j \in 1..(Len(q) - 1) : Mine(Tail(q)[j], c) /\ Tail(q)[j].n = m
    BY <1>1 DEF Complete
  <2>1. PICK j \in 1..Len(q) : Mine(q[j], c) /\ q[j].n = m
    BY <1>4 DEF Complete
  <2>. QED
    BY <1>2, <2>1
<1>. QED
  BY <1>3, <1>4

(* The first line goes to c: it is the frame that c waits for. *)
LEMMA DenseTake ==
  ASSUME NEW q \in Seq(Line), q # <<>>, NEW c, NEW base \in Nat, Mine(Head(q), c), InOrder(q), Dense(q, c, base)
  PROVE  /\ Head(q).n = base + 1
         /\ Dense(Tail(q), c, base + 1)
         /\ \A top \in Nat : Complete(q, c, base, top) => Complete(Tail(q), c, base + 1, top)
<1>1. /\ Len(Tail(q)) = Len(q) - 1 /\ Len(q) \in Nat \ {0} /\ Head(q) = q[1] /\ q[1] \in Line
      /\ \A k \in 1..(Len(q) - 1) : Tail(q)[k] = q[k + 1]
  OBVIOUS
<1>2. q[1].n \in Nat /\ IsAnswer(q[1]) /\ q[1].to = c
  BY <1>1, LineTypes DEF Mine
<1>3. q[1].n = base + 1
  <2>1. q[1].n > base /\ \E j \in 1..1 : Mine(q[j], c) /\ q[j].n = base + 1
    BY <1>1, <1>2 DEF Dense
  <2>. QED
    BY <2>1
<1>4. ASSUME NEW k \in 2..Len(q), Mine(q[k], c) PROVE q[k].n > base + 1
  <2>1. q[k] \in Line /\ q[k].n \in Nat
    BY <1>1, <1>4, LineTypes DEF Mine
  <2>. QED
    BY <1>1, <1>2, <1>3, <1>4, <2>1 DEF InOrder
<1>5. ASSUME NEW j \in 1..Len(q), q[j].n > base + 1
      PROVE  j - 1 \in 1..(Len(q) - 1) /\ Tail(q)[j - 1] = q[j]
  <2>1. j # 1
    BY <1>3, <1>5
  <2>. QED
    BY <1>1, <2>1
<1>6. Dense(Tail(q), c, base + 1)
  <2> SUFFICES ASSUME NEW k \in 1..(Len(q) - 1), Mine(Tail(q)[k], c)
               PROVE  /\ Tail(q)[k].n > base + 1
                      /\ \A m \in Nat : base + 1 < m /\ m <= Tail(q)[k].n =>
                           \E j \in 1..k : Mine(Tail(q)[j], c) /\ Tail(q)[j].n = m
    BY <1>1 DEF Dense
  <2>1. k + 1 \in 2..Len(q) /\ k + 1 \in 1..Len(q) /\ Tail(q)[k] = q[k + 1]
    BY <1>1
  <2>2. q[k + 1].n > base + 1
    BY <1>4, <2>1
  <2>3. ASSUME NEW m \in Nat, base + 1 < m, m <= q[k + 1].n
        PROVE  \E j \in 1..k : Mine(Tail(q)[j], c) /\ Tail(q)[j].n = m
    <3>1. PICK j \in 1..(k + 1) : Mine(q[j], c) /\ q[j].n = m
      BY <2>1, <2>3 DEF Dense
    <3>2. j \in 1..Len(q) /\ q[j].n > base + 1
      BY <1>1, <2>1, <2>3, <3>1
    <3>3. j - 1 \in 1..(Len(q) - 1) /\ Tail(q)[j - 1] = q[j] /\ j - 1 \in 1..k
      BY <1>5, <3>2
    <3>. QED
      BY <3>1, <3>3
  <2>. QED
    BY <2>1, <2>2, <2>3
<1>7. ASSUME NEW top \in Nat, Complete(q, c, base, top) PROVE Complete(Tail(q), c, base + 1, top)
  <2> SUFFICES ASSUME NEW m \in Nat, base + 1 < m, m <= top
               PROVE  \E j \in 1..(Len(q) - 1) : Mine(Tail(q)[j], c) /\ Tail(q)[j].n = m
    BY <1>1 DEF Complete
  <2>1. PICK j \in 1..Len(q) : Mine(q[j], c) /\ q[j].n = m
    BY <1>7 DEF Complete
  <2>. QED
    BY <1>5, <2>1
<1>. QED
  BY <1>1, <1>3, <1>6, <1>7

(* The end of the pipe is lost. *)
LEMMA DensePrefix ==
  ASSUME NEW q \in Seq(Line), NEW n \in 0..Len(q), NEW c, NEW base, Dense(q, c, base)
  PROVE  Dense(SubSeq(q, 1, n), c, base)
<1>1. Len(SubSeq(q, 1, n)) = n /\ \A k \in 1..n : k \in 1..Len(q) /\ SubSeq(q, 1, n)[k] = q[k]
  OBVIOUS
<1> SUFFICES ASSUME NEW k \in 1..n, Mine(q[k], c)
             PROVE  /\ q[k].n > base
                    /\ \A m \in Nat : base < m /\ m <= q[k].n =>
                         \E j \in 1..k : Mine(SubSeq(q, 1, n)[j], c) /\ SubSeq(q, 1, n)[j].n = m
  BY <1>1 DEF Dense
<1>2. \A j \in 1..k : SubSeq(q, 1, n)[j] = q[j]
  BY <1>1
<1>. QED
  BY <1>1, <1>2 DEF Dense

-----------------------------------------------------------------------------
(* What the steps do to the frames, by kind of step.                        *)

(* What Holding says of the variables the frames travel through. *)
LEMMA FrameTypes ==
  ASSUME TypeOK
  PROVE  /\ out \in [Gens -> Seq(Line)] /\ in \in [Gens -> Seq(Request)]
         /\ got \in [Calls -> Seq(Response)] /\ frames \in [Calls -> Seq(Response)]
         /\ made \in [Calls -> Nat] /\ sentTo \in [Calls -> {0} \cup Gens] /\ pc \in [Calls -> Places]
         /\ stream \in [Streams -> StreamStates] /\ Streams \subseteq Calls /\ 0 \notin Gens
         /\ \A g \in Gens : \A k \in 1..Len(in[g]) : in[g][k] \in Request /\ in[g][k].from \in Calls
         /\ \A g \in Gens : \A k \in 1..Len(out[g]) :
              IsAnswer(out[g][k]) => out[g][k] \in Response /\ out[g][k].to \in Calls /\ out[g][k].n \in Nat
<1>1. out \in [Gens -> Seq(Line)] /\ in \in [Gens -> Seq(Request)]
  BY DEF TypeOK, Line
<1>2. ASSUME NEW g \in Gens, NEW k \in 1..Len(in[g])
      PROVE  in[g][k] \in Request /\ in[g][k].from \in Calls
  <2>1. in[g] \in Seq(Request)
    BY <1>1
  <2>2. in[g][k] \in Request
    BY <2>1
  <2>. QED
    BY <2>2 DEF Request
<1>3. ASSUME NEW g \in Gens, NEW k \in 1..Len(out[g]), IsAnswer(out[g][k])
      PROVE  out[g][k] \in Response /\ out[g][k].to \in Calls /\ out[g][k].n \in Nat
  <2>1. out[g][k] \in Line
    BY <1>1
  <2>. QED
    BY <1>3, <2>1, LineTypes
<1>4. /\ got \in [Calls -> Seq(Response)] /\ frames \in [Calls -> Seq(Response)]
      /\ made \in [Calls -> Nat] /\ sentTo \in [Calls -> {0} \cup Gens] /\ pc \in [Calls -> Places]
      /\ stream \in [Streams -> StreamStates] /\ Streams \subseteq Calls
  BY CallsAssumption DEF TypeOK
<1>5. 0 \notin Gens
  BY BoundsAssumption DEF Gens
<1>. QED
  BY <1>1, <1>2, <1>3, <1>4, <1>5

(* A caller has been handed no more frames than there are. *)
LEMMA HandedTypes ==
  ASSUME TypeOK, SeenInv, NEW c \in Calls
  PROVE  HandedOver(c) \in Nat /\ HandedOver(c) <= made[c]
<1>1. got[c] \in Seq(Response) /\ frames[c] \in Seq(Response) /\ made[c] \in Nat
  BY FrameTypes
<1>2. PICK a \in Nat, b \in Nat : a = Len(got[c]) /\ b = Len(frames[c])
  BY <1>1
<1>3. HandedOver(c) = a + b
  BY <1>2 DEF HandedOver
<1>4. ASSUME NEW k \in 1..b PROVE frames[c][k].n = a + k /\ frames[c][k].n \in 1..made[c]
  <2>1. k \in 1..Len(frames[c])
    BY <1>2
  <2>2. frames[c][k].n = Len(got[c]) + k /\ Numbered(frames[c][k], c)
    BY <2>1 DEF SeenInv
  <2>. QED
    BY <1>2, <2>2 DEF Numbered
<1>5. ASSUME NEW k \in 1..a PROVE got[c][k].n = k /\ got[c][k].n \in 1..made[c]
  <2>1. k \in 1..Len(got[c])
    BY <1>2
  <2>2. got[c][k].n = k /\ Numbered(got[c][k], c)
    BY <2>1 DEF SeenInv
  <2>. QED
    BY <2>2 DEF Numbered
<1>6. CASE b # 0
  <2>1. b \in 1..b
    BY <1>6
  <2>2. a + b \in 1..made[c]
    BY <1>4, <2>1
  <2>. QED
    BY <1>1, <1>3, <2>2
<1>7. CASE b = 0 /\ a # 0
  <2>1. a \in 1..a
    BY <1>7
  <2>2. a \in 1..made[c]
    BY <1>5, <2>1
  <2>. QED
    BY <1>1, <1>3, <1>7, <2>2
<1>8. CASE b = 0 /\ a = 0
  BY <1>1, <1>3, <1>8
<1>. QED
  BY <1>6, <1>7, <1>8

(* No frame is made, moved or lost. *)
LEMMA FramesStay ==
  ASSUME OutInv, SeenInv, UnderWayInv,
         UNCHANGED <<sentTo, got, frames, out, made>>,
         \A c \in Calls : FinalMade(c)' = FinalMade(c),
         \A c \in Calls : Reachable(c)' /\ sentTo[c] # 0 => Reachable(c),
         \A c \in Calls : \A g \in Gens : sentTo[c] = g /\ proc'[g] = "running" => proc[g] = "running",
         TypeOK
  PROVE  OutInv' /\ SeenInv' /\ UnderWayInv'
<1>1. OutInv'
  BY FrameTypes DEF OutInv, Sound, Numbered
<1>2. SeenInv'
  BY DEF SeenInv, Numbered
<1>3. UnderWayInv'
  <2> SUFFICES ASSUME NEW c \in Calls, NEW g \in Gens, Reachable(c)', sentTo[c] = g
               PROVE  /\ Dense(out[g], c, HandedOver(c))
                      /\ proc'[g] = "running" => Complete(out[g], c, HandedOver(c), made[c])
    BY DEF UnderWayInv, HandedOver
  <2>1. Reachable(c)
    BY FrameTypes
  <2>. QED
    BY <2>1 DEF UnderWayInv
<1>. QED
  BY <1>1, <1>2, <1>3

(* The end of a pipe is lost with its process. *)
LEMMA FramesLost ==
  ASSUME TypeOK, OutInv, SeenInv, UnderWayInv, NEW h \in Gens, NEW n \in 0..Len(out[h]),
         proc[h] = "exited", out' = [out EXCEPT ![h] = SubSeq(out[h], 1, n)],
         UNCHANGED <<sentTo, got, frames, made, stream, proc>>,
         \A c \in Calls : Reachable(c)' => Reachable(c)
  PROVE  OutInv' /\ SeenInv' /\ UnderWayInv'
<1>0. \A c \in Calls : FinalMade(c)' = FinalMade(c)
  BY DEF FinalMade
<1>1. /\ \A g \in Gens : g # h => out'[g] = out[g]
      /\ out'[h] = SubSeq(out[h], 1, n) /\ out[h] \in Seq(Line)
  BY FrameTypes
<1>2. Len(out'[h]) = n /\ \A k \in 1..n : k \in 1..Len(out[h]) /\ out'[h][k] = out[h][k]
  BY <1>1
<1>3. OutInv'
  <2>1. ASSUME NEW g \in Gens PROVE InOrder(out'[g])
    BY <1>1, OrderPrefix DEF OutInv
  <2>2. ASSUME NEW g \in Gens, NEW k \in 1..Len(out'[g]) PROVE Sound(out[g][k], g)'
    <3>0. \E j \in 1..Len(out[g]) : out'[g][k] = out[g][j]
      <4>1. CASE g = h
        <5>1. k \in 1..Len(out'[h])
          BY <4>1
        <5>. QED
          BY <1>2, <4>1, <5>1
      <4>2. CASE g # h
        <5>1. out'[g] = out[g]
          BY <1>1, <4>2
        <5>. QED
          BY <5>1
      <4>. QED
        BY <4>1, <4>2
    <3>1. PICK j \in 1..Len(out[g]) : out'[g][k] = out[g][j]
      BY <3>0
    <3>2. PICK line : line = out[g][j]
      OBVIOUS
    <3>3. IsAnswer(line) => line.to \in Calls
      BY <3>2, FrameTypes
    <3>4. Sound(line, g)
      BY <3>2 DEF OutInv
    <3>5. Sound(line, g)'
      BY <1>0, <3>3, <3>4 DEF Sound, Numbered
    <3>. QED
      BY <3>1, <3>2, <3>5 DEF Sound, Numbered
  <2>. QED
    BY <2>1, <2>2 DEF OutInv
<1>4. SeenInv'
  BY <1>0 DEF SeenInv, Numbered
<1>5. UnderWayInv'
  <2> SUFFICES ASSUME NEW c \in Calls, NEW g \in Gens, Reachable(c)', sentTo[c] = g
               PROVE  /\ Dense(out'[g], c, HandedOver(c))
                      /\ proc[g] = "running" => Complete(out'[g], c, HandedOver(c), made[c])
    BY DEF UnderWayInv, HandedOver
  <2>1. Dense(out[g], c, HandedOver(c)) /\ (proc[g] = "running" => Complete(out[g], c, HandedOver(c), made[c]))
    BY DEF UnderWayInv
  <2>. QED
    BY <1>1, <2>1, DensePrefix
<1>. QED
  BY <1>3, <1>4, <1>5

(* The reader drops the first line, which nobody can be handed. *)
LEMMA FrameDropped ==
  ASSUME TypeOK, OutInv, SeenInv, UnderWayInv, NEW h \in Gens, out[h] # <<>>,
         out' = [out EXCEPT ![h] = Tail(out[h])],
         UNCHANGED <<sentTo, got, frames, made, stream, proc>>,
         \A c \in Calls : Reachable(c)' => Reachable(c) /\ ~Mine(Head(out[h]), c)
  PROVE  OutInv' /\ SeenInv' /\ UnderWayInv'
<1>0. \A c \in Calls : FinalMade(c)' = FinalMade(c)
  BY DEF FinalMade
<1>1. /\ \A g \in Gens : g # h => out'[g] = out[g]
      /\ out'[h] = Tail(out[h]) /\ out[h] \in Seq(Line)
  BY FrameTypes
<1>2. \A k \in 1..Len(out'[h]) : k + 1 \in 1..Len(out[h]) /\ out'[h][k] = out[h][k + 1]
  <2>1. PICK q \in Seq(Line) : q = out[h] /\ q # <<>>
    BY <1>1
  <2>2. \A k \in 1..Len(Tail(q)) : k + 1 \in 1..Len(q) /\ Tail(q)[k] = q[k + 1]
    BY <2>1
  <2>. QED
    BY <1>1, <2>1, <2>2
<1>3. OutInv'
  <2>1. ASSUME NEW g \in Gens PROVE InOrder(out'[g])
    BY <1>1, OrderTail DEF OutInv
  <2>2. ASSUME NEW g \in Gens, NEW k \in 1..Len(out'[g]) PROVE Sound(out[g][k], g)'
    <3>0. \E j \in 1..Len(out[g]) : out'[g][k] = out[g][j]
      <4>1. CASE g = h
        <5>1. k \in 1..Len(out'[h])
          BY <4>1
        <5>. QED
          BY <1>2, <4>1, <5>1
      <4>2. CASE g # h
        <5>1. out'[g] = out[g]
          BY <1>1, <4>2
        <5>. QED
          BY <5>1
      <4>. QED
        BY <4>1, <4>2
    <3>1. PICK j \in 1..Len(out[g]) : out'[g][k] = out[g][j]
      BY <3>0
    <3>2. PICK line : line = out[g][j]
      OBVIOUS
    <3>3. IsAnswer(line) => line.to \in Calls
      BY <3>2, FrameTypes
    <3>4. Sound(line, g)
      BY <3>2 DEF OutInv
    <3>5. Sound(line, g)'
      BY <1>0, <3>3, <3>4 DEF Sound, Numbered
    <3>. QED
      BY <3>1, <3>2, <3>5 DEF Sound, Numbered
  <2>. QED
    BY <2>1, <2>2 DEF OutInv
<1>4. SeenInv'
  BY <1>0 DEF SeenInv, Numbered
<1>5. UnderWayInv'
  <2> SUFFICES ASSUME NEW c \in Calls, NEW g \in Gens, Reachable(c)', sentTo[c] = g
               PROVE  /\ Dense(out'[g], c, HandedOver(c))
                      /\ proc[g] = "running" => Complete(out'[g], c, HandedOver(c), made[c])
    BY DEF UnderWayInv, HandedOver
  <2>1. Dense(out[g], c, HandedOver(c)) /\ (proc[g] = "running" => Complete(out[g], c, HandedOver(c), made[c]))
    BY DEF UnderWayInv
  <2>2. HandedOver(c) \in Nat /\ made[c] \in Nat
    BY HandedTypes, FrameTypes
  <2>. QED
    BY <1>1, <2>1, <2>2, DenseSkip
<1>. QED
  BY <1>3, <1>4, <1>5

(* The provider writes a frame of c: a new number, in the pipe of c. *)
LEMMA FrameIsMade ==
  ASSUME TypeOK, OutInv, SeenInv, UnderWayInv,
         NEW h \in Gens, NEW c \in Calls, NEW f \in Response,
         proc[h] = "running", sentTo[c] = h, f.to = c, f.n = made[c] + 1,
         ~FinalMade(c), IsLast(f) <=> FinalMade(c)',
         out' = [out EXCEPT ![h] = Append(@, f)], made' = [made EXCEPT ![c] = @ + 1],
         \A d \in Calls : d # c => FinalMade(d)' = FinalMade(d),
         UNCHANGED <<sentTo, got, frames, proc>>,
         \A d \in Calls : Reachable(d)' => Reachable(d)
  PROVE  OutInv' /\ SeenInv' /\ UnderWayInv'
<1>1. f \in Line /\ IsAnswer(f) /\ made[c] \in Nat /\ made'[c] = made[c] + 1
  BY FrameTypes DEF Line, Response, IsAnswer, FinalKind
<1>2. \A d \in Calls : d # c => made'[d] = made[d]
  BY FrameTypes
<1>3. /\ \A g \in Gens : g # h => out'[g] = out[g]
      /\ out'[h] = Append(out[h], f) /\ out[h] \in Seq(Line)
  BY FrameTypes
<1>4. ASSUME NEW line, NEW d \in Calls, Numbered(line, d) PROVE Numbered(line, d)'
  <2>1. CASE d # c
    BY <1>2, <1>4, <2>1 DEF Numbered
  <2>2. CASE d = c
    <3>1. line.n \in 1..made[c] /\ ~IsLast(line)
      BY <1>4, <2>2 DEF Numbered
    <3>2. line.n \in 1..made'[c] /\ line.n # made'[c]
      BY <1>1, <3>1
    <3>. QED
      BY <2>2, <3>1, <3>2 DEF Numbered
  <2>. QED
    BY <2>1, <2>2
<1>5. Numbered(f, c)'
  BY <1>1 DEF Numbered
<1>6. OutInv'
  <2>1. ASSUME NEW g \in Gens PROVE InOrder(out'[g])
    <3>1. CASE g = h
      <4>1. \A k \in 1..Len(out[h]) : Mine(out[h][k], c) => out[h][k].n < f.n
        BY <1>1, FrameTypes DEF OutInv, Sound, Numbered, Mine
      <4>2. InOrder(Append(out[h], f))
        BY <1>1, <1>3, <4>1, OrderAppend DEF OutInv
      <4>. QED
        BY <1>3, <3>1, <4>2
    <3>2. CASE g # h
      BY <1>3, <3>2 DEF OutInv
    <3>. QED
      BY <3>1, <3>2
  <2>2. ASSUME NEW g \in Gens, NEW k \in 1..Len(out'[g]) PROVE Sound(out[g][k], g)'
    <3>1. CASE k \in 1..Len(out[g]) /\ out'[g][k] = out[g][k]
      <4>1. PICK line : line = out[g][k]
        OBVIOUS
      <4>2. IsAnswer(line) => line.to \in Calls
        BY <3>1, <4>1, FrameTypes
      <4>3. Sound(line, g)
        BY <3>1, <4>1 DEF OutInv
      <4>4. Sound(line, g)'
        BY <1>4, <4>2, <4>3 DEF Sound
      <4>. QED
        BY <3>1, <4>1, <4>4 DEF Sound, Numbered
    <3>2. CASE g = h /\ out'[g][k] = f
      <4>1. Sound(f, h)'
        BY <1>5 DEF Sound
      <4>. QED
        BY <3>2, <4>1 DEF Sound, Numbered
    <3>3. CASE g = h
      <4>1. PICK q \in Seq(Line) : q = out[h]
        BY <1>3
      <4>2. \A i \in 1..Len(Append(q, f)) : (i \in 1..Len(q) /\ Append(q, f)[i] = q[i]) \/ Append(q, f)[i] = f
        OBVIOUS
      <4>3. k \in 1..Len(Append(q, f)) /\ out'[g] = Append(q, f) /\ out[g] = q
        BY <1>3, <3>3, <4>1
      <4>. QED
        BY <3>1, <3>2, <3>3, <4>2, <4>3
    <3>4. CASE g # h
      BY <1>3, <3>1, <3>4
    <3>. QED
      BY <3>3, <3>4
  <2>. QED
    BY <2>1, <2>2 DEF OutInv
<1>7. SeenInv'
  <2>1. ASSUME NEW d \in Calls, NEW k \in 1..Len(got[d]) PROVE got[d][k].n = k /\ Numbered(got[d][k], d)'
    <3>1. PICK line : line = got[d][k]
      OBVIOUS
    <3>2. line.n = k /\ Numbered(line, d)
      BY <3>1 DEF SeenInv
    <3>3. Numbered(line, d)'
      BY <1>4, <3>2
    <3>. QED
      BY <3>1, <3>2, <3>3 DEF Numbered
  <2>2. ASSUME NEW d \in Calls, NEW k \in 1..Len(frames[d])
        PROVE  frames[d][k].n = Len(got[d]) + k /\ Numbered(frames[d][k], d)'
    <3>1. PICK line : line = frames[d][k]
      OBVIOUS
    <3>2. line.n = Len(got[d]) + k /\ Numbered(line, d)
      BY <3>1 DEF SeenInv
    <3>3. Numbered(line, d)'
      BY <1>4, <3>2
    <3>. QED
      BY <3>1, <3>2, <3>3 DEF Numbered
  <2>. QED
    BY <2>1, <2>2 DEF SeenInv, Numbered
<1>8. UnderWayInv'
  <2> SUFFICES ASSUME NEW d \in Calls, NEW g \in Gens, Reachable(d)', sentTo[d] = g
               PROVE  /\ Dense(out'[g], d, HandedOver(d))
                      /\ proc[g] = "running" => Complete(out'[g], d, HandedOver(d), made'[d])
    BY DEF UnderWayInv, HandedOver
  <2>1. Dense(out[g], d, HandedOver(d)) /\ (proc[g] = "running" => Complete(out[g], d, HandedOver(d), made[d]))
    BY DEF UnderWayInv
  <2>2. HandedOver(d) \in Nat /\ made[d] \in Nat /\ HandedOver(d) <= made[d]
    BY HandedTypes, FrameTypes
  <2>3. CASE g = h
    <3>1. Mine(f, d) <=> d = c
      BY <1>1 DEF Mine
    <3>2. /\ Dense(Append(out[h], f), d, HandedOver(d))
          /\ Complete(Append(out[h], f), d, HandedOver(d), IF Mine(f, d) THEN made[d] + 1 ELSE made[d])
      BY <1>1, <1>3, <2>1, <2>2, <2>3, <3>1, DenseAppend
    <3>3. made'[d] = IF Mine(f, d) THEN made[d] + 1 ELSE made[d]
      BY <1>1, <1>2, <3>1
    <3>. QED
      BY <1>3, <2>3, <3>2, <3>3
  <2>4. CASE g # h
    <3>1. d # c
      BY <2>4
    <3>. QED
      BY <1>2, <1>3, <2>1, <2>4, <3>1
  <2>. QED
    BY <2>3, <2>4
<1>. QED
  BY <1>6, <1>7, <1>8

(* A line that is no response is in nobody's way. *)
LEMMA GarbageIsWritten ==
  ASSUME TypeOK, OutInv, SeenInv, UnderWayInv, NEW h \in Gens,
         out' = [out EXCEPT ![h] = Append(@, Garbage)],
         UNCHANGED <<sentTo, got, frames, made, stream, proc>>,
         \A c \in Calls : Reachable(c)' => Reachable(c)
  PROVE  OutInv' /\ SeenInv' /\ UnderWayInv'
<1>0. \A c \in Calls : FinalMade(c)' = FinalMade(c)
  BY DEF FinalMade
<1>1. Garbage \in Line /\ ~IsAnswer(Garbage)
  BY DEF Line, IsAnswer, Garbage
<1>2. /\ \A g \in Gens : g # h => out'[g] = out[g]
      /\ out'[h] = Append(out[h], Garbage) /\ out[h] \in Seq(Line)
  BY FrameTypes
<1>3. OutInv'
  <2>1. ASSUME NEW g \in Gens PROVE InOrder(out'[g])
    BY <1>1, <1>2, OrderAppend DEF OutInv
  <2>2. ASSUME NEW g \in Gens, NEW k \in 1..Len(out'[g]) PROVE Sound(out[g][k], g)'
    <3>1. CASE k \in 1..Len(out[g]) /\ out'[g][k] = out[g][k]
      <4>1. PICK line : line = out[g][k]
        OBVIOUS
      <4>2. IsAnswer(line) => line.to \in Calls
        BY <3>1, <4>1, FrameTypes
      <4>3. Sound(line, g)
        BY <3>1, <4>1 DEF OutInv
      <4>4. Sound(line, g)'
        BY <1>0, <4>2, <4>3 DEF Sound, Numbered
      <4>. QED
        BY <3>1, <4>1, <4>4 DEF Sound, Numbered
    <3>2. CASE out'[g][k] = Garbage
      BY <1>1, <3>2 DEF Sound
    <3>3. CASE g = h
      <4>1. PICK q \in Seq(Line) : q = out[h]
        BY <1>2
      <4>2. \A i \in 1..Len(Append(q, Garbage)) :
              (i \in 1..Len(q) /\ Append(q, Garbage)[i] = q[i]) \/ Append(q, Garbage)[i] = Garbage
        OBVIOUS
      <4>3. k \in 1..Len(Append(q, Garbage)) /\ out'[g] = Append(q, Garbage) /\ out[g] = q
        BY <1>2, <3>3, <4>1
      <4>. QED
        BY <3>1, <3>2, <4>2, <4>3
    <3>4. CASE g # h
      BY <1>2, <3>1, <3>4
    <3>. QED
      BY <3>3, <3>4
  <2>. QED
    BY <2>1, <2>2 DEF OutInv
<1>4. SeenInv'
  BY <1>0 DEF SeenInv, Numbered
<1>5. UnderWayInv'
  <2> SUFFICES ASSUME NEW c \in Calls, NEW g \in Gens, Reachable(c)', sentTo[c] = g
               PROVE  /\ Dense(out'[g], c, HandedOver(c))
                      /\ proc[g] = "running" => Complete(out'[g], c, HandedOver(c), made[c])
    BY DEF UnderWayInv, HandedOver
  <2>1. Dense(out[g], c, HandedOver(c)) /\ (proc[g] = "running" => Complete(out[g], c, HandedOver(c), made[c]))
    BY DEF UnderWayInv
  <2>2. HandedOver(c) \in Nat /\ made[c] \in Nat /\ HandedOver(c) <= made[c] /\ ~Mine(Garbage, c)
    BY <1>1, HandedTypes, FrameTypes DEF Mine
  <2>3. CASE g # h
    BY <1>2, <2>1, <2>3
  <2>4. CASE g = h
    <3>1. PICK q \in Seq(Line) : q = out[h]
      BY <1>2
    <3>2. /\ Len(Append(q, Garbage)) = Len(q) + 1 /\ Append(q, Garbage)[Len(q) + 1] = Garbage
          /\ \A k \in 1..Len(q) : Append(q, Garbage)[k] = q[k]
      OBVIOUS
    <3>3. Dense(Append(q, Garbage), c, HandedOver(c))
      <4> SUFFICES ASSUME NEW k \in 1..Len(q), Mine(q[k], c)
                   PROVE  /\ q[k].n > HandedOver(c)
                          /\ \A m \in Nat : HandedOver(c) < m /\ m <= q[k].n =>
                               \E j \in 1..k : Mine(Append(q, Garbage)[j], c) /\ Append(q, Garbage)[j].n = m
        BY <2>2, <3>2 DEF Dense
      <4>1. \A j \in 1..k : Append(q, Garbage)[j] = q[j]
        BY <3>2
      <4>. QED
        BY <2>1, <2>4, <3>1, <4>1 DEF Dense
    <3>4. Complete(q, c, HandedOver(c), made[c]) => Complete(Append(q, Garbage), c, HandedOver(c), made[c])
      BY <3>2 DEF Complete
    <3>. QED
      BY <1>2, <2>1, <2>4, <3>1, <3>3, <3>4
  <2>. QED
    BY <2>3, <2>4
<1>. QED
  BY <1>3, <1>4, <1>5

(* The reader hands its line over: the frame its caller is due. *)
LEMMA FrameHandedOver ==
  ASSUME TypeOK, ReaderHolds, HandOwn, OutInv, SeenInv, UnderWayInv, NEW h \in Gens, HandOver(h)
  PROVE  OutInv' /\ SeenInv' /\ UnderWayInv'
<1>0. /\ \A d \in Calls : FinalMade(d)' = FinalMade(d)
      /\ UNCHANGED <<sentTo, got, made, stream, proc>>
      /\ frames' = [frames EXCEPT ![target[h]] = Append(@, Head(out[h]))]
      /\ out' = [out EXCEPT ![h] = Tail(@)]
  BY DEF HandOver, FinalMade, callVars, providerVars
<1>1. PICK c \in Calls, f \in Response : c = target[h] /\ f = Head(out[h]) /\ f.to = c /\ out[h] # <<>>
  BY DEF HandOver, ReaderHolds, HandOwn
<1>2. /\ f \in Line /\ IsAnswer(f) /\ Mine(f, c)
      /\ \A d \in Calls : Mine(f, d) => d = c
  BY <1>1 DEF Line, Mine, IsAnswer, Response, FinalKind
<1>3. /\ \A g \in Gens : g # h => out'[g] = out[g]
      /\ out'[h] = Tail(out[h]) /\ out[h] \in Seq(Line)
  BY <1>0, FrameTypes
<1>4. sentTo[c] = h /\ Numbered(f, c)
  <2>1. 1 \in 1..Len(out[h]) /\ out[h][1] = f
    BY <1>1, <1>3
  <2>. QED
    BY <1>1, <1>2, <2>1 DEF OutInv, Sound
<1>5. Reachable(c)
  BY <1>1 DEF Reachable, HandOver
<1>6. /\ HandedOver(c) \in Nat
      /\ \A d \in Calls : HandedOver(d) \in Nat /\ made[d] \in Nat
  BY HandedTypes, FrameTypes
<1>7. Dense(out[h], c, HandedOver(c)) /\ (proc[h] = "running" => Complete(out[h], c, HandedOver(c), made[c]))
  BY <1>4, <1>5 DEF UnderWayInv
<1>8. /\ f.n = HandedOver(c) + 1
      /\ Dense(Tail(out[h]), c, HandedOver(c) + 1)
      /\ proc[h] = "running" => Complete(Tail(out[h]), c, HandedOver(c) + 1, made[c])
  BY <1>1, <1>2, <1>3, <1>6, <1>7, DenseTake DEF OutInv
<1>9. /\ frames'[c] = Append(frames[c], f) /\ frames[c] \in Seq(Response)
      /\ \A d \in Calls : d # c => frames'[d] = frames[d]
  BY <1>0, <1>1, FrameTypes
<1>10. PICK q \in Seq(Response) : q = frames[c]
  BY <1>9
<1>11. /\ Len(Append(q, f)) = Len(q) + 1 /\ Append(q, f)[Len(q) + 1] = f /\ Len(q) \in Nat
       /\ \A k \in 1..Len(q) : Append(q, f)[k] = q[k]
  OBVIOUS
<1>12. HandedOver(c)' = HandedOver(c) + 1 /\ \A d \in Calls : d # c => HandedOver(d)' = HandedOver(d)
  <2>1. PICK a \in Nat, b \in Nat : a = Len(got[c]) /\ b = Len(frames[c])
    BY <1>9, FrameTypes
  <2>2. HandedOver(c) = a + b
    BY <2>1 DEF HandedOver
  <2>3. Len(got'[c]) = a /\ Len(frames'[c]) = b + 1
    BY <1>0, <1>9, <1>10, <1>11, <2>1
  <2>4. HandedOver(c)' = a + (b + 1)
    BY <2>3 DEF HandedOver
  <2>5. \A d \in Calls : d # c => HandedOver(d)' = HandedOver(d)
    BY <1>0, <1>9 DEF HandedOver
  <2>6. (a + b) + 1 = a + (b + 1)
    OBVIOUS
  <2>. QED
    BY <2>2, <2>4, <2>5, <2>6, Zenon
<1>13. OutInv'
  <2>1. ASSUME NEW g \in Gens PROVE InOrder(out'[g])
    BY <1>1, <1>3, OrderTail DEF OutInv
  <2>2. ASSUME NEW g \in Gens, NEW k \in 1..Len(out'[g]) PROVE Sound(out[g][k], g)'
    <3>0. \E j \in 1..Len(out[g]) : out'[g][k] = out[g][j]
      <4>1. CASE g = h
        <5>1. PICK r \in Seq(Line) : r = out[h] /\ r # <<>>
          BY <1>1, <1>3
        <5>2. \A j \in 1..Len(Tail(r)) : j + 1 \in 1..Len(r) /\ Tail(r)[j] = r[j + 1]
          BY <5>1
        <5>. QED
          BY <1>3, <4>1, <5>1, <5>2
      <4>2. CASE g # h
        BY <1>3, <4>2
      <4>. QED
        BY <4>1, <4>2
    <3>1. PICK j \in 1..Len(out[g]) : out'[g][k] = out[g][j]
      BY <3>0
    <3>2. PICK line : line = out[g][j]
      OBVIOUS
    <3>3. IsAnswer(line) => line.to \in Calls
      BY <3>2, FrameTypes
    <3>4. Sound(line, g)
      BY <3>2 DEF OutInv
    <3>5. Sound(line, g)'
      BY <1>0, <3>3, <3>4 DEF Sound, Numbered
    <3>. QED
      BY <3>1, <3>2, <3>5 DEF Sound, Numbered
  <2>. QED
    BY <2>1, <2>2 DEF OutInv
<1>14. SeenInv'
  <2>1. \A d \in Calls : \A k \in 1..Len(got[d]) : got'[d][k].n = k /\ Numbered(got[d][k], d)'
    BY <1>0 DEF SeenInv, Numbered
  <2>2. ASSUME NEW d \in Calls, NEW k \in 1..Len(frames'[d])
        PROVE  frames'[d][k].n = Len(got[d]) + k /\ Numbered(frames[d][k], d)'
    <3>1. CASE d = c /\ k = Len(q) + 1
      <4>1. frames'[d][k] = f
        BY <1>9, <1>10, <1>11, <3>1
      <4>2. PICK a \in Nat, b \in Nat : a = Len(got[c]) /\ b = Len(q)
        BY <1>11, FrameTypes
      <4>3. f.n = Len(got[c]) + (Len(q) + 1)
        <5>1. HandedOver(c) = a + b
          BY <1>10, <4>2 DEF HandedOver
        <5>2. f.n = (a + b) + 1
          BY <1>8, <5>1
        <5>3. (a + b) + 1 = a + (b + 1)
          OBVIOUS
        <5>. QED
          BY <4>2, <5>2, <5>3, Zenon
      <4>. QED
        BY <1>0, <1>4, <3>1, <4>1, <4>3 DEF Numbered
    <3>2. CASE ~(d = c /\ k = Len(q) + 1)
      <4>1. k \in 1..Len(frames[d]) /\ frames'[d][k] = frames[d][k]
        BY <1>9, <1>10, <1>11, <3>2
      <4>. QED
        BY <1>0, <4>1 DEF SeenInv, Numbered
    <3>. QED
      BY <3>1, <3>2
  <2>. QED
    BY <1>0, <2>1, <2>2 DEF SeenInv, Numbered
<1>15. UnderWayInv'
  <2>0. \A d \in Calls : Reachable(d)' => Reachable(d)
    <3>1. /\ UNCHANGED <<id, pending>>
          /\ \A g \in Gens : readerAt'[g] = "delivering" => readerAt[g] = "delivering" /\ target'[g] = target[g]
      BY DEF HandOver, TypeOK, clientVars
    <3>. QED
      BY <3>1 DEF Reachable, HasEntry
  <2>1. ASSUME NEW d \in Calls, NEW g \in Gens, Reachable(d), sentTo[d] = g
        PROVE  /\ Dense(out'[g], d, HandedOver(d)')
               /\ proc[g] = "running" => Complete(out'[g], d, HandedOver(d)', made[d])
    <3>1. Dense(out[g], d, HandedOver(d)) /\ (proc[g] = "running" => Complete(out[g], d, HandedOver(d), made[d]))
      BY <2>1 DEF UnderWayInv
    <3>2. CASE d = c
      BY <1>3, <1>4, <1>8, <1>12, <2>1, <3>2
    <3>3. CASE d # c /\ g # h
      BY <1>3, <1>12, <3>1, <3>3
    <3>4. CASE d # c /\ g = h
      BY <1>1, <1>2, <1>3, <1>6, <1>12, <3>1, <3>4, DenseSkip
    <3>. QED
      BY <3>2, <3>3, <3>4
  <2>. QED
    BY <1>0, <2>0, <2>1 DEF UnderWayInv
<1>. QED
  BY <1>13, <1>14, <1>15

(* A call takes the next frame off its channel. *)
LEMMA FrameReceived ==
  ASSUME TypeOK, OutInv, SeenInv, UnderWayInv, NEW c \in Calls, Receive(c)
  PROVE  OutInv' /\ SeenInv' /\ UnderWayInv'
<1>0. /\ \A d \in Calls : FinalMade(d)' = FinalMade(d)
      /\ UNCHANGED <<sentTo, out, made, stream, proc, id, pending, readerAt, target>>
      /\ got' = [got EXCEPT ![c] = Append(@, Head(frames[c]))]
      /\ frames' = [frames EXCEPT ![c] = Tail(@)] /\ frames[c] # <<>>
  BY DEF Receive, FinalMade, clientVars, readerVars, pipeVars, providerVars
<1>1. PICK p \in Seq(Response), q \in Seq(Response) : p = got[c] /\ q = frames[c] /\ q # <<>>
  BY <1>0, FrameTypes
<1>2. /\ Len(Append(p, Head(q))) = Len(p) + 1 /\ Append(p, Head(q))[Len(p) + 1] = q[1]
      /\ \A k \in 1..Len(p) : Append(p, Head(q))[k] = p[k]
      /\ Len(Tail(q)) = Len(q) - 1 /\ \A k \in 1..(Len(q) - 1) : Tail(q)[k] = q[k + 1]
      /\ Len(p) \in Nat /\ Len(q) \in Nat \ {0}
  BY <1>1
<1>3. /\ got'[c] = Append(p, Head(q)) /\ frames'[c] = Tail(q)
      /\ \A d \in Calls : d # c => got'[d] = got[d] /\ frames'[d] = frames[d]
  BY <1>0, <1>1, FrameTypes
<1>4. \A d \in Calls : HandedOver(d)' = HandedOver(d)
  <2>1. Len(got'[c]) + Len(frames'[c]) = Len(p) + Len(q)
    BY <1>2, <1>3
  <2>2. HandedOver(c)' = HandedOver(c)
    BY <1>1, <2>1 DEF HandedOver
  <2>3. \A d \in Calls : d # c => HandedOver(d)' = HandedOver(d)
    BY <1>3 DEF HandedOver
  <2>. QED
    BY <2>2, <2>3
<1>5. OutInv'
  BY <1>0, FrameTypes, SMTT(30) DEF OutInv, Sound, Numbered
<1>6. SeenInv'
  <2>1. ASSUME NEW d \in Calls, NEW k \in 1..Len(got'[d]) PROVE got'[d][k].n = k /\ Numbered(got[d][k], d)'
    <3>1. CASE d = c /\ k = Len(p) + 1
      <4>1. got'[d][k] = q[1] /\ 1 \in 1..Len(q)
        BY <1>2, <1>3, <3>1
      <4>2. q[1].n = Len(p) + 1 /\ Numbered(q[1], c)
        BY <1>1, <4>1 DEF SeenInv
      <4>. QED
        BY <1>0, <3>1, <4>1, <4>2 DEF Numbered
    <3>2. CASE ~(d = c /\ k = Len(p) + 1)
      <4>1. k \in 1..Len(got[d]) /\ got'[d][k] = got[d][k]
        BY <1>1, <1>2, <1>3, <3>2
      <4>. QED
        BY <1>0, <4>1 DEF SeenInv, Numbered
    <3>. QED
      BY <3>1, <3>2
  <2>2. ASSUME NEW d \in Calls, NEW k \in 1..Len(frames'[d])
        PROVE  frames'[d][k].n = Len(got'[d]) + k /\ Numbered(frames[d][k], d)'
    <3>1. CASE d = c
      <4>1. k \in 1..(Len(q) - 1) /\ k + 1 \in 1..Len(q) /\ frames'[c][k] = q[k + 1]
        BY <1>2, <1>3, <3>1
      <4>2. q[k + 1].n = Len(p) + (k + 1) /\ Numbered(q[k + 1], c)
        BY <1>1, <4>1 DEF SeenInv
      <4>3. Len(got'[c]) + k = Len(p) + (k + 1)
        BY <1>2, <1>3
      <4>. QED
        BY <1>0, <3>1, <4>1, <4>2, <4>3 DEF Numbered
    <3>2. CASE d # c
      BY <1>0, <1>3, <3>2 DEF SeenInv, Numbered
    <3>. QED
      BY <3>1, <3>2
  <2>. QED
    BY <2>1, <2>2 DEF SeenInv, Numbered
<1>7. UnderWayInv'
  <2>1. \A d \in Calls : Reachable(d)' = Reachable(d)
    BY <1>0 DEF Reachable, HasEntry
  <2>. QED
    BY <1>0, <1>4, <2>1 DEF UnderWayInv
<1>. QED
  BY <1>5, <1>6, <1>7

-----------------------------------------------------------------------------
(* The requests.                                                            *)

Before == {"idle", "ready", "writing"}

(* None is written or read. *)
LEMMA RequestsStay ==
  ASSUME UnsentInv, InInv, UNCHANGED <<in, sentTo>>,
         \A d \in Calls : Fresh(d) => Fresh(d)',
         \A d \in Calls : sentTo[d] = 0 => got'[d] = got[d] /\ frames'[d] = frames[d],
         \A d \in Calls : pc'[d] \in Before => pc[d] \in Before,
         \A d \in Calls : done'[d] => pc'[d] = "returned", TypeOK
  PROVE  UnsentInv' /\ InInv'
<1>1. UnsentInv'
  BY DEF UnsentInv, Before
<1>2. InInv'
  BY FrameTypes DEF InInv
<1>. QED
  BY <1>1, <1>2

(* The provider reads one: it will not find that call in its pipe again. *)
LEMMA RequestRead ==
  ASSUME TypeOK, UnsentInv, InInv, NEW h \in Gens, in[h] # <<>>, in' = [in EXCEPT ![h] = Tail(@)],
         NEW c \in Calls, c = Head(in[h]).from,
         \A d \in Calls : d # c /\ Fresh(d) => Fresh(d)',
         UNCHANGED <<sentTo, got, frames, pc, done>>
  PROVE  /\ sentTo[c] = h /\ Fresh(c)
         /\ UnsentInv' /\ InInv'
<1>1. PICK q \in Seq(Request) : q = in[h] /\ q # <<>>
  BY FrameTypes
<1>2. /\ Len(Tail(q)) = Len(q) - 1 /\ Len(q) \in Nat \ {0} /\ Head(q) = q[1]
      /\ \A k \in 1..(Len(q) - 1) : k + 1 \in 1..Len(q) /\ k + 1 # 1 /\ Tail(q)[k] = q[k + 1]
  BY <1>1
<1>3. /\ \A g \in Gens : g # h => in'[g] = in[g]
      /\ in'[h] = Tail(q)
  BY <1>1, FrameTypes
<1>4. sentTo[c] = h /\ Fresh(c)
  <2>1. 1 \in 1..Len(in[h]) /\ in[h][1].from = c
    BY <1>1, <1>2
  <2>. QED
    BY <2>1 DEF InInv
<1>5. UnsentInv'
  BY <1>4, FrameTypes DEF UnsentInv
<1>6. ASSUME NEW g \in Gens, NEW k \in 1..Len(in'[g])
      PROVE  /\ sentTo[in'[g][k].from] = g /\ Fresh(in[g][k].from)'
             /\ \A j \in 1..Len(in'[g]) : in'[g][j].from = in'[g][k].from => j = k
  <2>1. CASE g # h
    <3>1. in'[g] = in[g]
      BY <1>3, <2>1
    <3>2. PICK d \in Calls : d = in[g][k].from
      BY <3>1, FrameTypes
    <3>3. sentTo[d] = g /\ Fresh(d) /\ \A j \in 1..Len(in[g]) : in[g][j].from = d => j = k
      BY <3>1, <3>2 DEF InInv
    <3>4. Fresh(d)'
      BY <1>4, <2>1, <3>3
    <3>. QED
      BY <3>1, <3>2, <3>3, <3>4 DEF Fresh
  <2>2. CASE g = h
    <3>1. /\ k \in 1..(Len(q) - 1) /\ k + 1 \in 1..Len(in[h]) /\ in'[g][k] = in[h][k + 1]
          /\ 1 \in 1..Len(in[h]) /\ in[h][1].from = c /\ k + 1 # 1
      <4>1. in'[g] = Tail(q) /\ in[h] = q /\ q[1].from = c
        BY <1>1, <1>2, <1>3, <2>2
      <4>2. k \in 1..(Len(q) - 1)
        BY <1>2, <4>1
      <4>. QED
        BY <1>2, <2>2, <4>1, <4>2
    <3>2. PICK d \in Calls : d = in[h][k + 1].from
      BY <3>1, FrameTypes
    <3>3. sentTo[d] = h /\ Fresh(d) /\ \A j \in 1..Len(in[h]) : in[h][j].from = d => j = k + 1
      BY <3>1, <3>2 DEF InInv
    <3>4. d # c
      BY <3>1, <3>3
    <3>5. Fresh(d)'
      BY <3>3, <3>4
    <3>6. ASSUME NEW j \in 1..Len(in'[g]), in'[g][j].from = d PROVE j = k
      <4>1. j \in 1..(Len(q) - 1) /\ j + 1 \in 1..Len(in[h]) /\ in'[g][j] = in[h][j + 1]
        <5>1. in'[g] = Tail(q) /\ in[h] = q
          BY <1>1, <1>3, <2>2
        <5>2. j \in 1..(Len(q) - 1)
          BY <1>2, <5>1
        <5>3. j + 1 \in 1..Len(q) /\ Tail(q)[j] = q[j + 1]
          BY <1>2, <5>2
        <5>. QED
          BY <5>1, <5>2, <5>3, Zenon
      <4>2. j + 1 = k + 1
        BY <3>3, <3>6, <4>1
      <4>. QED
        BY <3>1, <4>1, <4>2
    <3>. QED
      BY <2>2, <3>1, <3>2, <3>3, <3>5, <3>6 DEF Fresh
  <2>. QED
    BY <2>1, <2>2
<1>7. InInv'
  BY <1>6 DEF InInv
<1>. QED
  BY <1>4, <1>5, <1>7

(* A call writes its request: there is nothing yet in answer to it. *)
LEMMA RequestWritten ==
  ASSUME TypeOK, LockInv, FrameInv, NEW c \in Calls, Write(c)
  PROVE  FrameInv'
<1>0. /\ pc[c] = "writing" /\ pc' = [pc EXCEPT ![c] = "waiting"]
      /\ in' = [in EXCEPT ![cmd] = Append(@, [id |-> id[c], from |-> c])]
      /\ sentTo' = [sentTo EXCEPT ![c] = cmd]
      /\ UNCHANGED <<id, got, frames, done, pending, readerAt, target, out, proc, stream, made>>
      /\ \A d \in Calls : (Fresh(d)' <=> Fresh(d)) /\ FinalMade(d)' = FinalMade(d)
  BY DEF Write, Goto, clientVars, readerVars, providerVars, Fresh, FinalMade
<1>1. cmd \in Gens
  BY <1>0, LockTypes DEF LockInv
<1>2. PICK h \in Gens, q \in Seq(Request) : h = cmd /\ q = in[cmd]
  BY <1>1, FrameTypes
<1>3. /\ sentTo[c] = 0 /\ Fresh(c) /\ got[c] = <<>> /\ frames[c] = <<>> /\ ~done[c] /\ made[c] = 0
  BY <1>0 DEF FrameInv, UnsentInv, Fresh
<1>4. sentTo'[c] = h /\ \A d \in Calls : d # c => sentTo'[d] = sentTo[d] /\ pc'[d] = pc[d]
  BY <1>0, <1>2, FrameTypes
<1>5. /\ in'[h] = Append(q, [id |-> id[c], from |-> c])
      /\ \A g \in Gens : g # h => in'[g] = in[g]
  BY <1>0, <1>2, FrameTypes
<1>6. /\ Len(in'[h]) = Len(q) + 1 /\ Len(q) \in Nat /\ in'[h][Len(q) + 1].from = c
      /\ \A k \in 1..Len(q) : in'[h][k] = q[k]
  BY <1>5
<1>7. UnsentInv'
  BY <1>0, <1>3, <1>4, FrameTypes DEF FrameInv, UnsentInv
<1>8. InInv'
  <2>1. \A g \in Gens : \A k \in 1..Len(in[g]) : in[g][k].from \in Calls /\ in[g][k].from # c
    BY <1>3, FrameTypes DEF FrameInv, InInv
  <2>2. ASSUME NEW g \in Gens, NEW k \in 1..Len(in'[g])
        PROVE  /\ sentTo'[in'[g][k].from] = g /\ Fresh(in[g][k].from)'
               /\ \A j \in 1..Len(in'[g]) : in'[g][j].from = in'[g][k].from => j = k
    <3>1. CASE k \in 1..Len(in[g])
      <4>1. in'[g][k] = in[g][k]
        BY <1>2, <1>5, <1>6, <3>1
      <4>2. PICK d \in Calls : d = in[g][k].from /\ d # c
        BY <2>1, <3>1
      <4>3. sentTo[d] = g /\ Fresh(d) /\ \A j \in 1..Len(in[g]) : in[g][j].from = d => j = k
        BY <3>1, <4>2 DEF FrameInv, InInv
      <4>4. ASSUME NEW j \in 1..Len(in'[g]), in'[g][j].from = d PROVE j \in 1..Len(in[g]) /\ in'[g][j] = in[g][j]
        <5>1. CASE g # h
          BY <1>5, <5>1
        <5>2. CASE g = h
          <6>1. j \in 1..(Len(q) + 1) /\ j # Len(q) + 1
            BY <1>6, <4>2, <4>4, <5>2
          <6>. QED
            BY <1>2, <1>6, <5>2, <6>1
        <5>. QED
          BY <5>1, <5>2
      <4>5. Fresh(d)'
        BY <1>0, <4>3
      <4>. QED
        BY <1>4, <4>1, <4>2, <4>3, <4>4, <4>5 DEF Fresh
    <3>2. CASE k \notin 1..Len(in[g])
      <4>1. g = h /\ k = Len(q) + 1
        BY <1>2, <1>5, <1>6, <3>2
      <4>2. in'[g][k].from = c
        BY <1>6, <4>1
      <4>3. Fresh(c)'
        BY <1>0, <1>3
      <4>4. ASSUME NEW j \in 1..Len(in'[g]), in'[g][j].from = c PROVE j = k
        <5>1. CASE j \in 1..Len(q)
          BY <1>2, <1>6, <2>1, <4>1, <4>4, <5>1
        <5>. QED
          BY <1>6, <4>1, <5>1
      <4>. QED
        BY <1>4, <4>1, <4>2, <4>3, <4>4 DEF Fresh
    <3>. QED
      BY <3>1, <3>2
  <2>. QED
    BY <2>2 DEF InInv
<1>9. OutInv'
  <2>1. ASSUME NEW g \in Gens, NEW k \in 1..Len(out[g]) PROVE Sound(out[g][k], g)'
    <3>1. PICK line : line = out[g][k]
      OBVIOUS
    <3>2. Sound(line, g) /\ (IsAnswer(line) => line.to \in Calls) /\ g # 0
      BY <3>1, FrameTypes DEF FrameInv, OutInv
    <3>3. IsAnswer(line) => sentTo'[line.to] = g /\ Numbered(line, line.to)'
      BY <1>0, <1>3, <1>4, <3>2 DEF Sound, Numbered
    <3>. QED
      BY <1>0, <3>1, <3>3 DEF Sound, Numbered
  <2>. QED
    BY <1>0, <2>1 DEF FrameInv, OutInv
<1>10. SeenInv'
  BY <1>0 DEF FrameInv, SeenInv, Numbered
<1>11. UnderWayInv'
  <2>1. ASSUME NEW d \in Calls, NEW g \in Gens, Reachable(d), sentTo'[d] = g
        PROVE  /\ Dense(out[g], d, HandedOver(d))
               /\ proc[g] = "running" => Complete(out[g], d, HandedOver(d), made[d])
    <3>1. CASE d # c
      BY <1>4, <2>1, <3>1 DEF FrameInv, UnderWayInv
    <3>2. CASE d = c
      <4>1. HandedOver(c) = 0
        BY <1>3 DEF HandedOver
      <4>2. \A k \in 1..Len(out[g]) : ~Mine(out[g][k], c)
        BY <1>3, FrameTypes DEF FrameInv, OutInv, Sound, Mine
      <4>. QED
        BY <1>3, <3>2, <4>1, <4>2 DEF Dense, Complete
    <3>. QED
      BY <3>1, <3>2
  <2>2. \A d \in Calls : (Reachable(d)' <=> Reachable(d)) /\ HandedOver(d)' = HandedOver(d)
    BY <1>0 DEF Reachable, HasEntry, HandedOver
  <2>. QED
    BY <1>0, <2>1, <2>2 DEF UnderWayInv
<1>. QED
  BY <1>7, <1>8, <1>9, <1>10, <1>11 DEF FrameInv

-----------------------------------------------------------------------------
(* Step by step.                                                            *)

(* A step that touches no frame keeps the invariant. *)
LEMMA NothingMoves ==
  ASSUME TypeOK, FrameInv,
         UNCHANGED <<in, sentTo, got, frames, out, made>>,
         \A d \in Calls : FinalMade(d)' = FinalMade(d) /\ (Fresh(d) => Fresh(d)'),
         \A d \in Calls : Reachable(d)' /\ sentTo[d] # 0 => Reachable(d),
         \A d \in Calls : \A g \in Gens : sentTo[d] = g /\ proc'[g] = "running" => proc[g] = "running",
         \A d \in Calls : pc'[d] \in Before => pc[d] \in Before,
         \A d \in Calls : done'[d] => pc'[d] = "returned"
  PROVE  FrameInv'
<1>1. UnsentInv' /\ InInv'
  BY RequestsStay DEF FrameInv
<1>2. OutInv' /\ SeenInv' /\ UnderWayInv'
  BY FramesStay DEF FrameInv
<1>. QED
  BY <1>1, <1>2 DEF FrameInv

(* A call moves on; its entry comes or goes.  Nothing else is touched.      *)
LEMMA CallMoves ==
  ASSUME Holding, FrameInv, NEW c \in Calls,
         TakeID(c) \/ SendToRunning(c) \/ SendStarting(c) \/ StartFails(c) \/ WriteFails(c)
         \/ OnFrameReturns(c) \/ SeeClosed(c) \/ GiveUp(c)
         \/ DeathNothingToReap(c) \/ DeathReaps(c) \/ Forget(c)
  PROVE  FrameInv'
<1>0. TypeOK /\ OwnInv /\ EntryInv
  BY DEF Holding
<1>1. /\ UNCHANGED <<in, sentTo, got, frames, out, made, stream, target>>
      /\ \A g \in Gens : readerAt'[g] = "delivering" => readerAt[g] = "delivering"
  BY <1>0 DEF TakeID, SendToRunning, SendStarting, StartFails, WriteFails, OnFrameReturns, SeeClosed, GiveUp,
         DeathNothingToReap, DeathReaps, Forget, Finish, transportVars, readerVars, pipeVars, providerVars, TypeOK
<1>2. /\ pc[c] # "returned"
      /\ \E place \in Places : pc' = [pc EXCEPT ![c] = place] /\ (place \in Before => pc[c] \in Before)
                               /\ (done' = done \/ (done' = [done EXCEPT ![c] = TRUE] /\ place = "returned"))
  <2>1. CASE TakeID(c) \/ SendToRunning(c) \/ SendStarting(c) \/ StartFails(c) \/ WriteFails(c)
    BY <2>1 DEF TakeID, SendToRunning, SendStarting, StartFails, WriteFails, Goto, Places, Before, transportVars
  <2>2. CASE OnFrameReturns(c) \/ SeeClosed(c) \/ GiveUp(c) \/ DeathNothingToReap(c) \/ DeathReaps(c) \/ Forget(c)
    BY <2>2 DEF OnFrameReturns, SeeClosed, GiveUp, DeathNothingToReap, DeathReaps, Forget, Finish, Goto,
           Places, Before, transportVars
  <2>. QED
    BY <2>1, <2>2
<1>3. PICK place \in Places : /\ pc' = [pc EXCEPT ![c] = place] /\ (place \in Before => pc[c] \in Before)
                              /\ (done' = done \/ (done' = [done EXCEPT ![c] = TRUE] /\ place = "returned"))
  BY <1>2
<1>4. \A d \in Calls : /\ pc'[d] \in Before => pc[d] \in Before
                       /\ done'[d] => pc'[d] = "returned"
  BY <1>0, <1>2, <1>3 DEF TypeOK, FrameInv, UnsentInv
<1>5. \A d \in Calls : HasEntry(d)' /\ sentTo[d] # 0 => HasEntry(d)
  <2>1. CASE TakeID(c)
    <3>1. sentTo[c] = 0
      BY <2>1 DEF TakeID, FrameInv, UnsentInv
    <3>2. pending' = pending /\ \A d \in Calls : d # c => id'[d] = id[d]
      BY <1>0, <2>1 DEF TakeID, TypeOK, transportVars
    <3>. QED
      BY <3>1, <3>2 DEF HasEntry
  <2>2. CASE SendToRunning(c) \/ SendStarting(c)
    <3>1. sentTo[c] = 0
      BY <2>2 DEF SendToRunning, SendStarting, FrameInv, UnsentInv
    <3>2. id' = id /\ (pending' = Registered(pending, id[c], c) \/ pending' = [i \in {id[c]} |-> c])
      BY <2>2 DEF SendToRunning, SendStarting, clientVars
    <3>. QED
      BY <3>1, <3>2 DEF HasEntry, Registered
  <2>3. CASE WriteFails(c) \/ Forget(c)
    <3>1. id' = id /\ (pending' = pending \/ pending' = Unregistered(pending, id[c]))
      BY <2>3 DEF WriteFails, Forget, clientVars
    <3>. QED
      BY <3>1 DEF HasEntry, Unregistered
  <2>4. CASE StartFails(c) \/ OnFrameReturns(c) \/ SeeClosed(c) \/ GiveUp(c)
             \/ DeathNothingToReap(c) \/ DeathReaps(c)
    <3>1. UNCHANGED <<id, pending>>
      BY <2>4 DEF StartFails, OnFrameReturns, SeeClosed, GiveUp, DeathNothingToReap, DeathReaps,
             clientVars, transportVars
    <3>. QED
      BY <3>1 DEF HasEntry
  <2>. QED
    BY <2>1, <2>2, <2>3, <2>4
<1>6. \A d \in Calls : Reachable(d)' /\ sentTo[d] # 0 => Reachable(d)
  BY <1>1, <1>5 DEF Reachable
<1>7. \A d \in Calls : \A g \in Gens : sentTo[d] = g /\ proc'[g] = "running" => proc[g] = "running"
  <2>1. CASE SendStarting(c)
    <3>1. ASSUME NEW d \in Calls PROVE sentTo[d] # gen + 1
      <4>1. sentTo[d] \in {0} \cup Gens /\ sentTo[d] <= gen /\ gen \in Nat /\ Gens \subseteq Nat
        BY <1>0, EntryTypes, LockTypes DEF EntryInv
      <4>2. PICK n \in Nat : n = sentTo[d]
        BY <4>1
      <4>. QED
        BY <4>1, <4>2
    <3>2. \A g \in Gens : g # gen + 1 => proc'[g] = proc[g]
      BY <1>0, <2>1 DEF SendStarting, TypeOK
    <3>. QED
      BY <3>1, <3>2
  <2>2. CASE ~SendStarting(c)
    <3>1. proc' = proc
      BY <2>2 DEF TakeID, SendToRunning, StartFails, WriteFails, OnFrameReturns, SeeClosed, GiveUp,
             DeathNothingToReap, DeathReaps, Forget, providerVars
    <3>. QED
      BY <3>1
  <2>. QED
    BY <2>1, <2>2
<1>8. \A d \in Calls : FinalMade(d)' = FinalMade(d) /\ (Fresh(d) => Fresh(d)')
  BY <1>1 DEF FinalMade, Fresh
<1>. QED
  BY <1>0, <1>1, <1>4, <1>6, <1>7, <1>8, NothingMoves

(* What neither the calls nor the provider do to a request. *)
LEMMA ElsewhereStays ==
  ASSUME TypeOK, FrameInv, UNCHANGED <<in, sentTo, got, frames, pc, done>>,
         \A d \in Calls : Fresh(d) => Fresh(d)'
  PROVE  UnsentInv' /\ InInv'
<1>1. \A d \in Calls : done[d] => pc[d] = "returned"
  BY DEF FrameInv, UnsentInv
<1>. QED
  BY <1>1, RequestsStay DEF FrameInv

(* A provider that is reaped takes its pipe with it. *)
LEMMA ReapingFrames ==
  ASSUME Holding, FrameInv, (\E c \in Calls : Reap(c)) \/ CloseReaps
  PROVE  FrameInv'
<1>0. TypeOK /\ LockInv
  BY DEF Holding
<1>1. PICK h \in Gens : /\ proc[h] = "exited"
                        /\ \E rest \in ReapedOutput(h) : out' = [out EXCEPT ![h] = rest]
  <2>1. CASE CloseReaps
    <3>1. closing \in Gens
      BY <1>0, <2>1, LockTypes DEF LockInv, CloseReaps
    <3>. QED
      BY <2>1, <3>1 DEF CloseReaps
  <2>2. CASE \E c \in Calls : Reap(c)
    <3>1. victim \in Gens
      BY <1>0, <2>2, LockTypes DEF LockInv, Reap
    <3>. QED
      BY <2>2, <3>1 DEF Reap
  <2>. QED
    BY <2>1, <2>2
<1>2. PICK n \in 0..Len(out[h]) : out' = [out EXCEPT ![h] = SubSeq(out[h], 1, n)]
  <2>1. PICK k \in (IF readerAt[h] = "delivering" THEN 1 ELSE 0)..Len(out[h]) :
          out' = [out EXCEPT ![h] = SubSeq(out[h], 1, k)]
    BY <1>1 DEF ReapedOutput
  <2>2. k \in 0..Len(out[h])
    <3>1. Len(out[h]) \in Nat
      BY <1>0, FrameTypes
    <3>. QED
      BY <3>1
  <2>. QED
    BY <2>1, <2>2
<1>3. UNCHANGED <<in, sentTo, got, frames, done, made, stream, proc, id, pending, readerAt, target>>
  BY DEF Reap, CloseReaps, clientVars, callVars, readerVars, providerVars
<1>4. \A d \in Calls : /\ Reachable(d)' <=> Reachable(d)
                       /\ Fresh(d)' <=> Fresh(d)
  BY <1>3 DEF Reachable, HasEntry, Fresh
<1>5. \A d \in Calls : /\ pc'[d] \in Before => pc[d] \in Before
                       /\ done'[d] => pc'[d] = "returned"
  <2>1. CASE CloseReaps
    BY <1>3, <2>1 DEF CloseReaps, callVars, FrameInv, UnsentInv
  <2>2. CASE \E c \in Calls : Reap(c)
    <3>1. PICK c \in Calls : Reap(c)
      BY <2>2
    <3>2. /\ pc[c] = "reaping"
          /\ \E place \in {"returned", "forgetting"} : pc' = [pc EXCEPT ![c] = place]
      BY <3>1 DEF Reap, Goto
    <3>. QED
      BY <1>0, <1>3, <3>2 DEF TypeOK, FrameInv, UnsentInv, Before
  <2>. QED
    BY <2>1, <2>2
<1>6. UnsentInv' /\ InInv'
  BY <1>0, <1>3, <1>4, <1>5, RequestsStay DEF FrameInv
<1>7. OutInv' /\ SeenInv' /\ UnderWayInv'
  BY <1>0, <1>1, <1>2, <1>3, <1>4, FramesLost DEF FrameInv
<1>. QED
  BY <1>6, <1>7 DEF FrameInv

(* A call takes a frame out of its buffer. *)
LEMMA ReceiveFrames ==
  ASSUME Holding, FrameInv, NEW c \in Calls, Receive(c)
  PROVE  FrameInv'
<1>0. TypeOK
  BY DEF Holding
<1>1. /\ pc[c] = "waiting" /\ frames[c] # <<>> /\ UNCHANGED <<in, sentTo, done, made, stream>>
      /\ \E place \in {"inFrame", "forgetting"} : pc' = [pc EXCEPT ![c] = place]
      /\ \A d \in Calls : d # c => got'[d] = got[d] /\ frames'[d] = frames[d]
  BY <1>0 DEF Receive, Finish, Goto, pipeVars, providerVars, TypeOK
<1>2. sentTo[c] # 0
  BY <1>1 DEF FrameInv, UnsentInv
<1>3. \A d \in Calls : /\ pc'[d] \in Before => pc[d] \in Before
                       /\ done'[d] => pc'[d] = "returned"
  BY <1>0, <1>1 DEF TypeOK, FrameInv, UnsentInv, Before
<1>4. UnsentInv' /\ InInv'
  <2>1. \A d \in Calls : Fresh(d) => Fresh(d)'
    BY <1>1 DEF Fresh
  <2>2. \A d \in Calls : sentTo[d] = 0 => got'[d] = got[d] /\ frames'[d] = frames[d]
    BY <1>1, <1>2
  <2>. QED
    BY <1>0, <1>1, <1>3, <2>1, <2>2, RequestsStay DEF FrameInv
<1>5. OutInv' /\ SeenInv' /\ UnderWayInv'
  BY <1>0, FrameReceived DEF FrameInv
<1>. QED
  BY <1>4, <1>5 DEF FrameInv

(* Every step of a reader keeps the frames in order. *)
LEMMA ReaderFrames ==
  ASSUME Holding, FrameInv, NEW h \in Gens, Reader(h)
  PROVE  FrameInv'
<1>0. TypeOK /\ ReaderHolds /\ OwnInv /\ EntryInv
  BY DEF Holding
<1>1. UNCHANGED <<in, sentTo, got, pc, done, made, stream, proc, id, pending>>
  BY DEF Reader, Lookup, DropUnclaimed, HandOver, SkipForgotten, StopScanning, Shut,
         clientVars, callVars, transportVars, pipeVars, providerVars
<1>2. \A d \in Calls : (Fresh(d) => Fresh(d)') /\ FinalMade(d)' = FinalMade(d)
  BY <1>1 DEF Fresh, FinalMade
<1>3. CASE Lookup(h) \/ StopScanning(h) \/ Shut(h)
  <2>1. UNCHANGED <<frames, out>>
    BY <1>3 DEF Lookup, StopScanning, Shut, transportVars, pipeVars
  <2>2. \A d \in Calls : Reachable(d)' => Reachable(d)
    <3>1. CASE Lookup(h)
      <4>1. PICK i \in DOMAIN pending : target' = [target EXCEPT ![h] = pending[i]]
        BY <3>1 DEF Lookup
      <4>2. HasEntry(pending[i])
        BY <1>0, <4>1, EntryTypes DEF HasEntry
      <4>3. /\ target'[h] = pending[i]
            /\ \A g \in Gens : g # h => target'[g] = target[g] /\ readerAt'[g] = readerAt[g]
        BY <1>0, <3>1, <4>1 DEF Lookup, TypeOK
      <4>. QED
        BY <1>1, <4>2, <4>3 DEF Reachable, HasEntry
    <3>2. CASE StopScanning(h) \/ Shut(h)
      <4>1. target' = target /\ \A g \in Gens : readerAt'[g] = "delivering" => readerAt[g] = "delivering"
        BY <1>0, <3>2 DEF StopScanning, Shut, TypeOK
      <4>. QED
        BY <1>1, <4>1 DEF Reachable, HasEntry
    <3>. QED
      BY <1>3, <3>1, <3>2
  <2>3. \A d \in Calls : done[d] => pc[d] = "returned"
    BY DEF FrameInv, UnsentInv
  <2>. QED
    BY <1>0, <1>1, <1>2, <2>1, <2>2, <2>3, NothingMoves
<1>4. CASE DropUnclaimed(h) \/ SkipForgotten(h)
  <2>1. /\ out[h] # <<>> /\ out' = [out EXCEPT ![h] = Tail(out[h])] /\ UNCHANGED frames
        /\ \A g \in Gens : readerAt'[g] = "delivering" => /\ readerAt[g] = "delivering"
                                                          /\ target'[g] = target[g]
                                                          /\ g # h
    BY <1>0, <1>4 DEF DropUnclaimed, SkipForgotten, ReaderHolds, readerVars, transportVars, TypeOK
  <2>2. ASSUME NEW d \in Calls, Reachable(d)' PROVE Reachable(d) /\ ~Mine(Head(out[h]), d)
    <3>1. Reachable(d)
      BY <1>1, <2>1, <2>2 DEF Reachable, HasEntry
    <3>2. SUFFICES ASSUME Mine(Head(out[h]), d) PROVE FALSE
      BY <3>1
    <3>3. 1 \in 1..Len(out[h]) /\ Head(out[h]) = out[h][1]
      <4>1. PICK q \in Seq(Line) : q = out[h] /\ q # <<>>
        BY <1>0, <2>1, FrameTypes
      <4>2. 1 \in 1..Len(q) /\ Head(q) = q[1]
        BY <4>1
      <4>. QED
        BY <4>1, <4>2
    <3>4. sentTo[d] = h
      BY <3>2, <3>3 DEF FrameInv, OutInv, Sound, Mine
    <3>5. ~HasEntry(d)
      <4>1. CASE DropUnclaimed(h)
        <5>1. Owns(d, Head(out[h]).id)
          BY <3>2, <3>3, <1>0 DEF OwnInv, OutOwn, SeqSet, Mine
        <5>. QED
          BY <4>1, <5>1 DEF DropUnclaimed, HasEntry, Owns
      <4>2. CASE SkipForgotten(h)
        <5>1. target[h] = d
          BY <1>0, <3>2, <4>2 DEF SkipForgotten, OwnInv, HandOwn, Mine
        <5>2. pc[d] = "returned"
          BY <4>2, <5>1 DEF SkipForgotten, FrameInv, UnsentInv
        <5>. QED
          BY <1>0, <5>2 DEF HasEntry, EntryInv
      <4>. QED
        BY <1>4, <4>1, <4>2
    <3>6. PICK g \in Gens : readerAt[g] = "delivering" /\ target[g] = d /\ g # h
      BY <1>1, <2>1, <2>2, <3>5 DEF Reachable, HasEntry
    <3>7. sentTo[d] = g
      <4>1. Head(out[g]).to = d /\ IsAnswer(Head(out[g])) /\ out[g] # <<>>
        BY <1>0, <3>6 DEF OwnInv, HandOwn, ReaderHolds, IsAnswer, Response, FinalKind
      <4>2. PICK q \in Seq(Line) : q = out[g] /\ q # <<>>
        BY <1>0, <4>1, FrameTypes
      <4>3. 1 \in 1..Len(q) /\ Head(q) = q[1]
        BY <4>2
      <4>. QED
        BY <4>1, <4>2, <4>3 DEF FrameInv, OutInv, Sound
    <3>. QED
      BY <3>4, <3>6, <3>7
  <2>3. OutInv' /\ SeenInv' /\ UnderWayInv'
    BY <1>0, <1>1, <2>1, <2>2, FrameDropped DEF FrameInv
  <2>4. UnsentInv' /\ InInv'
    BY <1>0, <1>1, <1>2, <2>1, ElsewhereStays
  <2>. QED
    BY <2>3, <2>4 DEF FrameInv
<1>5. CASE HandOver(h)
  <2>1. PICK c \in Calls : c = target[h] /\ sentTo[c] = h
    <3>1. /\ target[h] \in Calls /\ Head(out[h]).to = target[h] /\ IsAnswer(Head(out[h])) /\ out[h] # <<>>
      BY <1>0, <1>5 DEF HandOver, OwnInv, HandOwn, ReaderHolds, IsAnswer, Response, FinalKind
    <3>2. PICK q \in Seq(Line) : q = out[h] /\ q # <<>>
      BY <1>0, <3>1, FrameTypes
    <3>3. 1 \in 1..Len(q) /\ Head(q) = q[1]
      BY <3>2
    <3>. QED
      BY <3>1, <3>2, <3>3 DEF FrameInv, OutInv, Sound
  <2>2. \A d \in Calls : sentTo[d] = 0 => got'[d] = got[d] /\ frames'[d] = frames[d]
    <3>1. \A d \in Calls : d # c => frames'[d] = frames[d]
      BY <1>0, <1>5, <2>1 DEF HandOver, TypeOK
    <3>2. 0 \notin Gens
      BY <1>0, FrameTypes
    <3>. QED
      BY <1>1, <2>1, <3>1, <3>2
  <2>3. \A d \in Calls : done[d] => pc[d] = "returned"
    BY DEF FrameInv, UnsentInv
  <2>4. UnsentInv' /\ InInv'
    BY <1>0, <1>1, <1>2, <2>2, <2>3, RequestsStay DEF FrameInv
  <2>5. OutInv' /\ SeenInv' /\ UnderWayInv'
    BY <1>0, <1>5, FrameHandedOver DEF FrameInv, OwnInv
  <2>. QED
    BY <2>4, <2>5 DEF FrameInv
<1>. QED
  BY <1>3, <1>4, <1>5 DEF Reader

(* The provider reads a request and answers it, or opens the watch.         *)
LEMMA ServeFrames ==
  ASSUME Holding, FrameInv, NEW h \in Gens, ServeNext(h)
  PROVE  FrameInv'
<1>0. TypeOK
  BY DEF Holding
<1>1. /\ proc[h] = "running" /\ in[h] # <<>> /\ in' = [in EXCEPT ![h] = Tail(@)]
      /\ UNCHANGED <<id, sentTo, got, frames, pc, done, pending, readerAt, target, proc>>
  BY DEF ServeNext, Answer, OpenWatch, RefuseUnready, CanRead, clientVars, callVars, transportVars, readerVars
<1>2. PICK req \in Request, c \in Calls : req = Head(in[h]) /\ c = req.from
  <2>1. PICK q \in Seq(Request) : q = in[h] /\ q # <<>>
    BY <1>0, <1>1, FrameTypes
  <2>2. Head(q) \in Request
    BY <2>1
  <2>3. Head(q).from \in Calls
    BY <2>2 DEF Request
  <2>. QED
    BY <2>1, <2>2, <2>3
<1>3. \A d \in Calls : Reachable(d)' <=> Reachable(d)
  BY <1>1 DEF Reachable, HasEntry
<1>4. CASE OpenWatch(h)
  <2>1. /\ c \in Streams /\ stream' = [stream EXCEPT ![c] = "spawned"] /\ UNCHANGED <<out, made>>
    BY <1>2, <1>4 DEF OpenWatch
  <2>2. \A d \in Calls : d # c /\ Fresh(d) => Fresh(d)'
    BY <1>0, <2>1 DEF TypeOK, Fresh
  <2>3. sentTo[c] = h /\ Fresh(c) /\ UnsentInv' /\ InInv'
    BY <1>0, <1>1, <1>2, <2>2, RequestRead DEF FrameInv
  <2>4. \A d \in Calls : FinalMade(d)' = FinalMade(d)
    BY <1>0, <2>1, <2>3 DEF TypeOK, Fresh, FinalMade
  <2>5. OutInv' /\ SeenInv' /\ UnderWayInv'
    BY <1>0, <1>1, <1>3, <2>1, <2>4, FramesStay DEF FrameInv
  <2>. QED
    BY <2>3, <2>5 DEF FrameInv
<1>5. ASSUME NEW kind \in FinalKind, Put(h, kind, req.id, c), c \in Streams => stream'[c] = "ended",
             \A w \in Streams : w # c => \/ stream'[w] = stream[w]
                                         \/ stream[w] = "open" /\ stream'[w] = "stopped"
      PROVE  FrameInv'
  <2>1. /\ out' = [out EXCEPT ![h] = Append(@, Frame(kind, req.id, c))]
        /\ made' = [made EXCEPT ![c] = @ + 1]
    BY <1>5 DEF Put
  <2>2. made'[c] = made[c] + 1 /\ \A d \in Calls : d # c => made'[d] = made[d]
    BY <1>0, <2>1, FrameTypes
  <2>3. \A d \in Calls : d # c /\ Fresh(d) => Fresh(d)'
    BY <1>5, <2>2 DEF Fresh
  <2>4. sentTo[c] = h /\ Fresh(c) /\ UnsentInv' /\ InInv'
    BY <1>0, <1>1, <1>2, <2>3, RequestRead DEF FrameInv
  <2>5. ~FinalMade(c) /\ FinalMade(c)' /\ made[c] = 0
    BY <1>0, <1>5, <2>2, <2>4 DEF Fresh, FinalMade
  <2>6. \A d \in Calls : d # c => FinalMade(d)' = FinalMade(d)
    BY <1>5, <2>2 DEF FinalMade
  <2>7. PICK f : f = Frame(kind, req.id, c)
    OBVIOUS
  <2>8. f \in Response /\ f.to = c /\ f.n = made[c] + 1 /\ IsLast(f)
    BY <2>5, <2>7 DEF Frame, Response, Request, IsLast
  <2>9. OutInv' /\ SeenInv' /\ UnderWayInv'
    BY <1>0, <1>1, <1>3, <2>1, <2>4, <2>5, <2>6, <2>7, <2>8, FrameIsMade DEF FrameInv
  <2>. QED
    BY <2>4, <2>9 DEF FrameInv
<1>6. CASE Answer(h)
  <2>1. \A w \in Streams : w # c => \/ stream'[w] = stream[w]
                                    \/ stream[w] = "open" /\ stream'[w] = "stopped"
    BY <1>6 DEF Answer
  <2>2. Put(h, "result", req.id, c) /\ c \notin Streams
    BY <1>2, <1>6 DEF Answer
  <2>. QED
    BY <1>5, <2>1, <2>2 DEF FinalKind
<1>7. CASE RefuseUnready(h)
  <2>1. Put(h, "unready", req.id, c) /\ c \notin Streams /\ stream' = stream
    BY <1>2, <1>7 DEF RefuseUnready
  <2>. QED
    BY <1>5, <2>1 DEF FinalKind
<1>. QED
  BY <1>4, <1>6, <1>7 DEF ServeNext

(* A watch starts, emits an event or ends. *)
LEMMA WatchFrames ==
  ASSUME Holding, FrameInv, NEW w \in Streams, Watching(w)
  PROVE  FrameInv'
<1>0. TypeOK /\ w \in Calls
  BY FrameTypes DEF Holding
<1>1. /\ stream[w] \in {"spawned", "open", "stopped"}
      /\ UNCHANGED <<in, id, sentTo, got, frames, pc, done, pending, readerAt, target, proc>>
  BY DEF Watching, StartWatch, Emit, EndStream, clientVars, callVars, transportVars, readerVars, pipeVars
<1>2. sentTo[w] \in Gens /\ sentTo[w] # 0
  BY <1>0, <1>1, FrameTypes DEF FrameInv, UnsentInv, Fresh
<1>3. \A d \in Calls : Reachable(d)' <=> Reachable(d)
  BY <1>1 DEF Reachable, HasEntry
<1>4. CASE StartWatch(w)
  <2>1. /\ stream[w] = "spawned" /\ stream' = [stream EXCEPT ![w] = "open"] /\ UNCHANGED <<out, made>>
    BY <1>4 DEF StartWatch, pipeVars
  <2>2. \A d \in Calls : FinalMade(d)' = FinalMade(d) /\ (Fresh(d) => Fresh(d)')
    BY <1>0, <2>1 DEF TypeOK, Fresh, FinalMade
  <2>3. \A d \in Calls : done[d] => pc[d] = "returned"
    BY DEF FrameInv, UnsentInv
  <2>. QED
    BY <1>0, <1>1, <1>3, <2>1, <2>2, <2>3, NothingMoves
<1>5. ASSUME NEW kind \in FinalKind \cup {"event"}, Put(sentTo[w], kind, id[w], w),
             stream[w] # "ended", stream[w] # "none",
             IF kind = "event" THEN stream' = stream ELSE stream' = [stream EXCEPT ![w] = "ended"]
      PROVE  FrameInv'
  <2>0. PICK h \in Gens : h = sentTo[w]
    BY <1>2
  <2>1. /\ out' = [out EXCEPT ![h] = Append(@, Frame(kind, id[w], w))] /\ proc[h] = "running"
        /\ made' = [made EXCEPT ![w] = @ + 1]
    BY <1>5, <2>0 DEF Put, CanWrite
  <2>2. \A d \in Calls : d # w => made'[d] = made[d]
    BY <1>0, <2>1, FrameTypes
  <2>3. \A d \in Streams : d # w => stream'[d] = stream[d]
    BY <1>0, <1>5 DEF TypeOK
  <2>4. (stream'[w] = "ended" <=> kind # "event") /\ (kind # "event" <=> kind \in FinalKind)
    BY <1>0, <1>5 DEF TypeOK, FinalKind
  <2>5. \A d \in Calls : d # w => FinalMade(d)' = FinalMade(d)
    BY <2>2, <2>3 DEF FinalMade
  <2>6. ~FinalMade(w) /\ (FinalMade(w)' <=> kind \in FinalKind)
    BY <1>5, <2>4 DEF FinalMade
  <2>7. \A d \in Calls : Fresh(d) => Fresh(d)'
    BY <1>5, <2>2, <2>3 DEF Fresh
  <2>8. PICK f : f = Frame(kind, id[w], w)
    OBVIOUS
  <2>9. f \in Response /\ f.to = w /\ f.n = made[w] + 1 /\ (IsLast(f) <=> kind \in FinalKind)
    <3>1. id[w] \in Nat /\ made[w] + 1 \in Nat
      BY <1>0, FrameTypes DEF TypeOK
    <3>. QED
      BY <1>0, <2>8, <3>1 DEF Frame, Response, IsLast
  <2>10. OutInv' /\ SeenInv' /\ UnderWayInv'
    BY <1>0, <1>1, <1>3, <2>0, <2>1, <2>5, <2>6, <2>8, <2>9, FrameIsMade DEF FrameInv
  <2>11. UnsentInv' /\ InInv'
    BY <1>0, <1>1, <2>7, ElsewhereStays
  <2>. QED
    BY <2>10, <2>11 DEF FrameInv
<1>6. CASE Emit(w)
  BY <1>5, <1>6 DEF Emit
<1>7. CASE EndStream(w)
  BY <1>5, <1>7 DEF EndStream, FinalKind
<1>. QED
  BY <1>4, <1>6, <1>7 DEF Watching

(* A process goes away, or writes what is not a response; Close begins.     *)
LEMMA OtherFrames ==
  ASSUME Holding, FrameInv,
         \/ \E g \in Gens : ExitAtEOF(g) \/ Crash(g) \/ WriteGarbage(g)
         \/ CloseNothing \/ CloseBegins \/ UNCHANGED vars
  PROVE  FrameInv'
<1>0. TypeOK
  BY DEF Holding
<1>1. UNCHANGED <<in, id, sentTo, got, frames, pc, done, pending, readerAt, target, made, stream>>
  BY DEF ExitAtEOF, Crash, WriteGarbage, CloseNothing, CloseBegins, vars,
         clientVars, callVars, transportVars, readerVars, pipeVars, providerVars
<1>2. \A d \in Calls : /\ Reachable(d)' <=> Reachable(d)
                       /\ FinalMade(d)' = FinalMade(d) /\ (Fresh(d) => Fresh(d)')
  BY <1>1 DEF Reachable, HasEntry, FinalMade, Fresh
<1>3. \A d \in Calls : done[d] => pc[d] = "returned"
  BY DEF FrameInv, UnsentInv
<1>4. ASSUME NEW g \in Gens, WriteGarbage(g) PROVE FrameInv'
  <2>1. out' = [out EXCEPT ![g] = Append(@, Garbage)] /\ proc' = proc
    BY <1>4 DEF WriteGarbage, providerVars
  <2>2. OutInv' /\ SeenInv' /\ UnderWayInv'
    BY <1>0, <1>1, <1>2, <2>1, GarbageIsWritten DEF FrameInv
  <2>3. UnsentInv' /\ InInv'
    BY <1>0, <1>1, <1>2, ElsewhereStays
  <2>. QED
    BY <2>2, <2>3 DEF FrameInv
<1>5. CASE out' = out /\ \A g \in Gens : proc'[g] = "running" => proc[g] = "running"
  BY <1>0, <1>1, <1>2, <1>3, <1>5, NothingMoves
<1>6. ASSUME (\E g \in Gens : ExitAtEOF(g) \/ Crash(g)) \/ CloseNothing \/ CloseBegins \/ UNCHANGED vars
      PROVE  out' = out /\ \A g \in Gens : proc'[g] = "running" => proc[g] = "running"
  BY <1>0, <1>6 DEF ExitAtEOF, Crash, CloseNothing, CloseBegins, vars, pipeVars, providerVars, TypeOK
<1>. QED
  BY <1>4, <1>5, <1>6

(* Every step does. *)
LEMMA FrameStep ==
  ASSUME Holding, FrameInv, [Next]_vars
  PROVE  FrameInv'
<1>1. ASSUME NEW c \in Calls, Caller(c) PROVE FrameInv'
  <2>1. CASE Receive(c)
    BY <2>1, ReceiveFrames
  <2>2. CASE Reap(c)
    BY <2>2, ReapingFrames
  <2>3. CASE Write(c)
    BY <2>3, RequestWritten DEF Holding
  <2>. QED
    BY <1>1, <2>1, <2>2, <2>3, CallMoves DEF Caller, Send, Select, Return
<1>2. ASSUME NEW g \in Gens, Reader(g) \/ Provider(g) PROVE FrameInv'
  BY <1>2, ReaderFrames, ServeFrames, OtherFrames DEF Provider
<1>3. ASSUME NEW w \in Streams, Watching(w) PROVE FrameInv'
  BY <1>3, WatchFrames
<1>4. CASE Close \/ UNCHANGED vars
  BY <1>4, ReapingFrames, OtherFrames DEF Close
<1>. QED
  BY <1>1, <1>2, <1>3, <1>4 DEF Next, Terminated

(* There are no frames to begin with. *)
LEMMA FrameStart ==
  ASSUME Init
  PROVE  FrameInv
<1>1. UnsentInv /\ InInv
  BY DEF Init, UnsentInv, InInv, Fresh
<1>2. OutInv /\ SeenInv
  BY DEF Init, OutInv, InOrder, SeenInv
<1>3. UnderWayInv
  BY DEF Init, UnderWayInv, Dense, Complete, HandedOver
<1>. QED
  BY <1>1, <1>2, <1>3 DEF FrameInv

-----------------------------------------------------------------------------
(* What a call has been handed, and what lies in its channel, are the       *)
(* answer to its request from the first frame on, in order, none missing,   *)
(* none twice and none after the last, however many frames a watch has,     *)
(* however full the pipes are and whatever happens to the provider.         *)
THEOREM FramesAlwaysInOrder == Spec => []FramesInOrder
<1>1. Init => Holding /\ FrameInv
  BY HoldingInit, FrameStart
<1>2. Holding /\ FrameInv /\ [Next]_vars => (Holding /\ FrameInv)'
  BY HoldingStep, FrameStep
<1>3. Holding /\ FrameInv => FramesInOrder
  <2> SUFFICES ASSUME Holding, FrameInv, NEW c \in Calls, NEW k \in 1..Len(got[c] \o frames[c])
               PROVE  LET seen == got[c] \o frames[c] IN
                      seen[k].n = k /\ (IsLast(seen[k]) => k = Len(seen))
    BY DEF FramesInOrder
  <2>1. PICK p \in Seq(Response), q \in Seq(Response) : p = got[c] /\ q = frames[c]
    BY FrameTypes DEF Holding
  <2>2. /\ Len(p \o q) = Len(p) + Len(q) /\ Len(p) \in Nat /\ Len(q) \in Nat
        /\ \A j \in 1..Len(p) : (p \o q)[j] = p[j]
        /\ \A j \in 1..Len(q) : (p \o q)[Len(p) + j] = q[j]
    OBVIOUS
  <2>3. (p \o q)[k].n = k /\ Numbered((p \o q)[k], c)
    <3>1. CASE k \in 1..Len(p)
      BY <2>1, <2>2, <3>1 DEF FrameInv, SeenInv
    <3>2. CASE k \notin 1..Len(p)
      <4>1. PICK j \in 1..Len(q) : k = Len(p) + j
        <5>1. PICK a \in Nat, b \in Nat : a = Len(p) /\ b = Len(q)
          BY <2>2
        <5>2. k \in 1..(a + b) /\ k \notin 1..a
          BY <2>1, <2>2, <3>2, <5>1
        <5>3. k - a \in 1..b /\ k = a + (k - a)
          BY <5>2
        <5>. QED
          BY <5>1, <5>3
      <4>2. q[j].n = Len(p) + j /\ Numbered(q[j], c)
        BY <2>1 DEF FrameInv, SeenInv
      <4>. QED
        BY <2>2, <4>1, <4>2
    <3>. QED
      BY <3>1, <3>2
  <2>4. HandedOver(c) <= made[c] /\ made[c] \in Nat /\ HandedOver(c) = Len(p \o q)
    BY <2>1, <2>2, HandedTypes, FrameTypes DEF Holding, FrameInv, HandedOver
  <2>5. IsLast((p \o q)[k]) => k = Len(p \o q)
    <3>1. PICK n \in Nat : n = Len(p \o q)
      BY <2>2
    <3>2. k \in 1..n
      BY <2>1, <3>1
    <3>3. IsLast((p \o q)[k]) => k = made[c]
      BY <2>3 DEF Numbered
    <3>. QED
      BY <2>4, <3>1, <3>2, <3>3
  <2>. QED
    BY <2>1, <2>3, <2>5
<1>. QED
  BY <1>1, <1>2, <1>3, PTL DEF Spec

-----------------------------------------------------------------------------
(* The refinement.                                                          *)

(* A callback that runs has a frame to run on. *)
HandlingInv == \A c \in Calls : pc[c] = "inFrame" => got[c] # <<>>

(* A call is in its callback only with a frame. *)
LEMMA HandlingStep ==
  ASSUME TypeOK, HandlingInv, [Next]_vars
  PROVE  HandlingInv'
<1>1. ASSUME NEW c \in Calls, Receive(c) PROVE HandlingInv'
  <2>0. PICK f : f = Head(frames[c])
    OBVIOUS
  <2>1. PICK p \in Seq(Response) : p = got[c]
    BY FrameTypes
  <2>2. Append(p, f) # <<>>
    BY <2>1
  <2>3. got'[c] = Append(p, f) /\ \A d \in Calls : d # c => got'[d] = got[d] /\ pc'[d] = pc[d]
    BY <1>1, <2>0, <2>1, FrameTypes DEF Receive, Finish, Goto
  <2>. QED
    BY <2>2, <2>3 DEF HandlingInv
<1>2. CASE got' = got /\ \A c \in Calls : pc'[c] = "inFrame" => pc[c] = "inFrame"
  BY <1>2 DEF HandlingInv
<1>3. ASSUME NEW c \in Calls, Caller(c), ~Receive(c)
      PROVE  got' = got /\ \A d \in Calls : pc'[d] = "inFrame" => pc[d] = "inFrame"
  BY <1>3
  DEF Caller, Send, Select, Return, TakeID, SendToRunning, SendStarting, StartFails, Write, WriteFails,
      OnFrameReturns, SeeClosed, GiveUp, DeathNothingToReap, DeathReaps, Reap, Forget, Goto, Finish, TypeOK
<1>4. ASSUME \/ \E g \in Gens : Reader(g) \/ Provider(g)
             \/ \E w \in Streams : Watching(w)
             \/ Close \/ UNCHANGED vars
      PROVE  UNCHANGED <<pc, got>>
  BY <1>4
  DEF Reader, Lookup, DropUnclaimed, HandOver, SkipForgotten, StopScanning, Shut,
      Provider, ServeNext, Answer, OpenWatch, RefuseUnready, ExitAtEOF, Crash, WriteGarbage,
      Watching, StartWatch, Emit, EndStream, Close, CloseNothing, CloseBegins, CloseReaps, vars, callVars
<1>. QED
  BY <1>1, <1>2, <1>3, <1>4 DEF Next, Terminated

(* What the caller of d was handed, as the contract has it. *)
LEMMA HandedAsPromised ==
  ASSUME TypeOK, OwnInv, SeenInv, NEW d \in Calls, Receive(d)
  PROVE  Contract(d)!HandOver
<1>1. /\ pc[d] = "waiting" /\ frames[d] # <<>>
      /\ got' = [got EXCEPT ![d] = Append(@, Head(frames[d]))]
      /\ UNCHANGED <<made, stream>>
      /\ pc' = [pc EXCEPT ![d] = IF d \in Streams THEN "inFrame" ELSE "forgetting"]
  BY DEF Receive, Goto, Finish, providerVars
<1>2. PICK p \in Seq(Response), q \in Seq(Response) : p = got[d] /\ q = frames[d] /\ q # <<>>
  BY <1>1, FrameTypes
<1>3. PICK f \in Response : f = Head(q)
  BY <1>2
<1>4. 1 \in 1..Len(q) /\ f = q[1] /\ Len(p) \in Nat
  BY <1>2, <1>3
<1>5. f.to = d /\ f.n = Len(p) + 1 /\ f.n \in 1..made[d] /\ made[d] \in Nat
  <2>1. f \in SeqSet(got[d]) \cup SeqSet(frames[d])
    BY <1>2, <1>4 DEF SeqSet
  <2>2. f.to = d
    BY <2>1 DEF OwnInv, OwnAnswers
  <2>3. f.n = Len(got[d]) + 1 /\ Numbered(f, d)
    BY <1>2, <1>4 DEF SeenInv
  <2>. QED
    BY <1>2, <2>2, <2>3, FrameTypes DEF Numbered
<1>6. got'[d] = Append(p, f)
  BY <1>1, <1>2, <1>3, FrameTypes
<1>7. PICK s : s = [k \in 1..Len(p) |-> <<p[k].to, p[k].n>>]
  OBVIOUS
<1>8. s \in Seq(Calls \X Nat) /\ Len(s) = Len(p)
  <2>1. \A k \in 1..Len(p) : p[k] \in Response
    OBVIOUS
  <2>2. \A k \in 1..Len(p) : <<p[k].to, p[k].n>> \in Calls \X Nat
    BY <2>1 DEF Response
  <2>. QED
    BY <1>4, <1>7, <2>2
<1>9. [k \in 1..Len(got'[d]) |-> <<got'[d][k].to, got'[d][k].n>>] = Append(s, <<d, Len(s) + 1>>)
  <2>1. /\ Len(Append(p, f)) = Len(p) + 1 /\ Append(p, f)[Len(p) + 1] = f
        /\ \A k \in 1..Len(p) : Append(p, f)[k] = p[k]
    OBVIOUS
  <2>2. PICK t : t = [k \in 1..(Len(p) + 1) |-> <<Append(p, f)[k].to, Append(p, f)[k].n>>]
    OBVIOUS
  <2>3. /\ DOMAIN Append(s, <<d, Len(s) + 1>>) = 1..(Len(s) + 1)
        /\ \A k \in 1..Len(s) : Append(s, <<d, Len(s) + 1>>)[k] = s[k]
        /\ Append(s, <<d, Len(s) + 1>>)[Len(s) + 1] = <<d, Len(s) + 1>>
        /\ Append(s, <<d, Len(s) + 1>>) = [k \in 1..(Len(s) + 1) |-> Append(s, <<d, Len(s) + 1>>)[k]]
    BY <1>8
  <2>4. ASSUME NEW k \in 1..(Len(p) + 1) PROVE t[k] = Append(s, <<d, Len(s) + 1>>)[k]
    <3>1. CASE k \in 1..Len(p)
      BY <1>7, <1>8, <2>1, <2>2, <2>3, <3>1
    <3>2. CASE k = Len(p) + 1
      BY <1>5, <1>8, <2>1, <2>2, <2>3, <3>2
    <3>3. PICK n \in Nat : n = Len(p)
      BY <1>4
    <3>4. k \in 1..n \/ k = n + 1
      BY <3>3
    <3>. QED
      BY <3>1, <3>2, <3>3, <3>4
  <2>5. t = Append(s, <<d, Len(s) + 1>>)
    BY <1>8, <2>2, <2>3, <2>4
  <2>. QED
    BY <1>6, <2>1, <2>2, <2>5
<1>10. StatusOf(d) = "open" /\ StatusOf(d)' = IF d \in Streams THEN "handling" ELSE "over"
  BY <1>1, FrameTypes DEF StatusOf
<1>11. Len(s) < made[d]
  BY <1>4, <1>5, <1>8
<1>12. made'[d] = made[d] /\ FinalMade(d)' = FinalMade(d)
  BY <1>1 DEF FinalMade
<1>13. s = [k \in 1..Len(got[d]) |-> <<got[d][k].to, got[d][k].n>>]
  BY <1>2, <1>7
<1>. QED
  BY <1>9, <1>10, <1>11, <1>12, <1>13 DEF Contract!HandOver

(* A step that changes nothing the contract sees of a call is a stutter. *)
LEMMA UntouchedCall ==
  ASSUME NEW d \in Calls, StatusOf(d)' = StatusOf(d), FinalMade(d)' = FinalMade(d),
         got'[d] = got[d], made'[d] = made[d]
  PROVE  UNCHANGED Contract(d)!vars
  BY DEF Contract!vars

(* The provider makes a frame of d's answer, whatever has become of d. *)
LEMMA FrameIsPromised ==
  ASSUME TypeOK, FrameInv, NEW d \in Calls, ~FinalMade(d), sentTo[d] # 0,
         made' = [made EXCEPT ![d] = @ + 1], d \notin Streams => FinalMade(d)',
         UNCHANGED <<pc, got>>
  PROVE  Contract(d)!Make
<1>1. StatusOf(d) # "unasked" /\ StatusOf(d)' = StatusOf(d)
  BY DEF StatusOf, FrameInv, UnsentInv
<1>2. made'[d] = made[d] + 1
  BY FrameTypes
<1>3. FinalMade(d)' \in BOOLEAN
  BY DEF FinalMade
<1>. QED
  BY <1>1, <1>2, <1>3 DEF Contract!Make

(* A step of d itself. *)
LEMMA CallerKeepsContract ==
  ASSUME Holding, FrameInv, HandlingInv, NEW d \in Calls, Caller(d)
  PROVE  [Contract(d)!Next]_(Contract(d)!vars)
<1>0. TypeOK /\ OwnInv /\ EntryInv
  BY DEF Holding
<1>1. CASE Receive(d)
  BY <1>0, <1>1, HandedAsPromised DEF FrameInv, Contract!Next
<1>2. ASSUME ~Receive(d)
      PROVE  /\ got'[d] = got[d] /\ made'[d] = made[d] /\ FinalMade(d)' = FinalMade(d)
             /\ [k \in 1..Len(got'[d]) |-> <<got'[d][k].to, got'[d][k].n>>]
                = [k \in 1..Len(got[d]) |-> <<got[d][k].to, got[d][k].n>>]
  BY <1>2
  DEF Caller, Send, Select, Return, TakeID, SendToRunning, SendStarting, StartFails, Write, WriteFails,
      OnFrameReturns, SeeClosed, GiveUp, DeathNothingToReap, DeathReaps, Reap, Forget, providerVars, FinalMade
<1>3. CASE Write(d)
  <2>1. StatusOf(d) = "unasked" /\ StatusOf(d)' = "open"
    BY <1>0, <1>3, FrameTypes DEF StatusOf, Write, Goto
  <2>2. ~Receive(d)
    BY <1>3 DEF Write, Receive
  <2>. QED
    BY <1>2, <2>1, <2>2 DEF Contract!Next, Contract!Ask
<1>4. CASE StatusOf(d) # "over" /\ StatusOf(d)' = "over" /\ ~Receive(d)
  BY <1>2, <1>4 DEF Contract!Next, Contract!End
<1>5. CASE StatusOf(d)' = StatusOf(d) /\ ~Receive(d)
  BY <1>2, <1>5, UntouchedCall
<1>6. CASE TakeID(d) \/ SendToRunning(d) \/ SendStarting(d)
  <2>1. StatusOf(d) = "unasked" /\ StatusOf(d)' = "unasked" /\ ~Receive(d)
    BY <1>0, <1>6, FrameTypes DEF StatusOf, TakeID, SendToRunning, SendStarting, Receive, Goto
  <2>. QED
    BY <1>5, <2>1
<1>7. CASE StartFails(d) \/ WriteFails(d) \/ SeeClosed(d) \/ GiveUp(d)
  <2>1. StatusOf(d) # "over" /\ StatusOf(d)' = "over"
    BY <1>0, <1>7, FrameTypes DEF StatusOf, StartFails, WriteFails, SeeClosed, GiveUp, Finish, Goto
  <2>2. CASE ~Receive(d)
    BY <1>4, <2>1, <2>2
  <2>. QED
    BY <1>1, <2>2
<1>8. CASE DeathNothingToReap(d) \/ DeathReaps(d) \/ Reap(d) \/ Forget(d)
  <2>1. StatusOf(d) = "over" /\ StatusOf(d)' = "over" /\ ~Receive(d)
    BY <1>0, <1>8, FrameTypes
    DEF StatusOf, DeathNothingToReap, DeathReaps, Reap, Forget, Receive, Finish, Goto
  <2>. QED
    BY <1>5, <2>1
<1>9. CASE OnFrameReturns(d)
  <2>1. StatusOf(d) = "handling" /\ ~Receive(d)
    BY <1>9 DEF StatusOf, OnFrameReturns, Receive
  <2>2. CASE StatusOf(d)' = "over"
    BY <1>4, <2>1, <2>2
  <2>3. CASE StatusOf(d)' # "over"
    <3>1. pc'[d] = "waiting" /\ StatusOf(d)' = "open" /\ got[d][Len(got[d])].kind = "event"
      BY <1>0, <1>9, <2>3, FrameTypes DEF OnFrameReturns, Finish, Goto, StatusOf
    <3>2. PICK p \in Seq(Response) : p = got[d] /\ p # <<>>
      BY <1>0, <1>9, FrameTypes DEF OnFrameReturns, HandlingInv
    <3>3. Len(p) \in 1..Len(p)
      BY <3>2
    <3>4. p[Len(p)].n = Len(p) /\ Numbered(p[Len(p)], d)
      BY <3>2, <3>3 DEF FrameInv, SeenInv
    <3>5. ~(FinalMade(d) /\ Len(p) = made[d])
      BY <3>1, <3>2, <3>4 DEF Numbered, IsLast, FinalKind
    <3>6. Len([k \in 1..Len(got[d]) |-> <<got[d][k].to, got[d][k].n>>]) = Len(p)
      BY <3>2
    <3>. QED
      BY <1>2, <2>1, <3>1, <3>5, <3>6 DEF Contract!Next, Contract!Accept
  <2>. QED
    BY <2>2, <2>3
<1>. QED
  BY <1>1, <1>3, <1>6, <1>7, <1>8, <1>9 DEF Caller, Send, Select, Return

(* A step of the provider. *)
LEMMA ProviderKeepsContract ==
  ASSUME Holding, FrameInv, NEW d \in Calls,
         (\E g \in Gens : ServeNext(g)) \/ (\E w \in Streams : Watching(w))
  PROVE  [Contract(d)!Next]_(Contract(d)!vars)
<1>0. TypeOK
  BY DEF Holding
<1>1. UNCHANGED <<pc, got>> /\ StatusOf(d)' = StatusOf(d)
  BY DEF ServeNext, Answer, OpenWatch, RefuseUnready, Watching, StartWatch, Emit, EndStream, callVars, StatusOf
<1>2. CASE made'[d] = made[d] /\ FinalMade(d)' = FinalMade(d)
  BY <1>1, <1>2, UntouchedCall
<1>3. ASSUME ~FinalMade(d), sentTo[d] # 0, made' = [made EXCEPT ![d] = @ + 1], d \notin Streams => FinalMade(d)'
      PROVE  Contract(d)!Next
  BY <1>0, <1>1, <1>3, FrameIsPromised DEF Contract!Next
<1>4. ASSUME NEW g \in Gens, ServeNext(g) PROVE [Contract(d)!Next]_(Contract(d)!vars)
  <2>1. PICK q \in Seq(Request) : q = in[g] /\ q # <<>>
    BY <1>0, <1>4, FrameTypes DEF ServeNext, Answer, OpenWatch, RefuseUnready, CanRead
  <2>2. 1 \in 1..Len(q) /\ Head(q) = q[1] /\ q[1] \in Request
    BY <2>1
  <2>3. PICK c \in Calls : c = Head(in[g]).from /\ sentTo[c] = g /\ Fresh(c)
    BY <2>1, <2>2 DEF FrameInv, InInv, Request
  <2>4. sentTo[c] # 0 /\ ~FinalMade(c) /\ made[c] = 0
    BY <1>0, <2>3, FrameTypes DEF Fresh, FinalMade
  <2>5. CASE OpenWatch(g)
    <3>1. made'[d] = made[d] /\ FinalMade(d)' = FinalMade(d)
      BY <1>0, <2>3, <2>5 DEF OpenWatch, FinalMade, Fresh, TypeOK
    <3>. QED
      BY <1>2, <3>1
  <2>6. CASE Answer(g) \/ RefuseUnready(g)
    <3>1. made' = [made EXCEPT ![c] = @ + 1]
      BY <2>3, <2>6 DEF Answer, RefuseUnready, Put
    <3>2. CASE d = c
      <4>1. d \notin Streams => FinalMade(d)'
        BY <1>0, <2>4, <3>1, <3>2, FrameTypes DEF FinalMade
      <4>. QED
        BY <1>3, <2>4, <3>1, <3>2, <4>1
    <3>3. CASE d # c
      <4>1. made'[d] = made[d]
        BY <1>0, <3>1, <3>3, FrameTypes
      <4>2. d \in Streams => (stream'[d] = "ended" <=> stream[d] = "ended")
        BY <2>3, <2>6, <3>3 DEF Answer, RefuseUnready
      <4>3. FinalMade(d)' = FinalMade(d)
        BY <4>1, <4>2 DEF FinalMade
      <4>. QED
        BY <1>2, <4>1, <4>3
    <3>. QED
      BY <3>2, <3>3
  <2>. QED
    BY <1>4, <2>5, <2>6 DEF ServeNext
<1>5. ASSUME NEW w \in Streams, Watching(w) PROVE [Contract(d)!Next]_(Contract(d)!vars)
  <2>1. stream[w] \in {"spawned", "open", "stopped"} /\ w \in Calls
    BY <1>0, <1>5, FrameTypes DEF Watching, StartWatch, Emit, EndStream
  <2>2. ~FinalMade(w) /\ sentTo[w] # 0
    BY <2>1 DEF FinalMade, FrameInv, UnsentInv, Fresh
  <2>3. CASE StartWatch(w)
    <3>1. made'[d] = made[d] /\ FinalMade(d)' = FinalMade(d)
      BY <1>0, <2>3 DEF StartWatch, FinalMade, TypeOK
    <3>. QED
      BY <1>2, <3>1
  <2>4. CASE Emit(w) \/ EndStream(w)
    <3>1. made' = [made EXCEPT ![w] = @ + 1]
      BY <2>4 DEF Emit, EndStream, Put
    <3>2. CASE d = w
      BY <1>3, <2>2, <3>1, <3>2
    <3>3. CASE d # w
      <4>1. made'[d] = made[d] /\ (d \in Streams => stream'[d] = stream[d])
        BY <1>0, <2>4, <3>1, <3>3, FrameTypes DEF Emit, EndStream
      <4>. QED
        BY <1>2, <4>1 DEF FinalMade
    <3>. QED
      BY <3>2, <3>3
  <2>. QED
    BY <1>5, <2>3, <2>4 DEF Watching
<1>. QED
  BY <1>4, <1>5

(* Every step is a step of the contract of each call, or a stutter. *)
LEMMA StepKeepsContract ==
  ASSUME Holding, FrameInv, HandlingInv, [Next]_vars, NEW d \in Calls
  PROVE  [Contract(d)!Next]_(Contract(d)!vars)
<1>0. TypeOK
  BY DEF Holding
<1>1. ASSUME NEW c \in Calls, Caller(c), c # d PROVE UNCHANGED Contract(d)!vars
  <2>1. pc'[d] = pc[d] /\ got'[d] = got[d] /\ UNCHANGED <<made, stream>>
    BY <1>0, <1>1
    DEF Caller, Send, Select, Return, TakeID, SendToRunning, SendStarting, StartFails, Write, WriteFails,
        Receive, OnFrameReturns, SeeClosed, GiveUp, DeathNothingToReap, DeathReaps, Reap, Forget,
        Goto, Finish, providerVars, TypeOK
  <2>. QED
    BY <2>1, UntouchedCall DEF StatusOf, FinalMade
<1>2. ASSUME \/ \E g \in Gens : Reader(g) \/ ExitAtEOF(g) \/ Crash(g) \/ WriteGarbage(g)
             \/ Close \/ UNCHANGED vars
      PROVE  UNCHANGED Contract(d)!vars
  <2>1. UNCHANGED <<pc, got, made, stream>>
    BY <1>2
    DEF Reader, Lookup, DropUnclaimed, HandOver, SkipForgotten, StopScanning, Shut,
        ExitAtEOF, Crash, WriteGarbage, Close, CloseNothing, CloseBegins, CloseReaps, vars, callVars, providerVars
  <2>. QED
    BY <2>1, UntouchedCall DEF StatusOf, FinalMade
<1>. QED
  BY <1>1, <1>2, CallerKeepsContract, ProviderKeepsContract DEF Next, Terminated, Provider

(* A provider run as a process keeps the contract of a Transport, for any   *)
(* set of calls: through full pipes, restarts, crashes, garbage, cancelled  *)
(* contexts and Close, every caller is handed its own frames, in order,     *)
(* each once, and none when its call is over.                               *)
THEOREM SubprocessKeepsContract == Spec => KeepsContract
<1>1. Init => Holding /\ FrameInv /\ HandlingInv
  BY HoldingInit, FrameStart DEF Init, HandlingInv
<1>2. Holding /\ FrameInv /\ HandlingInv /\ [Next]_vars => (Holding /\ FrameInv /\ HandlingInv)'
  BY HoldingStep, FrameStep, HandlingStep DEF Holding
<1>3. Init => \A c \in Calls : Contract(c)!Init
  <2> SUFFICES ASSUME Init, NEW c \in Calls PROVE Contract(c)!Init
    OBVIOUS
  <2>1. StatusOf(c) = "unasked" /\ made[c] = 0 /\ FinalMade(c) = FALSE
    BY DEF Init, StatusOf, FinalMade
  <2>2. got[c] = <<>>
    BY DEF Init
  <2>3. [k \in 1..Len(got[c]) |-> <<got[c][k].to, got[c][k].n>>] = <<>>
    <3>1. 1..Len(got[c]) = {}
      BY <2>2
    <3>2. \A e : [k \in {} |-> e] = <<>>
      OBVIOUS
    <3>. QED
      BY <3>1, <3>2
  <2>. QED
    BY <2>1, <2>3 DEF Contract!Init
<1>4. Holding /\ FrameInv /\ HandlingInv /\ [Next]_vars
      => [\A c \in Calls : [Contract(c)!Next]_(Contract(c)!vars)]_vars
  BY StepKeepsContract
<1>. QED
  BY <1>1, <1>2, <1>3, <1>4, PTL DEF Spec, KeepsContract

-----------------------------------------------------------------------------
(* A step that writes no request leaves what was sent where it is. *)
LEMMA NothingSent ==
  ASSUME TypeOK, [Next]_vars, \A c \in Calls : ~Write(c)
  PROVE  sentTo' = sentTo /\ \A g \in Gens : in'[g] = in[g] \/ (in[g] # <<>> /\ in'[g] = Tail(in[g]))
<1>1. ASSUME NEW c \in Calls, Caller(c) PROVE UNCHANGED <<in, sentTo>>
  BY <1>1 DEF Caller, Send, Select, Return, TakeID, SendToRunning, SendStarting, StartFails, WriteFails,
         Receive, OnFrameReturns, SeeClosed, GiveUp, DeathNothingToReap, DeathReaps, Reap, Forget,
         transportVars, pipeVars
<1>2. ASSUME NEW g \in Gens, Reader(g) PROVE UNCHANGED <<in, sentTo>>
  BY <1>2 DEF Reader, Lookup, DropUnclaimed, HandOver, SkipForgotten, StopScanning, Shut, transportVars, pipeVars
<1>3. ASSUME NEW h \in Gens, Provider(h)
      PROVE  sentTo' = sentTo /\ \A g \in Gens : in'[g] = in[g] \/ (in[g] # <<>> /\ in'[g] = Tail(in[g]))
  <2>1. CASE ServeNext(h)
    <3>1. in[h] # <<>> /\ in' = [in EXCEPT ![h] = Tail(@)] /\ sentTo' = sentTo
      BY <2>1 DEF ServeNext, Answer, OpenWatch, RefuseUnready, CanRead, transportVars
    <3>. QED
      BY <3>1 DEF TypeOK
  <2>2. CASE ExitAtEOF(h) \/ Crash(h) \/ WriteGarbage(h)
    BY <2>2 DEF ExitAtEOF, Crash, WriteGarbage, transportVars, pipeVars
  <2>. QED
    BY <1>3, <2>1, <2>2 DEF Provider
<1>4. ASSUME NEW w \in Streams, Watching(w) PROVE UNCHANGED <<in, sentTo>>
  BY <1>4 DEF Watching, StartWatch, Emit, EndStream, transportVars, pipeVars
<1>5. ASSUME Close \/ UNCHANGED vars PROVE UNCHANGED <<in, sentTo>>
  BY <1>5 DEF Close, CloseNothing, CloseBegins, CloseReaps, vars, transportVars, pipeVars
<1>. QED
  BY <1>1, <1>2, <1>3, <1>4, <1>5 DEF Next, Terminated

(* A request reaches one provider at most, once: whoever writes has not      *)
(* written before (UnsentInv), and nobody else puts a line in a stdin pipe.  *)
THEOREM RequestsAreSentOnce == Spec => NeverResent
<1> DEFINE SentOnce == \A c \in Calls : sentTo[c] # 0 =>
      sentTo'[c] = sentTo[c] /\ \A g \in Gens : Len(in'[g]) > Len(in[g]) => in'[g][Len(in'[g])].from # c
<1>1. Init => Holding /\ FrameInv
  BY HoldingInit, FrameStart
<1>2. Holding /\ FrameInv /\ [Next]_vars => (Holding /\ FrameInv)'
  BY HoldingStep, FrameStep
<1>3. ASSUME Holding, FrameInv, [Next]_vars PROVE SentOnce
  <2>0. TypeOK /\ UnsentInv
    BY <1>3 DEF Holding, FrameInv
  <2>1. ASSUME NEW c \in Calls, Write(c) PROVE SentOnce
    <3>1. PICK r : r = [id |-> id[c], from |-> c]
      OBVIOUS
    <3>2. /\ sentTo[c] = 0 /\ in' = [in EXCEPT ![cmd] = Append(@, r)] /\ r.from = c
          /\ sentTo' = [sentTo EXCEPT ![c] = cmd] /\ r \in Request
      BY <2>0, <2>1, <3>1 DEF Write, UnsentInv, Request, TypeOK
    <3>3. \A d \in Calls : sentTo[d] # 0 => d # c /\ sentTo'[d] = sentTo[d]
      BY <2>0, <3>2 DEF TypeOK
    <3>4. ASSUME NEW g \in Gens, Len(in'[g]) > Len(in[g]) PROVE in'[g][Len(in'[g])].from = c
      <4>1. PICK q \in Seq(Request) : q = in[g]
        BY <2>0 DEF TypeOK
      <4>2. in'[g] = q \/ in'[g] = Append(q, r)
        BY <2>0, <3>2, <4>1 DEF TypeOK
      <4>3. in'[g] = Append(q, r)
        BY <3>4, <4>1, <4>2
      <4>4. Append(q, r)[Len(Append(q, r))] = r
        BY <3>2
      <4>. QED
        BY <3>2, <4>3, <4>4
    <3>. QED
      BY <3>3, <3>4
  <2>2. CASE \A c \in Calls : ~Write(c)
    <3>1. sentTo' = sentTo /\ \A g \in Gens : in'[g] = in[g] \/ (in[g] # <<>> /\ in'[g] = Tail(in[g]))
      BY <1>3, <2>0, <2>2, NothingSent
    <3>2. ASSUME NEW g \in Gens PROVE ~(Len(in'[g]) > Len(in[g]))
      <4>1. PICK q \in Seq(Request) : q = in[g]
        BY <2>0 DEF TypeOK
      <4>2. Len(q) \in Nat /\ (q # <<>> => Len(Tail(q)) = Len(q) - 1)
        OBVIOUS
      <4>3. in'[g] = q \/ (q # <<>> /\ in'[g] = Tail(q))
        BY <3>1, <4>1
      <4>4. ~(Len(q) > Len(q)) /\ (q # <<>> => ~(Len(Tail(q)) > Len(q)))
        BY <4>2
      <4>5. CASE in'[g] = q
        BY <4>1, <4>4, <4>5, Zenon
      <4>6. CASE q # <<>> /\ in'[g] = Tail(q)
        BY <4>1, <4>4, <4>6, Zenon
      <4>. QED
        BY <4>3, <4>5, <4>6
    <3>. QED
      BY <3>1, <3>2
  <2>. QED
    BY <2>1, <2>2
<1>4. Holding /\ FrameInv /\ [Next]_vars => [SentOnce]_vars
  BY <1>3
<1>. QED
  BY <1>1, <1>2, <1>4, PTL DEF Spec, NeverResent
=============================================================================
