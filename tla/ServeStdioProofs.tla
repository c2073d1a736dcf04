--------------------------- MODULE ServeStdioProofs ---------------------------
(***************************************************************************)
(* Proofs about the provider's end, for any number of requests, watches    *)
(* and events, with a far side that sends anything, closes or stops        *)
(* reading: lines stay whole, every answer has one last frame, the         *)
(* registry is exact, and nothing is left unsaid.                          *)
(*                                                                         *)
(* The argument follows a request: unread, it has no goroutine and no line *)
(* (ReadInv); whoever has something left to say under its id is one        *)
(* thread, and no last frame is written (SayInv); and until one is         *)
(* written, the request is unread or with somebody (AccountInv).           *)
(***************************************************************************)
EXTENDS ServeStdio, FiniteSetTheorems, TLAPS

Unfinished(i) == \A k \in 1..Len(out) : out[k].id = i => ~IsLast(out[k])

MainSays(i) == at[Main] = "saying" /\ say[Main].id = i

Unread(i) == i > asked \/ \E k \in 1..Len(in) : in[k] = i

QueueInv ==
  /\ \A k \in 1..Len(in) : in[k] <= asked
  /\ \A j, k \in 1..Len(in) : j < k => in[j] < in[k]

ReadInv == \A i \in Ids : Unread(i) => at[i] = "none" /\ Unfinished(i) /\ ~MainSays(i)

SayInv ==
  /\ \A i \in Ids : /\ at[i] \in {"spawned", "watching", "saying"} => Unfinished(i)
                    /\ at[i] = "saying" => say[i].id = i
                    /\ MainSays(i) => at[i] = "none" /\ Unfinished(i)
  /\ \A t \in Threads : at[t] = "saying" => say[t] \in Line

(* Whoever holds the write mutex is in the middle of its line, nobody else. *)
MutexInv ==
  /\ halfway = IF write = NoOne THEN {} ELSE {write}
  /\ \A t \in halfway : at[t] = "saying"

RegistryInv ==
  /\ RegistryIsExact
  /\ \A i \in Ids : at[i] = "saying" =>
       /\ say[i].kind \in {"refused", "event", "failed", "end"}
       /\ say[i].kind = "event" => i \in watches \cup cancelled
       /\ say[i].kind = "refused" => i \notin watches

(* The goroutines are over when ServeStdio has returned. *)
WatchesAreOver == at[Main] = "returned" => \A i \in Ids : at[i] \in {"none", "finished"}

Accounted(i) ==
  Unread(i) \/ MainSays(i) \/ at[i] \in {"spawned", "watching", "saying"} \/ Answered(i)

(* No request is lost while the far side reads and the process lives. *)
AccountInv ==
  /\ at[Main] = "saying" => say[Main].kind # "event"
  /\ ~broken /\ at[Main] # "panicked" =>
       /\ at[Main] \in {"draining", "returned"} => eof /\ in = <<>>
       /\ \A i \in Ids : method[i] # "junk" => Accounted(i)

ServeInv == TypeOK /\ QueueInv /\ ReadInv /\ SayInv /\ MutexInv /\ RegistryInv /\ AccountInv
            /\ OneLastFrame /\ WatchesAreOver

-----------------------------------------------------------------------------
(* What the constants say. *)
LEMMA ThreadTypes ==
  /\ Main \in Threads /\ Main \notin Ids /\ Ids \subseteq Threads /\ NoOne \notin Threads
  /\ Ids \subseteq Nat \ {0} /\ MaxRequests \in Nat \ {0}
  /\ \A t \in Threads : t = Main \/ t \in Ids
  BY ServeAssumption DEF Main, Threads, Ids, NoOne

(* What the types say of the lines and the requests. *)
LEMMA ServeTypes ==
  ASSUME TypeOK
  PROVE  /\ asked \in 0..MaxRequests /\ in \in Seq(Ids) /\ out \in Seq(Line) /\ Len(out) \in Nat
         /\ DOMAIN at = Threads /\ DOMAIN say = Threads
         /\ \A k \in 1..Len(in) : in[k] \in Ids
<1>1. in \in Seq(Ids) /\ out \in Seq(Line) /\ asked \in 0..MaxRequests
      /\ DOMAIN at = Threads /\ DOMAIN say = Threads
  BY DEF TypeOK
<1>. QED
  BY <1>1

(* The loop takes the first request, which it has not seen before. *)
LEMMA RequestTaken ==
  ASSUME TypeOK, QueueInv, ReadInv, NEW i \in Ids, Reads(i), UNCHANGED <<asked, out>>
  PROVE  /\ at[i] = "none" /\ Unfinished(i)
         /\ QueueInv' /\ in' \in Seq(Ids)
         /\ \A j \in Ids : Unread(j)' => Unread(j) /\ j # i
<1>1. PICK q \in Seq(Ids) : q = in /\ q # <<>>
  BY DEF Reads, TypeOK
<1>2. /\ Head(q) = q[1] /\ Len(Tail(q)) = Len(q) - 1 /\ Tail(q) \in Seq(Ids) /\ Len(q) \in Nat \ {0}
      /\ \A k \in 1..(Len(q) - 1) : k + 1 \in 1..Len(q) /\ Tail(q)[k] = q[k + 1]
  BY <1>1
<1>3. in' = Tail(q) /\ i = q[1] /\ 1 \in 1..Len(q)
  BY <1>1, <1>2 DEF Reads
<1>4. Unread(i)
  BY <1>1, <1>3 DEF Unread
<1>5. asked' = asked /\ asked \in Nat /\ i <= asked
  BY <1>1, <1>3, ThreadTypes, ServeTypes DEF QueueInv
<1>6. ASSUME NEW k \in 1..(Len(q) - 1) PROVE Tail(q)[k] <= asked /\ Tail(q)[k] # i
  <2>1. k + 1 \in 1..Len(q) /\ 1 < k + 1 /\ Tail(q)[k] = q[k + 1] /\ q[k + 1] \in Ids
    BY <1>1, <1>2
  <2>2. q[k + 1] <= asked /\ q[1] < q[k + 1]
    BY <1>1, <1>3, <2>1 DEF QueueInv
  <2>. QED
    BY <1>3, <2>1, <2>2, ThreadTypes
<1>7. ASSUME NEW j \in 1..(Len(q) - 1), NEW k \in 1..(Len(q) - 1), j < k PROVE Tail(q)[j] < Tail(q)[k]
  <2>1. j + 1 \in 1..Len(q) /\ k + 1 \in 1..Len(q) /\ j + 1 < k + 1
    BY <1>2, <1>7
  <2>. QED
    BY <1>1, <1>2, <2>1 DEF QueueInv
<1>8. QueueInv'
  BY <1>2, <1>3, <1>5, <1>6, <1>7 DEF QueueInv
<1>9. ASSUME NEW j \in Ids, Unread(j)' PROVE Unread(j) /\ j # i
  <2>1. CASE j > asked
    BY <1>3, <1>5, <2>1, ThreadTypes DEF Unread
  <2>2. CASE ~(j > asked)
    <3>1. PICK k \in 1..(Len(q) - 1) : Tail(q)[k] = j
      BY <1>2, <1>3, <1>5, <1>9, <2>2 DEF Unread
    <3>2. k + 1 \in 1..Len(q) /\ q[k + 1] = j
      BY <1>2, <3>1
    <3>. QED
      BY <1>1, <1>6, <3>1, <3>2 DEF Unread
  <2>. QED
    BY <2>1, <2>2
<1>. QED
  BY <1>2, <1>3, <1>4, <1>8, <1>9 DEF ReadInv

(* The far side sends one more. *)
LEMMA RequestSent ==
  ASSUME TypeOK, QueueInv, NEW m \in Methods, Ask(m)
  PROVE  /\ QueueInv' /\ in' \in Seq(Ids) /\ asked' \in 0..MaxRequests
         /\ \A j \in Ids : Unread(j)' => Unread(j)
<1>1. PICK q \in Seq(Ids) : q = in
  BY DEF TypeOK
<1>2. /\ Len(Append(q, asked + 1)) = Len(q) + 1 /\ Append(q, asked + 1)[Len(q) + 1] = asked + 1 /\ Len(q) \in Nat
      /\ \A k \in 1..Len(q) : Append(q, asked + 1)[k] = q[k] /\ q[k] \in Ids
  OBVIOUS
<1>3. /\ in' = Append(q, asked + 1) /\ asked' = asked + 1 /\ asked \in Nat /\ asked + 1 \in Ids
  BY <1>1, ThreadTypes, ServeTypes DEF Ask, Ids
<1>4. Append(q, asked + 1) \in Seq(Ids)
  BY <1>3
<1>5. ASSUME NEW k \in 1..Len(q) PROVE in'[k] = q[k] /\ q[k] \in Nat /\ q[k] <= asked
  <2>1. in'[k] = q[k] /\ q[k] \in Ids
    BY <1>2, <1>3
  <2>2. q[k] <= asked
    BY <1>1 DEF QueueInv
  <2>. QED
    BY <2>1, <2>2, ThreadTypes
<1>6. ASSUME NEW k \in 1..(Len(q) + 1) PROVE in'[k] <= asked + 1
  <2>1. CASE k \in 1..Len(q)
    BY <1>3, <1>5, <2>1
  <2>2. CASE k = Len(q) + 1
    BY <1>2, <1>3, <2>2
  <2>. QED
    BY <1>2, <2>1, <2>2
<1>7. ASSUME NEW j \in 1..(Len(q) + 1), NEW k \in 1..(Len(q) + 1), j < k PROVE in'[j] < in'[k]
  <2>1. j \in 1..Len(q) /\ in'[j] = q[j] /\ q[j] <= asked /\ q[j] \in Nat
    <3>1. j \in 1..Len(q)
      BY <1>2, <1>7
    <3>. QED
      BY <1>5, <3>1
  <2>2. CASE k \in 1..Len(q)
    BY <1>1, <1>2, <1>3, <1>7, <2>1, <2>2 DEF QueueInv
  <2>3. CASE k = Len(q) + 1
    BY <1>2, <1>3, <2>1, <2>3
  <2>. QED
    BY <1>2, <2>2, <2>3
<1>8. QueueInv'
  BY <1>2, <1>3, <1>6, <1>7 DEF QueueInv
<1>9. ASSUME NEW j \in Ids, Unread(j)' PROVE Unread(j)
  <2>1. CASE j > asked
    BY <2>1 DEF Unread
  <2>2. CASE ~(j > asked)
    <3>1. j # asked + 1 /\ ~(j > asked + 1)
      BY <1>3, <2>2, ThreadTypes
    <3>2. PICK k \in 1..(Len(q) + 1) : Append(q, asked + 1)[k] = j
      BY <1>2, <1>3, <1>9, <3>1 DEF Unread
    <3>3. k \in 1..Len(q) /\ q[k] = j
      BY <1>2, <3>1, <3>2
    <3>. QED
      BY <1>1, <3>3 DEF Unread
  <2>. QED
    BY <2>1, <2>2
<1>. QED
  BY <1>3, <1>4, <1>8, <1>9, ThreadTypes DEF Ids

(* A thread completes its line. *)
LEMMA LineAdded ==
  ASSUME TypeOK, SayInv, OneLastFrame, NEW t \in Threads, at[t] = "saying", out' = Append(out, say[t])
  PROVE  /\ out' \in Seq(Line) /\ say[t] \in Line
         /\ \A k \in 1..Len(out') : (k \in 1..Len(out) /\ out'[k] = out[k]) \/ out'[k] = say[t]
         /\ OneLastFrame'
         /\ \A i \in Ids : Unfinished(i) /\ (say[t].id = i => ~IsLast(say[t])) => Unfinished(i)'
<1>1. PICK q \in Seq(Line), f \in Line : q = out /\ f = say[t]
  BY DEF TypeOK, SayInv
<1>2. /\ Len(Append(q, f)) = Len(q) + 1 /\ Append(q, f)[Len(q) + 1] = f /\ Len(q) \in Nat
      /\ \A k \in 1..Len(q) : Append(q, f)[k] = q[k]
      /\ Append(q, f) \in Seq(Line)
  OBVIOUS
<1>3. \A k \in 1..(Len(q) + 1) : k \in 1..Len(q) \/ k = Len(q) + 1
  BY <1>2
<1>4. \A k \in 1..Len(out') : (k \in 1..Len(out) /\ out'[k] = out[k]) \/ out'[k] = say[t]
  BY <1>1, <1>2, <1>3
<1>5. f.id # 0 => f.id \in Ids /\ Unfinished(f.id)
  <2>1. f.id \in {0} \cup Ids
    BY <1>1 DEF Line
  <2>2. CASE t = Main
    BY <1>1, <2>1, <2>2 DEF SayInv, MainSays
  <2>3. CASE t \in Ids
    BY <1>1, <2>3 DEF SayInv
  <2>. QED
    BY <2>2, <2>3, ThreadTypes
<1>6. OneLastFrame'
  <2> SUFFICES ASSUME NEW k \in 1..(Len(q) + 1), NEW l \in 1..(Len(q) + 1), k < l,
                      Append(q, f)[k].id = Append(q, f)[l].id, Append(q, f)[k].id # 0
               PROVE  ~IsLast(Append(q, f)[k])
    BY <1>1, <1>2 DEF OneLastFrame
  <2>1. k \in 1..Len(q) /\ Append(q, f)[k] = q[k]
    <3>1. k \in 1..Len(q)
      BY <1>2
    <3>. QED
      BY <1>2, <3>1
  <2>2. CASE l \in 1..Len(q)
    BY <1>1, <1>2, <2>1, <2>2 DEF OneLastFrame
  <2>3. CASE l = Len(q) + 1
    BY <1>1, <1>2, <1>5, <2>1, <2>3 DEF Unfinished
  <2>. QED
    BY <1>3, <2>2, <2>3
<1>7. \A i \in Ids : Unfinished(i) /\ (say[t].id = i => ~IsLast(say[t])) => Unfinished(i)'
  BY <1>4 DEF Unfinished
<1>. QED
  BY <1>1, <1>2, <1>4, <1>6, <1>7

(* What the loop does with a request it reads. *)
LEMMA ReadEffect ==
  ASSUME TypeOK, NEW i \in Ids, Read(i)
  PROVE  /\ Reads(i)
         /\ UNCHANGED <<asked, method, names, eof, broken, events, write, halfway, out>>
         /\ UNCHANGED provider \/ provider' = TRUE
         /\ watches' \subseteq watches /\ cancelled' \subseteq Ids
         /\ watches \cup cancelled \subseteq watches' \cup cancelled'
         /\ \/ UNCHANGED say /\ (at' = [at EXCEPT ![Main] = "panicked"] \/ at' = [at EXCEPT ![i] = "spawned"])
            \/ \E j \in {0, i}, kind \in {"result", "error"} : Says(Main, j, kind)
<1>1. CASE ReadJunk(i) \/ ReadHandshake(i) \/ ReadSchema(i) \/ ReadBeforeHandshake(i)
  BY <1>1 DEF ReadJunk, ReadHandshake, ReadSchema, ReadBeforeHandshake, askVars, serverVars, lineVars, TypeOK
<1>2. CASE ReadVerb(i) \/ ReadStop(i) \/ SpawnWatch(i)
  BY <1>2 DEF ReadVerb, ReadStop, SpawnWatch, askVars, serverVars, lineVars, TypeOK
<1>. QED
  BY <1>1, <1>2 DEF Read

(* What a watch's goroutine does of its own. *)
LEMMA WatchEffect ==
  ASSUME TypeOK, NEW i \in Ids, Watch(i)
  PROVE  /\ at[Main] \notin {"panicked", "returned"} /\ at[i] \in {"spawned", "watching", "closing"}
         /\ UNCHANGED <<asked, method, names, eof, broken, in, provider, write, halfway, out>>
         /\ watches' \subseteq Ids /\ cancelled' \subseteq Ids /\ events' \in [Ids -> Nat]
         /\ \/ /\ UNCHANGED say
               /\ \/ at' = [at EXCEPT ![i] = "watching"] /\ at[i] = "spawned"
                  \/ at' = [at EXCEPT ![i] = "finished"]
            \/ /\ at[i] \in {"spawned", "watching"}
               /\ \E kind \in {"refused", "event", "failed", "end"} : Says(i, i, kind)
<1>1. CASE RefuseWatch(i)
  BY <1>1 DEF RefuseWatch, Runs, askVars, serverVars, lineVars, TypeOK
<1>2. CASE WatchReturns(i)
  BY <1>2 DEF WatchReturns, Runs, askVars, serverVars, lineVars, TypeOK
<1>3. CASE Event(i)
  <2>1. Says(i, i, "event") /\ at[i] = "watching" /\ at[Main] \notin {"panicked", "returned"}
    BY <1>3 DEF Event, Runs
  <2>2. UNCHANGED <<asked, method, names, eof, broken, in, provider, watches, cancelled, write, halfway, out>>
    BY <1>3 DEF Event, askVars, serverVars, lineVars
  <2>3. events' \in [Ids -> Nat]
    BY <1>3 DEF Event, TypeOK
  <2>. QED
    BY <2>1, <2>2, <2>3 DEF TypeOK
<1>4. CASE StartWatch(i) \/ FinishWatch(i)
  BY <1>4 DEF StartWatch, FinishWatch, Runs, askVars, lineVars, TypeOK
<1>. QED
  BY <1>1, <1>2, <1>3, <1>4 DEF Watch, Open

(* No step breaks a type. *)
LEMMA TypeStep ==
  ASSUME TypeOK, QueueInv, ReadInv, SayInv, OneLastFrame, [Next]_vars
  PROVE  TypeOK'
<1> USE ThreadTypes DEF TypeOK
<1>1. ASSUME NEW m \in Methods, Ask(m) PROVE TypeOK'
  <2>1. in' \in Seq(Ids) /\ asked' \in 0..MaxRequests
    BY <1>1, RequestSent
  <2>2. method' \in [Ids -> Methods \cup {"none"}]
    <3>1. method' = [method EXCEPT ![asked + 1] = m]
      BY <1>1 DEF Ask
    <3>. QED
      BY <3>1
  <2>4. names' \in [Ids -> {0} \cup Ids]
    <3>1. CASE UNCHANGED names
      BY <3>1
    <3>2. ASSUME NEW w \in Ids, names' = [names EXCEPT ![asked + 1] = w] PROVE names' \in [Ids -> {0} \cup Ids]
      BY <3>2
    <3>. QED
      BY <1>1, <3>1, <3>2 DEF Ask
  <2>3. UNCHANGED <<eof, broken, provider, watches, cancelled, at, say, events, write, halfway, out>>
    BY <1>1 DEF Ask, serverVars, lineVars
  <2>. QED
    BY <2>1, <2>2, <2>3, <2>4
<1>2. CASE CloseInput \/ Break
  BY <1>2 DEF CloseInput, Break, serverVars, lineVars
<1>3. ASSUME NEW i \in Ids, Read(i) PROVE TypeOK'
  <2>1. in' \in Seq(Ids)
    BY <1>3, ReadEffect, RequestTaken
  <2>2. /\ UNCHANGED <<asked, method, names, eof, broken, events, write, halfway, out>>
        /\ UNCHANGED provider \/ provider' = TRUE
        /\ watches' \subseteq watches /\ cancelled' \subseteq Ids
    BY <1>3, ReadEffect
  <2>4. CASE UNCHANGED say /\ (at' = [at EXCEPT ![Main] = "panicked"] \/ at' = [at EXCEPT ![i] = "spawned"])
    BY <2>1, <2>2, <2>4
  <2>5. ASSUME NEW j \in {0, i}, NEW kind \in {"result", "error"}, Says(Main, j, kind)
        PROVE  TypeOK'
    <3>1. /\ at' = [at EXCEPT ![Main] = "saying"] /\ say' = [say EXCEPT ![Main] = [id |-> j, kind |-> kind]]
          /\ [id |-> j, kind |-> kind] \in Line
      BY <2>5 DEF Says, Line
    <3>. QED
      BY <2>1, <2>2, <3>1
  <2>. QED
    <3>1. \/ UNCHANGED say /\ (at' = [at EXCEPT ![Main] = "panicked"] \/ at' = [at EXCEPT ![i] = "spawned"])
          \/ \E j \in {0, i}, kind \in {"result", "error"} : Says(Main, j, kind)
      BY <1>3, ReadEffect
    <3>. QED
      BY <2>4, <2>5, <3>1, Zenon
<1>4. CASE ReachEOF \/ Return
  <2>1. UNCHANGED <<asked, method, names, eof, broken, in, provider, watches, cancelled, say, events,
                    write, halfway, out>>
    BY <1>4 DEF ReachEOF, Return, askVars, serverVars, lineVars
  <2>2. at' = [at EXCEPT ![Main] = "draining"] \/ at' = [at EXCEPT ![Main] = "returned"]
    BY <1>4 DEF ReachEOF, Return
  <2>. QED
    BY <2>1, <2>2
<1>5. ASSUME NEW i \in Ids, Watch(i) PROVE TypeOK'
  <2>1. /\ UNCHANGED <<asked, method, names, eof, broken, in, provider, write, halfway, out>>
        /\ watches' \subseteq Ids /\ cancelled' \subseteq Ids /\ events' \in [Ids -> Nat]
    BY <1>5, WatchEffect
  <2>2. CASE UNCHANGED say /\ (at' = [at EXCEPT ![i] = "watching"] \/ at' = [at EXCEPT ![i] = "finished"])
    BY <2>1, <2>2
  <2>3. ASSUME NEW kind \in {"refused", "event", "failed", "end"}, Says(i, i, kind)
        PROVE  TypeOK'
    <3>1. /\ at' = [at EXCEPT ![i] = "saying"] /\ say' = [say EXCEPT ![i] = [id |-> i, kind |-> kind]]
          /\ [id |-> i, kind |-> kind] \in Line
      BY <2>3 DEF Says, Line
    <3>. QED
      BY <2>1, <3>1
  <2>. QED
    <3>1. \/ UNCHANGED say /\ (at' = [at EXCEPT ![i] = "watching"] \/ at' = [at EXCEPT ![i] = "finished"])
          \/ \E kind \in {"refused", "event", "failed", "end"} : Says(i, i, kind)
      BY <1>5, WatchEffect
    <3>. QED
      BY <2>2, <2>3, <3>1, Zenon
<1>6. ASSUME NEW t \in Threads, Emit(t) PROVE TypeOK'
  <2>1. at' \in [Threads -> {"none", "scanning", "spawned", "watching", "saying", "closing",
                             "finished", "draining", "returned", "panicked"}]
    BY <1>6 DEF Emit, BeginLine, FinishLine, LineFails, AfterLine
  <2>2. out' \in Seq(Line)
    <3>1. CASE FinishLine(t)
      BY <3>1, LineAdded DEF FinishLine, Runs
    <3>2. CASE BeginLine(t) \/ LineFails(t)
      BY <3>2 DEF BeginLine, LineFails
    <3>. QED
      BY <1>6, <3>1, <3>2 DEF Emit
  <2>. QED
    BY <1>6, <2>1, <2>2 DEF Emit, BeginLine, FinishLine, LineFails, askVars, serverVars
<1>7. CASE UNCHANGED vars
  BY <1>7 DEF vars, askVars, serverVars, lineVars
<1>. QED
  BY <1>1, <1>2, <1>3, <1>4, <1>5, <1>6, <1>7 DEF Next, FarSide, Loop, Terminated

-----------------------------------------------------------------------------
(* The write mutex. *)
LEMMA MutexStep ==
  ASSUME TypeOK, QueueInv, ReadInv, MutexInv, [Next]_vars
  PROVE  MutexInv'
<1> USE ThreadTypes DEF TypeOK
<1>1. ASSUME NEW m \in Methods, Ask(m) PROVE MutexInv'
  BY <1>1 DEF Ask, lineVars, MutexInv
<1>2. CASE CloseInput \/ Break \/ UNCHANGED vars
  BY <1>2 DEF CloseInput, Break, vars, lineVars, MutexInv
<1>3. ASSUME NEW i \in Ids, Read(i) PROVE MutexInv'
  <2>1. Reads(i) /\ UNCHANGED <<asked, out, write, halfway>>
    BY <1>3 DEF Read, ReadJunk, ReadHandshake, ReadSchema, ReadBeforeHandshake, ReadVerb, ReadStop, SpawnWatch,
           askVars, lineVars
  <2>2. at[Main] = "scanning" /\ at[i] = "none"
    BY <2>1, RequestTaken DEF Reads
  <2>3. \E place : at' = [at EXCEPT ![Main] = place] \/ at' = [at EXCEPT ![i] = place]
    BY <1>3 DEF Read, ReadJunk, ReadHandshake, ReadSchema, ReadBeforeHandshake, ReadVerb, ReadStop, SpawnWatch, Says
  <2>. QED
    BY <2>1, <2>2, <2>3 DEF MutexInv
<1>4. CASE ReachEOF \/ Return
  BY <1>4 DEF ReachEOF, Return, lineVars, MutexInv
<1>5. ASSUME NEW i \in Ids, Watch(i) PROVE MutexInv'
  <2>1. at[i] # "saying" /\ UNCHANGED <<write, halfway>> /\ \A t \in Threads : t # i => at'[t] = at[t]
    BY <1>5 DEF Watch, Open, RefuseWatch, StartWatch, Event, WatchReturns, FinishWatch, Says, Runs, lineVars
  <2>. QED
    BY <2>1 DEF MutexInv
<1>6. ASSUME NEW t \in Threads, Emit(t) PROVE MutexInv'
  BY <1>6 DEF Emit, BeginLine, FinishLine, LineFails, Runs, MutexInv, lineVars
<1>. QED
  BY <1>1, <1>2, <1>3, <1>4, <1>5, <1>6 DEF Next, FarSide, Loop, Terminated

(* When the loop has returned, every watch is over. *)
LEMMA ReturnStep ==
  ASSUME TypeOK, WatchesAreOver, [Next]_vars
  PROVE  WatchesAreOver'
<1> USE ThreadTypes DEF TypeOK
<1>1. CASE UNCHANGED at
  BY <1>1 DEF WatchesAreOver
<1>2. CASE Return
  BY <1>2 DEF Return, WatchesAreOver
<1>3. CASE at[Main] # "returned" /\ at'[Main] # "returned"
  BY <1>3 DEF WatchesAreOver
<1>4. ASSUME NEW i \in Ids, Read(i) PROVE at[Main] # "returned" /\ at'[Main] # "returned"
  BY <1>4 DEF Read, ReadJunk, ReadHandshake, ReadSchema, ReadBeforeHandshake, ReadVerb, ReadStop, SpawnWatch,
         Reads, Says
<1>5. ASSUME NEW i \in Ids, Watch(i) PROVE at[Main] # "returned" /\ at'[Main] # "returned"
  BY <1>5 DEF Watch, Open, RefuseWatch, StartWatch, Event, WatchReturns, FinishWatch, Says, Runs
<1>6. ASSUME NEW t \in Threads, Emit(t) PROVE UNCHANGED at \/ (at[Main] # "returned" /\ at'[Main] # "returned")
  BY <1>6 DEF Emit, BeginLine, FinishLine, LineFails, Runs, AfterLine
<1>7. ASSUME FarSide \/ UNCHANGED vars PROVE UNCHANGED at
  BY <1>7 DEF FarSide, Ask, CloseInput, Break, vars
<1>8. ASSUME ReachEOF PROVE at[Main] # "returned" /\ at'[Main] # "returned"
  BY <1>8 DEF ReachEOF
<1>. QED
  BY <1>1, <1>2, <1>3, <1>4, <1>5, <1>6, <1>7, <1>8 DEF Next, Loop, Terminated

-----------------------------------------------------------------------------
(* Nobody speaks twice under an id, and an unread request has no voice. *)
LEMMA RequestStep ==
  ASSUME TypeOK, QueueInv, ReadInv, SayInv, OneLastFrame, [Next]_vars
  PROVE  QueueInv' /\ ReadInv' /\ SayInv' /\ OneLastFrame'
<1> DEFINE Goal == QueueInv' /\ ReadInv' /\ SayInv' /\ OneLastFrame'
<1> USE ThreadTypes DEF TypeOK
<1>1. ASSUME NEW m \in Methods, Ask(m) PROVE Goal
  <2>1. QueueInv' /\ \A j \in Ids : Unread(j)' => Unread(j)
    BY <1>1, RequestSent
  <2>2. UNCHANGED <<at, say, out>>
    BY <1>1 DEF Ask, lineVars
  <2>. QED
    BY <2>1, <2>2 DEF ReadInv, SayInv, OneLastFrame, Unfinished, MainSays
<1>2. CASE UNCHANGED <<asked, in, at, say, out>>
  BY <1>2 DEF QueueInv, ReadInv, SayInv, OneLastFrame, Unfinished, MainSays, Unread
<1>3. ASSUME NEW i \in Ids, Read(i) PROVE Goal
  <2>1. Reads(i) /\ UNCHANGED <<asked, out>> /\ at[Main] = "scanning"
    BY <1>3, ReadEffect DEF Reads
  <2>2. /\ at[i] = "none" /\ Unfinished(i) /\ QueueInv'
        /\ \A j \in Ids : Unread(j)' => Unread(j) /\ j # i
    BY <2>1, RequestTaken
  <2>3. OneLastFrame' /\ \A j \in Ids : Unfinished(j) => Unfinished(j)'
    BY <2>1 DEF OneLastFrame, Unfinished
  <2>4. CASE UNCHANGED say /\ (at' = [at EXCEPT ![Main] = "panicked"] \/ at' = [at EXCEPT ![i] = "spawned"])
    BY <2>1, <2>2, <2>3, <2>4 DEF ReadInv, SayInv, MainSays
  <2>5. ASSUME NEW j \in {0, i}, NEW kind \in {"result", "error"}, Says(Main, j, kind) PROVE Goal
    <3>1. /\ at' = [at EXCEPT ![Main] = "saying"] /\ say' = [say EXCEPT ![Main] = [id |-> j, kind |-> kind]]
          /\ [id |-> j, kind |-> kind] \in Line
      BY <2>5 DEF Says, Line
    <3>2. \A w \in Ids : MainSays(w)' => w = i
      BY <3>1 DEF MainSays
    <3>3. ReadInv'
      BY <2>2, <2>3, <3>1, <3>2 DEF ReadInv
    <3>4. SayInv'
      BY <2>2, <2>3, <3>1, <3>2 DEF SayInv
    <3>. QED
      BY <2>2, <2>3, <3>3, <3>4
  <2>. QED
    <3>1. \/ UNCHANGED say /\ (at' = [at EXCEPT ![Main] = "panicked"] \/ at' = [at EXCEPT ![i] = "spawned"])
          \/ \E j \in {0, i}, kind \in {"result", "error"} : Says(Main, j, kind)
      BY <1>3, ReadEffect
    <3>. QED
      BY <2>4, <2>5, <3>1, Zenon
<1>4. CASE ReachEOF \/ Return
  <2>1. /\ UNCHANGED <<asked, in, out, say>> /\ at[Main] \in {"scanning", "draining"}
        /\ \E place \in {"draining", "returned"} : at' = [at EXCEPT ![Main] = place]
    BY <1>4 DEF ReachEOF, Return, askVars, lineVars
  <2>2. /\ QueueInv' /\ OneLastFrame'
        /\ \A j \in Ids : (Unread(j)' => Unread(j)) /\ (Unfinished(j) => Unfinished(j)')
    BY <2>1 DEF QueueInv, OneLastFrame, Unread, Unfinished
  <2>. QED
    BY <2>1, <2>2 DEF ReadInv, SayInv, MainSays
<1>5. ASSUME NEW i \in Ids, Watch(i) PROVE Goal
  <2>1. /\ at[i] \in {"spawned", "watching", "closing"} /\ UNCHANGED <<asked, in, out>>
    BY <1>5, WatchEffect
  <2>2. ~Unread(i) /\ ~MainSays(i)
    BY <2>1 DEF ReadInv, SayInv
  <2>3. /\ QueueInv' /\ OneLastFrame'
        /\ \A j \in Ids : (Unread(j)' => Unread(j)) /\ (Unfinished(j) => Unfinished(j)')
    BY <2>1 DEF QueueInv, OneLastFrame, Unread, Unfinished
  <2>4. CASE UNCHANGED say /\ \/ at' = [at EXCEPT ![i] = "watching"] /\ at[i] = "spawned"
                              \/ at' = [at EXCEPT ![i] = "finished"]
    BY <2>2, <2>3, <2>4 DEF ReadInv, SayInv, MainSays
  <2>5. ASSUME NEW kind \in {"refused", "event", "failed", "end"}, Says(i, i, kind),
               at[i] \in {"spawned", "watching"}
        PROVE  Goal
    <3>1. /\ at' = [at EXCEPT ![i] = "saying"] /\ say' = [say EXCEPT ![i] = [id |-> i, kind |-> kind]]
          /\ [id |-> i, kind |-> kind] \in Line
      BY <2>5 DEF Says, Line
    <3>2. \A w \in Ids : MainSays(w)' <=> MainSays(w)
      BY <3>1 DEF MainSays
    <3>3. ReadInv'
      BY <2>2, <2>3, <3>1, <3>2 DEF ReadInv
    <3>4. SayInv'
      BY <2>2, <2>3, <2>5, <3>1, <3>2 DEF SayInv
    <3>. QED
      BY <2>3, <3>3, <3>4
  <2>. QED
    <3>1. \/ /\ UNCHANGED say
             /\ \/ at' = [at EXCEPT ![i] = "watching"] /\ at[i] = "spawned"
                \/ at' = [at EXCEPT ![i] = "finished"]
          \/ /\ at[i] \in {"spawned", "watching"}
             /\ \E kind \in {"refused", "event", "failed", "end"} : Says(i, i, kind)
      BY <1>5, WatchEffect
    <3>. QED
      BY <2>4, <2>5, <3>1, Zenon
<1>6. ASSUME NEW t \in Threads, Emit(t) PROVE Goal
  <2>1. CASE BeginLine(t)
    BY <1>2, <2>1 DEF BeginLine, askVars
  <2>2. CASE FinishLine(t)
    <3>1. /\ at[t] = "saying" /\ out' = Append(out, say[t]) /\ UNCHANGED <<asked, in>>
          /\ at' = [at EXCEPT ![t] = AfterLine(t, say[t])] /\ say' = [say EXCEPT ![t] = Silence]
      BY <2>2 DEF FinishLine, Runs, askVars
    <3>2. /\ say[t] \in Line /\ OneLastFrame'
          /\ \A i \in Ids : Unfinished(i) /\ (say[t].id = i => ~IsLast(say[t])) => Unfinished(i)'
      BY <3>1, LineAdded
    <3>3. QueueInv' /\ \A j \in Ids : Unread(j)' => Unread(j)
      BY <3>1 DEF QueueInv, Unread
    <3>4. \A i \in Ids : MainSays(i)' => t # Main /\ MainSays(i)
      BY <3>1 DEF MainSays, AfterLine
    <3>5. ReadInv' /\ SayInv'
      <4>1. CASE t = Main
        <5>1. \A i \in Ids : at'[i] = at[i] /\ say'[i] = say[i] /\ ~MainSays(i)'
          BY <3>1, <3>4, <4>1
        <5>2. at'[Main] = "scanning"
          BY <3>1, <4>1 DEF AfterLine
        <5>3. \A i \in Ids : at[i] # "none" \/ Unread(i) => say[t].id # i
          BY <3>1, <4>1 DEF ReadInv, SayInv, MainSays
        <5>4. ReadInv'
          BY <3>2, <3>3, <5>1, <5>3 DEF ReadInv
        <5>5. SayInv'
          BY <3>2, <5>1, <5>2, <5>3 DEF SayInv
        <5>. QED
          BY <5>4, <5>5
      <4>2. CASE t \in Ids
        <5>1. say[t].id = t /\ ~Unread(t) /\ ~MainSays(t)
          BY <3>1, <4>2 DEF ReadInv, SayInv
        <5>2. Unfinished(t) /\ (at'[t] \in {"spawned", "watching", "saying"} => at'[t] = "watching" /\ ~IsLast(say[t]))
          BY <3>1, <4>2 DEF SayInv, AfterLine, IsLast
        <5>. QED
          BY <3>1, <3>2, <3>3, <3>4, <4>2, <5>1, <5>2 DEF ReadInv, SayInv
      <4>. QED
        BY <4>1, <4>2
    <3>. QED
      BY <3>2, <3>3, <3>5
  <2>3. CASE LineFails(t)
    <3>1. /\ at[t] = "saying" /\ UNCHANGED <<asked, in, out>>
          /\ at' = [at EXCEPT ![t] = IF t = Main THEN "draining" ELSE AfterLine(t, say[t])]
          /\ say' = [say EXCEPT ![t] = Silence]
      BY <2>3 DEF LineFails, Runs, askVars
    <3>2. /\ QueueInv' /\ OneLastFrame'
          /\ \A j \in Ids : (Unread(j)' => Unread(j)) /\ (Unfinished(j) => Unfinished(j)')
      BY <3>1 DEF QueueInv, OneLastFrame, Unread, Unfinished
    <3>3. \A i \in Ids : MainSays(i)' => t # Main /\ MainSays(i)
      BY <3>1 DEF MainSays
    <3>4. t \in Ids => ~Unread(t) /\ ~MainSays(t) /\ Unfinished(t) /\ at'[t] # "saying"
      BY <3>1 DEF ReadInv, SayInv, AfterLine
    <3>5. ReadInv' /\ SayInv'
      BY <3>1, <3>2, <3>3, <3>4 DEF ReadInv, SayInv
    <3>. QED
      BY <3>2, <3>5
  <2>. QED
    BY <1>6, <2>1, <2>2, <2>3 DEF Emit
<1>7. CASE CloseInput \/ Break \/ UNCHANGED vars
  BY <1>2, <1>7 DEF CloseInput, Break, lineVars, vars, askVars
<1>. QED
  BY <1>1, <1>3, <1>4, <1>5, <1>6, <1>7 DEF Next, FarSide, Loop, Terminated

-----------------------------------------------------------------------------
(* What is registered is running, and what runs can be stopped. *)
LEMMA RegistryStep ==
  ASSUME TypeOK, QueueInv, ReadInv, SayInv, RegistryInv, [Next]_vars
  PROVE  RegistryInv'
<1> USE ThreadTypes DEF TypeOK
<1>1. CASE UNCHANGED <<watches, cancelled, at, say>>
  BY <1>1 DEF RegistryInv, RegistryIsExact
<1>2. ASSUME FarSide \/ UNCHANGED vars PROVE RegistryInv'
  BY <1>1, <1>2 DEF FarSide, Ask, CloseInput, Break, vars, serverVars
<1>3. ASSUME NEW i \in Ids, Read(i) PROVE RegistryInv'
  <2>1. /\ watches' \subseteq watches /\ watches \cup cancelled \subseteq watches' \cup cancelled'
        /\ UNCHANGED <<asked, out>> /\ Reads(i)
        /\ \/ UNCHANGED say /\ (at' = [at EXCEPT ![Main] = "panicked"] \/ at' = [at EXCEPT ![i] = "spawned"])
           \/ \E j \in {0, i}, kind \in {"result", "error"} : Says(Main, j, kind)
    BY <1>3, ReadEffect
  <2>2. at[i] = "none" /\ i \notin watches
    BY <2>1, RequestTaken DEF RegistryInv, RegistryIsExact
  <2>3. \A w \in Ids : say'[w] = say[w] /\ (at'[w] = at[w] \/ (w = i /\ at'[w] = "spawned"))
    BY <2>1 DEF Says
  <2>. QED
    BY <2>1, <2>2, <2>3 DEF RegistryInv, RegistryIsExact
<1>4. CASE ReachEOF \/ Return
  BY <1>4 DEF ReachEOF, Return, serverVars, RegistryInv, RegistryIsExact
<1>5. ASSUME NEW i \in Ids, Watch(i) PROVE RegistryInv'
  <2>1. \A w \in Ids \ {i} : /\ at'[w] = at[w] /\ say'[w] = say[w]
                             /\ w \in watches' <=> w \in watches
                             /\ w \in cancelled' <=> w \in cancelled
    BY <1>5 DEF Watch, Open, RefuseWatch, StartWatch, Event, WatchReturns, FinishWatch, Says, serverVars
  <2>2. CASE RefuseWatch(i)
    BY <2>1, <2>2 DEF RefuseWatch, Runs, Says, serverVars, RegistryInv, RegistryIsExact
  <2>3. CASE StartWatch(i)
    BY <2>1, <2>3 DEF StartWatch, RegistryInv, RegistryIsExact
  <2>4. CASE Event(i)
    BY <2>1, <2>4 DEF Event, Runs, Says, serverVars, RegistryInv, RegistryIsExact
  <2>5. CASE WatchReturns(i)
    <3>1. /\ at[i] = "watching" /\ at'[i] = "saying" /\ say'[i].kind \in {"end", "failed"}
          /\ UNCHANGED <<watches, cancelled>>
      BY <2>5 DEF WatchReturns, Runs, Says, serverVars
    <3>. QED
      BY <2>1, <3>1 DEF RegistryInv, RegistryIsExact
  <2>6. CASE FinishWatch(i)
    BY <2>1, <2>6 DEF FinishWatch, RegistryInv, RegistryIsExact
  <2>. QED
    BY <1>5, <2>2, <2>3, <2>4, <2>5, <2>6 DEF Watch, Open
<1>6. ASSUME NEW t \in Threads, Emit(t) PROVE RegistryInv'
  <2>1. CASE BeginLine(t)
    BY <1>1, <2>1 DEF BeginLine, serverVars
  <2>2. CASE FinishLine(t) \/ LineFails(t)
    <3>1. /\ at[t] = "saying" /\ UNCHANGED <<watches, cancelled>>
          /\ \A w \in Ids \ {t} : at'[w] = at[w] /\ say'[w] = say[w]
      BY <2>2 DEF FinishLine, LineFails, Runs, serverVars
    <3>2. t \in Ids => at'[t] = AfterLine(t, say[t])
      BY <2>2 DEF FinishLine, LineFails
    <3>3. t \in Ids => /\ at'[t] = "watching" => t \in watches \cup cancelled
                       /\ t \in watches => at'[t] \in {"watching", "closing"}
                       /\ at'[t] # "saying"
      BY <3>1, <3>2 DEF AfterLine, RegistryInv, RegistryIsExact
    <3>. QED
      BY <3>1, <3>3 DEF RegistryInv, RegistryIsExact
  <2>. QED
    BY <1>6, <2>1, <2>2 DEF Emit
<1>. QED
  BY <1>2, <1>3, <1>4, <1>5, <1>6 DEF Next, Loop, Terminated

(* The loop leaves every other request where it is. *)
LEMMA OthersStayUnread ==
  ASSUME TypeOK, NEW i \in Ids, Reads(i), UNCHANGED asked
  PROVE  \A j \in Ids : Unread(j) /\ j # i => Unread(j)'
<1>1. PICK q \in Seq(Ids) : q = in /\ q # <<>>
  BY DEF Reads, TypeOK
<1>2. /\ Head(q) = q[1] /\ Len(Tail(q)) = Len(q) - 1 /\ Len(q) \in Nat \ {0}
      /\ \A k \in 1..(Len(q) - 1) : Tail(q)[k] = q[k + 1]
  BY <1>1
<1>3. ASSUME NEW j \in Ids, j # i, NEW k \in 1..Len(q), q[k] = j PROVE \E l \in 1..Len(in') : in'[l] = j
  <2>1. k # 1 /\ k - 1 \in 1..(Len(q) - 1) /\ k - 1 + 1 = k
    BY <1>1, <1>2, <1>3 DEF Reads
  <2>2. in' = Tail(q) /\ Tail(q)[k - 1] = j
    BY <1>1, <1>2, <1>3, <2>1 DEF Reads
  <2>. QED
    BY <1>2, <2>1, <2>2
<1>. QED
  BY <1>1, <1>3 DEF Unread

(* Whatever was answered stays answered. *)
LEMMA AnswersStay ==
  ASSUME TypeOK, SayInv, OneLastFrame, NEW t \in Threads, at[t] = "saying", out' = Append(out, say[t])
  PROVE  /\ \A i \in Ids : Answered(i) => Answered(i)'
         /\ \A i \in Ids : say[t].id = i /\ IsLast(say[t]) => Answered(i)'
<1>1. PICK q \in Seq(Line), f \in Line : q = out /\ f = say[t]
  BY DEF TypeOK, SayInv
<1>2. /\ Len(Append(q, f)) = Len(q) + 1 /\ Append(q, f)[Len(q) + 1] = f /\ Len(q) \in Nat
      /\ \A k \in 1..Len(q) : Append(q, f)[k] = q[k]
  OBVIOUS
<1>3. \A line \in Written : line \in Written'
  BY <1>1, <1>2 DEF Written
<1>4. say[t] \in Written'
  BY <1>1, <1>2 DEF Written
<1>. QED
  BY <1>3, <1>4 DEF Answered

(* A request is handed on and never dropped. *)
LEMMA AccountStep ==
  ASSUME TypeOK, QueueInv, ReadInv, SayInv, OneLastFrame, AccountInv, [Next]_vars
  PROVE  AccountInv'
<1> USE ThreadTypes DEF TypeOK
<1>1. ASSUME NEW m \in Methods, Ask(m) PROVE AccountInv'
  <2>1. PICK q \in Seq(Ids) : q = in
    OBVIOUS
  <2>2. /\ Len(Append(q, asked + 1)) = Len(q) + 1 /\ Append(q, asked + 1)[Len(q) + 1] = asked + 1
        /\ Len(q) \in Nat /\ \A k \in 1..Len(q) : Append(q, asked + 1)[k] = q[k]
    OBVIOUS
  <2>3. /\ asked' = asked + 1 /\ in' = Append(q, asked + 1) /\ ~eof /\ asked \in Nat /\ asked + 1 \in Ids
        /\ UNCHANGED <<eof, broken, at, say, out>> /\ method' = [method EXCEPT ![asked + 1] = m]
    BY <1>1, <2>1, ServeTypes DEF Ask, lineVars, Ids
  <2>4. ASSUME NEW j \in Ids, Unread(j) PROVE Unread(j)'
    <3>1. CASE j > asked + 1
      BY <2>3, <3>1 DEF Unread
    <3>2. CASE j = asked + 1
      BY <2>2, <2>3, <3>2 DEF Unread
    <3>3. CASE ~(j > asked)
      BY <2>1, <2>2, <2>3, <2>4, <3>3 DEF Unread
    <3>. QED
      BY <2>3, <3>1, <3>2, <3>3
  <2>5. Unread(asked + 1)
    BY <2>3 DEF Unread
  <2>. QED
    BY <2>3, <2>4, <2>5 DEF AccountInv, Accounted, MainSays, Answered, Written
<1>2. CASE CloseInput \/ Break \/ UNCHANGED vars
  <2>1. UNCHANGED <<asked, method, in, at, say, out>> /\ (broken' \/ broken' = broken) /\ (eof' \/ eof' = eof)
    BY <1>2 DEF CloseInput, Break, vars, askVars, lineVars
  <2>2. \A j \in Ids : Accounted(j) => Accounted(j)'
    BY <2>1 DEF Accounted, Unread, MainSays, Answered, Written
  <2>. QED
    BY <2>1, <2>2 DEF AccountInv
<1>3. ASSUME NEW i \in Ids, Read(i) PROVE AccountInv'
  <2>1. Reads(i) /\ UNCHANGED <<asked, method, broken, out>> /\ at[Main] = "scanning"
    BY <1>3, ReadEffect DEF Reads
  <2>2. \A j \in Ids : /\ Unread(j) /\ j # i => Unread(j)'
                       /\ Answered(j) => Answered(j)'
                       /\ ~MainSays(j)
    BY <2>1, OthersStayUnread DEF Answered, Written, MainSays
  <2>3. \/ method[i] = "junk" /\ Says(Main, 0, "error")
        \/ \E kind \in {"result", "error"} : Says(Main, i, kind)
        \/ UNCHANGED say /\ at' = [at EXCEPT ![Main] = "panicked"]
        \/ UNCHANGED say /\ at' = [at EXCEPT ![i] = "spawned"]
    BY <1>3 DEF Read, ReadJunk, ReadHandshake, ReadSchema, ReadBeforeHandshake, ReadVerb, ReadStop, SpawnWatch
  <2>4. /\ at'[Main] \in {"scanning", "saying", "panicked"} /\ (at'[Main] = "saying" => say'[Main].kind # "event")
        /\ \A j \in Ids \ {i} : at'[j] = at[j]
    BY <2>1, <2>3 DEF Says
  <2>5. at[i] = "none"
    BY <2>1, RequestTaken
  <2>6. at'[Main] = "panicked" \/ method[i] = "junk" \/ MainSays(i)' \/ at'[i] = "spawned"
    BY <2>1, <2>3 DEF Says, MainSays
  <2>. QED
    BY <2>1, <2>2, <2>4, <2>6 DEF AccountInv, Accounted
<1>4. CASE ReachEOF \/ Return
  <2>1. /\ UNCHANGED <<asked, method, eof, broken, in, out, say>> /\ at[Main] \in {"scanning", "draining"}
        /\ at[Main] = "scanning" => eof /\ in = <<>>
        /\ \E place \in {"draining", "returned"} : at' = [at EXCEPT ![Main] = place]
    BY <1>4 DEF ReachEOF, Return, askVars, lineVars
  <2>2. \A j \in Ids : at'[j] = at[j] /\ ~MainSays(j)
    BY <2>1 DEF MainSays
  <2>. QED
    BY <2>1, <2>2 DEF AccountInv, Accounted, Unread, Answered, Written
<1>5. ASSUME NEW i \in Ids, Watch(i) PROVE AccountInv'
  <2>1. UNCHANGED <<asked, method, eof, broken, in, out>> /\ at'[Main] = at[Main] /\ say'[Main] = say[Main]
    <3>1. UNCHANGED <<asked, method, eof, broken, in, out>>
      BY <1>5, WatchEffect
    <3>2. at'[Main] = at[Main] /\ say'[Main] = say[Main]
      BY <1>5 DEF Watch, Open, RefuseWatch, StartWatch, Event, WatchReturns, FinishWatch, Says
    <3>. QED
      BY <3>1, <3>2
  <2>2. /\ \/ at[i] \in {"spawned", "watching"} /\ at'[i] \in {"watching", "saying"}
           \/ at[i] = "closing"
        /\ \A j \in Ids \ {i} : at'[j] = at[j]
    BY <1>5 DEF Watch, Open, RefuseWatch, StartWatch, Event, WatchReturns, FinishWatch, Says, Runs
  <2>3. \A j \in Ids : /\ Unread(j)' <=> Unread(j)
                       /\ MainSays(j)' <=> MainSays(j)
                       /\ Answered(j)' <=> Answered(j)
    BY <2>1 DEF Unread, MainSays, Answered, Written
  <2>4. \A j \in Ids : Accounted(j) => Accounted(j)'
    BY <2>2, <2>3 DEF Accounted
  <2>. QED
    BY <2>1, <2>4 DEF AccountInv
<1>6. ASSUME NEW t \in Threads, Emit(t) PROVE AccountInv'
  <2>1. CASE BeginLine(t)
    <3>1. UNCHANGED <<asked, method, eof, broken, in, at, say, out>>
      BY <2>1 DEF BeginLine, askVars
    <3>2. \A j \in Ids : Accounted(j) => Accounted(j)'
      BY <3>1 DEF Accounted, Unread, MainSays, Answered, Written
    <3>. QED
      BY <3>1, <3>2 DEF AccountInv
  <2>2. CASE FinishLine(t)
    <3>1. /\ at[t] = "saying" /\ out' = Append(out, say[t]) /\ UNCHANGED <<asked, method, eof, broken, in>>
          /\ at' = [at EXCEPT ![t] = AfterLine(t, say[t])] /\ say' = [say EXCEPT ![t] = Silence]
      BY <2>2 DEF FinishLine, Runs, askVars
    <3>2. /\ \A j \in Ids : (Answered(j) => Answered(j)') /\ (say[t].id = j /\ IsLast(say[t]) => Answered(j)')
          /\ \A j \in Ids : Unread(j) => Unread(j)'
      BY <3>1, AnswersStay DEF Unread
    <3>3. CASE t = Main
      <4>1. at'[Main] = "scanning" /\ IsLast(say[Main]) /\ \A j \in Ids : at'[j] = at[j]
        BY <3>1, <3>3 DEF AfterLine, IsLast, AccountInv
      <4>. QED
        BY <3>1, <3>2, <3>3, <4>1 DEF AccountInv, Accounted, MainSays
    <3>4. CASE t \in Ids
      <4>1. /\ at'[Main] = at[Main] /\ say'[Main] = say[Main] /\ \A j \in Ids \ {t} : at'[j] = at[j]
            /\ say[t].id = t /\ (at'[t] = "watching" \/ IsLast(say[t]))
        BY <3>1, <3>4 DEF AfterLine, IsLast, SayInv
      <4>. QED
        BY <3>1, <3>2, <3>4, <4>1 DEF AccountInv, Accounted, MainSays
    <3>. QED
      BY <3>3, <3>4
  <2>3. CASE LineFails(t)
    <3>1. /\ broken /\ broken' = broken /\ at[t] = "saying"
          /\ (t = Main => at'[Main] = "draining") /\ (t # Main => at'[Main] = at[Main] /\ say'[Main] = say[Main])
      BY <2>3 DEF LineFails, askVars, Runs
    <3>. QED
      BY <3>1 DEF AccountInv
  <2>. QED
    BY <1>6, <2>1, <2>2, <2>3 DEF Emit
<1>. QED
  BY <1>1, <1>2, <1>3, <1>4, <1>5, <1>6 DEF Next, FarSide, Loop, Terminated

-----------------------------------------------------------------------------
(* The provider's end starts with all of it. *)
LEMMA ServeInit ==
  ASSUME Init
  PROVE  ServeInv
<1> USE ThreadTypes DEF Init
<1>1. TypeOK
  <2>1. method \in [Ids -> Methods \cup {"none"}] /\ names \in [Ids -> {0} \cup Ids] /\ events \in [Ids -> Nat]
    OBVIOUS
  <2>2. say \in [Threads -> Line \cup {Silence}]
    OBVIOUS
  <2>3. at \in [Threads -> {"none", "scanning", "spawned", "watching", "saying", "closing",
                           "finished", "draining", "returned", "panicked"}]
    OBVIOUS
  <2>4. asked \in 0..MaxRequests /\ in \in Seq(Ids) /\ out \in Seq(Line) /\ provider \in BOOLEAN
    BY ServeAssumption
  <2>. QED
    BY <2>1, <2>2, <2>3, <2>4 DEF TypeOK
<1>2. QueueInv /\ ReadInv /\ SayInv /\ OneLastFrame /\ WatchesAreOver
  BY DEF QueueInv, ReadInv, SayInv, OneLastFrame, WatchesAreOver, Unfinished, MainSays
<1>3. MutexInv /\ RegistryInv /\ AccountInv
  BY DEF MutexInv, RegistryInv, RegistryIsExact, AccountInv, Accounted, Unread
<1>. QED
  BY <1>1, <1>2, <1>3 DEF ServeInv

(* And keeps it. *)
LEMMA ServeAlways == Spec => []ServeInv
<1>1. Init => ServeInv
  BY ServeInit
<1>2. ServeInv /\ [Next]_vars => ServeInv'
  BY TypeStep, RequestStep, MutexStep, RegistryStep, AccountStep, ReturnStep DEF ServeInv
<1>. QED
  BY <1>1, <1>2, PTL DEF Spec

(* Every variable keeps its type. *)
THEOREM TypeCorrect == Spec => []TypeOK
<1>1. ServeInv => TypeOK
  BY DEF ServeInv
<1>. QED
  BY <1>1, ServeAlways, PTL

(* Lines are whole, however many watches write at once: emit's mutex         *)
(* (stdio.go:30) is held by the one thread in the middle of a line, and the  *)
(* threads are over when ServeStdio returns.                                 *)
THEOREM LinesStayWhole == Spec => []LinesAreWhole
<1>1. ServeInv => LinesAreWhole
  <2> SUFFICES ASSUME ServeInv PROVE LinesAreWhole
    OBVIOUS
  <2>1. halfway = {} \/ \E t \in Threads : halfway = {t} /\ at[t] = "saying"
    BY ThreadTypes DEF ServeInv, MutexInv, TypeOK
  <2>2. CASE halfway = {}
    BY <2>2, FS_EmptySet DEF LinesAreWhole
  <2>3. ASSUME NEW t \in Threads, halfway = {t}, at[t] = "saying" PROVE LinesAreWhole
    <3>1. at[Main] # "returned"
      BY <2>3, ThreadTypes DEF ServeInv, WatchesAreOver
    <3>. QED
      <4>1. Cardinality(halfway) = 1
        BY <2>3, FS_Singleton, Zenon
      <4>. QED
        BY <3>1, <4>1 DEF LinesAreWhole
  <2>. QED
    BY <2>1, <2>2, <2>3
<1>. QED
  BY <1>1, ServeAlways, PTL

(* Nothing follows the last frame of a request (protocol.go:66), whether the *)
(* loop answered it or a watch's goroutine did.                              *)
THEOREM LastFramesAreLast == Spec => []OneLastFrame
<1>1. ServeInv => OneLastFrame
  BY DEF ServeInv
<1>. QED
  BY <1>1, ServeAlways, PTL

(* stopWatch finds every watch that is running, and no watch that is over.   *)
THEOREM RegistryAlwaysExact == Spec => []RegistryIsExact
<1>1. ServeInv => RegistryIsExact
  BY DEF ServeInv, RegistryInv
<1>. QED
  BY <1>1, ServeAlways, PTL

(* When ServeStdio returns to a far side that reads on, every request has    *)
(* its last frame, whatever was in the pipe or in a watch's hands when the   *)
(* input ended (stdio.go:44).                                                *)
THEOREM NothingIsLeftUnsaid == Spec => []NothingLeftUnsaid
<1>1. ServeInv => NothingLeftUnsaid
  <2> SUFFICES ASSUME ServeInv, at[Main] = "returned", ~broken, NEW i \in 1..asked, method[i] # "junk"
               PROVE  Answered(i)
    BY DEF NothingLeftUnsaid
  <2>1. i \in Ids /\ in = <<>> /\ ~(i > asked) /\ asked \in Nat
    BY ThreadTypes DEF ServeInv, AccountInv, TypeOK, Ids
  <2>2. Accounted(i) /\ ~MainSays(i) /\ at[i] \in {"none", "finished"}
    BY <2>1 DEF ServeInv, AccountInv, WatchesAreOver, MainSays
  <2>3. ~Unread(i)
    BY <2>1 DEF Unread
  <2>. QED
    BY <2>2, <2>3 DEF Accounted
<1>. QED
  BY <1>1, ServeAlways, PTL
=============================================================================
