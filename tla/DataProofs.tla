------------------------------ MODULE DataProofs ------------------------------
(***************************************************************************)
(* What the algorithms of Data promise, proved of every input: pages of    *)
(* any length, providers of any kinds and trees of any depth, errors of    *)
(* any depth, any command, selectors of any text, values, documents and    *)
(* types however nested.                                                   *)
(***************************************************************************)
EXTENDS Data, TextProofs, ValueProofs
LOCAL INSTANCE FiniteSetsExt
LOCAL INSTANCE SequencesExt

(* An input that was taken is one of its topic's.                           *)
Taken == input.topic = "none" \/ (input.topic \in DOMAIN Inputs /\ input.given \in Inputs[input.topic])

(* Only legal inputs are taken. *)
LEMMA OnlyLegal == Spec => []Taken
  <1>1. Init => Taken
    BY DEF Init, Taken
  <1>2. Taken /\ [Next]_input => Taken'
    <2> SUFFICES ASSUME Taken, [Next]_input PROVE Taken'
      OBVIOUS
    <2>1. CASE Next
      BY <2>1 DEF Next, Taken
    <2>2. CASE UNCHANGED input
      BY <2>2 DEF Taken
    <2> QED BY <2>1, <2>2
  <1> QED BY <1>1, <1>2, PTL DEF Spec

-----------------------------------------------------------------------------
(* Pages.                                                                   *)

(* Whatever pages are on disk, generating refreshes them and settles, and   *)
(* every page reads as it did (sections.go:82, generate.go:67).             *)
THEOREM PagesAlwaysSettle == Spec => []PagesSettle
  <1>1. ASSUME Taken PROVE PagesSettle
    <2> DEFINE given == input.given
    <2>1. SUFFICES ASSUME input.topic = "page"
                   PROVE  /\ \A f \in DOMAIN given.files, k \in DOMAIN given.kinds :
                               ReadsTheSame(given.files[f], given.kinds[k])
                          /\ Settles(given.files, given.kinds, given.slugOf, given.fails)
      BY DEF PagesSettle
    <2>2. IsPageInput(given)
      BY <1>1, <2>1, InputAssumption DEF Taken
    <2> HIDE DEF given
    <2>3. HoldPages(given.files) /\ given.kinds \in Seq(Word) /\ given.fails \in 0..Len(given.kinds)
      BY <2>2 DEF IsPageInput, HoldPages
    <2>4. \A k \in DOMAIN given.kinds : given.kinds[k] \in Word
      BY <2>3, ElementOfSeq
    <2> QED BY <2>3, <2>4, RefreshingReadsTheSame, GenerateSettles DEF HoldPages
  <1> QED BY <1>1, OnlyLegal, PTL

-----------------------------------------------------------------------------
(* Selectors.                                                               *)

(* What whoctl asks crosses the wire as text, and != asks the opposite of = *)
(* (core/selector.go), whatever is asked.                                   *)
THEOREM SelectorsAlwaysMean == Spec => []SelectorsMean
  <1>1. ASSUME Taken PROVE SelectorsMean
    <2>1. SUFFICES ASSUME input.topic = "selector"
                   PROVE  CrossesAsText(input.given) /\ NegationFlips(input.given)
      BY DEF SelectorsMean
    <2>2. input.given \in Seq(Mark)
      BY <1>1, <2>1, InputAssumption DEF Taken
    <2> QED BY <2>2, AnySelectorCrosses, AnyNegationFlips
  <1> QED BY <1>1, OnlyLegal, PTL

-----------------------------------------------------------------------------
(* Values and types.                                                        *)

(* A Map keeps the order of a document and everything in it, but that an    *)
(* empty list that is read again is null (ordered.go:71); a manifest        *)
(* arrives whole, in its own order at its first level (ordered.go:204); and *)
(* a number is still right (ordered.go:138).                                *)
THEOREM ValuesAlwaysSurvive == Spec => []ValuesSurvive
  <1>1. ASSUME Taken PROVE ValuesSurvive
    <2>1. ASSUME input.topic = "document" PROVE KeepsOrder(input.given) /\ KeepsManifest(input.given)
      <3>1. IsDocument(input.given)
        BY <1>1, <2>1, InputAssumption DEF Taken
      <3> QED BY <3>1, AnyKeepsOrder, AnyKeepsManifest, Zenon
    <2>2. ASSUME input.topic = "number" PROVE NumberSurvives(input.given)
      <3>1. input.given \in Int
        BY <1>1, <2>2, InputAssumption DEF Taken
      <3> QED BY <3>1, AnyNumberSurvives, Zenon
    <2> QED BY <2>1, <2>2, Zenon DEF ValuesSurvive
  <1> QED BY <1>1, OnlyLegal, PTL

(* A path finds the same in what a handler returns and in what arrives      *)
(* (path.go:33), whatever the value and however long the path, unless it    *)
(* leads through a struct whose yaml and json names differ, or ends at a    *)
(* zero number that is left out, or at an empty map.                        *)
THEOREM PathsAlwaysCross == Spec => []PathsCross
  <1>1. ASSUME Taken PROVE PathsCross
    <2>1. SUFFICES ASSUME input.topic = "path"
                   PROVE  SameOnBothSides(input.given.value, input.given.paths)
      BY DEF PathsCross
    <2>2. IsPathInput(input.given)
      BY <1>1, <2>1, InputAssumption DEF Taken
    <2> QED BY <2>2, BothSidesAgree DEF IsPathInput
  <1> QED BY <1>1, OnlyLegal, PTL

(* Whatever a path names in a value is a valid path of its type             *)
(* (path.go:109), and of any type whose fields are tagged, what the         *)
(* documentation calls a field is what a path calls it (schema.go:50).      *)
THEOREM FieldsAlwaysHaveOneName == Spec => []FieldsHaveOneName
  <1>1. ASSUME Taken PROVE FieldsHaveOneName
    <2> DEFINE given == input.given
    <2>1. ASSUME input.topic = "path", NEW k \in DOMAIN given.paths PROVE NamedIsValid(given.spec, given.value, given.paths[k])
      <3>1. IsPathInput(given)
        BY <1>1, <2>1, InputAssumption DEF Taken
      <3>2. given.paths \in Seq(Seq(Segment) \ {<<>>}) /\ given.value \in Value /\ <<given.spec, given.value>> \in OfType
        BY <3>1, Zenon DEF IsPathInput
      <3> HIDE DEF given
      <3>3. given.paths[k] \in Seq(Segment) \ {<<>>}
        BY <2>1, <3>2, ElementOfSeq
      <3> QED BY <3>2, <3>3, AnyNamedIsValid
    <2>2. ASSUME input.topic = "struct" PROVE OneNameEach(given)
      <3>1. given \in GoType[TypeLevels]
        BY <1>1, <2>2, InputAssumption DEF Taken
      <3> HIDE DEF given
      <3> QED BY <3>1, AnyFieldHasOneName, Zenon
    <2> QED BY <2>1, <2>2, Zenon DEF FieldsHaveOneName
  <1> QED BY <1>1, OnlyLegal, PTL

-----------------------------------------------------------------------------
(* Names, errors and times.                                                 *)

(* No text in the middle of a command names both a group and a kind         *)
(* (providertest.go:54).                                                    *)
THEOREM MiddleIsAlwaysOne == Spec => []MiddleIsOne
  <1>1. ASSUME Taken PROVE MiddleIsOne
    <2>1. SUFFICES ASSUME input.topic = "kinds", NEW text \in input.given.texts
                   PROVE  MiddleIsClear(input.given.kinds, text)
      BY DEF MiddleIsOne
    <2>2. IsKindsInput(input.given)
      BY <1>1, <2>1, InputAssumption DEF Taken
    <2> QED BY <2>1, <2>2, KindOrGroup DEF IsKindsInput
  <1> QED BY <1>1, OnlyLegal, PTL

(* What a command prints of a kind or an object is what the next one        *)
(* accepts (resource.go:28).                                                *)
THEOREM PrintedNamesAlwaysReach == Spec => []PrintedNamesReach
  <1>1. ASSUME Taken PROVE PrintedNamesReach
    <2>1. SUFFICES ASSUME input.topic = "kinds"
                   PROVE  PrintedIsAccepted(input.given.kinds, input.given.provider, input.given.object)
      BY DEF PrintedNamesReach
    <2>2. IsKindsInput(input.given)
      BY <1>1, <2>1, InputAssumption DEF Taken
    <2> QED BY <2>2, PrintedReaches DEF IsKindsInput
  <1> QED BY <1>1, OnlyLegal, PTL

(* What a server answers of an error, and a timestamp, are the same on the  *)
(* other side (errors.go:12, time.go:9).                                    *)
THEOREM ErrorsAlwaysCross == Spec => []ErrorsCross
  <1>1. ASSUME Taken PROVE ErrorsCross
    <2>1. ASSUME input.topic = "error" PROVE ErrorCrosses(input.given.chain, input.given.around)
      BY AnyErrorCrosses
    <2>2. ASSUME input.topic = "time" PROVE TimeSurvives(input.given)
      <3>1. input.given \in [second : Nat, part : Nat]
        BY <1>1, <2>2, InputAssumption DEF Taken
      <3> QED BY <3>1, AnyTimeSurvives
    <2> QED BY <2>1, <2>2 DEF ErrorsCross
  <1> QED BY <1>1, OnlyLegal, PTL

-----------------------------------------------------------------------------
(* Commands.                                                                *)

(* What a Runner does, one step at a time.                                  *)
Deeds ==
  {Does(what) : what \in {"log", "start", "exit", "daemonEnds", "mutate"}}
    \cup {Creates(file) : file \in Scratch} \cup {Removes(file) : file \in Scratch}

(* What is done in a row is done in both parts.                             *)
LEMMA DoneInBoth ==
  ASSUME NEW a \in Seq(Deeds), NEW b \in Seq(Deeds)
  PROVE  /\ a \o b \in Seq(Deeds) /\ Len(a \o b) = Len(a) + Len(b)
         /\ \A i \in 1..Len(a) : (a \o b)[i] = a[i]
         /\ \A i \in 1..Len(b) : (a \o b)[Len(a) + i] = b[i]
         /\ ToSet(a \o b) = ToSet(a) \cup ToSet(b)
  <1> DEFINE c == a \o b
  <1>1. c \in Seq(Deeds) /\ Len(c) = Len(a) + Len(b)
    BY ConcatProperties
  <1>2. /\ \A i \in 1..Len(a) : c[i] = a[i]
        /\ \A i \in 1..Len(b) : c[Len(a) + i] = b[i]
    BY ConcatProperties
  <1> HIDE DEF c
  <1>3. DOMAIN a = 1..Len(a) /\ DOMAIN b = 1..Len(b) /\ DOMAIN c = 1..Len(c) /\ Len(a) \in Nat /\ Len(b) \in Nat
    BY <1>1
  <1>4. ASSUME NEW i \in 1..Len(c) PROVE c[i] \in ToSet(a) \cup ToSet(b)
    <2>1. CASE i \in 1..Len(a)
      BY <1>2, <1>3, <2>1 DEF ToSet
    <2>2. CASE i \notin 1..Len(a)
      <3>1. i - Len(a) \in 1..Len(b) /\ Len(a) + (i - Len(a)) = i
        BY <1>1, <1>3, <2>2
      <3>2. c[i] = b[i - Len(a)]
        BY <1>2, <3>1
      <3> QED BY <1>3, <3>1, <3>2 DEF ToSet
    <2> QED BY <2>1, <2>2
  <1>5. ASSUME NEW i \in 1..Len(a) PROVE a[i] \in ToSet(c)
    <2>1. i \in 1..Len(c) /\ c[i] = a[i]
      BY <1>1, <1>2, <1>3
    <2> QED BY <1>3, <2>1 DEF ToSet
  <1>6. ASSUME NEW i \in 1..Len(b) PROVE b[i] \in ToSet(c)
    <2>1. Len(a) + i \in 1..Len(c) /\ c[Len(a) + i] = b[i]
      BY <1>1, <1>2, <1>3
    <2> QED BY <1>3, <2>1 DEF ToSet
  <1>7. ToSet(c) = ToSet(a) \cup ToSet(b)
    <2>1. ToSet(c) \subseteq ToSet(a) \cup ToSet(b)
      BY <1>3, <1>4 DEF ToSet
    <2>2. ToSet(a) \subseteq ToSet(c) /\ ToSet(b) \subseteq ToSet(c)
      BY <1>3, <1>5, <1>6 DEF ToSet
    <2> QED BY <2>1, <2>2
  <1> QED BY <1>1, <1>2, <1>7 DEF c

(* One step. *)
LEMMA OneDeed ==
  ASSUME NEW d \in Deeds
  PROVE  <<d>> \in Seq(Deeds) /\ Len(<<d>>) = 1 /\ <<d>>[1] = d /\ ToSet(<<d>>) = {d}
  <1> HIDE DEF Deeds
  <1>1. <<d>> \in Seq(Deeds) /\ Len(<<d>>) = 1 /\ <<d>>[1] = d /\ DOMAIN <<d>> = {1}
    OBVIOUS
  <1> QED BY <1>1 DEF ToSet

(* What is tidy stays so behind a step that creates nothing.                *)
LEMMA TidyAfter ==
  ASSUME NEW d \in Deeds, d.does # "create", NEW run \in Seq(Deeds), Tidy(run)
  PROVE  Tidy(<<d>> \o run)
  <1> DEFINE all == <<d>> \o run
  <1>1. /\ all \in Seq(Deeds) /\ Len(all) = 1 + Len(run) /\ all[1] = d
        /\ \A i \in 1..Len(run) : all[1 + i] = run[i]
    BY OneDeed, DoneInBoth
  <1> HIDE DEF all, Deeds
  <1>2. Len(run) \in Nat /\ DOMAIN all = 1..(1 + Len(run)) /\ DOMAIN run = 1..Len(run)
    BY <1>1
  <1>3. ASSUME NEW k \in DOMAIN all, all[k].does = "create"
        PROVE  \E l \in (k + 1)..Len(all) :
                 all[l] = Removes(all[k].to) /\ \A m \in l..Len(all) : all[m].does = "remove"
    <2>1. k # 1 /\ k - 1 \in 1..Len(run) /\ all[k] = run[k - 1]
      <3>1. k # 1
        BY <1>1, <1>3
      <3>2. k - 1 \in 1..Len(run) /\ 1 + (k - 1) = k
        BY <1>2, <3>1
      <3> QED BY <1>1, <3>1, <3>2
    <2>2. PICK l \in k..Len(run) : run[l] = Removes(run[k - 1].to) /\ \A m \in l..Len(run) : run[m].does = "remove"
      <3>1. (k - 1) + 1 = k
        BY <1>2
      <3> QED BY <1>2, <1>3, <2>1, <3>1 DEF Tidy
    <2>3. l \in 1..Len(run) /\ 1 + l \in (k + 1)..Len(all)
      BY <1>1, <1>2, <2>1, <2>2
    <2>4. all[1 + l] = Removes(all[k].to)
      BY <1>1, <2>1, <2>2, <2>3
    <2>5. ASSUME NEW m \in (1 + l)..Len(all) PROVE all[m].does = "remove"
      <3>1. m - 1 \in l..Len(run) /\ m - 1 \in 1..Len(run) /\ 1 + (m - 1) = m
        BY <1>1, <1>2, <2>3
      <3>2. all[m] = run[m - 1]
        BY <1>1, <3>1
      <3> QED BY <2>2, <3>1, <3>2
    <2> QED BY <2>3, <2>4, <2>5
  <1> QED BY <1>3 DEF Tidy, all

(* What is tidy stays so within a file that is created and removed.         *)
LEMMA TidyWithin ==
  ASSUME NEW file \in Scratch, NEW run \in Seq(Deeds), Tidy(run)
  PROVE  Tidy(<<Creates(file)>> \o run \o <<Removes(file)>>)
  <1> DEFINE n    == Len(run) + 2
             most == <<Creates(file)>> \o run
             all  == most \o <<Removes(file)>>
  <1>1. Creates(file) \in Deeds /\ Removes(file) \in Deeds /\ Removes(file).does = "remove" /\ Creates(file).to = file
    BY DEF Deeds, Creates, Removes
  <1>2. /\ most \in Seq(Deeds) /\ Len(most) = 1 + Len(run) /\ most[1] = Creates(file)
        /\ \A i \in 1..Len(run) : most[1 + i] = run[i]
    BY <1>1, OneDeed, DoneInBoth
  <1> HIDE DEF most, Deeds, n
  <1>3. /\ all \in Seq(Deeds) /\ Len(all) = Len(most) + 1
        /\ \A i \in 1..Len(most) : all[i] = most[i]
        /\ all[Len(most) + 1] = Removes(file)
    BY <1>1, <1>2, OneDeed, DoneInBoth
  <1> HIDE DEF all
  <1>4. Len(run) \in Nat /\ Len(all) = n /\ DOMAIN all = 1..n /\ DOMAIN run = 1..Len(run) /\ n = Len(run) + 2
    BY <1>2, <1>3 DEF n
  <1>5. all[n] = Removes(file) /\ all[1] = Creates(file)
    BY <1>2, <1>3, <1>4
  <1>6. ASSUME NEW i \in 1..Len(run) PROVE all[1 + i] = run[i]
    BY <1>2, <1>3, <1>4
  <1>7. ASSUME NEW k \in DOMAIN all, all[k].does = "create"
        PROVE  \E l \in (k + 1)..Len(all) :
                 all[l] = Removes(all[k].to) /\ \A m \in l..Len(all) : all[m].does = "remove"
    <2>1. CASE k = 1
      <3>1. n \in (k + 1)..Len(all) /\ all[n] = Removes(all[k].to)
        BY <1>1, <1>4, <1>5, <2>1
      <3>2. \A m \in n..Len(all) : all[m].does = "remove"
        BY <1>1, <1>4, <1>5
      <3> QED BY <3>1, <3>2
    <2>2. CASE k = n
      BY <1>1, <1>5, <1>7, <2>2
    <2>3. CASE k # 1 /\ k # n
      <3>1. k - 1 \in 1..Len(run) /\ 1 + (k - 1) = k /\ (k - 1) + 1 = k
        BY <1>4, <2>3
      <3>2. all[k] = run[k - 1]
        BY <1>6, <3>1
      <3>3. PICK l \in k..Len(run) : run[l] = Removes(run[k - 1].to) /\ \A m \in l..Len(run) : run[m].does = "remove"
        BY <1>4, <1>7, <3>1, <3>2 DEF Tidy
      <3>4. l \in 1..Len(run) /\ 1 + l \in (k + 1)..Len(all)
        BY <1>4, <3>1, <3>3
      <3>5. all[1 + l] = Removes(all[k].to)
        BY <1>6, <3>2, <3>3, <3>4
      <3>6. ASSUME NEW m \in (1 + l)..Len(all) PROVE all[m].does = "remove"
        <4>1. m = n \/ (m - 1 \in l..Len(run) /\ m - 1 \in 1..Len(run) /\ 1 + (m - 1) = m)
          BY <1>4, <3>4
        <4>2. CASE m = n
          BY <1>1, <1>5, <4>2
        <4>3. CASE m - 1 \in l..Len(run) /\ m - 1 \in 1..Len(run) /\ 1 + (m - 1) = m
          <5>1. all[m] = run[m - 1]
            BY <1>6, <4>3
          <5> QED BY <3>3, <4>3, <5>1
        <4> QED BY <4>1, <4>2, <4>3
      <3> QED BY <3>4, <3>5, <3>6
    <2> QED BY <2>1, <2>2, <2>3
  <1> QED BY <1>7 DEF Tidy, all, most

(* What happens while the command runs. *)
LEMMA ExecuteIs ==
  ASSUME NEW c \in CommandsToRun
  PROVE  /\ Execute(c) \in Seq(Deeds) /\ Tidy(Execute(c))
         /\ c.starts => Does("exit") \in ToSet(Execute(c))
         /\ Does("daemonEnds") \in ToSet(Execute(c)) => c.stdin = "more"
  <1> DEFINE start == Does("start")
             exit  == Does("exit")
             ends  == Does("daemonEnds")
  <1>1. start \in Deeds /\ exit \in Deeds /\ ends \in Deeds
    BY DEF Deeds
  <1>2. start.does # "create" /\ exit.does # "create" /\ ends.does # "create" /\ ends # start /\ ends # exit
    BY DEF Does
  <1> HIDE DEF start, exit, ends, Deeds
  <1>3. CASE ~c.starts
    <2>1. Execute(c) = <<>>
      BY <1>3 DEF Execute
    <2>2. <<>> \in Seq(Deeds) /\ DOMAIN <<>> = {} /\ ToSet(<<>>) = {}
      BY DEF ToSet
    <2> QED BY <1>3, <2>1, <2>2 DEF Tidy, ends
  <1>4. CASE c.starts /\ ~Held(c)
    <2> DEFINE both == <<start, exit>>
    <2>1. Execute(c) = both \o <<>>
      BY <1>4 DEF Execute, start, exit
    <2>2. both \in Seq(Deeds) /\ DOMAIN both = {1, 2} /\ both[1] = start /\ both[2] = exit
      BY <1>1
    <2> HIDE DEF both
    <2>3. Execute(c) = both
      BY <2>1, <2>2, ConcatEmptySeq
    <2>4. ToSet(both) = {start, exit}
      BY <2>2 DEF ToSet
    <2>5. Tidy(both)
      BY <1>2, <2>2 DEF Tidy
    <2> QED BY <1>2, <2>2, <2>3, <2>4, <2>5 DEF exit, ends
  <1>5. CASE c.starts /\ Held(c)
    <2> DEFINE both == <<start, exit>>
               all  == both \o <<ends>>
    <2>1. Execute(c) = all
      BY <1>5 DEF Execute, start, exit, ends
    <2>2. both \in Seq(Deeds) /\ Len(both) = 2 /\ both[1] = start /\ both[2] = exit /\ DOMAIN both = {1, 2}
      BY <1>1
    <2> HIDE DEF both
    <2>3. /\ all \in Seq(Deeds) /\ Len(all) = 3 /\ all[1] = both[1] /\ all[2] = both[2] /\ all[3] = ends
          /\ ToSet(all) = ToSet(both) \cup {ends}
      <3>1. <<ends>> \in Seq(Deeds) /\ Len(<<ends>>) = 1 /\ <<ends>>[1] = ends /\ ToSet(<<ends>>) = {ends}
        BY <1>1, OneDeed
      <3>2. /\ all \in Seq(Deeds) /\ Len(all) = Len(both) + Len(<<ends>>)
            /\ \A i \in 1..Len(both) : all[i] = both[i]
            /\ \A i \in 1..Len(<<ends>>) : all[Len(both) + i] = <<ends>>[i]
            /\ ToSet(all) = ToSet(both) \cup ToSet(<<ends>>)
        BY <2>2, <3>1, DoneInBoth
      <3> HIDE DEF all
      <3>3. 1 \in 1..Len(both) /\ 2 \in 1..Len(both) /\ 1 \in 1..Len(<<ends>>) /\ Len(both) + 1 = 3
        BY <2>2, <3>1
      <3> QED BY <2>2, <3>1, <3>2, <3>3
    <2> HIDE DEF all
    <2>4. exit \in ToSet(both)
      BY <2>2 DEF ToSet
    <2>5. Tidy(all)
      <3>1. \A k \in DOMAIN all : k = 1 \/ k = 2 \/ k = 3
        BY <2>3
      <3> QED BY <1>2, <2>2, <2>3, <3>1 DEF Tidy
    <2> QED BY <1>5, <2>1, <2>3, <2>4, <2>5 DEF Held, exit, ends
  <1> QED BY <1>3, <1>4, <1>5

(* What happens around it in a scratch file.                                *)
LEMMA WithFileIs ==
  ASSUME NEW c \in CommandsToRun, NEW file \in Scratch, NEW body \in Seq(Deeds), Tidy(body)
  PROVE  /\ WithFile(file, c, body) \in Seq(Deeds) /\ Tidy(WithFile(file, c, body))
         /\ file \in c.makes => ToSet(body) \subseteq ToSet(WithFile(file, c, body))
         /\ ToSet(WithFile(file, c, body)) \subseteq ToSet(body) \cup {Creates(file), Removes(file)}
  <1>1. CASE file \notin c.makes
    <2>1. WithFile(file, c, body) = <<>>
      BY <1>1 DEF WithFile
    <2>2. <<>> \in Seq(Deeds) /\ DOMAIN <<>> = {} /\ ToSet(<<>>) = {}
      BY DEF ToSet
    <2>3. Tidy(<<>>)
      BY <2>2 DEF Tidy
    <2> QED BY <1>1, <2>1, <2>2, <2>3
  <1>2. CASE file \in c.makes
    <2> DEFINE first == Creates(file)
               last  == Removes(file)
    <2>1. WithFile(file, c, body) = (<<first>> \o body) \o <<last>>
      BY <1>2 DEF WithFile
    <2>2. first \in Deeds /\ last \in Deeds
      BY DEF Deeds
    <2>3. Tidy((<<first>> \o body) \o <<last>>)
      BY TidyWithin
    <2> HIDE DEF first, last, Deeds
    <2>4. <<first>> \in Seq(Deeds) /\ ToSet(<<first>>) = {first} /\ <<last>> \in Seq(Deeds) /\ ToSet(<<last>>) = {last}
      BY <2>2, OneDeed
    <2>5. <<first>> \o body \in Seq(Deeds) /\ ToSet(<<first>> \o body) = {first} \cup ToSet(body)
      BY <2>4, DoneInBoth
    <2>6. /\ (<<first>> \o body) \o <<last>> \in Seq(Deeds)
          /\ ToSet((<<first>> \o body) \o <<last>>) = ToSet(<<first>> \o body) \cup {last}
      BY <2>4, <2>5, DoneInBoth
    <2> QED BY <2>1, <2>3, <2>5, <2>6 DEF first, last
  <1> QED BY <1>1, <1>2

(* A command leaves nothing behind, whatever fails, and is waited for alone *)
(* if its stdin fits in a pipe (exec.go:59, exec.go:96).                    *)
LEMMA AnyCommandLeavesNothing ==
  ASSUME NEW c \in CommandsToRun
  PROVE  LeavesNothing(c)
  <1> DEFINE log   == Does("log")
             inner == WithFile("stderr", c, Execute(c))
             outer == WithFile("stdout", c, inner)
             ends  == Does("daemonEnds")
             exit  == Does("exit")
  <1>1. log \in Deeds /\ log.does # "create" /\ log # ends
    BY DEF Deeds, Does
  <1>2. \A file \in Scratch : Creates(file) # ends /\ Removes(file) # ends
    BY DEF Creates, Removes, Does
  <1>3. "stdout" \in Scratch /\ "stderr" \in Scratch /\ Scratch = {"stdout", "stderr"}
    BY DEF Scratch
  <1>4. /\ Execute(c) \in Seq(Deeds) /\ Tidy(Execute(c))
        /\ c.starts => exit \in ToSet(Execute(c))
        /\ ends \in ToSet(Execute(c)) => c.stdin = "more"
    BY ExecuteIs
  <1>5. /\ inner \in Seq(Deeds) /\ Tidy(inner)
        /\ "stderr" \in c.makes => ToSet(Execute(c)) \subseteq ToSet(inner)
        /\ ToSet(inner) \subseteq ToSet(Execute(c)) \cup {Creates("stderr"), Removes("stderr")}
    BY <1>3, <1>4, WithFileIs
  <1> HIDE DEF inner
  <1>6. /\ outer \in Seq(Deeds) /\ Tidy(outer)
        /\ "stdout" \in c.makes => ToSet(inner) \subseteq ToSet(outer)
        /\ ToSet(outer) \subseteq ToSet(inner) \cup {Creates("stdout"), Removes("stdout")}
    BY <1>3, <1>5, WithFileIs
  <1> HIDE DEF outer, log, ends, exit, Deeds
  <1>7. <<log>> \in Seq(Deeds) /\ ToSet(<<log>>) = {log} /\ <<>> \in Seq(Deeds) /\ ToSet(<<>>) = {} /\ DOMAIN <<>> = {}
    BY <1>1, OneDeed DEF ToSet
  <1>8. Tidy(<<>>)
    BY <1>7 DEF Tidy
  <1>9. <<log>> \o <<>> = <<log>> /\ <<>> \o <<>> = <<>> /\ <<>> \o outer = outer
    BY <1>6, <1>7, ConcatEmptySeq
  <1>10. CASE c.dryRun
    <2>1. Run(c) = <<log>> /\ Mutate(c) = <<log>> /\ Answers(c) = "ok"
      <3>1. Log(c) = <<log>>
        BY <1>10 DEF Log, log
      <3>2. Run(c) = <<log>> \o <<>> /\ Mutate(c) = <<log>> \o <<>>
        BY <1>10, <3>1 DEF Run, Mutate
      <3>3. Answers(c) = "ok"
        BY <1>10 DEF Answers
      <3> QED BY <1>9, <3>2, <3>3
    <2>2. Tidy(<<log>>)
      BY <1>1, <1>7, <1>8, <1>9, TidyAfter
    <2> QED BY <1>1, <1>7, <1>10, <2>1, <2>2 DEF LeavesNothing, log, ends
  <1>11. CASE ~c.dryRun
    <2>1. /\ Tidy(Run(c)) /\ ToSet(outer) \subseteq ToSet(Run(c))
          /\ ToSet(Run(c)) \subseteq ToSet(outer) \cup {log}
      <3>1. CASE c.verbose
        <4>1. Run(c) = <<log>> \o outer
          BY <1>11, <3>1 DEF Run, Log, log, outer, inner
        <4>2. Tidy(<<log>> \o outer)
          BY <1>1, <1>6, TidyAfter
        <4>3. ToSet(<<log>> \o outer) = {log} \cup ToSet(outer)
          BY <1>6, <1>7, DoneInBoth
        <4> QED BY <4>1, <4>2, <4>3
      <3>2. CASE ~c.verbose
        <4>1. Run(c) = <<>> \o outer
          BY <1>11, <3>2 DEF Run, Log, outer, inner
        <4> QED BY <1>6, <1>9, <4>1
      <3> QED BY <3>1, <3>2
    <2>2. ASSUME Answers(c) = "ok" PROVE exit \in ToSet(Run(c)) /\ c.exits = "ok"
      <3>1. c.makes = Scratch /\ c.starts /\ c.exits = "ok"
        BY <1>11, <2>2 DEF Answers
      <3> QED BY <1>3, <1>4, <1>5, <1>6, <2>1, <3>1
    <2>3. ASSUME c.stdin # "more" PROVE ends \notin ToSet(Run(c))
      BY <1>1, <1>2, <1>3, <1>4, <1>5, <1>6, <2>1, <2>3
    <2> QED BY <1>11, <2>1, <2>2, <2>3 DEF LeavesNothing, exit, ends
  <1> QED BY <1>10, <1>11

(* No command a provider runs leaves anything behind (exec.go:59,           *)
(* exec.go:96).                                                             *)
THEOREM CommandsAlwaysLeaveNothing == Spec => []CommandsLeaveNothing
  <1>1. ASSUME Taken PROVE CommandsLeaveNothing
    <2>1. SUFFICES ASSUME input.topic = "command" PROVE LeavesNothing(input.given)
      BY DEF CommandsLeaveNothing
    <2>2. input.given \in CommandsToRun
      BY <1>1, <2>1, InputAssumption DEF Taken
    <2> QED BY <2>2, AnyCommandLeavesNothing
  <1> QED BY <1>1, OnlyLegal, PTL

-----------------------------------------------------------------------------
(* The site.                                                                *)

(* A path below a directory is the directory's and what follows it.         *)
LEMMA BelowIs ==
  ASSUME NEW S, NEW dir \in Seq(S), NEW path \in Seq(S)
  PROVE  LET rest == SubSeq(path, Len(dir) + 1, Len(path)) IN
         /\ Lists!IsStrictPrefix(dir, path) =>
              rest \in Seq(S) /\ Len(rest) = Len(path) - Len(dir) /\ Len(path) > Len(dir) /\ dir \o rest = path
         /\ Lists!IsStrictPrefix(dir, path) <=> Len(path) > Len(dir) /\ \A i \in 1..Len(dir) : path[i] = dir[i]
  <1> DEFINE n == Len(dir)
             rest == SubSeq(path, n + 1, Len(path))
             first == SubSeq(path, 1, n)
  <1>0. n \in Nat /\ Len(path) \in Nat /\ SubSeq(dir, 1, n) = dir /\ SubSeq(path, 1, Len(path)) = path
    BY SubSeqFull
  <1>1. ASSUME n <= Len(path)
        PROVE  /\ first \in Seq(S) /\ Len(first) = n /\ \A i \in 1..n : first[i] = path[i]
               /\ rest \in Seq(S) /\ Len(rest) = Len(path) - n /\ first \o rest = path
    <2>1. n \in 0..Len(path)
      BY <1>0, <1>1
    <2> QED BY <2>1, CutInTwo, Zenon
  <1>2. Lists!IsStrictPrefix(dir, path) <=> n <= Len(path) /\ dir = first /\ dir # path
    <2> HIDE DEF first
    <2> QED BY <1>0 DEF Lists!IsStrictPrefix, Lists!IsPrefix, first
  <1>3. n = Len(path) => first = path
    BY <1>0
  <1> HIDE DEF first, rest
  <1>4. ASSUME Lists!IsStrictPrefix(dir, path)
        PROVE  /\ rest \in Seq(S) /\ Len(rest) = Len(path) - n /\ Len(path) > n /\ dir \o rest = path
               /\ \A i \in 1..n : path[i] = dir[i]
    <2>1. n <= Len(path) /\ dir = first /\ dir # path
      BY <1>2, <1>4
    <2>2. n # Len(path)
      BY <1>3, <2>1
    <2>3. Len(path) > n
      <3>1. n <= Len(path)
        BY <2>1
      <3>2. n \in Nat /\ Len(path) \in Nat
        BY <1>0
      <3> HIDE DEF n
      <3> QED BY <2>2, <3>1, <3>2
    <2>4. first \o rest = path
      BY <1>1, <2>1
    <2>5. dir \o rest = path
      BY <2>1, <2>4, Zenon
    <2> QED BY <1>1, <2>1, <2>3, <2>5
  <1>5. ASSUME Len(path) > n, \A i \in 1..n : path[i] = dir[i] PROVE Lists!IsStrictPrefix(dir, path)
    <2>1. n <= Len(path)
      BY <1>0, <1>5
    <2>2. dir = first
      BY <1>1, <1>5, <2>1, SeqEqual
    <2>3. dir # path
      BY <1>0, <1>5
    <2> QED BY <1>2, <2>1, <2>2, <2>3
  <1> QED BY <1>4, <1>5 DEF rest

(* What is below a directory of a tree of pages is one. *)
LEMMA SubIs ==
  ASSUME NEW tree, DOMAIN tree \subseteq Seq(Names), HoldPages(tree), NEW dir \in Seq(Names)
  PROVE  /\ DOMAIN Sub(tree, dir) \subseteq Seq(Names) \ {<<>>} /\ HoldPages(Sub(tree, dir))
         /\ Sub(tree, dir) = [path \in DOMAIN Sub(tree, dir) |-> Sub(tree, dir)[path]]
  <1> DEFINE rest(full) == SubSeq(full, Len(dir) + 1, Len(full))
             paths == {rest(full) : full \in Below(tree, dir)}
  <1>1. Sub(tree, dir) = [path \in paths |-> tree[dir \o path]]
    BY DEF Sub
  <1>2. ASSUME NEW full \in Below(tree, dir)
        PROVE  rest(full) \in Seq(Names) /\ rest(full) # <<>> /\ dir \o rest(full) = full /\ tree[full] \in Page
    <2>1. full \in Seq(Names) /\ full \in DOMAIN tree /\ Lists!IsStrictPrefix(dir, full)
      BY DEF Below
    <2>2. /\ rest(full) \in Seq(Names) /\ Len(rest(full)) = Len(full) - Len(dir) /\ Len(full) > Len(dir)
          /\ dir \o rest(full) = full
      BY <2>1, BelowIs
    <2>3. rest(full) # <<>>
      <3> HIDE DEF rest
      <3>1. Len(dir) \in Nat /\ Len(full) \in Nat
        BY <2>1
      <3> QED BY <2>2, <3>1
    <2> QED BY <2>1, <2>2, <2>3 DEF HoldPages
  <1> HIDE DEF rest
  <1>3. \A path \in paths : path \in Seq(Names) \ {<<>>} /\ tree[dir \o path] \in Page
    BY <1>2
  <1> HIDE DEF paths
  <1> QED BY <1>1, <1>3 DEF HoldPages

(* What is below the root of a tree is the tree. *)
LEMMA SubOfAll ==
  ASSUME NEW tree, DOMAIN tree \subseteq Seq(Names) \ {<<>>}, tree = [path \in DOMAIN tree |-> tree[path]]
  PROVE  Sub(tree, <<>>) = tree
  <1>0. <<>> \in Seq(Names) /\ Len(<<>>) = 0
    OBVIOUS
  <1>1. ASSUME NEW path \in DOMAIN tree
        PROVE  Lists!IsStrictPrefix(<<>>, path) /\ SubSeq(path, 0 + 1, Len(path)) = path /\ <<>> \o path = path
    <2>1. path \in Seq(Names) /\ Len(path) > 0
      OBVIOUS
    <2>2. Lists!IsStrictPrefix(<<>>, path)
      <3>1. Len(path) > Len(<<>>) /\ \A i \in 1..Len(<<>>) : path[i] = (<<>>)[i]
        BY <1>0, <2>1
      <3> QED BY <1>0, <2>1, <3>1, BelowIs, Zenon
    <2>3. SubSeq(path, 1, Len(path)) = path /\ <<>> \o path = path
      BY <2>1, SubSeqFull, ConcatEmptySeq
    <2> QED BY <2>2, <2>3
  <1>2. Below(tree, <<>>) = DOMAIN tree
    BY <1>1 DEF Below
  <1>3. {SubSeq(full, 0 + 1, Len(full)) : full \in DOMAIN tree} = DOMAIN tree
    BY <1>1
  <1>4. Sub(tree, <<>>) = [path \in DOMAIN tree |-> tree[<<>> \o path]]
    BY <1>0, <1>2, <1>3, Zenon DEF Sub
  <1>5. [path \in DOMAIN tree |-> tree[<<>> \o path]] = [path \in DOMAIN tree |-> tree[path]]
    BY <1>1
  <1> QED BY <1>4, <1>5, Zenon

(* The kinds of a provider, in some order, each once. *)
LEMMA InSomeOrder ==
  ASSUME NEW S, IsFiniteSet(S)
  PROVE  /\ Lists!SetToSeq(S) \in Seq(S)
         /\ \A j, k \in 1..Len(Lists!SetToSeq(S)) : Lists!SetToSeq(S)[j] = Lists!SetToSeq(S)[k] => j = k
         /\ \A x \in S : \E k \in 1..Len(Lists!SetToSeq(S)) : Lists!SetToSeq(S)[k] = x
  <1> DEFINE n == Lists!Cardinality(S)
             s == Lists!SetToSeq(S)
  <1>1. /\ n \in Nat
        /\ \E f \in [1..n -> S] : \A j, k \in 1..n : f[j] = f[k] => j = k
        /\ \A f \in [1..n -> S] : (\A j, k \in 1..n : f[j] = f[k] => j = k) => \A x \in S : \E k \in 1..n : f[k] = x
    <2>1. Generating!IsFiniteSet(S)
      BY DEF IsFiniteSet, Generating!IsFiniteSet
    <2>2. Lists!Cardinality(S) = Generating!Cardinality(S)
      BY DEF Lists!Cardinality, Generating!Cardinality
    <2> QED BY <2>1, <2>2, Generating!FiniteIsCounted
  <1>2. s \in [1..n -> S] /\ \A j, k \in 1..n : s[j] = s[k] => j = k
    BY <1>1 DEF Lists!SetToSeq, Lists!IsInjective
  <1>3. \A x \in S : \E k \in 1..n : s[k] = x
    BY <1>1, <1>2
  <1> HIDE DEF s, n
  <1>4. s \in Seq(S) /\ Len(s) = n
    BY <1>1, <1>2
  <1> QED BY <1>2, <1>3, <1>4 DEF s

(* What is on the disk of a provider. *)
LEMMA DiskIs ==
  ASSUME NEW p, IsProvider(p)
  PROVE  /\ DOMAIN Disk(p) \subseteq Seq(Names) \ {<<>>} /\ HoldPages(Disk(p))
         /\ Disk(p) = [path \in DOMAIN Disk(p) |-> Disk(p)[path]]
  <1>1. DOMAIN p.fs \subseteq Seq(Names) /\ HoldPages(p.fs) /\ p.dir \in Seq(Names)
    BY DEF IsProvider, HoldPages
  <1> QED BY <1>1, SubIs DEF Disk

(* Where a provider keeps the page of a kind. *)
KindPage(p, k) == PagePath(p, p.kinds[k].singular)

(* What a provider is built of. *)
LEMMA BuiltOf ==
  ASSUME NEW p
  PROVE  LET built == BuildProvider(p).built IN
         /\ built.layout = p.layout /\ built.sourceDir = p.sourceDir
         /\ built.overview = Shown(PageAt(Disk(p), <<Md("index")>>), "Overview")
         /\ built.guides = ReadGuides(Disk(p))
         /\ built.resources = [k \in DOMAIN p.kinds |-> BuildResource(Disk(p), p, k)]
         /\ BuildProvider(p).error <=>
              \/ built.overview.error
              \/ \E g \in built.guides : g.page.error
              \/ \E k \in DOMAIN built.resources : built.resources[k].page.error
  BY DEF BuildProvider, Disk

(* What is built of a kind. *)
LEMMA BuiltOfKind ==
  ASSUME NEW p, NEW k \in DOMAIN p.kinds
  PROVE  LET r    == BuildProvider(p).built.resources[k]
             page == PageAt(Disk(p), KindPage(p, k))
         IN
         /\ k \in DOMAIN BuildProvider(p).built.resources
         /\ PagesOf(BuildProvider(p).built)[k] = KindPage(p, k)
         /\ r.subcategory = KeyOr(page.read.keys, "subcategory", "Resources")
         /\ r.description = KeyOr(page.read.keys, "description", p.kinds[k].description)
         /\ r.page = Shown(page, k)
  <1> DEFINE built == BuildProvider(p).built
  <1>1. built.resources = [l \in DOMAIN p.kinds |-> BuildResource(Disk(p), p, l)] /\ built.layout = p.layout
    BY BuiltOf
  <1> HIDE DEF built
  <1>2. k \in DOMAIN built.resources /\ built.resources[k] = BuildResource(Disk(p), p, k)
    BY <1>1
  <1>3. built.resources[k].slug = p.kinds[k].singular
    BY <1>2 DEF BuildResource
  <1>4. PagePath(built, p.kinds[k].singular) = PagePath(p, p.kinds[k].singular)
    BY <1>1 DEF PagePath
  <1>5. PagesOf(built)[k] = KindPage(p, k)
    BY <1>2, <1>3, <1>4 DEF PagesOf, KindPage
  <1>6. /\ built.resources[k].subcategory = KeyOr(PageAt(Disk(p), KindPage(p, k)).read.keys, "subcategory", "Resources")
        /\ built.resources[k].description =
             KeyOr(PageAt(Disk(p), KindPage(p, k)).read.keys, "description", p.kinds[k].description)
        /\ built.resources[k].page = Shown(PageAt(Disk(p), KindPage(p, k)), k)
    BY <1>2 DEF BuildResource, KindPage
  <1> QED BY <1>2, <1>5, <1>6 DEF built

(* The pages of the kinds are written, and no other.                        *)
WrittenOf(p, after) ==
  /\ DOMAIN after = DOMAIN Disk(p) \cup {KindPage(p, k) : k \in DOMAIN p.kinds}
  /\ \A k \in DOMAIN p.kinds : after[KindPage(p, k)] = PageContent(Disk(p), k, KindPage(p, k))
  /\ \A f \in DOMAIN Disk(p) : (\A k \in DOMAIN p.kinds : KindPage(p, k) # f) => after[f] = Disk(p)[f]

(* What generating leaves on the disk.                                      *)
LEMMA GeneratedIs ==
  ASSUME NEW p, IsProvider(p), p.sourceDir, PagesApart(p)
  PROVE  /\ WrittenOf(p, Generated(p))
         /\ Generated(p) = [f \in DOMAIN Generated(p) |-> Generated(p)[f]]
         /\ DOMAIN Generated(p) \subseteq Seq(Names) \ {<<>>}
  <1> DEFINE built == BuildProvider(p).built
             K == DOMAIN p.kinds
             kinds == Lists!SetToSeq(K)
             slugOf == PagesOf(built)
             after == Generate(Disk(p), kinds, slugOf, 0)
             n == Len(kinds)
  <1>1. Generated(p) = after
    <2>1. built.sourceDir = p.sourceDir /\ DOMAIN built.resources = K
      BY BuiltOf
    <2> QED BY <2>1 DEF Generated, GenerateProvider
  <1>2. /\ kinds \in Seq(K) /\ \A j, k \in 1..n : kinds[j] = kinds[k] => j = k
        /\ \A x \in K : \E k \in 1..n : kinds[k] = x
    <2>1. IsFiniteSet(K)
      BY DEF IsProvider
    <2> HIDE DEF K
    <2> QED BY <2>1, InSomeOrder
  <1>3. K \subseteq Word /\ \A k \in K : KindPage(p, k) \in Seq(Names)
    BY DEF IsProvider, KindPage
  <1>4. \A k \in K : slugOf[k] = KindPage(p, k)
    BY BuiltOfKind
  <1>5. \A k, l \in K : KindPage(p, k) = KindPage(p, l) => k = l
    BY DEF PagesApart, KindPage
  <1>6. \A k \in K : KindPage(p, k) # <<>>
    BY DEF PagesApart, KindPage
  <1> HIDE DEF slugOf, K, kinds, built
  <1>7. n \in Nat /\ \A k \in 1..n : kinds[k] \in K
    BY <1>2, ElementOfSeq
  <1>8. kinds \in Seq(Word)
    BY <1>2, <1>3
  <1>9. \A j, k \in 1..n : slugOf[kinds[j]] = slugOf[kinds[k]] => j = k
    <2> SUFFICES ASSUME NEW j \in 1..n, NEW k \in 1..n, slugOf[kinds[j]] = slugOf[kinds[k]] PROVE j = k
      OBVIOUS
    <2>1. kinds[j] \in K /\ kinds[k] \in K
      BY <1>7
    <2>2. KindPage(p, kinds[j]) = KindPage(p, kinds[k])
      BY <1>4, <2>1
    <2>3. kinds[j] = kinds[k]
      BY <1>5, <2>1, <2>2
    <2> QED BY <1>2, <2>3
  <1>10. WrittenAt(after, Disk(p), kinds, slugOf, n)
    <2>1. Disk(p) = [f \in DOMAIN Disk(p) |-> Disk(p)[f]]
      BY DiskIs
    <2> QED BY <1>8, <1>9, <2>1, GenerateWrites
  <1> HIDE DEF after
  <1>11. DOMAIN after = DOMAIN Disk(p) \cup {KindPage(p, k) : k \in K}
    <2>1. DOMAIN after = DOMAIN Disk(p) \cup {slugOf[kinds[k]] : k \in 1..n}
      BY <1>10 DEF WrittenAt
    <2> DEFINE W == {slugOf[kinds[k]] : k \in 1..n}
               P == {KindPage(p, k) : k \in K}
    <2>2. ASSUME NEW k \in 1..n PROVE slugOf[kinds[k]] \in P
      <3>1. kinds[k] \in K /\ slugOf[kinds[k]] = KindPage(p, kinds[k])
        BY <1>4, <1>7
      <3> QED BY <3>1, Zenon
    <2>3. ASSUME NEW x \in K PROVE KindPage(p, x) \in W
      <3>1. PICK k \in 1..n : kinds[k] = x
        BY <1>2, Zenon
      <3>2. slugOf[kinds[k]] = KindPage(p, x)
        BY <1>4, <3>1, Zenon
      <3> QED BY <3>2, Zenon
    <2>4. W = P
      <3>1. W \subseteq P
        BY <2>2, Zenon
      <3>2. P \subseteq W
        BY <2>3, Zenon
      <3> QED BY <3>1, <3>2, Zenon
    <2> QED BY <2>1, <2>4, Zenon
  <1>12. ASSUME NEW k \in K PROVE after[KindPage(p, k)] = PageContent(Disk(p), k, KindPage(p, k))
    <2>1. PICK j \in 1..n : kinds[j] = k
      BY <1>2
    <2>2. after[slugOf[kinds[j]]] = PageContent(Disk(p), kinds[j], slugOf[kinds[j]])
      BY <1>10 DEF WrittenAt
    <2> QED BY <1>4, <2>1, <2>2
  <1>13. ASSUME NEW f \in DOMAIN Disk(p), \A k \in K : KindPage(p, k) # f PROVE after[f] = Disk(p)[f]
    <2>1. \A j \in 1..n : slugOf[kinds[j]] # f
      BY <1>4, <1>7, <1>13
    <2> QED BY <1>10, <2>1 DEF WrittenAt
  <1>14. after = [f \in DOMAIN after |-> after[f]]
    BY <1>10 DEF WrittenAt
  <1>15. WrittenOf(p, after)
    BY <1>11, <1>12, <1>13 DEF WrittenOf, K
  <1>16. DOMAIN after \subseteq Seq(Names) \ {<<>>}
    BY <1>3, <1>6, <1>11, DiskIs
  <1> QED BY <1>1, <1>14, <1>15, <1>16, Zenon

(* Embedding what was generated changes the disk, and nothing else.         *)
LEMMA RegeneratedIs ==
  ASSUME NEW p, IsProvider(p), p.sourceDir, PagesApart(p)
  PROVE  LET q == Regenerated(p) IN
         /\ q.kinds = p.kinds /\ q.layout = p.layout /\ q.sourceDir = p.sourceDir
         /\ \A k : KindPage(q, k) = KindPage(p, k)
         /\ Disk(q) = Generated(p)
  <1> DEFINE q == Regenerated(p)
  <1>1. /\ q.kinds = p.kinds /\ q.layout = p.layout /\ q.sourceDir = p.sourceDir
        /\ q.fs = Generated(p) /\ q.dir = <<>>
    BY DEF Regenerated, IsProvider
  <1> HIDE DEF q
  <1>2. \A k : KindPage(q, k) = KindPage(p, k)
    BY <1>1 DEF KindPage, PagePath
  <1>3. Sub(Generated(p), <<>>) = Generated(p)
    BY GeneratedIs, SubOfAll
  <1>4. Disk(q) = Generated(p)
    BY <1>1, <1>3, Zenon DEF Disk
  <1> QED BY <1>1, <1>2, <1>4 DEF q

(* What a reader makes of a page: the title, where it is filed and what it  *)
(* is about.                                                                *)
TitleOf(read, r) == IF read.title = "" THEN r ELSE read.title

SameFiling(read, again, r) ==
  /\ ~again.error
  /\ TitleOf(again, r) = TitleOf(read, r)
  /\ KeyOr(again.keys, "subcategory", "Resources") = KeyOr(read.keys, "subcategory", "Resources")
  /\ \A default : KeyOr(again.keys, "description", default) = KeyOr(read.keys, "description", default)

(* What a reader is shown. *)
LEMMA ShownIs ==
  ASSUME NEW page, NEW default
  PROVE  /\ Shown(page, default).exists = page.exists /\ Shown(page, default).error = page.read.error
         /\ Shown(page, default).title = TitleOf(page.read, default)
  <1> DEFINE title == IF page.read.title = "" THEN default ELSE page.read.title
  <1>1. Shown(page, default) = [exists |-> page.exists, error |-> page.read.error, body |-> page.read.body, title |-> title]
    BY Zenon DEF Shown
  <1>2. title = TitleOf(page.read, default)
    BY Zenon DEF TitleOf
  <1> HIDE DEF title
  <1> QED BY <1>1, <1>2

(* The page of a kind is filed as it was, whether it was there or not.      *)
LEMMA FiledTheSame ==
  ASSUME NEW files, HoldPages(files), NEW r \in Word, NEW path, ~PageAt(files, path).read.error
  PROVE  SameFiling(PageAt(files, path).read, ReadPage(PageContent(files, r, path)), r)
  <1>1. CASE path \in DOMAIN files
    <2> DEFINE b == files[path]
    <2>1. b \in Page /\ PageAt(files, path).read = ReadPage(b) /\ PageContent(files, r, path) = Inject(b, r)
      BY <1>1 DEF HoldPages, PageAt, PageContent
    <2>2. ~ReadPage(b).error
      BY <2>1
    <2> HIDE DEF b
    <2>3. /\ ~ReadPage(Inject(b, r)).error /\ ReadPage(Inject(b, r)).keys = ReadPage(b).keys
          /\ ReadPage(Inject(b, r)).title = ReadPage(b).title
      BY <2>1, <2>2, RefreshingReadsTheSame DEF ReadsTheSame
    <2>4. SameFiling(ReadPage(b), ReadPage(Inject(b, r)), r)
      <3>1. TitleOf(ReadPage(Inject(b, r)), r) = TitleOf(ReadPage(b), r)
        BY <2>3, Zenon DEF TitleOf
      <3> QED BY <2>3, <3>1 DEF SameFiling
    <2> QED BY <2>1, <2>4
  <1>2. CASE path \notin DOMAIN files
    <2> DEFINE b == Scaffold(r)
               keys == [key \in {"subcategory"} |-> "Resources"]
    <2>1. b \in Page /\ PageAt(files, path).read = ReadPage(<<>>) /\ PageContent(files, r, path) = Inject(b, r)
      BY <1>2, ScaffoldIs DEF PageAt, PageContent
    <2>2. ~ReadPage(b).error /\ ReadPage(b).title = r /\ ReadPage(b).keys = keys
      BY ScaffoldReads
    <2> HIDE DEF b, keys
    <2>3. /\ ~ReadPage(Inject(b, r)).error /\ ReadPage(Inject(b, r)).keys = ReadPage(b).keys
          /\ ReadPage(Inject(b, r)).title = ReadPage(b).title
      BY <2>1, <2>2, RefreshingReadsTheSame DEF ReadsTheSame
    <2>4. KeyOr(keys, "subcategory", "Resources") = "Resources"
      BY DEF KeyOr, keys
    <2>5. \A default : KeyOr(keys, "description", default) = default
      BY DEF KeyOr, keys
    <2>6. KeyOr(NoKeys, "subcategory", "Resources") = "Resources"
      BY NoKeyRead
    <2>7. \A default : KeyOr(NoKeys, "description", default) = default
      BY NoKeyRead
    <2> DEFINE again == ReadPage(Inject(b, r))
               read == ReadPage(<<>>)
    <2>8. ~again.error /\ again.title = r /\ again.keys = keys /\ read.title = "" /\ read.keys = NoKeys
      <3>1. ~again.error /\ again.title = r /\ again.keys = keys
        BY <2>2, <2>3, Zenon
      <3>2. read.title = "" /\ read.keys = NoKeys
        BY NothingReads, Zenon
      <3> QED BY <3>1, <3>2, Zenon
    <2> HIDE DEF again, read
    <2>9. SameFiling(read, again, r)
      <3>1. TitleOf(again, r) = r /\ TitleOf(read, r) = r
        BY <2>8, Zenon DEF TitleOf
      <3>2. KeyOr(again.keys, "subcategory", "Resources") = KeyOr(read.keys, "subcategory", "Resources")
        BY <2>4, <2>6, <2>8, Zenon
      <3>3. \A default : KeyOr(again.keys, "description", default) = KeyOr(read.keys, "description", default)
        BY <2>5, <2>7, <2>8, Zenon
      <3> QED BY <2>8, <3>1, <3>2, <3>3, Zenon DEF SameFiling
    <2> QED BY <2>1, <2>9 DEF again, read
  <1> QED BY <1>1, <1>2

(* The files of a tree that are guides. *)
GuideFiles(tree) == {path \in DOMAIN tree : Len(path) = 2 /\ path[1] = Dir("guides") /\ path[2].md}

(* What is read of the directory of the guides are its files. *)
LEMMA GuidesRead ==
  ASSUME NEW tree, DOMAIN tree \subseteq Seq(Names)
  PROVE  {f \in ReadDir(tree, <<Dir("guides")>>) : ~f.dir /\ f.name.md} =
         {[name |-> path[2], dir |-> FALSE] : path \in GuideFiles(tree)}
  <1> DEFINE dir == <<Dir("guides")>>
             entry(path) == [name |-> path[Len(dir) + 1], dir |-> Len(path) > Len(dir) + 1]
             file(path) == [name |-> path[2], dir |-> FALSE]
             Some == Names \cup {Dir("guides")}
  <1>1. dir \in Seq(Some) /\ Len(dir) = 1 /\ dir[1] = Dir("guides") /\ Seq(Names) \subseteq Seq(Some)
    OBVIOUS
  <1>2. ReadDir(tree, dir) = {entry(path) : path \in Below(tree, dir)}
    BY DEF ReadDir
  <1> HIDE DEF Some
  <1>3. ASSUME NEW path \in DOMAIN tree
        PROVE  path \in Below(tree, dir) <=> Len(path) > 1 /\ path[1] = Dir("guides")
    <2>1. path \in Seq(Some)
      BY <1>1
    <2>2. Lists!IsStrictPrefix(dir, path) <=> Len(path) > Len(dir) /\ \A i \in 1..Len(dir) : path[i] = dir[i]
      <3> HIDE DEF dir
      <3> QED BY <1>1, <2>1, BelowIs, Zenon
    <2>3. 1..Len(dir) = {1}
      BY <1>1
    <2> HIDE DEF dir
    <2> QED BY <1>1, <2>2, <2>3 DEF Below
  <1>4. \A path \in DOMAIN tree : entry(path).name = path[2] /\ (entry(path).dir <=> Len(path) > 2)
    <2>1. Len(dir) + 1 = 2
      BY <1>1
    <2> HIDE DEF dir
    <2>2. \A path \in DOMAIN tree : entry(path).name = path[Len(dir) + 1] /\ (entry(path).dir <=> Len(path) > Len(dir) + 1)
      OBVIOUS
    <2> HIDE DEF entry
    <2> QED BY <2>1, <2>2, Zenon
  <1>5. ASSUME NEW path \in DOMAIN tree, Len(path) = 2 PROVE entry(path) = file(path)
    <2>1. (Len(path) > Len(dir) + 1) = FALSE
      BY <1>1, <1>5
    <2>2. path[Len(dir) + 1] = path[2]
      BY <1>1
    <2> HIDE DEF dir
    <2> QED BY <2>1, <2>2, Zenon
  <1>6. Below(tree, dir) \subseteq DOMAIN tree
    BY DEF Below
  <1>7. \A path \in DOMAIN tree : Len(path) \in Nat
    OBVIOUS
  <1>8. \A path : file(path).name = path[2] /\ ~file(path).dir
    OBVIOUS
  <1> HIDE DEF dir, entry, file
  <1>9. ASSUME NEW f \in ReadDir(tree, dir), ~f.dir, f.name.md
        PROVE  \E path \in GuideFiles(tree) : f = file(path)
    <2>1. PICK path \in Below(tree, dir) : f = entry(path)
      BY <1>2
    <2>2. path \in DOMAIN tree /\ Len(path) > 1 /\ path[1] = Dir("guides")
      BY <1>3, <1>6
    <2>3. f.name = path[2] /\ ~(Len(path) > 2)
      BY <1>4, <1>9, <2>1, <2>2
    <2>4. Len(path) = 2
      <3> DEFINE m == Len(path)
      <3>1. m \in Nat /\ m > 1
        BY <1>7, <2>2
      <3>2. ~(m > 2)
        BY <2>3
      <3> HIDE DEF m
      <3>3. m = 2
        BY <3>1, <3>2
      <3> QED BY <3>3 DEF m
    <2>5. path[2].md
      BY <1>9, <2>3
    <2>6. path \in GuideFiles(tree)
      BY <2>2, <2>4, <2>5 DEF GuideFiles
    <2>7. f = file(path)
      BY <1>5, <2>1, <2>2, <2>4
    <2> QED BY <2>6, <2>7
  <1>10. ASSUME NEW path \in GuideFiles(tree)
         PROVE  file(path) \in ReadDir(tree, dir) /\ ~file(path).dir /\ file(path).name.md
    <2>1. path \in DOMAIN tree /\ Len(path) = 2 /\ path[1] = Dir("guides") /\ path[2].md
      BY DEF GuideFiles
    <2>2. path \in Below(tree, dir)
      BY <1>3, <2>1
    <2>3. entry(path) = file(path)
      BY <1>5, <2>1
    <2> QED BY <1>2, <1>8, <2>1, <2>2, <2>3
  <1>11. {f \in ReadDir(tree, dir) : ~f.dir /\ f.name.md} = {file(path) : path \in GuideFiles(tree)}
    BY <1>9, <1>10
  <1> QED BY <1>11 DEF dir, file

(* A kind is found again on the site. *)
LEMMA KindFoundAgain ==
  ASSUME NEW p, IsProvider(p), ~BuildProvider(p).error, p.sourceDir, PagesApart(p), NEW k \in DOMAIN p.kinds
  PROVE  LET old == BuildProvider(p).built
             new == BuildProvider(Regenerated(p)).built
         IN  /\ ~new.resources[k].page.error
             /\ new.resources[k].page.exists
             /\ new.resources[k].page.title = old.resources[k].page.title
             /\ new.resources[k].subcategory = old.resources[k].subcategory
             /\ new.resources[k].description = old.resources[k].description
             /\ ~Stale(Generated(p), k, PagesOf(new)[k])
  <1> DEFINE q == Regenerated(p)
             path == KindPage(p, k)
             was == PageAt(Disk(p), path)
             is == PageAt(Generated(p), path)
             old == BuildProvider(p).built.resources[k]
             new == BuildProvider(q).built.resources[k]
  <1>1. /\ old.subcategory = KeyOr(was.read.keys, "subcategory", "Resources")
        /\ old.description = KeyOr(was.read.keys, "description", p.kinds[k].description)
        /\ old.page = Shown(was, k) /\ k \in DOMAIN BuildProvider(p).built.resources
    BY BuiltOfKind
  <1>2. q.kinds = p.kinds /\ Disk(q) = Generated(p) /\ KindPage(q, k) = path
    BY RegeneratedIs
  <1>3. /\ new.subcategory = KeyOr(is.read.keys, "subcategory", "Resources")
        /\ new.description = KeyOr(is.read.keys, "description", p.kinds[k].description)
        /\ new.page = Shown(is, k) /\ PagesOf(BuildProvider(q).built)[k] = path
    <2> HIDE DEF q
    <2>1. k \in DOMAIN q.kinds
      BY <1>2
    <2> QED BY <1>2, <2>1, BuiltOfKind
  <1>4. HoldPages(Disk(p)) /\ k \in Word
    BY DiskIs DEF IsProvider
  <1>5. path \in DOMAIN Generated(p) /\ Generated(p)[path] = PageContent(Disk(p), k, path)
    BY GeneratedIs DEF WrittenOf
  <1>6. ~was.read.error
    <2>1. ~BuildProvider(p).built.resources[k].page.error
      BY <1>1, BuiltOf
    <2>2. old.page.error = was.read.error
      BY <1>1, ShownIs
    <2> QED BY <2>1, <2>2
  <1> HIDE DEF path, q
  <1>7. is.exists /\ is.read = ReadPage(PageContent(Disk(p), k, path))
    BY <1>5 DEF PageAt
  <1>8. SameFiling(was.read, ReadPage(PageContent(Disk(p), k, path)), k)
    BY <1>4, <1>6, FiledTheSame
  <1>9. ~Stale(Generated(p), k, path)
    BY <1>4, <1>5, WrittenInDate
  <1> HIDE DEF was, is, old, new
  <1>10. SameFiling(was.read, is.read, k)
    BY <1>7, <1>8
  <1>11. new.page.exists /\ ~new.page.error
    BY <1>3, <1>7, <1>10, ShownIs DEF SameFiling
  <1>12. new.page.title = old.page.title
    BY <1>1, <1>3, <1>10, ShownIs DEF SameFiling
  <1>13. new.subcategory = old.subcategory /\ new.description = old.description
    BY <1>1, <1>3, <1>10, Zenon DEF SameFiling
  <1> QED BY <1>3, <1>9, <1>11, <1>12, <1>13 DEF old, new, q

(* What is said when something is so. *)
LEMMA IfSays ==
  ASSUME NEW condition, NEW what
  PROVE  If(condition, what) \subseteq {what} /\ (~condition => If(condition, what) = {})
  BY DEF If

(* Of three remarks, the first is left when the others are taken away.      *)
LEMMA FirstIsLeft ==
  ASSUME NEW a, NEW b, NEW c, a # b, a # c,
         NEW first, NEW second, NEW third, first \subseteq {a}, second \subseteq {b}, third \subseteq {c}
  PROVE  ((first \cup second) \cup third) \ {b, c} = (first \cup {}) \cup {}
  OBVIOUS

(* What generating a page does not mend. *)
Unmended(remarks) == remarks \ {"no page", "out of date"}

(* What is reported of a kind was its description, if anything.             *)
LEMMA NothingElseReported ==
  ASSUME NEW old, NEW new, NEW k, NEW before, NEW after,
         new.resources[k].description = old.resources[k].description,
         new.resources[k].page.exists, ~Stale(after, k, PagesOf(new)[k])
  PROVE  CheckResource(new, k, after) = Unmended(CheckResource(old, k, before))
  <1> DEFINE none == If(old.resources[k].description = "", "no description")
             missing == If(~old.resources[k].page.exists, "no page")
             late == If(old.sourceDir /\ Stale(before, k, PagesOf(old)[k]), "out of date")
  <1>1. CheckResource(old, k, before) = (none \cup missing) \cup late
    BY Zenon DEF CheckResource
  <1>2. none \subseteq {"no description"} /\ missing \subseteq {"no page"} /\ late \subseteq {"out of date"}
    BY IfSays, Zenon
  <1>3. CheckResource(new, k, after) = (none \cup {}) \cup {}
    <2>1. If(~new.resources[k].page.exists, "no page") = {}
      BY IfSays, Zenon
    <2>2. If(new.sourceDir /\ Stale(after, k, PagesOf(new)[k]), "out of date") = {}
      BY IfSays, Zenon
    <2>3. If(new.resources[k].description = "", "no description") = none
      BY Zenon
    <2> QED BY <2>1, <2>2, <2>3, Zenon DEF CheckResource
  <1> HIDE DEF none, missing, late
  <1>4. "no description" # "no page" /\ "no description" # "out of date"
    BY Zenon
  <1>5. ((none \cup missing) \cup late) \ {"no page", "out of date"} = (none \cup {}) \cup {}
    BY <1>2, <1>4, FirstIsLeft, Zenon
  <1> QED BY <1>1, <1>3, <1>5, Zenon DEF Unmended

(* The overview and the guides are no kind's pages. *)
LEMMA OthersKept ==
  ASSUME NEW p, IsProvider(p), p.sourceDir, PagesApart(p), NEW f,
         f = <<Md("index")>> \/ (Len(f) = 2 /\ f[1] = Dir("guides"))
  PROVE  /\ f \in DOMAIN Generated(p) <=> f \in DOMAIN Disk(p)
         /\ PageAt(Generated(p), f) = PageAt(Disk(p), f)
  <1>1. \A k \in DOMAIN p.kinds : KindPage(p, k) # f
    BY DEF PagesApart, KindPage
  <1>2. WrittenOf(p, Generated(p))
    BY GeneratedIs
  <1>3. f \in DOMAIN Generated(p) <=> f \in DOMAIN Disk(p)
    BY <1>1, <1>2 DEF WrittenOf
  <1>4. f \in DOMAIN Disk(p) => Generated(p)[f] = Disk(p)[f]
    BY <1>1, <1>2 DEF WrittenOf
  <1>5. (IF f \in DOMAIN Generated(p) THEN Generated(p)[f] ELSE <<>>) = (IF f \in DOMAIN Disk(p) THEN Disk(p)[f] ELSE <<>>)
    BY <1>3, <1>4, Zenon
  <1>6. (f \in DOMAIN Generated(p)) = (f \in DOMAIN Disk(p))
    BY <1>3
  <1> QED BY <1>3, <1>5, <1>6, Zenon DEF PageAt

(* The guides are as they were. *)
LEMMA GuidesKept ==
  ASSUME NEW p, IsProvider(p), p.sourceDir, PagesApart(p)
  PROVE  ReadGuides(Generated(p)) = ReadGuides(Disk(p))
  <1> DEFINE guide(tree, e) ==
               [slug |-> e.name.stem, page |-> Shown(PageAt(tree, <<Dir("guides"), e.name>>), e.name.stem)]
             entries(tree) == {f \in ReadDir(tree, <<Dir("guides")>>) : ~f.dir /\ f.name.md}
  <1>1. \A tree : ReadGuides(tree) = {guide(tree, e) : e \in entries(tree)}
    BY DEF ReadGuides
  <1>2. DOMAIN Generated(p) \subseteq Seq(Names) /\ DOMAIN Disk(p) \subseteq Seq(Names)
    BY GeneratedIs, DiskIs
  <1>3. GuideFiles(Generated(p)) = GuideFiles(Disk(p))
    BY OthersKept DEF GuideFiles
  <1>4. entries(Generated(p)) = entries(Disk(p))
    <2>1. \A tree : DOMAIN tree \subseteq Seq(Names) =>
            entries(tree) = {[name |-> path[2], dir |-> FALSE] : path \in GuideFiles(tree)}
      BY GuidesRead
    <2> HIDE DEF entries
    <2> QED BY <1>2, <1>3, <2>1, Zenon
  <1>5. \A e : guide(Generated(p), e) = guide(Disk(p), e)
    <2> TAKE e
    <2> DEFINE f == <<Dir("guides"), e.name>>
    <2>1. Len(f) = 2 /\ f[1] = Dir("guides")
      OBVIOUS
    <2> HIDE DEF f
    <2>2. PageAt(Generated(p), f) = PageAt(Disk(p), f)
      BY <2>1, OthersKept
    <2> QED BY <2>2, Zenon DEF f
  <1> HIDE DEF guide, entries
  <1> QED BY <1>1, <1>4, <1>5

(* Pages that were generated are found again. *)
LEMMA AreFoundAgain ==
  ASSUME NEW p, IsProvider(p)
  PROVE  FoundAgain(p)
  <1> SUFFICES ASSUME ~BuildProvider(p).error, p.sourceDir, PagesApart(p) PROVE FoundAgain(p)
    BY Zenon DEF FoundAgain
  <1> DEFINE q == Regenerated(p)
             old == BuildProvider(p).built
             new == BuildProvider(q).built
  <1>1. q.kinds = p.kinds /\ Disk(q) = Generated(p)
    BY RegeneratedIs
  <1>2. /\ old.overview = Shown(PageAt(Disk(p), <<Md("index")>>), "Overview") /\ old.guides = ReadGuides(Disk(p))
        /\ ~old.overview.error /\ \A g \in old.guides : ~g.page.error
        /\ DOMAIN old.resources = DOMAIN p.kinds
    BY BuiltOf
  <1> HIDE DEF q
  <1>3. /\ new.overview = Shown(PageAt(Disk(q), <<Md("index")>>), "Overview") /\ new.guides = ReadGuides(Disk(q))
        /\ BuildProvider(q).error <=>
              \/ new.overview.error
              \/ \E g \in new.guides : g.page.error
              \/ \E k \in DOMAIN new.resources : new.resources[k].page.error
        /\ DOMAIN new.resources = DOMAIN q.kinds
    BY BuiltOf
  <1>4. new.guides = old.guides
    BY <1>1, <1>2, <1>3, GuidesKept
  <1>5. new.overview = old.overview
    <2>1. PageAt(Generated(p), <<Md("index")>>) = PageAt(Disk(p), <<Md("index")>>)
      BY OthersKept
    <2> QED BY <1>1, <1>2, <1>3, <2>1
  <1>6. ASSUME NEW k \in DOMAIN p.kinds
        PROVE  /\ ~new.resources[k].page.error
               /\ new.resources[k].page.exists
               /\ new.resources[k].page.title = old.resources[k].page.title
               /\ new.resources[k].subcategory = old.resources[k].subcategory
               /\ new.resources[k].description = old.resources[k].description
               /\ ~Stale(Generated(p), k, PagesOf(new)[k])
    BY KindFoundAgain DEF q
  <1> HIDE DEF old, new
  <1>7. ~BuildProvider(q).error
    BY <1>1, <1>2, <1>3, <1>4, <1>5, <1>6
  <1>8. ASSUME NEW k \in DOMAIN p.kinds
        PROVE  Check(new, Generated(p)).resources[k] = Check(old, Disk(p)).resources[k] \ {"no page", "out of date"}
    <2>1. /\ Check(new, Generated(p)).resources[k] = CheckResource(new, k, Generated(p))
          /\ Check(old, Disk(p)).resources[k] = CheckResource(old, k, Disk(p))
      BY <1>1, <1>2, <1>3 DEF Check
    <2>2. CheckResource(new, k, Generated(p)) = Unmended(CheckResource(old, k, Disk(p)))
      <3>1. /\ new.resources[k].description = old.resources[k].description
            /\ new.resources[k].page.exists /\ ~Stale(Generated(p), k, PagesOf(new)[k])
        BY <1>6
      <3> QED BY <3>1, NothingElseReported
    <2> QED BY <2>1, <2>2, Zenon DEF Unmended
  <1> QED BY <1>4, <1>5, <1>6, <1>7, <1>8, Zenon DEF FoundAgain, FoundAsBefore, old, new, q

(* Every guide is listed, and no other file. *)
LEMMA AllGuidesListed ==
  ASSUME NEW p, IsProvider(p)
  PROVE  GuidesAreListed(p)
  <1> DEFINE guide(e) ==
               [slug |-> e.name.stem, page |-> Shown(PageAt(Disk(p), <<Dir("guides"), e.name>>), e.name.stem)]
             entries == {f \in ReadDir(Disk(p), <<Dir("guides")>>) : ~f.dir /\ f.name.md}
             file(path) == [name |-> path[2], dir |-> FALSE]
  <1>1. BuildProvider(p).built.guides = {guide(e) : e \in entries}
    <2>1. BuildProvider(p).built.guides = ReadGuides(Disk(p))
      BY BuiltOf
    <2> QED BY <2>1, Zenon DEF ReadGuides
  <1>2. entries = {file(path) : path \in GuideFiles(Disk(p))}
    <2>1. DOMAIN Disk(p) \subseteq Seq(Names)
      BY DiskIs
    <2> QED BY <2>1, GuidesRead
  <1>3. \A path : guide(file(path)).slug = path[2].stem
    OBVIOUS
  <1> HIDE DEF guide, entries, file
  <1>4. {g.slug : g \in BuildProvider(p).built.guides} = {path[2].stem : path \in GuideFiles(Disk(p))}
    BY <1>1, <1>2, <1>3
  <1> QED BY <1>4 DEF GuidesAreListed, GuideFiles

(* Whatever the pages of a provider, however many and wherever they are,    *)
(* every guide is on its site (docs.go:261), and a regenerated page is      *)
(* found where its kind's is looked for, filed as it was and in date        *)
(* (generate.go:100).                                                       *)
THEOREM SiteAlwaysComplete == Spec => []SiteIsComplete
  <1>1. ASSUME Taken PROVE SiteIsComplete
    <2> SUFFICES ASSUME input.topic = "site" PROVE GuidesAreListed(input.given) /\ FoundAgain(input.given)
      BY DEF SiteIsComplete
    <2>1. IsProvider(input.given)
      BY <1>1, InputAssumption DEF Taken
    <2> QED BY <2>1, AllGuidesListed, AreFoundAgain
  <1> QED BY <1>1, OnlyLegal, PTL
=============================================================================
