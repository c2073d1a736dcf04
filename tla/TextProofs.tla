----------------------------- MODULE TextProofs -----------------------------
(***************************************************************************)
(* What is kept of a text that is read, written and read again, proved of  *)
(* documentation pages of any length, selectors of any text, the names of  *)
(* any kinds, and errors of any depth.                                     *)
(***************************************************************************)
EXTENDS Pages, Selector, KindNames, Wire, SequenceTheorems, TLAPS
LOCAL INSTANCE FiniteSetsExt

(* A sequence cut in two. *)
LEMMA CutInTwo ==
  ASSUME NEW S, NEW s \in Seq(S), NEW k \in 0..Len(s)
  PROVE  /\ SubSeq(s, 1, k) \in Seq(S) /\ Len(SubSeq(s, 1, k)) = k
         /\ SubSeq(s, k + 1, Len(s)) \in Seq(S) /\ Len(SubSeq(s, k + 1, Len(s))) = Len(s) - k
         /\ \A i \in 1..k : SubSeq(s, 1, k)[i] = s[i]
         /\ \A i \in 1..(Len(s) - k) : SubSeq(s, k + 1, Len(s))[i] = s[k + i]
         /\ s = SubSeq(s, 1, k) \o SubSeq(s, k + 1, Len(s))
  <1>1. \A i \in 1..Len(s) : s[i] \in S
    BY ElementOfSeq
  <1>2. Len(s) \in Nat /\ k \in Int /\ 1 \in 1..(Len(s) + 1)
    OBVIOUS
  <1>3. /\ SubSeq(s, 1, k) \in Seq(S) /\ Len(SubSeq(s, 1, k)) = k
        /\ \A i \in 1..k : SubSeq(s, 1, k)[i] = s[i]
    BY <1>1, <1>2, SubSeqProperties
  <1>4. /\ SubSeq(s, k + 1, Len(s)) \in Seq(S) /\ Len(SubSeq(s, k + 1, Len(s))) = Len(s) - k
        /\ \A i \in 1..(Len(s) - k) : SubSeq(s, k + 1, Len(s))[i] = s[k + i]
    BY <1>1, <1>2, SubSeqProperties
  <1>5. SubSeq(s, 1, k) \o SubSeq(s, k + 1, Len(s)) = SubSeq(s, 1, Len(s))
    <2>1. 1 \in 1..(Len(s) + 1) /\ k \in (1 - 1)..Len(s) /\ Len(s) \in k..Len(s)
      OBVIOUS
    <2> QED BY <2>1, ConcatAdjacentSubSeq
  <1> QED BY <1>3, <1>4, <1>5, SubSeqFull

(* A sequence put together, cut where it was.                               *)
LEMMA CutBack ==
  ASSUME NEW S, NEW s \in Seq(S), NEW t \in Seq(S)
  PROVE  /\ SubSeq(s \o t, 1, Len(s)) = s
         /\ SubSeq(s \o t, Len(s) + 1, Len(s \o t)) = t
  <1>1. s \o t \in Seq(S) /\ Len(s \o t) = Len(s) + Len(t) /\ Len(s) \in 0..Len(s \o t)
    BY ConcatProperties
  <1>2. /\ SubSeq(s \o t, 1, Len(s)) \in Seq(S) /\ Len(SubSeq(s \o t, 1, Len(s))) = Len(s)
        /\ \A i \in 1..Len(s) : SubSeq(s \o t, 1, Len(s))[i] = s[i]
    BY <1>1, CutInTwo, ConcatProperties
  <1>3. /\ SubSeq(s \o t, Len(s) + 1, Len(s \o t)) \in Seq(S)
        /\ Len(SubSeq(s \o t, Len(s) + 1, Len(s \o t))) = Len(t)
        /\ \A i \in 1..Len(t) : SubSeq(s \o t, Len(s) + 1, Len(s \o t))[i] = t[i]
    <2>1. \A i \in 1..Len(t) : (s \o t)[Len(s) + i] = t[i]
      BY ConcatProperties
    <2> QED BY <1>1, <2>1, CutInTwo
  <1> QED BY <1>2, <1>3, SeqEqual

(* A page is a sequence. *)
LEMMA PageIs ==
  ASSUME NEW b \in Page
  PROVE  b \in Seq(Piece) /\ Len(b) \in Nat /\ DOMAIN b = 1..Len(b)
  BY DEF Page

(* Two pages make one. *)
LEMMA Joined ==
  ASSUME NEW a \in Page, NEW b \in Page
  PROVE  a \o b \in Page /\ Len(a \o b) = Len(a) + Len(b)
  BY ConcatProperties DEF Page

(* The pieces of each are where they were. *)
LEMMA JoinedPieces ==
  ASSUME NEW a \in Page, NEW b \in Page
  PROVE  /\ \A i \in 1..Len(a) : (a \o b)[i] = a[i]
         /\ \A i \in 1..Len(b) : (a \o b)[Len(a) + i] = b[i]
  BY ConcatProperties DEF Page

(* Three pages make one however they are put together. *)
LEMMA JoinedAgain ==
  ASSUME NEW a \in Page, NEW b \in Page, NEW c \in Page
  PROVE  (a \o b) \o c = a \o (b \o c)
  BY ConcatAssociative DEF Page

(* Small pages. *)
LEMMA OneOrTwo ==
  ASSUME NEW p \in Piece, NEW q \in Piece
  PROVE  /\ <<p>> \in Page /\ Len(<<p>>) = 1 /\ <<p>>[1] = p
         /\ <<p, q>> \in Page /\ Len(<<p, q>>) = 2 /\ <<p, q>>[1] = p /\ <<p, q>>[2] = q
  BY DEF Page

(* One element and another. *)
LEMMA OneAndOne ==
  ASSUME NEW a, NEW b
  PROVE  <<a>> \o <<b>> = <<a, b>>
  <1> DEFINE S == {a, b}
  <1>1. <<a>> \in Seq(S) /\ <<b>> \in Seq(S) /\ Len(<<a>>) = 1 /\ Len(<<b>>) = 1 /\ <<a>>[1] = a /\ <<b>>[1] = b
    OBVIOUS
  <1>2. /\ <<a>> \o <<b>> \in Seq(S) /\ Len(<<a>> \o <<b>>) = 2
        /\ (<<a>> \o <<b>>)[1] = a /\ (<<a>> \o <<b>>)[2] = b
    BY <1>1, ConcatProperties
  <1>3. <<a, b>> \in Seq(S) /\ Len(<<a, b>>) = 2 /\ <<a, b>>[1] = a /\ <<a, b>>[2] = b
    OBVIOUS
  <1> HIDE DEF S
  <1>4. \A i \in 1..2 : i = 1 \/ i = 2
    OBVIOUS
  <1> QED BY <1>2, <1>3, <1>4, SeqEqual

(* Three pieces are one and two.                                            *)
LEMMA OneAndTwo ==
  ASSUME NEW o, NEW p, NEW q
  PROVE  <<o, p, q>> = <<o>> \o <<p, q>>
  OBVIOUS

-----------------------------------------------------------------------------
(* What SplitSegments and Inject are at a page. *)
SplitAt(split, b, r) ==
  IF Begins(b) = {} THEN Segments(b)
  ELSE LET k       == Min(Begins(b))
           section == b[k].of
       IN  Segments(SubSeq(b, 1, k - 1)) \o << [section |-> section] >>
             \o split[PastEnd(SubSeq(b, k + 1, Len(b)), section)]

InjectAt(inject, b, r) ==
  IF Begins(b) = {} THEN b
  ELSE LET k       == Min(Begins(b))
           section == b[k].of
           rest    == SubSeq(b, k + 1, Len(b))
       IN  SubSeq(b, 1, k - 1) \o Region(rest, section, r) \o inject[PastEnd(rest, section)]

Splitting == INSTANCE Induction WITH Def <- SplitAt
Injecting == INSTANCE Induction WITH Def <- InjectAt

Length == [b \in Page |-> Len(b)]

(* A page without sections. *)
Plain(b) == Begins(b) = {}

(* The least of some places. *)
LEMMA FirstPlace ==
  ASSUME NEW n \in Nat, NEW places \in SUBSET (1..n), places # {}
  PROVE  Min(places) \in places /\ \A k \in places : Min(places) <= k
  <1>1. \E m \in places : \A k \in places : m <= k
    BY Injecting!LeastNumber
  <1> QED BY <1>1 DEF Min

(* What of a page is past the end of a section is an end of it.             *)
LEMMA PastEndIs ==
  ASSUME NEW rest \in Page, NEW section
  PROVE  \E k \in 0..Len(rest) : PastEnd(rest, section) = SubSeq(rest, k + 1, Len(rest))
  <1> DEFINE ends == {k \in DOMAIN rest : rest[k] = End(section)}
  <1>0. DOMAIN rest = 1..Len(rest) /\ Len(rest) \in Nat /\ rest \in Seq(Piece)
    BY PageIs
  <1>1. CASE ends = {}
    <2>1. PastEnd(rest, section) = rest
      BY <1>1 DEF PastEnd
    <2>2. SubSeq(rest, 1, Len(rest)) = rest
      BY <1>0, SubSeqFull
    <2>3. 0 \in 0..Len(rest) /\ 0 + 1 = 1
      BY <1>0
    <2> QED BY <2>1, <2>2, <2>3
  <1>2. CASE ends # {}
    <2>1. ends \in SUBSET (1..Len(rest))
      BY <1>0
    <2>2. Min(ends) \in ends
      BY <1>0, <1>2, <2>1, FirstPlace
    <2>3. PastEnd(rest, section) = SubSeq(rest, Min(ends) + 1, Len(rest))
      BY <1>2 DEF PastEnd
    <2>4. Min(ends) \in 0..Len(rest)
      BY <1>0, <2>1, <2>2
    <2> QED BY <2>3, <2>4
  <1> QED BY <1>1, <1>2

(* What is past a section is no longer than the page it is on.              *)
LEMMA PastEndShortens ==
  ASSUME NEW rest \in Page, NEW section
  PROVE  PastEnd(rest, section) \in Page /\ Len(PastEnd(rest, section)) <= Len(rest)
  <1>1. PICK k \in 0..Len(rest) : PastEnd(rest, section) = SubSeq(rest, k + 1, Len(rest))
    BY PastEndIs
  <1>2. SubSeq(rest, k + 1, Len(rest)) \in Seq(Piece) /\ Len(SubSeq(rest, k + 1, Len(rest))) = Len(rest) - k
    BY <1>1, PageIs, CutInTwo
  <1>3. Len(rest) - k <= Len(rest)
    BY <1>1, PageIs
  <1> QED BY <1>1, <1>2, <1>3 DEF Page

(* Prose, the marker that opens a section, and a rest. *)
Opened(prose, section, rest) == prose \o (<<Begin(section)>> \o rest)

(* A page and another after it. *)
Join(a, b) == a \o b

(* A section's table and the marker that closes it, and a rest. *)
Rest(section, r) == <<Table(section, r), End(section)>>

NewRest(section, r, rest) == Rest(section, r) \o rest

(* Prose, the region of a section, and a rest. *)
Refreshed(prose, section, rest, r, others) == (prose \o Region(rest, section, r)) \o others

(* The segments of prose and of a section, and others. *)
Told(prose, section, others) == (Segments(prose) \o << [section |-> section] >>) \o others

ProseOf(b)   == SubSeq(b, 1, Min(Begins(b)) - 1)
SectionOf(b) == b[Min(Begins(b))].of
RestOf(b)    == SubSeq(b, Min(Begins(b)) + 1, Len(b))

(* A page with a section is prose, the marker that opens it, and the rest.  *)
LEMMA AtFirstSection ==
  ASSUME NEW b \in Page, ~Plain(b)
  PROVE  LET k == Min(Begins(b))
             section == b[k].of
             prose == SubSeq(b, 1, k - 1)
             rest == SubSeq(b, k + 1, Len(b))
         IN  /\ k \in 1..Len(b) /\ section \in Word
             /\ prose \in Page /\ Plain(prose)
             /\ rest \in Page /\ Len(rest) < Len(b)
             /\ b = Opened(prose, section, rest)
  <1> DEFINE k == Min(Begins(b))
             section == b[k].of
             prose == SubSeq(b, 1, k - 1)
             rest == SubSeq(b, k + 1, Len(b))
  <1>1. /\ k \in 1..Len(b) /\ b[k].piece = "begin" /\ Len(b) \in Nat
        /\ \A l \in 1..Len(b) : b[l].piece = "begin" => k <= l
    <2>1. DOMAIN b = 1..Len(b) /\ Len(b) \in Nat
      BY DEF Page
    <2>2. Begins(b) \in SUBSET (1..Len(b))
      BY <2>1 DEF Begins, Plain
    <2>3. k \in Begins(b) /\ \A l \in Begins(b) : k <= l
      BY <2>1, <2>2, FirstPlace DEF Plain
    <2> QED BY <2>1, <2>3 DEF Begins, Plain
  <1>2. b[k] = Begin(section) /\ section \in Word /\ b[k] \in Piece
    <2>1. b[k] \in Piece
      BY <1>1, ElementOfSeq DEF Page
    <2> QED BY <1>1, <2>1 DEF Piece, Begin
  <1> HIDE DEF k
  <1>3. /\ prose \in Page /\ Len(prose) = k - 1 /\ \A i \in 1..(k - 1) : prose[i] = b[i]
        /\ b = prose \o SubSeq(b, k, Len(b))
    <2>1. k - 1 \in 0..Len(b) /\ (k - 1) + 1 = k /\ b \in Seq(Piece)
      BY <1>1 DEF Page
    <2>2. /\ prose \in Seq(Piece) /\ Len(prose) = k - 1 /\ \A i \in 1..(k - 1) : prose[i] = b[i]
          /\ b = prose \o SubSeq(b, (k - 1) + 1, Len(b))
      BY <2>1, CutInTwo, Zenon
    <2> QED BY <2>1, <2>2 DEF Page
  <1>4. rest \in Page /\ Len(rest) = Len(b) - k
    BY <1>1, CutInTwo DEF Page
  <1>5. SubSeq(b, k, Len(b)) = <<Begin(section)>> \o rest
    <2>1. Len(b) \in k..Len(b)
      BY <1>1
    <2>2. SubSeq(b, k, Len(b)) = <<b[k]>> \o SubSeq(b, k + 1, Len(b))
      BY <1>1, <2>1, SubSeqRecursiveFirst DEF Page
    <2> QED BY <1>2, <2>2
  <1>6. Plain(prose)
    <2>1. DOMAIN prose = 1..(k - 1) /\ DOMAIN b = 1..Len(b)
      BY <1>3 DEF Page
    <2>2. ASSUME NEW i \in DOMAIN prose PROVE prose[i].piece # "begin"
      BY <1>1, <1>3, <2>1
    <2> HIDE DEF prose
    <2> QED BY <2>2 DEF Begins, Plain
  <1>7. b = prose \o (<<Begin(section)>> \o rest) /\ Len(rest) < Len(b) /\ k \in 1..Len(b) /\ section \in Word
    <2> HIDE DEF prose, rest, section
    <2> QED BY <1>1, <1>2, <1>3, <1>4, <1>5
  <1> QED BY <1>3, <1>4, <1>6, <1>7 DEF k, Opened

(* Both definitions are recursive in what is left of a page. *)
LEMMA LeftIsSmaller ==
  ASSUME NEW b \in Page, ~Plain(b)
  PROVE  LET k == Min(Begins(b))
         IN  PastEnd(SubSeq(b, k + 1, Len(b)), b[k].of) \in {x \in Page : Length[x] < Length[b]}
  <1> DEFINE k == Min(Begins(b))
             rest == SubSeq(b, k + 1, Len(b))
             past == PastEnd(rest, b[k].of)
  <1>1. rest \in Page /\ Len(rest) < Len(b)
    BY AtFirstSection
  <1> HIDE DEF rest, k
  <1>2. past \in Page /\ Len(past) <= Len(rest)
    BY <1>1, PastEndShortens
  <1>3. Len(past) < Len(b)
    BY <1>1, <1>2 DEF Page
  <1> QED BY <1>2, <1>3 DEF rest, k, Length

(* Inject is the function that its recursive definition says.               *)
LEMMA InjectDefined ==
  ASSUME NEW r, NEW b \in Page
  PROVE  Inject(b, r) = InjectAt([x \in Page |-> Inject(x, r)], b, r)
  <1>1. Injecting!NeedsSmaller(Page, Length, r)
    <2> SUFFICES ASSUME NEW x \in Page, NEW g, NEW h,
                        \A y \in Injecting!Smaller(Page, Length, x) : g[y] = h[y]
                 PROVE  InjectAt(g, x, r) = InjectAt(h, x, r)
      BY DEF Injecting!NeedsSmaller
    <2> QED BY LeftIsSmaller DEF InjectAt, Injecting!Smaller, Plain
  <1>2. PICK f : f = [x \in Page |-> InjectAt(f, x, r)]
    <2>1. Length \in [Page -> Nat]
      BY DEF Length, Page
    <2> QED BY <1>1, <2>1, Injecting!Defined
  <1> DEFINE inject == CHOOSE g : g = [x \in Page |-> InjectAt(g, x, r)]
  <1>3. inject = [x \in Page |-> InjectAt(inject, x, r)]
    BY <1>2
  <1>4. \A x \in Page : Inject(x, r) = inject[x]
    BY DEF Inject, InjectAt, Plain
  <1>5. inject = [x \in Page |-> Inject(x, r)]
    <2> HIDE DEF inject
    <2> QED BY <1>3, <1>4
  <1>6. inject[b] = InjectAt(inject, b, r)
    <2> HIDE DEF inject
    <2> QED BY <1>3
  <1> QED BY <1>4, <1>5, <1>6

(* SplitSegments is the function that its recursive definition says.        *)
LEMMA SplitDefined ==
  ASSUME NEW b \in Page
  PROVE  SplitSegments(b) = SplitAt([x \in Page |-> SplitSegments(x)], b, 0)
  <1>1. Splitting!NeedsSmaller(Page, Length, 0)
    <2> SUFFICES ASSUME NEW x \in Page, NEW g, NEW h,
                        \A y \in Splitting!Smaller(Page, Length, x) : g[y] = h[y]
                 PROVE  SplitAt(g, x, 0) = SplitAt(h, x, 0)
      BY DEF Splitting!NeedsSmaller
    <2> QED BY LeftIsSmaller DEF SplitAt, Splitting!Smaller, Plain
  <1>2. PICK f : f = [x \in Page |-> SplitAt(f, x, 0)]
    <2>1. Length \in [Page -> Nat]
      BY DEF Length, Page
    <2> QED BY <1>1, <2>1, Splitting!Defined
  <1> DEFINE split == CHOOSE g : g = [x \in Page |-> SplitAt(g, x, 0)]
  <1>3. split = [x \in Page |-> SplitAt(split, x, 0)]
    BY <1>2
  <1>4. \A x \in Page : SplitSegments(x) = split[x]
    BY DEF SplitSegments, SplitAt, Plain
  <1>5. split = [x \in Page |-> SplitSegments(x)]
    <2> HIDE DEF split
    <2> QED BY <1>3, <1>4
  <1>6. split[b] = SplitAt(split, b, 0)
    <2> HIDE DEF split
    <2> QED BY <1>3
  <1> QED BY <1>4, <1>5, <1>6

-----------------------------------------------------------------------------
(* A page put together from prose, a marker and a rest is cut there again.  *)
LEMMA FirstSectionIs ==
  ASSUME NEW prose \in Page, Plain(prose), NEW section \in Word, NEW rest \in Page,
         NEW b, b = Opened(prose, section, rest)
  PROVE  /\ b \in Page /\ ~Plain(b)
         /\ SectionOf(b) = section /\ ProseOf(b) = prose /\ RestOf(b) = rest
  <1> DEFINE open == <<Begin(section)>>
  <1>1. open \in Page /\ Len(open) = 1 /\ open[1] = Begin(section)
    BY DEF Page, Piece, Begin
  <1>0. b = prose \o (open \o rest)
    BY DEF Opened
  <1> HIDE DEF open
  <1> DEFINE tail == open \o rest
  <1>2. tail \in Page /\ Len(tail) = 1 + Len(rest) /\ tail[1] = Begin(section)
    <2>1. open \o rest \in Page /\ Len(open \o rest) = Len(open) + Len(rest)
      BY <1>1, Joined
    <2>2. (open \o rest)[1] = open[1]
      <3>1. 1 \in 1..Len(open)
        BY <1>1
      <3> QED BY <1>1, <3>1, JoinedPieces
    <2> QED BY <1>1, <2>1, <2>2
  <1>3. Len(prose) \in Nat /\ Len(rest) \in Nat
    BY PageIs
  <1>3a. b = prose \o tail
    BY <1>0
  <1>3b. b = (prose \o open) \o rest
    <2>1. open \in Seq(Piece) /\ prose \in Seq(Piece) /\ rest \in Seq(Piece)
      BY <1>1, PageIs
    <2>2. (prose \o open) \o rest = prose \o (open \o rest)
      BY <2>1, ConcatAssociative
    <2> QED BY <1>0, <2>2
  <1> HIDE DEF tail
  <1>4. /\ b \in Page /\ Len(b) = Len(prose) + Len(tail)
        /\ \A i \in 1..Len(prose) : b[i] = prose[i]
        /\ \A i \in 1..Len(tail) : b[Len(prose) + i] = tail[i]
    <2>1. prose \o tail \in Page /\ Len(prose \o tail) = Len(prose) + Len(tail)
      BY <1>2, Joined
    <2>2. /\ \A i \in 1..Len(prose) : (prose \o tail)[i] = prose[i]
          /\ \A i \in 1..Len(tail) : (prose \o tail)[Len(prose) + i] = tail[i]
      BY <1>2, JoinedPieces
    <2> QED BY <1>3a, <2>1, <2>2
  <1> DEFINE here == Len(prose) + 1
  <1>5. here \in 1..Len(b)
    BY <1>2, <1>3, <1>4
  <1>6. b[here] = Begin(section)
    <2>1. 1 \in 1..Len(tail)
      BY <1>2, <1>3
    <2> QED BY <1>2, <1>4, <2>1
  <1>7. DOMAIN b = 1..Len(b) /\ DOMAIN prose = 1..Len(prose) /\ Len(b) \in Nat
    BY <1>4 DEF Page
  <1>8. \A i \in 1..Len(prose) : b[i].piece # "begin"
    <2>1. \A i \in 1..Len(prose) : prose[i].piece # "begin"
      BY <1>7 DEF Begins, Plain
    <2> QED BY <1>4, <2>1
  <1>9. Begins(b) \in SUBSET (1..Len(b)) /\ here \in Begins(b)
    BY <1>5, <1>6, <1>7 DEF Begins, Begin, Plain
  <1> DEFINE k == Min(Begins(b))
  <1>10. k \in Begins(b) /\ \A i \in Begins(b) : k <= i
    BY <1>7, <1>9, FirstPlace
  <1> HIDE DEF k
  <1>11. k = here
    <2>1. k \in 1..Len(b) /\ k <= here /\ k \notin 1..Len(prose)
      BY <1>8, <1>9, <1>10 DEF Begins, Plain
    <2> QED BY <1>3, <1>7, <2>1
  <1>12. SubSeq(b, 1, k - 1) = prose
    <2>1. k - 1 = Len(prose)
      BY <1>3, <1>11
    <2>2. SubSeq(b, 1, Len(prose)) = prose
      BY <1>2, <1>3a, CutBack DEF Page
    <2> QED BY <2>1, <2>2
  <1>13. SubSeq(b, k + 1, Len(b)) = rest
    <2>1. prose \o open \in Page /\ Len(prose \o open) = Len(prose) + Len(open)
      BY <1>1, Joined
    <2>2. prose \o open \in Page /\ Len(prose \o open) = Len(prose) + 1
      BY <1>1, <2>1
    <2>3. SubSeq(b, Len(prose \o open) + 1, Len(b)) = rest
      BY <1>3b, <2>2, CutBack DEF Page
    <2> QED BY <1>11, <2>2, <2>3
  <1>14. b[k] = Begin(section) /\ ~Plain(b) /\ b \in Page
    BY <1>4, <1>6, <1>9, <1>11 DEF Plain
  <1>15. SectionOf(b) = section
    BY <1>14 DEF SectionOf, Begin, k
  <1> QED BY <1>12, <1>13, <1>14, <1>15 DEF ProseOf, RestOf, k

(* A page without sections is left alone, and is one segment or none. *)
LEMMA NoSection ==
  ASSUME NEW r, NEW b \in Page, Plain(b)
  PROVE  Inject(b, r) = b /\ SplitSegments(b) = Segments(b)
  BY InjectDefined, SplitDefined DEF InjectAt, SplitAt, Plain

(* A section's table and end, and a rest, make a page.                      *)
LEMMA RestIs ==
  ASSUME NEW section \in Word, NEW r \in Word
  PROVE  /\ <<Begin(section)>> \in Page /\ Len(<<Begin(section)>>) = 1 /\ <<Begin(section)>>[1] = Begin(section)
         /\ Rest(section, r) \in Page /\ Len(Rest(section, r)) = 2
         /\ Rest(section, r)[1] # End(section) /\ Rest(section, r)[2] = End(section)
  <1>1. Table(section, r) \in Piece /\ End(section) \in Piece /\ Begin(section) \in Piece
    BY DEF Piece, Table, End, Begin
  <1>2. Table(section, r) # End(section)
    BY DEF Table, End
  <1> QED BY <1>1, <1>2, OneOrTwo DEF Rest

(* What is past the end of a section just written is what followed it.      *)
LEMMA PastWritten ==
  ASSUME NEW section \in Word, NEW r \in Word, NEW u \in Page
  PROVE  NewRest(section, r, u) \in Page /\ PastEnd(NewRest(section, r, u), section) = u
  <1> DEFINE t == Rest(section, r)
             all == NewRest(section, r, u)
             ends == {k \in DOMAIN all : all[k] = End(section)}
  <1>0. t \in Page /\ Len(t) = 2 /\ t[1] # End(section) /\ t[2] = End(section) /\ all = t \o u
    BY RestIs DEF NewRest
  <1> HIDE DEF all, t
  <1>1. t \o u \in Page /\ Len(t \o u) = Len(t) + Len(u)
    BY <1>0, Joined
  <1>2. all \in Page /\ Len(all) = 2 + Len(u) /\ Len(u) \in Nat
    BY <1>0, <1>1, PageIs
  <1>3. all[1] = t[1] /\ all[2] = t[2]
    <2>1. 1 \in 1..Len(t) /\ 2 \in 1..Len(t)
      BY <1>0
    <2> QED BY <1>0, <2>1, JoinedPieces
  <1>4. SubSeq(all, 3, Len(all)) = u
    <2>1. SubSeq(t \o u, Len(t) + 1, Len(t \o u)) = u
      BY <1>0, CutBack DEF Page
    <2> QED BY <1>0, <2>1
  <1>5. DOMAIN all = 1..Len(all)
    BY <1>2, PageIs
  <1>6. ends \in SUBSET (1..Len(all))
    BY <1>5
  <1>7. 2 \in ends
    <2>1. 2 \in 1..Len(all)
      BY <1>2
    <2> QED BY <1>0, <1>3, <1>5, <2>1
  <1>8. 1 \notin ends
    BY <1>0, <1>3
  <1>9. PastEnd(all, section) = SubSeq(all, Min(ends) + 1, Len(all))
    BY <1>7 DEF PastEnd
  <1> HIDE DEF ends
  <1>10. Len(all) \in Nat
    BY <1>2
  <1>11. Min(ends) \in ends /\ Min(ends) <= 2
    BY <1>6, <1>7, <1>10, FirstPlace
  <1>12. Min(ends) = 2
    <2> DEFINE m == Min(ends)
    <2>1. m \in 1..Len(all) /\ m # 1 /\ m <= 2
      BY <1>6, <1>8, <1>11
    <2> HIDE DEF m
    <2>2. m = 2
      BY <1>10, <2>1
    <2> QED BY <2>2 DEF m
  <1>13. PastEnd(all, section) = u
    <2>1. 2 + 1 = 3
      OBVIOUS
    <2> QED BY <1>4, <1>9, <1>12, <2>1
  <1> QED BY <1>2, <1>13 DEF all

(* A section's region is the marker that opens it, its table and its end.   *)
LEMMA Rewritten ==
  ASSUME NEW section \in Word, NEW r \in Word, NEW prose \in Page, NEW rest, NEW u \in Page
  PROVE  /\ Refreshed(prose, section, rest, r, u) = Opened(prose, section, NewRest(section, r, u))
         /\ Opened(prose, section, NewRest(section, r, u)) \in Page
  <1> DEFINE open == <<Begin(section)>>
             t == Rest(section, r)
             region == Region(rest, section, r)
  <1>1. open \in Page /\ t \in Page
    BY RestIs
  <1>2. region = open \o t
    BY OneAndTwo DEF Region, Rest
  <1>3. Opened(prose, section, NewRest(section, r, u)) = prose \o (open \o (t \o u))
    BY DEF Opened, NewRest
  <1> HIDE DEF open, t, region
  <1>4. open \o t \in Page
    BY <1>1, Joined
  <1>5. prose \o (open \o t) \in Page
    BY <1>4, Joined
  <1>6. (prose \o (open \o t)) \o u \in Page
    BY <1>5, Joined
  <1>7. (open \o t) \o u = open \o (t \o u)
    BY <1>1, JoinedAgain
  <1>8. (prose \o (open \o t)) \o u = prose \o ((open \o t) \o u)
    BY <1>4, JoinedAgain
  <1>9. (prose \o region) \o u = Opened(prose, section, NewRest(section, r, u))
    BY <1>2, <1>3, <1>7, <1>8
  <1>10. Opened(prose, section, NewRest(section, r, u)) \in Page
    BY <1>3, <1>6, <1>7, <1>8
  <1> QED BY <1>9, <1>10 DEF region, Refreshed

-----------------------------------------------------------------------------
(* A page with a section, cut there. *)
LEMMA ASection ==
  ASSUME NEW b \in Page, ~Plain(b)
  PROVE  \E prose \in Page, section \in Word, rest \in Page :
           Plain(prose) /\ Len(rest) < Len(b) /\ b = Opened(prose, section, rest)
  <1>1. /\ SectionOf(b) \in Word
        /\ ProseOf(b) \in Page /\ Plain(ProseOf(b))
        /\ RestOf(b) \in Page /\ Len(RestOf(b)) < Len(b)
        /\ b = Opened(ProseOf(b), SectionOf(b), RestOf(b))
    BY AtFirstSection DEF ProseOf, SectionOf, RestOf
  <1> QED BY <1>1

(* Induction on pages: a claim about a page may be shown from the same      *)
(* claim about what is past its first section.                              *)
LEMMA PageInduction ==
  ASSUME NEW S,
         \A b \in Page : Plain(b) => b \in S,
         \A prose \in Page, section \in Word, rest \in Page :
           Plain(prose) /\ PastEnd(rest, section) \in S => Opened(prose, section, rest) \in S
  PROVE  Page \subseteq S
  <1>1. Length \in [Page -> Nat]
    BY DEF Length, Page
  <1>2. ASSUME NEW b \in Page, Injecting!Smaller(Page, Length, b) \subseteq S PROVE b \in S
    <2>1. CASE Plain(b)
      BY <2>1
    <2>2. CASE ~Plain(b)
      <3>1. PICK prose \in Page, section \in Word, rest \in Page :
              Plain(prose) /\ Len(rest) < Len(b) /\ b = Opened(prose, section, rest)
        BY <2>2, ASection
      <3>2. PastEnd(rest, section) \in Page /\ Len(PastEnd(rest, section)) < Len(b)
        <4>1. /\ PastEnd(rest, section) \in Page /\ Len(PastEnd(rest, section)) <= Len(rest)
              /\ Len(rest) < Len(b)
          BY <3>1, PastEndShortens
        <4>2. Len(PastEnd(rest, section)) \in Nat /\ Len(rest) \in Nat /\ Len(b) \in Nat
          BY <4>1, PageIs
        <4> DEFINE past == Len(PastEnd(rest, section))
        <4> HIDE DEF past
        <4>3. past \in Nat /\ past <= Len(rest)
          BY <4>1, <4>2 DEF past
        <4>4. past < Len(b)
          BY <4>1, <4>2, <4>3
        <4> QED BY <4>1, <4>4 DEF past
      <3>3. PastEnd(rest, section) \in S
        BY <1>2, <3>2 DEF Injecting!Smaller, Length
      <3> QED BY <3>1, <3>3
    <2> QED BY <2>1, <2>2
  <1> QED BY <1>1, <1>2, Injecting!ByRank

-----------------------------------------------------------------------------
(* What is done with a page is done with its first section and with what is *)
(* past it.                                                                 *)
LEMMA FirstSection ==
  ASSUME NEW r, NEW prose \in Page, Plain(prose), NEW section \in Word, NEW rest \in Page
  PROVE  /\ Opened(prose, section, rest) \in Page /\ PastEnd(rest, section) \in Page
         /\ Inject(Opened(prose, section, rest), r) =
              Refreshed(prose, section, rest, r, Inject(PastEnd(rest, section), r))
         /\ SplitSegments(Opened(prose, section, rest)) = Told(prose, section, SplitSegments(PastEnd(rest, section)))
  <1> DEFINE b == Opened(prose, section, rest)
             past == PastEnd(rest, section)
  <1>1. past \in Page
    BY PastEndShortens
  <1>2. /\ b \in Page /\ ~Plain(b)
        /\ SectionOf(b) = section /\ ProseOf(b) = prose /\ RestOf(b) = rest
    BY FirstSectionIs
  <1> HIDE DEF b
  <1>3. Inject(b, r) = Refreshed(prose, section, rest, r, Inject(past, r))
    BY <1>1, <1>2, InjectDefined DEF InjectAt, SectionOf, ProseOf, RestOf, Refreshed, Plain
  <1>4. SplitSegments(b) = Told(prose, section, SplitSegments(past))
    BY <1>1, <1>2, SplitDefined DEF SplitAt, SectionOf, ProseOf, RestOf, Told, Plain
  <1> QED BY <1>1, <1>2, <1>3, <1>4 DEF b

(* A refreshed page is a page. *)
LEMMA InjectType ==
  ASSUME NEW r \in Word
  PROVE  \A b \in Page : Inject(b, r) \in Page
  <1> DEFINE S == {b \in Page : Inject(b, r) \in Page}
  <1>1. ASSUME NEW b \in Page, Plain(b) PROVE b \in S
    BY <1>1, NoSection
  <1>2. ASSUME NEW prose \in Page, NEW section \in Word, NEW rest \in Page,
               Plain(prose), PastEnd(rest, section) \in S
        PROVE  Opened(prose, section, rest) \in S
    <2> DEFINE b == Opened(prose, section, rest)
               past == PastEnd(rest, section)
    <2>1. b \in Page /\ Inject(b, r) = Refreshed(prose, section, rest, r, Inject(past, r))
      BY <1>2, FirstSection
    <2>2. Inject(past, r) \in Page
      BY <1>2
    <2> HIDE DEF b, past
    <2>3. /\ Refreshed(prose, section, rest, r, Inject(past, r))
               = Opened(prose, section, NewRest(section, r, Inject(past, r)))
          /\ Opened(prose, section, NewRest(section, r, Inject(past, r))) \in Page
      BY <2>2, Rewritten
    <2>4. Inject(b, r) \in Page
      BY <2>1, <2>3
    <2> QED BY <2>1, <2>4 DEF b
  <1> HIDE DEF S
  <1>3. Page \subseteq S
    BY <1>1, <1>2, PageInduction
  <1> QED BY <1>3 DEF S

(* Refreshing a page with a section leaves the prose before it, writes the  *)
(* section, and refreshes what is past it.                                  *)
LEMMA InjectOpened ==
  ASSUME NEW r \in Word, NEW prose \in Page, Plain(prose), NEW section \in Word, NEW rest \in Page
  PROVE  /\ Inject(PastEnd(rest, section), r) \in Page
         /\ NewRest(section, r, Inject(PastEnd(rest, section), r)) \in Page
         /\ Inject(Opened(prose, section, rest), r) =
              Opened(prose, section, NewRest(section, r, Inject(PastEnd(rest, section), r)))
  <1> DEFINE b == Opened(prose, section, rest)
             y == Inject(PastEnd(rest, section), r)
  <1>1. PastEnd(rest, section) \in Page /\ Inject(b, r) = Refreshed(prose, section, rest, r, y)
    BY FirstSection
  <1>2. y \in Page
    BY <1>1, InjectType
  <1> HIDE DEF y, b
  <1>3. Refreshed(prose, section, rest, r, y) = Opened(prose, section, NewRest(section, r, y))
    BY <1>2, Rewritten
  <1>4. NewRest(section, r, y) \in Page
    BY <1>2, PastWritten
  <1>5. Inject(b, r) = Opened(prose, section, NewRest(section, r, y))
    BY <1>1, <1>3
  <1> QED BY <1>2, <1>4, <1>5 DEF y, b

(* Refreshing a page twice is refreshing it once, and it has the segments   *)
(* it had.                                                                  *)
LEMMA InjectTwice ==
  ASSUME NEW r \in Word
  PROVE  \A b \in Page : Inject(Inject(b, r), r) = Inject(b, r) /\ SplitSegments(Inject(b, r)) = SplitSegments(b)
  <1> DEFINE S == {b \in Page : Inject(Inject(b, r), r) = Inject(b, r) /\ SplitSegments(Inject(b, r)) = SplitSegments(b)}
  <1>1. ASSUME NEW b \in Page, Plain(b) PROVE b \in S
    BY <1>1, NoSection
  <1>2. ASSUME NEW prose \in Page, NEW section \in Word, NEW rest \in Page,
               Plain(prose), PastEnd(rest, section) \in S
        PROVE  Opened(prose, section, rest) \in S
    <2> DEFINE b == Opened(prose, section, rest)
               past == PastEnd(rest, section)
               y == Inject(past, r)
               t == NewRest(section, r, y)
    <2>1. y \in Page /\ t \in Page /\ Inject(b, r) = Opened(prose, section, t)
      BY <1>2, InjectOpened
    <2>2. PastEnd(t, section) = y
      BY <2>1, PastWritten
    <2>3. Inject(y, r) = y /\ SplitSegments(y) = SplitSegments(past)
      BY <1>2
    <2>4. b \in Page /\ SplitSegments(b) = Told(prose, section, SplitSegments(past))
      BY <1>2, FirstSection
    <2>5. t = NewRest(section, r, y)
      OBVIOUS
    <2> HIDE DEF b, past, t, y
    <2>0. Plain(prose)
      BY <1>2
    <2>6. Inject(Opened(prose, section, t), r) = Opened(prose, section, NewRest(section, r, Inject(PastEnd(t, section), r)))
      BY <2>0, <2>1, InjectOpened
    <2>7. Inject(Opened(prose, section, t), r) = Opened(prose, section, t)
      BY <2>2, <2>3, <2>5, <2>6
    <2>8. SplitSegments(Opened(prose, section, t)) = Told(prose, section, SplitSegments(PastEnd(t, section)))
      BY <1>2, <2>1, FirstSection
    <2>9. Inject(Inject(b, r), r) = Inject(b, r) /\ SplitSegments(Inject(b, r)) = SplitSegments(b)
      BY <2>1, <2>2, <2>3, <2>4, <2>7, <2>8
    <2> QED BY <2>4, <2>9 DEF b
  <1> HIDE DEF S
  <1>3. Page \subseteq S
    BY <1>1, <1>2, PageInduction
  <1> QED BY <1>3 DEF S

(* Pieces of two pages put together are pieces of one of them. *)
LEMMA EitherPiece ==
  ASSUME NEW a \in Page, NEW b \in Page, NEW k \in DOMAIN (a \o b)
  PROVE  \/ k \in DOMAIN a /\ (a \o b)[k] = a[k]
         \/ k - Len(a) \in DOMAIN b /\ (a \o b)[k] = b[k - Len(a)]
  <1>1. Len(a) \in Nat /\ Len(b) \in Nat /\ DOMAIN a = 1..Len(a) /\ DOMAIN b = 1..Len(b)
    BY PageIs
  <1>2. k \in 1..(Len(a) + Len(b))
    <2>1. a \o b \in Page /\ Len(a \o b) = Len(a) + Len(b)
      BY Joined
    <2> QED BY <2>1, PageIs
  <1>3. CASE k <= Len(a)
    <2>1. k \in 1..Len(a)
      BY <1>1, <1>2, <1>3
    <2> QED BY <1>1, <2>1, JoinedPieces
  <1>4. CASE k > Len(a)
    <2> DEFINE i == k - Len(a)
    <2>1. i \in 1..Len(b) /\ k = Len(a) + i
      BY <1>1, <1>2, <1>4
    <2> HIDE DEF i
    <2>2. (a \o b)[Len(a) + i] = b[i]
      BY <2>1, JoinedPieces
    <2> QED BY <1>1, <2>1, <2>2 DEF i
  <1> QED BY <1>1, <1>2, <1>3, <1>4

(* Prose and prose are prose. *)
LEMMA NoBegins ==
  ASSUME NEW q \in Page, NEW x \in Page, Plain(q), Plain(x)
  PROVE  Join(q, x) \in Page /\ Plain(Join(q, x))
  <1>1. ASSUME NEW k \in DOMAIN (q \o x) PROVE (q \o x)[k].piece # "begin"
    BY EitherPiece DEF Begins, Plain
  <1> QED BY <1>1, Joined DEF Begins, Plain, Join

(* What is put before a page is put before its prose. *)
LEMMA OpenedLater ==
  ASSUME NEW q \in Page, NEW prose \in Page, NEW section \in Word, NEW rest \in Page
  PROVE  Join(q, Opened(prose, section, rest)) = Opened(Join(q, prose), section, rest)
  <1> DEFINE open == <<Begin(section)>>
             tail == open \o rest
  <1>1. open \in Page
    BY RestIs
  <1> HIDE DEF open
  <1>2. tail \in Page
    BY <1>1, Joined
  <1>3. /\ Join(q, Opened(prose, section, rest)) = q \o (prose \o tail)
        /\ Opened(Join(q, prose), section, rest) = (q \o prose) \o tail
    BY DEF Opened, open, Join
  <1> HIDE DEF tail
  <1>4. (q \o prose) \o tail = q \o (prose \o tail)
    BY <1>2, JoinedAgain, SMTT(30)
  <1> QED BY <1>3, <1>4

(* A page with a section begins with its prose or with the marker. *)
LEMMA OpenedHead ==
  ASSUME NEW prose \in Page, NEW section \in Word, NEW s \in Page, NEW t \in Page
  PROVE  /\ Opened(prose, section, s) # <<>> /\ Opened(prose, section, t) # <<>>
         /\ Head(Opened(prose, section, s)) = Head(Opened(prose, section, t))
  <1> DEFINE open == <<Begin(section)>>
  <1>1. open \in Page /\ Len(open) = 1
    BY RestIs
  <1>2. \A u : Opened(prose, section, u) = prose \o (open \o u)
    BY DEF Opened
  <1> HIDE DEF open
  <1> DEFINE first == prose \o open
  <1>3. first \in Page /\ Len(first) = Len(prose) + 1 /\ Len(prose) \in Nat
    BY <1>1, Joined, PageIs
  <1>4. ASSUME NEW u \in Page PROVE Opened(prose, section, u) = first \o u
    <2>1. (prose \o open) \o u = prose \o (open \o u)
      BY <1>1, JoinedAgain, SMTT(30)
    <2> QED BY <1>2, <2>1
  <1> HIDE DEF first
  <1>5. ASSUME NEW u \in Page PROVE first \o u # <<>> /\ Head(first \o u) = first[1]
    <2>1. 1 \in 1..Len(first)
      BY <1>3
    <2>2. (first \o u)[1] = first[1]
      BY <1>3, <2>1, JoinedPieces
    <2>3. first \o u \in Page /\ Len(first \o u) = Len(first) + Len(u)
      BY <1>3, Joined
    <2>4. Len(first \o u) # 0
      BY <1>3, <2>3, PageIs
    <2> QED BY <2>2, <2>3, <2>4 DEF Page
  <1> QED BY <1>4, <1>5

(* Prose put before a page is left alone by refreshing it. *)
LEMMA InjectPrefixed ==
  ASSUME NEW r \in Word, NEW q \in Page, Plain(q), NEW x \in Page
  PROVE  Inject(Join(q, x), r) = Join(q, Inject(x, r))
  <1>1. CASE Plain(x)
    <2>1. Plain(Join(q, x)) /\ Join(q, x) \in Page
      BY <1>1, NoBegins
    <2> QED BY <1>1, <2>1, NoSection
  <1>2. CASE ~Plain(x)
    <2>1. PICK prose \in Page, section \in Word, rest \in Page :
            Plain(prose) /\ x = Opened(prose, section, rest)
      BY <1>2, ASection
    <2> DEFINE t == NewRest(section, r, Inject(PastEnd(rest, section), r))
    <2>2. t \in Page /\ Inject(x, r) = Opened(prose, section, t)
      BY <2>1, InjectOpened
    <2>3. Join(q, prose) \in Page /\ Plain(Join(q, prose))
      BY <2>1, NoBegins
    <2>4. Join(q, x) = Opened(Join(q, prose), section, rest)
      BY <2>1, OpenedLater
    <2>5. Inject(Opened(Join(q, prose), section, rest), r) = Opened(Join(q, prose), section, t)
      BY <2>3, InjectOpened
    <2> HIDE DEF t
    <2>6. Opened(Join(q, prose), section, t) = Join(q, Opened(prose, section, t))
      BY <2>2, OpenedLater
    <2> QED BY <2>2, <2>4, <2>5, <2>6
  <1> QED BY <1>1, <1>2

(* A refreshed page begins with the piece it began with. *)
LEMMA InjectHead ==
  ASSUME NEW r \in Word, NEW b \in Page, b # <<>>
  PROVE  Inject(b, r) # <<>> /\ Head(Inject(b, r)) = Head(b)
  <1>1. CASE Plain(b)
    BY <1>1, NoSection
  <1>2. CASE ~Plain(b)
    <2>1. PICK prose \in Page, section \in Word, rest \in Page :
            Plain(prose) /\ b = Opened(prose, section, rest)
      BY <1>2, ASection
    <2> DEFINE t == NewRest(section, r, Inject(PastEnd(rest, section), r))
    <2>2. t \in Page /\ Inject(b, r) = Opened(prose, section, t)
      BY <2>1, InjectOpened
    <2> HIDE DEF t
    <2> QED BY <2>1, <2>2, OpenedHead
  <1> QED BY <1>1, <1>2

(* Refreshing a page adds no line of --- and none that begins with it.      *)
Ruled(b) == {k \in DOMAIN b : b[k].piece \in {"rule", "dashes"}}

Ruleless(b) == Ruled(b) = {}

(* A page of two parts has a rule when a part has.                          *)
LEMMA RuledTwo ==
  ASSUME NEW a \in Page, NEW b \in Page
  PROVE  Ruleless(a \o b) <=> Ruleless(a) /\ Ruleless(b)
  <1>1. ASSUME Ruleless(a), Ruleless(b), NEW k \in DOMAIN (a \o b) PROVE (a \o b)[k].piece \notin {"rule", "dashes"}
    BY <1>1, EitherPiece DEF Ruled, Ruleless
  <1>2. Len(a) \in Nat /\ Len(b) \in Nat /\ DOMAIN a = 1..Len(a) /\ DOMAIN b = 1..Len(b)
    BY PageIs
  <1>3. DOMAIN (a \o b) = 1..(Len(a) + Len(b))
    <2>1. a \o b \in Page /\ Len(a \o b) = Len(a) + Len(b)
      BY Joined
    <2> QED BY <2>1, PageIs
  <1>4. ASSUME Ruleless(a \o b), NEW k \in DOMAIN a PROVE a[k].piece \notin {"rule", "dashes"}
    <2>1. k \in DOMAIN (a \o b)
      BY <1>2, <1>3
    <2>2. (a \o b)[k] = a[k]
      BY <1>2, JoinedPieces
    <2> QED BY <1>4, <2>1, <2>2 DEF Ruled, Ruleless
  <1>5. ASSUME Ruleless(a \o b), NEW k \in DOMAIN b PROVE b[k].piece \notin {"rule", "dashes"}
    <2>1. Len(a) + k \in DOMAIN (a \o b)
      BY <1>2, <1>3
    <2>2. (a \o b)[Len(a) + k] = b[k]
      BY <1>2, JoinedPieces
    <2> QED BY <1>5, <2>1, <2>2 DEF Ruled, Ruleless
  <1> QED BY <1>1, <1>4, <1>5 DEF Ruled, Ruleless

(* The mark that opens a section is no rule.                                *)
LEMMA OpenedRuled ==
  ASSUME NEW prose \in Page, NEW section \in Word, NEW rest \in Page
  PROVE  Ruleless(Opened(prose, section, rest)) <=> Ruleless(prose) /\ Ruleless(rest)
  <1> DEFINE open == <<Begin(section)>>
  <1>1. open \in Page /\ Len(open) = 1 /\ open[1] = Begin(section)
    BY RestIs
  <1>2. Opened(prose, section, rest) = prose \o (open \o rest)
    BY DEF Opened
  <1> HIDE DEF open
  <1>3. Ruleless(open)
    <2>1. DOMAIN open = 1..1
      BY <1>1, PageIs
    <2>2. \A k \in DOMAIN open : open[k].piece = "begin"
      BY <1>1, <2>1 DEF Begin
    <2> QED BY <2>2 DEF Ruled, Ruleless
  <1>4. open \o rest \in Page
    BY <1>1, Joined
  <1> QED BY <1>1, <1>2, <1>3, <1>4, RuledTwo

(* Nor is what is written for a section.                                    *)
LEMMA WrittenRuled ==
  ASSUME NEW section \in Word, NEW r \in Word, NEW u \in Page, Ruleless(u)
  PROVE  Ruleless(NewRest(section, r, u))
  <1> DEFINE t == Rest(section, r)
  <1>1. t \in Page /\ Len(t) = 2
    BY RestIs
  <1>2. t[1].piece = "table" /\ t[2].piece = "end"
    BY DEF Rest, Table, End
  <1>3. NewRest(section, r, u) = t \o u
    BY DEF NewRest
  <1> HIDE DEF t
  <1>4. Ruleless(t)
    <2>1. DOMAIN t = 1..2
      BY <1>1, PageIs
    <2>2. \A k \in DOMAIN t : k = 1 \/ k = 2
      BY <2>1
    <2> QED BY <1>2, <2>2 DEF Ruled, Ruleless
  <1> QED BY <1>1, <1>3, <1>4, RuledTwo

(* What is past a section has no rule when the page has none.               *)
LEMMA PastRuled ==
  ASSUME NEW rest \in Page, NEW section, Ruleless(rest)
  PROVE  Ruleless(PastEnd(rest, section))
  <1>1. PICK k \in 0..Len(rest) : PastEnd(rest, section) = SubSeq(rest, k + 1, Len(rest))
    BY PastEndIs
  <1>2. rest = SubSeq(rest, 1, k) \o SubSeq(rest, k + 1, Len(rest))
    BY <1>1, CutInTwo DEF Page
  <1>3. SubSeq(rest, 1, k) \in Page /\ SubSeq(rest, k + 1, Len(rest)) \in Page
    BY <1>1, CutInTwo DEF Page
  <1> DEFINE x == SubSeq(rest, 1, k)
             y == SubSeq(rest, k + 1, Len(rest))
  <1>4. PastEnd(rest, section) = y /\ Ruleless(x \o y)
    BY <1>1, <1>2
  <1>5. x \in Page /\ y \in Page
    BY <1>3
  <1> HIDE DEF x, y
  <1> QED BY <1>4, <1>5, RuledTwo

(* Inject writes no rule on a page that has none.                           *)
LEMMA InjectRuled ==
  ASSUME NEW r \in Word
  PROVE  \A b \in Page : Ruleless(b) => Ruleless(Inject(b, r))
  <1> DEFINE S == {b \in Page : Ruleless(b) => Ruleless(Inject(b, r))}
  <1>1. ASSUME NEW b \in Page, Plain(b) PROVE b \in S
    BY <1>1, NoSection
  <1>2. ASSUME NEW prose \in Page, NEW section \in Word, NEW rest \in Page,
               Plain(prose), PastEnd(rest, section) \in S
        PROVE  Opened(prose, section, rest) \in S
    <2> DEFINE b == Opened(prose, section, rest)
               past == PastEnd(rest, section)
               y == Inject(past, r)
               t == NewRest(section, r, y)
    <2>1. b \in Page /\ past \in Page /\ y \in Page /\ t \in Page /\ Inject(b, r) = Opened(prose, section, t)
      BY <1>2, InjectOpened, FirstSection
    <2>2. ASSUME Ruleless(b) PROVE Ruleless(Inject(b, r))
      <3>1. Ruleless(prose) /\ Ruleless(rest)
        BY <2>2, OpenedRuled
      <3>2. Ruleless(past)
        BY <3>1, PastRuled
      <3>3. Ruleless(y)
        BY <1>2, <3>2
      <3> HIDE DEF y, b
      <3>4. Ruleless(t)
        BY <2>1, <3>3, WrittenRuled
      <3> HIDE DEF t
      <3>5. Ruleless(Opened(prose, section, t))
        BY <2>1, <3>1, <3>4, OpenedRuled
      <3> QED BY <2>1, <3>5
    <2> QED BY <2>1, <2>2
  <1> HIDE DEF S
  <1>3. Page \subseteq S
    BY <1>1, <1>2, PageInduction
  <1> QED BY <1>3 DEF S

-----------------------------------------------------------------------------
(* Two pages put together, cut again. *)
LEMMA JoinIs ==
  ASSUME NEW a \in Page, NEW b \in Page
  PROVE  /\ Join(a, b) \in Page /\ Len(Join(a, b)) = Len(a) + Len(b)
         /\ SubSeq(Join(a, b), Len(a) + 1, Len(Join(a, b))) = b
  BY Joined, CutBack DEF Join, Page

(* The pieces of the first page are where they were. *)
LEMMA JoinFirst ==
  ASSUME NEW a \in Page, NEW b \in Page, NEW k \in DOMAIN a
  PROVE  k \in DOMAIN Join(a, b) /\ Join(a, b)[k] = a[k]
  <1>1. Len(a) \in Nat /\ Len(b) \in Nat /\ DOMAIN a = 1..Len(a)
    BY PageIs
  <1>2. Join(a, b) \in Page /\ Len(Join(a, b)) = Len(a) + Len(b)
    BY JoinIs
  <1>3. k \in 1..(Len(a) + Len(b)) /\ k \in 1..Len(a)
    BY <1>1
  <1> QED BY <1>2, <1>3, PageIs, JoinedPieces DEF Join

(* Those of the second follow. *)
LEMMA JoinSecond ==
  ASSUME NEW a \in Page, NEW b \in Page, NEW k \in DOMAIN b
  PROVE  Len(a) + k \in DOMAIN Join(a, b) /\ Join(a, b)[Len(a) + k] = b[k]
  <1>1. Len(a) \in Nat /\ Len(b) \in Nat /\ DOMAIN b = 1..Len(b)
    BY PageIs
  <1>2. Join(a, b) \in Page /\ Len(Join(a, b)) = Len(a) + Len(b)
    BY JoinIs
  <1>3. Len(a) + k \in 1..(Len(a) + Len(b)) /\ k \in 1..Len(b)
    BY <1>1
  <1> QED BY <1>2, <1>3, PageIs, JoinedPieces DEF Join

(* There are no others. *)
LEMMA JoinPieces ==
  ASSUME NEW a \in Page, NEW b \in Page, NEW k \in DOMAIN Join(a, b)
  PROVE  \/ k \in DOMAIN a /\ Join(a, b)[k] = a[k]
         \/ k - Len(a) \in DOMAIN b /\ Join(a, b)[k] = b[k - Len(a)]
  BY EitherPiece DEF Join

(* A page cut in two. *)
LEMMA Cut ==
  ASSUME NEW b \in Page, NEW k \in 0..Len(b)
  PROVE  /\ SubSeq(b, 1, k) \in Page /\ Len(SubSeq(b, 1, k)) = k
         /\ SubSeq(b, k + 1, Len(b)) \in Page
         /\ b = Join(SubSeq(b, 1, k), SubSeq(b, k + 1, Len(b)))
  BY CutInTwo, ZenonT(60) DEF Join, Page

-----------------------------------------------------------------------------
Spaces(b)  == \A k \in DOMAIN b : b[k] = Space
Starts(b) == b = <<>> \/ Head(b) # Space

(* A page of nothing.                                                       *)
LEMMA EmptyPage == <<>> \in Page /\ Len(<<>>) = 0 /\ Plain(<<>>)
  BY DEF Page, Plain, Begins

(* A page that has a piece has a first one. *)
LEMMA HeadIs ==
  ASSUME NEW b \in Page, b # <<>>
  PROVE  1 \in DOMAIN b /\ Head(b) = b[1]
  <1>1. Len(b) # 0 /\ Len(b) \in Nat /\ DOMAIN b = 1..Len(b)
    BY PageIs DEF Page
  <1> QED BY <1>1

(* Trimming a page drops the blank lines it begins with. *)
LEMMA TrimIs ==
  ASSUME NEW x \in Page
  PROVE  /\ TrimLeft(x) \in Page /\ Starts(TrimLeft(x))
         /\ \E q \in Page : Spaces(q) /\ x = Join(q, TrimLeft(x))
  <1> DEFINE told == {k \in DOMAIN x : x[k] # Space}
  <1>0. DOMAIN x = 1..Len(x) /\ Len(x) \in Nat
    BY PageIs
  <1>1. CASE told = {}
    <2>1. TrimLeft(x) = <<>> /\ Spaces(x)
      BY <1>1 DEF TrimLeft, Spaces
    <2>2. x = Join(x, <<>>)
      BY DEF Join, Page
    <2> QED BY <2>1, <2>2, EmptyPage DEF Starts
  <1>2. CASE told # {}
    <2> DEFINE k == Min(told)
               q == SubSeq(x, 1, k - 1)
               y == SubSeq(x, k, Len(x))
    <2>1. TrimLeft(x) = y
      BY <1>2 DEF TrimLeft
    <2>2. told \in SUBSET (1..Len(x))
      BY <1>0
    <2>3. k \in told /\ \A l \in told : k <= l
      BY <1>0, <1>2, <2>2, FirstPlace
    <2> HIDE DEF k
    <2>4. k \in 1..Len(x) /\ x[k] # Space /\ \A l \in 1..Len(x) : l < k => x[l] = Space
      <3>1. k \in 1..Len(x) /\ x[k] # Space
        BY <1>0, <2>3
      <3>2. ASSUME NEW l \in 1..Len(x), l < k, x[l] # Space PROVE FALSE
        <4>1. l \in told
          BY <1>0, <3>2
        <4>2. k <= l
          BY <2>3, <4>1
        <4> HIDE DEF told
        <4> QED BY <1>0, <3>1, <3>2, <4>2
      <3> QED BY <3>1, <3>2
    <2>5. k - 1 \in 0..Len(x) /\ (k - 1) + 1 = k
      BY <1>0, <2>4
    <2>6. q \in Page /\ Len(q) = k - 1 /\ y \in Page /\ x = Join(q, y)
      BY <2>5, Cut
    <2> HIDE DEF q, y
    <2>7. Spaces(q)
      <3>1. ASSUME NEW l \in DOMAIN q PROVE q[l] = Space
        <4>1. l \in 1..(k - 1)
          BY <2>6, PageIs
        <4>2. l \in 1..Len(x) /\ l < k
          BY <1>0, <2>4, <4>1
        <4>3. x[l] = q[l]
          BY <2>6, JoinFirst
        <4> QED BY <2>4, <4>2, <4>3
      <3> QED BY <3>1 DEF Spaces
    <2>8. Starts(y)
      <3>1. ASSUME y # <<>> PROVE Head(y) # Space
        <4>1. 1 \in DOMAIN y /\ Head(y) = y[1]
          BY <2>6, <3>1, HeadIs
        <4>2. x[Len(q) + 1] = y[1]
          BY <2>6, <4>1, JoinSecond
        <4> QED BY <2>4, <2>5, <2>6, <4>1, <4>2
      <3> QED BY <3>1 DEF Starts
    <2> QED BY <2>1, <2>6, <2>7, <2>8
  <1> QED BY <1>1, <1>2

(* Spaces lines put before a page that does not begin with one are trimmed.  *)
LEMMA TrimJoined ==
  ASSUME NEW q \in Page, NEW y \in Page, Spaces(q), Starts(y)
  PROVE  TrimLeft(Join(q, y)) = y
  <1> DEFINE x == Join(q, y)
             told == {k \in DOMAIN x : x[k] # Space}
  <1>0. x \in Page /\ Len(x) = Len(q) + Len(y) /\ SubSeq(x, Len(q) + 1, Len(x)) = y
    BY JoinIs
  <1>1. Len(q) \in Nat /\ Len(y) \in Nat /\ DOMAIN q = 1..Len(q) /\ DOMAIN y = 1..Len(y)
    BY PageIs
  <1>2. \A k \in DOMAIN q : x[k] = Space
    BY JoinFirst DEF Spaces
  <1>3. CASE y = <<>>
    <2>1. DOMAIN y = {}
      BY <1>3
    <2>2. ASSUME NEW k \in DOMAIN x PROVE x[k] = Space
      BY <1>2, <2>1, JoinPieces
    <2>3. told = {}
      BY <2>2
    <2> QED BY <1>3, <2>3 DEF TrimLeft
  <1>4. CASE y # <<>>
    <2> DEFINE first == Len(q) + 1
    <2>1. 1 \in DOMAIN y /\ y[1] # Space
      BY <1>4, HeadIs DEF Starts
    <2>2. first \in DOMAIN x /\ x[first] = y[1]
      BY <2>1, JoinSecond
    <2>3. told \in SUBSET (1..Len(x)) /\ Len(x) \in Nat
      BY <1>0, PageIs
    <2> HIDE DEF x
    <2>4. first \in told
      BY <2>1, <2>2
    <2>5. \A k \in told : k \notin 1..Len(q)
      BY <1>1, <1>2
    <2> HIDE DEF told
    <2> DEFINE k == Min(told)
    <2>6. k \in told /\ k <= first
      BY <2>3, <2>4, FirstPlace
    <2>7. k = first
      <3>1. k \in 1..Len(x) /\ k \notin 1..Len(q)
        BY <2>3, <2>5, <2>6
      <3> HIDE DEF k
      <3> QED BY <1>1, <2>3, <2>6, <3>1
    <2>8. TrimLeft(x) = SubSeq(x, k, Len(x))
      BY <2>4 DEF TrimLeft, told
    <2> QED BY <1>0, <2>7, <2>8 DEF x
  <1> QED BY <1>3, <1>4

(* Spaces lines open no section. *)
LEMMA BlankPlain ==
  ASSUME NEW q \in Page, Spaces(q)
  PROVE  Plain(q)
  BY DEF Spaces, Plain, Begins, Space

(* Trimming a refreshed page is refreshing the trimmed one. *)
LEMMA InjectTrim ==
  ASSUME NEW r \in Word, NEW x \in Page
  PROVE  TrimLeft(Inject(x, r)) = Inject(TrimLeft(x), r) /\ TrimLeft(x) \in Page
  <1> DEFINE y == TrimLeft(x)
  <1>1. y \in Page /\ Starts(y)
    BY TrimIs
  <1>2. PICK q \in Page : Spaces(q) /\ x = Join(q, y)
    BY TrimIs
  <1> HIDE DEF y
  <1>3. Inject(x, r) = Join(q, Inject(y, r))
    BY <1>1, <1>2, BlankPlain, InjectPrefixed
  <1>4. Inject(y, r) \in Page
    BY <1>1, InjectType
  <1>5. Starts(Inject(y, r))
    <2>1. CASE y = <<>>
      BY <1>1, <2>1, EmptyPage, NoSection DEF Starts
    <2>2. CASE y # <<>>
      <3>1. Inject(y, r) # <<>> /\ Head(Inject(y, r)) = Head(y)
        BY <1>1, <2>2, InjectHead
      <3> QED BY <1>1, <2>2, <3>1 DEF Starts
    <2> QED BY <2>1, <2>2
  <1>6. TrimLeft(Join(q, Inject(y, r))) = Inject(y, r)
    BY <1>2, <1>4, <1>5, TrimJoined
  <1> QED BY <1>1, <1>3, <1>6 DEF y

(* Lifting the title off a refreshed page is refreshing the page it was     *)
(* lifted off.                                                              *)
LEMMA InjectTitle ==
  ASSUME NEW r \in Word, NEW b \in Page
  PROVE  /\ SplitTitle(Inject(b, r)).title = SplitTitle(b).title
         /\ SplitTitle(Inject(b, r)).body = Inject(SplitTitle(b).body, r)
         /\ SplitTitle(b).body \in Page
  <1> DEFINE t == TrimLeft(b)
  <1>1. t \in Page /\ TrimLeft(Inject(b, r)) = Inject(t, r)
    BY InjectTrim
  <1> HIDE DEF t
  <1>2. Inject(t, r) \in Page
    BY <1>1, InjectType
  <1>3. CASE t = <<>>
    <2>1. Inject(t, r) = <<>>
      BY <1>3, EmptyPage, NoSection
    <2>2. SplitTitle(b).title = "" /\ SplitTitle(b).body = b
      BY <1>3 DEF SplitTitle, t
    <2>3. SplitTitle(Inject(b, r)).title = "" /\ SplitTitle(Inject(b, r)).body = Inject(b, r)
      BY <1>1, <2>1 DEF SplitTitle
    <2> QED BY <2>2, <2>3
  <1>4. CASE t # <<>>
    <2>1. Inject(t, r) # <<>> /\ Head(Inject(t, r)) = Head(t)
      BY <1>1, <1>4, InjectHead
    <2>2. CASE Head(t).piece # "heading"
      <3>1. SplitTitle(b).title = "" /\ SplitTitle(b).body = b
        BY <2>2 DEF SplitTitle, t
      <3>2. SplitTitle(Inject(b, r)).title = "" /\ SplitTitle(Inject(b, r)).body = Inject(b, r)
        BY <1>1, <2>1, <2>2 DEF SplitTitle
      <3> QED BY <3>1, <3>2
    <2>3. CASE Head(t).piece = "heading"
      <3> DEFINE h == SubSeq(t, 1, 1)
                 rest == Tail(t)
      <3>1. 1 \in DOMAIN t /\ 1 \in 0..Len(t) /\ Head(t) = t[1]
        BY <1>1, <1>4, HeadIs, PageIs
      <3>2. rest = SubSeq(t, 1 + 1, Len(t)) /\ rest \in Page
        BY <1>1, <1>4 DEF Page
      <3>3. h \in Page /\ Len(h) = 1 /\ t = Join(h, rest)
        BY <1>1, <3>1, <3>2, Cut
      <3> HIDE DEF h, rest
      <3>4. Plain(h)
        <4>1. DOMAIN h = 1..1
          BY <3>3, PageIs
        <4>2. t[1] = h[1]
          BY <3>2, <3>3, <4>1, JoinFirst
        <4>3. h[1].piece # "begin"
          BY <2>3, <3>1, <4>2
        <4>4. \A k \in DOMAIN h : k = 1
          BY <4>1
        <4> QED BY <4>3, <4>4 DEF Plain, Begins
      <3>5. Inject(t, r) = Join(h, Inject(rest, r)) /\ Inject(rest, r) \in Page
        BY <3>2, <3>3, <3>4, InjectPrefixed, InjectType
      <3>6. Tail(Inject(t, r)) = Inject(rest, r)
        <4>1. SubSeq(Inject(t, r), Len(h) + 1, Len(Inject(t, r))) = Inject(rest, r)
          BY <3>3, <3>5, JoinIs, ZenonT(60)
        <4>2. Tail(Inject(t, r)) = SubSeq(Inject(t, r), 2, Len(Inject(t, r)))
          BY <1>2, <2>1 DEF Page
        <4>3. Len(h) + 1 = 2
          BY <3>3
        <4> QED BY <4>1, <4>2, <4>3
      <3>7. SplitTitle(b) = [title |-> Head(t).of, body |-> TrimLeft(rest)]
        BY <1>4, <2>3 DEF SplitTitle, t, rest
      <3>8. SplitTitle(Inject(b, r)) = [title |-> Head(t).of, body |-> TrimLeft(Inject(rest, r))]
        BY <1>1, <2>1, <2>3, <3>6 DEF SplitTitle
      <3>9. TrimLeft(Inject(rest, r)) = Inject(TrimLeft(rest), r) /\ TrimLeft(rest) \in Page
        BY <3>2, InjectTrim
      <3> QED BY <3>7, <3>8, <3>9
    <2> QED BY <2>2, <2>3
  <1> QED BY <1>3, <1>4

-----------------------------------------------------------------------------
(* A page without front matter, and one up to the line that closes it.      *)
NoFront(b) == Closing(b) = {} \/ Head(b) # Rule

Fronted(q) == /\ Len(q) \in Closing(q) /\ \A k \in Closing(q) : k = Len(q)

(* Nothing closes the front matter of prose of two lines or of one before a *)
(* page without a line that begins with ---.                                *)
LEMMA NoClosing ==
  ASSUME NEW q \in Page, Len(q) <= 2, NEW y \in Page, Ruleless(y)
  PROVE  Closing(Join(q, y)) = {}
  <1>1. ASSUME NEW k \in DOMAIN Join(q, y), k > 2 PROVE Join(q, y)[k].piece \notin {"rule", "dashes"}
    <2>1. k \notin DOMAIN q
      BY <1>1, PageIs
    <2>2. k - Len(q) \in DOMAIN y /\ Join(q, y)[k] = y[k - Len(q)]
      BY <2>1, JoinPieces
    <2> QED BY <2>2 DEF Ruleless, Ruled
  <1> QED BY <1>1 DEF Closing

(* Refreshing a page gives it no front matter. *)
LEMMA InjectNoFront ==
  ASSUME NEW r \in Word, NEW b \in Page, NoFront(b)
  PROVE  NoFront(Inject(b, r))
  <1>0. Len(b) \in Nat /\ DOMAIN b = 1..Len(b)
    BY PageIs
  <1>1. CASE b = <<>>
    BY <1>1, EmptyPage, NoSection
  <1>2. CASE b # <<>> /\ Head(b) # Rule
    BY <1>2, InjectHead DEF NoFront
  <1>3. ASSUME NEW k \in 0..Len(b), k <= 2, Plain(SubSeq(b, 1, k)), Ruleless(SubSeq(b, k + 1, Len(b)))
        PROVE  NoFront(Inject(b, r))
    <2> DEFINE q == SubSeq(b, 1, k)
               x == SubSeq(b, k + 1, Len(b))
    <2>1. q \in Page /\ Len(q) = k /\ x \in Page /\ b = Join(q, x)
      BY Cut
    <2>2. Plain(q) /\ Ruleless(x)
      BY <1>3
    <2> HIDE DEF q, x
    <2>3. Inject(b, r) = Join(q, Inject(x, r)) /\ Inject(x, r) \in Page /\ Ruleless(Inject(x, r))
      BY <2>1, <2>2, InjectPrefixed, InjectType, InjectRuled
    <2>4. Closing(Join(q, Inject(x, r))) = {}
      BY <1>3, <2>1, <2>3, NoClosing
    <2> QED BY <2>3, <2>4 DEF NoFront
  <1>4. CASE b # <<>> /\ Head(b) = Rule /\ Closing(b) = {}
    <2>1. 1 \in DOMAIN b /\ b[1].piece = "rule"
      BY <1>4, HeadIs DEF Rule
    <2>2. \A k \in 1..Len(b) : k > 2 => b[k].piece \notin {"rule", "dashes"}
      BY <1>0, <1>4 DEF Closing
    <2>3. ASSUME NEW k \in 1..Len(b), k <= 2, \A l \in 1..Len(b) : l > k => b[l].piece \notin {"rule", "dashes"},
                 \A l \in 1..k : b[l].piece # "begin"
          PROVE  k \in 0..Len(b) /\ k <= 2 /\ Plain(SubSeq(b, 1, k)) /\ Ruleless(SubSeq(b, k + 1, Len(b)))
      <3> DEFINE q == SubSeq(b, 1, k)
                 x == SubSeq(b, k + 1, Len(b))
      <3>1. k \in 0..Len(b)
        BY <1>0
      <3>2. q \in Page /\ Len(q) = k /\ x \in Page /\ b = Join(q, x)
        BY <3>1, Cut
      <3> HIDE DEF q, x
      <3>3. Plain(q)
        <4>1. ASSUME NEW l \in DOMAIN q PROVE q[l].piece # "begin"
          BY <2>3, <3>2, PageIs, JoinFirst
        <4> QED BY <4>1 DEF Plain, Begins
      <3>4. Ruleless(x)
        <4>1. ASSUME NEW l \in DOMAIN x PROVE x[l].piece \notin {"rule", "dashes"}
          <5>1. k + l \in DOMAIN b /\ b[k + l] = x[l]
            BY <3>2, JoinSecond
          <5>2. k + l > k /\ k + l \in 1..Len(b)
            <6>1. l \in 1..Len(x) /\ Len(x) \in Nat
              BY <3>2, PageIs
            <6> QED BY <1>0, <5>1, <6>1
          <5> QED BY <2>3, <5>1, <5>2
        <4> QED BY <4>1 DEF Ruleless, Ruled
      <3> QED BY <2>3, <3>1, <3>3, <3>4 DEF q, x
    <2>4. CASE 2 \in DOMAIN b /\ b[2].piece \in {"rule", "dashes"}
      <3>1. 2 \in 1..Len(b) /\ \A l \in 1..2 : b[l].piece # "begin"
        <4>1. \A l \in 1..2 : l = 1 \/ l = 2
          OBVIOUS
        <4> QED BY <1>0, <2>1, <2>4, <4>1
      <3>2. 2 \in 0..Len(b) /\ Plain(SubSeq(b, 1, 2)) /\ Ruleless(SubSeq(b, 2 + 1, Len(b)))
        BY <2>2, <2>3, <3>1
      <3> QED BY <1>3, <3>2
    <2>5. CASE ~(2 \in DOMAIN b /\ b[2].piece \in {"rule", "dashes"})
      <3>1. 1 \in 1..Len(b) /\ \A l \in 1..1 : b[l].piece # "begin"
        <4>1. \A l \in 1..1 : l = 1
          OBVIOUS
        <4> QED BY <1>0, <2>1, <4>1
      <3>2. ASSUME NEW l \in 1..Len(b), l > 1 PROVE b[l].piece \notin {"rule", "dashes"}
        <4>1. l = 2 \/ l > 2
          BY <3>2
        <4> QED BY <1>0, <2>2, <2>5, <4>1
      <3>3. 1 \in 0..Len(b) /\ Plain(SubSeq(b, 1, 1)) /\ Ruleless(SubSeq(b, 1 + 1, Len(b)))
        BY <2>3, <3>1, <3>2
      <3> QED BY <1>3, <3>3
    <2> QED BY <2>4, <2>5
  <1> QED BY <1>1, <1>2, <1>4 DEF NoFront

(* A page with front matter is its front matter, the line that closes it,   *)
(* and the rest.                                                            *)
LEMMA FrontIs ==
  ASSUME NEW b \in Page, Closing(b) # {}
  PROVE  \E q \in Page, x \in Page : Fronted(q) /\ b = Join(q, x)
  <1> DEFINE k == Min(Closing(b))
             q == SubSeq(b, 1, k)
             x == SubSeq(b, k + 1, Len(b))
  <1>0. Len(b) \in Nat /\ DOMAIN b = 1..Len(b)
    BY PageIs
  <1>1. Closing(b) \in SUBSET (1..Len(b))
    BY <1>0 DEF Closing
  <1>2. k \in Closing(b) /\ \A l \in Closing(b) : k <= l
    BY <1>0, <1>1, FirstPlace
  <1> HIDE DEF k
  <1>3. k \in 0..Len(b) /\ k \in 1..Len(b)
    BY <1>0, <1>1, <1>2
  <1>4. q \in Page /\ Len(q) = k /\ x \in Page /\ b = Join(q, x)
    BY <1>3, Cut
  <1> HIDE DEF q, x
  <1>5. DOMAIN q = 1..k /\ k \in DOMAIN q
    BY <1>3, <1>4, PageIs
  <1>6. ASSUME NEW l \in DOMAIN q PROVE l \in Closing(q) <=> l \in Closing(b)
    <2>1. l \in DOMAIN b /\ b[l] = q[l]
      BY <1>4, JoinFirst
    <2> QED BY <2>1 DEF Closing
  <1>7. ASSUME NEW l \in Closing(q) PROVE l = k
    <2>1. l \in DOMAIN q
      BY DEF Closing
    <2>2. k <= l
      BY <1>2, <1>6, <2>1
    <2> QED BY <1>3, <1>5, <2>1, <2>2
  <1>8. Fronted(q)
    BY <1>2, <1>4, <1>5, <1>6, <1>7 DEF Fronted
  <1> QED BY <1>4, <1>8

(* What is read of a page with front matter.                                *)
FrontOf(q) == SubSeq(q, 2, Len(q) - 1)

(* Front matter joined to a page is found again, and the page after it.     *)
LEMMA FrontRead ==
  ASSUME NEW q \in Page, Fronted(q), NEW y \in Page
  PROVE  LET b == Join(q, y)
         IN  /\ Closing(b) # {} /\ Head(b) = Head(q) /\ Min(Closing(b)) = Len(q)
             /\ SubSeq(b, 2, Len(q) - 1) = FrontOf(q)
             /\ SubSeq(b, Len(q) + 1, Len(b)) = y
  <1> DEFINE b == Join(q, y)
             n == Len(q)
  <1>0. n \in Nat /\ DOMAIN q = 1..n /\ Len(y) \in Nat /\ q \in Seq(Piece)
    BY PageIs
  <1>1. b \in Page /\ Len(b) = n + Len(y) /\ SubSeq(b, n + 1, Len(b)) = y
    BY JoinIs
  <1>2. n \in DOMAIN q /\ n > 2 /\ n \in Closing(q) /\ \A k \in Closing(q) : k = n
    BY DEF Fronted, Closing
  <1>3. \A k \in DOMAIN q : k \in DOMAIN b /\ b[k] = q[k]
    BY JoinFirst
  <1>4. Head(b) = Head(q)
    <2>1. b # <<>> /\ q # <<>>
      BY <1>2, <1>3
    <2>2. 1 \in DOMAIN q
      BY <1>0, <1>2
    <2> HIDE DEF b
    <2> QED BY <1>1, <1>3, <2>1, <2>2, HeadIs
  <1> HIDE DEF b
  <1>5. n \in Closing(b)
    BY <1>2, <1>3 DEF Closing
  <1>6. ASSUME NEW k \in Closing(b) PROVE n <= k
    <2>1. k \in DOMAIN b /\ k > 2 /\ b[k].piece \in {"rule", "dashes"} /\ k \in 1..Len(b)
      BY <1>1, PageIs DEF Closing
    <2>2. k \in DOMAIN q => k = n
      BY <1>2, <1>3, <2>1 DEF Closing
    <2> QED BY <1>0, <2>1, <2>2
  <1>7. Min(Closing(b)) = n
    <2>1. Closing(b) \in SUBSET (1..Len(b)) /\ Len(b) \in Nat
      BY <1>1, PageIs DEF Closing
    <2> DEFINE m == Min(Closing(b))
    <2>2. m \in Closing(b) /\ m <= n
      BY <1>5, <2>1, FirstPlace
    <2> HIDE DEF m
    <2>3. n <= m /\ m \in Nat
      BY <1>6, <2>1, <2>2
    <2>4. m <= n
      BY <2>2
    <2> HIDE DEF n
    <2>5. m = n
      BY <1>0, <2>3, <2>4
    <2> QED BY <2>5 DEF m
  <1>8. SubSeq(b, 2, n - 1) = SubSeq(q, 2, n - 1)
    <2>1. 2 \in 1..n /\ n - 1 \in 1..n /\ y \in Seq(Piece)
      BY <1>0, <1>2, PageIs
    <2> QED BY <1>0, <2>1, SubSeqOfConcat1 DEF b, Join
  <1> QED BY <1>1, <1>4, <1>5, <1>7, <1>8 DEF b, FrontOf

(* A page read with front matter. *)
LEMMA SplitFronted ==
  ASSUME NEW q \in Page, Fronted(q), Head(q) = Rule, NEW y \in Page
  PROVE  LET split == SplitFrontMatter(Join(q, y))
         IN  IF IsYAML(FrontOf(q))
             THEN ~split.error /\ split.body = TrimLeft(y) /\ split.keys = KeysOf(FrontOf(q))
             ELSE split.error
  <1> DEFINE b == Join(q, y)
             m == Min(Closing(b))
             head == SubSeq(b, 2, m - 1)
             body == SubSeq(b, m + 1, Len(b))
  <1>1. Closing(b) # {} /\ Head(b) = Rule /\ m = Len(q)
    BY FrontRead
  <1>2. head = FrontOf(q)
    <2>1. SubSeq(b, 2, Len(q) - 1) = FrontOf(q)
      BY FrontRead
    <2> HIDE DEF b, m
    <2> QED BY <1>1, <2>1
  <1>3. body = y
    <2>1. SubSeq(b, Len(q) + 1, Len(b)) = y
      BY FrontRead
    <2> HIDE DEF b, m
    <2> QED BY <1>1, <2>1
  <1>4. SplitFrontMatter(b) =
          IF IsYAML(head)
          THEN [error |-> FALSE, body |-> TrimLeft(body), keys |-> KeysOf(head)]
          ELSE [error |-> TRUE, body |-> b, keys |-> NoKeys]
    BY <1>1 DEF SplitFrontMatter
  <1> HIDE DEF b, head, body
  <1>5. CASE IsYAML(FrontOf(q))
    BY <1>2, <1>3, <1>4, <1>5 DEF b
  <1>6. CASE ~IsYAML(FrontOf(q))
    BY <1>2, <1>4, <1>6 DEF b
  <1> QED BY <1>5, <1>6

(* Front matter that is YAML opens no section.                              *)
LEMMA FrontPlain ==
  ASSUME NEW q \in Page, Fronted(q), Head(q) = Rule, IsYAML(FrontOf(q))
  PROVE  Plain(q)
  <1> DEFINE n == Len(q)
  <1>0. n \in Nat /\ DOMAIN q = 1..n /\ q \in Seq(Piece)
    BY PageIs
  <1>1. n \in DOMAIN q /\ n > 2 /\ q[n].piece \in {"rule", "dashes"}
    BY DEF Fronted, Closing
  <1>2. q[1].piece = "rule"
    <2>1. q # <<>>
      BY <1>0, <1>1
    <2> QED BY <2>1, HeadIs DEF Rule
  <1>3. ASSUME NEW k \in 2..(n - 1) PROVE q[k].piece # "begin"
    <2>1. \A l \in 2..(n - 1) : q[l] \in Piece
      BY <1>0, ElementOfSeq
    <2>2. n - 1 \in Int /\ 2 \in Int /\ 2 <= n - 1 /\ (n - 1) - 2 + 1 = n - 2
      BY <1>0, <1>1
    <2>3. /\ FrontOf(q) \in Seq(Piece) /\ Len(FrontOf(q)) = n - 2
          /\ \A l \in 1..(n - 2) : FrontOf(q)[l] = q[2 + l - 1]
      BY <2>1, <2>2, SubSeqProperties DEF FrontOf
    <2> DEFINE f == FrontOf(q)
               l == k - 1
    <2>4. l \in 1..(n - 2) /\ 2 + l - 1 = k
      BY <1>0, <1>1
    <2>5. f[l] = q[k] /\ DOMAIN f = 1..(n - 2)
      BY <1>0, <1>1, <2>3, <2>4
    <2> HIDE DEF l, f
    <2>6. f[l].piece \in {"key", "blank", "heading"} \/ f[l] = Rule
      BY <2>4, <2>5 DEF IsYAML, f
    <2> QED BY <2>5, <2>6 DEF Rule
  <1>4. ASSUME NEW k \in DOMAIN q PROVE q[k].piece # "begin"
    <2>1. k = 1 \/ k = n \/ k \in 2..(n - 1)
      BY <1>0, <1>1
    <2> QED BY <1>1, <1>2, <1>3, <2>1
  <1> QED BY <1>4 DEF Plain, Begins

(* The front matter of a refreshed page is the page's, and what follows it  *)
(* is what followed it, refreshed.                                          *)
LEMMA InjectFront ==
  ASSUME NEW r \in Word, NEW b \in Page, ~SplitFrontMatter(b).error
  PROVE  /\ ~SplitFrontMatter(Inject(b, r)).error
         /\ SplitFrontMatter(Inject(b, r)).keys = SplitFrontMatter(b).keys
         /\ SplitFrontMatter(Inject(b, r)).body = Inject(SplitFrontMatter(b).body, r)
         /\ SplitFrontMatter(b).body \in Page
  <1>0. \A a : NoFront(a) =>
          ~SplitFrontMatter(a).error /\ SplitFrontMatter(a).keys = NoKeys /\ SplitFrontMatter(a).body = a
    BY DEF NoFront, SplitFrontMatter
  <1>1. CASE NoFront(b)
    BY <1>0, <1>1, InjectNoFront
  <1>2. CASE ~NoFront(b)
    <2>1. Closing(b) # {} /\ Head(b) = Rule
      BY <1>2 DEF NoFront
    <2>2. PICK q \in Page, x \in Page : Fronted(q) /\ b = Join(q, x)
      BY <2>1, FrontIs
    <2>3. Head(q) = Rule
      BY <2>1, <2>2, FrontRead
    <2>4. IsYAML(FrontOf(q))
      BY <2>2, <2>3, SplitFronted
    <2>5. Inject(b, r) = Join(q, Inject(x, r)) /\ Inject(x, r) \in Page
      BY <2>2, <2>3, <2>4, FrontPlain, InjectPrefixed, InjectType
    <2>6. TrimLeft(Inject(x, r)) = Inject(TrimLeft(x), r) /\ TrimLeft(x) \in Page
      BY <2>2, InjectTrim
    <2>7. LET split == SplitFrontMatter(Join(q, x))
          IN  ~split.error /\ split.body = TrimLeft(x) /\ split.keys = KeysOf(FrontOf(q))
      BY <2>2, <2>3, <2>4, SplitFronted
    <2>8. LET split == SplitFrontMatter(Join(q, Inject(x, r)))
          IN  ~split.error /\ split.body = TrimLeft(Inject(x, r)) /\ split.keys = KeysOf(FrontOf(q))
      BY <2>2, <2>3, <2>4, <2>5, SplitFronted
    <2> QED BY <2>2, <2>5, <2>6, <2>7, <2>8
  <1> QED BY <1>1, <1>2

(* Refreshing a page changes nothing a reader sees but the tables           *)
(* (sections.go:82): whatever the page, where its regions are open, closed  *)
(* twice or overlap, it keeps its front matter, its title, and its prose    *)
(* around the same sections.                                                *)
THEOREM RefreshingReadsTheSame ==
  ASSUME NEW r \in Word, NEW b \in Page
  PROVE  ReadsTheSame(b, r)
  <1> DEFINE split == SplitFrontMatter(b)
             again == SplitFrontMatter(Inject(b, r))
  <1>1. SUFFICES ASSUME ~ReadPage(b).error
                 PROVE  /\ ~ReadPage(Inject(b, r)).error
                        /\ ReadPage(Inject(b, r)).keys = ReadPage(b).keys
                        /\ ReadPage(Inject(b, r)).title = ReadPage(b).title
                        /\ SplitSegments(ReadPage(Inject(b, r)).body) = SplitSegments(ReadPage(b).body)
    BY DEF ReadsTheSame
  <1>2. \A a : /\ ReadPage(a).error = SplitFrontMatter(a).error
               /\ ReadPage(a).keys = SplitFrontMatter(a).keys
               /\ ReadPage(a).title =
                    KeyOr(SplitFrontMatter(a).keys, "title", SplitTitle(SplitFrontMatter(a).body).title)
               /\ ReadPage(a).body = SplitTitle(SplitFrontMatter(a).body).body
    BY DEF ReadPage
  <1>3. /\ ~again.error /\ again.keys = split.keys
        /\ again.body = Inject(split.body, r) /\ split.body \in Page
    BY <1>1, <1>2, InjectFront
  <1> HIDE DEF split, again
  <1>4. /\ SplitTitle(again.body).title = SplitTitle(split.body).title
        /\ SplitTitle(again.body).body = Inject(SplitTitle(split.body).body, r)
        /\ SplitTitle(split.body).body \in Page
    BY <1>3, InjectTitle
  <1>5. SplitSegments(SplitTitle(again.body).body) = SplitSegments(SplitTitle(split.body).body)
    BY <1>4, InjectTwice
  <1> QED BY <1>2, <1>3, <1>4, <1>5 DEF split, again

-----------------------------------------------------------------------------
(* What the files are when n kinds' pages are written. *)
GenerateAt(after, n, p) ==
  IF n = 0 THEN p.files ELSE Write(after[n - 1], p.kinds[n], p.slugOf[p.kinds[n]])

Generating == INSTANCE Induction WITH Def <- GenerateAt

(* The scaffold of a kind is a page. *)
LEMMA ScaffoldIs ==
  ASSUME NEW r \in Word
  PROVE  Scaffold(r) \in Page
  <1> DEFINE front == << Rule, Key("subcategory", "Resources"), Rule, Space, Heading(r), Space >>
  <1>1. front \in Page
    <2>1. /\ Rule \in Piece /\ Key("subcategory", "Resources") \in Piece
          /\ Space \in Piece /\ Heading(r) \in Piece
      BY WordAssumption DEF Rule, Key, Space, Heading, Piece
    <2> QED BY <2>1 DEF Page
  <1>2. Block("spec") \in Page /\ Block("status") \in Page /\ Block("columns") \in Page
    <2>1. ASSUME NEW section \in Word PROVE Block(section) \in Page
      <3>1. Prose(section) \in Piece /\ Begin(section) \in Piece /\ End(section) \in Piece
        BY DEF Prose, Begin, End, Piece
      <3> QED BY <3>1 DEF Block, Page
    <2>2. "spec" \in Word /\ "status" \in Word /\ "columns" \in Word
      BY WordAssumption
    <2> QED BY <2>1, <2>2
  <1>3. front \o Block("spec") \in Page
    BY <1>1, <1>2, Joined
  <1>4. (front \o Block("spec")) \o Block("status") \in Page
    BY <1>2, <1>3, Joined
  <1>5. ((front \o Block("spec")) \o Block("status")) \o Block("columns") \in Page
    BY <1>2, <1>4, Joined
  <1> QED BY <1>5 DEF Scaffold

(* The scaffold of a kind is titled by the kind, and filed under Resources. *)
LEMMA ScaffoldReads ==
  ASSUME NEW r \in Word
  PROVE  /\ ~ReadPage(Scaffold(r)).error /\ ReadPage(Scaffold(r)).title = r
         /\ ReadPage(Scaffold(r)).keys = [key \in {"subcategory"} |-> "Resources"]
  <1> DEFINE front == << Rule, Key("subcategory", "Resources"), Rule, Space, Heading(r), Space >>
             b == Scaffold(r)
             q == SubSeq(b, 1, 3)
             y == SubSeq(b, 4, Len(b))
  <1>1. b \in Page /\ Len(b) >= 6 /\ \A i \in 1..6 : b[i] = front[i]
    <2>1. front \in Page /\ Len(front) = 6
      <3>1. /\ Rule \in Piece /\ Key("subcategory", "Resources") \in Piece
            /\ Space \in Piece /\ Heading(r) \in Piece
        BY WordAssumption DEF Rule, Key, Space, Heading, Piece
      <3> QED BY <3>1 DEF Page
    <2>2. ASSUME NEW section \in Word PROVE Block(section) \in Page
      <3>1. Prose(section) \in Piece /\ Begin(section) \in Piece /\ End(section) \in Piece
        BY DEF Prose, Begin, End, Piece
      <3> QED BY <3>1 DEF Block, Page
    <2>3. Block("spec") \in Page /\ Block("status") \in Page /\ Block("columns") \in Page
      BY <2>2, WordAssumption
    <2>4. b = ((front \o Block("spec")) \o Block("status")) \o Block("columns")
      BY DEF Scaffold
    <2> HIDE DEF front, b
    <2>5. ASSUME NEW c \in Page, NEW d \in Page
          PROVE  c \o d \in Page /\ Len(c \o d) >= Len(c) /\ \A i \in 1..Len(c) : (c \o d)[i] = c[i]
      BY Joined, JoinedPieces, PageIs
    <2> DEFINE one == front \o Block("spec")
               two == one \o Block("status")
    <2>6. one \in Page /\ Len(one) >= 6 /\ \A i \in 1..6 : one[i] = front[i]
      <3>1. one \in Page /\ Len(one) >= Len(front) /\ \A i \in 1..Len(front) : one[i] = front[i]
        BY <2>1, <2>3, <2>5, Zenon
      <3> HIDE DEF one
      <3> QED BY <2>1, <3>1
    <2>7. b = two \o Block("columns")
      BY <2>4
    <2> HIDE DEF one
    <2>8. two \in Page /\ Len(two) >= 6 /\ \A i \in 1..6 : two[i] = front[i]
      <3>1. two \in Page /\ Len(two) >= Len(one) /\ \A i \in 1..Len(one) : two[i] = one[i]
        BY <2>3, <2>5, <2>6, Zenon
      <3> HIDE DEF two
      <3>2. Len(one) \in Nat /\ Len(two) \in Nat
        BY <2>6, <3>1, PageIs
      <3> QED BY <2>6, <3>1, <3>2
    <2> HIDE DEF two
    <2>9. b \in Page /\ Len(b) >= Len(two) /\ \A i \in 1..Len(two) : b[i] = two[i]
      BY <2>3, <2>5, <2>7, <2>8
    <2>10. Len(two) \in Nat /\ Len(b) \in Nat
      BY <2>8, <2>9, PageIs
    <2> QED BY <2>8, <2>9, <2>10
  <1>2. /\ b[1] = Rule /\ b[2] = Key("subcategory", "Resources") /\ b[3] = Rule
        /\ b[4] = Space /\ b[5] = Heading(r)
    BY <1>1
  <1> HIDE DEF b, front
  <1>3. Len(b) \in Nat /\ 3 \in 0..Len(b) /\ 3 + 1 = 4 /\ 3 \in 1..Len(b)
    BY <1>1, PageIs
  <1>4. q \in Page /\ Len(q) = 3 /\ y \in Page /\ b = Join(q, y)
    BY <1>1, <1>3, Cut
  <1> HIDE DEF q, y
  <1>5. DOMAIN q = 1..3 /\ q[1] = Rule /\ q[2] = Key("subcategory", "Resources") /\ q[3] = Rule
    <2>1. DOMAIN q = 1..3 /\ 1 \in 1..3 /\ 2 \in 1..3 /\ 3 \in 1..3
      BY <1>4, PageIs
    <2> QED BY <1>2, <1>4, <2>1, JoinFirst
  <1>6. Fronted(q) /\ Head(q) = Rule
    <2>1. Rule.piece = "rule"
      BY DEF Rule
    <2>2. \A k \in 1..3 : k > 2 <=> k = 3
      OBVIOUS
    <2>3. Closing(q) = {3}
      BY <1>5, <2>1, <2>2 DEF Closing
    <2>4. q # <<>>
      BY <1>4
    <2> QED BY <1>4, <1>5, <2>3, <2>4, HeadIs DEF Fronted
  <1> DEFINE key == Key("subcategory", "Resources")
  <1>7. FrontOf(q) = <<key>>
    <2>0. q \in Seq(Piece) /\ 2 \in 1..Len(q)
      BY <1>4 DEF Page
    <2>1. q \in Seq(Piece) /\ \A i \in 2..2 : q[i] \in Piece
      <3>1. q[2] \in Piece
        BY <2>0, ElementOfSeq
      <3>2. \A i \in 2..2 : i = 2
        OBVIOUS
      <3> QED BY <2>0, <3>1, <3>2
    <2>2. /\ FrontOf(q) \in Seq(Piece) /\ Len(FrontOf(q)) = 1 /\ FrontOf(q)[1] = q[2]
      BY <1>4, <2>1, SubSeqProperties DEF FrontOf
    <2>3. <<key>> \in Seq(Piece) /\ Len(<<key>>) = 1 /\ <<key>>[1] = key
      BY <1>5, <2>1
    <2> HIDE DEF key
    <2>4. \A i \in 1..1 : i = 1
      OBVIOUS
    <2> QED BY <1>5, <2>2, <2>3, <2>4, SeqEqual DEF key
  <1>8. IsYAML(<<key>>) /\ KeysOf(<<key>>) = [k \in {"subcategory"} |-> "Resources"]
    <2>1. key.piece = "key" /\ key.of = "subcategory" /\ key.value = "Resources"
      BY DEF Key
    <2> HIDE DEF key
    <2>2. DOMAIN <<key>> = {1} /\ <<key>>[1] = key
      OBVIOUS
    <2>3. IsYAML(<<key>>)
      BY <2>1, <2>2 DEF IsYAML
    <2> DEFINE keys == {<<key>>[k] : k \in {l \in DOMAIN <<key>> : <<key>>[l].piece = "key"}}
    <2>4. keys = {key}
      BY <2>1, <2>2
    <2>5. {m.of : m \in {key}} = {"subcategory"}
      BY <2>1
    <2>6. (CHOOSE m \in {key} : m.of = "subcategory") = key
      BY <2>1
    <2>7. KeysOf(<<key>>) = [k \in {m.of : m \in {key}} |-> (CHOOSE m \in {key} : m.of = k).value]
      <3>1. KeysOf(<<key>>) = [k \in {m.of : m \in keys} |-> (CHOOSE m \in keys : m.of = k).value]
        BY DEF KeysOf
      <3> HIDE DEF keys
      <3> QED BY <2>4, <3>1
    <2> QED BY <2>1, <2>3, <2>5, <2>6, <2>7
  <1>9. /\ ~SplitFrontMatter(b).error /\ SplitFrontMatter(b).body = TrimLeft(y)
        /\ SplitFrontMatter(b).keys = [k \in {"subcategory"} |-> "Resources"]
    <2>1. LET split == SplitFrontMatter(Join(q, y))
          IN  ~split.error /\ split.body = TrimLeft(y) /\ split.keys = KeysOf(FrontOf(q))
      BY <1>4, <1>6, <1>7, <1>8, SplitFronted
    <2> QED BY <1>4, <1>7, <1>8, <2>1
  <1> DEFINE x == TrimLeft(y)
  <1>10. x \in Page /\ x # <<>> /\ Head(x) = Heading(r) /\ Starts(x)
    <2>1. x \in Page /\ Starts(x) /\ \E s \in Page : Spaces(s) /\ y = Join(s, x)
      BY <1>4, TrimIs
    <2> HIDE DEF x
    <2>2. PICK s \in Page : Spaces(s) /\ y = Join(s, x)
      BY <2>1
    <2>3. Len(y) = Len(b) - 3 /\ Len(y) \in Nat /\ DOMAIN y = 1..Len(y)
      <3>1. Len(b) = Len(q) + Len(y) /\ Len(y) \in Nat
        BY <1>4, JoinIs, PageIs
      <3> QED BY <1>3, <1>4, <3>1, PageIs
    <2>4. 1 \in DOMAIN y /\ 2 \in DOMAIN y /\ y[1] = Space /\ y[2] = Heading(r)
      <3>1. 1 \in DOMAIN y /\ 2 \in DOMAIN y
        BY <1>1, <1>3, <2>3
      <3>2. b[Len(q) + 1] = y[1] /\ b[Len(q) + 2] = y[2]
        BY <1>4, <3>1, JoinSecond
      <3>3. Len(q) + 1 = 4 /\ Len(q) + 2 = 5
        BY <1>4
      <3> QED BY <1>2, <3>1, <3>2, <3>3
    <2>5. Heading(r) # Space
      BY DEF Heading, Space
    <2>6. Len(s) \in Nat /\ DOMAIN s = 1..Len(s) /\ Len(x) \in Nat /\ DOMAIN x = 1..Len(x) /\ Len(y) = Len(s) + Len(x)
      BY <2>1, <2>2, PageIs, JoinIs
    <2>7. 2 \notin DOMAIN s
      <3>1. ASSUME 2 \in DOMAIN s PROVE y[2] = Space
        BY <2>1, <2>2, <3>1, JoinFirst DEF Spaces
      <3> QED BY <2>4, <2>5, <3>1
    <2>8. Len(s) # 0
      <3>1. ASSUME Len(s) = 0 PROVE FALSE
        <4>1. 1 \in DOMAIN x /\ Len(s) + 1 = 1
          BY <2>3, <2>4, <2>6, <3>1
        <4>2. y[Len(s) + 1] = x[1]
          BY <2>1, <2>2, <4>1, JoinSecond
        <4>3. x # <<>>
          BY <4>1
        <4> QED BY <2>1, <2>4, <4>1, <4>2, <4>3, HeadIs DEF Starts
      <3> QED BY <3>1
    <2>9. Len(s) = 1
      BY <2>6, <2>7, <2>8
    <2>10. 1 \in DOMAIN x /\ Len(s) + 1 = 2
      BY <2>3, <2>4, <2>6, <2>9
    <2>11. y[Len(s) + 1] = x[1]
      BY <2>1, <2>2, <2>10, JoinSecond
    <2>12. x # <<>>
      BY <2>10
    <2> QED BY <2>1, <2>4, <2>10, <2>11, <2>12, HeadIs
  <1> HIDE DEF x
  <1>11. TrimLeft(x) = x
    <2>1. Join(<<>>, x) = x
      BY <1>10, ConcatEmptySeq DEF Join, Page
    <2>2. Spaces(<<>>)
      BY DEF Spaces
    <2> QED BY <1>10, <2>1, <2>2, EmptyPage, TrimJoined
  <1>12. SplitTitle(x).title = r
    <2>1. Heading(r).piece = "heading" /\ Heading(r).of = r
      BY DEF Heading
    <2> QED BY <1>10, <1>11, <2>1 DEF SplitTitle
  <1>13. SplitFrontMatter(b).body = x
    BY <1>9 DEF x
  <1>14. KeyOr([k \in {"subcategory"} |-> "Resources"], "title", r) = r
    BY DEF KeyOr
  <1> QED BY <1>9, <1>12, <1>13, <1>14 DEF ReadPage, b

(* What no key says. *)
LEMMA NoKeyRead ==
  ASSUME NEW key, NEW default
  PROVE  KeyOr(NoKeys, key, default) = default
  <1>1. DOMAIN NoKeys = {}
    BY DEF NoKeys
  <1> QED BY <1>1 DEF KeyOr

(* A page that is not there reads as nothing does. *)
LEMMA NothingReads ==
  ~ReadPage(<<>>).error /\ ReadPage(<<>>).title = "" /\ ReadPage(<<>>).keys = NoKeys
  <1>1. Closing(<<>>) = {} /\ TrimLeft(<<>>) = <<>>
    BY DEF Closing, TrimLeft
  <1>2. SplitFrontMatter(<<>>) = [error |-> FALSE, body |-> <<>>, keys |-> NoKeys]
    BY <1>1 DEF SplitFrontMatter
  <1>3. SplitTitle(<<>>).title = ""
    BY <1>1 DEF SplitTitle
  <1>4. KeyOr(NoKeys, "title", "") = ""
    BY NoKeyRead, Zenon
  <1> DEFINE split == SplitFrontMatter(<<>>)
  <1>5. split.error = FALSE /\ split.body = <<>> /\ split.keys = NoKeys
    BY <1>2
  <1> HIDE DEF split
  <1>6. /\ ReadPage(<<>>).error = split.error /\ ReadPage(<<>>).keys = split.keys
        /\ ReadPage(<<>>).title = KeyOr(split.keys, "title", SplitTitle(split.body).title)
    BY DEF ReadPage, split
  <1>7. KeyOr(split.keys, "title", SplitTitle(split.body).title) = ""
    BY <1>3, <1>4, <1>5, Zenon
  <1>8. ~split.error
    BY <1>5
  <1> QED BY <1>5, <1>6, <1>7, <1>8, Zenon

(* Files that hold pages. *)
HoldPages(files) == \A f \in DOMAIN files : files[f] \in Page

(* The page of a kind is in date once it was written. *)
LEMMA WrittenInDate ==
  ASSUME NEW files, HoldPages(files), NEW r \in Word, NEW path, NEW after,
         path \in DOMAIN after, after[path] = PageContent(files, r, path)
  PROVE  ~Stale(after, r, path)
  <1> DEFINE old == IF path \in DOMAIN files THEN files[path] ELSE Scaffold(r)
  <1>1. old \in Page
    BY ScaffoldIs DEF HoldPages
  <1>2. Inject(Inject(old, r), r) = Inject(old, r)
    BY <1>1, InjectTwice
  <1>3. PageContent(files, r, path) = Inject(old, r)
    BY DEF PageContent
  <1> HIDE DEF old
  <1>4. PageContent(after, r, path) = Inject(Inject(old, r), r)
    BY <1>3 DEF PageContent
  <1> QED BY <1>2, <1>3, <1>4 DEF Stale

(* The page of a kind just written is in date, and the others are as they   *)
(* were.                                                                    *)
LEMMA WriteOne ==
  ASSUME NEW files, HoldPages(files), NEW r \in Word, NEW slug
  PROVE  LET after == Write(files, r, slug)
         IN  /\ DOMAIN after = DOMAIN files \cup {slug} /\ HoldPages(after)
             /\ ~Stale(after, r, slug)
             /\ \A f \in DOMAIN files : f # slug => after[f] = files[f]
  <1> DEFINE old == IF slug \in DOMAIN files THEN files[slug] ELSE Scaffold(r)
             after == Write(files, r, slug)
  <1>1. old \in Page
    BY ScaffoldIs DEF HoldPages
  <1>2. Inject(old, r) \in Page
    BY <1>1, InjectType
  <1>3. PageContent(files, r, slug) = Inject(old, r)
    BY DEF PageContent
  <1> HIDE DEF old
  <1>4. /\ DOMAIN after = DOMAIN files \cup {slug}
        /\ after[slug] = Inject(old, r)
        /\ \A f \in DOMAIN files : f # slug => after[f] = files[f]
    BY <1>3 DEF Write
  <1> HIDE DEF after
  <1>5. HoldPages(after)
    BY <1>2, <1>4 DEF HoldPages
  <1>6. ~Stale(after, r, slug)
    BY <1>3, <1>4, WrittenInDate
  <1> QED BY <1>4, <1>5, <1>6 DEF after

(* A page that is left alone stays in date. *)
LEMMA StaysInDate ==
  ASSUME NEW files, NEW after, NEW r, NEW slug,
         DOMAIN files \subseteq DOMAIN after, after[slug] = files[slug], ~Stale(files, r, slug)
  PROVE  ~Stale(after, r, slug)
  BY DEF Stale, PageContent

(* What is so of the files when n kinds' pages are written. *)
SettledAt(after, files, kinds, slugOf, n) ==
  /\ DOMAIN files \subseteq DOMAIN after /\ HoldPages(after)
  /\ \A k \in 1..n : slugOf[kinds[k]] \in DOMAIN after
  /\ \A k \in 1..n :
       (\A l \in (k + 1)..n : slugOf[kinds[l]] # slugOf[kinds[k]]) => ~Stale(after, kinds[k], slugOf[kinds[k]])
  /\ \A f \in DOMAIN files : (\A k \in 1..n : slugOf[kinds[k]] # f) => after[f] = files[f]

(* Writing the next kind's page keeps it so. *)
LEMMA SettlesOn ==
  ASSUME NEW files, NEW kinds, NEW slugOf, NEW n \in Nat, NEW before,
         kinds[n + 1] \in Word, SettledAt(before, files, kinds, slugOf, n)
  PROVE  SettledAt(Write(before, kinds[n + 1], slugOf[kinds[n + 1]]), files, kinds, slugOf, n + 1)
  <1> DEFINE m == n + 1
             slug == slugOf[kinds[m]]
             after == Write(before, kinds[m], slug)
  <1>1. /\ DOMAIN after = DOMAIN before \cup {slug} /\ HoldPages(after)
        /\ ~Stale(after, kinds[m], slug)
        /\ \A f \in DOMAIN before : f # slug => after[f] = before[f]
    BY WriteOne, ZenonT(60) DEF SettledAt
  <1>2. /\ DOMAIN files \subseteq DOMAIN before
        /\ \A k \in 1..n : slugOf[kinds[k]] \in DOMAIN before
        /\ \A k \in 1..n : (\A l \in (k + 1)..n : slugOf[kinds[l]] # slugOf[kinds[k]])
                             => ~Stale(before, kinds[k], slugOf[kinds[k]])
        /\ \A f \in DOMAIN files : (\A k \in 1..n : slugOf[kinds[k]] # f) => before[f] = files[f]
    BY DEF SettledAt
  <1> HIDE DEF after
  <1>3. \A k \in 1..m : k = m \/ k \in 1..n
    OBVIOUS
  <1>4. m \in 1..m /\ \A k \in 1..n : k \in 1..m
    OBVIOUS
  <1>5. \A k \in 1..m : slugOf[kinds[k]] \in DOMAIN after
    BY <1>1, <1>2, <1>3
  <1>6. ASSUME NEW k \in 1..m, \A l \in (k + 1)..m : slugOf[kinds[l]] # slugOf[kinds[k]]
        PROVE  ~Stale(after, kinds[k], slugOf[kinds[k]])
    <2>1. CASE k = m
      BY <1>1, <2>1
    <2>2. CASE k \in 1..n
      <3>1. m \in (k + 1)..m /\ \A l \in (k + 1)..n : l \in (k + 1)..m
        BY <2>2
      <3>2. slugOf[kinds[k]] # slug /\ ~Stale(before, kinds[k], slugOf[kinds[k]])
        BY <1>2, <1>6, <2>2, <3>1
      <3>3. slugOf[kinds[k]] \in DOMAIN before
        BY <1>2, <2>2
      <3>4. after[slugOf[kinds[k]]] = before[slugOf[kinds[k]]] /\ DOMAIN before \subseteq DOMAIN after
        BY <1>1, <3>2, <3>3
      <3> QED BY <3>2, <3>4, StaysInDate
    <2> QED BY <1>3, <2>1, <2>2
  <1>7. ASSUME NEW f \in DOMAIN files, \A k \in 1..m : slugOf[kinds[k]] # f PROVE after[f] = files[f]
    BY <1>1, <1>2, <1>4, <1>7
  <1>8. DOMAIN files \subseteq DOMAIN after
    BY <1>1, <1>2
  <1> HIDE DEF m
  <1>9. SettledAt(after, files, kinds, slugOf, m)
    BY <1>1, <1>5, <1>6, <1>7, <1>8 DEF SettledAt
  <1> QED BY <1>9 DEF after, m

(* What is on disk as one kind's page is written after another. *)
WritesInTurn(after, files, kinds, slugOf, done) ==
  /\ after[0] = files
  /\ \A n \in Nat : n + 1 <= done => after[n + 1] = Write(after[n], kinds[n + 1], slugOf[kinds[n + 1]])

(* Generate writes one kind's page after another. *)
LEMMA GenerateSteps ==
  ASSUME NEW files, NEW kinds \in Seq(Word), NEW slugOf, NEW fails \in 0..Len(kinds)
  PROVE  LET done == Reached(kinds, fails) IN
         /\ done \in Nat /\ done <= Len(kinds) /\ \A n \in 1..done : kinds[n] \in Word
         /\ \E after : /\ WritesInTurn(after, files, kinds, slugOf, done)
                       /\ after[done] = Generate(files, kinds, slugOf, fails)
  <1> DEFINE done == Reached(kinds, fails)
             Counts == 0..done
             rank == [n \in Counts |-> n]
             p == [files |-> files, kinds |-> kinds, slugOf |-> slugOf]
             after == CHOOSE g : g = [n \in Counts |-> GenerateAt(g, n, p)]
  <1>1. done \in Nat /\ done <= Len(kinds) /\ \A n \in 1..done : kinds[n] \in Word
    <2>1. Len(kinds) \in Nat /\ \A n \in 1..Len(kinds) : kinds[n] \in Word
      BY ElementOfSeq
    <2> QED BY <2>1 DEF Reached
  <1>2. Generate(files, kinds, slugOf, fails) = after[done]
    BY DEF Generate, GenerateAt
  <1>3. after = [n \in Counts |-> GenerateAt(after, n, p)]
    <2> HIDE DEF done, p
    <2>1. rank \in [Counts -> Nat]
      BY <1>1
    <2>2. Generating!NeedsSmaller(Counts, rank, p)
      <3> SUFFICES ASSUME NEW n \in Counts, NEW g, NEW h,
                          \A m \in Generating!Smaller(Counts, rank, n) : g[m] = h[m]
                   PROVE  GenerateAt(g, n, p) = GenerateAt(h, n, p)
        BY DEF Generating!NeedsSmaller
      <3>1. n # 0 => n - 1 \in Counts /\ rank[n - 1] < rank[n]
        BY <1>1
      <3> QED BY <3>1 DEF GenerateAt, Generating!Smaller
    <2>3. \E g : g = [n \in Counts |-> GenerateAt(g, n, p)]
      <3> HIDE DEF rank, Counts
      <3> QED BY <2>1, <2>2, Generating!Defined
    <2> QED BY <2>3
  <1> HIDE DEF after, done
  <1>4. after[0] = files
    <2>1. 0 \in Counts
      BY <1>1
    <2> QED BY <1>3, <2>1 DEF GenerateAt
  <1>5. ASSUME NEW n \in Nat, n + 1 <= done
        PROVE  after[n + 1] = Write(after[n], kinds[n + 1], slugOf[kinds[n + 1]])
    <2>1. n + 1 \in Counts /\ n + 1 # 0 /\ (n + 1) - 1 = n
      BY <1>1, <1>5
    <2> QED BY <1>3, <2>1 DEF GenerateAt
  <1>6. WritesInTurn(after, files, kinds, slugOf, done)
    BY <1>4, <1>5 DEF WritesInTurn
  <1> QED BY <1>1, <1>2, <1>6 DEF done

(* `docs generate' settles (generate.go:67): whatever pages were on disk,   *)
(* however many kinds share a singular and whichever kind fails, a page it  *)
(* wrote `docs check' finds in date, but where a later kind wrote its own   *)
(* tables over it, and a page it did not reach is as it was.                *)
THEOREM GenerateSettles ==
  ASSUME NEW files, HoldPages(files), NEW kinds \in Seq(Word), NEW slugOf, NEW fails \in 0..Len(kinds)
  PROVE  Settles(files, kinds, slugOf, fails)
  <1> DEFINE done == Reached(kinds, fails)
  <1>1. done \in Nat /\ done <= Len(kinds) /\ \A n \in 1..done : kinds[n] \in Word
    BY GenerateSteps
  <1>2. PICK after : /\ WritesInTurn(after, files, kinds, slugOf, done)
                     /\ after[done] = Generate(files, kinds, slugOf, fails)
    BY GenerateSteps
  <1> HIDE DEF done
  <1>3. /\ after[0] = files /\ after[done] = Generate(files, kinds, slugOf, fails)
        /\ \A n \in Nat : n + 1 <= done => after[n + 1] = Write(after[n], kinds[n + 1], slugOf[kinds[n + 1]])
    BY <1>2 DEF WritesInTurn
  <1> DEFINE S == {n \in Nat : n <= done => SettledAt(after[n], files, kinds, slugOf, n)}
  <1>4. 0 \in S
    <2>1. 1..0 = {}
      OBVIOUS
    <2> QED BY <1>3, <2>1 DEF SettledAt
  <1>5. ASSUME NEW n \in Nat, n \in S PROVE n + 1 \in S
    <2>1. ASSUME n + 1 <= done PROVE SettledAt(after[n + 1], files, kinds, slugOf, n + 1)
      <3>1. SettledAt(after[n], files, kinds, slugOf, n)
        BY <1>1, <1>5, <2>1
      <3>2. kinds[n + 1] \in Word
        BY <1>1, <2>1
      <3> QED BY <1>3, <2>1, <3>1, <3>2, SettlesOn
    <2> QED BY <2>1
  <1>6. Nat \subseteq S
    <2> HIDE DEF S
    <2> QED BY <1>4, <1>5, Generating!ByNumber
  <1>7. SettledAt(after[done], files, kinds, slugOf, done)
    BY <1>1, <1>6
  <1> QED BY <1>3, <1>7 DEF Settles, SettledAt, done

(* What is on disk when the pages of n kinds, each its own, are written. *)
WrittenAt(after, files, kinds, slugOf, n) ==
  /\ after = [f \in DOMAIN after |-> after[f]]
  /\ DOMAIN after = DOMAIN files \cup {slugOf[kinds[k]] : k \in 1..n}
  /\ \A k \in 1..n : after[slugOf[kinds[k]]] = PageContent(files, kinds[k], slugOf[kinds[k]])
  /\ \A f \in DOMAIN files : (\A k \in 1..n : slugOf[kinds[k]] # f) => after[f] = files[f]

(* Writing the next kind's page keeps it so. *)
LEMMA WritesOn ==
  ASSUME NEW files, NEW kinds, NEW slugOf, NEW n \in Nat, NEW before, WrittenAt(before, files, kinds, slugOf, n),
         \A k \in 1..n : slugOf[kinds[k]] # slugOf[kinds[n + 1]]
  PROVE  WrittenAt(Write(before, kinds[n + 1], slugOf[kinds[n + 1]]), files, kinds, slugOf, n + 1)
  <1> DEFINE m == n + 1
             slug == slugOf[kinds[m]]
             after == Write(before, kinds[m], slug)
  <1>1. /\ DOMAIN before = DOMAIN files \cup {slugOf[kinds[k]] : k \in 1..n}
        /\ \A k \in 1..n : before[slugOf[kinds[k]]] = PageContent(files, kinds[k], slugOf[kinds[k]])
        /\ \A f \in DOMAIN files : (\A k \in 1..n : slugOf[kinds[k]] # f) => before[f] = files[f]
        /\ \A k \in 1..n : slugOf[kinds[k]] # slug
    BY DEF WrittenAt
  <1>2. /\ after = [f \in DOMAIN before \cup {slug} |-> IF f = slug THEN PageContent(before, kinds[m], slug) ELSE before[f]]
    BY DEF Write
  <1> HIDE DEF after
  <1>3. /\ DOMAIN after = DOMAIN before \cup {slug} /\ after = [f \in DOMAIN after |-> after[f]]
        /\ after[slug] = PageContent(before, kinds[m], slug)
        /\ \A f \in DOMAIN before : f # slug => after[f] = before[f]
    BY <1>2
  <1>4. slug \in DOMAIN before <=> slug \in DOMAIN files
    BY <1>1
  <1>5. slug \in DOMAIN files => before[slug] = files[slug]
    BY <1>1
  <1>6. PageContent(before, kinds[m], slug) = PageContent(files, kinds[m], slug)
    BY <1>4, <1>5 DEF PageContent
  <1>7. \A k \in 1..m : k = m \/ k \in 1..n
    OBVIOUS
  <1>8. m \in 1..m /\ \A k \in 1..n : k \in 1..m
    OBVIOUS
  <1>9. DOMAIN after = DOMAIN files \cup {slugOf[kinds[k]] : k \in 1..m}
    <2>1. {slugOf[kinds[k]] : k \in 1..m} = {slugOf[kinds[k]] : k \in 1..n} \cup {slug}
      <3> HIDE DEF m
      <3> QED BY <1>7, <1>8
    <2> QED BY <1>1, <1>3, <2>1
  <1>10. ASSUME NEW k \in 1..m PROVE after[slugOf[kinds[k]]] = PageContent(files, kinds[k], slugOf[kinds[k]])
    <2>1. CASE k = m
      BY <1>3, <1>6, <2>1
    <2>2. CASE k \in 1..n
      <3>1. slugOf[kinds[k]] \in DOMAIN before /\ slugOf[kinds[k]] # slug
        BY <1>1, <2>2
      <3>2. after[slugOf[kinds[k]]] = before[slugOf[kinds[k]]]
        BY <1>3, <3>1
      <3> QED BY <1>1, <2>2, <3>2
    <2> QED BY <1>7, <2>1, <2>2
  <1>11. ASSUME NEW f \in DOMAIN files, \A k \in 1..m : slugOf[kinds[k]] # f PROVE after[f] = files[f]
    BY <1>1, <1>3, <1>8, <1>11
  <1> HIDE DEF m
  <1>12. WrittenAt(after, files, kinds, slugOf, m)
    BY <1>3, <1>9, <1>10, <1>11 DEF WrittenAt
  <1> QED BY <1>12 DEF after, m

(* When no two kinds share a page, each kind's is what it should be and no  *)
(* other file is touched.                                                   *)
LEMMA GenerateWrites ==
  ASSUME NEW files, files = [f \in DOMAIN files |-> files[f]], NEW kinds \in Seq(Word), NEW slugOf,
         \A j, k \in 1..Len(kinds) : slugOf[kinds[j]] = slugOf[kinds[k]] => j = k
  PROVE  WrittenAt(Generate(files, kinds, slugOf, 0), files, kinds, slugOf, Len(kinds))
  <1> DEFINE done == Reached(kinds, 0)
  <1>1. Len(kinds) \in Nat /\ 0 \in 0..Len(kinds) /\ done = Len(kinds)
    BY DEF Reached
  <1>2. PICK after : /\ WritesInTurn(after, files, kinds, slugOf, done)
                     /\ after[done] = Generate(files, kinds, slugOf, 0)
    BY <1>1, GenerateSteps
  <1> HIDE DEF done
  <1>3. /\ after[0] = files /\ after[done] = Generate(files, kinds, slugOf, 0)
        /\ \A n \in Nat : n + 1 <= done => after[n + 1] = Write(after[n], kinds[n + 1], slugOf[kinds[n + 1]])
    BY <1>2 DEF WritesInTurn
  <1> DEFINE S == {n \in Nat : n <= done => WrittenAt(after[n], files, kinds, slugOf, n)}
  <1>4. 0 \in S
    <2>1. 1..0 = {} /\ {slugOf[kinds[k]] : k \in 1..0} = {}
      OBVIOUS
    <2>2. WrittenAt(files, files, kinds, slugOf, 0)
      BY <2>1 DEF WrittenAt
    <2> QED BY <1>3, <2>2
  <1>5. ASSUME NEW n \in Nat, n \in S PROVE n + 1 \in S
    <2>1. ASSUME n + 1 <= done PROVE WrittenAt(after[n + 1], files, kinds, slugOf, n + 1)
      <3>1. WrittenAt(after[n], files, kinds, slugOf, n)
        BY <1>1, <1>5, <2>1
      <3>2. ASSUME NEW k \in 1..n PROVE slugOf[kinds[k]] # slugOf[kinds[n + 1]]
        <4>1. k \in 1..Len(kinds) /\ n + 1 \in 1..Len(kinds) /\ k # n + 1
          BY <1>1, <2>1
        <4> QED BY <4>1
      <3> QED BY <1>3, <2>1, <3>1, <3>2, WritesOn
    <2> QED BY <2>1
  <1>6. Nat \subseteq S
    <2> HIDE DEF S
    <2> QED BY <1>4, <1>5, Generating!ByNumber
  <1>7. WrittenAt(after[done], files, kinds, slugOf, done)
    BY <1>1, <1>6
  <1> QED BY <1>1, <1>3, <1>7

-----------------------------------------------------------------------------
(* Selectors.                                                               *)

(* The greatest of some places. *)
LEMMA LastPlace ==
  ASSUME NEW n \in Nat, NEW places \in SUBSET (1..n), places # {}
  PROVE  Max(places) \in places /\ \A k \in places : k <= Max(places)
  <1> DEFINE back == {n - k : k \in places}
  <1>1. back \in SUBSET Nat /\ back # {}
    <2>1. PICK k : k \in places
      OBVIOUS
    <2>2. n - k \in back
      BY <2>1
    <2>3. \A m \in places : n - m \in Nat
      OBVIOUS
    <2> QED BY <2>2, <2>3
  <1>2. PICK b \in back : \A c \in back : b <= c
    BY <1>1, Injecting!LeastNumber
  <1>3. PICK m \in places : b = n - m
    BY <1>2
  <1>4. \A k \in places : k <= m
    <2> SUFFICES ASSUME NEW k \in places PROVE k <= m
      OBVIOUS
    <2>1. n - k \in back
      OBVIOUS
    <2> HIDE DEF back
    <2> QED BY <1>2, <1>3, <2>1
  <1>5. \E x \in places : \A y \in places : x >= y
    BY <1>4
  <1>6. Max(places) \in places /\ \A k \in places : Max(places) >= k
    BY <1>5 DEF Max
  <1> QED BY <1>6

(* A text that neither begins nor ends with a blank. *)
Trimmed(s) == s = <<>> \/ (s[1] # Blank /\ s[Len(s)] # Blank)

(* A text is another from a place on, with blanks around it.                *)
TrimsTo(s, u, i) ==
  /\ i + Len(u) <= Len(s)
  /\ \A k \in 1..Len(u) : u[k] = s[i + k]
  /\ \A k \in 1..Len(s) : k <= i \/ i + Len(u) < k => s[k] = Blank

(* Trim takes the blanks around a text off. *)
LEMMA TrimTakes ==
  ASSUME NEW s \in Seq(Mark)
  PROVE  /\ Trim(s) \in Seq(Mark) /\ Trimmed(Trim(s))
         /\ \E i \in Nat : TrimsTo(s, Trim(s), i)
  <1> DEFINE kept == Kept(s)
             u    == Trim(s)
  <1>1. Len(s) \in Nat /\ DOMAIN s = 1..Len(s) /\ \A k \in 1..Len(s) : s[k] \in Mark
    BY ElementOfSeq
  <1>0. kept \in SUBSET (1..Len(s)) /\ \A k \in 1..Len(s) : k \in kept <=> s[k] # Blank
    BY <1>1 DEF Kept
  <1> HIDE DEF kept
  <1>2. CASE kept = {}
    <2>1. u = <<>>
      BY <1>2 DEF Trim, kept
    <2>2. <<>> \in Seq(Mark) /\ Len(<<>>) = 0 /\ 1..0 = {}
      OBVIOUS
    <2>3. TrimsTo(s, <<>>, 0)
      BY <1>1, <1>0, <1>2, <2>2 DEF TrimsTo
    <2> QED BY <2>1, <2>2, <2>3 DEF Trimmed
  <1>3. CASE kept # {}
    <2> DEFINE first == Min(kept)
               last  == Max(kept)
    <2>2. u = SubSeq(s, first, last)
      BY <1>3 DEF Trim, kept
    <2> HIDE DEF u
    <2>3. first \in kept /\ last \in kept /\ \A k \in kept : first <= k /\ k <= last
      <3>1. first \in kept /\ \A k \in kept : first <= k
        BY <1>0, <1>1, <1>3, FirstPlace
      <3>2. last \in kept /\ \A k \in kept : k <= last
        BY <1>0, <1>1, <1>3, LastPlace
      <3> QED BY <3>1, <3>2
    <2> HIDE DEF first, last
    <2>4. first \in 1..Len(s) /\ last \in 1..Len(s) /\ first <= last /\ s[first] # Blank /\ s[last] # Blank
      BY <1>0, <1>1, <2>3
    <2>5. \A k \in 1..Len(s) : k < first \/ last < k => s[k] = Blank
      BY <1>0, <1>1, <2>3, <2>4
    <2>6. first \in 1..(Len(s) + 1) /\ last \in (first - 1)..Len(s) /\ last - first + 1 \in Nat
      BY <1>1, <2>4
    <2>7. /\ u \in Seq(Mark) /\ Len(u) = last - first + 1
          /\ \A k \in 1..(last - first + 1) : u[k] = s[first + k - 1]
      BY <1>1, <2>2, <2>6, SubSeqProperties, SMTT(30)
    <2>8. /\ u[1] = s[first] /\ u[Len(u)] = s[last]
      <3>1. 1 \in 1..(last - first + 1) /\ Len(u) \in 1..(last - first + 1)
            /\ first + 1 - 1 = first /\ first + Len(u) - 1 = last
        BY <2>4, <2>7
      <3> QED BY <2>7, <3>1
    <2>9. TrimsTo(s, u, first - 1)
      <3>1. (first - 1) + Len(u) = last
        BY <2>4, <2>7
      <3>2. \A k \in 1..Len(u) : u[k] = s[(first - 1) + k]
        <4>1. \A k \in 1..Len(u) : first + k - 1 = (first - 1) + k
          BY <2>4, <2>7
        <4> QED BY <2>7, <4>1
      <3>3. \A k \in 1..Len(s) : k <= first - 1 \/ last < k => s[k] = Blank
        BY <2>4, <2>5
      <3> QED BY <2>4, <3>1, <3>2, <3>3 DEF TrimsTo
    <2>10. first - 1 \in Nat
      BY <2>4
    <2> QED BY <2>4, <2>7, <2>8, <2>9, <2>10 DEF Trimmed, u
  <1> QED BY <1>2, <1>3

(* What is left when blanks are taken off is what Trim leaves.              *)
LEMMA TrimLeaves ==
  ASSUME NEW s \in Seq(Mark), NEW u \in Seq(Mark), NEW i \in Nat, TrimsTo(s, u, i), Trimmed(u)
  PROVE  Trim(s) = u
  <1> DEFINE v == Trim(s)
  <1>1. v \in Seq(Mark) /\ Trimmed(v)
    BY TrimTakes
  <1>2. PICK j \in Nat : TrimsTo(s, v, j)
    BY TrimTakes
  <1> HIDE DEF v
  <1>3. Len(s) \in Nat /\ Len(u) \in Nat /\ Len(v) \in Nat /\ i + Len(u) <= Len(s) /\ j + Len(v) <= Len(s)
    BY <1>1, <1>2 DEF TrimsTo
  <1>4. \A k \in 1..Len(u) : k = 1 \/ k = Len(u) => i + k \in 1..Len(s) /\ s[i + k] # Blank
    <2>1. ASSUME NEW k \in 1..Len(u), k = 1 \/ k = Len(u) PROVE i + k \in 1..Len(s) /\ s[i + k] # Blank
      <3>1. u # <<>> /\ u[k] # Blank
        BY <2>1, EmptySeq DEF Trimmed
      <3> QED BY <1>3, <3>1 DEF TrimsTo
    <2> QED BY <2>1
  <1>5. \A k \in 1..Len(v) : k = 1 \/ k = Len(v) => j + k \in 1..Len(s) /\ s[j + k] # Blank
    <2>1. ASSUME NEW k \in 1..Len(v), k = 1 \/ k = Len(v) PROVE j + k \in 1..Len(s) /\ s[j + k] # Blank
      <3>1. v # <<>> /\ v[k] # Blank
        BY <1>1, <2>1, EmptySeq DEF Trimmed
      <3> QED BY <1>2, <1>3, <3>1 DEF TrimsTo
    <2> QED BY <2>1
  <1>6. \A k \in 1..Len(s) : s[k] # Blank => i < k /\ k <= i + Len(u) /\ j < k /\ k <= j + Len(v)
    BY <1>2, <1>3 DEF TrimsTo
  <1>7. Len(u) = 0 <=> Len(v) = 0
    <2>1. ASSUME Len(u) # 0, Len(v) = 0 PROVE FALSE
      <3>1. 1 \in 1..Len(u)
        BY <1>3, <2>1
      <3>2. i + 1 \in 1..Len(s) /\ s[i + 1] # Blank
        BY <1>4, <3>1
      <3> QED BY <1>3, <1>6, <2>1, <3>2
    <2>2. ASSUME Len(v) # 0, Len(u) = 0 PROVE FALSE
      <3>1. 1 \in 1..Len(v)
        BY <1>3, <2>2
      <3>2. j + 1 \in 1..Len(s) /\ s[j + 1] # Blank
        BY <1>5, <3>1
      <3> QED BY <1>3, <1>6, <2>2, <3>2
    <2> QED BY <2>1, <2>2
  <1>8. CASE Len(u) = 0
    BY <1>1, <1>7, <1>8, EmptySeq DEF v
  <1>9. CASE Len(u) # 0
    <2>1. 1 \in 1..Len(u) /\ Len(u) \in 1..Len(u) /\ 1 \in 1..Len(v) /\ Len(v) \in 1..Len(v)
      BY <1>3, <1>7, <1>9
    <2>2. i + 1 \in 1..Len(s) /\ s[i + 1] # Blank /\ i + Len(u) \in 1..Len(s) /\ s[i + Len(u)] # Blank
      BY <1>4, <2>1
    <2>3. j + 1 \in 1..Len(s) /\ s[j + 1] # Blank /\ j + Len(v) \in 1..Len(s) /\ s[j + Len(v)] # Blank
      BY <1>5, <2>1
    <2>4. j < i + 1 /\ i < j + 1 /\ i + Len(u) <= j + Len(v) /\ j + Len(v) <= i + Len(u)
      BY <1>6, <2>2, <2>3
    <2>5. i = j /\ Len(u) = Len(v)
      BY <1>3, <2>4
    <2>6. \A k \in 1..Len(u) : u[k] = v[k]
      BY <1>2, <2>5 DEF TrimsTo
    <2> QED BY <1>1, <2>5, <2>6, SeqEqual DEF v
  <1> QED BY <1>8, <1>9

(* Nothing is taken off a trimmed text. *)
LEMMA TrimAgain ==
  ASSUME NEW s \in Seq(Mark), Trimmed(s)
  PROVE  Trim(s) = s
  <1>1. TrimsTo(s, s, 0)
    <2>1. Len(s) \in Nat
      OBVIOUS
    <2> QED BY <2>1 DEF TrimsTo
  <1> QED BY <1>1, TrimLeaves

(* Where one mark is, and where two are in a row.                           *)
LEMMA OnePlaces ==
  ASSUME NEW s \in Seq(Mark), NEW m
  PROVE  /\ Places(s, <<m>>) \in SUBSET (1..Len(s))
         /\ \A k \in 1..Len(s) : k \in Places(s, <<m>>) <=> s[k] = m
  <1>1. Len(s) \in Nat /\ \A k \in 1..Len(s) : s[k] \in Mark
    BY ElementOfSeq
  <1>2. Len(<<m>>) = 1 /\ <<m>>[1] = m
    OBVIOUS
  <1>3. ASSUME NEW k \in 1..Len(s) PROVE SubSeq(s, k, k + 1 - 1) = <<m>> <=> s[k] = m
    <2> DEFINE one == SubSeq(s, k, k)
    <2>1. one \in Seq(Mark) /\ Len(one) = 1 /\ one[1] = s[k]
      <3>1. k \in 1..(Len(s) + 1) /\ k \in (k - 1)..Len(s) /\ k - k + 1 = 1 /\ 1 \in 1..(k - k + 1) /\ k + 1 - 1 = k
        BY <1>1
      <3> QED BY <1>1, <3>1, SubSeqProperties
    <2> HIDE DEF one
    <2>2. ASSUME s[k] = m PROVE one = <<m>>
      <3>1. <<m>> \in Seq(Mark) /\ Len(<<m>>) = 1 /\ <<m>>[1] = one[1]
        BY <1>1, <2>1, <2>2
      <3>2. \A i \in 1..1 : i = 1
        OBVIOUS
      <3> QED BY <2>1, <3>1, <3>2, SeqEqual
    <2>3. ASSUME one = <<m>> PROVE s[k] = m
      BY <1>2, <2>1, <2>3
    <2>4. k + 1 - 1 = k
      OBVIOUS
    <2> QED BY <2>2, <2>3, <2>4 DEF one
  <1> DEFINE mark == <<m>>
  <1>4. Places(s, mark) = {k \in 1..(Len(s) + 1 - 1) : SubSeq(s, k, k + 1 - 1) = mark}
    BY <1>2 DEF Places
  <1>5. Len(s) + 1 - 1 = Len(s)
    BY <1>1
  <1> HIDE DEF mark
  <1> QED BY <1>3, <1>4, <1>5 DEF mark

(* Where two marks are in a row.                                            *)
LEMMA PairPlaces ==
  ASSUME NEW s \in Seq(Mark), NEW m, NEW n
  PROVE  /\ Places(s, <<m, n>>) \in SUBSET (1..Len(s))
         /\ \A k \in Nat : k \in Places(s, <<m, n>>) <=> k \in 1..(Len(s) - 1) /\ s[k] = m /\ s[k + 1] = n
  <1>1. Len(s) \in Nat /\ \A k \in 1..Len(s) : s[k] \in Mark
    BY ElementOfSeq
  <1>2. Len(<<m, n>>) = 2 /\ <<m, n>>[1] = m /\ <<m, n>>[2] = n
    OBVIOUS
  <1>3. ASSUME NEW k \in 1..(Len(s) - 1)
        PROVE  SubSeq(s, k, k + 2 - 1) = <<m, n>> <=> s[k] = m /\ s[k + 1] = n
    <2> DEFINE two == SubSeq(s, k, k + 1)
    <2>1. two \in Seq(Mark) /\ Len(two) = 2 /\ two[1] = s[k] /\ two[2] = s[k + 1]
      <3>1. /\ k \in 1..(Len(s) + 1) /\ k + 1 \in (k - 1)..Len(s) /\ (k + 1) - k + 1 = 2
            /\ 1 \in 1..((k + 1) - k + 1) /\ 2 \in 1..((k + 1) - k + 1) /\ k + 1 - 1 = k /\ k + 2 - 1 = k + 1
        BY <1>1
      <3> QED BY <1>1, <3>1, SubSeqProperties
    <2> HIDE DEF two
    <2>2. ASSUME s[k] = m, s[k + 1] = n PROVE two = <<m, n>>
      <3>1. k + 1 \in 1..Len(s) /\ k \in 1..Len(s)
        BY <1>1
      <3>2. <<m, n>> \in Seq(Mark) /\ Len(<<m, n>>) = 2 /\ <<m, n>>[1] = two[1] /\ <<m, n>>[2] = two[2]
        BY <1>1, <2>1, <2>2, <3>1
      <3>3. \A i \in 1..2 : i = 1 \/ i = 2
        OBVIOUS
      <3> QED BY <2>1, <3>2, <3>3, SeqEqual
    <2>3. ASSUME two = <<m, n>> PROVE s[k] = m /\ s[k + 1] = n
      BY <1>2, <2>1, <2>3
    <2>4. k + 2 - 1 = k + 1
      OBVIOUS
    <2> QED BY <2>2, <2>3, <2>4 DEF two
  <1> DEFINE pair == <<m, n>>
  <1>4. Places(s, pair) = {k \in 1..(Len(s) + 1 - 2) : SubSeq(s, k, k + 2 - 1) = pair}
    BY <1>2 DEF Places
  <1>5. Len(s) + 1 - 2 = Len(s) - 1 /\ \A k \in 1..(Len(s) - 1) : k \in 1..Len(s)
    BY <1>1
  <1> HIDE DEF pair
  <1> QED BY <1>3, <1>4, <1>5 DEF pair

(* A term is cut at the place of an operator of n marks.                    *)
UpTo(s, at) == SubSeq(s, 1, at)
Onward(s, at)  == SubSeq(s, at, Len(s))

CutAt(s, at, n, negated) == Term(Trim(UpTo(s, at - 1)), Trim(Onward(s, at + n)), negated, TRUE)

Unequal == <<"!", "=">>
Equals  == <<"=", "=">>
Equal   == <<"=">>

(* What ParseRequirement finds, in the order it looks.                      *)
LEMMA ParseIs ==
  ASSUME NEW s
  PROVE  /\ Places(s, Unequal) # {} => ParseRequirement(s) = CutAt(s, Min(Places(s, Unequal)), 2, TRUE)
         /\ Places(s, Unequal) = {} /\ Places(s, Equals) # {} =>
              ParseRequirement(s) = CutAt(s, Min(Places(s, Equals)), 2, FALSE)
         /\ Places(s, Unequal) = {} /\ Places(s, Equals) = {} /\ Places(s, Equal) # {} =>
              ParseRequirement(s) = CutAt(s, Min(Places(s, Equal)), 1, FALSE)
         /\ Places(s, Unequal) = {} /\ Places(s, Equals) = {} /\ Places(s, Equal) = {} =>
              ParseRequirement(s) = IF s # <<>> /\ Head(s) = "!" THEN Term(Trim(Tail(s)), <<>>, TRUE, FALSE)
                                    ELSE Term(s, <<>>, FALSE, FALSE)
  <1> DEFINE found == {k \in DOMAIN Operators : Places(s, Operators[k]) # {}}
             op    == Operators[Min(found)]
  <1>1. DOMAIN Operators = {1, 2, 3} /\ Operators[1] = Unequal /\ Operators[2] = Equals /\ Operators[3] = Equal
    BY DEF Operators, Unequal, Equals, Equal
  <1>2. Len(Unequal) = 2 /\ Len(Equals) = 2 /\ Len(Equal) = 1 /\ Unequal # Equals /\ Unequal # Equal
    <2>1. Unequal[1] # Equals[1] /\ Len(Unequal) = 2 /\ Len(Equals) = 2 /\ Len(Equal) = 1
      BY DEF Unequal, Equals, Equal
    <2> QED BY <2>1
  <1>3. found \in SUBSET {1, 2, 3}
    BY <1>1
  <1>4. /\ 1 \in found <=> Places(s, Unequal) # {}
        /\ 2 \in found <=> Places(s, Equals) # {}
        /\ 3 \in found <=> Places(s, Equal) # {}
    BY <1>1
  <1> DEFINE at == Min(Places(s, op))
  <1>5. ParseRequirement(s) =
          IF found # {}
          THEN Term(Trim(SubSeq(s, 1, at - 1)), Trim(SubSeq(s, at + Len(op), Len(s))), op = Unequal, TRUE)
          ELSE IF s # <<>> /\ Head(s) = "!" THEN Term(Trim(Tail(s)), <<>>, TRUE, FALSE)
               ELSE Term(s, <<>>, FALSE, FALSE)
    BY DEF ParseRequirement, Unequal
  <1>6. ASSUME NEW k \in found, \A l \in found : k <= l PROVE Min(found) = k
    <2> HIDE DEF found
    <2>1. Min(found) \in found /\ \A l \in found : Min(found) <= l
      BY <1>6 DEF Min
    <2>2. k <= Min(found) /\ Min(found) <= k /\ k \in Nat /\ Min(found) \in Nat
      <3>1. \A x \in found : x \in Nat
        BY <1>3
      <3>2. k <= Min(found) /\ Min(found) <= k
        BY <1>6, <2>1
      <3> QED BY <1>6, <2>1, <3>1, <3>2
    <2> QED BY <2>2
  <1> HIDE DEF found
  <1>7. CASE 1 \in found
    <2>1. op = Unequal
      BY <1>1, <1>3, <1>6, <1>7
    <2> HIDE DEF op
    <2> QED BY <1>2, <1>4, <1>5, <1>7, <2>1 DEF CutAt, UpTo, Onward
  <1>8. CASE 1 \notin found /\ 2 \in found
    <2>1. op = Equals
      BY <1>1, <1>3, <1>6, <1>8
    <2> HIDE DEF op
    <2> QED BY <1>2, <1>4, <1>5, <1>8, <2>1 DEF CutAt, UpTo, Onward
  <1>9. CASE 1 \notin found /\ 2 \notin found /\ 3 \in found
    <2>1. op = Equal
      BY <1>1, <1>3, <1>6, <1>9
    <2> HIDE DEF op
    <2> QED BY <1>2, <1>4, <1>5, <1>9, <2>1 DEF CutAt, UpTo, Onward
  <1>10. CASE found = {}
    BY <1>4, <1>5, <1>10
  <1> QED BY <1>3, <1>7, <1>8, <1>9, <1>10

(* A text without a mark, and without two in a row. *)
Without(s, m)        == \A k \in 1..Len(s) : s[k] # m
WithoutPair(s, m, n) == \A k \in 1..(Len(s) - 1) : ~(s[k] = m /\ s[k + 1] = n)

(* Text around some marks. *)
Around(a, m, b) == (a \o m) \o b

(* Its marks are those of the three, one after another.                     *)
LEMMA AroundIs ==
  ASSUME NEW a \in Seq(Mark), NEW m \in Seq(Mark), NEW b \in Seq(Mark)
  PROVE  /\ Around(a, m, b) \in Seq(Mark) /\ Len(Around(a, m, b)) = Len(a) + Len(m) + Len(b)
         /\ \A k \in 1..Len(a) : Around(a, m, b)[k] = a[k]
         /\ \A k \in 1..Len(m) : Around(a, m, b)[Len(a) + k] = m[k]
         /\ \A k \in 1..Len(b) : Around(a, m, b)[Len(a) + Len(m) + k] = b[k]
  <1> DEFINE c == a \o m
             w == c \o b
  <1>1. /\ c \in Seq(Mark) /\ Len(c) = Len(a) + Len(m)
        /\ \A k \in 1..Len(a) : c[k] = a[k]
        /\ \A k \in 1..Len(m) : c[Len(a) + k] = m[k]
    BY ConcatProperties
  <1> HIDE DEF c
  <1>2. /\ w \in Seq(Mark) /\ Len(w) = Len(c) + Len(b)
        /\ \A k \in 1..Len(c) : w[k] = c[k]
        /\ \A k \in 1..Len(b) : w[Len(c) + k] = b[k]
    <2>1. c \in Seq(Mark) /\ b \in Seq(Mark)
      BY <1>1
    <2>2. w \in Seq(Mark)
      BY <2>1, ConcatProperties
    <2>3. Len(w) = Len(c) + Len(b)
      BY <2>1, ConcatProperties
    <2>4. \A k \in 1..Len(c) : w[k] = c[k]
      BY <2>1, ConcatProperties
    <2>5. \A k \in 1..Len(b) : w[Len(c) + k] = b[k]
      BY <2>1, ConcatProperties
    <2> QED BY <2>2, <2>3, <2>4, <2>5
  <1> HIDE DEF w
  <1>4. Len(a) \in Nat /\ Len(m) \in Nat /\ Len(b) \in Nat
    OBVIOUS
  <1>5. \A k \in 1..Len(a) : w[k] = a[k]
    BY <1>1, <1>2, <1>4
  <1>6. \A k \in 1..Len(m) : w[Len(a) + k] = m[k]
    BY <1>1, <1>2, <1>4
  <1>7. \A k \in 1..Len(b) : w[Len(a) + Len(m) + k] = b[k]
    BY <1>1, <1>2
  <1>8. Around(a, m, b) = w
    BY DEF Around, w, c
  <1> QED BY <1>1, <1>2, <1>5, <1>6, <1>7, <1>8

(* It is cut again where it was put together.                               *)
LEMMA AroundCut ==
  ASSUME NEW a \in Seq(Mark), NEW m \in Seq(Mark), NEW b \in Seq(Mark)
  PROVE  /\ SubSeq(Around(a, m, b), 1, Len(a)) = a
         /\ SubSeq(Around(a, m, b), Len(a) + Len(m) + 1, Len(Around(a, m, b))) = b
  <1> DEFINE w == Around(a, m, b)
             c == a \o m
  <1>1. w \in Seq(Mark) /\ Len(w) = Len(a) + Len(m) + Len(b)
    BY AroundIs
  <1>2. \A k \in 1..Len(a) : w[k] = a[k]
    BY AroundIs
  <1>3. c \in Seq(Mark) /\ Len(c) = Len(a) + Len(m)
    BY ConcatProperties
  <1>4. SubSeq(w, Len(c) + 1, Len(w)) = b
    <2>1. w = c \o b
      BY DEF Around
    <2> HIDE DEF c, w
    <2> QED BY <1>3, <2>1, CutBack
  <1> HIDE DEF w, c
  <1>5. SubSeq(w, 1, Len(a)) = a
    <2>1. Len(a) \in 0..Len(w)
      BY <1>1
    <2> DEFINE u == SubSeq(w, 1, Len(a))
    <2>2. /\ u \in Seq(Mark) /\ Len(u) = Len(a)
          /\ \A k \in 1..Len(a) : u[k] = w[k]
      BY <1>1, <2>1, CutInTwo
    <2> HIDE DEF u
    <2>3. u = a
      BY <1>2, <2>2, SeqEqual
    <2> QED BY <2>3 DEF u
  <1> QED BY <1>3, <1>4, <1>5 DEF w

(* Marks of a text around some are marks of one of them.                    *)
LEMMA AroundHas ==
  ASSUME NEW a \in Seq(Mark), NEW m \in Seq(Mark), NEW b \in Seq(Mark),
         NEW k \in 1..Len(Around(a, m, b))
  PROVE  \/ k \in 1..Len(a) /\ Around(a, m, b)[k] = a[k]
         \/ k - Len(a) \in 1..Len(m) /\ Around(a, m, b)[k] = m[k - Len(a)]
         \/ k - Len(a) - Len(m) \in 1..Len(b) /\ Around(a, m, b)[k] = b[k - Len(a) - Len(m)]
  <1> DEFINE w == Around(a, m, b)
  <1>1. /\ Len(w) = Len(a) + Len(m) + Len(b)
        /\ \A i \in 1..Len(a) : w[i] = a[i]
        /\ \A i \in 1..Len(m) : w[Len(a) + i] = m[i]
        /\ \A i \in 1..Len(b) : w[Len(a) + Len(m) + i] = b[i]
    BY AroundIs, ZenonT(60)
  <1>2. Len(a) \in Nat /\ Len(m) \in Nat /\ Len(b) \in Nat /\ k \in Nat
    OBVIOUS
  <1> HIDE DEF w
  <1>3. k \in 1..Len(w)
    BY DEF w
  <1>4. CASE k \in 1..Len(a)
    BY <1>1, <1>4 DEF w
  <1>5. CASE k - Len(a) \in 1..Len(m)
    <2>1. Len(a) + (k - Len(a)) = k
      BY <1>2
    <2>2. w[k] = m[k - Len(a)]
      BY <1>1, <1>5, <2>1
    <2> QED BY <1>5, <2>2 DEF w
  <1>6. CASE k - Len(a) - Len(m) \in 1..Len(b)
    <2>1. Len(a) + Len(m) + (k - Len(a) - Len(m)) = k
      BY <1>2
    <2>2. w[k] = b[k - Len(a) - Len(m)]
      BY <1>1, <1>6, <2>1
    <2> QED BY <1>6, <2>2 DEF w
  <1> QED BY <1>1, <1>2, <1>3, <1>4, <1>5, <1>6

(* A trimmed text around marks is trimmed. *)
LEMMA AroundTrimmed ==
  ASSUME NEW a \in Seq(Mark), NEW m \in Seq(Mark), NEW b \in Seq(Mark), Trimmed(a), Trimmed(b),
         Len(m) # 0, m[1] # Blank, m[Len(m)] # Blank
  PROVE  Trimmed(Around(a, m, b)) /\ Around(a, m, b) # <<>>
  <1> DEFINE w == Around(a, m, b)
  <1>1. /\ w \in Seq(Mark) /\ Len(w) = Len(a) + Len(m) + Len(b)
        /\ \A i \in 1..Len(a) : w[i] = a[i]
        /\ \A i \in 1..Len(m) : w[Len(a) + i] = m[i]
        /\ \A i \in 1..Len(b) : w[Len(a) + Len(m) + i] = b[i]
    BY AroundIs, ZenonT(60)
  <1> HIDE DEF w
  <1>2. Len(a) \in Nat /\ Len(m) \in Nat /\ Len(b) \in Nat /\ Len(m) # 0
    BY EmptySeq
  <1>3. Len(w) # 0 /\ w # <<>>
    BY <1>1, <1>2, EmptySeq
  <1>4. w[1] # Blank
    <2>1. CASE Len(a) = 0
      <3>1. 1 \in 1..Len(m) /\ Len(a) + 1 = 1
        BY <1>2, <2>1
      <3> QED BY <1>1, <3>1
    <2>2. CASE Len(a) # 0
      <3>1. 1 \in 1..Len(a) /\ a # <<>>
        BY <1>2, <2>2, EmptySeq
      <3> QED BY <1>1, <3>1 DEF Trimmed
    <2> QED BY <2>1, <2>2
  <1>5. w[Len(w)] # Blank
    <2>1. CASE Len(b) = 0
      <3>1. Len(m) \in 1..Len(m) /\ Len(a) + Len(m) = Len(w)
        BY <1>1, <1>2, <2>1
      <3> QED BY <1>1, <3>1
    <2>2. CASE Len(b) # 0
      <3>1. Len(b) \in 1..Len(b) /\ b # <<>> /\ Len(a) + Len(m) + Len(b) = Len(w)
        BY <1>1, <1>2, <2>2, EmptySeq
      <3> QED BY <1>1, <3>1 DEF Trimmed
    <2> QED BY <2>1, <2>2
  <1> QED BY <1>3, <1>4, <1>5 DEF Trimmed, w

(* The least of some places, when it is known. *)
LEMMA LeastIs ==
  ASSUME NEW places \in SUBSET Nat, NEW k \in places, \A l \in places : k <= l
  PROVE  Min(places) = k
  <1>1. Min(places) \in places /\ \A l \in places : Min(places) <= l
    BY DEF Min
  <1>2. k <= Min(places) /\ Min(places) <= k
    BY <1>1
  <1>3. k \in Nat /\ Min(places) \in Nat
    BY <1>1
  <1> QED BY <1>2, <1>3

(* A text that is cut around marks where it was put together.               *)
LEMMA CutAround ==
  ASSUME NEW a \in Seq(Mark), NEW m \in Seq(Mark), NEW b \in Seq(Mark), NEW negated
  PROVE  CutAt(Around(a, m, b), Len(a) + 1, Len(m), negated) = Term(Trim(a), Trim(b), negated, TRUE)
  <1> DEFINE w == Around(a, m, b)
  <1>1. UpTo(w, Len(a)) = a /\ Onward(w, Len(a) + Len(m) + 1) = b
    BY AroundCut DEF UpTo, Onward
  <1> DEFINE before == Len(a) + 1 - 1
             after  == Len(a) + 1 + Len(m)
  <1>3. before = Len(a) /\ after = Len(a) + Len(m) + 1
    OBVIOUS
  <1> HIDE DEF w
  <1>4. CutAt(w, Len(a) + 1, Len(m), negated) = Term(Trim(UpTo(w, before)), Trim(Onward(w, after)), negated, TRUE)
    BY DEF CutAt
  <1> HIDE DEF before, after
  <1>5. UpTo(w, before) = a /\ Onward(w, after) = b
    BY <1>1, <1>3
  <1> QED BY <1>4, <1>5 DEF w

(* The two operators a requirement is written with. *)
LEMMA OperatorsAre ==
  /\ Unequal \in Seq(Mark) /\ Len(Unequal) = 2 /\ Unequal[1] = "!" /\ Unequal[2] = "="
  /\ Equal \in Seq(Mark) /\ Len(Equal) = 1 /\ Equal[1] = "="
  <1>1. "!" \in Mark /\ "=" \in Mark
    BY MarkAssumption
  <1>2. \A m, n \in Mark : <<m, n>> \in Seq(Mark) /\ <<m>> \in Seq(Mark)
    OBVIOUS
  <1>3. Unequal \in Seq(Mark) /\ Equal \in Seq(Mark)
    BY <1>1, <1>2 DEF Unequal, Equal
  <1>4. Len(Unequal) = 2 /\ Unequal[1] = "!" /\ Unequal[2] = "="
    BY DEF Unequal
  <1>5. Len(Equal) = 1 /\ Equal[1] = "="
    BY DEF Equal
  <1> QED BY <1>3, <1>4, <1>5

(* What is written with != is read so. *)
LEMMA UnequalIsRead ==
  ASSUME NEW key \in Seq(Mark), NEW value \in Seq(Mark),
         WithoutPair(key, "!", "=")
  PROVE  ParseRequirement(Around(key, Unequal, value)) = Term(Trim(key), Trim(value), TRUE, TRUE)
  <1> DEFINE w == Around(key, Unequal, value)
             n == Len(key)
  <1>0. Unequal \in Seq(Mark) /\ Len(Unequal) = 2
    BY OperatorsAre
  <1>1. /\ w \in Seq(Mark) /\ Len(w) = n + 2 + Len(value)
        /\ \A k \in 1..n : w[k] = key[k]
        /\ \A k \in 1..2 : w[n + k] = Unequal[k]
    <2>1. w \in Seq(Mark) /\ Len(w) = n + Len(Unequal) + Len(value)
      BY <1>0, AroundIs, ZenonT(60)
    <2>2. \A k \in 1..n : w[k] = key[k]
      BY <1>0, AroundIs, ZenonT(60)
    <2>3. \A k \in 1..Len(Unequal) : w[n + k] = Unequal[k]
      BY <1>0, AroundIs, ZenonT(60)
    <2> QED BY <1>0, <2>1, <2>2, <2>3
  <1>2. n \in Nat /\ Len(value) \in Nat
    OBVIOUS
  <1>3. w[n + 1] = "!" /\ w[n + 2] = "="
    <2>1. 1 \in 1..2 /\ 2 \in 1..2
      OBVIOUS
    <2> HIDE DEF w, n
    <2> QED BY <1>1, <2>1, OperatorsAre
  <1>4. CutAt(w, n + 1, 2, TRUE) = Term(Trim(key), Trim(value), TRUE, TRUE)
    <2>1. CutAt(w, n + 1, Len(Unequal), TRUE) = Term(Trim(key), Trim(value), TRUE, TRUE)
      BY <1>0, CutAround
    <2> QED BY <1>0, <2>1
  <1> HIDE DEF w
  <1> DEFINE places == Places(w, Unequal)
  <1>5. \A k \in Nat : k \in places <=> k \in 1..(Len(w) - 1) /\ w[k] = "!" /\ w[k + 1] = "="
    BY <1>1, PairPlaces DEF Unequal
  <1>6. places \in SUBSET Nat
    <2>1. places \in SUBSET (1..Len(w))
      BY <1>1, PairPlaces DEF Unequal
    <2> QED BY <2>1
  <1> HIDE DEF places
  <1>7. n + 1 \in places
    <2>1. n + 1 \in Nat /\ n + 1 \in 1..(Len(w) - 1) /\ (n + 1) + 1 = n + 2
      BY <1>1, <1>2
    <2> QED BY <1>3, <1>5, <2>1
  <1>8. ASSUME NEW k \in places PROVE n + 1 <= k
    <2>1. SUFFICES ASSUME k <= n PROVE FALSE
      BY <1>2, <1>6
    <2>2. k \in 1..n /\ w[k] = "!" /\ w[k + 1] = "="
      BY <1>2, <1>5, <1>6, <2>1
    <2>3. CASE k = n
      BY <1>3, <2>2, <2>3
    <2>4. CASE k # n
      <3>1. k \in 1..(n - 1) /\ k + 1 \in 1..n
        BY <1>2, <2>2, <2>4
      <3> QED BY <1>1, <2>2, <3>1 DEF WithoutPair
    <2> QED BY <2>3, <2>4
  <1>9. Min(places) = n + 1 /\ places # {}
    BY <1>6, <1>7, <1>8, LeastIs
  <1>10. ParseRequirement(w) = CutAt(w, Min(places), 2, TRUE)
    BY <1>9, ParseIs DEF places
  <1> QED BY <1>4, <1>9, <1>10 DEF w

(* What is written with = is read so, unless another mark takes part.       *)
LEMMA EqualIsRead ==
  ASSUME NEW key \in Seq(Mark), NEW value \in Seq(Mark),
         Without(key, "="), Without(value, "="), key # <<>>, key[Len(key)] # "!"
  PROVE  ParseRequirement(Around(key, Equal, value)) = Term(Trim(key), Trim(value), FALSE, TRUE)
  <1> DEFINE w == Around(key, Equal, value)
             n == Len(key)
  <1>0. Equal \in Seq(Mark) /\ Len(Equal) = 1
    BY OperatorsAre
  <1>1. /\ w \in Seq(Mark) /\ Len(w) = n + 1 + Len(value)
        /\ \A k \in 1..n : w[k] = key[k]
        /\ \A k \in 1..1 : w[n + k] = Equal[k]
    <2>1. w \in Seq(Mark) /\ Len(w) = n + Len(Equal) + Len(value)
      BY <1>0, AroundIs, ZenonT(60)
    <2>2. \A k \in 1..n : w[k] = key[k]
      BY <1>0, AroundIs, ZenonT(60)
    <2>3. \A k \in 1..Len(Equal) : w[n + k] = Equal[k]
      BY <1>0, AroundIs, ZenonT(60)
    <2> QED BY <1>0, <2>1, <2>2, <2>3
  <1>2. n \in Nat /\ Len(value) \in Nat /\ n # 0
    BY EmptySeq
  <1>3. w[n + 1] = "="
    <2>1. 1 \in 1..1
      OBVIOUS
    <2> HIDE DEF w, n
    <2> QED BY <1>1, <2>1, OperatorsAre
  <1>4. CutAt(w, n + 1, 1, FALSE) = Term(Trim(key), Trim(value), FALSE, TRUE)
    <2>1. CutAt(w, n + 1, Len(Equal), FALSE) = Term(Trim(key), Trim(value), FALSE, TRUE)
      BY <1>0, CutAround
    <2> QED BY <1>0, <2>1
  <1>5. ASSUME NEW k \in 1..Len(w), w[k] = "=" PROVE k = n + 1
    <2>1. \/ k \in 1..n /\ w[k] = key[k]
          \/ k - n \in 1..1 /\ w[k] = Equal[k - n]
          \/ k - n - 1 \in 1..Len(value) /\ w[k] = value[k - n - 1]
      <3>1. \/ k \in 1..n /\ w[k] = key[k]
            \/ k - n \in 1..Len(Equal) /\ w[k] = Equal[k - n]
            \/ k - n - Len(Equal) \in 1..Len(value) /\ w[k] = value[k - n - Len(Equal)]
        BY <1>0, AroundHas
      <3> QED BY <1>0, <3>1
    <2> HIDE DEF w, n
    <2> QED BY <1>2, <1>5, <2>1 DEF Without, n
  <1>6. w[n] # "!"
    <2>1. n \in 1..n
      BY <1>2
    <2> QED BY <1>1, <2>1
  <1> HIDE DEF w
  <1>7. Places(w, Unequal) = {}
    <2>1. ASSUME NEW k \in Places(w, Unequal) PROVE FALSE
      <3>1. Places(w, Unequal) \in SUBSET (1..Len(w))
        BY <1>1, PairPlaces DEF Unequal
      <3>2. k \in Nat
        BY <3>1
      <3>3. k \in 1..(Len(w) - 1) /\ w[k] = "!" /\ w[k + 1] = "="
        BY <1>1, <3>2, PairPlaces DEF Unequal
      <3>4. k + 1 \in 1..Len(w)
        BY <1>1, <1>2, <3>3
      <3>5. k + 1 = n + 1
        BY <1>5, <3>3, <3>4
      <3>6. k = n
        BY <1>2, <3>2, <3>5
      <3> QED BY <1>6, <3>3, <3>6
    <2> QED BY <2>1
  <1>8. Places(w, Equals) = {}
    <2>1. ASSUME NEW k \in Places(w, Equals) PROVE FALSE
      <3>1. Places(w, Equals) \in SUBSET (1..Len(w))
        BY <1>1, PairPlaces DEF Equals
      <3>2. k \in Nat
        BY <3>1
      <3>3. k \in 1..(Len(w) - 1) /\ w[k] = "=" /\ w[k + 1] = "="
        BY <1>1, <3>2, PairPlaces DEF Equals
      <3>4. k + 1 \in 1..Len(w) /\ k \in 1..Len(w)
        BY <1>1, <1>2, <3>3
      <3>5. k + 1 = n + 1 /\ k = n + 1
        BY <1>5, <3>3, <3>4
      <3> QED BY <1>2, <3>2, <3>5
    <2> QED BY <2>1
  <1> DEFINE places == Places(w, Equal)
  <1>9. places \in SUBSET (1..Len(w)) /\ \A k \in 1..Len(w) : k \in places <=> w[k] = "="
    BY <1>1, OnePlaces DEF Equal
  <1> HIDE DEF places
  <1>10. n + 1 \in places /\ \A k \in places : n + 1 <= k
    <2>1. n + 1 \in 1..Len(w)
      BY <1>1, <1>2
    <2>2. n + 1 \in places
      BY <1>3, <1>9, <2>1
    <2>3. ASSUME NEW k \in places PROVE n + 1 <= k
      <3>1. k \in 1..Len(w) /\ w[k] = "="
        BY <1>9
      <3>2. k = n + 1
        BY <1>5, <3>1
      <3> QED BY <1>2, <3>2
    <2> QED BY <2>2, <2>3
  <1>11. Min(places) = n + 1 /\ places # {}
    <2>1. places \in SUBSET Nat
      BY <1>9
    <2> QED BY <1>10, <2>1, LeastIs
  <1>12. ParseRequirement(w) = CutAt(w, Min(places), 1, FALSE)
    BY <1>7, <1>8, <1>11, ParseIs DEF places
  <1> QED BY <1>4, <1>11, <1>12 DEF w

(* A text without = has no operator. *)
LEMMA NoOperator ==
  ASSUME NEW s \in Seq(Mark), Without(s, "=")
  PROVE  Places(s, Unequal) = {} /\ Places(s, Equals) = {} /\ Places(s, Equal) = {}
  <1>1. Len(s) \in Nat
    OBVIOUS
  <1>2. ASSUME NEW m, NEW k \in Places(s, <<m, "=">>) PROVE FALSE
    <2>1. Places(s, <<m, "=">>) \in SUBSET (1..Len(s))
      BY PairPlaces
    <2>2. k \in Nat
      BY <1>2, <2>1
    <2>3. k \in 1..(Len(s) - 1) /\ s[k + 1] = "="
      BY <1>2, <2>2, PairPlaces
    <2>4. k + 1 \in 1..Len(s)
      BY <1>1, <2>3
    <2> QED BY <2>3, <2>4 DEF Without
  <1>3. ASSUME NEW k \in Places(s, <<"=">>) PROVE FALSE
    <2>1. k \in 1..Len(s) /\ s[k] = "="
      BY <1>3, OnePlaces
    <2> QED BY <2>1 DEF Without
  <1> QED BY <1>2, <1>3 DEF Unequal, Equals, Equal

(* What is written with ! alone is read so. *)
LEMMA NotIsRead ==
  ASSUME NEW key \in Seq(Mark), Without(key, "=")
  PROVE  ParseRequirement(<<"!">> \o key) = Term(Trim(key), <<>>, TRUE, FALSE)
  <1> DEFINE bang == <<"!">>
             w == bang \o key
  <1>1. bang \in Seq(Mark) /\ Len(bang) = 1 /\ bang[1] = "!"
    <2>1. "!" \in Mark
      BY MarkAssumption
    <2>2. \A m \in Mark : <<m>> \in Seq(Mark)
      OBVIOUS
    <2> QED BY <2>1, <2>2
  <1> HIDE DEF bang
  <1>2. /\ w \in Seq(Mark) /\ Len(w) = 1 + Len(key)
        /\ \A i \in 1..(1 + Len(key)) : w[i] = IF i <= 1 THEN bang[i] ELSE key[i - 1]
    <2>1. w \in Seq(Mark)
      BY <1>1, ConcatProperties
    <2>2. Len(w) = Len(bang) + Len(key)
      BY <1>1, ConcatProperties
    <2>3. \A i \in 1..(Len(bang) + Len(key)) : w[i] = IF i <= Len(bang) THEN bang[i] ELSE key[i - Len(bang)]
      BY <1>1, ConcatProperties
    <2> HIDE DEF w
    <2> QED BY <1>1, <2>1, <2>2, <2>3
  <1>3. SubSeq(w, 2, Len(w)) = key
    <2>1. SubSeq(w, Len(bang) + 1, Len(w)) = key
      BY <1>1, CutBack
    <2>2. Len(bang) + 1 = 2
      BY <1>1
    <2> QED BY <2>1, <2>2
  <1> HIDE DEF w
  <1>4. Len(key) \in Nat /\ w # <<>>
    BY <1>2, EmptySeq
  <1>5. Head(w) = "!"
    BY <1>1, <1>2, <1>4
  <1>6. Tail(w) = key
    BY <1>2, <1>3, <1>4
  <1>7. Without(w, "=")
    <2>1. ASSUME NEW k \in 1..Len(w) PROVE w[k] # "="
      <3>1. CASE k = 1
        BY <1>1, <1>2, <3>1
      <3>2. CASE k # 1
        <4>1. k - 1 \in 1..Len(key) /\ w[k] = key[k - 1]
          BY <1>2, <1>4, <3>2
        <4> QED BY <4>1 DEF Without
      <3> QED BY <3>1, <3>2
    <2> QED BY <2>1 DEF Without
  <1>8. Places(w, Unequal) = {} /\ Places(w, Equals) = {} /\ Places(w, Equal) = {}
    BY <1>2, <1>7, NoOperator
  <1>10. ParseRequirement(w) = Term(Trim(Tail(w)), <<>>, TRUE, FALSE)
    BY <1>4, <1>5, <1>8, ParseIs
  <1> QED BY <1>6, <1>10 DEF w, bang

(* What is written without an operator is read so. *)
LEMMA NameIsRead ==
  ASSUME NEW key \in Seq(Mark), Without(key, "="), key # <<>>, key[1] # "!"
  PROVE  ParseRequirement(key) = Term(key, <<>>, FALSE, FALSE)
  <1>1. Places(key, Unequal) = {} /\ Places(key, Equals) = {} /\ Places(key, Equal) = {}
    BY NoOperator
  <1>2. Head(key) = key[1]
    OBVIOUS
  <1>3. ParseRequirement(key) = IF key # <<>> /\ Head(key) = "!" THEN Term(Trim(Tail(key)), <<>>, TRUE, FALSE)
                                ELSE Term(key, <<>>, FALSE, FALSE)
    BY <1>1, ParseIs
  <1> QED BY <1>2, <1>3

-----------------------------------------------------------------------------
(* What is left of a cut when blanks are taken off is a part of the text.   *)
IsPart(s, first, last, u) ==
  \E i \in Nat :
    /\ first - 1 <= i /\ i + Len(u) <= last
    /\ \A k \in 1..Len(u) : u[k] = s[i + k]
    /\ \A k \in first..last : k <= i \/ i + Len(u) < k => s[k] = Blank

(* A part of a text that Trim has gone over is trimmed, and is still a part. *)
LEMMA TrimmedPart ==
  ASSUME NEW s \in Seq(Mark), NEW first \in 1..(Len(s) + 1), NEW last \in (first - 1)..Len(s)
  PROVE  /\ Trim(SubSeq(s, first, last)) \in Seq(Mark)
         /\ Trimmed(Trim(SubSeq(s, first, last)))
         /\ IsPart(s, first, last, Trim(SubSeq(s, first, last)))
  <1> DEFINE c == SubSeq(s, first, last)
             u == Trim(c)
  <1>1. Len(s) \in Nat /\ \A k \in 1..Len(s) : s[k] \in Mark
    BY ElementOfSeq
  <1>2. c \in Seq(Mark) /\ Len(c) = last - first + 1
    BY <1>1, SubSeqProperties
  <1>3. \A k \in 1..(last - first + 1) : c[k] = s[first + k - 1]
    BY <1>1, SubSeqProperties
  <1> HIDE DEF c
  <1>4. u \in Seq(Mark) /\ Trimmed(u)
    BY <1>2, TrimTakes
  <1>5. PICK i \in Nat : TrimsTo(c, u, i)
    BY <1>2, TrimTakes
  <1> HIDE DEF u
  <1> DEFINE j == first - 1 + i
  <1>6. Len(u) \in Nat /\ j \in Nat /\ first - 1 <= j /\ j + Len(u) <= last /\ i + Len(u) <= Len(c)
    BY <1>2, <1>4, <1>5 DEF TrimsTo
  <1>7. \A k \in 1..Len(u) : u[k] = s[j + k]
    <2> SUFFICES ASSUME NEW k \in 1..Len(u) PROVE u[k] = s[j + k]
      OBVIOUS
    <2>1. i + k \in 1..(last - first + 1) /\ first + (i + k) - 1 = j + k
      BY <1>2, <1>6
    <2>2. c[i + k] = s[j + k]
      BY <1>3, <2>1
    <2> QED BY <1>5, <2>2 DEF TrimsTo
  <1>8. \A k \in first..last : k <= j \/ j + Len(u) < k => s[k] = Blank
    <2> SUFFICES ASSUME NEW k \in first..last, k <= j \/ j + Len(u) < k PROVE s[k] = Blank
      OBVIOUS
    <2> DEFINE l == k - first + 1
    <2>1. l \in 1..(last - first + 1) /\ first + l - 1 = k /\ (l <= i \/ i + Len(u) < l)
      BY <1>6
    <2> HIDE DEF l
    <2>2. c[l] = s[k] /\ l \in 1..Len(c)
      BY <1>2, <1>3, <2>1
    <2>3. c[l] = Blank
      BY <1>5, <2>1, <2>2 DEF TrimsTo
    <2> QED BY <2>2, <2>3
  <1> HIDE DEF j
  <1>9. IsPart(s, first, last, u)
    BY <1>6, <1>7, <1>8 DEF IsPart
  <1> QED BY <1>4, <1>9 DEF u, c

(* A part of a text has none of the marks that the text has not there.      *)
LEMMA PartWithout ==
  ASSUME NEW s \in Seq(Mark), NEW first \in 1..(Len(s) + 1), NEW last \in (first - 1)..Len(s),
         NEW u \in Seq(Mark), IsPart(s, first, last, u), NEW m, \A k \in first..last : s[k] # m
  PROVE  Without(u, m)
  <1>1. PICK i \in Nat : first - 1 <= i /\ i + Len(u) <= last /\ \A k \in 1..Len(u) : u[k] = s[i + k]
    BY DEF IsPart
  <1>2. ASSUME NEW k \in 1..Len(u) PROVE i + k \in first..last
    BY <1>1
  <1> QED BY <1>1, <1>2 DEF Without

(* Nor has it two marks in a row that the text has not there.               *)
LEMMA PartWithoutPair ==
  ASSUME NEW s \in Seq(Mark), NEW last \in 0..Len(s), NEW u \in Seq(Mark), IsPart(s, 1, last, u),
         NEW m, NEW n, \A k \in 1..(last - 1) : ~(s[k] = m /\ s[k + 1] = n)
  PROVE  WithoutPair(u, m, n)
  <1>1. PICK i \in Nat : i + Len(u) <= last /\ \A k \in 1..Len(u) : u[k] = s[i + k]
    BY DEF IsPart
  <1> SUFFICES ASSUME NEW k \in 1..(Len(u) - 1), u[k] = m, u[k + 1] = n PROVE FALSE
    BY DEF WithoutPair
  <1>2. /\ k \in 1..Len(u) /\ k + 1 \in 1..Len(u) /\ i + k \in 1..(last - 1)
        /\ i + (k + 1) = (i + k) + 1
    BY <1>1
  <1>3. u[k] = s[i + k] /\ u[k + 1] = s[(i + k) + 1]
    BY <1>1, <1>2
  <1> QED BY <1>2, <1>3

(* What a plain term is, mark by mark. *)
LEMMA PlainIs ==
  ASSUME NEW s \in Seq(Mark), PlainTerm(s)
  PROVE  /\ \A k, l \in 1..Len(s) : s[k] = "=" /\ s[l] = "=" => k - l <= 1
         /\ \A k \in 1..Len(s) : s[k] = "=" => WithoutPair(s, "!", Blank)
  <1> DEFINE at == Places(s, <<"=">>)
  <1>1. at \in SUBSET (1..Len(s)) /\ \A k \in 1..Len(s) : k \in at <=> s[k] = "="
    BY OnePlaces
  <1>2. at # {} => Max(at) - Min(at) <= 1 /\ Places(s, <<"!", Blank>>) = {}
    BY DEF PlainTerm
  <1> HIDE DEF at
  <1>3. Len(s) \in Nat
    OBVIOUS
  <1>4. ASSUME NEW k \in at PROVE Min(at) <= k /\ k <= Max(at) /\ Min(at) \in Nat /\ Max(at) \in Nat
    <2>1. Min(at) \in at /\ Min(at) <= k
      BY <1>1, <1>3, <1>4, FirstPlace
    <2>2. Max(at) \in at /\ k <= Max(at)
      BY <1>1, <1>3, <1>4, LastPlace
    <2>3. \A l \in at : l \in Nat
      BY <1>1, <1>3
    <2> QED BY <2>1, <2>2, <2>3
  <1>5. \A k, l \in 1..Len(s) : s[k] = "=" /\ s[l] = "=" => k - l <= 1
    <2> SUFFICES ASSUME NEW k \in 1..Len(s), NEW l \in 1..Len(s), s[k] = "=", s[l] = "=" PROVE k - l <= 1
      OBVIOUS
    <2>1. k \in at /\ l \in at
      BY <1>1
    <2>2. k <= Max(at) /\ Min(at) <= l /\ Min(at) \in Nat /\ Max(at) \in Nat
      BY <1>4, <2>1
    <2>3. Max(at) - Min(at) <= 1
      BY <1>2, <2>1
    <2> QED BY <2>2, <2>3
  <1>6. ASSUME NEW k \in 1..Len(s), s[k] = "=" PROVE WithoutPair(s, "!", Blank)
    <2>1. Places(s, <<"!", Blank>>) = {}
      BY <1>1, <1>2, <1>6
    <2>2. ASSUME NEW l \in 1..(Len(s) - 1), s[l] = "!", s[l + 1] = Blank PROVE FALSE
      <3>1. l \in Nat
        OBVIOUS
      <3>2. l \in Places(s, <<"!", Blank>>)
        BY <2>2, <3>1, PairPlaces
      <3> QED BY <2>1, <3>2
    <2> QED BY <2>2 DEF WithoutPair
  <1> QED BY <1>5, <1>6

(* A requirement that is read from what it is written as. *)
Legible(r) ==
  \E key, value \in Seq(Mark) :
    /\ Trimmed(key) /\ Trimmed(value) /\ key # <<>> /\ Without(key, Comma) /\ Without(value, Comma)
    /\ \/ r = Term(key, value, TRUE, TRUE) /\ WithoutPair(key, "!", "=")
       \/ r = Term(key, value, FALSE, TRUE) /\ Without(key, "=") /\ Without(value, "=") /\ key[Len(key)] # "!"
       \/ r = Term(key, <<>>, TRUE, FALSE) /\ Without(key, "=")
       \/ r = Term(key, <<>>, FALSE, FALSE) /\ Without(key, "=") /\ key[1] # "!"

(* The two sides of a cut. *)
LEMMA CutSides ==
  ASSUME NEW s \in Seq(Mark), NEW at \in 1..Len(s), NEW n \in 1..2, at + n - 1 <= Len(s), NEW negated,
         Without(s, Comma), CutAt(s, at, n, negated) # Refused
  PROVE  \E key, value \in Seq(Mark) :
           /\ CutAt(s, at, n, negated) = Term(key, value, negated, TRUE)
           /\ Trimmed(key) /\ Trimmed(value) /\ key # <<>> /\ Without(key, Comma) /\ Without(value, Comma)
           /\ IsPart(s, 1, at - 1, key) /\ IsPart(s, at + n, Len(s), value)
  <1> DEFINE key   == Trim(UpTo(s, at - 1))
             value == Trim(Onward(s, at + n))
  <1>1. Len(s) \in Nat /\ 1 \in 1..(Len(s) + 1) /\ at - 1 \in (1 - 1)..Len(s)
        /\ at + n \in 1..(Len(s) + 1) /\ Len(s) \in (at + n - 1)..Len(s)
    OBVIOUS
  <1>2. key \in Seq(Mark) /\ Trimmed(key) /\ IsPart(s, 1, at - 1, key)
    BY <1>1, TrimmedPart DEF UpTo
  <1>3. value \in Seq(Mark) /\ Trimmed(value) /\ IsPart(s, at + n, Len(s), value)
    BY <1>1, TrimmedPart DEF Onward
  <1>4. CutAt(s, at, n, negated) = Term(key, value, negated, TRUE)
    BY DEF CutAt
  <1> HIDE DEF key, value
  <1>5. key # <<>>
    BY <1>4 DEF Term
  <1>6. Without(key, Comma)
    <2>1. \A k \in 1..(at - 1) : s[k] # Comma
      BY <1>1 DEF Without
    <2> QED BY <1>1, <1>2, <2>1, PartWithout
  <1>7. Without(value, Comma)
    <2>1. \A k \in (at + n)..Len(s) : s[k] # Comma
      BY <1>1 DEF Without
    <2> QED BY <1>1, <1>3, <2>1, PartWithout
  <1> QED BY <1>2, <1>3, <1>4, <1>5, <1>6, <1>7

(* Plain terms are read as what can be read again. *)
LEMMA PlainIsReadable ==
  ASSUME NEW s \in Seq(Mark), Trimmed(s), Without(s, Comma), PlainTerm(s), ParseRequirement(s) # Refused
  PROVE  Legible(ParseRequirement(s))
  <1> DEFINE r == ParseRequirement(s)
             unequals == Places(s, Unequal)
             doubles  == Places(s, Equals)
             singles  == Places(s, Equal)
  <1>1. Len(s) \in Nat /\ \A k \in 1..Len(s) : s[k] \in Mark
    BY ElementOfSeq
  <1>2. /\ unequals \in SUBSET (1..Len(s))
        /\ \A k \in Nat : k \in unequals <=> k \in 1..(Len(s) - 1) /\ s[k] = "!" /\ s[k + 1] = "="
    BY PairPlaces DEF Unequal
  <1>3. /\ doubles \in SUBSET (1..Len(s))
        /\ \A k \in Nat : k \in doubles <=> k \in 1..(Len(s) - 1) /\ s[k] = "=" /\ s[k + 1] = "="
    BY PairPlaces DEF Equals
  <1>4. /\ singles \in SUBSET (1..Len(s))
        /\ \A k \in 1..Len(s) : k \in singles <=> s[k] = "="
    BY OnePlaces DEF Equal
  <1>5. /\ unequals # {} => r = CutAt(s, Min(unequals), 2, TRUE)
        /\ unequals = {} /\ doubles # {} => r = CutAt(s, Min(doubles), 2, FALSE)
        /\ unequals = {} /\ doubles = {} /\ singles # {} => r = CutAt(s, Min(singles), 1, FALSE)
        /\ unequals = {} /\ doubles = {} /\ singles = {} =>
             r = IF s # <<>> /\ Head(s) = "!" THEN Term(Trim(Tail(s)), <<>>, TRUE, FALSE)
                 ELSE Term(s, <<>>, FALSE, FALSE)
    BY ParseIs
  <1>6. r # Refused
    OBVIOUS
  <1>7. \A k, l \in 1..Len(s) : s[k] = "=" /\ s[l] = "=" => k - l <= 1
    BY PlainIs
  <1>8. \A k \in 1..Len(s) : s[k] = "=" => WithoutPair(s, "!", Blank)
    BY PlainIs
  <1> HIDE DEF r, unequals, doubles, singles
  <1>9. CASE unequals # {}
    <2> DEFINE at == Min(unequals)
    <2>1. at \in unequals /\ \A k \in unequals : at <= k
      BY <1>1, <1>2, <1>9, FirstPlace
    <2>2. r = CutAt(s, at, 2, TRUE)
      BY <1>5, <1>9
    <2> HIDE DEF at
    <2>3. at \in Nat /\ at \in 1..(Len(s) - 1)
      BY <1>2, <2>1
    <2>4. at \in 1..Len(s) /\ 2 \in 1..2 /\ at + 2 - 1 <= Len(s) /\ at - 1 \in 0..Len(s)
      BY <1>1, <2>3
    <2>5. PICK key \in Seq(Mark), value \in Seq(Mark) :
             /\ r = Term(key, value, TRUE, TRUE)
             /\ Trimmed(key) /\ Trimmed(value) /\ key # <<>> /\ Without(key, Comma) /\ Without(value, Comma)
             /\ IsPart(s, 1, at - 1, key)
      BY <1>6, <2>2, <2>4, CutSides
    <2>6. \A k \in 1..((at - 1) - 1) : ~(s[k] = "!" /\ s[k + 1] = "=")
      <3> SUFFICES ASSUME NEW k \in 1..((at - 1) - 1), s[k] = "!", s[k + 1] = "=" PROVE FALSE
        OBVIOUS
      <3>1. k \in Nat /\ k \in 1..(Len(s) - 1) /\ k < at
        BY <1>1, <2>4
      <3> QED BY <1>2, <2>1, <2>3, <3>1
    <2>7. WithoutPair(key, "!", "=")
      BY <2>4, <2>5, <2>6, PartWithoutPair
    <2> QED BY <2>5, <2>7 DEF Legible, r
  <1>10. CASE unequals = {}
    <2>1. CASE singles # {}
      <3>1. PICK at \in 1..Len(s), n \in 1..2 :
              /\ r = CutAt(s, at, n, FALSE) /\ s[at] = "=" /\ at + n - 1 <= Len(s)
              /\ \A k \in 1..Len(s) : s[k] = "=" => at <= k /\ k < at + n
        <4>1. CASE doubles # {}
          <5> DEFINE at == Min(doubles)
          <5>1. at \in doubles /\ \A k \in doubles : at <= k
            BY <1>1, <1>3, <4>1, FirstPlace
          <5>2. r = CutAt(s, at, 2, FALSE)
            BY <1>5, <1>10, <4>1
          <5> HIDE DEF at
          <5>3. at \in Nat /\ at \in 1..(Len(s) - 1) /\ s[at] = "=" /\ s[at + 1] = "="
            BY <1>3, <5>1
          <5>4. at \in 1..Len(s) /\ at + 1 \in 1..Len(s) /\ 2 \in 1..2 /\ at + 2 - 1 <= Len(s)
            BY <1>1, <5>3
          <5>5. ASSUME NEW k \in 1..Len(s), s[k] = "=" PROVE at <= k /\ k < at + 2
            <6>1. k - at <= 1 /\ (at + 1) - k <= 1
              BY <1>7, <5>3, <5>4, <5>5
            <6> QED BY <5>3, <6>1
          <5> QED BY <5>2, <5>3, <5>4, <5>5
        <4>2. CASE doubles = {}
          <5> DEFINE at == Min(singles)
          <5>1. at \in singles /\ \A k \in singles : at <= k
            BY <1>1, <1>4, <2>1, FirstPlace
          <5>2. r = CutAt(s, at, 1, FALSE)
            BY <1>5, <1>10, <2>1, <4>2
          <5> HIDE DEF at
          <5>3. at \in 1..Len(s) /\ s[at] = "=" /\ 1 \in 1..2 /\ at + 1 - 1 <= Len(s)
            BY <1>1, <1>4, <5>1
          <5>5. ASSUME NEW k \in 1..Len(s), s[k] = "=" PROVE at <= k /\ k < at + 1
            <6>1. k - at <= 1 /\ at <= k
              BY <1>4, <1>7, <5>1, <5>3, <5>5
            <6>2. k # at + 1
              <7>1. SUFFICES ASSUME k = at + 1 PROVE FALSE
                OBVIOUS
              <7>2. at \in Nat /\ at \in 1..(Len(s) - 1)
                BY <1>1, <5>3, <7>1
              <7> QED BY <1>3, <4>2, <5>3, <5>5, <7>1, <7>2
            <6> QED BY <5>3, <6>1, <6>2
          <5> QED BY <5>2, <5>3, <5>5
        <4> QED BY <4>1, <4>2
      <3>2. PICK key \in Seq(Mark), value \in Seq(Mark) :
             /\ r = Term(key, value, FALSE, TRUE)
             /\ Trimmed(key) /\ Trimmed(value) /\ key # <<>> /\ Without(key, Comma) /\ Without(value, Comma)
             /\ IsPart(s, 1, at - 1, key) /\ IsPart(s, at + n, Len(s), value)
        BY <1>6, <3>1, CutSides
      <3>3. Without(key, "=")
        <4>1. 1 \in 1..(Len(s) + 1) /\ at - 1 \in (1 - 1)..Len(s)
          BY <1>1
        <4>2. \A k \in 1..(at - 1) : s[k] # "="
          BY <1>1, <3>1
        <4> QED BY <3>2, <4>1, <4>2, PartWithout
      <3>4. Without(value, "=")
        <4>1. at + n \in 1..(Len(s) + 1) /\ Len(s) \in (at + n - 1)..Len(s)
          BY <1>1, <3>1
        <4>2. \A k \in (at + n)..Len(s) : s[k] # "="
          BY <1>1, <3>1
        <4> QED BY <3>2, <4>1, <4>2, PartWithout
      <3>5. key[Len(key)] # "!"
        <4>1. SUFFICES ASSUME key[Len(key)] = "!" PROVE FALSE
          OBVIOUS
        <4>2. PICK i \in Nat : /\ i + Len(key) <= at - 1
                               /\ \A k \in 1..Len(key) : key[k] = s[i + k]
                               /\ \A k \in 1..(at - 1) : k <= i \/ i + Len(key) < k => s[k] = Blank
          BY <3>2 DEF IsPart
        <4> DEFINE last == i + Len(key)
        <4>3. Len(key) \in Nat /\ Len(key) # 0
          BY <3>2, EmptySeq
        <4>4. last \in Nat /\ last \in 1..(Len(s) - 1) /\ s[last] = "!"
          <5>1. Len(key) \in 1..Len(key)
            BY <4>3
          <5>2. s[last] = "!"
            BY <4>1, <4>2, <5>1
          <5>3. last <= at - 1 /\ last \in Nat /\ last >= 1
            BY <4>2, <4>3
          <5> HIDE DEF last
          <5>4. at - 1 <= Len(s) - 1
            BY <1>1, <3>1
          <5> QED BY <1>1, <5>2, <5>3, <5>4
        <4> HIDE DEF last
        <4>5. CASE last = at - 1
          <5>1. last + 1 = at
            BY <4>5
          <5> QED BY <1>2, <1>10, <3>1, <4>4, <5>1
        <4>6. CASE last # at - 1
          <5>1. last + 1 \in 1..(at - 1) /\ i + Len(key) < last + 1
            BY <4>2, <4>3, <4>4, <4>6 DEF last
          <5>2. s[last + 1] = Blank
            BY <4>2, <5>1
          <5>3. WithoutPair(s, "!", Blank)
            BY <1>8, <3>1
          <5> QED BY <4>4, <5>2, <5>3 DEF WithoutPair
        <4> QED BY <4>5, <4>6
      <3> QED BY <3>2, <3>3, <3>4, <3>5 DEF Legible, r
    <2>2. CASE singles = {}
      <3>1. Without(s, "=")
        BY <1>4, <2>2 DEF Without
      <3>2. doubles = {}
        <4>1. ASSUME NEW k \in doubles PROVE FALSE
          <5>1. k \in Nat /\ k \in 1..Len(s) /\ s[k] = "="
            BY <1>1, <1>3, <4>1
          <5> QED BY <3>1, <5>1 DEF Without
        <4> QED BY <4>1
      <3>3. r = IF s # <<>> /\ Head(s) = "!" THEN Term(Trim(Tail(s)), <<>>, TRUE, FALSE)
                ELSE Term(s, <<>>, FALSE, FALSE)
        BY <1>5, <1>10, <2>2, <3>2
      <3>4. <<>> \in Seq(Mark) /\ Trimmed(<<>>) /\ Without(<<>>, Comma)
        BY DEF Trimmed, Without
      <3>5. CASE s # <<>> /\ Head(s) = "!"
        <4> DEFINE key == Trim(Tail(s))
        <4>1. Len(s) # 0 /\ Tail(s) = SubSeq(s, 2, Len(s))
          BY <1>1, <3>5, EmptySeq
        <4>2. 2 \in 1..(Len(s) + 1) /\ Len(s) \in (2 - 1)..Len(s)
          BY <1>1, <4>1
        <4>3. key \in Seq(Mark) /\ Trimmed(key) /\ IsPart(s, 2, Len(s), key)
          BY <4>1, <4>2, TrimmedPart
        <4>4. r = Term(key, <<>>, TRUE, FALSE)
          BY <3>3, <3>5
        <4> HIDE DEF key
        <4>5. key # <<>>
          BY <1>6, <4>4 DEF Term
        <4>6. Without(key, Comma) /\ Without(key, "=")
          <5>1. \A k \in 2..Len(s) : s[k] # Comma /\ s[k] # "="
            BY <1>1, <3>1 DEF Without
          <5> QED BY <4>2, <4>3, <5>1, PartWithout
        <4> QED BY <3>4, <4>3, <4>4, <4>5, <4>6 DEF Legible, r
      <3>6. CASE ~(s # <<>> /\ Head(s) = "!")
        <4>1. r = Term(s, <<>>, FALSE, FALSE)
          BY <3>3, <3>6
        <4>2. s # <<>>
          BY <1>6, <4>1 DEF Term
        <4>3. s[1] # "!"
          BY <3>6, <4>2
        <4> QED BY <3>1, <3>4, <4>1, <4>2, <4>3 DEF Legible, r
      <3> QED BY <3>5, <3>6
    <2> QED BY <2>1, <2>2
  <1> QED BY <1>9, <1>10

(* A requirement that can be read is read again from what it is written as. *)
Settled(r) ==
  /\ Written(r) \in Seq(Mark) /\ Written(r) # <<>> /\ Trimmed(Written(r)) /\ Without(Written(r), Comma)
  /\ ParseRequirement(Written(r)) = r

(* The marks of an operator are neither commas nor blanks.                  *)
LEMMA MarksDiffer ==
  /\ Comma # "=" /\ Comma # "!" /\ Blank # "=" /\ Blank # "!"
  BY Zenon DEF Comma, Blank

(* A mark that none of the three has is not in the text around.             *)
LEMMA AroundWithout ==
  ASSUME NEW a \in Seq(Mark), NEW m \in Seq(Mark), NEW b \in Seq(Mark), NEW c,
         Without(a, c), Without(m, c), Without(b, c)
  PROVE  Without(Around(a, m, b), c)
  <1> DEFINE w == Around(a, m, b)
  <1> SUFFICES ASSUME NEW k \in 1..Len(w) PROVE w[k] # c
    BY DEF Without
  <1>1. \/ k \in 1..Len(a) /\ w[k] = a[k]
        \/ k - Len(a) \in 1..Len(m) /\ w[k] = m[k - Len(a)]
        \/ k - Len(a) - Len(m) \in 1..Len(b) /\ w[k] = b[k - Len(a) - Len(m)]
    BY AroundHas
  <1> HIDE DEF w
  <1>2. CASE k \in 1..Len(a) /\ w[k] = a[k]
    BY <1>2 DEF Without
  <1>3. CASE k - Len(a) \in 1..Len(m) /\ w[k] = m[k - Len(a)]
    BY <1>3 DEF Without
  <1>4. CASE k - Len(a) - Len(m) \in 1..Len(b) /\ w[k] = b[k - Len(a) - Len(m)]
    BY <1>4 DEF Without
  <1> QED BY <1>1, <1>2, <1>3, <1>4

(* What the four kinds of term are written as. *)
LEMMA WrittenTerm ==
  ASSUME NEW key, NEW value, key # <<>>
  PROVE  /\ Written(Term(key, value, TRUE, TRUE))  = (key \o Unequal) \o value
         /\ Written(Term(key, value, FALSE, TRUE)) = (key \o Equal) \o value
         /\ Written(Term(key, <<>>, TRUE, FALSE))  = <<"!">> \o key
         /\ Written(Term(key, <<>>, FALSE, FALSE)) = <<>> \o key
  <1>1. \A v, negated, hasValue :
          Term(key, v, negated, hasValue) = [key |-> key, value |-> v, negated |-> negated, hasValue |-> hasValue]
    BY DEF Term
  <1>2. ASSUME NEW x, x.key = key, x.value = value, x.hasValue, x.negated
        PROVE  Written(x) = (key \o Unequal) \o value
    BY <1>2 DEF Written, Unequal
  <1>3. ASSUME NEW x, x.key = key, x.value = value, x.hasValue, ~x.negated
        PROVE  Written(x) = (key \o Equal) \o value
    BY <1>3 DEF Written, Equal
  <1>4. ASSUME NEW x, x.key = key, ~x.hasValue, x.negated
        PROVE  Written(x) = <<"!">> \o key
    BY <1>4 DEF Written
  <1>5. ASSUME NEW x, x.key = key, ~x.hasValue, ~x.negated
        PROVE  Written(x) = <<>> \o key
    BY <1>5 DEF Written
  <1>6. Written(Term(key, value, TRUE, TRUE)) = (key \o Unequal) \o value
    <2> DEFINE x == [key |-> key, value |-> value, negated |-> TRUE, hasValue |-> TRUE]
    <2>1. Term(key, value, TRUE, TRUE) = x
      BY <1>1
    <2>2. x.key = key /\ x.value = value /\ x.hasValue /\ x.negated
      OBVIOUS
    <2> HIDE DEF x
    <2> QED BY <1>2, <2>1, <2>2
  <1>7. Written(Term(key, value, FALSE, TRUE)) = (key \o Equal) \o value
    <2> DEFINE x == [key |-> key, value |-> value, negated |-> FALSE, hasValue |-> TRUE]
    <2>1. Term(key, value, FALSE, TRUE) = x
      BY <1>1
    <2>2. x.key = key /\ x.value = value /\ x.hasValue /\ ~x.negated
      OBVIOUS
    <2> HIDE DEF x
    <2> QED BY <1>3, <2>1, <2>2
  <1>8. Written(Term(key, <<>>, TRUE, FALSE)) = <<"!">> \o key
    <2> DEFINE x == [key |-> key, value |-> <<>>, negated |-> TRUE, hasValue |-> FALSE]
    <2>1. Term(key, <<>>, TRUE, FALSE) = x
      BY <1>1
    <2>2. x.key = key /\ ~x.hasValue /\ x.negated
      OBVIOUS
    <2> HIDE DEF x
    <2> QED BY <1>4, <2>1, <2>2
  <1>9. Written(Term(key, <<>>, FALSE, FALSE)) = <<>> \o key
    <2> DEFINE x == [key |-> key, value |-> <<>>, negated |-> FALSE, hasValue |-> FALSE]
    <2>1. Term(key, <<>>, FALSE, FALSE) = x
      BY <1>1
    <2>2. x.key = key /\ ~x.hasValue /\ ~x.negated
      OBVIOUS
    <2> HIDE DEF x
    <2> QED BY <1>5, <2>1, <2>2
  <1> QED BY <1>6, <1>7, <1>8, <1>9

(* What is written of a readable requirement is read as it.                 *)
LEMMA ReadableSettles ==
  ASSUME NEW r, Legible(r)
  PROVE  Settled(r)
  <1>1. PICK key \in Seq(Mark), value \in Seq(Mark) :
          /\ Trimmed(key) /\ Trimmed(value) /\ key # <<>> /\ Without(key, Comma) /\ Without(value, Comma)
          /\ \/ r = Term(key, value, TRUE, TRUE) /\ WithoutPair(key, "!", "=")
             \/ r = Term(key, value, FALSE, TRUE) /\ Without(key, "=") /\ Without(value, "=") /\ key[Len(key)] # "!"
             \/ r = Term(key, <<>>, TRUE, FALSE) /\ Without(key, "=")
             \/ r = Term(key, <<>>, FALSE, FALSE) /\ Without(key, "=") /\ key[1] # "!"
    BY DEF Legible
  <1>2. /\ Written(Term(key, value, TRUE, TRUE))  = (key \o Unequal) \o value
        /\ Written(Term(key, value, FALSE, TRUE)) = (key \o Equal) \o value
        /\ Written(Term(key, <<>>, TRUE, FALSE))  = <<"!">> \o key
        /\ Written(Term(key, <<>>, FALSE, FALSE)) = <<>> \o key
    BY <1>1, WrittenTerm
  <1>3. /\ Unequal \in Seq(Mark) /\ Len(Unequal) # 0 /\ Unequal[1] # Blank /\ Unequal[Len(Unequal)] # Blank
        /\ Without(Unequal, Comma)
    <2>1. Unequal \in Seq(Mark) /\ Len(Unequal) = 2 /\ Unequal[1] = "!" /\ Unequal[2] = "="
      BY OperatorsAre
    <2>2. Len(Unequal) # 0
      BY <2>1
    <2>3. Unequal[1] # Blank /\ Unequal[Len(Unequal)] # Blank
      BY <2>1, MarksDiffer
    <2>4. \A k \in 1..2 : k = 1 \/ k = 2
      OBVIOUS
    <2>5. \A k \in 1..Len(Unequal) : Unequal[k] # Comma
      BY <2>1, <2>4, MarksDiffer
    <2> QED BY <2>1, <2>2, <2>3, <2>5 DEF Without
  <1>4. /\ Equal \in Seq(Mark) /\ Len(Equal) # 0 /\ Equal[1] # Blank /\ Equal[Len(Equal)] # Blank
        /\ Without(Equal, Comma)
    <2>1. Equal \in Seq(Mark) /\ Len(Equal) = 1 /\ Equal[1] = "="
      BY OperatorsAre
    <2>2. Len(Equal) # 0
      BY <2>1
    <2>3. Equal[1] # Blank /\ Equal[Len(Equal)] # Blank
      BY <2>1, MarksDiffer
    <2>4. \A k \in 1..1 : k = 1
      OBVIOUS
    <2>5. \A k \in 1..Len(Equal) : Equal[k] # Comma
      BY <2>1, <2>4, MarksDiffer
    <2> QED BY <2>1, <2>2, <2>3, <2>5 DEF Without
  <1>9. Trim(key) = key /\ Trim(value) = value
    BY <1>1, TrimAgain
  <1>5. CASE r = Term(key, value, TRUE, TRUE) /\ WithoutPair(key, "!", "=")
    <2> DEFINE w == Around(key, Unequal, value)
    <2>1. Written(r) = w
      BY <1>2, <1>5 DEF Around
    <2>2. w \in Seq(Mark)
      BY <1>3, AroundIs
    <2>3. Trimmed(w) /\ w # <<>>
      BY <1>1, <1>3, AroundTrimmed
    <2>4. Without(w, Comma)
      BY <1>1, <1>3, AroundWithout
    <2>5. ParseRequirement(w) = r
      BY <1>1, <1>5, <1>9, UnequalIsRead
    <2> HIDE DEF w
    <2> QED BY <2>1, <2>2, <2>3, <2>4, <2>5 DEF Settled
  <1>6. CASE r = Term(key, value, FALSE, TRUE) /\ Without(key, "=") /\ Without(value, "=") /\ key[Len(key)] # "!"
    <2> DEFINE w == Around(key, Equal, value)
    <2>1. Written(r) = w
      BY <1>2, <1>6 DEF Around
    <2>2. w \in Seq(Mark)
      BY <1>4, AroundIs
    <2>3. Trimmed(w) /\ w # <<>>
      BY <1>1, <1>4, AroundTrimmed
    <2>4. Without(w, Comma)
      BY <1>1, <1>4, AroundWithout
    <2>5. ParseRequirement(w) = r
      BY <1>1, <1>6, <1>9, EqualIsRead
    <2> HIDE DEF w
    <2> QED BY <2>1, <2>2, <2>3, <2>4, <2>5 DEF Settled
  <1>7. CASE r = Term(key, <<>>, TRUE, FALSE) /\ Without(key, "=")
    <2> DEFINE bang == <<"!">>
               w    == bang \o key
    <2>1. Written(r) = w
      BY <1>2, <1>7
    <2>2. ParseRequirement(w) = r
      BY <1>1, <1>7, <1>9, NotIsRead
    <2>3. bang \in Seq(Mark) /\ Len(bang) = 1 /\ bang[1] = "!"
      <3>1. "!" \in Mark
        BY MarkAssumption
      <3>2. \A m \in Mark : <<m>> \in Seq(Mark)
        OBVIOUS
      <3> QED BY <3>1, <3>2
    <2> HIDE DEF bang
    <2>4. /\ w \in Seq(Mark) /\ Len(w) = 1 + Len(key)
          /\ \A i \in 1..(1 + Len(key)) : w[i] = IF i <= 1 THEN bang[i] ELSE key[i - 1]
      <3>1. w \in Seq(Mark)
        BY <2>3, ConcatProperties
      <3>2. Len(w) = Len(bang) + Len(key)
        BY <2>3, ConcatProperties
      <3>3. \A i \in 1..(Len(bang) + Len(key)) : w[i] = IF i <= Len(bang) THEN bang[i] ELSE key[i - Len(bang)]
        BY <2>3, ConcatProperties
      <3> HIDE DEF w
      <3> QED BY <2>3, <3>1, <3>2, <3>3
    <2> HIDE DEF w
    <2>5. Len(key) \in Nat /\ Len(key) # 0 /\ w # <<>>
      BY <1>1, <2>4, EmptySeq
    <2>6. Trimmed(w)
      <3>1. w[1] = "!"
        BY <2>3, <2>4, <2>5
      <3>2. Len(w) \in 1..(1 + Len(key)) /\ ~(Len(w) <= 1) /\ Len(w) - 1 = Len(key)
        BY <2>4, <2>5
      <3>3. w[Len(w)] = key[Len(key)]
        BY <2>4, <3>2
      <3> QED BY <1>1, <3>1, <3>3, MarksDiffer DEF Trimmed
    <2>7. Without(w, Comma)
      <3>1. ASSUME NEW k \in 1..Len(w) PROVE w[k] # Comma
        <4>1. CASE k = 1
          BY <2>3, <2>4, <2>5, <4>1, MarksDiffer
        <4>2. CASE k # 1
          <5>1. k - 1 \in 1..Len(key) /\ w[k] = key[k - 1]
            BY <2>4, <2>5, <4>2
          <5> QED BY <1>1, <5>1 DEF Without
        <4> QED BY <4>1, <4>2
      <3> QED BY <3>1 DEF Without
    <2> QED BY <2>1, <2>2, <2>4, <2>5, <2>6, <2>7 DEF Settled
  <1>8. CASE r = Term(key, <<>>, FALSE, FALSE) /\ Without(key, "=") /\ key[1] # "!"
    <2>1. Written(r) = key
      <3>1. <<>> \o key = key
        BY ConcatEmptySeq
      <3> QED BY <1>2, <1>8, <3>1
    <2>2. ParseRequirement(key) = r
      BY <1>1, <1>8, NameIsRead
    <2> QED BY <1>1, <2>1, <2>2 DEF Settled
  <1> QED BY <1>1, <1>5, <1>6, <1>7, <1>8

-----------------------------------------------------------------------------
(* What Terms and Text are at a text and at a requirement. *)
TermsAt(split, s, p) ==
  LET commas == Places(s, <<Comma>>) IN
  IF commas = {} THEN <<s>>
  ELSE <<SubSeq(s, 1, Min(commas) - 1)>> \o split[SubSeq(s, Min(commas) + 1, Len(s))]

TextAt(from, k, sel) ==
  IF k = Len(sel) THEN Written(sel[k]) ELSE Written(sel[k]) \o <<Comma>> \o from[k + 1]

Cutting == INSTANCE Induction WITH Def <- TermsAt
Writing == INSTANCE Induction WITH Def <- TextAt

Marks == [s \in Seq(Mark) |-> Len(s)]

(* The first comma of a text, and the text after it. *)
LEMMA FirstComma ==
  ASSUME NEW s \in Seq(Mark), Places(s, <<Comma>>) # {}
  PROVE  LET at == Min(Places(s, <<Comma>>))
         IN  /\ at \in 1..Len(s) /\ s[at] = Comma
             /\ SubSeq(s, 1, at - 1) \in Seq(Mark) /\ Without(SubSeq(s, 1, at - 1), Comma)
             /\ SubSeq(s, at + 1, Len(s)) \in Seq(Mark) /\ Len(SubSeq(s, at + 1, Len(s))) < Len(s)
  <1> DEFINE commas == Places(s, <<Comma>>)
             at     == Min(commas)
             left   == SubSeq(s, 1, at - 1)
             right  == SubSeq(s, at + 1, Len(s))
  <1>1. Len(s) \in Nat /\ \A k \in 1..Len(s) : s[k] \in Mark
    BY ElementOfSeq
  <1>2. commas \in SUBSET (1..Len(s)) /\ \A k \in 1..Len(s) : k \in commas <=> s[k] = Comma
    BY OnePlaces
  <1>3. at \in commas /\ \A k \in commas : at <= k
    BY <1>1, <1>2, FirstPlace
  <1> HIDE DEF commas, at
  <1>4. at \in 1..Len(s) /\ s[at] = Comma
    BY <1>2, <1>3
  <1>5. left \in Seq(Mark) /\ Len(left) = at - 1 /\ \A k \in 1..(at - 1) : left[k] = s[k]
    <2>1. at - 1 \in 0..Len(s)
      BY <1>1, <1>4
    <2> QED BY <2>1, CutInTwo
  <1>6. right \in Seq(Mark) /\ Len(right) = Len(s) - at
    <2>1. at \in 0..Len(s)
      BY <1>1, <1>4
    <2> QED BY <2>1, CutInTwo
  <1> HIDE DEF left, right
  <1>7. Without(left, Comma)
    <2> SUFFICES ASSUME NEW k \in 1..Len(left), left[k] = Comma PROVE FALSE
      BY DEF Without
    <2>1. k \in 1..Len(s) /\ k < at /\ s[k] = Comma
      BY <1>1, <1>4, <1>5
    <2> QED BY <1>2, <1>3, <1>4, <2>1
  <1>8. Len(right) < Len(s)
    BY <1>1, <1>4, <1>6
  <1> QED BY <1>4, <1>5, <1>6, <1>7, <1>8 DEF left, right, at, commas

(* Terms is the function that its recursive definition says.                *)
LEMMA TermsDefined ==
  ASSUME NEW s \in Seq(Mark)
  PROVE  Terms(s) = TermsAt([x \in Seq(Mark) |-> Terms(x)], s, 0)
  <1> DEFINE Smaller(x) == {y \in Seq(Mark) : Marks[y] < Marks[x]}
  <1>0. ASSUME NEW x \in Seq(Mark), Places(x, <<Comma>>) # {}
        PROVE  SubSeq(x, Min(Places(x, <<Comma>>)) + 1, Len(x)) \in Smaller(x)
    BY <1>0, FirstComma DEF Marks
  <1>1. Cutting!NeedsSmaller(Seq(Mark), Marks, 0)
    <2> SUFFICES ASSUME NEW x \in Seq(Mark), NEW g, NEW h,
                        \A y \in Cutting!Smaller(Seq(Mark), Marks, x) : g[y] = h[y]
                 PROVE  TermsAt(g, x, 0) = TermsAt(h, x, 0)
      BY DEF Cutting!NeedsSmaller
    <2> QED BY <1>0 DEF TermsAt, Cutting!Smaller
  <1>2. PICK f : f = [x \in Seq(Mark) |-> TermsAt(f, x, 0)]
    <2>1. Marks \in [Seq(Mark) -> Nat]
      BY DEF Marks
    <2> QED BY <1>1, <2>1, Cutting!Defined
  <1> DEFINE split == CHOOSE g : g = [x \in Seq(Mark) |-> TermsAt(g, x, 0)]
  <1>3. split = [x \in Seq(Mark) |-> TermsAt(split, x, 0)]
    BY <1>2
  <1>4. \A x \in Seq(Mark) : Terms(x) = split[x]
    BY DEF Terms, TermsAt
  <1>5. split = [x \in Seq(Mark) |-> Terms(x)]
    <2> HIDE DEF split
    <2> QED BY <1>3, <1>4
  <1>6. split[s] = TermsAt(split, s, 0)
    <2> HIDE DEF split
    <2> QED BY <1>3
  <1> QED BY <1>4, <1>5, <1>6

(* A text without a comma is one term, and any other is its first term and  *)
(* the terms of the rest.                                                   *)
LEMMA OneTerm ==
  ASSUME NEW s \in Seq(Mark), Without(s, Comma)
  PROVE  Terms(s) = <<s>>
  <1>1. Places(s, <<Comma>>) \in SUBSET (1..Len(s)) /\ \A k \in 1..Len(s) : k \in Places(s, <<Comma>>) <=> s[k] = Comma
    BY OnePlaces
  <1>2. Places(s, <<Comma>>) = {}
    BY <1>1 DEF Without
  <1> QED BY <1>2, TermsDefined DEF TermsAt

(* Any other is the term before its first comma and the terms after it.     *)
LEMMA FirstTerm ==
  ASSUME NEW a \in Seq(Mark), NEW b \in Seq(Mark), Without(a, Comma)
  PROVE  Terms(Around(a, <<Comma>>, b)) = <<a>> \o Terms(b)
  <1> DEFINE comma == <<Comma>>
             w == Around(a, comma, b)
             n == Len(a)
             commas == Places(w, comma)
  <1>1. comma \in Seq(Mark) /\ Len(comma) = 1 /\ comma[1] = Comma
    <2>1. Comma \in Mark
      BY MarkAssumption
    <2> HIDE DEF w
    <2>2. \A m \in Mark : <<m>> \in Seq(Mark)
      OBVIOUS
    <2> QED BY <2>1, <2>2
  <1>2. commas \in SUBSET (1..Len(w)) /\ \A k \in 1..Len(w) : k \in commas <=> w[k] = Comma
    <2>1. w \in Seq(Mark)
      BY <1>1, AroundIs
    <2> HIDE DEF w
    <2> QED BY <2>1, OnePlaces
  <1> HIDE DEF comma
  <1>3. w \in Seq(Mark) /\ Len(w) = n + Len(comma) + Len(b)
    BY <1>1, AroundIs
  <1>4. \A k \in 1..n : w[k] = a[k]
    BY <1>1, AroundIs
  <1>5. \A k \in 1..Len(comma) : w[n + k] = comma[k]
    BY <1>1, AroundIs
  <1>6. SubSeq(w, 1, n) = a /\ SubSeq(w, n + Len(comma) + 1, Len(w)) = b
    BY <1>1, AroundCut, ZenonT(60)
  <1> HIDE DEF w, commas
  <1>7. n \in Nat /\ Len(b) \in Nat
    OBVIOUS
  <1>8. n + 1 \in commas
    <2>1. n + 1 \in 1..Len(w) /\ 1 \in 1..Len(comma)
      BY <1>1, <1>3, <1>7
    <2>2. w[n + 1] = Comma
      BY <1>1, <1>5, <2>1
    <2> QED BY <1>2, <2>1, <2>2
  <1>9. ASSUME NEW k \in commas PROVE n + 1 <= k
    <2>1. SUFFICES ASSUME k <= n PROVE FALSE
      BY <1>2, <1>7
    <2>2. k \in 1..n /\ w[k] = Comma
      BY <1>2, <1>7, <2>1
    <2> QED BY <1>4, <2>2 DEF Without
  <1>10. Min(commas) = n + 1
    <2>1. commas \in SUBSET Nat
      BY <1>2
    <2> QED BY <1>8, <1>9, <2>1, LeastIs
  <1> DEFINE before == Min(commas) - 1
             after  == Min(commas) + 1
  <1>11. before = n /\ after = n + Len(comma) + 1
    BY <1>1, <1>7, <1>10
  <1>12. TermsAt([x \in Seq(Mark) |-> Terms(x)], w, 0) =
           <<SubSeq(w, 1, before)>> \o [x \in Seq(Mark) |-> Terms(x)][SubSeq(w, after, Len(w))]
    BY <1>8 DEF TermsAt, commas, comma
  <1> HIDE DEF before, after
  <1>13. SubSeq(w, 1, before) = a /\ SubSeq(w, after, Len(w)) = b
    BY <1>6, <1>11
  <1>14. Terms(w) = TermsAt([x \in Seq(Mark) |-> Terms(x)], w, 0)
    BY <1>3, TermsDefined
  <1> QED BY <1>12, <1>13, <1>14 DEF w, comma

(* No term has a comma, and there is one at least. *)
WholeTerm == {u \in Seq(Mark) : Without(u, Comma)}

(* What Terms cuts a text into.                                             *)
LEMMA TermsAreWhole ==
  ASSUME NEW s \in Seq(Mark)
  PROVE  Terms(s) \in Seq(WholeTerm) /\ Len(Terms(s)) # 0
  <1> DEFINE Good == {x \in Seq(Mark) : Terms(x) \in Seq(WholeTerm) /\ Len(Terms(x)) # 0}
  <1>1. ASSUME NEW x \in Seq(Mark), Cutting!Smaller(Seq(Mark), Marks, x) \subseteq Good PROVE x \in Good
    <2>1. CASE Places(x, <<Comma>>) = {}
      <3>1. \A k \in 1..Len(x) : k \in Places(x, <<Comma>>) <=> x[k] = Comma
        BY OnePlaces
      <3>2. Without(x, Comma)
        BY <2>1, <3>1 DEF Without
      <3> DEFINE one == <<x>>
      <3>3. Terms(x) = one
        BY <3>2, OneTerm
      <3>4. one \in Seq(WholeTerm) /\ Len(one) = 1
        <4>1. x \in WholeTerm
          BY <3>2 DEF WholeTerm
        <4> QED BY <4>1
      <3> HIDE DEF one
      <3>5. Terms(x) \in Seq(WholeTerm) /\ Len(Terms(x)) # 0
        BY <3>3, <3>4
      <3> QED BY <3>5
    <2>2. CASE Places(x, <<Comma>>) # {}
      <3> DEFINE left  == SubSeq(x, 1, Min(Places(x, <<Comma>>)) - 1)
                 right == SubSeq(x, Min(Places(x, <<Comma>>)) + 1, Len(x))
      <3>1. left \in Seq(Mark) /\ Without(left, Comma) /\ right \in Seq(Mark) /\ Len(right) < Len(x)
        BY <2>2, FirstComma
      <3>2. Terms(x) = <<left>> \o Terms(right)
        <4>1. [y \in Seq(Mark) |-> Terms(y)][right] = Terms(right)
          BY <3>1
        <4> QED BY <2>2, <4>1, TermsDefined DEF TermsAt
      <3> HIDE DEF left, right
      <3>3. right \in Good
        BY <1>1, <3>1 DEF Cutting!Smaller, Marks
      <3> DEFINE one  == <<left>>
                 rest == Terms(right)
      <3>4. one \in Seq(WholeTerm) /\ Len(one) = 1
        BY <3>1 DEF WholeTerm
      <3>5. rest \in Seq(WholeTerm)
        BY <3>3
      <3> HIDE DEF one, rest
      <3>6. one \o rest \in Seq(WholeTerm) /\ Len(one \o rest) = Len(one) + Len(rest)
        BY <3>4, <3>5, ConcatProperties
      <3>7. Len(one \o rest) # 0
        BY <3>4, <3>5, <3>6
      <3> QED BY <3>2, <3>6, <3>7 DEF one, rest
    <2> QED BY <2>1, <2>2
  <1>2. Marks \in [Seq(Mark) -> Nat]
    BY DEF Marks
  <1>3. Seq(Mark) \subseteq Good
    <2> HIDE DEF Good
    <2> QED BY <1>1, <1>2, Cutting!ByRank
  <1> QED BY <1>3

(* The text of settled requirements has a term for each, what it is written *)
(* as.                                                                      *)
LEMMA TextIsRead ==
  ASSUME NEW S, NEW sel \in Seq(S), sel # <<>>, \A k \in 1..Len(sel) : Settled(sel[k])
  PROVE  /\ Text(sel) \in Seq(Mark) /\ Trimmed(Text(sel)) /\ Text(sel) # <<>>
         /\ Len(Terms(Text(sel))) = Len(sel)
         /\ \A k \in 1..Len(sel) : Terms(Text(sel))[k] = Written(sel[k])
  <1> DEFINE n    == Len(sel)
             left == [k \in 1..n |-> n - k]
             from == CHOOSE f : f = [k \in 1..n |-> TextAt(f, k, sel)]
             Good(k, t) ==
               /\ t \in Seq(Mark) /\ Trimmed(t) /\ t # <<>>
               /\ Len(Terms(t)) = n - k + 1
               /\ \A i \in 1..(n - k + 1) : Terms(t)[i] = Written(sel[k + i - 1])
             Right == {k \in 1..n : Good(k, from[k])}
  <1>1. n \in Nat /\ n # 0
    BY EmptySeq
  <1>2. left \in [1..n -> Nat]
    BY <1>1
  <1>3. Writing!NeedsSmaller(1..n, left, sel)
    <2> SUFFICES ASSUME NEW k \in 1..n, NEW g, NEW h,
                        \A j \in Writing!Smaller(1..n, left, k) : g[j] = h[j]
                 PROVE  TextAt(g, k, sel) = TextAt(h, k, sel)
      BY DEF Writing!NeedsSmaller
    <2>1. CASE k = n
      BY <2>1 DEF TextAt
    <2>2. CASE k # n
      <3>1. k + 1 \in Writing!Smaller(1..n, left, k)
        BY <1>1, <2>2 DEF Writing!Smaller
      <3>2. g[k + 1] = h[k + 1]
        BY <3>1
      <3> QED BY <3>2 DEF TextAt
    <2> QED BY <2>1, <2>2
  <1>4. from = [k \in 1..n |-> TextAt(from, k, sel)]
    <2>1. PICK f : f = [k \in 1..n |-> TextAt(f, k, sel)]
      <3> DEFINE places == 1..n
      <3>1. left \in [places -> Nat] /\ Writing!NeedsSmaller(places, left, sel)
        BY <1>2, <1>3
      <3> HIDE DEF n, left, places
      <3>2. \E f : f = [k \in places |-> TextAt(f, k, sel)]
        BY <3>1, Writing!Defined
      <3> QED BY <3>2 DEF places
    <2> QED BY <2>1
  <1>5. Text(sel) = from[1]
    BY DEF Text, TextAt
  <1> HIDE DEF from
  <1>6. \A k \in 1..n : from[k] = TextAt(from, k, sel)
    BY <1>4
  <1>7. ASSUME NEW k \in 1..n, Writing!Smaller(1..n, left, k) \subseteq Right PROVE Good(k, from[k])
    <2> DEFINE w == Written(sel[k])
    <2>1. w \in Seq(Mark) /\ w # <<>> /\ Trimmed(w) /\ Without(w, Comma)
      BY DEF Settled
    <2>2. CASE k = n
      <3>1. from[k] = w
        BY <1>6, <2>2 DEF TextAt
      <3>2. Terms(w) = <<w>>
        BY <2>1, OneTerm
      <3> DEFINE one == <<w>>
      <3>3. Len(one) = 1 /\ one[1] = w
        OBVIOUS
      <3> HIDE DEF one, w
      <3>4. n - k + 1 = 1 /\ k + 1 - 1 = k
        BY <1>1, <2>2
      <3>5. Len(Terms(w)) = n - k + 1
        BY <3>2, <3>3, <3>4 DEF one
      <3>6. \A i \in 1..(n - k + 1) : Terms(w)[i] = Written(sel[k + i - 1])
        <4> SUFFICES ASSUME NEW i \in 1..(n - k + 1) PROVE Terms(w)[i] = Written(sel[k + i - 1])
          OBVIOUS
        <4>1. i = 1 /\ k + i - 1 = k
          BY <3>4
        <4>2. Terms(w)[1] = Written(sel[k])
          BY <3>2, <3>3 DEF one, w
        <4> QED BY <4>1, <4>2
      <3> QED BY <2>1, <3>1, <3>5, <3>6
    <2>3. CASE k # n
      <3> DEFINE rest == from[k + 1]
                 t    == Around(w, <<Comma>>, rest)
      <3>1. k + 1 \in Writing!Smaller(1..n, left, k)
        BY <1>1, <2>3 DEF Writing!Smaller
      <3>2. Good(k + 1, rest)
        BY <1>7, <3>1
      <3>3. from[k] = t
        <4>1. from[k] = TextAt(from, k, sel)
          BY <1>6
        <4>2. TextAt(from, k, sel) = w \o <<Comma>> \o rest
          BY <2>3 DEF TextAt
        <4> QED BY <4>1, <4>2 DEF Around
      <3> HIDE DEF rest, w
      <3>4. rest \in Seq(Mark) /\ Trimmed(rest) /\ rest # <<>>
        BY <3>2
      <3> DEFINE comma == <<Comma>>
      <3>5. comma \in Seq(Mark) /\ Len(comma) # 0 /\ comma[1] # Blank /\ comma[Len(comma)] # Blank
        <4>1. Comma \in Mark
          BY MarkAssumption
        <4>2. \A m \in Mark : <<m>> \in Seq(Mark)
          OBVIOUS
        <4>3. comma \in Seq(Mark)
          BY <4>1, <4>2
        <4>4. Len(comma) = 1 /\ comma[1] = Comma
          OBVIOUS
        <4>5. Comma # Blank
          BY Zenon DEF Comma, Blank
        <4> HIDE DEF comma
        <4> QED BY <4>3, <4>4, <4>5
      <3>6. t \in Seq(Mark) /\ Trimmed(t) /\ t # <<>>
        <4> HIDE DEF comma
        <4>1. Around(w, comma, rest) \in Seq(Mark)
          BY <2>1, <3>4, <3>5, AroundIs
        <4>2. Trimmed(Around(w, comma, rest)) /\ Around(w, comma, rest) # <<>>
          BY <2>1, <3>4, <3>5, AroundTrimmed
        <4> QED BY <4>1, <4>2 DEF comma
      <3> DEFINE one  == <<w>>
                 more == Terms(rest)
      <3>7. Terms(t) = one \o more
        BY <2>1, <3>4, FirstTerm
      <3>8. one \in Seq(WholeTerm) /\ Len(one) = 1 /\ one[1] = w
        <4>1. w \in WholeTerm
          BY <2>1 DEF WholeTerm
        <4> QED BY <4>1
      <3>9. more \in Seq(WholeTerm)
        BY <3>4, TermsAreWhole
      <3>10. Len(more) = n - (k + 1) + 1 /\ \A i \in 1..(n - (k + 1) + 1) : more[i] = Written(sel[(k + 1) + i - 1])
        BY <3>2
      <3> HIDE DEF one, more, t
      <3>11. Len(one \o more) = Len(one) + Len(more)
        BY <3>8, <3>9, ConcatProperties
      <3>12. \A i \in 1..(Len(one) + Len(more)) :
               (one \o more)[i] = IF i <= Len(one) THEN one[i] ELSE more[i - Len(one)]
        BY <3>8, <3>9, ConcatProperties
      <3> DEFINE both == one \o more
      <3>13. Len(both) = n - k + 1 /\ 1 + Len(more) = n - k + 1
        BY <1>1, <3>8, <3>10, <3>11
      <3>14. \A i \in 1..(n - k + 1) : both[i] = IF i <= 1 THEN one[i] ELSE more[i - 1]
        BY <3>8, <3>12, <3>13
      <3> HIDE DEF both
      <3>15. \A i \in 1..(n - k + 1) : both[i] = Written(sel[k + i - 1])
        <4> SUFFICES ASSUME NEW i \in 1..(n - k + 1) PROVE both[i] = Written(sel[k + i - 1])
          OBVIOUS
        <4>1. CASE i = 1
          <5>1. k + i - 1 = k
            BY <4>1
          <5> QED BY <3>8, <3>14, <4>1, <5>1 DEF w
        <4>2. CASE i # 1
          <5>1. i - 1 \in 1..(n - (k + 1) + 1) /\ (k + 1) + (i - 1) - 1 = k + i - 1 /\ ~(i <= 1)
            BY <1>1, <2>3, <4>2
          <5>2. both[i] = more[i - 1]
            BY <3>14, <5>1
          <5>3. more[i - 1] = Written(sel[(k + 1) + (i - 1) - 1])
            BY <3>10, <5>1
          <5> QED BY <5>1, <5>2, <5>3
        <4> QED BY <4>1, <4>2
      <3> QED BY <3>3, <3>6, <3>7, <3>13, <3>15 DEF both
    <2> QED BY <2>2, <2>3
  <1>8. 1..n \subseteq Right
    <2>1. \A k \in 1..n : Writing!Smaller(1..n, left, k) \subseteq Right => k \in Right
      BY <1>7
    <2> HIDE DEF Right, left
    <2> QED BY <1>2, <2>1, Writing!ByRank
  <1>9. Good(1, from[1])
    <2>1. 1 \in 1..n
      BY <1>1
    <2> HIDE DEF Good
    <2> QED BY <1>8, <2>1
  <1>10. n - 1 + 1 = n /\ \A k \in 1..n : 1 + k - 1 = k
    BY <1>1
  <1> DEFINE t == from[1]
  <1>11. Len(Terms(t)) = n /\ \A k \in 1..n : Terms(t)[k] = Written(sel[k])
    <2>1. \A k \in 1..n : Terms(t)[k] = Written(sel[1 + k - 1])
      BY <1>9, <1>10
    <2> QED BY <1>9, <1>10, <2>1
  <1> QED BY <1>5, <1>9, <1>11

(* What a provider reads from the text of a plain selector is the selector. *)
LEMMA PlainIsRead ==
  ASSUME NEW t \in Seq(Mark), Accepted(ParseSelector(t)),
         \A k \in DOMAIN Terms(Trim(t)) : PlainTerm(Trim(Terms(Trim(t))[k]))
  PROVE  ParseSelector(Text(ParseSelector(t))) = ParseSelector(t)
  <1> DEFINE all   == Trim(t)
             terms == Terms(all)
             sel   == ParseSelector(t)
  <1>1. all \in Seq(Mark) /\ Trimmed(all)
    BY TrimTakes
  <1>2. CASE all = <<>>
    <2>1. sel = <<>>
      BY <1>2 DEF ParseSelector
    <2>2. Text(sel) = <<>>
      BY <2>1 DEF Text
    <2>3. <<>> \in Seq(Mark) /\ Trimmed(<<>>)
      BY DEF Trimmed
    <2>4. Trim(<<>>) = <<>>
      BY <2>3, TrimAgain
    <2>5. ParseSelector(<<>>) = <<>>
      BY <2>4 DEF ParseSelector
    <2> HIDE DEF sel
    <2> QED BY <2>1, <2>2, <2>5 DEF sel
  <1>3. CASE all # <<>>
    <2>1. terms \in Seq(WholeTerm) /\ Len(terms) # 0
      BY <1>1, TermsAreWhole
    <2>2. sel = [k \in DOMAIN terms |-> ParseRequirement(Trim(terms[k]))]
      BY <1>3 DEF ParseSelector
    <2>3. \A k \in DOMAIN sel : sel[k] # Refused
      BY DEF Accepted
    <2>4. \A k \in DOMAIN terms : PlainTerm(Trim(terms[k]))
      OBVIOUS
    <2> HIDE DEF terms, sel
    <2> DEFINE n == Len(terms)
               S == {sel[k] : k \in 1..n}
    <2>5. DOMAIN terms = 1..n /\ n \in Nat /\ n # 0 /\ \A k \in 1..n : terms[k] \in WholeTerm
      BY <2>1, ElementOfSeq
    <2>6. \A k \in 1..n : sel[k] = ParseRequirement(Trim(terms[k]))
      BY <2>2, <2>5
    <2>7. sel \in Seq(S) /\ Len(sel) = n
      <3>1. DOMAIN sel = 1..n
        BY <2>2, <2>5
      <3>2. sel = [k \in 1..n |-> sel[k]]
        BY <2>2, <2>5
      <3>3. \A k \in 1..n : sel[k] \in S
        OBVIOUS
      <3> HIDE DEF n, S
      <3>4. sel \in [1..n -> S]
        BY <3>2, <3>3
      <3>5. sel \in Seq(S)
        BY <2>5, <3>4, IsASeq
      <3> QED BY <2>5, <3>1, <3>5, LenProperties
    <2>8. ASSUME NEW k \in 1..n PROVE Settled(sel[k])
      <3> DEFINE u == Trim(terms[k])
      <3>1. terms[k] \in Seq(Mark) /\ Without(terms[k], Comma)
        BY <2>5 DEF WholeTerm
      <3>2. u \in Seq(Mark) /\ Trimmed(u)
        BY <3>1, TrimTakes
      <3>3. PICK i \in Nat : TrimsTo(terms[k], u, i)
        BY <3>1, TrimTakes
      <3>4. sel[k] = ParseRequirement(u) /\ PlainTerm(u)
        BY <2>4, <2>5, <2>6
      <3> HIDE DEF u
      <3>5. Without(u, Comma)
        <4> SUFFICES ASSUME NEW j \in 1..Len(u) PROVE u[j] # Comma
          BY DEF Without
        <4>1. Len(u) \in Nat /\ Len(terms[k]) \in Nat
          BY <3>1, <3>2
        <4>2. i + j \in 1..Len(terms[k]) /\ u[j] = terms[k][i + j]
          BY <3>3, <4>1 DEF TrimsTo
        <4> QED BY <3>1, <4>2 DEF Without
      <3>6. sel[k] # Refused
        BY <2>2, <2>3, <2>5
      <3>7. Legible(ParseRequirement(u))
        BY <3>2, <3>4, <3>5, <3>6, PlainIsReadable
      <3> QED BY <3>4, <3>7, ReadableSettles
    <2> HIDE DEF S, n
    <2> DEFINE text == Text(sel)
               back == Terms(text)
    <2>9. sel # <<>>
      BY <2>5, <2>7, EmptySeq
    <2>10. \A k \in 1..Len(sel) : Settled(sel[k])
      BY <2>7, <2>8
    <2>11. /\ text \in Seq(Mark) /\ Trimmed(text) /\ text # <<>> /\ Len(back) = n
           /\ \A k \in 1..n : back[k] = Written(sel[k])
      <3> HIDE DEF S
      <3> QED BY <2>7, <2>9, <2>10, TextIsRead
    <2>12. DOMAIN back = 1..n
      <3>1. back \in Seq(WholeTerm)
        BY <2>11, TermsAreWhole
      <3> HIDE DEF back
      <3> QED BY <2>11, <3>1, LenProperties
    <2>13. Trim(text) = text
      BY <2>11, TrimAgain
    <2>14. ParseSelector(text) = [k \in DOMAIN back |-> ParseRequirement(Trim(back[k]))]
      <3> HIDE DEF text
      <3> QED BY <2>11, <2>13 DEF ParseSelector, back
    <2> HIDE DEF text, back
    <2>15. ASSUME NEW k \in 1..n PROVE ParseRequirement(Trim(back[k])) = sel[k]
      <3> DEFINE w == Written(sel[k])
      <3>1. w \in Seq(Mark) /\ Trimmed(w) /\ ParseRequirement(w) = sel[k]
        BY <2>8 DEF Settled
      <3>2. back[k] = w
        BY <2>11
      <3> HIDE DEF w
      <3>3. Trim(w) = w
        BY <3>1, TrimAgain
      <3> QED BY <3>1, <3>2, <3>3
    <2>16. ParseSelector(text) = [k \in 1..n |-> sel[k]]
      BY <2>12, <2>14, <2>15
    <2>17. sel = [k \in 1..n |-> sel[k]]
      BY <2>2, <2>5
    <2> QED BY <2>16, <2>17 DEF text, sel
  <1> QED BY <1>2, <1>3

(* So it keeps the same objects. *)
LEMMA AnySelectorCrosses ==
  ASSUME NEW t \in Seq(Mark)
  PROVE  CrossesAsText(t)
  <1> DEFINE sel == ParseSelector(t)
             got == ParseSelector(Text(sel))
  <1>1. ASSUME Accepted(sel), \A k \in DOMAIN Terms(Trim(t)) : PlainTerm(Trim(Terms(Trim(t))[k]))
        PROVE  got = sel
    BY <1>1, PlainIsRead
  <1> HIDE DEF sel, got
  <1>2. ASSUME Accepted(sel), \A k \in DOMAIN Terms(Trim(t)) : PlainTerm(Trim(Terms(Trim(t))[k]))
        PROVE  /\ Accepted(got)
               /\ \A labels \in Labellings({sel, got}) : MatchesLabels(got, labels) <=> MatchesLabels(sel, labels)
    BY <1>1, <1>2
  <1> QED BY <1>2 DEF CrossesAsText, sel, got

-----------------------------------------------------------------------------
(* A term and its negation. *)

(* Taking blanks off before Trim makes no difference. *)
LEMMA TrimPart ==
  ASSUME NEW s \in Seq(Mark), NEW first \in 1..(Len(s) + 1), NEW last \in (first - 1)..Len(s),
         \A k \in 1..Len(s) : k < first \/ last < k => s[k] = Blank
  PROVE  Trim(SubSeq(s, first, last)) = Trim(s)
  <1> DEFINE u == Trim(SubSeq(s, first, last))
  <1>1. u \in Seq(Mark) /\ Trimmed(u) /\ IsPart(s, first, last, u)
    BY TrimmedPart
  <1> HIDE DEF u
  <1>2. PICK i \in Nat : /\ first - 1 <= i /\ i + Len(u) <= last
                         /\ \A k \in 1..Len(u) : u[k] = s[i + k]
                         /\ \A k \in first..last : k <= i \/ i + Len(u) < k => s[k] = Blank
    BY <1>1 DEF IsPart
  <1>3. Len(s) \in Nat /\ Len(u) \in Nat
    BY <1>1
  <1>4. i + Len(u) <= Len(s)
    BY <1>2, <1>3
  <1>5. ASSUME NEW k \in 1..Len(s), k <= i \/ i + Len(u) < k PROVE s[k] = Blank
    <2>1. CASE k \in first..last
      BY <1>2, <1>5, <2>1
    <2>2. CASE k \notin first..last
      <3>1. k < first \/ last < k
        BY <1>3, <2>2
      <3> QED BY <3>1
    <2> QED BY <2>1, <2>2
  <1>6. TrimsTo(s, u, i)
    BY <1>2, <1>4, <1>5 DEF TrimsTo
  <1> QED BY <1>1, <1>6, TrimLeaves DEF u

(* A text that is around some marks, mark by mark, is so. *)
MadeOf(s, a, m, b) ==
  /\ Len(s) = Len(a) + Len(m) + Len(b)
  /\ \A k \in 1..Len(a) : s[k] = a[k]
  /\ \A k \in 1..Len(m) : s[Len(a) + k] = m[k]
  /\ \A k \in 1..Len(b) : s[Len(a) + Len(m) + k] = b[k]

(* Such a text is the text around.                                          *)
LEMMA IsAround ==
  ASSUME NEW s \in Seq(Mark), NEW a \in Seq(Mark), NEW m \in Seq(Mark), NEW b \in Seq(Mark),
         MadeOf(s, a, m, b)
  PROVE  s = Around(a, m, b)
  <1> USE DEF MadeOf
  <1> DEFINE w == Around(a, m, b)
  <1>1. w \in Seq(Mark) /\ Len(w) = Len(a) + Len(m) + Len(b)
    BY AroundIs
  <1>2. ASSUME NEW k \in 1..Len(s) PROVE s[k] = w[k]
    <2>1. Len(a) \in Nat /\ Len(m) \in Nat /\ Len(b) \in Nat /\ k \in Nat /\ k \in 1..Len(w)
      BY <1>1
    <2>2. \/ k \in 1..Len(a) /\ w[k] = a[k]
          \/ k - Len(a) \in 1..Len(m) /\ w[k] = m[k - Len(a)]
          \/ k - Len(a) - Len(m) \in 1..Len(b) /\ w[k] = b[k - Len(a) - Len(m)]
      BY <2>1, AroundHas
    <2> HIDE DEF w
    <2>3. CASE k \in 1..Len(a) /\ w[k] = a[k]
      BY <2>3
    <2>4. CASE k - Len(a) \in 1..Len(m) /\ w[k] = m[k - Len(a)]
      <3>1. Len(a) + (k - Len(a)) = k
        BY <2>1
      <3>2. s[Len(a) + (k - Len(a))] = m[k - Len(a)]
        BY <2>4
      <3> QED BY <2>4, <3>1, <3>2
    <2>5. CASE k - Len(a) - Len(m) \in 1..Len(b) /\ w[k] = b[k - Len(a) - Len(m)]
      <3>1. Len(a) + Len(m) + (k - Len(a) - Len(m)) = k
        BY <2>1
      <3>2. s[Len(a) + Len(m) + (k - Len(a) - Len(m))] = b[k - Len(a) - Len(m)]
        BY <2>5
      <3> QED BY <2>5, <3>1, <3>2
    <2> QED BY <2>2, <2>3, <2>4, <2>5
  <1> HIDE DEF w
  <1>3. Len(s) = Len(w)
    BY <1>1
  <1>4. s = w
    BY <1>1, <1>2, <1>3, SeqEqual
  <1> QED BY <1>4 DEF w

(* Blanks around a text around some marks are blanks of its two sides.      *)
Side(l, a) == Trim(l) = Trim(a) /\ Len(l) <= Len(a) /\ \A c : Without(a, c) => Without(l, c)

(* Trim takes blanks off the outer ends of the two sides, and nothing else. *)
LEMMA TrimAround ==
  ASSUME NEW a \in Seq(Mark), NEW m \in Seq(Mark), NEW b \in Seq(Mark),
         Len(m) # 0, m[1] # Blank, m[Len(m)] # Blank
  PROVE  \E l, r \in Seq(Mark) : Trim(Around(a, m, b)) = Around(l, m, r) /\ Side(l, a) /\ Side(r, b)
  <1> DEFINE w == Around(a, m, b)
             u == Trim(w)
             n == Len(a)
             p == Len(m)
             q == Len(b)
  <1>1. w \in Seq(Mark) /\ Len(w) = n + p + q
    BY AroundIs
  <1>2. \A k \in 1..n : w[k] = a[k]
    BY AroundIs
  <1>3. \A k \in 1..p : w[n + k] = m[k]
    BY AroundIs
  <1>4. \A k \in 1..q : w[n + p + k] = b[k]
    BY AroundIs
  <1> HIDE DEF w
  <1>5. u \in Seq(Mark)
    BY <1>1, TrimTakes
  <1>6. PICK i \in Nat : TrimsTo(w, u, i)
    BY <1>1, TrimTakes
  <1> HIDE DEF u
  <1>7. n \in Nat /\ p \in Nat /\ q \in Nat /\ p # 0 /\ Len(u) \in Nat
    BY <1>5
  <1>8. i <= n /\ n + p <= i + Len(u) /\ i + Len(u) <= n + p + q
    <2>1. 1 \in 1..p /\ p \in 1..p /\ n + 1 \in 1..Len(w) /\ n + p \in 1..Len(w)
      BY <1>1, <1>7
    <2>2. w[n + 1] # Blank /\ w[n + p] # Blank
      BY <1>3, <2>1
    <2> HIDE DEF n, p, q
    <2>3. ~(n + 1 <= i) /\ ~(i + Len(u) < n + p)
      BY <1>6, <2>1, <2>2 DEF TrimsTo
    <2>4. i + Len(u) <= Len(w)
      BY <1>6 DEF TrimsTo
    <2> QED BY <1>1, <1>7, <2>3, <2>4
  <1> DEFINE e == i + Len(u) - n - p
             l == SubSeq(a, i + 1, n)
             r == SubSeq(b, 1, e)
  <1>9. e \in 0..q /\ i + 1 \in 1..(n + 1) /\ n \in i..n
    BY <1>7, <1>8
  <1>10. l \in Seq(Mark) /\ Len(l) = n - i /\ \A k \in 1..(n - i) : l[k] = a[i + k]
    <2>1. i \in 0..Len(a)
      BY <1>7, <1>8
    <2> QED BY <2>1, CutInTwo
  <1>11. r \in Seq(Mark) /\ Len(r) = e /\ \A k \in 1..e : r[k] = b[k]
    <2>1. e \in 0..Len(b)
      BY <1>9
    <2> HIDE DEF e
    <2> QED BY <2>1, CutInTwo
  <1>12. Trim(l) = Trim(a)
    <2>1. \A k \in 1..n : k < i + 1 \/ n < k => a[k] = Blank
      <3> SUFFICES ASSUME NEW k \in 1..n, k < i + 1 PROVE a[k] = Blank
        BY <1>7
      <3>1. k \in 1..Len(w) /\ k <= i
        BY <1>1, <1>7
      <3>2. w[k] = Blank
        BY <1>6, <3>1 DEF TrimsTo
      <3> QED BY <1>2, <3>2
    <2>2. i + 1 \in 1..(Len(a) + 1) /\ n \in ((i + 1) - 1)..Len(a)
      BY <1>7, <1>8
    <2> QED BY <2>1, <2>2, TrimPart
  <1>13. Trim(r) = Trim(b)
    <2>1. \A k \in 1..q : k < 1 \/ e < k => b[k] = Blank
      <3> SUFFICES ASSUME NEW k \in 1..q, e < k PROVE b[k] = Blank
        OBVIOUS
      <3>1. n + p + k \in 1..Len(w) /\ i + Len(u) < n + p + k
        BY <1>1, <1>7, <1>8
      <3>2. w[n + p + k] = Blank
        <4> HIDE DEF n, p, q
        <4> QED BY <1>6, <3>1 DEF TrimsTo
      <3> QED BY <1>4, <3>2
    <2>2. 1 \in 1..(Len(b) + 1) /\ e \in (1 - 1)..Len(b)
      BY <1>7, <1>9
    <2> QED BY <2>1, <2>2, TrimPart
  <1>14. \A k \in 1..Len(u) : u[k] = w[i + k]
    BY <1>6 DEF TrimsTo
  <1> HIDE DEF l, r
  <1>15. u = Around(l, m, r)
    <2>1. Len(u) = Len(l) + Len(m) + Len(r)
      BY <1>7, <1>10, <1>11
    <2>2. ASSUME NEW k \in 1..Len(l) PROVE u[k] = l[k]
      <3>1. k \in 1..Len(u) /\ i + k \in 1..n
        BY <1>7, <1>8, <1>10
      <3>2. u[k] = w[i + k] /\ w[i + k] = a[i + k] /\ l[k] = a[i + k]
        BY <1>2, <1>10, <1>14, <3>1
      <3> QED BY <3>2
    <2>3. ASSUME NEW k \in 1..Len(m) PROVE u[Len(l) + k] = m[k]
      <3>1. Len(l) + k \in 1..Len(u) /\ i + (Len(l) + k) = n + k
        BY <1>7, <1>8, <1>10
      <3>2. u[Len(l) + k] = w[n + k]
        BY <1>14, <3>1
      <3> QED BY <1>3, <3>2
    <2>4. ASSUME NEW k \in 1..Len(r) PROVE u[Len(l) + Len(m) + k] = r[k]
      <3>1. Len(l) + Len(m) + k \in 1..Len(u) /\ i + (Len(l) + Len(m) + k) = n + p + k /\ k \in 1..q /\ k \in 1..e
        BY <1>7, <1>8, <1>9, <1>10, <1>11
      <3>2. u[Len(l) + Len(m) + k] = w[n + p + k]
        BY <1>14, <3>1
      <3> QED BY <1>4, <1>11, <3>1, <3>2
    <2>5. l \in Seq(Mark) /\ r \in Seq(Mark)
      BY <1>10, <1>11
    <2>6. MadeOf(u, l, m, r)
      BY <2>1, <2>2, <2>3, <2>4 DEF MadeOf
    <2> QED BY <1>5, <2>5, <2>6, IsAround
  <1>16. ASSUME NEW c, Without(a, c) PROVE Without(l, c)
    <2> SUFFICES ASSUME NEW k \in 1..Len(l) PROVE l[k] # c
      BY DEF Without
    <2>1. i + k \in 1..n /\ l[k] = a[i + k]
      BY <1>7, <1>8, <1>10
    <2> QED BY <1>16, <2>1 DEF Without
  <1>17. ASSUME NEW c, Without(b, c) PROVE Without(r, c)
    <2> SUFFICES ASSUME NEW k \in 1..Len(r) PROVE r[k] # c
      BY DEF Without
    <2>1. k \in 1..q /\ r[k] = b[k]
      BY <1>7, <1>9, <1>11
    <2> QED BY <1>17, <2>1 DEF Without
  <1>18. Len(l) <= Len(a) /\ Len(r) <= Len(b)
    BY <1>7, <1>9, <1>10, <1>11
  <1>19. Side(l, a) /\ Side(r, b)
    BY <1>12, <1>13, <1>16, <1>17, <1>18 DEF Side
  <1>20. l \in Seq(Mark) /\ r \in Seq(Mark)
    BY <1>10, <1>11
  <1> QED BY <1>15, <1>19, <1>20 DEF u, w

(* A selector of one term. *)
LEMMA OneRead ==
  ASSUME NEW t \in Seq(Mark), Without(Trim(t), Comma), Trim(t) # <<>>
  PROVE  ParseSelector(t) = [k \in {1} |-> ParseRequirement(Trim(t))]
  <1> DEFINE u == Trim(t)
             one == <<u>>
  <1>1. u \in Seq(Mark) /\ Trimmed(u)
    BY TrimTakes
  <1>2. Terms(u) = one
    BY <1>1, OneTerm
  <1>3. DOMAIN one = {1} /\ one[1] = u
    OBVIOUS
  <1>4. ParseSelector(t) = [k \in DOMAIN Terms(u) |-> ParseRequirement(Trim(Terms(u)[k]))]
    BY DEF ParseSelector
  <1> HIDE DEF one
  <1>5. Trim(u) = u
    BY <1>1, TrimAgain
  <1> HIDE DEF u
  <1>6. ParseSelector(t) = [k \in {1} |-> ParseRequirement(Trim(one[k]))]
    BY <1>2, <1>3, <1>4
  <1>7. \A k \in {1} : ParseRequirement(Trim(one[k])) = ParseRequirement(u)
    BY <1>3, <1>5
  <1> QED BY <1>6, <1>7 DEF u

(* The same question, asked for and against. *)
LEMMA OppositesFlip ==
  ASSUME NEW key, NEW value, NEW hasValue \in BOOLEAN, key # <<>>, NEW labels
  PROVE  /\ MatchesLabels([k \in {1} |-> Term(key, value, TRUE, hasValue)], labels) \in BOOLEAN
         /\ MatchesLabels([k \in {1} |-> Term(key, value, TRUE, hasValue)], labels)
              <=> ~MatchesLabels([k \in {1} |-> Term(key, value, FALSE, hasValue)], labels)
  <1> DEFINE yes == Term(key, value, FALSE, hasValue)
             no  == Term(key, value, TRUE, hasValue)
  <1>1. /\ yes.key = key /\ yes.value = value /\ ~yes.negated /\ yes.hasValue = hasValue
        /\ no.key = key /\ no.value = value /\ no.negated /\ no.hasValue = hasValue
    BY DEF Term
  <1> HIDE DEF yes, no
  <1>2. \A r : MatchesLabels([k \in {1} |-> r], labels) <=> Matches(r, labels)
    <2> SUFFICES ASSUME NEW r PROVE MatchesLabels([k \in {1} |-> r], labels) <=> Matches(r, labels)
      OBVIOUS
    <2>1. \A k \in {1} : [l \in {1} |-> r][k] = r
      OBVIOUS
    <2>2. DOMAIN [l \in {1} |-> r] = {1}
      OBVIOUS
    <2> DEFINE sel == [l \in {1} |-> r]
    <2>3. \A k \in {1} : sel[k] = r
      BY <2>1
    <2>4. DOMAIN sel = {1}
      BY <2>2
    <2> HIDE DEF sel
    <2>5. MatchesLabels(sel, labels) <=> Matches(r, labels)
      BY <2>3, <2>4 DEF MatchesLabels
    <2> QED BY <2>5 DEF sel
  <1>3. Matches(no, labels) <=> ~Matches(yes, labels)
    <2> DEFINE has   == key \in DOMAIN labels
               equal == IF has THEN labels[key] = value ELSE value = <<>>
    <2>0. yes.negated = FALSE /\ no.negated = TRUE
      BY DEF yes, no, Term
    <2>1. CASE hasValue
      <3>1. yes.hasValue /\ no.hasValue
        BY <1>1, <2>1
      <3>2. (Matches(no, labels) <=> equal # TRUE) /\ (Matches(yes, labels) <=> equal # FALSE)
        BY <1>1, <2>0, <3>1 DEF Matches
      <3> HIDE DEF equal
      <3>3. equal \in BOOLEAN
        BY DEF equal
      <3> QED BY <3>2, <3>3
    <2>2. CASE ~hasValue
      <3>1. ~yes.hasValue /\ ~no.hasValue
        BY <1>1, <2>2
      <3>2. (Matches(no, labels) <=> has # TRUE) /\ (Matches(yes, labels) <=> has # FALSE)
        BY <1>1, <2>0, <3>1 DEF Matches
      <3> HIDE DEF has
      <3>3. has \in BOOLEAN
        BY DEF has
      <3> QED BY <3>2, <3>3
    <2> QED BY <2>1, <2>2
  <1>4. MatchesLabels([k \in {1} |-> no], labels) \in BOOLEAN
    BY DEF MatchesLabels
  <1> QED BY <1>2, <1>3, <1>4 DEF yes, no

(* A text with one mark where it is, and nowhere else. *)
LEMMA OneMark ==
  ASSUME NEW t \in Seq(Mark), NEW m, \E k \in DOMAIN t : Places(t, <<m>>) = {k}
  PROVE  \E k \in 1..Len(t) : t[k] = m /\ \A l \in 1..Len(t) : t[l] = m => l = k
  <1> DEFINE places == Places(t, <<m>>)
  <1>1. \A k \in 1..Len(t) : k \in places <=> t[k] = m
    BY OnePlaces
  <1>2. PICK k \in 1..Len(t) : places = {k}
    <2>1. DOMAIN t = 1..Len(t)
      OBVIOUS
    <2> QED BY <2>1
  <1> HIDE DEF places
  <1> QED BY <1>1, <1>2

(* A term with !=, and the same term with =. *)
LEMMA UnequalFlips ==
  ASSUME NEW t \in Seq(Mark), NEW at \in 1..(Len(t) - 1), t[at] = "!", t[at + 1] = "=",
         \A k \in 1..Len(t) : t[k] # Comma /\ (t[k] = "!" => k = at) /\ (t[k] = "=" => k = at + 1),
         Accepted(ParseSelector(t))
  PROVE  \E key, value :
           /\ key # <<>>
           /\ ParseSelector(t) = [k \in {1} |-> Term(key, value, TRUE, TRUE)]
           /\ ParseSelector(SubSeq(t, 1, at - 1) \o SubSeq(t, at + 1, Len(t)))
                = [k \in {1} |-> Term(key, value, FALSE, TRUE)]
  <1> DEFINE a == SubSeq(t, 1, at - 1)
             b == SubSeq(t, at + 2, Len(t))
             c == SubSeq(t, at + 1, Len(t))
             o == a \o c
  <1>1. Len(t) \in Nat /\ at \in Nat /\ at >= 1 /\ at + 1 <= Len(t)
    OBVIOUS
  <1>2. a \in Seq(Mark) /\ Len(a) = at - 1 /\ \A k \in 1..(at - 1) : a[k] = t[k]
    <2>1. at - 1 \in 0..Len(t)
      BY <1>1
    <2> QED BY <2>1, CutInTwo
  <1>3. b \in Seq(Mark) /\ Len(b) = Len(t) - at - 1 /\ \A k \in 1..(Len(t) - at - 1) : b[k] = t[at + 1 + k]
    <2> DEFINE from == at + 1
    <2>1. from \in 0..Len(t) /\ from + 1 = at + 2 /\ Len(t) - from = Len(t) - at - 1
      BY <1>1
    <2> HIDE DEF from
    <2>2. /\ SubSeq(t, from + 1, Len(t)) \in Seq(Mark) /\ Len(SubSeq(t, from + 1, Len(t))) = Len(t) - from
          /\ \A k \in 1..(Len(t) - from) : SubSeq(t, from + 1, Len(t))[k] = t[from + k]
      BY <2>1, CutInTwo
    <2> QED BY <2>1, <2>2 DEF from
  <1>4. c \in Seq(Mark) /\ Len(c) = Len(t) - at /\ \A k \in 1..(Len(t) - at) : c[k] = t[at + k]
    <2>1. at \in 0..Len(t)
      BY <1>1
    <2> QED BY <2>1, CutInTwo
  <1> HIDE DEF a, b, c
  <1>5. /\ Unequal \in Seq(Mark) /\ Len(Unequal) = 2 /\ Unequal[1] = "!" /\ Unequal[2] = "="
        /\ Equal \in Seq(Mark) /\ Len(Equal) = 1 /\ Equal[1] = "="
    BY OperatorsAre
  <1>6. /\ Len(Unequal) # 0 /\ Unequal[1] # Blank /\ Unequal[Len(Unequal)] # Blank
        /\ Len(Equal) # 0 /\ Equal[1] # Blank /\ Equal[Len(Equal)] # Blank
    BY <1>5, MarksDiffer
  <1>7. t = Around(a, Unequal, b)
    <2>1. \A k \in 1..Len(Unequal) : t[Len(a) + k] = Unequal[k]
      <3> SUFFICES ASSUME NEW k \in 1..2 PROVE t[(at - 1) + k] = Unequal[k]
        BY <1>2, <1>5
      <3>1. CASE k = 1
        <4>1. (at - 1) + 1 = at
          BY <1>1
        <4> QED BY <1>5, <3>1, <4>1
      <3>2. CASE k = 2
        <4>1. (at - 1) + 2 = at + 1
          BY <1>1
        <4> QED BY <1>5, <3>2, <4>1
      <3> QED BY <3>1, <3>2
    <2>2. \A k \in 1..Len(b) : t[Len(a) + Len(Unequal) + k] = b[k]
      <3> SUFFICES ASSUME NEW k \in 1..Len(b) PROVE t[Len(a) + Len(Unequal) + k] = b[k]
        OBVIOUS
      <3>1. Len(a) + Len(Unequal) + k = at + 1 + k /\ k \in 1..(Len(t) - at - 1)
        BY <1>1, <1>2, <1>3, <1>5
      <3> QED BY <1>3, <3>1
    <2>3. \A k \in 1..Len(a) : t[k] = a[k]
      BY <1>2
    <2>4. Len(t) = Len(a) + Len(Unequal) + Len(b)
      BY <1>1, <1>2, <1>3, <1>5
    <2>5. MadeOf(t, a, Unequal, b)
      BY <2>1, <2>2, <2>3, <2>4 DEF MadeOf
    <2> QED BY <1>2, <1>3, <1>5, <2>5, IsAround
  <1>8. o \in Seq(Mark) /\ o = Around(a, Equal, b)
    <2>1. o \in Seq(Mark)
      BY <1>2, <1>4, ConcatProperties
    <2>2. Len(o) = Len(a) + Len(c)
      BY <1>2, <1>4, ConcatProperties, ZenonT(60)
    <2>3. \A k \in 1..Len(a) : o[k] = a[k]
      BY <1>2, <1>4, ConcatProperties
    <2>4. \A k \in 1..Len(c) : o[Len(a) + k] = c[k]
      BY <1>2, <1>4, ConcatProperties
    <2> HIDE DEF o
    <2>5. Len(o) = Len(a) + Len(Equal) + Len(b)
      BY <1>1, <1>2, <1>3, <1>4, <1>5, <2>2
    <2>6. \A k \in 1..Len(Equal) : o[Len(a) + k] = Equal[k]
      <3>1. 1 \in 1..Len(c) /\ 1 \in 1..(Len(t) - at)
        BY <1>1, <1>4
      <3>2. o[Len(a) + 1] = "="
        BY <1>4, <2>4, <3>1
      <3>3. \A k \in 1..1 : k = 1
        OBVIOUS
      <3> QED BY <1>5, <3>2, <3>3
    <2>7. \A k \in 1..Len(b) : o[Len(a) + Len(Equal) + k] = b[k]
      <3> SUFFICES ASSUME NEW k \in 1..Len(b) PROVE o[Len(a) + Len(Equal) + k] = b[k]
        OBVIOUS
      <3>1. /\ Len(a) + Len(Equal) + k = Len(a) + (1 + k) /\ 1 + k \in 1..Len(c)
            /\ 1 + k \in 1..(Len(t) - at) /\ at + (1 + k) = at + 1 + k /\ k \in 1..(Len(t) - at - 1)
        BY <1>1, <1>2, <1>3, <1>4, <1>5
      <3>2. o[Len(a) + (1 + k)] = t[at + (1 + k)]
        BY <1>4, <2>4, <3>1
      <3> QED BY <1>3, <3>1, <3>2
    <2>8. MadeOf(o, a, Equal, b)
      BY <2>3, <2>5, <2>6, <2>7 DEF MadeOf
    <2> QED BY <1>2, <1>3, <1>5, <2>1, <2>8, IsAround
  <1> HIDE DEF o
  <1>9. Without(a, Comma) /\ Without(a, "=") /\ Without(a, "!")
    <2> SUFFICES ASSUME NEW k \in 1..Len(a) PROVE a[k] # Comma /\ a[k] # "=" /\ a[k] # "!"
      BY DEF Without
    <2>1. k \in 1..Len(t) /\ k # at /\ k # at + 1 /\ a[k] = t[k]
      BY <1>1, <1>2
    <2> QED BY <2>1
  <1>10. Without(b, Comma) /\ Without(b, "=")
    <2> SUFFICES ASSUME NEW k \in 1..Len(b) PROVE b[k] # Comma /\ b[k] # "="
      BY DEF Without
    <2>1. at + 1 + k \in 1..Len(t) /\ at + 1 + k # at + 1 /\ b[k] = t[at + 1 + k]
      BY <1>1, <1>3
    <2> QED BY <2>1
  <1>11. Without(Unequal, Comma) /\ Without(Equal, Comma)
    <2>1. \A k \in 1..2 : k = 1 \/ k = 2
      OBVIOUS
    <2>2. \A k \in 1..1 : k = 1
      OBVIOUS
    <2>3. \A k \in 1..Len(Unequal) : Unequal[k] # Comma
      BY <1>5, <2>1, MarksDiffer
    <2>4. \A k \in 1..Len(Equal) : Equal[k] # Comma
      BY <1>5, <2>2, MarksDiffer
    <2> QED BY <2>3, <2>4 DEF Without
  <1> DEFINE key   == Trim(a)
             value == Trim(b)
  <1>12. ParseSelector(t) = [k \in {1} |-> Term(key, value, TRUE, TRUE)]
    <2>0. PICK l \in Seq(Mark), r \in Seq(Mark) :
            Trim(Around(a, Unequal, b)) = Around(l, Unequal, r) /\ Side(l, a) /\ Side(r, b)
      <3>1. a \in Seq(Mark) /\ b \in Seq(Mark) /\ Unequal \in Seq(Mark)
        BY <1>2, <1>3, <1>5
      <3>2. Len(Unequal) # 0 /\ Unequal[1] # Blank /\ Unequal[Len(Unequal)] # Blank
        BY <1>6
      <3> HIDE DEF key, value
      <3> QED BY <3>1, <3>2, TrimAround, SMTT(30)
    <2>1. Trim(t) = Around(l, Unequal, r) /\ Trim(l) = key /\ Trim(r) = value
      BY <1>7, <2>0 DEF Side
    <2> HIDE DEF key, value
    <2>2. Without(l, Comma) /\ Without(l, "=") /\ Without(r, Comma)
      BY <1>9, <1>10, <2>0 DEF Side
    <2>3. Without(Trim(t), Comma)
      BY <1>5, <1>11, <2>1, <2>2, AroundWithout
    <2>4. Trim(t) # <<>>
      <3>0. Unequal \in Seq(Mark)
        BY <1>5
      <3>1. Len(Around(l, Unequal, r)) = Len(l) + Len(Unequal) + Len(r)
        BY <3>0, AroundIs
      <3>2. Len(Trim(t)) # 0
        BY <1>5, <2>1, <3>1
      <3>3. Len(<<>>) = 0
        OBVIOUS
      <3> QED BY <3>2, <3>3
    <2>5. WithoutPair(l, "!", "=")
      <3> SUFFICES ASSUME NEW k \in 1..(Len(l) - 1), l[k + 1] = "=" PROVE FALSE
        BY DEF WithoutPair
      <3>1. k + 1 \in 1..Len(l)
        OBVIOUS
      <3> QED BY <2>2, <3>1 DEF Without
    <2>6. ParseRequirement(Trim(t)) = Term(key, value, TRUE, TRUE)
      BY <2>1, <2>5, UnequalIsRead
    <2> QED BY <2>3, <2>4, <2>6, OneRead
  <1>13. key # <<>>
    <2> HIDE DEF key, value
    <2> DEFINE sel == ParseSelector(t)
    <2>1. sel[1] = Term(key, value, TRUE, TRUE) /\ 1 \in DOMAIN sel
      BY <1>12
    <2>2. sel[1] # Refused
      BY <2>1 DEF Accepted
    <2> HIDE DEF sel
    <2> QED BY <2>1, <2>2 DEF Term
  <1>14. ParseSelector(o) = [k \in {1} |-> Term(key, value, FALSE, TRUE)]
    <2>0. PICK l \in Seq(Mark), r \in Seq(Mark) :
            Trim(Around(a, Equal, b)) = Around(l, Equal, r) /\ Side(l, a) /\ Side(r, b)
      <3>1. a \in Seq(Mark) /\ b \in Seq(Mark) /\ Equal \in Seq(Mark)
        BY <1>2, <1>3, <1>5
      <3>2. Len(Equal) # 0 /\ Equal[1] # Blank /\ Equal[Len(Equal)] # Blank
        BY <1>6
      <3> HIDE DEF key, value
      <3> QED BY <3>1, <3>2, TrimAround, SMTT(30)
    <2>1. Trim(o) = Around(l, Equal, r) /\ Trim(l) = key /\ Trim(r) = value
      BY <1>8, <2>0 DEF Side
    <2> HIDE DEF key, value
    <2>2. Without(l, Comma) /\ Without(l, "=") /\ Without(l, "!") /\ Without(r, Comma) /\ Without(r, "=")
      BY <1>9, <1>10, <2>0 DEF Side
    <2>3. Without(Trim(o), Comma)
      BY <1>5, <1>11, <2>1, <2>2, AroundWithout
    <2>4. Trim(o) # <<>>
      <3>0. Equal \in Seq(Mark)
        BY <1>5
      <3>1. Len(Around(l, Equal, r)) = Len(l) + Len(Equal) + Len(r)
        BY <3>0, AroundIs
      <3>2. Len(Trim(o)) # 0
        BY <1>5, <2>1, <3>1
      <3>3. Len(<<>>) = 0
        OBVIOUS
      <3> QED BY <3>2, <3>3
    <2>5. l # <<>> /\ l[Len(l)] # "!"
      <3>1. l # <<>>
        <4>1. <<>> \in Seq(Mark) /\ Trimmed(<<>>)
          BY DEF Trimmed
        <4>2. Trim(<<>>) = <<>>
          BY <4>1, TrimAgain
        <4> QED BY <1>13, <2>1, <4>2
      <3>2. Len(l) \in 1..Len(l)
        BY <3>1, EmptySeq
      <3> QED BY <2>2, <3>1, <3>2 DEF Without
    <2>6. ParseRequirement(Trim(o)) = Term(key, value, FALSE, TRUE)
      BY <2>1, <2>2, <2>5, EqualIsRead
    <2> QED BY <1>8, <2>3, <2>4, <2>6, OneRead
  <1> HIDE DEF key, value
  <1> QED BY <1>12, <1>13, <1>14 DEF o, a, c

(* A term with ! alone, and the same term without it.                       *)
LEMMA NotFlips ==
  ASSUME NEW t \in Seq(Mark), Len(t) # 0, t[1] = "!",
         \A k \in 1..Len(t) : t[k] # Comma /\ (t[k] = "!" => k = 1) /\ t[k] # "=",
         Accepted(ParseSelector(t))
  PROVE  \E key :
           /\ key # <<>>
           /\ ParseSelector(t) = [k \in {1} |-> Term(key, <<>>, TRUE, FALSE)]
           /\ ParseSelector(SubSeq(t, 1, 1 - 1) \o SubSeq(t, 1 + 1, Len(t)))
                = [k \in {1} |-> Term(key, <<>>, FALSE, FALSE)]
  <1> DEFINE a    == SubSeq(t, 1, 1 - 1)
             b    == SubSeq(t, 1 + 1, Len(t))
             bang == <<"!">>
  <1>1. Len(t) \in Nat /\ 1 \in 0..Len(t) /\ 0 \in 0..Len(t)
    OBVIOUS
  <1>2. a = <<>>
    <2>1. SubSeq(t, 1, 0) \in Seq(Mark) /\ Len(SubSeq(t, 1, 0)) = 0
      BY <1>1, CutInTwo
    <2>2. 1 - 1 = 0
      OBVIOUS
    <2> QED BY <2>1, <2>2, EmptySeq
  <1>3. b \in Seq(Mark) /\ Len(b) = Len(t) - 1 /\ \A k \in 1..(Len(t) - 1) : b[k] = t[1 + k]
    BY <1>1, CutInTwo, ZenonT(60)
  <1>4. a \o b = b
    <2> HIDE DEF a, b
    <2> QED BY <1>2, <1>3, ConcatEmptySeq
  <1> HIDE DEF a, b
  <1>5. bang \in Seq(Mark) /\ Len(bang) = 1 /\ bang[1] = "!"
    <2>1. "!" \in Mark
      BY MarkAssumption
    <2>2. \A m \in Mark : <<m>> \in Seq(Mark)
      OBVIOUS
    <2> QED BY <2>1, <2>2
  <1> HIDE DEF bang
  <1> DEFINE none == <<>>
  <1>6. none \in Seq(Mark) /\ Len(none) = 0
    OBVIOUS
  <1> HIDE DEF none
  <1>7. t = Around(none, bang, b)
    <2>1. \A k \in 1..Len(none) : t[k] = none[k]
      BY <1>6
    <2>2. \A k \in 1..Len(bang) : t[Len(none) + k] = bang[k]
      <3>1. \A k \in 1..1 : k = 1
        OBVIOUS
      <3> QED BY <1>5, <1>6, <3>1
    <2>3. \A k \in 1..Len(b) : t[Len(none) + Len(bang) + k] = b[k]
      <3> SUFFICES ASSUME NEW k \in 1..Len(b) PROVE t[Len(none) + Len(bang) + k] = b[k]
        OBVIOUS
      <3>1. Len(none) + Len(bang) + k = 1 + k /\ k \in 1..(Len(t) - 1)
        BY <1>3, <1>5, <1>6
      <3> QED BY <1>3, <3>1
    <2>4. Len(t) = Len(none) + Len(bang) + Len(b)
      BY <1>1, <1>3, <1>5, <1>6
    <2>5. MadeOf(t, none, bang, b)
      BY <2>1, <2>2, <2>3, <2>4 DEF MadeOf
    <2> QED BY <1>3, <1>5, <1>6, <2>5, IsAround
  <1>8. Without(b, Comma) /\ Without(b, "=") /\ Without(b, "!")
    <2> SUFFICES ASSUME NEW k \in 1..Len(b) PROVE b[k] # Comma /\ b[k] # "=" /\ b[k] # "!"
      BY DEF Without
    <2>1. 1 + k \in 1..Len(t) /\ 1 + k # 1 /\ b[k] = t[1 + k]
      BY <1>1, <1>3
    <2> QED BY <2>1
  <1> DEFINE key == Trim(b)
  <1>9. ParseSelector(t) = [k \in {1} |-> Term(key, <<>>, TRUE, FALSE)]
    <2>1. bang[1] # Blank /\ bang[Len(bang)] # Blank /\ Len(bang) # 0
      BY <1>5, MarksDiffer
    <2>2. PICK l \in Seq(Mark), r \in Seq(Mark) :
            Trim(Around(none, bang, b)) = Around(l, bang, r) /\ Side(l, none) /\ Side(r, b)
      <3>1. none \in Seq(Mark) /\ b \in Seq(Mark) /\ bang \in Seq(Mark)
        BY <1>3, <1>5, <1>6
      <3> HIDE DEF key
      <3> QED BY <2>1, <3>1, TrimAround, SMTT(30)
    <2>3. l = <<>>
      <3>1. Len(l) \in Nat /\ Len(l) <= 0
        BY <1>6, <2>2 DEF Side
      <3> QED BY <3>1, EmptySeq
    <2>4. Around(l, bang, r) = bang \o r
      <3>1. <<>> \o bang = bang
        BY <1>5, ConcatEmptySeq
      <3> QED BY <2>3, <3>1 DEF Around
    <2> DEFINE w == bang \o r
    <2>5. Trim(t) = w
      BY <1>7, <2>2, <2>4
    <2>6. Trim(r) = key /\ Without(r, Comma) /\ Without(r, "=")
      BY <1>8, <2>2 DEF Side
    <2>7. ParseRequirement(w) = Term(key, <<>>, TRUE, FALSE)
      BY <2>6, NotIsRead DEF bang
    <2>8. Without(w, Comma) /\ w # <<>>
      <3> DEFINE v == Around(l, bang, r)
      <3>1. Without(bang, Comma)
        <4>1. \A k \in 1..1 : k = 1
          OBVIOUS
        <4>2. \A k \in 1..Len(bang) : bang[k] # Comma
          BY <1>5, <4>1, MarksDiffer
        <4> QED BY <4>2 DEF Without
      <3>2. Without(l, Comma)
        BY <2>3 DEF Without
      <3>3. bang \in Seq(Mark)
        BY <1>5
      <3> HIDE DEF key, w
      <3>4. Without(v, Comma)
        BY <2>6, <3>1, <3>2, <3>3, AroundWithout
      <3>5. Len(v) = Len(l) + Len(bang) + Len(r)
        BY <3>3, AroundIs
      <3>6. Len(v) # 0
        BY <1>5, <3>5
      <3>7. v # <<>>
        <4>1. Len(<<>>) = 0
          OBVIOUS
        <4> HIDE DEF v
        <4> QED BY <3>6, <4>1
      <3> QED BY <2>4, <3>4, <3>7 DEF w
    <2> HIDE DEF w, key
    <2> QED BY <2>5, <2>7, <2>8, OneRead
  <1>10. key # <<>>
    <2> HIDE DEF key
    <2> DEFINE sel == ParseSelector(t)
    <2>1. sel[1] = Term(key, <<>>, TRUE, FALSE) /\ 1 \in DOMAIN sel
      BY <1>9
    <2>2. sel[1] # Refused
      BY <2>1 DEF Accepted
    <2> HIDE DEF sel
    <2> QED BY <2>1, <2>2 DEF Term
  <1>11. ParseSelector(b) = [k \in {1} |-> Term(key, <<>>, FALSE, FALSE)]
    <2>1. key \in Seq(Mark)
      BY <1>3, TrimTakes
    <2>2. PICK i \in Nat : TrimsTo(b, key, i)
      BY <1>3, TrimTakes
    <2> HIDE DEF key
    <2>3. \A k \in 1..Len(key) : i + k \in 1..Len(b) /\ key[k] = b[i + k]
      <3>1. Len(key) \in Nat /\ Len(b) \in Nat
        BY <1>3, <2>1
      <3> QED BY <2>2, <3>1 DEF TrimsTo
    <2>4. Without(key, Comma) /\ Without(key, "=") /\ Without(key, "!")
      BY <1>8, <2>3 DEF Without
    <2>5. key[1] # "!"
      <3>1. 1 \in 1..Len(key)
        BY <1>10, <2>1, EmptySeq
      <3> QED BY <2>4, <3>1 DEF Without
    <2>6. ParseRequirement(key) = Term(key, <<>>, FALSE, FALSE)
      BY <1>10, <2>1, <2>4, <2>5, NameIsRead
    <2>7. Trim(b) = key
      BY DEF key
    <2> QED BY <1>3, <1>10, <2>4, <2>6, <2>7, OneRead
  <1> HIDE DEF key
  <1> QED BY <1>4, <1>9, <1>10, <1>11 DEF a, b

(* A negated term keeps what the term leaves out. *)
LEMMA AnyNegationFlips ==
  ASSUME NEW t \in Seq(Mark)
  PROVE  NegationFlips(t)
  <1> DEFINE marks == Places(t, <<"!", "=">>)
             at    == IF marks # {} THEN Min(marks) ELSE 1
             sel   == ParseSelector(t)
             other == ParseSelector(SubSeq(t, 1, at - 1) \o SubSeq(t, at + 1, Len(t)))
             one(m) == \E k \in DOMAIN t : Places(t, <<m>>) = {k}
  <1> SUFFICES ASSUME Accepted(sel), Places(t, <<Comma>>) = {}, one("!"),
                      IF marks # {} THEN one("=") ELSE Places(t, <<"=">>) = {} /\ Head(t) = "!",
                      NEW labels
               PROVE  MatchesLabels(sel, labels) # MatchesLabels(other, labels)
    BY DEF NegationFlips
  <1>1. Len(t) \in Nat
    OBVIOUS
  <1>2. \A k \in 1..Len(t) : t[k] # Comma
    BY OnePlaces
  <1>3. PICK p \in 1..Len(t) : t[p] = "!" /\ \A l \in 1..Len(t) : t[l] = "!" => l = p
    BY OneMark
  <1>4. CASE marks # {}
    <2>1. marks \in SUBSET (1..Len(t)) /\ \A k \in Nat : k \in marks <=> k \in 1..(Len(t) - 1) /\ t[k] = "!" /\ t[k + 1] = "="
      BY PairPlaces
    <2>2. PICK q \in 1..Len(t) : t[q] = "=" /\ \A l \in 1..Len(t) : t[l] = "=" => l = q
      BY <1>4, OneMark, SMTT(30)
    <2>3. at \in marks
      <3> HIDE DEF marks
      <3>1. Min(marks) \in marks
        BY <1>1, <1>4, <2>1, FirstPlace
      <3> QED BY <1>4, <3>1
    <2> HIDE DEF at, sel, marks, one
    <2>4. at \in 1..(Len(t) - 1) /\ t[at] = "!" /\ t[at + 1] = "="
      <3>1. at \in Nat
        BY <2>1, <2>3
      <3> QED BY <2>1, <2>3, <3>1
    <2>5. at \in 1..Len(t) /\ at + 1 \in 1..Len(t)
      BY <1>1, <2>4
    <2>6. \A k \in 1..Len(t) : t[k] # Comma /\ (t[k] = "!" => k = at) /\ (t[k] = "=" => k = at + 1)
      BY <1>2, <1>3, <2>2, <2>4, <2>5
    <2>7. PICK key, value :
             /\ key # <<>>
             /\ sel = [k \in {1} |-> Term(key, value, TRUE, TRUE)]
             /\ other = [k \in {1} |-> Term(key, value, FALSE, TRUE)]
      BY <2>4, <2>6, UnequalFlips DEF sel
    <2> HIDE DEF other
    <2>8. /\ MatchesLabels(sel, labels) \in BOOLEAN
          /\ MatchesLabels(sel, labels) <=> ~MatchesLabels(other, labels)
      BY <2>7, OppositesFlip
    <2> QED BY <2>8
  <1>5. CASE marks = {}
    <2>1. Places(t, <<"=">>) = {} /\ Head(t) = "!" /\ at = 1
      BY <1>5
    <2>2. \A k \in 1..Len(t) : t[k] # "="
      BY <2>1, OnePlaces
    <2>3. Len(t) # 0
      BY <1>3
    <2>4. t[1] = "!" /\ 1 \in 1..Len(t)
      BY <1>1, <2>1, <2>3
    <2> HIDE DEF sel, marks, one
    <2>5. \A k \in 1..Len(t) : t[k] # Comma /\ (t[k] = "!" => k = 1) /\ t[k] # "="
      BY <1>2, <1>3, <2>2, <2>4
    <2>6. PICK key :
             /\ key # <<>>
             /\ sel = [k \in {1} |-> Term(key, <<>>, TRUE, FALSE)]
             /\ ParseSelector(SubSeq(t, 1, 1 - 1) \o SubSeq(t, 1 + 1, Len(t)))
                  = [k \in {1} |-> Term(key, <<>>, FALSE, FALSE)]
      BY <2>3, <2>4, <2>5, NotFlips DEF sel
    <2>7. other = [k \in {1} |-> Term(key, <<>>, FALSE, FALSE)]
      <3> HIDE DEF at
      <3> QED BY <2>1, <2>6
    <2> HIDE DEF other
    <2>8. /\ MatchesLabels(sel, labels) \in BOOLEAN
          /\ MatchesLabels(sel, labels) <=> ~MatchesLabels(other, labels)
      BY <2>6, <2>7, OppositesFlip
    <2> QED BY <2>8
  <1> QED BY <1>4, <1>5

-----------------------------------------------------------------------------
(* Kinds and their names.                                                   *)

(* What a group prefix and a name have in common: the first label of one is *)
(* a label of a group, that of the other a kind's whole name.               *)
LEMMA PrefixBeginsGroup ==
  ASSUME NEW kind \in ResourceType, NEW text \in Texts, MatchesGroupPrefix(kind, text)
  PROVE  1 \in DOMAIN kind.group /\ Lower[Head(text)] = Lower[kind.group[1]]
  <1>1. text \in Seq(Labels) /\ text # <<>> /\ kind.group \in Seq(Labels)
    BY DEF Texts, ResourceType
  <1>2. 1 \in DOMAIN text /\ Head(text) = text[1] /\ Len(text) >= 1
    BY <1>1
  <1>3. Len(text) <= Len(kind.group) /\ Lower[text[1]] = Lower[kind.group[1]]
    BY <1>2 DEF MatchesGroupPrefix
  <1> QED BY <1>1, <1>2, <1>3

(* A provider that passes providertest.Naming has no text that means both a *)
(* kind and a group, whatever its kinds are called and however many.        *)
LEMMA KindOrGroup ==
  ASSUME NEW kinds \in Seq(ResourceType), NEW text \in Texts
  PROVE  MiddleIsClear(kinds, text)
  <1> SUFFICES ASSUME Naming(kinds),
                      NEW j \in DOMAIN kinds, MatchesName(kinds[j], text),
                      NEW k \in DOMAIN kinds, MatchesGroupPrefix(kinds[k], text)
               PROVE  FALSE
    BY DEF MiddleIsClear
  <1>1. kinds[j] \in ResourceType /\ kinds[k] \in ResourceType
    OBVIOUS
  <1>2. PICK name \in NamesOf(kinds[j]) : Fold(name) = <<Lower[Head(text)]>>
    BY DEF MatchesName, MatchesBareName
  <1>3. ApartFromGroups(kinds, name)
    BY DEF Naming
  <1>4. 1 \in DOMAIN kinds[k].group /\ Lower[Head(text)] = Lower[kinds[k].group[1]]
    BY <1>1, PrefixBeginsGroup
  <1> QED BY <1>2, <1>3, <1>4 DEF ApartFromGroups

(* What is printed of a kind before its name: nothing, or the first label   *)
(* of its group, in a text of its own.                                      *)
LEMMA PathIs ==
  ASSUME NEW kind \in ResourceType, NEW provider, Len(GroupPath(kind, provider)) <= 1
  PROVE  \/ PathOf(kind, provider) = <<>>
         \/ /\ kind.group # <<>> /\ kind.group[1] # ""
            /\ PathOf(kind, provider) = << <<kind.group[1]>> >>
  <1> DEFINE group  == kind.group
             at     == {i \in DOMAIN group : Lower[group[i]] = Lower[provider]}
             first  == CHOOSE i \in at : \A j \in at : i <= j
             labels == GroupPath(kind, provider)
  <1>1. group \in Seq(Labels) /\ Len(group) \in Nat /\ DOMAIN group = 1..Len(group) /\ group # <<>>
    BY DEF ResourceType, Texts
  <1>2. ASSUME at # {} PROVE first \in at
    <2>1. at \in SUBSET Nat
      BY <1>1
    <2> HIDE DEF at
    <2>2. \E i \in at : \A j \in at : i <= j
      BY <1>2, <2>1, Injecting!LeastNumber
    <2> QED BY <2>2
  <1>3. labels = IF at = {} THEN <<>> ELSE SubSeq(group, 1, first - 1)
    BY DEF GroupPath
  <1>4. labels = <<>> \/ labels = <<group[1]>>
    <2>1. CASE at = {}
      BY <1>3, <2>1
    <2>2. CASE at # {}
      <3>1. first \in 1..Len(group) /\ labels = SubSeq(group, 1, first - 1)
        BY <1>1, <1>2, <1>3, <2>2
      <3> HIDE DEF first, group
      <3>2. /\ labels \in Seq(Labels) /\ Len(labels) = first - 1
            /\ \A i \in 1..(first - 1) : labels[i] = group[i]
        BY <1>1, <3>1, CutInTwo
      <3>3. CASE first = 1
        BY <3>2, <3>3, EmptySeq
      <3>4. CASE first = 2
        <4>1. labels[1] = group[1] /\ Len(labels) = 1
          BY <3>2, <3>4
        <4>2. <<group[1]>> \in Seq(Labels) /\ Len(<<group[1]>>) = 1 /\ <<group[1]>>[1] = group[1]
          BY <1>1, <3>1
        <4>3. \A i \in 1..1 : i = 1
          OBVIOUS
        <4> HIDE DEF labels
        <4> QED BY <3>2, <4>1, <4>2, <4>3, SeqEqual
      <3> QED BY <3>1, <3>2, <3>3, <3>4
    <2> QED BY <2>1, <2>2
  <1>5. PathOf(kind, provider) = IF labels = Unnamed THEN <<>> ELSE [k \in DOMAIN labels |-> <<labels[k]>>]
    BY DEF PathOf
  <1>6. group[1] # "" \/ <<group[1]>> = Unnamed
    BY DEF Unnamed
  <1> HIDE DEF labels, group
  <1>7. ASSUME labels = <<>> PROVE PathOf(kind, provider) = <<>>
    BY <1>5, <1>7
  <1>8. ASSUME labels = <<group[1]>>, labels # Unnamed PROVE PathOf(kind, provider) = << <<group[1]>> >>
    BY <1>5, <1>8
  <1> QED BY <1>1, <1>4, <1>5, <1>6, <1>7, <1>8 DEF group

(* A kind is called by its names, if there is no dot in them.               *)
LEMMA CalledByName ==
  ASSUME NEW kinds, NEW k \in DOMAIN kinds, NEW name \in NamesOf(kinds[k]), name \in Texts, Len(name) = 1
  PROVE  k \in Called(kinds, name)
  <1>1. name \in Seq(Labels) /\ Head(name) = name[1] /\ DOMAIN name = {1}
    BY DEF Texts
  <1>2. Fold(name) = <<Lower[name[1]]>>
    BY <1>1 DEF Fold
  <1> QED BY <1>1, <1>2 DEF Called, MatchesName, MatchesBareName

(* Where kinds are told apart, the first label of a group calls none.       *)
LEMMA GroupCallsNone ==
  ASSUME NEW kinds, Naming(kinds), NEW k \in DOMAIN kinds, 1 \in DOMAIN kinds[k].group
  PROVE  Called(kinds, <<kinds[k].group[1]>>) = {}
  <1> DEFINE label == kinds[k].group[1]
  <1>1. Head(<<label>>) = label
    OBVIOUS
  <1> HIDE DEF label
  <1>2. ASSUME NEW j \in DOMAIN kinds, MatchesName(kinds[j], <<label>>) PROVE FALSE
    <2>1. PICK n \in NamesOf(kinds[j]) : Fold(n) = <<Lower[label]>>
      BY <1>1, <1>2 DEF MatchesName, MatchesBareName
    <2>2. Fold(n) # <<Lower[label]>>
      BY DEF Naming, ApartFromGroups, label
    <2> QED BY <2>1, <2>2
  <1> QED BY <1>2 DEF Called, label

(* What is printed of a kind that is named without a group.                 *)
LEMMA BareNamesReach ==
  ASSUME NEW kinds, NEW k \in DOMAIN kinds, NEW plural, NEW singular, NEW object,
         k \in Called(kinds, plural), k \in Called(kinds, singular)
  PROVE  /\ k \in KindsMeant(kinds, <<plural>>)
         /\ ObjectsMeant(kinds, <<plural>>) = {}
         /\ [kind |-> k, name |-> object] \in ObjectsMeant(kinds, <<singular, object>>)
  <1>1. Len(<<plural>>) = 1 /\ <<plural>>[1] = plural
    OBVIOUS
  <1>2. Len(<<singular, object>>) = 2 /\ <<singular, object>>[1] = singular /\ <<singular, object>>[2] = object
    OBVIOUS
  <1>3. k \in KindsMeant(kinds, <<plural>>)
    BY <1>1 DEF KindsMeant
  <1>4. ObjectsMeant(kinds, <<plural>>) = {}
    BY <1>1 DEF ObjectsMeant
  <1>5. [kind |-> k, name |-> object] \in ObjectsMeant(kinds, <<singular, object>>)
    BY <1>2 DEF ObjectsMeant
  <1> QED BY <1>3, <1>4, <1>5

(* What is printed of a kind below a group that is no kind.                 *)
LEMMA GroupedNamesReach ==
  ASSUME NEW kinds, NEW k \in DOMAIN kinds, NEW group, NEW plural, NEW singular, NEW object,
         Called(kinds, group) = {}, k \in CalledIn(kinds, group, plural), k \in CalledIn(kinds, group, singular)
  PROVE  /\ k \in KindsMeant(kinds, <<group, plural>>)
         /\ ObjectsMeant(kinds, <<group, plural>>) = {}
         /\ [kind |-> k, name |-> object] \in ObjectsMeant(kinds, <<group, singular, object>>)
  <1>1. Len(<<group, plural>>) = 2 /\ <<group, plural>>[1] = group /\ <<group, plural>>[2] = plural
    OBVIOUS
  <1>2. /\ Len(<<group, singular, object>>) = 3 /\ <<group, singular, object>>[1] = group
        /\ <<group, singular, object>>[2] = singular /\ <<group, singular, object>>[3] = object
    OBVIOUS
  <1>3. k \in KindsMeant(kinds, <<group, plural>>)
    BY <1>1 DEF KindsMeant
  <1>4. ObjectsMeant(kinds, <<group, plural>>) = {}
    BY <1>1 DEF ObjectsMeant
  <1>5. [kind |-> k, name |-> object] \in ObjectsMeant(kinds, <<group, singular, object>>)
    BY <1>2 DEF ObjectsMeant
  <1> QED BY <1>3, <1>4, <1>5

(* A name below nothing. *)
LEMMA NameAlone ==
  ASSUME NEW b, NEW c
  PROVE  <<>> \o <<b>> = <<b>> /\ <<>> \o <<b, c>> = <<b, c>>
  <1>1. <<b>> \in Seq({b, c}) /\ <<b, c>> \in Seq({b, c})
    OBVIOUS
  <1> QED BY <1>1, ConcatEmptySeq

(* Of a provider that passes providertest.Naming, a kind's printed name     *)
(* means it, and so does the printed reference of an object.                *)
LEMMA PrintedReaches ==
  ASSUME NEW kinds \in Seq(ResourceType), NEW provider, NEW object
  PROVE  PrintedIsAccepted(kinds, provider, object)
  <1> SUFFICES ASSUME Naming(kinds), NEW k \in DOMAIN kinds,
                      Undotted(kinds[k]), Len(GroupPath(kinds[k], provider)) <= 1
               PROVE  /\ k \in KindsMeant(kinds, Name(kinds[k], provider))
                      /\ ObjectsMeant(kinds, Name(kinds[k], provider)) = {}
                      /\ [kind |-> k, name |-> object] \in ObjectsMeant(kinds, Ref(kinds[k], provider, object))
    BY DEF PrintedIsAccepted
  <1> DEFINE kind     == kinds[k]
             path     == PathOf(kind, provider)
             plural   == kind.plural
             singular == kind.singular
             label    == kind.group[1]
  <1>1. kind \in ResourceType /\ k \in DOMAIN kinds
    BY ElementOfSeq
  <1>2. /\ plural \in NamesOf(kind) /\ singular \in NamesOf(kind) /\ plural \in Texts /\ singular \in Texts
        /\ Len(plural) = 1 /\ Len(singular) = 1
    BY <1>1 DEF NamesOf, Undotted, ResourceType
  <1>3. k \in Called(kinds, plural) /\ k \in Called(kinds, singular)
    BY <1>2, CalledByName
  <1>4. Name(kind, provider) = path \o <<plural>> /\ Ref(kind, provider, object) = path \o <<singular, object>>
    BY DEF Name, Ref
  <1>5. path = <<>> \/ (kind.group # <<>> /\ label # "" /\ path = << <<label>> >>)
    BY <1>1, PathIs
  <1>6. kind.group \in Seq(Labels) /\ Len(kind.group) \in Nat /\ DOMAIN kind.group = 1..Len(kind.group)
    BY <1>1 DEF ResourceType, Texts
  <1> HIDE DEF path, plural, singular
  <1>7. CASE path = <<>>
    BY <1>3, <1>4, <1>7, NameAlone, BareNamesReach
  <1>8. CASE kind.group # <<>> /\ label # "" /\ path = << <<label>> >>
    <2>1. Len(kind.group) >= 1 /\ 1 \in DOMAIN kind.group
      <3> HIDE DEF kind, label
      <3>1. Len(kind.group) # 0
        BY <1>6, <1>8, EmptySeq
      <3> QED BY <1>6, <3>1
    <2>2. Called(kinds, <<label>>) = {}
      BY <2>1, GroupCallsNone
    <2>3. MatchesGroupPrefix(kind, <<label>>)
      <3>1. <<label>> # Unnamed
        BY <1>8 DEF Unnamed
      <3>2. Len(<<label>>) = 1 /\ DOMAIN <<label>> = {1} /\ <<label>>[1] = label
        OBVIOUS
      <3> HIDE DEF kind
      <3> QED BY <2>1, <3>1, <3>2 DEF MatchesGroupPrefix
    <2>4. k \in CalledIn(kinds, <<label>>, plural) /\ k \in CalledIn(kinds, <<label>>, singular)
      BY <1>3, <2>3 DEF CalledIn
    <2> HIDE DEF kind, label
    <2>5. Name(kind, provider) = << <<label>>, plural >> /\ Ref(kind, provider, object) = << <<label>>, singular, object >>
      <3> DEFINE group == <<label>>
      <3>1. path = <<group>>
        BY <1>8
      <3> HIDE DEF group
      <3>2. <<group>> \o <<plural>> = <<group, plural>>
        BY OneAndOne
      <3>3. <<group>> \o <<singular, object>> = <<group, singular, object>>
        BY OneAndTwo
      <3>4. Name(kind, provider) = <<group, plural>> /\ Ref(kind, provider, object) = <<group, singular, object>>
        BY <1>4, <3>1, <3>2, <3>3
      <3> QED BY <3>4 DEF group
    <2> QED BY <2>2, <2>4, <2>5, GroupedNamesReach DEF kind
  <1> QED BY <1>5, <1>7, <1>8

-----------------------------------------------------------------------------
(* Errors and times.                                                        *)

(* The one coded error of a chain is its first.                             *)
LEMMA OnlyCoded ==
  ASSUME NEW chain, NEW k \in DOMAIN chain, k \in Nat, CodedLinks(chain) = {k}
  PROVE  CodeOf(chain) = chain[k].code /\ ResourceOf(chain) = chain[k].resource
  <1>1. Min({k}) = k
    BY DEF Min
  <1> QED BY <1>1 DEF CodeOf, ResourceOf

(* What coreError makes of an error has its code, object and text.          *)
LEMMA CrossedIs ==
  ASSUME NEW chain, Says(chain) # <<>>
  PROVE  /\ Crossed(chain) = <<Coded(CodeOf(chain), ResourceOf(chain), Says(chain))>>
         /\ CodeOf(Crossed(chain)) = CodeOf(chain)
         /\ ResourceOf(Crossed(chain)) = ResourceOf(chain)
         /\ Says(Crossed(chain)) = Says(chain)
  <1> DEFINE e == Coded(CodeOf(chain), ResourceOf(chain), Says(chain))
  <1>1. /\ e.coded /\ e.code = CodeOf(chain) /\ e.resource = ResourceOf(chain) /\ e.message = Says(chain)
    BY DEF Coded
  <1>2. Crossed(chain) = <<e>>
    BY DEF Crossed, CoreError, ErrorOf
  <1> HIDE DEF e
  <1>3. DOMAIN <<e>> = {1} /\ <<e>>[1] = e /\ Head(<<e>>) = e
    OBVIOUS
  <1>4. CodedLinks(<<e>>) = {1}
    BY <1>1, <1>3 DEF CodedLinks
  <1>5. Says(<<e>>) = Says(chain)
    BY <1>1, <1>3 DEF Says
  <1>6. CodeOf(<<e>>) = e.code /\ ResourceOf(<<e>>) = e.resource
    BY <1>3, <1>4, OnlyCoded
  <1> QED BY <1>1, <1>2, <1>5, <1>6 DEF e

(* An error put around one that crossed changes its text alone.             *)
LEMMA AroundCrossed ==
  ASSUME NEW chain, Says(chain) # <<>>, NEW around
  PROVE  ErrorOf(<<Uncoded(around)>> \o Crossed(chain)) = [ErrorOf(chain) EXCEPT !.message = around]
  <1> DEFINE e == Coded(CodeOf(chain), ResourceOf(chain), Says(chain))
             u == Uncoded(around)
             both == <<u, e>>
  <1>1. /\ e.coded /\ e.code = CodeOf(chain) /\ e.resource = ResourceOf(chain)
    BY DEF Coded
  <1>2. ~u.coded /\ u.message = around
    BY DEF Uncoded
  <1>3. Crossed(chain) = <<e>>
    BY CrossedIs
  <1> HIDE DEF e, u
  <1>4. <<u>> \o <<e>> = both
    BY OneAndOne
  <1>5. DOMAIN both = {1, 2} /\ both[1] = u /\ both[2] = e /\ Head(both) = u
    OBVIOUS
  <1> HIDE DEF both
  <1>6. CodedLinks(both) = {2}
    BY <1>1, <1>2, <1>5 DEF CodedLinks
  <1>7. CodeOf(both) = CodeOf(chain) /\ ResourceOf(both) = ResourceOf(chain)
    BY <1>1, <1>5, <1>6, OnlyCoded
  <1>8. Says(both) = around
    BY <1>2, <1>5 DEF Says
  <1>9. ErrorOf(both) = [code |-> CodeOf(chain), resource |-> ResourceOf(chain), message |-> around]
    BY <1>7, <1>8 DEF ErrorOf
  <1>10. [ErrorOf(chain) EXCEPT !.message = around]
           = [code |-> CodeOf(chain), resource |-> ResourceOf(chain), message |-> around]
    BY DEF ErrorOf
  <1> QED BY <1>3, <1>4, <1>9, <1>10 DEF u

(* An error's code and text cross, once and again (errors.go:12).           *)
LEMMA AnyErrorCrosses ==
  ASSUME NEW chain, NEW around
  PROVE  ErrorCrosses(chain, around)
  <1> SUFFICES ASSUME Says(chain) # <<>>
               PROVE  /\ CodeOf(Crossed(chain)) = CodeOf(chain)
                      /\ Says(Crossed(chain)) = Says(chain)
                      /\ Crossed(Crossed(chain)) = Crossed(chain)
                      /\ ErrorOf(<<Uncoded(around)>> \o Crossed(chain)) = [ErrorOf(chain) EXCEPT !.message = around]
    BY DEF ErrorCrosses
  <1> DEFINE once == Crossed(chain)
  <1>1. CodeOf(once) = CodeOf(chain) /\ ResourceOf(once) = ResourceOf(chain) /\ Says(once) = Says(chain)
    BY CrossedIs
  <1>2. Crossed(once) = once
    BY <1>1 DEF Crossed, ErrorOf
  <1> QED BY <1>1, <1>2, AroundCrossed

(* A timestamp crosses to the second (time.go:9).                           *)
LEMMA AnyTimeSurvives ==
  ASSUME NEW t \in [second : Nat, part : Nat]
  PROVE  TimeSurvives(t)
  <1> DEFINE n == NewTime(t)
  <1>1. n \in [second : Nat, part : Nat] /\ n.second = t.second /\ n.part = 0
    BY DEF NewTime
  <1>2. n = [second |-> t.second, part |-> 0]
    BY DEF NewTime
  <1>3. ASSUME t.second <= MaxSecond PROVE Unmarshal(Marshal(t)) = {n}
    <2>1. CASE t = ZeroTime
      BY <1>2, <2>1 DEF ZeroTime, Marshal, Unmarshal
    <2>2. CASE t # ZeroTime
      <3>1. Marshal(t) = <<t.second>> /\ <<t.second>> # <<>> /\ <<t.second>>[1] = t.second
        BY <2>2 DEF Marshal
      <3> QED BY <1>2, <1>3, <3>1 DEF Unmarshal
    <2> QED BY <2>1, <2>2
  <1>4. Marshal(n) = <<>> <=> n = ZeroTime
    BY DEF Marshal
  <1> QED BY <1>3, <1>4 DEF TimeSurvives
=============================================================================
