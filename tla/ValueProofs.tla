----------------------------- MODULE ValueProofs -----------------------------
(***************************************************************************)
(* What ordered maps keep, what paths find in values and in types, and     *)
(* what the fields of a type are called, proved of documents, values and   *)
(* types however nested, and of numbers of any width.                      *)
(***************************************************************************)
EXTENDS OrderedMap, Schema, SequenceTheorems, FiniteSetTheorems, TLAPS
LOCAL INSTANCE FiniteSetsExt

(* Ordered maps.                                                            *)

(* A level is its own rank. *)
Counted == [n \in Nat |-> n]

(* What a power of two is, given the one before it.                         *)
TwoToAt(power, e, p) == IF e = 0 THEN 1 ELSE 2 * power[e - 1]

Doubling == INSTANCE Induction WITH Def <- TwoToAt

(* Powers of two. *)
LEMMA TwoToIs == TwoTo[0] = 1 /\ \A e \in Nat : TwoTo[e + 1] = 2 * TwoTo[e]
  <1>1. Doubling!NeedsSmaller(Nat, Counted, 0)
    <2> SUFFICES ASSUME NEW e \in Nat, NEW g, NEW h, \A d \in Doubling!Smaller(Nat, Counted, e) : g[d] = h[d]
                 PROVE  TwoToAt(g, e, 0) = TwoToAt(h, e, 0)
      BY DEF Doubling!NeedsSmaller
    <2>1. e # 0 => e - 1 \in Doubling!Smaller(Nat, Counted, e)
      BY DEF Doubling!Smaller, Counted
    <2> QED BY <2>1 DEF TwoToAt
  <1>2. \E f : f = [e \in Nat |-> TwoToAt(f, e, 0)]
    BY <1>1, Doubling!Defined DEF Counted
  <1>3. TwoTo = [e \in Nat |-> TwoToAt(TwoTo, e, 0)]
    BY <1>2 DEF TwoTo, TwoToAt
  <1>4. \A e \in Nat : TwoTo[e] = TwoToAt(TwoTo, e, 0)
    BY <1>3
  <1> QED BY <1>4 DEF TwoToAt

LEMMA TwoToType == \A e \in Nat : TwoTo[e] \in Nat \ {0}
  <1> DEFINE S == {e \in Nat : TwoTo[e] \in Nat \ {0}}
  <1>1. 0 \in S
    BY TwoToIs
  <1>2. \A e \in Nat : e \in S => e + 1 \in S
    BY TwoToIs
  <1> HIDE DEF S
  <1>3. Nat \subseteq S
    BY <1>1, <1>2, Doubling!ByNumber
  <1> QED BY <1>3 DEF S

(* A power of two is a multiple of each smaller one.                        *)
LEMMA TwoToSum ==
  ASSUME NEW a \in Nat
  PROVE  \A b \in Nat : TwoTo[a + b] = TwoTo[b] * TwoTo[a]
  <1> DEFINE S == {b \in Nat : TwoTo[a + b] = TwoTo[b] * TwoTo[a]}
  <1>0. TwoTo[a] \in Nat
    BY TwoToType
  <1>1. 0 \in S
    BY <1>0, TwoToIs
  <1>2. ASSUME NEW b \in Nat, b \in S PROVE b + 1 \in S
    <2> DEFINE x == TwoTo[b]
               y == TwoTo[a]
               z == TwoTo[a + b]
    <2>1. z = x * y /\ x \in Nat /\ y \in Nat
      BY <1>0, <1>2, TwoToType
    <2>2. TwoTo[b + 1] = 2 * x /\ TwoTo[(a + b) + 1] = 2 * z /\ (a + b) + 1 = a + (b + 1)
      BY TwoToIs
    <2> HIDE DEF x, y, z
    <2>3. 2 * z = (2 * x) * y
      BY <2>1
    <2> QED BY <2>2, <2>3 DEF y
  <1> HIDE DEF S
  <1>3. Nat \subseteq S
    BY <1>1, <1>2, Doubling!ByNumber
  <1> QED BY <1>3 DEF S

(* The whole part of a quotient. *)
LEMMA WholePart ==
  ASSUME NEW x \in Nat, NEW u \in Nat \ {0}
  PROVE  /\ x \div u \in Nat /\ u * (x \div u) <= x /\ x < u * (x \div u) + u
         /\ \A q \in Nat : u * q <= x /\ x < u * q + u => x \div u = q
  OBVIOUS

(* The unit a number is rounded to.                                         *)
LEMMA UnitIs ==
  ASSUME NEW n \in 0..TwoTo[FloatBits]
  PROVE  \E e \in 0..FloatBits :
           /\ Unit(n) = TwoTo[e] /\ n \div TwoTo[e] < TwoTo[Digits]
           /\ \A d \in 0..FloatBits : n \div TwoTo[d] < TwoTo[Digits] => e <= d
  <1> DEFINE Fits == {e \in 0..FloatBits : n \div TwoTo[e] < TwoTo[Digits]}
  <1>0. FloatBits \in Nat /\ Digits \in Nat \ {0} /\ TwoTo[FloatBits] \in Nat \ {0}
    BY OrderedMapAssumption, TwoToType
  <1>1. FloatBits \in Fits
    <2> DEFINE u == TwoTo[FloatBits]
    <2>1. n \div u <= 1
      <3> HIDE DEF u
      <3>1. u \in Nat \ {0} /\ n \in Nat /\ n <= u
        BY <1>0 DEF u
      <3>2. n \div u \in Nat /\ u * (n \div u) <= n
        BY <3>1, WholePart
      <3> HIDE DEF u
      <3>3. ASSUME n \div u >= 2 PROVE FALSE
        <4>1. u * (n \div u) >= u * 2
          BY <3>1, <3>2, <3>3
        <4> QED BY <3>1, <3>2, <4>1
      <3> QED BY <3>2, <3>3
    <2>2. TwoTo[Digits] >= 2
      <3>1. Digits - 1 \in Nat /\ (Digits - 1) + 1 = Digits
        BY <1>0
      <3>2. TwoTo[Digits] = 2 * TwoTo[Digits - 1] /\ TwoTo[Digits - 1] \in Nat \ {0}
        BY <3>1, TwoToIs, TwoToType
      <3> QED BY <3>2
    <2>3. n \div u \in Int /\ TwoTo[Digits] \in Int
      BY <1>0, TwoToType
    <2> HIDE DEF u
    <2>4. n \div u < TwoTo[Digits]
      BY <2>1, <2>2, <2>3
    <2> QED BY <1>0, <2>4 DEF u
  <1>2. Fits \in SUBSET Nat /\ Fits # {}
    BY <1>0, <1>1
  <1>3. PICK e \in Fits : \A d \in Fits : e <= d
    BY <1>2, Doubling!LeastNumber
  <1>4. Min(Fits) = e
    BY <1>2, <1>3 DEF Min
  <1>5. Unit(n) = TwoTo[e]
    BY <1>4 DEF Unit, Min
  <1> QED BY <1>3, <1>5

(* A number that few enough binary digits follow is its own nearest.        *)
LEMMA NearestStays ==
  ASSUME NEW c \in Nat, NEW a \in 0..FloatBits, c < TwoTo[Digits], c * TwoTo[a] <= TwoTo[FloatBits]
  PROVE  Nearest(c * TwoTo[a]) = c * TwoTo[a]
  <1> DEFINE w == TwoTo[a]
             r == c * w
  <1>0. FloatBits \in Nat /\ a \in Nat /\ w \in Nat \ {0} /\ r \in Nat
    BY OrderedMapAssumption, TwoToType
  <1>1. r \in 0..TwoTo[FloatBits] /\ r <= TwoTo[FloatBits]
    BY <1>0, TwoToType
  <1>2. PICK e \in 0..FloatBits :
          /\ Unit(r) = TwoTo[e] /\ r \div TwoTo[e] < TwoTo[Digits]
          /\ \A d \in 0..FloatBits : r \div TwoTo[d] < TwoTo[Digits] => e <= d
    BY <1>1, UnitIs
  <1>3. r \div w = c
    <2> HIDE DEF w
    <2>1. w * c <= r /\ r < w * c + w
      BY <1>0
    <2> QED BY <1>0, <2>1, WholePart
  <1>4. e <= a /\ e \in Nat /\ a - e \in Nat
    <2>1. e <= a
      BY <1>2, <1>3
    <2> QED BY <1>0, <2>1
  <1> DEFINE u == TwoTo[e]
             v == TwoTo[a - e]
             m == c * v
  <1>5. w = v * u /\ u \in Nat \ {0} /\ v \in Nat \ {0}
    <2>1. e + (a - e) = a
      BY <1>0, <1>4
    <2> QED BY <1>4, <2>1, TwoToSum, TwoToType
  <1> HIDE DEF w, u, v
  <1>6. m \in Nat /\ r = m * u
    BY <1>5
  <1> HIDE DEF m, r
  <1>7. u \div 2 \in Nat /\ u \div 2 < u
    BY <1>5
  <1>8. (r + u \div 2) \div u = m
    <2> DEFINE h == u \div 2
    <2>1. r + h \in Nat /\ u * m <= r + h /\ r + h < u * m + u
      <3> HIDE DEF h
      <3>1. h \in Nat /\ h < u
        BY <1>7 DEF h
      <3>2. u * m = r
        BY <1>5, <1>6
      <3> QED BY <1>0, <1>5, <3>1, <3>2
    <2> HIDE DEF h
    <2>2. (r + h) \div u = m
      BY <1>5, <1>6, <2>1, WholePart
    <2> QED BY <2>2 DEF h
  <1>9. Nearest(r) = m * u
    BY <1>2, <1>8 DEF Nearest, u
  <1> QED BY <1>6, <1>9 DEF r, w

(* The nearest number has few enough binary digits, and is not too large.   *)
LEMMA NearestIs ==
  ASSUME NEW n \in 0..TwoTo[FloatBits]
  PROVE  \E c \in Nat, a \in 0..FloatBits :
           c < TwoTo[Digits] /\ Nearest(n) = c * TwoTo[a] /\ c * TwoTo[a] <= TwoTo[FloatBits]
  <1>0. FloatBits \in Nat /\ Digits \in Nat \ {0} /\ n \in Nat
    BY OrderedMapAssumption, TwoToType
  <1>1. PICK e \in 0..FloatBits : Unit(n) = TwoTo[e] /\ n \div TwoTo[e] < TwoTo[Digits]
    BY UnitIs
  <1> DEFINE u == TwoTo[e]
             h == u \div 2
             q == (n + h) \div u
             v == TwoTo[FloatBits - e]
             top == TwoTo[FloatBits]
             D == TwoTo[Digits]
  <1>2. u \in Nat \ {0} /\ v \in Nat \ {0} /\ D \in Nat \ {0} /\ top = v * u /\ top \in Nat
    <2>1. e \in Nat /\ FloatBits - e \in Nat /\ e + (FloatBits - e) = FloatBits
      BY <1>0
    <2> QED BY <1>0, <2>1, TwoToSum, TwoToType
  <1>3. Nearest(n) = q * u
    BY <1>1 DEF Nearest
  <1>4. n \div u < D /\ n <= top
    BY <1>0, <1>1, <1>2
  <1> HIDE DEF u, v, top, D
  <1>5. h \in Nat /\ h < u
    BY <1>2
  <1> HIDE DEF h
  <1>6. q \in Nat /\ u * q <= n + h /\ n + h < u * q + u
    BY <1>0, <1>2, <1>5, WholePart
  <1>7. n < u * D
    <2> DEFINE d == n \div u
    <2>1. d \in Nat /\ n < u * d + u
      BY <1>0, <1>2, WholePart
    <2>2. d + 1 <= D
      BY <1>2, <1>4, <2>1
    <2> HIDE DEF d
    <2>3. u * (d + 1) <= u * D
      BY <1>2, <2>1, <2>2
    <2>4. u * (d + 1) = u * d + u
      BY <1>2, <2>1
    <2> QED BY <1>0, <1>2, <2>1, <2>3, <2>4
  <1> HIDE DEF q
  <1>8. \A w \in Nat : n <= w * u => q <= w
    <2> SUFFICES ASSUME NEW w \in Nat, n <= w * u, q >= w + 1 PROVE FALSE
      BY <1>6
    <2>1. u * q >= u * (w + 1)
      BY <1>2, <1>6
    <2>2. u * (w + 1) = w * u + u
      BY <1>2
    <2> QED BY <1>0, <1>2, <1>5, <1>6, <2>1, <2>2
  <1>9. q <= v /\ q <= D
    <2>1. n <= D * u
      BY <1>0, <1>2, <1>7
    <2> QED BY <1>2, <1>4, <1>8, <2>1
  <1>10. q * u <= top
    BY <1>2, <1>6, <1>9
  <1>11. CASE q < D
    BY <1>3, <1>6, <1>10, <1>11 DEF u, D, top
  <1>12. CASE q = D
    <2>1. Digits - 1 \in Nat /\ D = 2 * TwoTo[Digits - 1] /\ TwoTo[Digits - 1] \in Nat \ {0}
      <3>1. Digits - 1 \in Nat /\ (Digits - 1) + 1 = Digits
        BY <1>0
      <3> QED BY <3>1, TwoToIs, TwoToType DEF D
    <2>2. e # FloatBits
      <3> SUFFICES ASSUME e = FloatBits PROVE FALSE
        OBVIOUS
      <3>1. v = 1
        <4>1. FloatBits - e = 0
          BY <1>0
        <4> QED BY <4>1, TwoToIs DEF v
      <3> QED BY <1>6, <1>9, <1>12, <2>1, <3>1
    <2>3. e \in Nat /\ e + 1 \in 0..FloatBits
      BY <1>0, <2>2
    <2>4. TwoTo[e + 1] = 2 * u
      BY <2>3, TwoToIs DEF u
    <2> DEFINE c == TwoTo[Digits - 1]
    <2>5. c \in Nat /\ c < D
      BY <2>1
    <2> HIDE DEF c
    <2>6. q * u = c * (2 * u)
      <3>1. q = 2 * c /\ u \in Nat
        BY <1>2, <1>12, <2>1 DEF c
      <3> QED BY <2>5, <3>1
    <2> QED BY <1>3, <1>10, <2>3, <2>4, <2>5, <2>6 DEF D, top
  <1> QED BY <1>2, <1>6, <1>9, <1>11, <1>12

(* A rounded number stays as it is. *)
LEMMA RoundedAgain ==
  ASSUME NEW n \in Int, Magnitude(n) <= TwoTo[FloatBits]
  PROVE  Rounded(n) \in Int /\ Magnitude(Rounded(n)) <= TwoTo[FloatBits] /\ Rounded(Rounded(n)) = Rounded(n)
  <1>0. TwoTo[FloatBits] \in Nat
    BY OrderedMapAssumption, TwoToType
  <1> DEFINE m == Magnitude(n)
             r == Nearest(m)
  <1>1. m \in 0..TwoTo[FloatBits]
    BY <1>0 DEF Magnitude
  <1>2. r \in Nat /\ r <= TwoTo[FloatBits] /\ Nearest(r) = r
    <2> HIDE DEF m
    <2>1. PICK c \in Nat, a \in 0..FloatBits :
            c < TwoTo[Digits] /\ r = c * TwoTo[a] /\ c * TwoTo[a] <= TwoTo[FloatBits]
      BY <1>1, NearestIs
    <2>2. TwoTo[a] \in Nat
      BY OrderedMapAssumption, TwoToType
    <2>3. Nearest(c * TwoTo[a]) = c * TwoTo[a]
      BY <2>1, NearestStays
    <2> HIDE DEF r
    <2> QED BY <2>1, <2>2, <2>3
  <1>3. Rounded(n) = (IF n < 0 THEN 0 - r ELSE r)
    BY DEF Rounded, Magnitude
  <1>4. n < 0 \/ (~(n < 0) /\ m = n)
    BY DEF Magnitude
  <1> HIDE DEF r, m
  <1>5. CASE ~(n < 0)
    BY <1>2, <1>3, <1>5 DEF Rounded, Magnitude
  <1>6. CASE n < 0
    <2>1. Rounded(n) = 0 - r
      BY <1>3, <1>6
    <2>2. CASE r = 0
      <3>1. 0 - r = r /\ ~(r < 0)
        BY <2>2
      <3> QED BY <1>2, <2>1, <2>2, <3>1 DEF Rounded, Magnitude
    <2>3. CASE r # 0
      <3>1. 0 - r < 0 /\ 0 - (0 - r) = r /\ 0 - r \in Int
        BY <1>2, <2>3
      <3> QED BY <1>2, <2>1, <3>1 DEF Rounded, Magnitude
    <2> QED BY <2>2, <2>3
  <1> QED BY <1>5, <1>6

(* What a number is read as is read as itself again (ordered.go:138).       *)
LEMMA AnyNumberSurvives ==
  ASSUME NEW n \in Int
  PROVE  NumberSurvives(n) /\ NormalizeNumber(n) \in [number : Int] \cup [text : Int]
  <1> DEFINE once == NormalizeNumber(n)
             small(i) == -IntLimit <= i /\ i < IntLimit
  <1>1. CASE small(n)
    <2>1. once = Number(n)
      BY <1>1 DEF NormalizeNumber
    <2> QED BY <1>1, <2>1 DEF NumberSurvives, Number
  <1>2. CASE ~small(n) /\ Magnitude(n) <= TwoTo[FloatBits]
    <2>1. once = Number(Rounded(n))
      BY <1>2 DEF NormalizeNumber
    <2>2. Rounded(n) \in Int /\ Magnitude(Rounded(n)) <= TwoTo[FloatBits] /\ Rounded(Rounded(n)) = Rounded(n)
      BY <1>2, RoundedAgain
    <2>3. NormalizeNumber(Rounded(n)) = Number(Rounded(n))
      BY <2>2 DEF NormalizeNumber
    <2>4. once.number = Rounded(n) /\ once \in [number : Int]
      BY <2>1, <2>2 DEF Number
    <2> HIDE DEF once
    <2>5. "number" \in DOMAIN once => NormalizeNumber(once.number) = once
      BY <2>1, <2>3, <2>4
    <2> QED BY <1>2, <2>4, <2>5 DEF NumberSurvives, once
  <1>3. CASE ~small(n) /\ ~(Magnitude(n) <= TwoTo[FloatBits])
    <2>1. once = Numeral(n)
      BY <1>3 DEF NormalizeNumber
    <2>2. "number" \notin DOMAIN once /\ once \in [text : Int]
      BY <2>1 DEF Numeral
    <2> QED BY <1>3, <2>2 DEF NumberSurvives
  <1> QED BY <1>1, <1>2, <1>3
-----------------------------------------------------------------------------
(* Values, and the functions of them that are defined level by level.       *)
JSONAt(json, n, p) ==
  {Null} \cup [number : Int] \cup [text : Int] \cup
    IF n = 0 THEN {} ELSE [list : Seq(json[n - 1])] \cup [object : Seq(Int \X json[n - 1])]

DecodeAt(decode, n, p) ==
  [v \in JSON[n] |->
     IF "list" \in DOMAIN v THEN List(Each(v.list, decode[n - 1]))
     ELSE IF "object" \in DOMAIN v THEN Object(SetAll(EachValue(v.object, decode[n - 1])))
     ELSE Normalize(v)]

ReadableAt(readable, n, p) ==
  [v \in JSON[n] |->
     IF "list" \in DOMAIN v THEN \A k \in DOMAIN v.list : readable[n - 1][v.list[k]]
     ELSE IF "object" \in DOMAIN v
     THEN Unique(v.object) /\ \A k \in DOMAIN v.object : readable[n - 1][v.object[k][2]]
     ELSE TRUE]

EncodeAt(encode, n, p) ==
  [v \in JSON[n] |->
     IF "list" \in DOMAIN v THEN IF v.list = <<>> THEN Null ELSE List(Each(v.list, encode[n - 1]))
     ELSE IF "object" \in DOMAIN v THEN Object(EachValue(v.object, encode[n - 1]))
     ELSE v]

EncodeAnyAt(encode, n, p) ==
  [v \in JSON[n] |->
     IF "list" \in DOMAIN v THEN List(Each(v.list, encode[n - 1]))
     ELSE IF "object" \in DOMAIN v THEN Object(Sorted(EachValue(v.object, encode[n - 1])))
     ELSE v]

KeepsAt(keeps, n, asked) ==
  [pair \in JSON[n] \X JSON[n] |->
     LET new == pair[1]
         old == pair[2]
     IN
     IF "list" \in DOMAIN old
     THEN \/ "lists" \notin asked /\ old.list = <<>> /\ new = Null
          \/ /\ DOMAIN new = {"list"} /\ Len(new.list) = Len(old.list)
             /\ \A k \in DOMAIN new.list : keeps[n - 1][<<new.list[k], old.list[k]>>]
     ELSE IF "object" \in DOMAIN old
     THEN /\ DOMAIN new = {"object"} /\ OnceEach(new.object, old.object)
          /\ "order" \in asked => InOrder(new.object, old.object)
          /\ \A k \in DOMAIN new.object :
               keeps[n - 1][<<new.object[k][2], old.object[LastOf(old.object, new.object[k][1])][2]>>]
     ELSE new = Normalize(old)]

Nesting   == INSTANCE Induction WITH Def <- JSONAt
Decoding  == INSTANCE Induction WITH Def <- DecodeAt
Reading   == INSTANCE Induction WITH Def <- ReadableAt
Encoding  == INSTANCE Induction WITH Def <- EncodeAt
Sorting   == INSTANCE Induction WITH Def <- EncodeAnyAt
Keeping   == INSTANCE Induction WITH Def <- KeepsAt

LEMMA LevelsAreRanks == Counted \in [Nat -> Nat] /\ \A n \in Nat : Counted[n] = n
  BY DEF Counted

(* A value's level is made of the level below. *)
LEMMA JSONIs == \A n \in Nat : JSON[n] = JSONAt(JSON, n, 0)
  <1>1. Nesting!NeedsSmaller(Nat, Counted, 0)
    <2> SUFFICES ASSUME NEW n \in Nat, NEW g, NEW h, \A m \in Nesting!Smaller(Nat, Counted, n) : g[m] = h[m]
                 PROVE  JSONAt(g, n, 0) = JSONAt(h, n, 0)
      BY DEF Nesting!NeedsSmaller
    <2>1. n # 0 => n - 1 \in Nesting!Smaller(Nat, Counted, n)
      BY DEF Nesting!Smaller, Counted
    <2>2. n # 0 => g[n - 1] = h[n - 1]
      BY <2>1
    <2> QED BY <2>2, Zenon DEF JSONAt
  <1>2. \E f : f = [n \in Nat |-> JSONAt(f, n, 0)]
    BY <1>1, LevelsAreRanks, Nesting!Defined
  <1>3. JSON = [n \in Nat |-> JSONAt(JSON, n, 0)]
    BY <1>2, Zenon DEF JSON, JSONAt
  <1> QED BY <1>3, Zenon

IsLeaf(v) == v \in {Null} \cup [number : Int] \cup [text : Int]

IsList(v, n) == n # 0 /\ DOMAIN v = {"list"} /\ v = List(v.list) /\ v.list \in Seq(JSON[n - 1])

IsObject(v, n) == n # 0 /\ DOMAIN v = {"object"} /\ v = Object(v.object) /\ v.object \in Seq(Int \X JSON[n - 1])

(* What a value can be. *)
LEMMA ValueIs ==
  ASSUME NEW n \in Nat, NEW v \in JSON[n]
  PROVE  IsLeaf(v) \/ IsList(v, n) \/ IsObject(v, n)
  <1>1. v \in JSONAt(JSON, n, 0)
    BY JSONIs, Zenon
  <1>2. CASE n = 0
    BY <1>1, <1>2, Zenon DEF JSONAt, IsLeaf
  <1>3. CASE n # 0
    <2> DEFINE below == JSON[n - 1]
    <2>1. IsLeaf(v) \/ v \in [list : Seq(below)] \/ v \in [object : Seq(Int \X below)]
      BY <1>1, <1>3, Zenon DEF JSONAt, IsLeaf
    <2> DEFINE lists == Seq(below)
               objects == Seq(Int \X below)
    <2> HIDE DEF lists, objects
    <2>2. ASSUME v \in [list : lists] PROVE DOMAIN v = {"list"} /\ v = List(v.list) /\ v.list \in lists
      BY <2>2 DEF List
    <2>3. ASSUME v \in [object : objects] PROVE DOMAIN v = {"object"} /\ v = Object(v.object) /\ v.object \in objects
      BY <2>3 DEF Object
    <2> QED BY <1>3, <2>1, <2>2, <2>3, Zenon DEF IsList, IsObject, lists, objects
  <1> QED BY <1>2, <1>3

LEMMA LeafIs ==
  ASSUME NEW v, IsLeaf(v)
  PROVE  "list" \notin DOMAIN v /\ "object" \notin DOMAIN v /\ DOMAIN v \in {{"null"}, {"number"}, {"text"}}
  BY DEF IsLeaf, Null

LEMMA ListIs ==
  ASSUME NEW v, NEW n, IsList(v, n)
  PROVE  "list" \in DOMAIN v
  BY DEF IsList

LEMMA ObjectIs ==
  ASSUME NEW v, NEW n, IsObject(v, n)
  PROVE  "list" \notin DOMAIN v /\ "object" \in DOMAIN v
  BY DEF IsObject

(* Only what has a level below has members. *)
LEMMA MembersBelow ==
  ASSUME NEW n \in Nat, NEW v \in JSON[n], "list" \in DOMAIN v \/ "object" \in DOMAIN v
  PROVE  n # 0
  BY ValueIs, LeafIs, Zenon DEF IsList, IsObject

(* The members of a level. *)
LEMMA InLevel ==
  ASSUME NEW n \in Nat
  PROVE  /\ \A v : IsLeaf(v) => v \in JSON[n]
         /\ n # 0 => \A l \in Seq(JSON[n - 1]) : List(l) \in JSON[n]
         /\ n # 0 => \A d \in Seq(Int \X JSON[n - 1]) : Object(d) \in JSON[n]
  <1>1. JSON[n] = JSONAt(JSON, n, 0)
    BY JSONIs, Zenon
  <1>2. \A v : IsLeaf(v) => v \in JSON[n]
    BY <1>1, Zenon DEF JSONAt, IsLeaf
  <1>3. ASSUME n # 0, NEW l \in Seq(JSON[n - 1]) PROVE List(l) \in JSON[n]
    <2> DEFINE lists == Seq(JSON[n - 1])
    <2>1. [list : lists] \subseteq JSON[n]
      BY <1>1, <1>3, Zenon DEF JSONAt
    <2>2. l \in lists
      OBVIOUS
    <2> HIDE DEF lists
    <2> QED BY <2>1, <2>2 DEF List
  <1>4. ASSUME n # 0, NEW d \in Seq(Int \X JSON[n - 1]) PROVE Object(d) \in JSON[n]
    <2> DEFINE objects == Seq(Int \X JSON[n - 1])
    <2>1. [object : objects] \subseteq JSON[n]
      BY <1>1, <1>4, Zenon DEF JSONAt
    <2>2. d \in objects
      OBVIOUS
    <2> HIDE DEF objects
    <2> QED BY <2>1, <2>2 DEF Object
  <1> QED BY <1>2, <1>3, <1>4, Zenon

(* What is read of a value is read of its members. *)
LEMMA DecodeIs == \A n \in Nat : DecodeValue[n] = DecodeAt(DecodeValue, n, 0)
  <1>1. Decoding!NeedsSmaller(Nat, Counted, 0)
    <2> SUFFICES ASSUME NEW n \in Nat, NEW g, NEW h, \A m \in Decoding!Smaller(Nat, Counted, n) : g[m] = h[m]
                 PROVE  DecodeAt(g, n, 0) = DecodeAt(h, n, 0)
      BY DEF Decoding!NeedsSmaller
    <2>1. n # 0 => n - 1 \in Decoding!Smaller(Nat, Counted, n)
      BY DEF Decoding!Smaller, Counted
    <2>2. n # 0 => g[n - 1] = h[n - 1]
      BY <2>1
    <2>3. CASE n # 0
      BY <2>2, <2>3, Zenon DEF DecodeAt
    <2>4. CASE n = 0
      <3>1. \A v \in JSON[n] : "list" \notin DOMAIN v /\ "object" \notin DOMAIN v
        BY <2>4, MembersBelow, Zenon
      <3> QED BY <3>1, Zenon DEF DecodeAt
    <2> QED BY <2>3, <2>4
  <1>2. \E f : f = [n \in Nat |-> DecodeAt(f, n, 0)]
    BY <1>1, LevelsAreRanks, Decoding!Defined
  <1>3. DecodeValue = [n \in Nat |-> DecodeAt(DecodeValue, n, 0)]
    BY <1>2, Zenon DEF DecodeValue, DecodeAt
  <1> QED BY <1>3, Zenon

(* So is whether yaml reads it, *)
LEMMA ReadableIs == \A n \in Nat : Readable[n] = ReadableAt(Readable, n, 0)
  <1>1. Reading!NeedsSmaller(Nat, Counted, 0)
    <2> SUFFICES ASSUME NEW n \in Nat, NEW g, NEW h, \A m \in Reading!Smaller(Nat, Counted, n) : g[m] = h[m]
                 PROVE  ReadableAt(g, n, 0) = ReadableAt(h, n, 0)
      BY DEF Reading!NeedsSmaller
    <2>1. n # 0 => n - 1 \in Reading!Smaller(Nat, Counted, n)
      BY DEF Reading!Smaller, Counted
    <2>2. n # 0 => g[n - 1] = h[n - 1]
      BY <2>1
    <2>3. CASE n # 0
      BY <2>2, <2>3, Zenon DEF ReadableAt
    <2>4. CASE n = 0
      <3>1. \A v \in JSON[n] : "list" \notin DOMAIN v /\ "object" \notin DOMAIN v
        BY <2>4, MembersBelow, Zenon
      <3> QED BY <3>1, Zenon DEF ReadableAt
    <2> QED BY <2>3, <2>4
  <1>2. \E f : f = [n \in Nat |-> ReadableAt(f, n, 0)]
    BY <1>1, LevelsAreRanks, Reading!Defined
  <1>3. Readable = [n \in Nat |-> ReadableAt(Readable, n, 0)]
    BY <1>2, Zenon DEF Readable, ReadableAt
  <1> QED BY <1>3, Zenon

(* and what it is written as, *)
LEMMA EncodeIs == \A n \in Nat : EncodeValue[n] = EncodeAt(EncodeValue, n, 0)
  <1>1. Encoding!NeedsSmaller(Nat, Counted, 0)
    <2> SUFFICES ASSUME NEW n \in Nat, NEW g, NEW h, \A m \in Encoding!Smaller(Nat, Counted, n) : g[m] = h[m]
                 PROVE  EncodeAt(g, n, 0) = EncodeAt(h, n, 0)
      BY DEF Encoding!NeedsSmaller
    <2>1. n # 0 => n - 1 \in Encoding!Smaller(Nat, Counted, n)
      BY DEF Encoding!Smaller, Counted
    <2>2. n # 0 => g[n - 1] = h[n - 1]
      BY <2>1
    <2>3. CASE n # 0
      BY <2>2, <2>3, Zenon DEF EncodeAt
    <2>4. CASE n = 0
      <3>1. \A v \in JSON[n] : "list" \notin DOMAIN v /\ "object" \notin DOMAIN v
        BY <2>4, MembersBelow, Zenon
      <3> QED BY <3>1, Zenon DEF EncodeAt
    <2> QED BY <2>3, <2>4
  <1>2. \E f : f = [n \in Nat |-> EncodeAt(f, n, 0)]
    BY <1>1, LevelsAreRanks, Encoding!Defined
  <1>3. EncodeValue = [n \in Nat |-> EncodeAt(EncodeValue, n, 0)]
    BY <1>2, Zenon DEF EncodeValue, EncodeAt
  <1> QED BY <1>3, Zenon

(* in either way.           *)
LEMMA EncodeAnyIs == \A n \in Nat : EncodeAny[n] = EncodeAnyAt(EncodeAny, n, 0)
  <1>1. Sorting!NeedsSmaller(Nat, Counted, 0)
    <2> SUFFICES ASSUME NEW n \in Nat, NEW g, NEW h, \A m \in Sorting!Smaller(Nat, Counted, n) : g[m] = h[m]
                 PROVE  EncodeAnyAt(g, n, 0) = EncodeAnyAt(h, n, 0)
      BY DEF Sorting!NeedsSmaller
    <2>1. n # 0 => n - 1 \in Sorting!Smaller(Nat, Counted, n)
      BY DEF Sorting!Smaller, Counted
    <2>2. n # 0 => g[n - 1] = h[n - 1]
      BY <2>1
    <2>3. CASE n # 0
      BY <2>2, <2>3, Zenon DEF EncodeAnyAt
    <2>4. CASE n = 0
      <3>1. \A v \in JSON[n] : "list" \notin DOMAIN v /\ "object" \notin DOMAIN v
        BY <2>4, MembersBelow, Zenon
      <3> QED BY <3>1, Zenon DEF EncodeAnyAt
    <2> QED BY <2>3, <2>4
  <1>2. \E f : f = [n \in Nat |-> EncodeAnyAt(f, n, 0)]
    BY <1>1, LevelsAreRanks, Sorting!Defined
  <1>3. EncodeAny = [n \in Nat |-> EncodeAnyAt(EncodeAny, n, 0)]
    BY <1>2, Zenon DEF EncodeAny, EncodeAnyAt
  <1> QED BY <1>3, Zenon

(* What is kept of a value is kept of its members.                          *)
LEMMA KeepsIs ==
  ASSUME NEW n \in Nat, NEW new \in JSON[n], NEW old \in JSON[n], NEW asked
  PROVE  /\ IsLeaf(old) => (Keeps(n, new, old, asked) <=> new = Normalize(old))
         /\ IsList(old, n) =>
              (Keeps(n, new, old, asked) <=>
                 \/ "lists" \notin asked /\ old.list = <<>> /\ new = Null
                 \/ /\ DOMAIN new = {"list"} /\ Len(new.list) = Len(old.list)
                    /\ \A k \in DOMAIN new.list : Keeps(n - 1, new.list[k], old.list[k], asked))
         /\ IsObject(old, n) =>
              (Keeps(n, new, old, asked) <=>
                 /\ DOMAIN new = {"object"} /\ OnceEach(new.object, old.object)
                 /\ "order" \in asked => InOrder(new.object, old.object)
                 /\ \A k \in DOMAIN new.object :
                      Keeps(n - 1, new.object[k][2], old.object[LastOf(old.object, new.object[k][1])][2], asked))
  <1>1. Keeping!NeedsSmaller(Nat, Counted, asked)
    <2> SUFFICES ASSUME NEW m \in Nat, NEW g, NEW h, \A l \in Keeping!Smaller(Nat, Counted, m) : g[l] = h[l]
                 PROVE  KeepsAt(g, m, asked) = KeepsAt(h, m, asked)
      BY DEF Keeping!NeedsSmaller
    <2>1. m # 0 => m - 1 \in Keeping!Smaller(Nat, Counted, m)
      BY DEF Keeping!Smaller, Counted
    <2>2. m # 0 => g[m - 1] = h[m - 1]
      BY <2>1
    <2>3. CASE m # 0
      BY <2>2, <2>3, Zenon DEF KeepsAt
    <2>4. CASE m = 0
      <3>1. \A v \in JSON[m] : "list" \notin DOMAIN v /\ "object" \notin DOMAIN v
        BY <2>4, MembersBelow, Zenon
      <3>2. \A pair \in JSON[m] \X JSON[m] : "list" \notin DOMAIN pair[2] /\ "object" \notin DOMAIN pair[2]
        BY <3>1
      <3> QED BY <3>2, Zenon DEF KeepsAt
    <2> QED BY <2>3, <2>4
  <1>2. \E f : f = [m \in Nat |-> KeepsAt(f, m, asked)]
    BY <1>1, LevelsAreRanks, Keeping!Defined
  <1> DEFINE keeps == CHOOSE f : f = [m \in Nat |-> KeepsAt(f, m, asked)]
  <1>3. keeps = [m \in Nat |-> KeepsAt(keeps, m, asked)]
    BY <1>2, Zenon
  <1>4. \A m, v, w : Keeps(m, v, w, asked) = keeps[m][<<v, w>>]
    BY Zenon DEF Keeps, KeepsAt
  <1> HIDE DEF keeps
  <1>5. keeps[n] = KeepsAt(keeps, n, asked)
    BY <1>3, Zenon
  <1>6. <<new, old>> \in JSON[n] \X JSON[n] /\ <<new, old>>[1] = new /\ <<new, old>>[2] = old
    OBVIOUS
  <1>7. keeps[n][<<new, old>>] =
          (IF "list" \in DOMAIN old
           THEN \/ "lists" \notin asked /\ old.list = <<>> /\ new = Null
                \/ /\ DOMAIN new = {"list"} /\ Len(new.list) = Len(old.list)
                   /\ \A k \in DOMAIN new.list : keeps[n - 1][<<new.list[k], old.list[k]>>]
           ELSE IF "object" \in DOMAIN old
           THEN /\ DOMAIN new = {"object"} /\ OnceEach(new.object, old.object)
                /\ "order" \in asked => InOrder(new.object, old.object)
                /\ \A k \in DOMAIN new.object :
                     keeps[n - 1][<<new.object[k][2], old.object[LastOf(old.object, new.object[k][1])][2]>>]
           ELSE new = Normalize(old))
    BY <1>5, <1>6, Zenon DEF KeepsAt
  <1> DEFINE asList   == \/ "lists" \notin asked /\ old.list = <<>> /\ new = Null
                         \/ /\ DOMAIN new = {"list"} /\ Len(new.list) = Len(old.list)
                            /\ \A k \in DOMAIN new.list : Keeps(n - 1, new.list[k], old.list[k], asked)
             asObject == /\ DOMAIN new = {"object"} /\ OnceEach(new.object, old.object)
                         /\ "order" \in asked => InOrder(new.object, old.object)
                         /\ \A k \in DOMAIN new.object :
                              Keeps(n - 1, new.object[k][2], old.object[LastOf(old.object, new.object[k][1])][2], asked)
             asLeaf   == new = Normalize(old)
             kept     == Keeps(n, new, old, asked)
  <1>8. kept = (IF "list" \in DOMAIN old THEN asList ELSE IF "object" \in DOMAIN old THEN asObject ELSE asLeaf)
    BY <1>7, Zenon DEF Keeps, KeepsAt, keeps
  <1> HIDE DEF asList, asObject, asLeaf, kept
  <1>9. ASSUME IsLeaf(old) PROVE kept <=> asLeaf
    <2>1. "list" \notin DOMAIN old /\ "object" \notin DOMAIN old
      BY <1>9, LeafIs, Zenon
    <2>2. kept = asLeaf
      BY <1>8, <2>1, Zenon
    <2> QED BY <2>2
  <1>10. ASSUME IsList(old, n) PROVE kept <=> asList
    <2>1. "list" \in DOMAIN old
      BY <1>10, ListIs, Zenon
    <2>2. kept = asList
      BY <1>8, <2>1, Zenon
    <2> QED BY <2>2
  <1>11. ASSUME IsObject(old, n) PROVE kept <=> asObject
    <2>1. "list" \notin DOMAIN old /\ "object" \in DOMAIN old
      BY <1>11, ObjectIs, Zenon
    <2>2. kept = asObject
      BY <1>8, <2>1, Zenon
    <2> QED BY <2>2
  <1> QED BY <1>9, <1>10, <1>11, Zenon DEF asList, asObject, asLeaf, kept

(* What becomes of each kind of value. *)
LEMMA OfLeaf ==
  ASSUME NEW n \in Nat, NEW v \in JSON[n], IsLeaf(v)
  PROVE  DecodeValue[n][v] = Normalize(v) /\ EncodeValue[n][v] = v /\ EncodeAny[n][v] = v
  <1>1. "list" \notin DOMAIN v /\ "object" \notin DOMAIN v
    BY LeafIs, Zenon
  <1>2. DecodeValue[n][v] = Normalize(v)
    BY <1>1, DecodeIs, Zenon DEF DecodeAt
  <1>3. EncodeValue[n][v] = v
    BY <1>1, EncodeIs, Zenon DEF EncodeAt
  <1>4. EncodeAny[n][v] = v
    BY <1>1, EncodeAnyIs, Zenon DEF EncodeAnyAt
  <1> QED BY <1>2, <1>3, <1>4

LEMMA OfList ==
  ASSUME NEW n \in Nat, NEW v \in JSON[n], IsList(v, n)
  PROVE  /\ DecodeValue[n][v] = List(Each(v.list, DecodeValue[n - 1]))
         /\ EncodeValue[n][v] = (IF v.list = <<>> THEN Null ELSE List(Each(v.list, EncodeValue[n - 1])))
         /\ EncodeAny[n][v] = List(Each(v.list, EncodeAny[n - 1]))
         /\ Readable[n][v] = (\A k \in DOMAIN v.list : Readable[n - 1][v.list[k]])
  BY DecodeIs, EncodeIs, EncodeAnyIs, ReadableIs, ListIs, Zenon DEF DecodeAt, EncodeAt, EncodeAnyAt, ReadableAt

LEMMA OfObject ==
  ASSUME NEW n \in Nat, NEW v \in JSON[n], IsObject(v, n)
  PROVE  /\ DecodeValue[n][v] = Object(SetAll(EachValue(v.object, DecodeValue[n - 1])))
         /\ EncodeValue[n][v] = Object(EachValue(v.object, EncodeValue[n - 1]))
         /\ EncodeAny[n][v] = Object(Sorted(EachValue(v.object, EncodeAny[n - 1])))
         /\ Readable[n][v] = (Unique(v.object) /\ \A k \in DOMAIN v.object : Readable[n - 1][v.object[k][2]])
  BY DecodeIs, EncodeIs, EncodeAnyIs, ReadableIs, ObjectIs, Zenon DEF DecodeAt, EncodeAt, EncodeAnyAt, ReadableAt

(* A function gives values of one set elements of another.                  *)
Takes(f, A, B) == \A x \in A : f[x] \in B

(* A function of each element, or of each value, of what has them.          *)
LEMMA EachIs ==
  ASSUME NEW A, NEW B, NEW l \in Seq(A), NEW f, Takes(f, A, B)
  PROVE  /\ Each(l, f) \in Seq(B) /\ DOMAIN Each(l, f) = DOMAIN l /\ Len(Each(l, f)) = Len(l)
         /\ \A k \in DOMAIN l : l[k] \in A /\ Each(l, f)[k] = f[l[k]]
  <1>1. Len(l) \in Nat /\ DOMAIN l = 1..Len(l) /\ \A k \in 1..Len(l) : l[k] \in A
    BY ElementOfSeq
  <1>2. Each(l, f) \in [1..Len(l) -> B]
    BY <1>1, Zenon DEF Each, Takes
  <1>3. Each(l, f) \in Seq(B) /\ DOMAIN Each(l, f) = 1..Len(l)
    BY <1>1, <1>2
  <1>4. Len(Each(l, f)) = Len(l)
    BY <1>1, <1>3
  <1>5. \A k \in DOMAIN l : Each(l, f)[k] = f[l[k]]
    BY Zenon DEF Each
  <1> QED BY <1>1, <1>3, <1>4, <1>5

Documents(A) == Seq(Int \X A)

LEMMA EachValueIs ==
  ASSUME NEW A, NEW B, NEW d \in Documents(A), NEW f, Takes(f, A, B)
  PROVE  /\ EachValue(d, f) \in Documents(B) /\ DOMAIN EachValue(d, f) = DOMAIN d
         /\ \A k \in DOMAIN d : EachValue(d, f)[k][1] = d[k][1] /\ EachValue(d, f)[k][2] = f[d[k][2]]
  <1>1. Len(d) \in Nat /\ DOMAIN d = 1..Len(d) /\ \A k \in 1..Len(d) : d[k] \in Int \X A
    BY ElementOfSeq DEF Documents
  <1>2. \A k \in 1..Len(d) : d[k][1] \in Int /\ d[k][2] \in A /\ f[d[k][2]] \in B
    BY <1>1 DEF Takes
  <1>3. \A k \in DOMAIN d : EachValue(d, f)[k] = <<d[k][1], f[d[k][2]]>>
    BY Zenon DEF EachValue
  <1>4. \A k \in 1..Len(d) : <<d[k][1], f[d[k][2]]>> \in Int \X B
    BY <1>2
  <1>5. EachValue(d, f) \in [1..Len(d) -> Int \X B]
    BY <1>1, <1>4, Zenon DEF EachValue
  <1>6. EachValue(d, f) \in Seq(Int \X B) /\ DOMAIN EachValue(d, f) = 1..Len(d)
    BY <1>1, <1>5
  <1>7. \A k \in DOMAIN d : EachValue(d, f)[k][1] = d[k][1] /\ EachValue(d, f)[k][2] = f[d[k][2]]
    BY <1>3
  <1> QED BY <1>1, <1>6, <1>7 DEF Documents
-----------------------------------------------------------------------------
(* Setting one member after another.                                        *)
SetAllAt(map, n, members) == IF n = 0 THEN <<>> ELSE Set(map[n - 1], members[n][1], members[n][2])

Setting == INSTANCE Induction WITH Def <- SetAllAt

(* SetAll is what has been set at the end. *)
LEMMA SetAllSteps ==
  ASSUME NEW S, NEW e \in Seq(S)
  PROVE  \E map : /\ map[0] = <<>> /\ SetAll(e) = map[Len(e)]
                  /\ \A n \in 0..(Len(e) - 1) : map[n + 1] = Set(map[n], e[n + 1][1], e[n + 1][2])
  <1> DEFINE Counts == 0..Len(e)
             rank   == [n \in Counts |-> n]
             map    == CHOOSE f : f = [n \in Counts |-> SetAllAt(f, n, e)]
  <1>0. Len(e) \in Nat
    BY ElementOfSeq
  <1>1. Setting!NeedsSmaller(Counts, rank, e)
    <2> SUFFICES ASSUME NEW n \in Counts, NEW g, NEW h, \A m \in Setting!Smaller(Counts, rank, n) : g[m] = h[m]
                 PROVE  SetAllAt(g, n, e) = SetAllAt(h, n, e)
      BY DEF Setting!NeedsSmaller
    <2>1. n # 0 => n - 1 \in Setting!Smaller(Counts, rank, n)
      BY <1>0 DEF Setting!Smaller
    <2>2. n # 0 => g[n - 1] = h[n - 1]
      BY <2>1
    <2> QED BY <2>2, Zenon DEF SetAllAt
  <1>2. \E f : f = [n \in Counts |-> SetAllAt(f, n, e)]
    <2>1. rank \in [Counts -> Nat]
      BY <1>0
    <2> HIDE DEF rank
    <2> QED BY <1>1, <2>1, Setting!Defined
  <1>3. map = [n \in Counts |-> SetAllAt(map, n, e)]
    BY <1>2, Zenon
  <1>4. SetAll(e) = map[Len(e)]
    BY Zenon DEF SetAll, SetAllAt, Counts
  <1> HIDE DEF map
  <1>5. \A n \in Counts : map[n] = SetAllAt(map, n, e)
    BY <1>3, Zenon
  <1>6. map[0] = <<>>
    <2>1. 0 \in Counts
      BY <1>0
    <2> QED BY <1>5, <2>1, Zenon DEF SetAllAt
  <1>7. ASSUME NEW n \in 0..(Len(e) - 1) PROVE map[n + 1] = Set(map[n], e[n + 1][1], e[n + 1][2])
    <2>1. n + 1 \in Counts /\ n + 1 # 0 /\ (n + 1) - 1 = n
      BY <1>0
    <2> QED BY <1>5, <2>1, Zenon DEF SetAllAt
  <1> QED BY <1>4, <1>6, <1>7

(* A function of the first numbers is a sequence.                           *)
LEMMA MappingIsSeq ==
  ASSUME NEW S, NEW n \in Nat, NEW s \in [1..n -> S]
  PROVE  s \in Seq(S) /\ Len(s) = n
  OBVIOUS

(* A member at the end, or in the place of the one of its key.              *)
Added(new, m, pair) ==
  Len(new) = Len(m) + 1 /\ new[Len(m) + 1] = pair /\ \A k \in 1..Len(m) : new[k] = m[k]

Replaced(new, m, pair) ==
  /\ Len(new) = Len(m)
  /\ \E at \in 1..Len(m) : m[at][1] = pair[1] /\ new[at] = pair /\ \A k \in 1..Len(m) : k # at => new[k] = m[k]

(* What is set. *)
LEMMA SetIs ==
  ASSUME NEW P, NEW m \in Seq(P), NEW pair \in P, pair = <<pair[1], pair[2]>>,
         NEW new, new = Set(m, pair[1], pair[2])
  PROVE  /\ new \in Seq(P)
         /\ pair[1] \notin Keys(m) => Added(new, m, pair)
         /\ pair[1] \in Keys(m) => Replaced(new, m, pair)
  <1>1. Len(m) \in Nat /\ DOMAIN m = 1..Len(m) /\ \A k \in 1..Len(m) : m[k] \in P
    BY ElementOfSeq
  <1>2. <<pair[1], pair[2]>> = pair
    OBVIOUS
  <1>3. CASE pair[1] \notin Keys(m)
    <2>1. new = Append(m, pair)
      BY <1>2, <1>3, Zenon DEF Set
    <2>2. /\ Append(m, pair) \in Seq(P) /\ Len(Append(m, pair)) = Len(m) + 1
          /\ \A i \in 1..Len(m) : Append(m, pair)[i] = m[i]
          /\ Append(m, pair)[Len(m) + 1] = pair
      BY AppendProperties
    <2>3. Added(new, m, pair)
      BY <2>1, <2>2 DEF Added
    <2> QED BY <1>3, <2>1, <2>2, <2>3
  <1>4. CASE pair[1] \in Keys(m)
    <2> DEFINE at == CHOOSE k \in DOMAIN m : m[k][1] = pair[1]
    <2>1. at \in 1..Len(m) /\ m[at][1] = pair[1]
      <3>1. \E k \in DOMAIN m : m[k][1] = pair[1]
        BY <1>4, Zenon DEF Keys
      <3>2. at \in DOMAIN m /\ m[at][1] = pair[1]
        BY <3>1, Zenon
      <3> QED BY <1>1, <3>2
    <2>2. new = [m EXCEPT ![at] = pair]
      BY <1>2, <1>4, Zenon DEF Set
    <2> HIDE DEF at
    <2>3. new \in [1..Len(m) -> P]
      BY <1>1, <2>1, <2>2
    <2>4. new \in Seq(P) /\ Len(new) = Len(m)
      BY <1>1, <2>3, MappingIsSeq, Zenon
    <2>5. new[at] = pair /\ \A k \in 1..Len(m) : k # at => new[k] = m[k]
      BY <1>1, <2>1, <2>2
    <2>6. Replaced(new, m, pair)
      BY <2>1, <2>4, <2>5 DEF Replaced
    <2> QED BY <1>4, <2>4, <2>6
  <1> QED BY <1>3, <1>4

(* The first member of a key. *)
IsFirst(e, key, i) == i \in DOMAIN e /\ e[i][1] = key /\ \A j \in DOMAIN e : e[j][1] = key => i <= j

(* A map of the first n members: in the order they appeared, and each with  *)
(* the value given last.                                                    *)
Collected(e, n, m) ==
  /\ \A k \in DOMAIN m : \E i \in 1..n : IsFirst(e, m[k][1], i)
  /\ \A k, l \in DOMAIN m : k < l =>
       \A i, j \in DOMAIN e : IsFirst(e, m[k][1], i) /\ IsFirst(e, m[l][1], j) => i < j
  /\ \A j \in 1..n : \E k \in DOMAIN m : m[k][1] = e[j][1]
  /\ \A k \in DOMAIN m : \E j \in 1..n :
       m[k] = e[j] /\ \A i \in 1..n : e[i][1] = e[j][1] => i <= j

(* One more member. *)
LEMMA SetCollects ==
  ASSUME NEW B, NEW e \in Seq(Int \X B), NEW n \in 0..(Len(e) - 1), NEW m \in Seq(Int \X B), Collected(e, n, m)
  PROVE  LET new == Set(m, e[n + 1][1], e[n + 1][2]) IN new \in Seq(Int \X B) /\ Collected(e, n + 1, new)
  <1> DEFINE pair == e[n + 1]
             key  == pair[1]
             new  == Set(m, pair[1], pair[2])
  <1>1. /\ Len(e) \in Nat /\ DOMAIN e = 1..Len(e) /\ \A k \in 1..Len(e) : e[k] \in Int \X B
        /\ Len(m) \in Nat /\ DOMAIN m = 1..Len(m) /\ \A k \in 1..Len(m) : m[k] \in Int \X B
        /\ n \in Nat /\ n + 1 \in 1..Len(e) /\ pair \in Int \X B
    BY ElementOfSeq
  <1>2. /\ new \in Seq(Int \X B)
        /\ key \notin Keys(m) => Added(new, m, pair)
        /\ key \in Keys(m) => Replaced(new, m, pair)
    <2>1. pair \in Int \X B
      BY <1>1
    <2>2. new = Set(m, pair[1], pair[2])
      OBVIOUS
    <2> HIDE DEF new, pair
    <2>3. /\ new \in Seq(Int \X B)
          /\ pair[1] \notin Keys(m) => Added(new, m, pair)
          /\ pair[1] \in Keys(m) => Replaced(new, m, pair)
      <3> DEFINE P == Int \X B
      <3>1. pair = <<pair[1], pair[2]>>
        BY <2>1
      <3>2. pair \in P /\ m \in Seq(P)
        BY <2>1
      <3> HIDE DEF P
      <3>3. /\ new \in Seq(P)
            /\ pair[1] \notin Keys(m) => Added(new, m, pair)
            /\ pair[1] \in Keys(m) => Replaced(new, m, pair)
        BY <2>2, <3>1, <3>2, SetIs, Zenon
      <3> QED BY <3>3 DEF P
    <2> QED BY <2>3, Zenon
  <1> HIDE DEF new
  <1>3. /\ \A k \in 1..Len(m) : \E i \in 1..n : IsFirst(e, m[k][1], i)
        /\ \A k, l \in 1..Len(m) : k < l =>
             \A i, j \in DOMAIN e : IsFirst(e, m[k][1], i) /\ IsFirst(e, m[l][1], j) => i < j
        /\ \A j \in 1..n : \E k \in 1..Len(m) : m[k][1] = e[j][1]
        /\ \A k \in 1..Len(m) : \E j \in 1..n :
             m[k] = e[j] /\ \A i \in 1..n : e[i][1] = e[j][1] => i <= j
    BY <1>1 DEF Collected
  <1>4. CASE key \in Keys(m)
    <2>1. PICK at \in 1..Len(m) : /\ m[at][1] = key /\ new[at] = pair
                                  /\ \A k \in 1..Len(m) : k # at => new[k] = m[k]
      BY <1>2, <1>4 DEF Replaced
    <2>2. Len(new) = Len(m) /\ DOMAIN new = 1..Len(m) /\ \A k \in 1..Len(m) : new[k][1] = m[k][1]
      <3>1. Len(new) = Len(m)
        BY <1>2, <1>4 DEF Replaced
      <3>2. DOMAIN new = 1..Len(m)
        BY <1>2, <3>1
      <3> QED BY <2>1, <3>1, <3>2
    <2>3. ASSUME NEW k \in DOMAIN new PROVE \E i \in 1..(n + 1) : IsFirst(e, new[k][1], i)
      <3>1. k \in 1..Len(m) /\ new[k][1] = m[k][1]
        BY <2>2
      <3>2. PICK i \in 1..n : IsFirst(e, m[k][1], i)
        BY <1>3, <3>1
      <3>3. i \in 1..(n + 1)
        BY <1>1
      <3> QED BY <3>1, <3>2, <3>3, Zenon
    <2>4. \A k, l \in DOMAIN new : k < l =>
            \A i, j \in DOMAIN e : IsFirst(e, new[k][1], i) /\ IsFirst(e, new[l][1], j) => i < j
      BY <1>3, <2>2
    <2>5. \A j \in 1..(n + 1) : \E k \in DOMAIN new : new[k][1] = e[j][1]
      <3> SUFFICES ASSUME NEW j \in 1..(n + 1) PROVE \E k \in DOMAIN new : new[k][1] = e[j][1]
        OBVIOUS
      <3>1. CASE j = n + 1
        BY <2>1, <2>2, <3>1
      <3>2. CASE j # n + 1
        <4>1. j \in 1..n
          BY <1>1, <3>2
        <4>2. PICK k \in 1..Len(m) : m[k][1] = e[j][1]
          BY <1>3, <4>1
        <4> QED BY <2>2, <4>2, Zenon
      <3> QED BY <3>1, <3>2
    <2>6. ASSUME NEW k \in DOMAIN new
          PROVE  \E j \in 1..(n + 1) : new[k] = e[j] /\ \A i \in 1..(n + 1) : e[i][1] = e[j][1] => i <= j
      <3>1. CASE k = at
        <4>1. n + 1 \in 1..(n + 1) /\ new[k] = e[n + 1] /\ \A i \in 1..(n + 1) : i <= n + 1
          BY <1>1, <2>1, <3>1
        <4> QED BY <4>1
      <3>2. CASE k # at
        <4>0. k \in 1..Len(m) /\ new[k] = m[k]
          BY <2>1, <2>2, <3>2
        <4>1. PICK j \in 1..n : m[k] = e[j] /\ \A i \in 1..n : e[i][1] = e[j][1] => i <= j
          BY <1>3, <4>0
        <4>2. e[j][1] # key
          <5> SUFFICES ASSUME m[k][1] = m[at][1] PROVE FALSE
            BY <2>1, <4>1
          <5>1. PICK i \in 1..n : IsFirst(e, m[k][1], i)
            BY <1>3, <4>0
          <5>2. i \in DOMAIN e /\ IsFirst(e, m[at][1], i) /\ i \in Int
            BY <1>1, <5>1
          <5>3. k < at \/ at < k
            BY <3>2, <4>0, <1>1
          <5>4. i < i
            BY <1>3, <4>0, <5>1, <5>2, <5>3
          <5> QED BY <5>2, <5>4
        <4>3. \A i \in 1..(n + 1) : e[i][1] = e[j][1] => i <= j
          <5> SUFFICES ASSUME NEW i \in 1..(n + 1), e[i][1] = e[j][1] PROVE i <= j
            OBVIOUS
          <5>1. i # n + 1
            BY <4>2
          <5>2. i \in 1..n
            BY <1>1, <5>1
          <5> QED BY <4>1, <5>2
        <4>4. j \in 1..(n + 1)
          BY <1>1
        <4> QED BY <4>0, <4>1, <4>3, <4>4
      <3> QED BY <3>1, <3>2
    <2> QED BY <1>2, <2>3, <2>4, <2>5, <2>6 DEF Collected, new
  <1>5. CASE key \notin Keys(m)
    <2> DEFINE last == Len(m) + 1
    <2>1. /\ Len(new) = last /\ DOMAIN new = 1..last /\ new[last] = pair
          /\ \A k \in 1..Len(m) : new[k] = m[k]
      <3>1. Len(new) = last /\ new[last] = pair /\ \A k \in 1..Len(m) : new[k] = m[k]
        BY <1>2, <1>5 DEF Added
      <3>2. DOMAIN new = 1..Len(new)
        BY <1>2
      <3> QED BY <3>1, <3>2
    <2>2. \A k \in 1..last : k = last \/ k \in 1..Len(m)
      BY <1>1
    <2>3. \A j \in 1..n : e[j][1] # key
      <3> SUFFICES ASSUME NEW j \in 1..n, e[j][1] = key PROVE FALSE
        OBVIOUS
      <3>1. PICK k \in 1..Len(m) : m[k][1] = e[j][1]
        BY <1>3
      <3>2. m[k][1] \in Keys(m)
        BY <1>1 DEF Keys
      <3> QED BY <1>5, <3>1, <3>2
    <2>4. IsFirst(e, key, n + 1) /\ \A i : IsFirst(e, key, i) => i = n + 1
      <3>1. \A j \in DOMAIN e : e[j][1] = key => n + 1 <= j
        <4> SUFFICES ASSUME NEW j \in DOMAIN e, e[j][1] = key, j < n + 1 PROVE FALSE
          BY <1>1
        <4>1. j \in 1..n
          BY <1>1
        <4> QED BY <2>3, <4>1
      <3>2. n + 1 \in DOMAIN e /\ e[n + 1][1] = key
        BY <1>1
      <3>3. \A i \in DOMAIN e : i \in Int
        BY <1>1
      <3>4. ASSUME NEW i, IsFirst(e, key, i) PROVE i = n + 1
        <4>1. i \in DOMAIN e /\ e[i][1] = key /\ i <= n + 1
          BY <3>2, <3>4 DEF IsFirst
        <4>2. n + 1 <= i
          BY <3>1, <4>1
        <4> QED BY <1>1, <3>3, <4>1, <4>2
      <3> QED BY <3>1, <3>2, <3>4 DEF IsFirst
    <2>5. last \in Nat /\ \A k \in 1..Len(m) : k < last
      BY <1>1
    <2> HIDE DEF last
    <2>6. ASSUME NEW k \in DOMAIN new PROVE \E i \in 1..(n + 1) : IsFirst(e, new[k][1], i)
      <3>1. CASE k = last
        <4>1. n + 1 \in 1..(n + 1) /\ new[k][1] = key
          BY <1>1, <2>1, <3>1
        <4> QED BY <2>4, <4>1
      <3>2. CASE k \in 1..Len(m)
        <4>1. PICK i \in 1..n : IsFirst(e, m[k][1], i)
          BY <1>3, <3>2
        <4>2. i \in 1..(n + 1) /\ new[k] = m[k]
          BY <1>1, <2>1, <3>2
        <4> QED BY <4>1, <4>2
      <3> QED BY <2>1, <2>2, <3>1, <3>2
    <2>7. ASSUME NEW k \in DOMAIN new, NEW l \in DOMAIN new, k < l, NEW i \in DOMAIN e, NEW j \in DOMAIN e,
                 IsFirst(e, new[k][1], i), IsFirst(e, new[l][1], j)
          PROVE  i < j
      <3>1. k \in 1..Len(m) /\ new[k] = m[k]
        BY <1>1, <2>1, <2>2, <2>5, <2>7 DEF last
      <3>2. CASE l = last
        <4>1. j = n + 1
          BY <2>1, <2>4, <2>7, <3>2
        <4>2. PICK f \in 1..n : IsFirst(e, m[k][1], f)
          BY <1>3, <3>1
        <4>3. i <= f
          <5>1. f \in DOMAIN e /\ e[f][1] = m[k][1]
            BY <4>2 DEF IsFirst
          <5> QED BY <2>7, <3>1, <5>1 DEF IsFirst
        <4> QED BY <1>1, <4>1, <4>3
      <3>3. CASE l \in 1..Len(m)
        <4>1. new[l] = m[l]
          BY <2>1, <3>3
        <4> QED BY <1>3, <2>7, <3>1, <3>3, <4>1
      <3> QED BY <2>1, <2>2, <3>2, <3>3
    <2>8. ASSUME NEW j \in 1..(n + 1) PROVE \E k \in DOMAIN new : new[k][1] = e[j][1]
      <3>1. CASE j = n + 1
        <4>1. last \in DOMAIN new
          BY <2>1, <2>5, <1>1 DEF last
        <4> QED BY <2>1, <3>1, <4>1
      <3>2. CASE j # n + 1
        <4>1. j \in 1..n
          BY <1>1, <3>2
        <4>2. PICK k \in 1..Len(m) : m[k][1] = e[j][1]
          BY <1>3, <4>1
        <4>3. k \in DOMAIN new
          BY <1>1, <2>1 DEF last
        <4> QED BY <2>1, <4>2, <4>3
      <3> QED BY <3>1, <3>2
    <2>9. ASSUME NEW k \in DOMAIN new
          PROVE  \E j \in 1..(n + 1) : new[k] = e[j] /\ \A i \in 1..(n + 1) : e[i][1] = e[j][1] => i <= j
      <3>1. CASE k = last
        <4>1. n + 1 \in 1..(n + 1) /\ new[k] = e[n + 1] /\ \A i \in 1..(n + 1) : i <= n + 1
          BY <1>1, <2>1, <3>1
        <4> QED BY <4>1
      <3>2. CASE k \in 1..Len(m)
        <4>0. new[k] = m[k]
          BY <2>1, <3>2
        <4>1. PICK j \in 1..n : m[k] = e[j] /\ \A i \in 1..n : e[i][1] = e[j][1] => i <= j
          BY <1>3, <3>2
        <4>2. \A i \in 1..(n + 1) : e[i][1] = e[j][1] => i <= j
          <5> SUFFICES ASSUME NEW i \in 1..(n + 1), e[i][1] = e[j][1] PROVE i <= j
            OBVIOUS
          <5>1. i # n + 1
            BY <2>3
          <5>2. i \in 1..n
            BY <1>1, <5>1
          <5> QED BY <4>1, <5>2
        <4>3. j \in 1..(n + 1)
          BY <1>1
        <4> QED BY <4>0, <4>1, <4>2, <4>3
      <3> QED BY <2>1, <2>2, <3>1, <3>2
    <2> QED BY <1>2, <2>6, <2>7, <2>8, <2>9 DEF Collected, new
  <1> QED BY <1>4, <1>5

(* A document is a sequence of pairs. *)
LEMMA DocumentIs ==
  ASSUME NEW B, NEW d \in Seq(Int \X B)
  PROVE  /\ Len(d) \in Nat /\ DOMAIN d = 1..Len(d)
         /\ \A k \in DOMAIN d : d[k] \in Int \X B /\ d[k] = <<d[k][1], d[k][2]>> /\ d[k][1] \in Int /\ d[k][2] \in B
  <1>1. Len(d) \in Nat /\ DOMAIN d = 1..Len(d) /\ \A k \in 1..Len(d) : d[k] \in Int \X B
    BY ElementOfSeq
  <1> QED BY <1>1

(* Setting all members collects them. *)
LEMMA SetAllCollects ==
  ASSUME NEW B, NEW e \in Seq(Int \X B)
  PROVE  SetAll(e) \in Seq(Int \X B) /\ Collected(e, Len(e), SetAll(e))
  <1>0. Len(e) \in Nat
    BY DocumentIs
  <1>1. PICK map : /\ map[0] = <<>> /\ SetAll(e) = map[Len(e)]
                   /\ \A n \in 0..(Len(e) - 1) : map[n + 1] = Set(map[n], e[n + 1][1], e[n + 1][2])
    BY SetAllSteps
  <1> DEFINE S == {n \in Nat : n <= Len(e) => map[n] \in Seq(Int \X B) /\ Collected(e, n, map[n])}
  <1>2. 0 \in S
    <2>1. DOMAIN <<>> = {} /\ 1..0 = {} /\ <<>> \in Seq(Int \X B)
      OBVIOUS
    <2>2. Collected(e, 0, <<>>)
      BY <2>1, Zenon DEF Collected
    <2> QED BY <1>1, <2>1, <2>2
  <1>3. ASSUME NEW n \in Nat, n \in S PROVE n + 1 \in S
    <2> SUFFICES ASSUME n + 1 <= Len(e) PROVE map[n + 1] \in Seq(Int \X B) /\ Collected(e, n + 1, map[n + 1])
      OBVIOUS
    <2>1. n \in 0..(Len(e) - 1) /\ n <= Len(e)
      BY <1>0
    <2>2. map[n] \in Seq(Int \X B) /\ Collected(e, n, map[n])
      BY <1>3, <2>1
    <2>3. map[n + 1] = Set(map[n], e[n + 1][1], e[n + 1][2])
      BY <1>1, <2>1
    <2> QED BY <2>1, <2>2, <2>3, SetCollects, Zenon
  <1> HIDE DEF S
  <1>4. Nat \subseteq S
    BY <1>2, <1>3, Setting!ByNumber
  <1>5. map[Len(e)] \in Seq(Int \X B) /\ Collected(e, Len(e), map[Len(e)])
    BY <1>0, <1>4 DEF S
  <1> QED BY <1>1, <1>5

(* Setting members of different keys changes nothing.                       *)
LEMMA SetAllUnique ==
  ASSUME NEW B, NEW e \in Seq(Int \X B), Unique(e)
  PROVE  SetAll(e) = e
  <1>0. Len(e) \in Nat /\ DOMAIN e = 1..Len(e)
        /\ \A k \in 1..Len(e) : e[k] \in Int \X B /\ e[k] = <<e[k][1], e[k][2]>>
    BY DocumentIs
  <1>1. PICK map : /\ map[0] = <<>> /\ SetAll(e) = map[Len(e)]
                   /\ \A n \in 0..(Len(e) - 1) : map[n + 1] = Set(map[n], e[n + 1][1], e[n + 1][2])
    BY SetAllSteps
  <1> DEFINE Done(n) == map[n] \in Seq(Int \X B) /\ Len(map[n]) = n /\ \A k \in 1..n : map[n][k] = e[k]
             S == {n \in Nat : n <= Len(e) => Done(n)}
  <1>2. 0 \in S
    <2>1. <<>> \in Seq(Int \X B) /\ Len(<<>>) = 0 /\ 1..0 = {}
      OBVIOUS
    <2> QED BY <1>1, <2>1
  <1>3. ASSUME NEW n \in Nat, n \in S PROVE n + 1 \in S
    <2> SUFFICES ASSUME n + 1 <= Len(e) PROVE Done(n + 1)
      OBVIOUS
    <2> DEFINE m    == map[n]
               new  == map[n + 1]
               pair == e[n + 1]
               P    == Int \X B
    <2>1. n \in 0..(Len(e) - 1) /\ n <= Len(e) /\ n + 1 \in 1..Len(e) /\ \A k \in 1..n : k \in 1..Len(e) /\ k # n + 1
      BY <1>0
    <2>2. m \in Seq(P) /\ Len(m) = n /\ \A k \in 1..n : m[k] = e[k]
      BY <1>3, <2>1
    <2>3. pair \in P /\ pair = <<pair[1], pair[2]>>
      BY <1>0, <2>1
    <2>4. new = Set(m, pair[1], pair[2])
      BY <1>1, <2>1
    <2>5. pair[1] \notin Keys(m)
      <3> SUFFICES ASSUME NEW k \in DOMAIN m, m[k][1] = pair[1] PROVE FALSE
        BY Zenon DEF Keys
      <3>1. k \in 1..n
        BY <2>2
      <3>2. e[k][1] = e[n + 1][1]
        BY <2>2, <3>1
      <3> QED BY <1>0, <2>1, <3>1, <3>2 DEF Unique
    <2> HIDE DEF m, new, pair, P
    <2>6. new \in Seq(P) /\ Added(new, m, pair)
      BY <2>2, <2>3, <2>4, <2>5, SetIs, Zenon
    <2>7. Len(new) = n + 1 /\ new[n + 1] = pair /\ \A k \in 1..n : new[k] = e[k]
      BY <2>2, <2>6 DEF Added
    <2>8. \A k \in 1..(n + 1) : new[k] = e[k]
      BY <2>7 DEF pair
    <2> QED BY <2>6, <2>7, <2>8 DEF new, P
  <1> HIDE DEF S
  <1>4. Nat \subseteq S
    BY <1>2, <1>3, Setting!ByNumber
  <1> DEFINE all == map[Len(e)]
  <1>5. all \in Seq(Int \X B) /\ Len(all) = Len(e) /\ \A k \in 1..Len(e) : all[k] = e[k]
    BY <1>0, <1>4 DEF S
  <1> HIDE DEF all
  <1>6. all = e
    BY <1>5, SeqEqual
  <1> QED BY <1>1, <1>6 DEF all

(* The first and the last place of a key. *)
LEMMA FirstOfIs ==
  ASSUME NEW B, NEW e \in Seq(Int \X B), NEW key, NEW i, IsFirst(e, key, i)
  PROVE  FirstOf(e, key) = i
  <1> DEFINE S == {k \in DOMAIN e : e[k][1] = key}
  <1>1. i \in S /\ \A j \in S : i <= j
    BY DEF IsFirst
  <1>2. S \subseteq Int
    BY DocumentIs
  <1> HIDE DEF S
  <1>3. \A x \in S : (\A y \in S : x <= y) => x = i
    BY <1>1, <1>2
  <1>4. Min(S) = i
    BY <1>1, <1>3, Zenon DEF Min
  <1> QED BY <1>4 DEF FirstOf, S, Min

LEMMA LastOfIs ==
  ASSUME NEW B, NEW e \in Seq(Int \X B), NEW j \in DOMAIN e, \A i \in DOMAIN e : e[i][1] = e[j][1] => i <= j
  PROVE  LastOf(e, e[j][1]) = j
  <1> DEFINE S == {k \in DOMAIN e : e[k][1] = e[j][1]}
  <1>1. j \in S /\ \A i \in S : i <= j
    OBVIOUS
  <1>2. S \subseteq Int
    BY DocumentIs
  <1> HIDE DEF S
  <1>3. Max(S) = j
    BY <1>1, <1>2 DEF Max
  <1> QED BY <1>3 DEF LastOf, S, Max

(* What has been set: every key once, in the order of the document, with    *)
(* the value given last.                                                    *)
LEMMA SetAllIs ==
  ASSUME NEW B, NEW e \in Seq(Int \X B)
  PROVE  /\ SetAll(e) \in Seq(Int \X B) /\ OnceEach(SetAll(e), e) /\ InOrder(SetAll(e), e)
         /\ \A k \in DOMAIN SetAll(e) :
              LastOf(e, SetAll(e)[k][1]) \in DOMAIN e /\ SetAll(e)[k] = e[LastOf(e, SetAll(e)[k][1])]
  <1> DEFINE m == SetAll(e)
  <1>1. m \in Seq(Int \X B) /\ Collected(e, Len(e), m)
    BY SetAllCollects
  <1> HIDE DEF m
  <1>2. /\ DOMAIN e = 1..Len(e) /\ \A i \in DOMAIN e : i \in Int
        /\ \A k \in DOMAIN m : k \in Int
    BY <1>1, DocumentIs
  <1>3. /\ \A k \in DOMAIN m : \E i \in DOMAIN e : IsFirst(e, m[k][1], i)
        /\ \A k, l \in DOMAIN m : k < l =>
             \A i, j \in DOMAIN e : IsFirst(e, m[k][1], i) /\ IsFirst(e, m[l][1], j) => i < j
        /\ \A j \in DOMAIN e : \E k \in DOMAIN m : m[k][1] = e[j][1]
        /\ \A k \in DOMAIN m : \E j \in DOMAIN e :
             m[k] = e[j] /\ \A i \in DOMAIN e : e[i][1] = e[j][1] => i <= j
    BY <1>1, <1>2, Zenon DEF Collected
  <1>4. \A k, l \in DOMAIN m : k < l => FirstOf(e, m[k][1]) < FirstOf(e, m[l][1])
    <2> SUFFICES ASSUME NEW k \in DOMAIN m, NEW l \in DOMAIN m, k < l
                 PROVE  FirstOf(e, m[k][1]) < FirstOf(e, m[l][1])
      OBVIOUS
    <2>1. PICK i \in DOMAIN e : IsFirst(e, m[k][1], i)
      BY <1>3
    <2>2. PICK j \in DOMAIN e : IsFirst(e, m[l][1], j)
      BY <1>3
    <2>3. FirstOf(e, m[k][1]) = i /\ FirstOf(e, m[l][1]) = j
      BY <2>1, <2>2, FirstOfIs
    <2> QED BY <1>3, <2>1, <2>2, <2>3
  <1>5. Unique(m)
    <2> SUFFICES ASSUME NEW k \in DOMAIN m, NEW l \in DOMAIN m, m[k][1] = m[l][1], k # l PROVE FALSE
      BY DEF Unique
    <2>1. PICK i \in DOMAIN e : IsFirst(e, m[k][1], i)
      BY <1>3
    <2>2. k < l \/ l < k
      BY <1>2
    <2>3. i < i
      BY <1>3, <2>1, <2>2
    <2> QED BY <1>2, <2>3
  <1>6. Keys(m) = Keys(e)
    <2>1. ASSUME NEW k \in DOMAIN m PROVE m[k][1] \in Keys(e)
      <3>1. PICK i \in DOMAIN e : IsFirst(e, m[k][1], i)
        BY <1>3
      <3>2. e[i][1] = m[k][1]
        BY <3>1 DEF IsFirst
      <3>3. e[i][1] \in Keys(e)
        BY Zenon DEF Keys
      <3> QED BY <3>2, <3>3
    <2>2. ASSUME NEW j \in DOMAIN e PROVE e[j][1] \in Keys(m)
      <3>1. PICK k \in DOMAIN m : m[k][1] = e[j][1]
        BY <1>3
      <3>2. m[k][1] \in Keys(m)
        BY Zenon DEF Keys
      <3> QED BY <3>1, <3>2
    <2>3. Keys(m) \subseteq Keys(e)
      BY <2>1, Zenon DEF Keys
    <2>4. Keys(e) \subseteq Keys(m)
      BY <2>2, Zenon DEF Keys
    <2> QED BY <2>3, <2>4
  <1>7. OnceEach(m, e) /\ InOrder(m, e)
    BY <1>4, <1>5, <1>6 DEF InOrder, OnceEach
  <1>8. ASSUME NEW k \in DOMAIN m PROVE LastOf(e, m[k][1]) \in DOMAIN e /\ m[k] = e[LastOf(e, m[k][1])]
    <2>1. PICK j \in DOMAIN e : m[k] = e[j] /\ \A i \in DOMAIN e : e[i][1] = e[j][1] => i <= j
      BY <1>3
    <2>2. LastOf(e, e[j][1]) = j
      BY <2>1, LastOfIs, Zenon
    <2> QED BY <2>1, <2>2
  <1> QED BY <1>1, <1>7, <1>8 DEF m

(* A document with its members in the order of their keys.                  *)
LEMMA SortedIs ==
  ASSUME NEW B, NEW d \in Seq(Int \X B), Unique(d)
  PROVE  /\ Sorted(d) \in Seq(Int \X B) /\ DOMAIN Sorted(d) = DOMAIN d
         /\ \A i \in DOMAIN d : \E k \in DOMAIN d : Sorted(d)[i] = d[k]
         /\ \A k \in DOMAIN d : \E i \in DOMAIN d : Sorted(d)[i] = d[k]
         /\ \A i, j \in DOMAIN d : i < j => Sorted(d)[i][1] < Sorted(d)[j][1]
  <1> DEFINE N == Len(d)
             Upto(k) == {l \in DOMAIN d : d[l][1] <= d[k][1]}
             place == [k \in 1..N |-> Place(d, k)]
             At(i) == CHOOSE k \in DOMAIN d : Place(d, k) = i
             s == Sorted(d)
  <1>0. N \in Nat /\ DOMAIN d = 1..N /\ \A k \in 1..N : d[k] \in Int \X B /\ d[k][1] \in Int
    BY DocumentIs
  <1>1. IsFiniteSet(1..N) /\ Cardinality(1..N) = N
    BY <1>0, FS_Interval
  <1> HIDE DEF N
  <1>2. ASSUME NEW k \in 1..N
        PROVE  /\ Upto(k) \subseteq 1..N /\ IsFiniteSet(Upto(k)) /\ k \in Upto(k)
               /\ Place(d, k) = Cardinality(Upto(k)) /\ Place(d, k) \in 1..N
    <2>1. Upto(k) \subseteq 1..N /\ k \in Upto(k)
      BY <1>0
    <2>2. Place(d, k) = Cardinality(Upto(k))
      BY DEF Place
    <2> HIDE DEF Upto
    <2>3. IsFiniteSet(Upto(k)) /\ Cardinality(Upto(k)) <= N
      BY <1>1, <2>1, FS_Subset
    <2>4. Cardinality(Upto(k)) \in Nat /\ Cardinality(Upto(k)) # 0
      BY <2>1, <2>3, FS_CardinalityType, FS_EmptySet
    <2> QED BY <1>0, <2>1, <2>2, <2>3, <2>4
  <1>3. ASSUME NEW k \in 1..N, NEW l \in 1..N, d[k][1] < d[l][1] PROVE Place(d, k) < Place(d, l)
    <2>1. Upto(k) \subseteq Upto(l) /\ l \notin Upto(k)
      BY <1>0, <1>3
    <2>2. /\ IsFiniteSet(Upto(l)) /\ l \in Upto(l) /\ Place(d, k) = Cardinality(Upto(k))
          /\ Place(d, l) = Cardinality(Upto(l))
      BY <1>2
    <2> HIDE DEF Upto
    <2>3. Cardinality(Upto(k)) < Cardinality(Upto(l))
      BY <2>1, <2>2, FS_Subset, FS_CardinalityType
    <2> QED BY <2>2, <2>3
  <1>4. ASSUME NEW k \in 1..N, NEW l \in 1..N, Place(d, k) < Place(d, l) PROVE d[k][1] < d[l][1]
    <2> SUFFICES ASSUME ~(d[k][1] < d[l][1]) PROVE FALSE
      OBVIOUS
    <2>0. Place(d, k) \in 1..N /\ Place(d, l) \in 1..N
      BY <1>2
    <2>1. CASE d[k][1] = d[l][1]
      <3>1. k = l
        BY <1>0, <2>1 DEF Unique
      <3> QED BY <1>0, <1>4, <2>0, <3>1
    <2>2. CASE d[l][1] < d[k][1]
      BY <1>0, <1>3, <1>4, <2>0, <2>2
    <2> QED BY <1>0, <2>1, <2>2
  <1>5. \A i \in 1..N : \E k \in 1..N : Place(d, k) = i
    <2>1. place \in [1..N -> 1..N]
      BY <1>2
    <2>2. \A k, l \in 1..N : place[k] = place[l] => k = l
      <3> SUFFICES ASSUME NEW k \in 1..N, NEW l \in 1..N, Place(d, k) = Place(d, l) PROVE k = l
        OBVIOUS
      <3>0. Place(d, k) \in 1..N
        BY <1>2
      <3>1. Place(d, k) \in Int
        BY <1>0, <3>0
      <3>2. ~(d[k][1] < d[l][1]) /\ ~(d[l][1] < d[k][1])
        BY <1>3, <3>1
      <3>3. d[k][1] = d[l][1]
        BY <1>0, <3>2
      <3> QED BY <1>0, <3>3 DEF Unique
    <2> HIDE DEF place
    <2> DEFINE All == 1..N
    <2> HIDE DEF All
    <2>3. Setting!IsFiniteSet(All) /\ Setting!Cardinality(All) = N /\ place \in [1..N -> All]
      <3>1. IsFiniteSet(All) = Setting!IsFiniteSet(All) /\ Cardinality(All) = Setting!Cardinality(All)
        BY DEF IsFiniteSet, Setting!IsFiniteSet, Cardinality, Setting!Cardinality
      <3> QED BY <1>1, <2>1, <3>1 DEF All
    <2>4. \A f \in [1..Setting!Cardinality(All) -> All] :
            (\A k, l \in 1..Setting!Cardinality(All) : f[k] = f[l] => k = l) =>
              \A i \in All : \E k \in 1..Setting!Cardinality(All) : f[k] = i
      BY <2>3, Setting!FiniteIsCounted, Zenon
    <2>5. \A i \in All : \E k \in 1..N : place[k] = i
      BY <2>2, <2>3, <2>4, Zenon
    <2> QED BY <2>5 DEF place, All
  <1>6. \A i \in 1..N : At(i) \in 1..N /\ Place(d, At(i)) = i
    BY <1>0, <1>5
  <1>7. DOMAIN s = 1..N /\ \A i \in 1..N : s[i] = d[At(i)]
    BY <1>0, Zenon DEF Sorted
  <1>8. ASSUME NEW k \in 1..N PROVE At(Place(d, k)) = k
    <2>1. Place(d, k) \in 1..N
      BY <1>2
    <2>2. At(Place(d, k)) \in 1..N /\ Place(d, At(Place(d, k))) = Place(d, k)
      BY <1>6, <2>1
    <2> DEFINE l == At(Place(d, k))
    <2> HIDE DEF l
    <2>3. l \in 1..N /\ Place(d, l) = Place(d, k) /\ Place(d, k) \in Int
      BY <2>1, <2>2 DEF l
    <2>4. ~(d[k][1] < d[l][1]) /\ ~(d[l][1] < d[k][1])
      BY <1>3, <2>3
    <2>5. d[k][1] = d[l][1]
      BY <1>0, <2>3, <2>4
    <2>6. l = k
      BY <1>0, <2>3, <2>5 DEF Unique
    <2> QED BY <2>6 DEF l
  <1> HIDE DEF At, s
  <1>9. s \in Seq(Int \X B)
    <2> DEFINE P == Int \X B
    <2>1. \A i \in 1..N : s[i] \in P
      BY <1>0, <1>6, <1>7
    <2> HIDE DEF P
    <2>2. s = [i \in 1..N |-> d[At(i)]]
      BY <1>0, Zenon DEF s, Sorted, At
    <2>3. s \in [1..N -> P]
      <3>1. \A i \in 1..N : d[At(i)] \in P
        BY <1>7, <2>1
      <3> QED BY <2>2, <3>1, Zenon
    <2>4. s \in Seq(P)
      BY <1>0, <2>3, MappingIsSeq, Zenon
    <2> QED BY <2>4 DEF P
  <1>10. \A k \in 1..N : \E i \in 1..N : s[i] = d[k]
    BY <1>2, <1>7, <1>8
  <1>11. ASSUME NEW i \in 1..N, NEW j \in 1..N, i < j PROVE s[i][1] < s[j][1]
    BY <1>4, <1>6, <1>7, <1>11
  <1> QED BY <1>0, <1>6, <1>7, <1>9, <1>10, <1>11 DEF s
-----------------------------------------------------------------------------
(* Reading and writing values. *)

(* A number or a text is read once. *)
LEMMA NormalizeIs ==
  ASSUME NEW v, IsLeaf(v)
  PROVE  IsLeaf(Normalize(v)) /\ Normalize(Normalize(v)) = Normalize(v)
  <1>1. CASE v \in [number : Int]
    <2>1. v.number \in Int /\ "number" \in DOMAIN v
      BY <1>1
    <2> DEFINE once == NormalizeNumber(v.number)
    <2>2. Normalize(v) = once
      BY <2>1, Zenon DEF Normalize
    <2>3. NumberSurvives(v.number) /\ once \in [number : Int] \cup [text : Int]
      BY <2>1, AnyNumberSurvives, Zenon
    <2>4. "number" \in DOMAIN once => NormalizeNumber(once.number) = once
      BY <2>3, Zenon DEF NumberSurvives
    <2> HIDE DEF once
    <2>5. Normalize(once) = once
      BY <2>4, Zenon DEF Normalize
    <2> QED BY <2>2, <2>3, <2>5, Zenon DEF IsLeaf
  <1>2. CASE v \in {Null} \cup [text : Int]
    <2>1. "number" \notin DOMAIN v
      BY <1>2 DEF Null
    <2>2. Normalize(v) = v
      BY <2>1, Zenon DEF Normalize
    <2> QED BY <2>2
  <1> QED BY <1>1, <1>2 DEF IsLeaf

(* A function that leaves the elements alone leaves the list alone.         *)
LEMMA EachSame ==
  ASSUME NEW A, NEW l \in Seq(A), NEW f, \A k \in DOMAIN l : f[l[k]] = l[k]
  PROVE  Each(l, f) = l
  <1>1. Len(l) \in Nat /\ DOMAIN l = 1..Len(l) /\ l \in [1..Len(l) -> A]
    OBVIOUS
  <1>2. Each(l, f) = [k \in DOMAIN l |-> l[k]]
    BY Zenon DEF Each
  <1> QED BY <1>1, <1>2

LEMMA EachValueSame ==
  ASSUME NEW B, NEW d \in Seq(Int \X B), NEW f, \A k \in DOMAIN d : f[d[k][2]] = d[k][2]
  PROVE  EachValue(d, f) = d
  <1>1. Len(d) \in Nat /\ DOMAIN d = 1..Len(d) /\ \A k \in DOMAIN d : <<d[k][1], d[k][2]>> = d[k]
    BY DocumentIs
  <1>2. EachValue(d, f) = [k \in DOMAIN d |-> <<d[k][1], d[k][2]>>]
    BY Zenon DEF EachValue
  <1>3. EachValue(d, f) = [k \in DOMAIN d |-> d[k]]
    BY <1>1, <1>2, Zenon
  <1>4. d = [k \in DOMAIN d |-> d[k]]
    OBVIOUS
  <1> QED BY <1>3, <1>4

(* A document with the members of another, whatever their values.           *)
SameKeys(e, d) == DOMAIN e = DOMAIN d /\ \A k \in DOMAIN d : e[k][1] = d[k][1]

LEMMA KeysOfSame ==
  ASSUME NEW d, NEW e, SameKeys(e, d)
  PROVE  Keys(e) = Keys(d)
  <1>1. DOMAIN e = DOMAIN d /\ \A k \in DOMAIN d : e[k][1] = d[k][1]
    BY DEF SameKeys
  <1>2. Keys(e) \subseteq Keys(d)
    BY <1>1, Zenon DEF Keys
  <1>3. Keys(d) \subseteq Keys(e)
    BY <1>1, Zenon DEF Keys
  <1> QED BY <1>2, <1>3

(* Each key with what was given for it last. *)
Latest(m, e, d) == \A k \in DOMAIN m : LastOf(d, m[k][1]) \in DOMAIN d /\ m[k] = e[LastOf(d, m[k][1])]

LEMMA SetAllOver ==
  ASSUME NEW A, NEW B, NEW d \in Documents(A), NEW e \in Documents(B), SameKeys(e, d)
  PROVE  /\ SetAll(e) \in Documents(B) /\ OnceEach(SetAll(e), d) /\ InOrder(SetAll(e), d)
         /\ Latest(SetAll(e), e, d)
  <1> DEFINE m == SetAll(e)
  <1>1. /\ m \in Documents(B) /\ OnceEach(m, e) /\ InOrder(m, e)
        /\ \A k \in DOMAIN m : LastOf(e, m[k][1]) \in DOMAIN e /\ m[k] = e[LastOf(e, m[k][1])]
    BY SetAllIs, Zenon DEF Documents
  <1> HIDE DEF m
  <1>2. \A key : FirstOf(e, key) = FirstOf(d, key) /\ LastOf(e, key) = LastOf(d, key)
    <2> SUFFICES ASSUME NEW key PROVE FirstOf(e, key) = FirstOf(d, key) /\ LastOf(e, key) = LastOf(d, key)
      OBVIOUS
    <2>1. {k \in DOMAIN e : e[k][1] = key} = {k \in DOMAIN d : d[k][1] = key}
      BY DEF SameKeys
    <2> QED BY <2>1, Zenon DEF FirstOf, LastOf
  <1>3. Keys(e) = Keys(d)
    BY KeysOfSame
  <1>4. OnceEach(m, d) /\ InOrder(m, d)
    <2>1. OnceEach(m, d)
      BY <1>1, <1>3, Zenon DEF OnceEach
    <2>2. ASSUME NEW k \in DOMAIN m, NEW l \in DOMAIN m, k < l PROVE FirstOf(d, m[k][1]) < FirstOf(d, m[l][1])
      <3>1. FirstOf(e, m[k][1]) < FirstOf(e, m[l][1])
        BY <1>1, <2>2, Zenon DEF InOrder
      <3> QED BY <1>2, <3>1
    <2> QED BY <2>1, <2>2, Zenon DEF InOrder
  <1>5. \A k \in DOMAIN m : LastOf(d, m[k][1]) \in DOMAIN d /\ m[k] = e[LastOf(d, m[k][1])]
    <2> SUFFICES ASSUME NEW k \in DOMAIN m PROVE LastOf(d, m[k][1]) \in DOMAIN d /\ m[k] = e[LastOf(d, m[k][1])]
      OBVIOUS
    <2>1. LastOf(e, m[k][1]) \in DOMAIN e /\ m[k] = e[LastOf(e, m[k][1])]
      BY <1>1, Zenon
    <2>2. LastOf(e, m[k][1]) = LastOf(d, m[k][1]) /\ DOMAIN e = DOMAIN d
      BY <1>2 DEF SameKeys
    <2> HIDE DEF m
    <2> QED BY <2>1, <2>2, Zenon
  <1> QED BY <1>1, <1>4, <1>5, Zenon DEF m, Latest

(* What is promised of a value that is read: it keeps what it can, and what *)
(* it is written as keeps all but empty lists, and is read and written as   *)
(* it is.                                                                   *)
IsRead(n, v) ==
  LET once == DecodeValue[n][v]
      text == EncodeValue[n][once]
  IN
  /\ once \in JSON[n] /\ Keeps(n, once, v, {"order", "lists"})
  /\ text \in JSON[n] /\ Keeps(n, text, v, {"order"})
  /\ DecodeValue[n][text] = text /\ EncodeValue[n][text] = text

LEMMA LeafIsRead ==
  ASSUME NEW n \in Nat, NEW v \in JSON[n], IsLeaf(v)
  PROVE  IsRead(n, v)
  <1> DEFINE w == Normalize(v)
  <1>1. DecodeValue[n][v] = w
    BY OfLeaf
  <1>2. IsLeaf(w) /\ Normalize(w) = w
    BY NormalizeIs
  <1>3. w \in JSON[n]
    BY <1>2, InLevel
  <1>4. DecodeValue[n][w] = w /\ EncodeValue[n][w] = w
    BY <1>2, <1>3, OfLeaf
  <1>5. \A asked : Keeps(n, w, v, asked)
    BY <1>3, KeepsIs
  <1> QED BY <1>1, <1>3, <1>4, <1>5, Zenon DEF IsRead

LEMMA ListIsRead ==
  ASSUME NEW n \in Nat, n # 0, \A w \in JSON[n - 1] : IsRead(n - 1, w), NEW v \in JSON[n], IsList(v, n)
  PROVE  IsRead(n, v)
  <1> DEFINE A == JSON[n - 1]
             F == DecodeValue[n - 1]
             E == EncodeValue[n - 1]
             l == v.list
             r == Each(l, F)
             x == Each(r, E)
             once == List(r)
             text == List(x)
  <1>0. n - 1 \in Nat
    OBVIOUS
  <1>1. DecodeValue[n][v] = once /\ l \in Seq(A)
    BY OfList DEF IsList
  <1>2. \A y \in A : /\ F[y] \in A /\ Keeps(n - 1, F[y], y, {"order", "lists"})
                     /\ E[F[y]] \in A /\ Keeps(n - 1, E[F[y]], y, {"order"})
                     /\ F[E[F[y]]] = E[F[y]] /\ E[E[F[y]]] = E[F[y]]
    BY Zenon DEF IsRead
  <1> HIDE DEF A, F, E, l
  <1> DEFINE B == {F[y] : y \in A}
  <1>3. /\ r \in Seq(B) /\ DOMAIN r = DOMAIN l /\ Len(r) = Len(l)
        /\ \A k \in DOMAIN l : l[k] \in A /\ r[k] = F[l[k]]
    <2>1. Takes(F, A, B)
      BY DEF Takes
    <2>2. l \in Seq(A)
      BY <1>1
    <2> QED BY <2>1, <2>2, EachIs
  <1> HIDE DEF r
  <1>4. /\ x \in Seq(A) /\ DOMAIN x = DOMAIN l /\ Len(x) = Len(l)
        /\ \A k \in DOMAIN l : x[k] = E[F[l[k]]]
    <2>1. Takes(E, B, A)
      BY <1>2 DEF Takes
    <2>2. r \in Seq(B)
      BY <1>3
    <2>3. /\ x \in Seq(A) /\ DOMAIN x = DOMAIN r /\ Len(x) = Len(r)
          /\ \A k \in DOMAIN r : x[k] = E[r[k]]
      BY <2>1, <2>2, EachIs
    <2> QED BY <1>3, <2>3
  <1> HIDE DEF x
  <1>5. r \in Seq(A)
    <2>1. Len(r) \in Nat /\ DOMAIN r = 1..Len(r) /\ r \in [1..Len(r) -> B]
      BY <1>3
    <2>2. \A k \in 1..Len(r) : r[k] \in A
      BY <1>2, <1>3, <2>1
    <2> QED BY <2>1, <2>2, MappingIsSeq
  <1>6. /\ once \in JSON[n] /\ DOMAIN once = {"list"} /\ once.list = r
        /\ text \in JSON[n] /\ DOMAIN text = {"list"} /\ text.list = x
        /\ IsList(once, n) /\ IsList(text, n)
    <2>1. once \in JSON[n] /\ text \in JSON[n]
      BY <1>0, <1>4, <1>5, InLevel DEF A
    <2>2. /\ DOMAIN once = {"list"} /\ once.list = r
          /\ DOMAIN text = {"list"} /\ text.list = x
      BY DEF List
    <2> HIDE DEF once, text
    <2> QED BY <1>4, <1>5, <2>1, <2>2 DEF IsList, A, once, text
  <1> HIDE DEF once, text
  <1>7. Keeps(n, once, v, {"order", "lists"}) /\ Keeps(n, text, v, {"order"})
    <2>1. \A k \in DOMAIN once.list : Keeps(n - 1, once.list[k], l[k], {"order", "lists"})
      BY <1>2, <1>3, <1>6, Zenon
    <2>2. \A k \in DOMAIN text.list : Keeps(n - 1, text.list[k], l[k], {"order"})
      BY <1>2, <1>3, <1>4, <1>6, Zenon
    <2>3. Len(once.list) = Len(l) /\ Len(text.list) = Len(l)
      BY <1>3, <1>4, <1>6
    <2> QED BY <1>6, <2>1, <2>2, <2>3, KeepsIs, Zenon DEF l
  <1>8. CASE l = <<>>
    <2>1. r = <<>>
      BY <1>3, <1>8
    <2>2. EncodeValue[n][once] = Null
      BY <1>6, <2>1, OfList
    <2>3. IsLeaf(Null) /\ Normalize(Null) = Null
      BY Zenon DEF IsLeaf, Null, Normalize
    <2>4. Null \in JSON[n]
      BY <2>3, InLevel
    <2>5. DecodeValue[n][Null] = Null /\ EncodeValue[n][Null] = Null
      BY <2>3, <2>4, OfLeaf
    <2>6. Keeps(n, Null, v, {"order"})
      <3>1. "lists" \notin {"order"}
        OBVIOUS
      <3> QED BY <1>8, <2>4, <3>1, KeepsIs, Zenon DEF l
    <2> QED BY <1>1, <1>6, <1>7, <2>2, <2>4, <2>5, <2>6, Zenon DEF IsRead
  <1>9. CASE l # <<>>
    <2>1. r # <<>> /\ x # <<>>
      BY <1>1, <1>3, <1>4, <1>9
    <2>2. Each(x, F) = x /\ Each(x, E) = x
      <3>1. ASSUME NEW k \in DOMAIN x PROVE F[x[k]] = x[k] /\ E[x[k]] = x[k]
        <4>1. l[k] \in A /\ x[k] = E[F[l[k]]]
          BY <1>3, <1>4
        <4> QED BY <1>2, <4>1, Zenon
      <3> QED BY <1>4, <3>1, EachSame, Zenon
    <2>3. EncodeValue[n][once] = text
      BY <1>6, <2>1, OfList, Zenon DEF E, x, text
    <2>4. DecodeValue[n][text] = text
      <3>1. DecodeValue[n][text] = List(Each(text.list, F))
        BY <1>6, OfList DEF F
      <3> QED BY <1>6, <2>2, <3>1, Zenon DEF text
    <2>5. EncodeValue[n][text] = text
      <3>1. EncodeValue[n][text] = List(Each(text.list, E))
        BY <1>6, <2>1, OfList, Zenon DEF E
      <3> QED BY <1>6, <2>2, <3>1, Zenon DEF text
    <2> QED BY <1>1, <1>6, <1>7, <2>3, <2>4, <2>5, Zenon DEF IsRead
  <1> QED BY <1>8, <1>9

(* A document of other values has the keys of the first in their order.     *)
LEMMA SameOrder ==
  ASSUME NEW m, NEW x, NEW d, SameKeys(x, m), OnceEach(m, d), InOrder(m, d)
  PROVE  OnceEach(x, d) /\ InOrder(x, d)
  <1>1. Keys(x) = Keys(m)
    BY KeysOfSame
  <1>2. DOMAIN x = DOMAIN m /\ \A k \in DOMAIN m : x[k][1] = m[k][1]
    BY DEF SameKeys
  <1>3. Unique(x)
    BY <1>2, Zenon DEF Unique, OnceEach
  <1>4. ASSUME NEW k \in DOMAIN x, NEW l \in DOMAIN x, k < l PROVE FirstOf(d, x[k][1]) < FirstOf(d, x[l][1])
    <2>1. k \in DOMAIN m /\ l \in DOMAIN m /\ x[k][1] = m[k][1] /\ x[l][1] = m[l][1]
      BY <1>2, Zenon
    <2>2. FirstOf(d, m[k][1]) < FirstOf(d, m[l][1])
      BY <1>4, <2>1, Zenon DEF InOrder
    <2> QED BY <2>1, <2>2
  <1> QED BY <1>1, <1>3, <1>4, Zenon DEF OnceEach, InOrder

LEMMA ObjectIsRead ==
  ASSUME NEW n \in Nat, n # 0, \A w \in JSON[n - 1] : IsRead(n - 1, w), NEW v \in JSON[n], IsObject(v, n)
  PROVE  IsRead(n, v)
  <1> DEFINE A == JSON[n - 1]
             F == DecodeValue[n - 1]
             E == EncodeValue[n - 1]
             B == {F[y] : y \in A}
             d == v.object
             e == EachValue(d, F)
             m == SetAll(e)
             x == EachValue(m, E)
             once == Object(m)
             text == Object(x)
  <1>0. n - 1 \in Nat
    OBVIOUS
  <1>1. DecodeValue[n][v] = once /\ d \in Documents(A)
    BY OfObject DEF IsObject, Documents
  <1>2. \A y \in A : /\ F[y] \in A /\ Keeps(n - 1, F[y], y, {"order", "lists"})
                     /\ E[F[y]] \in A /\ Keeps(n - 1, E[F[y]], y, {"order"})
                     /\ F[E[F[y]]] = E[F[y]] /\ E[E[F[y]]] = E[F[y]]
    BY Zenon DEF IsRead
  <1> HIDE DEF A, F, E, d
  <1>3. /\ e \in Documents(B) /\ DOMAIN e = DOMAIN d
        /\ \A k \in DOMAIN d : e[k][1] = d[k][1] /\ e[k][2] = F[d[k][2]]
    <2>1. Takes(F, A, B)
      BY DEF Takes
    <2> QED BY <1>1, <2>1, EachValueIs
  <1> HIDE DEF e
  <1>4. m \in Documents(B) /\ OnceEach(m, d) /\ InOrder(m, d) /\ Latest(m, e, d)
    <2>1. SameKeys(e, d)
      BY <1>3 DEF SameKeys
    <2> QED BY <1>1, <1>3, <2>1, SetAllOver
  <1> HIDE DEF m
  <1>5. \A k \in DOMAIN m : LastOf(d, m[k][1]) \in DOMAIN d /\ m[k][2] = F[d[LastOf(d, m[k][1])][2]]
    <2> SUFFICES ASSUME NEW k \in DOMAIN m
                 PROVE  LastOf(d, m[k][1]) \in DOMAIN d /\ m[k][2] = F[d[LastOf(d, m[k][1])][2]]
      OBVIOUS
    <2>1. LastOf(d, m[k][1]) \in DOMAIN d /\ m[k] = e[LastOf(d, m[k][1])]
      BY <1>4, Zenon DEF Latest
    <2> QED BY <1>3, <2>1
  <1>6. \A k \in DOMAIN d : d[k][2] \in A
    BY <1>1, DocumentIs, Zenon DEF Documents
  <1>7. /\ x \in Documents(A) /\ DOMAIN x = DOMAIN m
        /\ \A k \in DOMAIN m : x[k][1] = m[k][1] /\ x[k][2] = E[m[k][2]]
    <2>1. Takes(E, B, A)
      BY <1>2 DEF Takes
    <2> QED BY <1>4, <2>1, EachValueIs
  <1> HIDE DEF x
  <1>8. m \in Documents(A)
    <2>1. SameKeys(m, m) /\ Takes([y \in B |-> y], B, A)
      BY <1>2 DEF SameKeys, Takes
    <2>2. EachValue(m, [y \in B |-> y]) \in Documents(A)
      BY <1>4, <2>1, EachValueIs
    <2>3. \A k \in DOMAIN m : m[k][2] \in B
      BY <1>4, DocumentIs DEF Documents
    <2> HIDE DEF B
    <2>4. \A k \in DOMAIN m : [y \in B |-> y][m[k][2]] = m[k][2]
      BY <2>3
    <2>5. EachValue(m, [y \in B |-> y]) = m
      BY <1>4, <2>4, EachValueSame DEF Documents
    <2> QED BY <2>2, <2>5
  <1>9. OnceEach(x, d) /\ InOrder(x, d)
    <2>1. SameKeys(x, m)
      BY <1>7 DEF SameKeys
    <2> QED BY <1>4, <2>1, SameOrder
  <1>10. /\ once \in JSON[n] /\ DOMAIN once = {"object"} /\ once.object = m
         /\ text \in JSON[n] /\ DOMAIN text = {"object"} /\ text.object = x
         /\ IsObject(once, n) /\ IsObject(text, n)
    <2>1. once \in JSON[n] /\ text \in JSON[n]
      BY <1>0, <1>7, <1>8, InLevel DEF A, Documents
    <2>2. /\ DOMAIN once = {"object"} /\ once.object = m
          /\ DOMAIN text = {"object"} /\ text.object = x
      BY DEF Object
    <2> HIDE DEF once, text
    <2> QED BY <1>7, <1>8, <2>1, <2>2 DEF IsObject, A, Documents, once, text
  <1> HIDE DEF once, text
  <1>11. \A k \in DOMAIN x : x[k][2] = E[F[d[LastOf(d, x[k][1])][2]]] /\ LastOf(d, x[k][1]) \in DOMAIN d
    BY <1>5, <1>7
  <1>12. Keeps(n, once, v, {"order", "lists"}) /\ Keeps(n, text, v, {"order"})
    <2>1. \A k \in DOMAIN once.object :
            Keeps(n - 1, once.object[k][2], d[LastOf(d, once.object[k][1])][2], {"order", "lists"})
      BY <1>2, <1>5, <1>6, <1>10, Zenon
    <2>2. \A k \in DOMAIN text.object : Keeps(n - 1, text.object[k][2], d[LastOf(d, text.object[k][1])][2], {"order"})
      BY <1>2, <1>6, <1>10, <1>11, Zenon
    <2>3. OnceEach(once.object, d) /\ InOrder(once.object, d) /\ OnceEach(text.object, d) /\ InOrder(text.object, d)
      BY <1>4, <1>9, <1>10
    <2> QED BY <1>10, <2>1, <2>2, <2>3, KeepsIs, Zenon DEF d
  <1>13. EncodeValue[n][once] = text
    <2>1. EncodeValue[n][once] = Object(EachValue(once.object, E))
      BY <1>10, OfObject DEF E
    <2> QED BY <1>10, <2>1, Zenon DEF x, text
  <1>14. EachValue(x, F) = x /\ EachValue(x, E) = x /\ SetAll(x) = x
    <2>1. ASSUME NEW k \in DOMAIN x PROVE F[x[k][2]] = x[k][2] /\ E[x[k][2]] = x[k][2]
      <3>1. PICK y \in A : x[k][2] = E[F[y]]
        BY <1>6, <1>11
      <3> QED BY <1>2, <3>1, Zenon
    <2>2. Unique(x)
      BY <1>9 DEF OnceEach
    <2> QED BY <1>7, <2>1, <2>2, EachValueSame, SetAllUnique, Zenon DEF Documents
  <1>15. DecodeValue[n][text] = text
    <2>1. DecodeValue[n][text] = Object(SetAll(EachValue(text.object, F)))
      BY <1>10, OfObject DEF F
    <2> QED BY <1>10, <1>14, <2>1, Zenon DEF text
  <1>16. EncodeValue[n][text] = text
    <2>1. EncodeValue[n][text] = Object(EachValue(text.object, E))
      BY <1>10, OfObject DEF E
    <2> QED BY <1>10, <1>14, <2>1, Zenon DEF text
  <1> QED BY <1>1, <1>10, <1>12, <1>13, <1>15, <1>16, Zenon DEF IsRead

(* A value that is read keeps what it can, and is read again as itself.     *)
LEMMA AnyIsRead == \A n \in Nat : \A v \in JSON[n] : IsRead(n, v)
  <1> DEFINE S == {n \in Nat : \A v \in JSON[n] : IsRead(n, v)}
  <1>1. 0 \in S
    <2> SUFFICES ASSUME NEW v \in JSON[0] PROVE IsRead(0, v)
      OBVIOUS
    <2>1. IsLeaf(v)
      BY ValueIs DEF IsList, IsObject
    <2> QED BY <2>1, LeafIsRead
  <1>2. ASSUME NEW n \in Nat, n \in S PROVE n + 1 \in S
    <2> DEFINE m == n + 1
    <2>1. m \in Nat /\ m # 0 /\ m - 1 = n
      OBVIOUS
    <2> HIDE DEF m
    <2>2. \A w \in JSON[m - 1] : IsRead(m - 1, w)
      BY <1>2, <2>1
    <2>3. \A v \in JSON[m] : IsRead(m, v)
      BY <2>1, <2>2, ValueIs, LeafIsRead, ListIsRead, ObjectIsRead, Zenon
    <2> QED BY <2>1, <2>3 DEF m
  <1> HIDE DEF S
  <1>3. Nat \subseteq S
    BY <1>1, <1>2, Nesting!ByNumber
  <1> QED BY <1>3 DEF S

(* The values that yaml reads. *)
Manifests(n) == {v \in JSON[n] : Readable[n][v]}

(* What is promised of a value that is read into any.                       *)
Reaches(n, v) ==
  /\ EncodeAny[n][v] \in JSON[n] /\ DecodeValue[n][EncodeAny[n][v]] \in JSON[n]
  /\ Keeps(n, DecodeValue[n][EncodeAny[n][v]], v, {"lists"})

LEMMA LeafReaches ==
  ASSUME NEW n \in Nat, NEW v \in JSON[n], IsLeaf(v)
  PROVE  Reaches(n, v)
  <1>1. EncodeAny[n][v] = v
    BY OfLeaf
  <1>2. DecodeValue[n][v] = Normalize(v)
    BY OfLeaf
  <1>3. DecodeValue[n][v] \in JSON[n]
    BY LeafIsRead DEF IsRead
  <1>4. Keeps(n, DecodeValue[n][v], v, {"lists"})
    BY <1>2, <1>3, KeepsIs
  <1> QED BY <1>1, <1>3, <1>4, Zenon DEF Reaches

LEMMA ListReaches ==
  ASSUME NEW n \in Nat, n # 0, \A w \in Manifests(n - 1) : Reaches(n - 1, w), NEW v \in Manifests(n), IsList(v, n)
  PROVE  Reaches(n, v)
  <1> DEFINE A == JSON[n - 1]
             R == Manifests(n - 1)
             E == EncodeAny[n - 1]
             F == DecodeValue[n - 1]
             l == v.list
             x == Each(l, E)
             r == Each(x, F)
  <1>0. n - 1 \in Nat /\ v \in JSON[n]
    BY DEF Manifests
  <1>1. EncodeAny[n][v] = List(x) /\ l \in Seq(A) /\ \A k \in DOMAIN l : Readable[n - 1][l[k]]
    <2>1. Readable[n][v]
      BY DEF Manifests
    <2> QED BY <1>0, <2>1, OfList DEF IsList
  <1>2. \A y \in R : E[y] \in A /\ F[E[y]] \in A /\ Keeps(n - 1, F[E[y]], y, {"lists"})
    BY Zenon DEF Reaches
  <1>3. \A y \in A : F[y] \in A
    BY <1>0, AnyIsRead, Zenon DEF IsRead
  <1>4. l \in Seq(R)
    <2>1. Len(l) \in Nat /\ l \in [1..Len(l) -> A] /\ DOMAIN l = 1..Len(l)
      BY <1>1
    <2>2. \A k \in 1..Len(l) : l[k] \in R
      BY <1>1, <2>1 DEF Manifests
    <2> HIDE DEF A, R, l
    <2>3. l \in [1..Len(l) -> R]
      BY <2>1, <2>2
    <2> QED BY <2>1, <2>3, MappingIsSeq, Zenon
  <1> HIDE DEF A, R, E, F, l
  <1>5. Takes(E, R, A) /\ Takes(F, A, A)
    BY <1>2, <1>3 DEF Takes
  <1>6. /\ x \in Seq(A) /\ DOMAIN x = DOMAIN l /\ Len(x) = Len(l)
        /\ \A k \in DOMAIN l : l[k] \in R /\ x[k] = E[l[k]]
    BY <1>4, <1>5, EachIs
  <1> HIDE DEF x
  <1>7. /\ r \in Seq(A) /\ DOMAIN r = DOMAIN x /\ Len(r) = Len(x)
        /\ \A k \in DOMAIN x : r[k] = F[x[k]]
    BY <1>5, <1>6, EachIs
  <1> HIDE DEF r
  <1>8. /\ List(x) \in JSON[n] /\ DOMAIN List(x) = {"list"} /\ List(x).list = x
        /\ List(r) \in JSON[n] /\ DOMAIN List(r) = {"list"} /\ List(r).list = r
    <2>1. List(x) \in JSON[n] /\ List(r) \in JSON[n]
      BY <1>0, <1>6, <1>7, InLevel DEF A
    <2> QED BY <2>1 DEF List
  <1>9. DecodeValue[n][List(x)] = List(r)
    <2>1. IsList(List(x), n)
      BY <1>6, <1>8 DEF IsList, A
    <2>2. DecodeValue[n][List(x)] = List(Each(List(x).list, F))
      BY <1>8, <2>1, OfList DEF F
    <2> QED BY <1>8, <2>2, Zenon DEF r
  <1> DEFINE w == List(r)
  <1>10. w \in JSON[n] /\ DOMAIN w = {"list"} /\ w.list = r
    BY <1>8
  <1> HIDE DEF w
  <1>11. Keeps(n, w, v, {"lists"})
    <2>1. \A k \in DOMAIN w.list : Keeps(n - 1, w.list[k], l[k], {"lists"})
      BY <1>2, <1>6, <1>7, <1>10, Zenon
    <2>2. Len(w.list) = Len(l)
      BY <1>6, <1>7, <1>10
    <2> QED BY <1>0, <1>10, <2>1, <2>2, KeepsIs, Zenon DEF l
  <1> QED BY <1>1, <1>8, <1>9, <1>10, <1>11, Zenon DEF Reaches, w

LEMMA ObjectReaches ==
  ASSUME NEW n \in Nat, n # 0, \A w \in Manifests(n - 1) : Reaches(n - 1, w), NEW v \in Manifests(n), IsObject(v, n)
  PROVE  Reaches(n, v)
  <1> DEFINE A == JSON[n - 1]
             R == Manifests(n - 1)
             E == EncodeAny[n - 1]
             F == DecodeValue[n - 1]
             d == v.object
             e == EachValue(d, E)
             x == Sorted(e)
             m == EachValue(x, F)
  <1>0. n - 1 \in Nat /\ v \in JSON[n]
    BY DEF Manifests
  <1>1. /\ EncodeAny[n][v] = Object(x) /\ d \in Seq(Int \X A) /\ Unique(d)
        /\ \A k \in DOMAIN d : Readable[n - 1][d[k][2]]
    <2>1. Readable[n][v]
      BY DEF Manifests
    <2> QED BY <1>0, <2>1, OfObject DEF IsObject
  <1>2. \A y \in R : E[y] \in A /\ F[E[y]] \in A /\ Keeps(n - 1, F[E[y]], y, {"lists"})
    BY Zenon DEF Reaches
  <1>3. \A y \in A : F[y] \in A
    BY <1>0, AnyIsRead, Zenon DEF IsRead
  <1>4. d \in Documents(R) /\ \A k \in DOMAIN d : d[k][2] \in R
    <2>1. /\ Len(d) \in Nat /\ DOMAIN d = 1..Len(d) /\ d \in [1..Len(d) -> Int \X A]
          /\ \A k \in DOMAIN d : d[k] = <<d[k][1], d[k][2]>> /\ d[k][1] \in Int /\ d[k][2] \in A
      BY <1>1, DocumentIs
    <2>2. \A k \in 1..Len(d) : d[k][2] \in R
      BY <1>1, <2>1 DEF Manifests
    <2> HIDE DEF A, R, d
    <2> DEFINE P == Int \X R
    <2>3. \A k \in 1..Len(d) : d[k] \in P
      BY <2>1, <2>2
    <2> HIDE DEF P
    <2>4. d \in [1..Len(d) -> P]
      BY <2>1, <2>3
    <2>5. d \in Seq(P)
      BY <2>1, <2>4, MappingIsSeq, Zenon
    <2> QED BY <2>1, <2>2, <2>5 DEF P, Documents
  <1> HIDE DEF A, R, E, F, d
  <1>5. Takes(E, R, A) /\ Takes(F, A, A)
    BY <1>2, <1>3 DEF Takes
  <1>6. /\ e \in Documents(A) /\ DOMAIN e = DOMAIN d
        /\ \A k \in DOMAIN d : e[k][1] = d[k][1] /\ e[k][2] = E[d[k][2]]
    BY <1>4, <1>5, EachValueIs
  <1> HIDE DEF e
  <1>7. Unique(e)
    BY <1>1, <1>6 DEF Unique
  <1>8. /\ x \in Documents(A) /\ DOMAIN x = DOMAIN e
        /\ \A i \in DOMAIN e : \E k \in DOMAIN e : x[i] = e[k]
        /\ \A k \in DOMAIN e : \E i \in DOMAIN e : x[i] = e[k]
        /\ \A i, j \in DOMAIN e : i < j => x[i][1] < x[j][1]
    BY <1>6, <1>7, SortedIs, Zenon DEF Documents
  <1> HIDE DEF x
  <1>9. /\ m \in Documents(A) /\ DOMAIN m = DOMAIN x
        /\ \A k \in DOMAIN x : m[k][1] = x[k][1] /\ m[k][2] = F[x[k][2]]
    BY <1>5, <1>8, EachValueIs
  <1> HIDE DEF m
  <1>10. \A i, j \in DOMAIN m : i < j => m[i][1] < m[j][1]
    BY <1>8, <1>9
  <1>11. Unique(m)
    <2> SUFFICES ASSUME NEW i \in DOMAIN m, NEW j \in DOMAIN m, m[i][1] = m[j][1], i # j PROVE FALSE
      BY DEF Unique
    <2>1. i \in Int /\ j \in Int /\ m[i][1] \in Int
      BY <1>9, DocumentIs DEF Documents
    <2>2. i < j \/ j < i
      BY <2>1
    <2>3. m[i][1] < m[j][1] \/ m[j][1] < m[i][1]
      BY <1>10, <2>2
    <2> QED BY <2>1, <2>3
  <1>12. SetAll(m) = m
    BY <1>9, <1>11, SetAllUnique, Zenon DEF Documents
  <1> DEFINE s == Object(x)
             w == Object(m)
  <1>13. /\ s \in JSON[n] /\ DOMAIN s = {"object"} /\ s.object = x
         /\ w \in JSON[n] /\ DOMAIN w = {"object"} /\ w.object = m
    <2>1. s \in JSON[n] /\ w \in JSON[n]
      BY <1>0, <1>8, <1>9, InLevel DEF A, Documents
    <2> QED BY <2>1 DEF Object
  <1>14. DecodeValue[n][s] = w
    <2>1. IsObject(s, n)
      BY <1>8, <1>13 DEF IsObject, A, Documents
    <2> HIDE DEF s
    <2>2. DecodeValue[n][s] = Object(SetAll(EachValue(s.object, F)))
      BY <1>13, <2>1, OfObject DEF F
    <2> QED BY <1>12, <1>13, <2>2, Zenon DEF m
  <1> HIDE DEF w, s
  <1>15. ASSUME NEW i \in DOMAIN m, NEW k \in DOMAIN d, x[i] = e[k]
         PROVE  m[i][1] = d[k][1] /\ m[i][2] = F[E[d[k][2]]]
    <2>1. i \in DOMAIN x
      BY <1>9
    <2>2. m[i][1] = x[i][1] /\ m[i][2] = F[x[i][2]]
      BY <1>9, <2>1, Zenon
    <2>3. e[k][1] = d[k][1] /\ e[k][2] = E[d[k][2]]
      BY <1>6, Zenon
    <2> QED BY <1>15, <2>2, <2>3, Zenon
  <1>16. Keys(m) = Keys(d)
    <2>1. ASSUME NEW i \in DOMAIN m PROVE m[i][1] \in Keys(d)
      <3>1. PICK k \in DOMAIN d : x[i] = e[k]
        BY <1>6, <1>8, <1>9
      <3>2. m[i][1] = d[k][1]
        BY <1>15, <2>1, <3>1, Zenon
      <3>3. d[k][1] \in Keys(d)
        BY Zenon DEF Keys
      <3> QED BY <3>2, <3>3
    <2>2. ASSUME NEW k \in DOMAIN d PROVE d[k][1] \in Keys(m)
      <3>1. PICK i \in DOMAIN m : x[i] = e[k]
        BY <1>6, <1>8, <1>9
      <3>2. m[i][1] = d[k][1]
        BY <1>15, <2>2, <3>1, Zenon
      <3>3. m[i][1] \in Keys(m)
        BY Zenon DEF Keys
      <3> QED BY <3>2, <3>3
    <2>3. Keys(m) \subseteq Keys(d)
      BY <2>1, Zenon DEF Keys
    <2>4. Keys(d) \subseteq Keys(m)
      BY <2>2, Zenon DEF Keys
    <2> QED BY <2>3, <2>4
  <1>17. OnceEach(m, d)
    BY <1>11, <1>16 DEF OnceEach
  <1>18. ASSUME NEW i \in DOMAIN m PROVE Keeps(n - 1, m[i][2], d[LastOf(d, m[i][1])][2], {"lists"})
    <2>1. PICK k \in DOMAIN d : x[i] = e[k]
      BY <1>6, <1>8, <1>9
    <2>2. m[i][1] = d[k][1] /\ m[i][2] = F[E[d[k][2]]]
      BY <1>15, <1>18, <2>1, Zenon
    <2>3. LastOf(d, d[k][1]) = k
      <3>1. \A j \in DOMAIN d : j \in Int
        BY <1>4, DocumentIs DEF Documents
      <3>2. \A j \in DOMAIN d : d[j][1] = d[k][1] => j <= k
        BY <1>1, <3>1 DEF Unique
      <3> QED BY <1>4, <3>2, LastOfIs, Zenon DEF Documents
    <2> QED BY <1>2, <1>4, <2>2, <2>3
  <1>19. Keeps(n, w, v, {"lists"})
    <2>1. \A k \in DOMAIN w.object : Keeps(n - 1, w.object[k][2], d[LastOf(d, w.object[k][1])][2], {"lists"})
      BY <1>13, <1>18, Zenon
    <2>2. OnceEach(w.object, d)
      BY <1>13, <1>17
    <2> QED BY <1>0, <1>13, <2>1, <2>2, KeepsIs, Zenon DEF d
  <1> QED BY <1>1, <1>13, <1>14, <1>19, Zenon DEF Reaches, s

(* A value of a manifest arrives whole, but for the order of its keys.       *)
LEMMA AnyReaches == \A n \in Nat : \A v \in Manifests(n) : Reaches(n, v)
  <1> DEFINE S == {n \in Nat : \A v \in Manifests(n) : Reaches(n, v)}
  <1>1. 0 \in S
    <2> SUFFICES ASSUME NEW v \in Manifests(0) PROVE Reaches(0, v)
      OBVIOUS
    <2>1. v \in JSON[0]
      BY DEF Manifests
    <2>2. IsLeaf(v)
      BY <2>1, ValueIs DEF IsList, IsObject
    <2> QED BY <2>1, <2>2, LeafReaches
  <1>2. ASSUME NEW n \in Nat, n \in S PROVE n + 1 \in S
    <2> DEFINE m == n + 1
    <2>1. m \in Nat /\ m # 0 /\ m - 1 = n
      OBVIOUS
    <2> HIDE DEF m
    <2>2. \A w \in Manifests(m - 1) : Reaches(m - 1, w)
      BY <1>2, <2>1
    <2>3. ASSUME NEW v \in Manifests(m) PROVE Reaches(m, v)
      <3>1. v \in JSON[m]
        BY DEF Manifests
      <3>2. IsLeaf(v) \/ IsList(v, m) \/ IsObject(v, m)
        BY <2>1, <3>1, ValueIs
      <3> QED BY <2>1, <2>2, <3>1, <3>2, LeafReaches, ListReaches, ObjectReaches, Zenon
    <2> QED BY <2>1, <2>3 DEF m
  <1> HIDE DEF S
  <1>3. Nat \subseteq S
    BY <1>1, <1>2, Nesting!ByNumber
  <1> QED BY <1>3 DEF S

-----------------------------------------------------------------------------
(* A document is an object, and has a level below it. *)
LEMMA DocumentHasLevels ==
  ASSUME NEW doc, IsDocument(doc)
  PROVE  /\ Levels \in Nat /\ Levels # 0 /\ Object(doc) \in JSON[Levels]
         /\ IsObject(Object(doc), Levels) /\ doc \in Documents(JSON[Levels - 1])
  <1> DEFINE v == Object(doc)
  <1>1. Levels \in Nat /\ v \in JSON[Levels]
    BY OrderedMapAssumption DEF IsDocument
  <1>2. DOMAIN v = {"object"} /\ v.object = doc
    BY DEF Object
  <1> HIDE DEF v
  <1>3. ~IsLeaf(v) /\ ~IsList(v, Levels)
    BY <1>2, LeafIs DEF IsList
  <1>4. IsObject(v, Levels)
    BY <1>1, <1>3, ValueIs, Zenon
  <1> QED BY <1>1, <1>2, <1>4, Zenon DEF IsObject, Documents, v

(* Reading a document. *)
LEMMA DecodeDocument ==
  ASSUME NEW doc, IsDocument(doc)
  PROVE  /\ Decode(doc) = SetAll(EachValue(doc, DecodeValue[Levels - 1]))
         /\ DecodeValue[Levels][Object(doc)] = Object(Decode(doc))
  <1> DEFINE v == Object(doc)
             m == SetAll(EachValue(doc, DecodeValue[Levels - 1]))
  <1>1. DecodeValue[Levels][v] = Object(SetAll(EachValue(v.object, DecodeValue[Levels - 1])))
    BY DocumentHasLevels, OfObject
  <1>2. v.object = doc
    BY DEF Object
  <1>3. DecodeValue[Levels][v] = Object(m)
    BY <1>1, <1>2, Zenon
  <1> HIDE DEF m
  <1>4. Object(m).object = m
    BY DEF Object
  <1>5. Decode(doc) = m
    BY <1>3, <1>4, Zenon DEF Decode
  <1> QED BY <1>3, <1>5, Zenon DEF m

LEMMA NoneUntyped ==
  ASSUME NEW n \in Nat, NEW v \in JSON[n]
  PROVE  "any" \notin DOMAIN v
  <1>1. CASE IsLeaf(v)
    BY <1>1 DEF IsLeaf, Null
  <1>2. CASE IsList(v, n)
    BY <1>2 DEF IsList
  <1>3. CASE IsObject(v, n)
    BY <1>3 DEF IsObject
  <1> QED BY <1>1, <1>2, <1>3, ValueIs, Zenon

(* How a Map of values that were read is written. *)
LEMMA EncodeDocument ==
  ASSUME NEW m, IsDocument(m)
  PROVE  EncodeValue[Levels][Object(m)] = Object(Encode(m))
  <1> DEFINE A == JSON[Levels - 1]
             E == EncodeValue[Levels - 1]
             w == Object(m)
  <1>0. Levels - 1 \in Nat /\ Levels \in Nat /\ w \in JSON[Levels] /\ IsObject(w, Levels) /\ m \in Documents(A)
    BY DocumentHasLevels
  <1>1. \A k \in DOMAIN m : m[k][2] \in A
    BY <1>0, DocumentIs DEF Documents
  <1>2. \A v \in A : "any" \notin DOMAIN v
    BY <1>0, NoneUntyped, Zenon
  <1>3. w.object = m
    BY DEF Object
  <1> HIDE DEF A, w
  <1>4. Encode(m) = EachValue(m, E)
    BY <1>1, <1>2, Zenon DEF Encode, EachValue
  <1>5. EncodeValue[Levels][w] = Object(EachValue(w.object, E))
    BY <1>0, OfObject
  <1> QED BY <1>3, <1>4, <1>5, Zenon DEF w

(* A Map keeps the order of the document it was read from. *)
LEMMA AnyKeepsOrder ==
  ASSUME NEW doc, IsDocument(doc)
  PROVE  KeepsOrder(doc)
  <1> DEFINE once == Decode(doc)
             text == Encode(once)
             first == Object(once)
             last  == Object(text)
  <1>0. \A d : Object(d).object = d
    BY DEF Object
  <1>1. IsRead(Levels, Object(doc)) /\ DecodeValue[Levels][Object(doc)] = first
    BY DocumentHasLevels, AnyIsRead, DecodeDocument, Zenon
  <1>2. first \in JSON[Levels] /\ Keeps(Levels, first, Object(doc), {"order", "lists"})
    BY <1>1, Zenon DEF IsRead
  <1>3. EncodeValue[Levels][first] = last
    <2>1. IsDocument(once)
      BY <1>2, Zenon DEF IsDocument
    <2> QED BY <2>1, EncodeDocument, Zenon
  <1>4. /\ last \in JSON[Levels] /\ Keeps(Levels, last, Object(doc), {"order"})
        /\ DecodeValue[Levels][last] = last /\ EncodeValue[Levels][last] = last
    BY <1>1, <1>3, Zenon DEF IsRead
  <1>5. IsDocument(text)
    BY <1>4, Zenon DEF IsDocument
  <1>6. EncodeValue[Levels][last] = Object(Encode(text))
    BY <1>5, EncodeDocument, Zenon
  <1>7. Encode(text) = text
    <2>1. Object(Encode(text)) = Object(text)
      BY <1>4, <1>6, Zenon
    <2> QED BY <1>0, <2>1
  <1>8. Decode(text) = text
    BY <1>0, <1>4, Zenon DEF Decode
  <1> HIDE DEF once, text
  <1> QED BY <1>2, <1>4, <1>7, <1>8, Zenon DEF KeepsOrder, once, text

(* A manifest arrives whole, and in its own order at its first level.       *)
LEMMA AnyKeepsManifest ==
  ASSUME NEW doc, IsDocument(doc)
  PROVE  KeepsManifest(doc)
  <1> DEFINE A == JSON[Levels - 1]
             B == {Untyped(v) : v \in A}
             U == [v \in A |-> Untyped(v)]
             E == EncodeAny[Levels - 1]
             F == DecodeValue[Levels - 1]
             u == EachValue(doc, U)
             s == SetAll(u)
             c == Encode(s)
             m == EachValue(c, F)
  <1>1. SUFFICES ASSUME \A k \in DOMAIN doc : Readable[Levels - 1][doc[k][2]]
                 PROVE  /\ OnceEach(Arrived(doc), doc) /\ InOrder(Arrived(doc), doc)
                        /\ \A k \in DOMAIN Arrived(doc) :
                             Keeps(Levels - 1, Arrived(doc)[k][2], doc[LastOf(doc, Arrived(doc)[k][1])][2], {"lists"})
    BY Zenon DEF KeepsManifest, IsManifest
  <1>2. /\ Levels - 1 \in Nat /\ Levels \in Nat /\ Levels # 0 /\ doc \in Documents(A)
        /\ \A k \in DOMAIN doc : doc[k][2] \in A
    BY DocumentHasLevels, DocumentIs DEF Documents
  <1>3. \A k \in DOMAIN doc : LET v == doc[k][2] IN E[v] \in A /\ F[E[v]] \in A /\ Keeps(Levels - 1, F[E[v]], v, {"lists"})
    <2>1. \A k \in DOMAIN doc : doc[k][2] \in Manifests(Levels - 1)
      BY <1>1, <1>2 DEF Manifests
    <2> QED BY <1>2, <2>1, AnyReaches, Zenon DEF Reaches
  <1>4. \A v \in A : F[v] \in A
    BY <1>2, AnyIsRead, Zenon DEF IsRead
  <1>5. DecodeManifest(doc) = s
    <2>1. \A k \in DOMAIN doc : U[doc[k][2]] = Untyped(doc[k][2])
      BY <1>2
    <2> HIDE DEF U
    <2>2. [k \in DOMAIN doc |-> <<doc[k][1], Untyped(doc[k][2])>>] = u
      BY <2>1, Zenon DEF EachValue
    <2> QED BY <2>2, Zenon DEF DecodeManifest
  <1>6. Takes(U, A, B) /\ (\A v \in A : U[v] = Untyped(v)) /\ Takes(F, A, A)
    BY <1>4 DEF Takes
  <1>7. \A v : "any" \in DOMAIN Untyped(v) /\ Untyped(v).any = v
    BY DEF Untyped
  <1> HIDE DEF A, B, U, E, F
  <1>8. /\ u \in Documents(B) /\ DOMAIN u = DOMAIN doc
        /\ \A k \in DOMAIN doc : u[k][1] = doc[k][1] /\ u[k][2] = Untyped(doc[k][2])
    <2>1. /\ u \in Documents(B) /\ DOMAIN u = DOMAIN doc
          /\ \A k \in DOMAIN doc : u[k][1] = doc[k][1] /\ u[k][2] = U[doc[k][2]]
      <3>1. doc \in Documents(A) /\ Takes(U, A, B)
        BY <1>2, <1>6
      <3> QED BY <3>1, EachValueIs
    <2> HIDE DEF u
    <2> QED BY <1>2, <1>6, <2>1
  <1> HIDE DEF u
  <1>9. s \in Documents(B) /\ OnceEach(s, doc) /\ InOrder(s, doc) /\ Latest(s, u, doc)
    <2>1. SameKeys(u, doc)
      BY <1>8 DEF SameKeys
    <2>2. doc \in Documents(A) /\ u \in Documents(B)
      BY <1>2, <1>8
    <2> QED BY <2>1, <2>2, SetAllOver
  <1>10. \A k \in DOMAIN s : s[k][1] \in Int
    BY <1>9, DocumentIs DEF Documents
  <1> HIDE DEF s
  <1> DEFINE At(k) == LastOf(doc, s[k][1])
  <1>11. \A k \in DOMAIN s : At(k) \in DOMAIN doc /\ s[k][2] = Untyped(doc[At(k)][2])
    BY <1>8, <1>9, Zenon DEF Latest
  <1>12. /\ c \in Documents(A) /\ DOMAIN c = DOMAIN s
         /\ \A k \in DOMAIN s : c[k][1] = s[k][1] /\ c[k][2] = E[doc[At(k)][2]]
    <2> HIDE DEF At
    <2>1. \A k \in DOMAIN s : IF "any" \in DOMAIN s[k][2] THEN EncodeAny[Levels - 1][s[k][2].any] = E[doc[At(k)][2]] ELSE FALSE
      BY <1>7, <1>11, Zenon DEF E
    <2>2. c = [k \in DOMAIN s |-> <<s[k][1], E[doc[At(k)][2]]>>]
      BY <2>1, Zenon DEF Encode
    <2> HIDE DEF c
    <2>3. DOMAIN c = DOMAIN s /\ \A k \in DOMAIN s : c[k] = <<s[k][1], E[doc[At(k)][2]]>>
      BY <2>2
    <2>4. \A k \in DOMAIN s : E[doc[At(k)][2]] \in A
      BY <1>3, <1>11
    <2> DEFINE P == Int \X A
    <2>5. \A k \in DOMAIN s : <<s[k][1], E[doc[At(k)][2]]>> \in P
      BY <1>10, <2>4
    <2> HIDE DEF P
    <2>6. Len(s) \in Nat /\ DOMAIN s = 1..Len(s)
      BY <1>9, DocumentIs DEF Documents
    <2>7. c \in [1..Len(s) -> P]
      BY <2>2, <2>5, <2>6, Zenon
    <2>8. c \in Seq(P)
      BY <2>6, <2>7, MappingIsSeq, Zenon
    <2>9. c \in Documents(A)
      BY <2>8 DEF Documents, P
    <2> QED BY <2>3, <2>9
  <1> HIDE DEF c, At
  <1>13. /\ m \in Documents(A) /\ DOMAIN m = DOMAIN c
         /\ \A k \in DOMAIN c : m[k][1] = c[k][1] /\ m[k][2] = F[c[k][2]]
    BY <1>6, <1>12, EachValueIs
  <1> HIDE DEF m
  <1>14. DOMAIN m = DOMAIN s /\ \A k \in DOMAIN s : m[k][1] = s[k][1] /\ m[k][2] = F[E[doc[At(k)][2]]]
    <2>1. DOMAIN m = DOMAIN s
      BY <1>12, <1>13
    <2>2. ASSUME NEW k \in DOMAIN s PROVE m[k][1] = s[k][1] /\ m[k][2] = F[E[doc[At(k)][2]]]
      <3>1. k \in DOMAIN c /\ c[k][1] = s[k][1] /\ c[k][2] = E[doc[At(k)][2]]
        BY <1>12
      <3>2. m[k][1] = c[k][1] /\ m[k][2] = F[c[k][2]]
        BY <1>13, <3>1
      <3> QED BY <3>1, <3>2, Zenon
    <2> QED BY <2>1, <2>2
  <1>15. Unique(m)
    BY <1>9, <1>14 DEF Unique, OnceEach
  <1>16. Decode(c) = m
    <2>1. IsDocument(c)
      BY <1>2, <1>12, InLevel, Zenon DEF IsDocument, Documents, A
    <2>2. Decode(c) = SetAll(m)
      BY <2>1, DecodeDocument, Zenon DEF m, F
    <2>3. SetAll(m) = m
      BY <1>13, <1>15, SetAllUnique, Zenon DEF Documents
    <2> QED BY <2>2, <2>3
  <1>17. OnceEach(m, doc) /\ InOrder(m, doc)
    <2>1. Keys(m) = Keys(s)
      <3>1. SameKeys(m, s)
        BY <1>14 DEF SameKeys
      <3> QED BY <3>1, KeysOfSame
    <2>2. Keys(s) = Keys(doc) /\ \A k, l \in DOMAIN s : k < l => FirstOf(doc, s[k][1]) < FirstOf(doc, s[l][1])
      BY <1>9 DEF InOrder, OnceEach
    <2>3. \A k, l \in DOMAIN m : k < l => FirstOf(doc, m[k][1]) < FirstOf(doc, m[l][1])
      BY <1>14, <2>2, Zenon
    <2> QED BY <1>15, <2>1, <2>2, <2>3 DEF InOrder, OnceEach
  <1>18. \A k \in DOMAIN m : Keeps(Levels - 1, m[k][2], doc[LastOf(doc, m[k][1])][2], {"lists"})
    <2> SUFFICES ASSUME NEW k \in DOMAIN m PROVE Keeps(Levels - 1, m[k][2], doc[LastOf(doc, m[k][1])][2], {"lists"})
      OBVIOUS
    <2>1. At(k) \in DOMAIN doc /\ At(k) = LastOf(doc, m[k][1]) /\ m[k][2] = F[E[doc[At(k)][2]]]
      BY <1>11, <1>14, Zenon DEF At
    <2> QED BY <1>3, <2>1, Zenon
  <1> QED BY <1>5, <1>16, <1>17, <1>18, Zenon DEF c, Arrived

-----------------------------------------------------------------------------
(* Paths.                                                                   *)

(* What Cross is at a value, given what it is at those inside it.           *)
CrossAt(cross, w, p) ==
  IF "struct" \in DOMAIN w THEN Ordered(CrossedMembers(w, cross))
  ELSE IF "map" \in DOMAIN w THEN Ordered([n \in DOMAIN w.map |-> cross[w.map[n]]])
  ELSE IF "to" \in DOMAIN w THEN cross[w.to]
  ELSE IF w = Lst(<<>>) THEN Nil
  ELSE w

Crossing == INSTANCE Induction WITH Def <- CrossAt

(* And how far a walk has come after some segments. *)
WalkAt(at, k, p) ==
  IF k = 0 THEN {p.from}
  ELSE IF p.path[k] = "" THEN {}
  ELSE UNION {Field(w, p.path[k]) : w \in at[k - 1]}

Walking == INSTANCE Induction WITH Def <- WalkAt

(* Four things a value may be. *)
IsAtom(v)    == v = Nil \/ DOMAIN v \in {{"num"}, {"txt"}, {"list"}}
IsPointer(v) == DOMAIN v = {"to"} /\ DOMAIN v.to # {"to"} /\ Holds(v, v.to)
IsMap(v)     == DOMAIN v = {"map"} /\ v = Map(v.map) /\ \A n \in DOMAIN v.map : Holds(v, v.map[n])
IsStruct(v)  ==
  /\ DOMAIN v = {"struct", "omit", "json", "inlined"}
  /\ v.omit \cup v.inlined \subseteq DOMAIN v.struct /\ DOMAIN v.json = DOMAIN v.struct
  /\ \A n \in DOMAIN v.struct : Holds(v, v.struct[n])

(* A value is one of them.                                                  *)
LEMMA FourKinds ==
  ASSUME NEW v \in Value
  PROVE  IsAtom(v) \/ IsPointer(v) \/ IsMap(v) \/ IsStruct(v)
  BY ValueAssumption DEF IsValue, IsAtom, IsPointer, IsMap, IsStruct

(* The fields of the record that an atom is. *)
LEMMA AtomIs ==
  ASSUME NEW v, IsAtom(v)
  PROVE  /\ "struct" \notin DOMAIN v /\ "map" \notin DOMAIN v /\ "to" \notin DOMAIN v /\ "ordered" \notin DOMAIN v
         /\ "omit" \notin DOMAIN v
  <1>1. DOMAIN Nil = {"nil"}
    BY DEF Nil
  <1> QED BY <1>1 DEF IsAtom

(* No value a handler has is an ordered map.                                *)
LEMMA NotArrived ==
  ASSUME NEW v \in Value
  PROVE  "ordered" \notin DOMAIN v
  BY FourKinds, AtomIs DEF IsPointer, IsMap, IsStruct

(* What is behind a value that is no pointer is the value. *)
LEMMA BehindIs ==
  ASSUME NEW v \in Value
  PROVE  /\ ~IsPointer(v) => Deref(v) = v
         /\ IsPointer(v) => Deref(v) = v.to /\ v.to \in Value /\ Depth[v.to] < Depth[v] /\ ~IsPointer(v.to)
  <1>1. CASE IsPointer(v)
    BY <1>1 DEF IsPointer, Deref, Holds
  <1>2. CASE ~IsPointer(v)
    <2>1. "to" \notin DOMAIN v
      BY <1>2, FourKinds, AtomIs DEF IsMap, IsStruct
    <2> QED BY <1>2, <2>1 DEF Deref
  <1> QED BY <1>1, <1>2

(* The members of a value are values, and less deep. *)
LEMMA MembersAre ==
  ASSUME NEW v \in Value
  PROVE  /\ \A n \in DOMAIN Members(v) : Members(v)[n] \in Value /\ Depth[Members(v)[n]] < Depth[v]
         /\ IsAtom(v) => DOMAIN Members(v) = {}
         /\ IsMap(v) => Members(v) = v.map
         /\ IsStruct(v) => Members(v) = v.struct
         /\ IsPointer(v) => Members(v) = Members(v.to)
  <1>0. DOMAIN NoMembers = {}
    BY DEF NoMembers
  <1>1. ASSUME NEW u \in Value, ~IsPointer(u)
        PROVE  /\ \A n \in DOMAIN Members(u) : Members(u)[n] \in Value /\ Depth[Members(u)[n]] < Depth[u]
               /\ IsAtom(u) => DOMAIN Members(u) = {}
               /\ IsMap(u) => Members(u) = u.map
               /\ IsStruct(u) => Members(u) = u.struct
    <2>1. Deref(u) = u
      BY <1>1, BehindIs
    <2>2. IsAtom(u) => Members(u) = NoMembers
      BY <2>1, AtomIs DEF Members
    <2>3. IsMap(u) => Members(u) = u.map
      BY <2>1 DEF Members, IsMap
    <2>4. IsStruct(u) => Members(u) = u.struct
      BY <2>1 DEF Members, IsStruct
    <2>5. \A n \in DOMAIN Members(u) : Members(u)[n] \in Value /\ Depth[Members(u)[n]] < Depth[u]
      <3>1. CASE IsAtom(u)
        BY <1>0, <2>2, <3>1
      <3>2. CASE IsMap(u)
        BY <2>3, <3>2 DEF IsMap, Holds
      <3>3. CASE IsStruct(u)
        BY <2>4, <3>3 DEF IsStruct, Holds
      <3> QED BY <1>1, <3>1, <3>2, <3>3, FourKinds
    <2> QED BY <1>0, <2>2, <2>3, <2>4, <2>5
  <1>2. CASE ~IsPointer(v)
    BY <1>1, <1>2
  <1>3. CASE IsPointer(v)
    <2>1. v.to \in Value /\ Depth[v.to] < Depth[v] /\ ~IsPointer(v.to) /\ Deref(v) = v.to
      BY <1>3, BehindIs
    <2>2. Deref(v.to) = v.to
      BY <2>1, BehindIs
    <2>3. Members(v) = Members(v.to)
      BY <2>1, <2>2 DEF Members
    <2>4. ~IsAtom(v) /\ ~IsMap(v) /\ ~IsStruct(v)
      BY <1>3, AtomIs DEF IsPointer, IsMap, IsStruct
    <2>5. \A n \in DOMAIN Members(v.to) : Members(v.to)[n] \in Value /\ Depth[Members(v.to)[n]] < Depth[v.to]
      BY <1>1, <2>1
    <2>6. Depth[v] \in Nat /\ Depth[v.to] \in Nat /\ \A w \in Value : Depth[w] \in Nat
      BY <2>1, ValueAssumption
    <2>7. ASSUME NEW n \in DOMAIN Members(v) PROVE Members(v)[n] \in Value /\ Depth[Members(v)[n]] < Depth[v]
      <3> DEFINE w == Members(v.to)[n]
      <3>1. w \in Value /\ Depth[w] < Depth[v.to]
        BY <2>3, <2>5
      <3> HIDE DEF w
      <3>2. Depth[w] < Depth[v]
        BY <2>1, <2>6, <3>1
      <3> QED BY <2>3, <3>1, <3>2 DEF w
    <2> QED BY <1>3, <2>3, <2>4, <2>7
  <1> QED BY <1>2, <1>3

(* What a struct is written as, from what its fields are. *)
LEMMA SameFieldsSameWriting ==
  ASSUME NEW u, IsStruct(u), NEW g, NEW h, \A n \in DOMAIN u.struct : g[u.struct[n]] = h[u.struct[n]]
  PROVE  CrossedMembers(u, g) = CrossedMembers(u, h)
  <1> DEFINE below(f) == IF u.inlined = {} THEN NoMembers ELSE Members(f[u.struct[CHOOSE n \in u.inlined : TRUE]])
             named(name) == \E n \in FieldsWritten(u) : u.json[n] = name
             of(name) == u.struct[CHOOSE n \in FieldsWritten(u) : u.json[n] = name]
             names(f) == {u.json[n] : n \in FieldsWritten(u)} \cup (DOMAIN below(f) \ {u.json[n] : n \in Own(u)})
  <1>1. below(g) = below(h)
    <2>1. CASE u.inlined # {}
      <3>1. (CHOOSE n \in u.inlined : TRUE) \in DOMAIN u.struct
        BY <2>1 DEF IsStruct
      <3>2. g[u.struct[CHOOSE n \in u.inlined : TRUE]] = h[u.struct[CHOOSE n \in u.inlined : TRUE]]
        BY <3>1
      <3> QED BY <3>2
    <2>2. CASE u.inlined = {}
      BY <2>2
    <2> QED BY <2>1, <2>2
  <1>2. ASSUME NEW name, named(name) PROVE g[of(name)] = h[of(name)]
    <2>1. (CHOOSE n \in FieldsWritten(u) : u.json[n] = name) \in FieldsWritten(u)
      BY <1>2
    <2>2. FieldsWritten(u) \subseteq DOMAIN u.struct
      BY DEF FieldsWritten, Own
    <2> QED BY <2>1, <2>2
  <1>3. ASSUME NEW f
        PROVE  CrossedMembers(u, f) = [name \in names(f) |-> IF named(name) THEN f[of(name)] ELSE below(f)[name]]
    BY Zenon DEF CrossedMembers
  <1>4. names(g) = names(h)
    <2> HIDE DEF below
    <2> QED BY <1>1
  <1> HIDE DEF below, named, of, names
  <1>5. [name \in names(g) |-> IF named(name) THEN g[of(name)] ELSE below(g)[name]] =
        [name \in names(h) |-> IF named(name) THEN h[of(name)] ELSE below(h)[name]]
    BY <1>1, <1>2, <1>4
  <1> QED BY <1>3, <1>5

(* What a struct whose fields have one name is written as. *)
Stays(u) == {m \in DOMAIN u.struct : m # "" /\ ~(m \in u.omit /\ Omitted(u.struct[m]))}

LEMMA PlainIsCrossed ==
  ASSUME NEW u, IsStruct(u), NamedAlike(u), NEW f
  PROVE  CrossedMembers(u, f) = [n \in Stays(u) |-> f[u.struct[n]]]
  <1> DEFINE S == FieldsWritten(u)
             below == NoMembers
             of(name) == u.struct[CHOOSE n \in S : u.json[n] = name]
  <1>1. u.inlined = {} /\ \A n \in DOMAIN u.struct : u.json[n] = n
    BY DEF IsStruct, NamedAlike
  <1>2. S = Stays(u) /\ \A n \in S : u.json[n] = n
    BY <1>1 DEF FieldsWritten, Own, Stays
  <1>3. CrossedMembers(u, f) = [name \in {u.json[n] : n \in S} \cup (DOMAIN below \ {u.json[n] : n \in Own(u)}) |->
                           IF \E n \in S : u.json[n] = name THEN f[of(name)] ELSE below[name]]
    BY <1>1, Zenon DEF CrossedMembers
  <1>4. {u.json[n] : n \in S} \cup (DOMAIN below \ {u.json[n] : n \in Own(u)}) = S
    <2>1. DOMAIN below = {}
      BY DEF NoMembers
    <2> HIDE DEF S, below
    <2> QED BY <1>2, <2>1
  <1> HIDE DEF S, below
  <1>5. ASSUME NEW name \in S PROVE (\E n \in S : u.json[n] = name) /\ of(name) = u.struct[name]
    <2>1. (CHOOSE n \in S : u.json[n] = name) = name
      BY <1>2
    <2> QED BY <1>2, <2>1
  <1> HIDE DEF of
  <1> QED BY <1>2, <1>3, <1>4, <1>5

(* Cross is the function that its recursive definition says. *)
LEMMA CrossDefined ==
  ASSUME NEW v \in Value
  PROVE  Cross(v) = CrossAt([x \in Value |-> Cross(x)], v, 0)
  <1>1. Crossing!NeedsSmaller(Value, Depth, 0)
    <2> SUFFICES ASSUME NEW x \in Value, NEW g, NEW h,
                        \A y \in Crossing!Smaller(Value, Depth, x) : g[y] = h[y]
                 PROVE  CrossAt(g, x, 0) = CrossAt(h, x, 0)
      BY DEF Crossing!NeedsSmaller
    <2>1. \A y \in Value : Depth[y] < Depth[x] => g[y] = h[y]
      BY DEF Crossing!Smaller
    <2>2. CASE IsAtom(x)
      BY <2>2, AtomIs DEF CrossAt
    <2>3. CASE IsPointer(x)
      <3>1. g[x.to] = h[x.to]
        BY <2>1, <2>3 DEF IsPointer, Holds
      <3> QED BY <2>3, <3>1 DEF CrossAt, IsPointer
    <2>4. CASE IsMap(x)
      <3>1. \A n \in DOMAIN x.map : g[x.map[n]] = h[x.map[n]]
        BY <2>1, <2>4 DEF IsMap, Holds
      <3>2. [n \in DOMAIN x.map |-> g[x.map[n]]] = [n \in DOMAIN x.map |-> h[x.map[n]]]
        BY <3>1
      <3> QED BY <2>4, <3>2 DEF CrossAt, IsMap
    <2>5. CASE IsStruct(x)
      <3>1. \A n \in DOMAIN x.struct : g[x.struct[n]] = h[x.struct[n]]
        BY <2>1, <2>5 DEF IsStruct, Holds
      <3>2. CrossedMembers(x, g) = CrossedMembers(x, h)
        BY <2>5, <3>1, SameFieldsSameWriting
      <3>3. \A f : CrossAt(f, x, 0) = Ordered(CrossedMembers(x, f))
        BY <2>5 DEF CrossAt, IsStruct
      <3> QED BY <3>2, <3>3
    <2> QED BY <2>2, <2>3, <2>4, <2>5, FourKinds
  <1>2. PICK f : f = [x \in Value |-> CrossAt(f, x, 0)]
    BY <1>1, ValueAssumption, Crossing!Defined
  <1> DEFINE cross == CHOOSE g : g = [x \in Value |-> CrossAt(g, x, 0)]
  <1>3. cross = [x \in Value |-> CrossAt(cross, x, 0)]
    BY <1>2
  <1>4. \A x \in Value : Cross(x) = cross[x]
    BY NotArrived DEF Cross, CrossAt
  <1>5. cross = [x \in Value |-> Cross(x)]
    <2> HIDE DEF cross
    <2> QED BY <1>3, <1>4
  <1>6. cross[v] = CrossAt(cross, v, 0)
    <2> HIDE DEF cross
    <2> QED BY <1>3
  <1> QED BY <1>4, <1>5, <1>6

(* The fields of values, and what follows a segment. *)
FieldsOf(A, name) == UNION {Field(w, name) : w \in A}

Follow(A, name) == IF name = "" THEN {} ELSE FieldsOf(A, name)

(* A path names what its walk ends at, segment by segment.                  *)
LEMMA WalkIs ==
  ASSUME NEW v, NEW path \in Seq(Segment)
  PROVE  /\ Resolve(v, path) = Walk(v, path)[Len(path)]
         /\ Walk(v, path)[0] = {v}
         /\ \A k \in 1..Len(path) : Walk(v, path)[k] = Follow(Walk(v, path)[k - 1], path[k])
  <1> DEFINE Counts == 0..Len(path)
             rank == [n \in Counts |-> n]
             p == [from |-> v, path |-> path]
             at == CHOOSE g : g = [k \in Counts |-> WalkAt(g, k, p)]
  <1>0. Len(path) \in Nat /\ p.from = v /\ p.path = path
    OBVIOUS
  <1>1. at = [k \in Counts |-> WalkAt(at, k, p)]
    <2> HIDE DEF p
    <2>1. rank \in [Counts -> Nat]
      BY <1>0
    <2>2. Walking!NeedsSmaller(Counts, rank, p)
      <3> SUFFICES ASSUME NEW n \in Counts, NEW g, NEW h,
                          \A m \in Walking!Smaller(Counts, rank, n) : g[m] = h[m]
                   PROVE  WalkAt(g, n, p) = WalkAt(h, n, p)
        BY DEF Walking!NeedsSmaller
      <3>1. n # 0 => n - 1 \in Counts /\ rank[n - 1] < rank[n]
        BY <1>0
      <3> QED BY <3>1 DEF WalkAt, Walking!Smaller
    <2>3. \E g : g = [n \in Counts |-> WalkAt(g, n, p)]
      <3> HIDE DEF rank, Counts
      <3> QED BY <2>1, <2>2, Walking!Defined
    <2> QED BY <2>3
  <1>2. \A k : Walk(v, path)[k] = at[k]
    BY DEF Walk, WalkAt
  <1>3. \A k \in Counts : at[k] = WalkAt(at, k, p)
    <2> HIDE DEF at, p
    <2> QED BY <1>1
  <1>4. at[0] = {v}
    <2>1. 0 \in Counts
      BY <1>0
    <2>2. WalkAt(at, 0, p) = {v}
      BY DEF WalkAt
    <2> HIDE DEF at, p, Counts
    <2> QED BY <1>3, <2>1, <2>2
  <1>5. ASSUME NEW k \in 1..Len(path)
        PROVE  at[k] = Follow(at[k - 1], path[k])
    <2>1. k \in Counts /\ k # 0
      BY <1>0
    <2>2. WalkAt(at, k, p) = Follow(at[k - 1], path[k])
      BY <2>1, Zenon DEF WalkAt, Follow, FieldsOf
    <2> HIDE DEF at, p, Counts
    <2> QED BY <1>3, <2>1, <2>2
  <1>6. Resolve(v, path) = Walk(v, path)[Len(path)]
    BY Zenon DEF Resolve
  <1> HIDE DEF at
  <1> QED BY <1>2, <1>4, <1>5, <1>6

-----------------------------------------------------------------------------
(* What Cross makes of each kind of value. *)
LEMMA CrossIs ==
  ASSUME NEW v \in Value
  PROVE  /\ IsAtom(v) => Cross(v) = IF v = Lst(<<>>) THEN Nil ELSE v
         /\ IsPointer(v) => Cross(v) = Cross(v.to)
         /\ IsMap(v) => Cross(v) = Ordered([n \in DOMAIN v.map |-> Cross(v.map[n])])
         /\ IsStruct(v) => \E g : Cross(v) = Ordered(g)
         /\ IsStruct(v) /\ NamedAlike(v) => Cross(v) = Ordered([n \in Stays(v) |-> Cross(v.struct[n])])
  <1> DEFINE cross == [x \in Value |-> Cross(x)]
  <1>0. \A x \in Value : cross[x] = Cross(x)
    OBVIOUS
  <1>1. Cross(v) = CrossAt(cross, v, 0)
    BY CrossDefined
  <1> HIDE DEF cross
  <1>2. IsAtom(v) => Cross(v) = IF v = Lst(<<>>) THEN Nil ELSE v
    BY <1>1, AtomIs DEF CrossAt
  <1>3. IsPointer(v) => Cross(v) = Cross(v.to)
    BY <1>0, <1>1 DEF CrossAt, IsPointer, Holds
  <1>4. ASSUME IsMap(v) PROVE Cross(v) = Ordered([n \in DOMAIN v.map |-> Cross(v.map[n])])
    <2>1. Cross(v) = Ordered([n \in DOMAIN v.map |-> cross[v.map[n]]])
      BY <1>1, <1>4 DEF CrossAt, IsMap
    <2>2. \A n \in DOMAIN v.map : cross[v.map[n]] = Cross(v.map[n])
      BY <1>0, <1>4 DEF IsMap, Holds
    <2>3. [n \in DOMAIN v.map |-> cross[v.map[n]]] = [n \in DOMAIN v.map |-> Cross(v.map[n])]
      BY <2>2
    <2> QED BY <2>1, <2>3
  <1>5. IsStruct(v) => Cross(v) = Ordered(CrossedMembers(v, cross))
    BY <1>1 DEF CrossAt, IsStruct
  <1>6. ASSUME IsStruct(v), NamedAlike(v) PROVE Cross(v) = Ordered([n \in Stays(v) |-> Cross(v.struct[n])])
    <2>1. Cross(v) = Ordered([n \in Stays(v) |-> cross[v.struct[n]]])
      BY <1>5, <1>6, PlainIsCrossed
    <2>2. \A n \in Stays(v) : cross[v.struct[n]] = Cross(v.struct[n])
      BY <1>0, <1>6 DEF IsStruct, Holds, Stays
    <2>3. [n \in Stays(v) |-> cross[v.struct[n]]] = [n \in Stays(v) |-> Cross(v.struct[n])]
      BY <2>2
    <2> QED BY <2>1, <2>3
  <1> QED BY <1>2, <1>3, <1>4, <1>5, <1>6, Zenon

(* What omitempty leaves out has no members, and is nothing unless it is a  *)
(* zero number.                                                             *)
LEMMA OmittedIs ==
  ASSUME NEW v \in Value, Omitted(v)
  PROVE  DOMAIN Members(v) = {} /\ (v # Num(0) => Nothing(v))
  <1>1. /\ DOMAIN Num(0) = {"num"} /\ DOMAIN Txt("") = {"txt"} /\ DOMAIN Lst(<<>>) = {"list"}
        /\ DOMAIN Map(NoMembers) = {"map"} /\ Map(NoMembers).map = NoMembers
    BY DEF Num, Txt, Lst, Map
  <1>2. CASE v = Map(NoMembers)
    <2>1. Deref(v) = v
      BY <1>1, <1>2 DEF Deref
    <2>2. Members(v) = NoMembers
      BY <1>1, <1>2, <2>1 DEF Members
    <2>3. DOMAIN Members(v) = {}
      BY <2>2 DEF NoMembers
    <2> QED BY <1>2, <2>1, <2>3 DEF Nothing
  <1>3. CASE v # Map(NoMembers)
    <2>1. IsAtom(v)
      BY <1>1, <1>3 DEF Omitted, IsAtom
    <2>2. Deref(v) = v
      BY <2>1, AtomIs DEF Deref
    <2>3. v # Num(0) => Nothing(v)
      BY <1>3, <2>2 DEF Nothing, Omitted
    <2> QED BY <2>1, <2>3, MembersAre
  <1> QED BY <1>2, <1>3

(* What has arrived of a field of a value: what the field is made, or       *)
(* nothing of one that is left out.                                         *)
Arrives(A, B) ==
  \/ A = {} /\ B = {}
  \/ \E w \in Value : A = {w} /\ (B = {Cross(w)} \/ (Omitted(w) /\ B = {}))

(* The members of what arrives of a map or struct. *)
LEMMA OrderedIs ==
  ASSUME NEW g
  PROVE  Members(Ordered(g)) = g /\ Deref(Ordered(g)) = Ordered(g)
  <1>1. DOMAIN Ordered(g) = {"ordered"} /\ Ordered(g).ordered = g
    BY DEF Ordered
  <1>2. Deref(Ordered(g)) = Ordered(g)
    BY <1>1 DEF Deref
  <1> HIDE DEF Ordered
  <1> QED BY <1>1, <1>2 DEF Members

(* A field of a value, and of what arrives of the value.                    *)
LEMMA FieldArrives ==
  ASSUME NEW v \in Value, NamedAlike(Deref(v)), NEW name, name # ""
  PROVE  /\ Arrives(Field(v, name), Field(Cross(v), name))
         /\ Num(0) \in Field(v, name) /\ Field(Cross(v), name) = {} => OmittedZero(v, name)
  <1> DEFINE Both(w) == /\ Arrives(Field(w, name), Field(Cross(w), name))
                        /\ Num(0) \in Field(w, name) /\ Field(Cross(w), name) = {} => OmittedZero(w, name)
  <1>1. ASSUME NEW u \in Value, ~IsPointer(u), NamedAlike(u)
        PROVE  Both(u)
    <2>1. CASE IsAtom(u)
      <3>1. Cross(u) \in {u, Nil} /\ IsAtom(Nil) /\ Nil \in Value
        BY <2>1, CrossIs, ValueAssumption DEF IsAtom
      <3>2. DOMAIN Members(u) = {} /\ DOMAIN Members(Cross(u)) = {}
        BY <2>1, <3>1, MembersAre
      <3> QED BY <3>2 DEF Field, Arrives
    <2>2. CASE IsMap(u)
      <3> DEFINE g == [n \in DOMAIN u.map |-> Cross(u.map[n])]
      <3>1. Cross(u) = Ordered(g) /\ Members(u) = u.map
        BY <2>2, CrossIs, MembersAre
      <3>2. Members(Cross(u)) = g
        BY <3>1, OrderedIs
      <3>3. CASE name \in DOMAIN u.map
        <4>1. Field(u, name) = {u.map[name]} /\ u.map[name] \in Value
          BY <3>1, <3>3, MembersAre DEF Field
        <4>2. Field(Cross(u), name) = {Cross(u.map[name])}
          BY <3>2, <3>3 DEF Field
        <4> QED BY <4>1, <4>2 DEF Arrives
      <3>4. CASE name \notin DOMAIN u.map
        BY <3>1, <3>2, <3>4 DEF Field, Arrives
      <3> QED BY <3>3, <3>4
    <2>3. CASE IsStruct(u)
      <3> DEFINE g == [n \in Stays(u) |-> Cross(u.struct[n])]
      <3>1. Cross(u) = Ordered(g) /\ Members(u) = u.struct
        BY <1>1, <2>3, CrossIs, MembersAre
      <3>2. Members(Cross(u)) = g
        BY <3>1, OrderedIs
      <3>3. CASE name \in DOMAIN u.struct
        <4>1. Field(u, name) = {u.struct[name]} /\ u.struct[name] \in Value
          BY <3>1, <3>3, MembersAre DEF Field
        <4>2. CASE name \in Stays(u)
          <5>1. Field(Cross(u), name) = {Cross(u.struct[name])}
            BY <3>2, <4>2 DEF Field
          <5> QED BY <4>1, <5>1 DEF Arrives
        <4>3. CASE name \notin Stays(u)
          <5>1. Field(Cross(u), name) = {}
            BY <3>2, <4>3 DEF Field
          <5>2. name \in u.omit /\ Omitted(u.struct[name])
            BY <3>3, <4>3 DEF Stays
          <5>3. Deref(u) = u /\ "omit" \in DOMAIN u
            BY <1>1, <2>3, BehindIs DEF IsStruct
          <5> QED BY <4>1, <5>1, <5>2, <5>3 DEF Arrives, OmittedZero
        <4> QED BY <4>2, <4>3
      <3>4. CASE name \notin DOMAIN u.struct
        BY <3>1, <3>2, <3>4 DEF Field, Arrives, Stays
      <3> QED BY <3>3, <3>4
    <2> QED BY <1>1, <2>1, <2>2, <2>3, FourKinds
  <1>2. CASE ~IsPointer(v)
    <2>1. Deref(v) = v
      BY <1>2, BehindIs
    <2> QED BY <1>1, <1>2, <2>1
  <1>3. CASE IsPointer(v)
    <2>1. v.to \in Value /\ ~IsPointer(v.to) /\ Deref(v) = v.to
      BY <1>3, BehindIs
    <2>2. Members(v) = Members(v.to) /\ Cross(v) = Cross(v.to) /\ Deref(v.to) = v.to
      BY <1>3, <2>1, MembersAre, CrossIs, BehindIs
    <2>3. Field(v, name) = Field(v.to, name)
      BY <2>2 DEF Field
    <2>4. OmittedZero(v.to, name) <=> OmittedZero(v, name)
      BY <2>1, <2>2, <2>3, Zenon DEF OmittedZero
    <2>5. Both(v.to)
      BY <1>1, <2>1
    <2> QED BY <2>2, <2>3, <2>4, <2>5
  <1> QED BY <1>2, <1>3

(* A path reaches the same on both sides, or what arrives of it.            *)
SameOrArrives(A, B) == A = B \/ Arrives(A, B)

(* So of a segment, from values that are the same or arrive. *)
LEMMA StepArrives ==
  ASSUME NEW A, NEW B, SameOrArrives(A, B), NEW name, \A u \in A : NamedAlike(Deref(u))
  PROVE  /\ SameOrArrives(Follow(A, name), Follow(B, name))
         /\ Num(0) \in Follow(A, name) /\ Follow(B, name) = {} => \E u \in A : OmittedZero(u, name)
  <1>0. \A w : FieldsOf({w}, name) = Field(w, name)
    BY DEF FieldsOf
  <1>1. CASE name = "" \/ A = B
    BY <1>1 DEF Follow, SameOrArrives
  <1>2. CASE A = {} /\ B = {}
    BY <1>2 DEF SameOrArrives
  <1>3. ASSUME NEW w \in Value, A = {w}, B = {Cross(w)}, name # ""
        PROVE  /\ Arrives(Follow(A, name), Follow(B, name))
               /\ Num(0) \in Follow(A, name) /\ Follow(B, name) = {} => \E u \in A : OmittedZero(u, name)
    <2>1. Follow(A, name) = Field(w, name) /\ Follow(B, name) = Field(Cross(w), name)
      BY <1>0, <1>3, Zenon DEF Follow
    <2>2. NamedAlike(Deref(w))
      BY <1>3
    <2> QED BY <1>3, <2>1, <2>2, FieldArrives
  <1>4. ASSUME NEW w \in Value, A = {w}, Omitted(w), B = {}, name # ""
        PROVE  Follow(A, name) = {} /\ Follow(B, name) = {}
    <2>1. DOMAIN Members(w) = {}
      BY <1>4, OmittedIs
    <2>2. Field(w, name) = {}
      BY <2>1 DEF Field
    <2>3. FieldsOf(A, name) = {} /\ FieldsOf(B, name) = {}
      BY <1>4, <2>2 DEF FieldsOf
    <2> QED BY <2>3 DEF Follow
  <1> QED BY <1>1, <1>2, <1>3, <1>4, Zenon DEF SameOrArrives, Arrives

(* The fields of an object. *)
LEMMA ObjectFields ==
  ASSUME NEW spec, NEW name
  PROVE  Field(ObjectOf(spec, Nil), name) =
           IF name = "spec" THEN {spec}
           ELSE IF name = "kind" THEN {Kind}
           ELSE IF name = "status" THEN {Nil}
           ELSE IF name = "metadata" THEN {Metadata} ELSE {}
  <1> DEFINE fields == [kind |-> Kind, spec |-> spec, status |-> Nil, metadata |-> Metadata]
  <1>1. "struct" \in DOMAIN ObjectOf(spec, Nil) /\ "to" \notin DOMAIN ObjectOf(spec, Nil)
        /\ ObjectOf(spec, Nil).struct = fields
    BY DEF ObjectOf, OneNamed, Struct
  <1>2. Members(ObjectOf(spec, Nil)) = fields
    BY <1>1 DEF Members, Deref
  <1>3. /\ DOMAIN fields = {"kind", "spec", "status", "metadata"}
        /\ fields["spec"] = spec /\ fields["kind"] = Kind /\ fields["status"] = Nil
        /\ fields["metadata"] = Metadata
    OBVIOUS
  <1> HIDE DEF fields
  <1> QED BY <1>2, <1>3 DEF Field

(* And so a path of any length; what is a zero number here and nothing      *)
(* there is one that was left out.                                          *)
LEMMA PathArrives ==
  ASSUME NEW v \in Value, NEW path \in Seq(Segment) \ {<<>>}, ~Misnamed(ObjectOf(v, Nil), path)
  PROVE  LET A == Resolve(ObjectOf(v, Nil), path)
             B == Resolve(ObjectOf(Cross(v), Nil), path)
         IN  SameOrArrives(A, B) /\ (Num(0) \in A /\ B = {} => EndsAtZero(ObjectOf(v, Nil), path))
  <1> DEFINE a == ObjectOf(v, Nil)
             b == ObjectOf(Cross(v), Nil)
             W == Walk(a, path)
             V == Walk(b, path)
             m == Len(path)
             Comes(k) == /\ SameOrArrives(W[k], V[k])
                         /\ Num(0) \in W[k] /\ V[k] = {} => \E u \in W[k - 1] : OmittedZero(u, path[k])
             Steps == {n \in Nat : n + 1 <= m => Comes(n + 1)}
  <1>0. m \in Nat /\ m >= 1 /\ path \in Seq(Segment)
    OBVIOUS
  <1>1. /\ SameOrArrives(Follow({a}, path[1]), Follow({b}, path[1]))
        /\ Follow({a}, path[1]) # {} => Follow({b}, path[1]) # {}
    <2>1. \A w : Follow({w}, path[1]) = IF path[1] = "" THEN {} ELSE Field(w, path[1])
      BY DEF Follow, FieldsOf
    <2>2. CASE path[1] = "spec"
      <3>1. Field(a, path[1]) = {v} /\ Field(b, path[1]) = {Cross(v)}
        BY <2>2, ObjectFields
      <3> QED BY <2>1, <2>2, <3>1 DEF SameOrArrives, Arrives
    <2>3. CASE path[1] # "spec"
      <3>1. Field(a, path[1]) = Field(b, path[1])
        BY <2>3, ObjectFields
      <3> QED BY <2>1, <3>1 DEF SameOrArrives
    <2> QED BY <2>2, <2>3
  <1>2. \A k \in 0..(m - 1) : \A u \in W[k] : NamedAlike(Deref(u))
    BY Zenon DEF Misnamed
  <1> HIDE DEF a, b
  <1>3. /\ Resolve(a, path) = W[m] /\ W[0] = {a}
        /\ Resolve(b, path) = V[m] /\ V[0] = {b}
    BY <1>0, WalkIs
  <1>4. \A k \in 1..m : W[k] = Follow(W[k - 1], path[k]) /\ V[k] = Follow(V[k - 1], path[k])
    BY <1>0, WalkIs
  <1>5. m - 1 \in Nat /\ (m - 1) + 1 = m
    BY <1>0
  <1>6. EndsAtZero(a, path) <=> \E u \in W[m - 1] : OmittedZero(u, path[m])
    BY Zenon DEF EndsAtZero
  <1> HIDE DEF W, V, m
  <1>7. 0 \in Steps
    <2>1. 1 \in 1..m /\ 1 - 1 = 0 /\ 0 + 1 = 1
      BY <1>0
    <2>2. W[1] = Follow({a}, path[1]) /\ V[1] = Follow({b}, path[1])
      <3>1. W[1] = Follow(W[1 - 1], path[1]) /\ V[1] = Follow(V[1 - 1], path[1])
        BY <1>4, <2>1
      <3> QED BY <1>3, <2>1, <3>1, Zenon
    <2>3. Comes(1)
      BY <1>1, <2>2
    <2> QED BY <2>1, <2>3
  <1>8. ASSUME NEW n \in Nat, n \in Steps PROVE n + 1 \in Steps
    <2> DEFINE k == n + 1
    <2>1. SUFFICES ASSUME k + 1 <= m PROVE Comes(k + 1)
      OBVIOUS
    <2>2. k \in Nat /\ k + 1 \in 1..m /\ (k + 1) - 1 = k /\ k <= m /\ k \in 0..(m - 1)
      BY <1>0, <2>1
    <2>3. SameOrArrives(W[k], V[k])
      BY <1>8, <2>2
    <2> HIDE DEF k, Steps
    <2>4. W[k + 1] = Follow(W[k], path[k + 1]) /\ V[k + 1] = Follow(V[k], path[k + 1])
      BY <1>4, <2>2
    <2>5. \A u \in W[k] : NamedAlike(Deref(u))
      BY <1>2, <2>2
    <2>6. /\ SameOrArrives(Follow(W[k], path[k + 1]), Follow(V[k], path[k + 1]))
          /\ Num(0) \in Follow(W[k], path[k + 1]) /\ Follow(V[k], path[k + 1]) = {} =>
               \E u \in W[k] : OmittedZero(u, path[k + 1])
      BY <2>3, <2>5, StepArrives
    <2> QED BY <2>2, <2>4, <2>6, Zenon
  <1>9. Comes(m)
    <2>1. Nat \subseteq Steps
      <3> HIDE DEF Steps
      <3> QED BY <1>7, <1>8, Walking!ByNumber
    <2>2. m - 1 \in Steps
      BY <1>5, <2>1
    <2>3. (m - 1) + 1 <= m => Comes((m - 1) + 1)
      BY <2>2
    <2>4. (m - 1) + 1 <= m
      BY <1>0
    <2> HIDE DEF Comes, Steps
    <2>5. Comes((m - 1) + 1)
      BY <2>3, <2>4
    <2> QED BY <1>5, <2>5, Zenon
  <1>10. SameOrArrives(W[m], V[m]) /\ (Num(0) \in W[m] /\ V[m] = {} => EndsAtZero(a, path))
    BY <1>6, <1>9
  <1> HIDE DEF Comes, Steps
  <1> QED BY <1>3, <1>10, Zenon DEF a, b

(* What crossed twice crossed once, and is nothing when it was.             *)
LEMMA CrossedIsSettled ==
  ASSUME NEW v \in Value, Deref(v) # Map(NoMembers)
  PROVE  Cross(Cross(v)) = Cross(v) /\ (Nothing(Cross(v)) <=> Nothing(v))
  <1>1. ASSUME NEW g PROVE Cross(Ordered(g)) = Ordered(g) /\ ~Nothing(Ordered(g))
    <2>1. DOMAIN Ordered(g) = {"ordered"}
      BY DEF Ordered
    <2>2. /\ DOMAIN Nil = {"nil"} /\ DOMAIN Txt("") = {"txt"} /\ DOMAIN Lst(<<>>) = {"list"}
          /\ DOMAIN Map(NoMembers) = {"map"}
      BY DEF Nil, Txt, Lst, Map
    <2>3. Ordered(g) \notin {Nil, Txt(""), Lst(<<>>), Map(NoMembers)}
      BY <2>1, <2>2
    <2>4. ~Nothing(Ordered(g))
      BY <2>3, OrderedIs DEF Nothing
    <2>5. Cross(Ordered(g)) = Ordered(g)
      BY <2>1, Zenon DEF Cross
    <2> QED BY <2>4, <2>5
  <1>2. ASSUME NEW u \in Value, ~IsPointer(u), u # Map(NoMembers)
        PROVE  Cross(Cross(u)) = Cross(u) /\ (Nothing(Cross(u)) <=> Nothing(u))
    <2>0. Deref(u) = u
      BY <1>2, BehindIs
    <2>1. CASE IsAtom(u)
      <3>1. /\ DOMAIN Nil = {"nil"} /\ DOMAIN Lst(<<>>) = {"list"} /\ Nil \in Value /\ IsAtom(Nil)
        BY ValueAssumption DEF Nil, Lst, IsAtom
      <3>2. Nil # Lst(<<>>) /\ Cross(Nil) = Nil
        <4>1. Nil # Lst(<<>>)
          BY <3>1
        <4> QED BY <3>1, <4>1, CrossIs
      <3>3. CASE u = Lst(<<>>)
        <4>1. Cross(u) = Nil
          BY <2>1, <3>3, CrossIs
        <4>2. Nothing(u) /\ Nothing(Nil)
          <5>1. Deref(Nil) = Nil
            BY <3>1 DEF Deref
          <5> QED BY <2>0, <3>3, <5>1 DEF Nothing
        <4> QED BY <3>2, <4>1, <4>2
      <3>4. CASE u # Lst(<<>>)
        <4>1. Cross(u) = u
          BY <2>1, <3>4, CrossIs
        <4> QED BY <4>1
      <3> QED BY <3>3, <3>4
    <2>2. CASE IsMap(u) \/ IsStruct(u)
      <3>1. PICK g : Cross(u) = Ordered(g)
        BY <2>2, CrossIs
      <3>2. ~Nothing(u)
        <4>1. "map" \in DOMAIN u \/ "struct" \in DOMAIN u
          BY <2>2 DEF IsMap, IsStruct
        <4>2. u \notin {Nil, Txt(""), Lst(<<>>)}
          <5>1. DOMAIN Nil = {"nil"} /\ DOMAIN Txt("") = {"txt"} /\ DOMAIN Lst(<<>>) = {"list"}
            BY DEF Nil, Txt, Lst
          <5>2. ASSUME NEW e, "map" \notin DOMAIN e, "struct" \notin DOMAIN e PROVE u # e
            BY <4>1, <5>2
          <5> QED BY <5>1, <5>2
        <4> QED BY <1>2, <2>0, <4>2 DEF Nothing
      <3> QED BY <1>1, <3>1, <3>2
    <2> QED BY <1>2, <2>1, <2>2, FourKinds
  <1>3. CASE ~IsPointer(v)
    <2>1. Deref(v) = v
      BY <1>3, BehindIs
    <2> QED BY <1>2, <1>3, <2>1
  <1>4. CASE IsPointer(v)
    <2>1. v.to \in Value /\ ~IsPointer(v.to) /\ Deref(v) = v.to
      BY <1>4, BehindIs
    <2>2. Cross(v) = Cross(v.to) /\ Deref(v.to) = v.to
      BY <1>4, <2>1, BehindIs, CrossIs
    <2>3. Nothing(v) <=> Nothing(v.to)
      BY <2>1, <2>2, Zenon DEF Nothing
    <2> QED BY <1>2, <2>1, <2>2, <2>3
  <1> QED BY <1>3, <1>4

(* The values that cross. *)
CrossedAll(S) == {Cross(w) : w \in S}

(* Sides that are the same or arrive both name something, or neither does, *)
(* and the same when they do.                                               *)
LEMMA SidesAgree ==
  ASSUME NEW A, NEW B, SameOrArrives(A, B),
         ~(Num(0) \in A /\ B = {}), \A w \in A : Deref(w) # Map(NoMembers)
  PROVE  /\ (\E w \in A : ~Nothing(w)) <=> (\E w \in B : ~Nothing(w))
         /\ (\E w \in A : ~Nothing(w)) => CrossedAll(B) = CrossedAll(A)
  <1>1. CASE A = B \/ (A = {} /\ B = {})
    BY <1>1
  <1>2. ASSUME NEW w \in Value, A = {w}, B = {Cross(w)}
        PROVE  /\ (\E x \in A : ~Nothing(x)) <=> (\E x \in B : ~Nothing(x))
               /\ CrossedAll(B) = CrossedAll(A)
    <2>1. CrossedAll(A) = {Cross(w)} /\ CrossedAll(B) = {Cross(Cross(w))}
      BY <1>2 DEF CrossedAll
    <2> QED BY <1>2, <2>1, CrossedIsSettled
  <1>3. ASSUME NEW w \in Value, A = {w}, Omitted(w), B = {}
        PROVE  ~(\E x \in A : ~Nothing(x)) /\ ~(\E x \in B : ~Nothing(x))
    BY <1>3, OmittedIs
  <1> QED BY <1>1, <1>2, <1>3, Zenon DEF SameOrArrives, Arrives

(* A path works the same against what a handler returns and what arrives.   *)
LEMMA BothSidesAgree ==
  ASSUME NEW v \in Value, NEW paths \in Seq(Seq(Segment) \ {<<>>})
  PROVE  SameOnBothSides(v, paths)
  <1> DEFINE o == ObjectOf(v, Nil)
             A(k) == Resolve(o, paths[k])
             B(k) == Resolve(ObjectOf(Cross(v), Nil), paths[k])
             foundA == {k \in DOMAIN paths : \E w \in A(k) : ~Nothing(w)}
             foundB == {k \in DOMAIN paths : \E w \in B(k) : ~Nothing(w)}
             First(S) == CHOOSE k \in S : \A l \in S : k <= l
  <1>1. SUFFICES ASSUME \A k \in DOMAIN paths : ~Pitfall(o, paths[k])
                 PROVE  CrossedAll(Lookup(ObjectOf(Cross(v), Nil), paths)) = CrossedAll(Lookup(o, paths))
    BY DEF SameOnBothSides, CrossedAll
  <1>2. ASSUME NEW k \in DOMAIN paths
        PROVE  /\ SameOrArrives(A(k), B(k)) /\ ~(Num(0) \in A(k) /\ B(k) = {})
               /\ \A w \in A(k) : Deref(w) # Map(NoMembers)
    <2>1. paths[k] \in Seq(Segment) \ {<<>>}
      BY ElementOfSeq
    <2>2. ~Misnamed(o, paths[k]) /\ ~EndsAtZero(o, paths[k]) /\ ~EndsAtEmptyMap(o, paths[k])
      <3> HIDE DEF o
      <3> QED BY <1>1, <1>2 DEF Pitfall
    <2>3. \A w \in A(k) : Deref(w) # Map(NoMembers)
      BY <2>2, Zenon DEF EndsAtEmptyMap
    <2> QED BY <2>1, <2>2, <2>3, PathArrives
  <1>3. /\ Lookup(o, paths) = IF foundA = {} THEN {} ELSE A(First(foundA))
        /\ Lookup(ObjectOf(Cross(v), Nil), paths) = IF foundB = {} THEN {} ELSE B(First(foundB))
    BY Zenon DEF Lookup
  <1> HIDE DEF A, B, o
  <1>4. foundA = foundB
    BY <1>2, SidesAgree
  <1>5. foundA # {} => First(foundA) \in foundA
    <2>1. foundA \in SUBSET Nat
      OBVIOUS
    <2> HIDE DEF foundA
    <2> QED BY <2>1, Walking!LeastNumber
  <1>6. CASE foundA = {}
    BY <1>3, <1>4, <1>6, Zenon
  <1>7. CASE foundA # {}
    <2> DEFINE k == First(foundA)
    <2>1. k \in DOMAIN paths /\ \E w \in A(k) : ~Nothing(w)
      BY <1>5, <1>7, Zenon
    <2>2. Lookup(o, paths) = A(k) /\ Lookup(ObjectOf(Cross(v), Nil), paths) = B(k)
      BY <1>3, <1>4, <1>7, Zenon
    <2> HIDE DEF k
    <2>3. CrossedAll(B(k)) = CrossedAll(A(k))
      BY <1>2, <2>1, SidesAgree, Zenon
    <2> QED BY <2>2, <2>3, Zenon
  <1> QED BY <1>6, <1>7

-----------------------------------------------------------------------------
(* Types.                                                                   *)

(* What a level of types is made of, given the one below. *)
GoTypeAt(types, n, p) ==
  [type : {"number", "text", "any", "opaque", "none"}, pointers : Nat] \cup
    IF n = 0 THEN {}
    ELSE [type : {"map", "list"}, of : types[n - 1], pointers : Nat] \cup
         [type : {"struct"}, fields : Seq(FieldsOver(types[n - 1])), pointers : Nat]

Typing == INSTANCE Induction WITH Def <- GoTypeAt

LEMMA GoTypeIs == \A n \in Nat : GoType[n] = GoTypeAt(GoType, n, 0)
  <1>1. Typing!NeedsSmaller(Nat, Counted, 0)
    <2> SUFFICES ASSUME NEW n \in Nat, NEW g, NEW h, \A m \in Typing!Smaller(Nat, Counted, n) : g[m] = h[m]
                 PROVE  GoTypeAt(g, n, 0) = GoTypeAt(h, n, 0)
      BY DEF Typing!NeedsSmaller
    <2>1. n # 0 => n - 1 \in Typing!Smaller(Nat, Counted, n)
      BY DEF Typing!Smaller, Counted
    <2>2. n # 0 => g[n - 1] = h[n - 1]
      BY <2>1
    <2> QED BY <2>2, Zenon DEF GoTypeAt
  <1>2. \E f : f = [n \in Nat |-> GoTypeAt(f, n, 0)]
    BY <1>1, LevelsAreRanks, Typing!Defined
  <1>3. GoType = [n \in Nat |-> GoTypeAt(GoType, n, 0)]
    BY <1>2, Zenon DEF GoType, GoTypeAt
  <1> QED BY <1>3, Zenon

(* What a type is.                                                          *)
LEMMA TypeIs ==
  ASSUME NEW n \in Nat, NEW t \in GoType[n]
  PROVE  /\ {"type", "pointers"} \subseteq DOMAIN t /\ t.pointers \in Nat
         /\ t.type = "struct" =>
              n # 0 /\ n - 1 \in Nat /\ "fields" \in DOMAIN t /\ t.fields \in Seq(FieldsOver(GoType[n - 1]))
  <1> DEFINE below  == GoType[n - 1]
             fields == Seq(FieldsOver(below))
  <1>1. \/ t \in [type : {"number", "text", "any", "opaque", "none"}, pointers : Nat]
        \/ n # 0 /\ t \in [type : {"map", "list"}, of : below, pointers : Nat]
        \/ n # 0 /\ t \in [type : {"struct"}, fields : fields, pointers : Nat]
    BY GoTypeIs, Zenon DEF GoTypeAt
  <1> HIDE DEF below, fields
  <1>2. /\ {"type", "pointers"} \subseteq DOMAIN t /\ t.pointers \in Nat
        /\ t.type = "struct" => n # 0 /\ "fields" \in DOMAIN t /\ t.fields \in fields
    BY <1>1
  <1> QED BY <1>2 DEF fields, below

(* What a field is, and what is made of its yaml tag when that spells a name. *)
Spelled(f) == f.yaml.name # ""

LEMMA FieldIs ==
  ASSUME NEW A, NEW f \in FieldsOver(A)
  PROVE  /\ f.type \in A /\ PathName(f) \in Segment
         /\ Spelled(f) => DocName(f) = f.yaml.name /\ PathName(f) = f.yaml.name /\ f.yaml.name \in Segment
  <1>1. f.type \in A /\ f.go \in Segment /\ f.yaml \in Tags
    BY DEF FieldsOver
  <1>2. f.yaml = NoTag \/ f.yaml \in [name : Segment, written : {TRUE}]
    BY <1>1, Zenon DEF Tags
  <1>3. f.yaml = NoTag => ~Spelled(f)
    <2>1. NoTag.name = ""
      BY Zenon DEF NoTag
    <2> QED BY <2>1, Zenon DEF Spelled
  <1>4. Spelled(f) => f.yaml.name \in Segment /\ f.yaml.written
    BY <1>2, <1>3
  <1>5. Spelled(f) => DocName(f) = f.yaml.name /\ PathName(f) = f.yaml.name
    BY <1>4, Zenon DEF Spelled, DocName, PathName
  <1>6. ~Spelled(f) => PathName(f) = f.go
    BY Zenon DEF Spelled, PathName
  <1> QED BY <1>1, <1>4, <1>5, <1>6

(* The fields of a type are among its structs' fields. *)
LEMMA FieldTypeIs ==
  ASSUME NEW n \in Nat, NEW t \in GoType[n], NEW name, NEW u \in FieldType(t, name)
  PROVE  /\ t.type = "struct" /\ n # 0 /\ n - 1 \in Nat /\ u \in GoType[n - 1]
         /\ \E k \in DOMAIN t.fields : t.fields[k].exported /\ PathName(t.fields[k]) = name /\ u = t.fields[k].type
  <1>1. PICK k \in FieldsNamed(t, name) : u = t.fields[k].type
    BY DEF FieldType
  <1>2. t.type = "struct" /\ k \in DOMAIN t.fields /\ t.fields[k].exported /\ PathName(t.fields[k]) = name
    BY <1>1 DEF FieldsNamed
  <1>3. n # 0 /\ n - 1 \in Nat /\ t.fields \in Seq(FieldsOver(GoType[n - 1]))
    BY <1>2, TypeIs
  <1>4. t.fields[k] \in FieldsOver(GoType[n - 1])
    BY <1>2, <1>3, ElementOfSeq
  <1>5. u \in GoType[n - 1]
    BY <1>1, <1>4, FieldIs
  <1> QED BY <1>1, <1>2, <1>3, <1>5

LEMMA FieldTypeAlone ==
  ASSUME NEW t, NEW name, NEW k \in Int, FieldsNamed(t, name) = {k}
  PROVE  FieldType(t, name) = {t.fields[k].type}
  <1>1. {l \in FieldsNamed(t, name) : \A m \in FieldsNamed(t, name) : l <= m} = {k}
    OBVIOUS
  <1> QED BY <1>1, Zenon DEF FieldType

(* Types that differ in their pointers have the same fields. *)
LEMMA SameFields ==
  ASSUME NEW t, NEW d, d.type = t.type, t.type = "struct" => d.fields = t.fields, NEW name
  PROVE  FieldType(d, name) = FieldType(t, name)
  <1>1. CASE t.type = "struct"
    <2>1. FieldsNamed(d, name) = FieldsNamed(t, name)
      BY <1>1, Zenon DEF FieldsNamed
    <2> QED BY <1>1, <2>1, Zenon DEF FieldType
  <1>2. CASE t.type # "struct"
    <2>1. FieldsNamed(d, name) = {} /\ FieldsNamed(t, name) = {}
      BY <1>2 DEF FieldsNamed
    <2>2. FieldType(d, name) = {} /\ FieldType(t, name) = {}
      BY <2>1 DEF FieldType
    <2> QED BY <2>2
  <1> QED BY <1>1, <1>2

LEMMA DerefTypeIs ==
  ASSUME NEW n \in Nat, NEW t \in GoType[n]
  PROVE  DerefType(t).type = t.type /\ \A name : FieldType(DerefType(t), name) = FieldType(t, name)
  <1> DEFINE d == DerefType(t)
  <1>1. {"type", "pointers"} \subseteq DOMAIN t /\ (t.type = "struct" => "fields" \in DOMAIN t)
    BY TypeIs
  <1>2. d.type = t.type /\ (t.type = "struct" => d.fields = t.fields)
    BY <1>1 DEF DerefType
  <1> HIDE DEF d
  <1>3. \A name : FieldType(d, name) = FieldType(t, name)
    BY <1>2, SameFields
  <1> QED BY <1>2, <1>3 DEF d

-----------------------------------------------------------------------------
(* The types a path goes through. *)
AlongAt(at, k, p) ==
  IF k = 0 THEN {p.from} ELSE Behind(at[k - 1], p.path[k])

Following == INSTANCE Induction WITH Def <- AlongAt

LEMMA AlongIs ==
  ASSUME NEW t, NEW path \in Seq(Segment)
  PROVE  /\ Along(t, path)[0] = {t}
         /\ \A k \in 1..Len(path) : Along(t, path)[k] = Behind(Along(t, path)[k - 1], path[k])
  <1> DEFINE Counts == 0..Len(path)
             rank == [n \in Counts |-> n]
             p == [from |-> t, path |-> path]
             at == CHOOSE g : g = [k \in Counts |-> AlongAt(g, k, p)]
  <1>0. Len(path) \in Nat /\ p.from = t /\ p.path = path
    OBVIOUS
  <1>1. at = [k \in Counts |-> AlongAt(at, k, p)]
    <2> HIDE DEF p
    <2>1. rank \in [Counts -> Nat]
      BY <1>0
    <2>2. Following!NeedsSmaller(Counts, rank, p)
      <3> SUFFICES ASSUME NEW n \in Counts, NEW g, NEW h, \A m \in Following!Smaller(Counts, rank, n) : g[m] = h[m]
                   PROVE  AlongAt(g, n, p) = AlongAt(h, n, p)
        BY DEF Following!NeedsSmaller
      <3>1. n # 0 => n - 1 \in Counts /\ rank[n - 1] < rank[n]
        BY <1>0
      <3>2. n # 0 => g[n - 1] = h[n - 1]
        BY <3>1 DEF Following!Smaller
      <3> QED BY <3>2, Zenon DEF AlongAt
    <2>3. \E g : g = [n \in Counts |-> AlongAt(g, n, p)]
      <3> HIDE DEF rank, Counts
      <3> QED BY <2>1, <2>2, Following!Defined
    <2> QED BY <2>3
  <1>2. Along(t, path) = at
    BY DEF Along, AlongAt
  <1>3. \A k \in Counts : at[k] = AlongAt(at, k, p)
    <2> HIDE DEF at, p
    <2> QED BY <1>1
  <1>4. at[0] = {t}
    <2>1. 0 \in Counts
      BY <1>0
    <2>2. AlongAt(at, 0, p) = {t}
      BY DEF AlongAt
    <2> HIDE DEF at, p, Counts
    <2> QED BY <1>3, <2>1, <2>2
  <1>5. ASSUME NEW k \in 1..Len(path) PROVE at[k] = Behind(at[k - 1], path[k])
    <2>1. k \in Counts /\ k # 0
      BY <1>0
    <2> HIDE DEF at
    <2>2. AlongAt(at, k, p) = Behind(at[k - 1], path[k])
      BY <1>0, <2>1, Zenon DEF AlongAt
    <2> HIDE DEF p, Counts
    <2> QED BY <1>3, <2>1, <2>2
  <1> HIDE DEF at
  <1> QED BY <1>2, <1>4, <1>5

-----------------------------------------------------------------------------
(* A value fits a type when each of its members is of the field's type, or  *)
(* the type says nothing of its members.                                    *)
Fits(t, x) ==
  \A n \in DOMAIN Members(x) :
    t.type \in {"any", "map"} \/ \E u \in FieldType(t, n) : <<u, Members(x)[n]>> \in OfType

LEMMA TypedIs ==
  ASSUME NEW t, NEW x, <<t, x>> \in OfType
  PROVE  x \in Value /\ IsOfType(t, x) /\ \E n \in Nat : t \in GoType[n]
  <1> DEFINE typed == <<t, x>>
  <1>1. typed[1] = t /\ typed[2] = x
    OBVIOUS
  <1>2. TypeLevels \in Nat /\ \A n \in 0..TypeLevels : n \in Nat
    BY TypeAssumption
  <1> HIDE DEF typed
  <1>3. typed \in OfType
    BY DEF typed
  <1>4. /\ \E n \in 0..TypeLevels : typed[1] \in GoType[n]
        /\ typed[2] \in Value /\ IsOfType(typed[1], typed[2])
    BY <1>3, TypeAssumption, Zenon
  <1> QED BY <1>1, <1>2, <1>4

(* A value of a type without pointers fits it, *)
LEMMA PlainFits ==
  ASSUME NEW t, NEW x, <<t, x>> \in OfType, ~(t.pointers > 0)
  PROVE  Fits(t, x)
  <1>1. /\ x \in Value
        /\ \/ t.type = "any"
           \/ DOMAIN x \in {{"nil"}, {"num"}, {"txt"}, {"list"}}
           \/ t.type = "map"
           \/ /\ "struct" \in DOMAIN x
              /\ \A n \in DOMAIN x.struct : \E u \in FieldType(t, n) : <<u, x.struct[n]>> \in OfType
    BY TypedIs, Zenon DEF IsOfType
  <1>2. CASE t.type \in {"any", "map"}
    BY <1>2 DEF Fits
  <1>3. CASE DOMAIN x \in {{"nil"}, {"num"}, {"txt"}, {"list"}}
    <2>1. IsAtom(x)
      BY <1>1, <1>3, FourKinds DEF IsPointer, IsMap, IsStruct
    <2>2. DOMAIN Members(x) = {}
      BY <1>1, <2>1, MembersAre
    <2> QED BY <2>2 DEF Fits
  <1>4. CASE /\ "struct" \in DOMAIN x
             /\ \A n \in DOMAIN x.struct : \E u \in FieldType(t, n) : <<u, x.struct[n]>> \in OfType
    <2>1. IsStruct(x)
      BY <1>1, <1>4, FourKinds, AtomIs DEF IsPointer, IsMap
    <2>2. Members(x) = x.struct
      BY <1>1, <2>1, MembersAre
    <2> QED BY <1>4, <2>2, Zenon DEF Fits
  <1> QED BY <1>1, <1>2, <1>3, <1>4

(* and one of a type with pointers fits what is behind them.                *)
LEMMA TypedFits ==
  ASSUME NEW t, NEW x, <<t, x>> \in OfType
  PROVE  Fits(DerefType(t), x)
  <1>1. PICK n \in Nat : t \in GoType[n]
    BY TypedIs
  <1>2. /\ x \in Value /\ IsOfType(t, x) /\ t.pointers \in Nat
        /\ {"type", "pointers"} \subseteq DOMAIN t /\ (t.type = "struct" => "fields" \in DOMAIN t)
    BY <1>1, TypedIs, TypeIs
  <1>3. DerefType(t).type = t.type /\ \A name : FieldType(DerefType(t), name) = FieldType(t, name)
    BY <1>1, DerefTypeIs
  <1>4. Fits(t, x) => Fits(DerefType(t), x)
    BY <1>3, Zenon DEF Fits
  <1>5. CASE ~(t.pointers > 0)
    BY <1>4, <1>5, PlainFits
  <1>6. ASSUME IsAtom(x) PROVE Fits(DerefType(t), x)
    <2>1. DOMAIN Members(x) = {}
      BY <1>2, <1>6, MembersAre
    <2> QED BY <2>1 DEF Fits
  <1>7. CASE t.pointers > 0 /\ x # Nil
    <2> DEFINE u == [t EXCEPT !.pointers = @ - 1]
    <2>1. DOMAIN x = {"to"} /\ <<u, x.to>> \in OfType
      BY <1>2, <1>7, Zenon DEF IsOfType
    <2>2. IsPointer(x)
      BY <1>2, <2>1, FourKinds, AtomIs DEF IsMap, IsStruct
    <2>3. Members(x) = Members(x.to) /\ DOMAIN x.to # {"to"}
      BY <1>2, <2>2, MembersAre DEF IsPointer
    <2>4. u.type = t.type /\ (t.type = "struct" => u.fields = t.fields)
      BY <1>2
    <2> HIDE DEF u
    <2>5. \A name : FieldType(u, name) = FieldType(t, name)
      BY <2>4, SameFields
    <2>6. Fits(u, x.to)
      <3>1. CASE ~(u.pointers > 0)
        BY <2>1, <3>1, PlainFits
      <3>2. CASE u.pointers > 0
        <4>1. x.to = Nil /\ x.to \in Value
          BY <2>1, <2>3, <3>2, TypedIs, Zenon DEF IsOfType
        <4>2. DOMAIN Members(x.to) = {}
          BY <4>1, MembersAre DEF IsAtom
        <4> QED BY <4>2 DEF Fits
      <3> QED BY <3>1, <3>2
    <2>7. Fits(t, x)
      BY <2>3, <2>4, <2>5, <2>6, Zenon DEF Fits
    <2> QED BY <1>4, <2>7
  <1> QED BY <1>5, <1>6, <1>7 DEF IsAtom

-----------------------------------------------------------------------------
(* What follows a segment is a member of that name. *)
LEMMA FollowIs ==
  ASSUME NEW A, NEW name, NEW y \in Follow(A, name)
  PROVE  \E x \in A : name \in DOMAIN Members(x) /\ y = Members(x)[name]
  <1>1. y \in FieldsOf(A, name)
    BY Zenon DEF Follow
  <1> QED BY <1>1 DEF FieldsOf, Field

(* A path that names something names something all along.                   *)
LEMMA NamedThroughout ==
  ASSUME NEW v, NEW path \in Seq(Segment), Resolve(v, path) # {}
  PROVE  \A k \in 0..Len(path) : Walk(v, path)[k] # {}
  <1> DEFINE n == Len(path)
             W == Walk(v, path)
             S == {j \in Nat : j <= n => W[n - j] # {}}
  <1>0. n \in Nat
    OBVIOUS
  <1>1. W[n] # {} /\ \A k \in 1..n : W[k] = Follow(W[k - 1], path[k])
    BY WalkIs, Zenon
  <1> HIDE DEF n, W
  <1>2. 0 \in S
    BY <1>0, <1>1
  <1>3. ASSUME NEW j \in Nat, j \in S PROVE j + 1 \in S
    <2> SUFFICES ASSUME j + 1 <= n, W[n - (j + 1)] = {} PROVE FALSE
      OBVIOUS
    <2>1. n - j \in 1..n /\ (n - j) - 1 = n - (j + 1) /\ W[n - j] # {}
      BY <1>0, <1>3
    <2>2. W[n - j] = Follow(W[(n - j) - 1], path[n - j])
      BY <1>1, <2>1
    <2>3. W[n - j] = Follow({}, path[n - j])
      BY <2>1, <2>2, Zenon
    <2>4. PICK y : y \in Follow({}, path[n - j])
      BY <2>1, <2>3
    <2> QED BY <2>4, FollowIs
  <1> HIDE DEF S
  <1>4. Nat \subseteq S
    BY <1>2, <1>3, Nesting!ByNumber
  <1>5. ASSUME NEW k \in 0..n PROVE W[k] # {}
    <2>1. n - k \in Nat /\ n - k <= n /\ n - (n - k) = k
      BY <1>0
    <2>2. n - k \in S
      BY <1>4, <2>1
    <2> QED BY <2>1, <2>2, Zenon DEF S
  <1> QED BY <1>5 DEF n, W

(* A path that names something below a member that fits a type is valid     *)
(* under the type, unless it leads through an interface.                    *)
LEMMA PathFits ==
  ASSUME NEW v, NEW w, NEW t, NEW path \in Seq(Segment), Len(path) > 1,
         Resolve(v, path) # {}, Walk(v, path)[1] = {w}, Fits(t, w), ~ThroughInterface(t, Tail(path))
  PROVE  ValidUnder(t, Tail(path))
  <1> DEFINE rest == Tail(path)
             m == Len(rest)
             W == Walk(v, path)
             L == Along(t, rest)
             Fit(k) == \A x \in W[k + 1] : \E u \in L[k] : Fits(u, x)
             S == {k \in Nat : k <= m => Fit(k)}
  <1>1. rest \in Seq(Segment) /\ m \in Nat /\ Len(path) = m + 1 /\ \A k \in 1..m : rest[k] = path[k + 1]
    OBVIOUS
  <1>2. W[1] = {w} /\ \A k \in 1..Len(path) : W[k] = Follow(W[k - 1], path[k])
    <2>1. \A k \in 1..Len(path) : W[k] = Follow(W[k - 1], path[k])
      BY WalkIs
    <2> QED BY <2>1
  <1>3. L[0] = {t} /\ \A k \in 1..m : L[k] = Behind(L[k - 1], rest[k])
    <2>1. rest \in Seq(Segment)
      BY <1>1
    <2> HIDE DEF rest
    <2> QED BY <2>1, AlongIs
  <1>4. \A k \in 0..(m - 1) : \A u \in L[k] : u.type # "any"
    BY Zenon DEF ThroughInterface
  <1>5. \A k \in 0..Len(path) : W[k] # {}
    BY NamedThroughout, Zenon
  <1>6. SUFFICES ASSUME \A k \in 0..(m - 1) : \A u \in L[k] : u.type # "map"
                 PROVE  L[m] # {}
    BY Zenon DEF ValidUnder
  <1> HIDE DEF rest, m, W, L
  <1>7. 0 \in S
    BY <1>2, <1>3
  <1>8. ASSUME NEW k \in Nat, k \in S PROVE k + 1 \in S
    <2> SUFFICES ASSUME k + 1 <= m PROVE Fit(k + 1)
      OBVIOUS
    <2>1. Fit(k)
      BY <1>1, <1>8
    <2>2. /\ k \in 0..(m - 1) /\ k + 1 \in 1..m /\ (k + 1) - 1 = k
          /\ (k + 1) + 1 \in 1..Len(path) /\ ((k + 1) + 1) - 1 = k + 1
      BY <1>1
    <2> DEFINE name == path[(k + 1) + 1]
    <2>3. W[(k + 1) + 1] = Follow(W[k + 1], name) /\ L[k + 1] = Behind(L[k], name)
      <3>1. W[(k + 1) + 1] = Follow(W[((k + 1) + 1) - 1], path[(k + 1) + 1])
        BY <1>2, <2>2, Zenon
      <3>2. L[k + 1] = Behind(L[(k + 1) - 1], rest[k + 1]) /\ rest[k + 1] = path[(k + 1) + 1]
        BY <1>1, <1>3, <2>2, Zenon
      <3> QED BY <2>2, <3>1, <3>2, Zenon
    <2> HIDE DEF name
    <2>4. ASSUME NEW y \in W[(k + 1) + 1] PROVE \E u \in L[k + 1] : Fits(u, y)
      <3>1. PICK x \in W[k + 1] : name \in DOMAIN Members(x) /\ y = Members(x)[name]
        BY <2>3, <2>4, FollowIs
      <3>2. PICK u \in L[k] : Fits(u, x)
        BY <2>1, <3>1
      <3>3. u.type \notin {"any", "map"}
        BY <1>4, <1>6, <2>2, <3>2
      <3>4. PICK a \in FieldType(u, name) : <<a, y>> \in OfType
        BY <3>1, <3>2, <3>3, Zenon DEF Fits
      <3>5. DerefType(a) \in L[k + 1]
        BY <2>3, <3>2, <3>4, Zenon DEF Behind
      <3> QED BY <3>4, <3>5, TypedFits
    <2> QED BY <2>4
  <1> HIDE DEF S
  <1>9. m \in S
    <2>1. Nat \subseteq S
      BY <1>7, <1>8, Nesting!ByNumber
    <2> QED BY <1>1, <2>1
  <1>10. \A x \in W[m + 1] : \E u \in L[m] : Fits(u, x)
    BY <1>1, <1>9 DEF S
  <1>11. W[m + 1] # {}
    BY <1>1, <1>5
  <1> QED BY <1>10, <1>11

(* A type none of whose fields is an interface or has fields itself.        *)
Shallow(t) ==
  t.type # "any" /\ \A name : \A u \in FieldType(t, name) : "type" \in DOMAIN u /\ u.type \notin {"any", "struct"}

LEMMA MetadataIsShallow == Shallow(DerefType(MetadataType))
  <1> DEFINE t == MetadataType
             d == DerefType(t)
             name == GoField("Name", Tag("name"), Tag("name"), TRUE, FALSE, Basic("text"))
             labels == GoField("Labels", Tag("labels"), Tag("labels"), TRUE, FALSE, MapOf(Basic("text")))
  <1>1. name.type = Basic("text") /\ labels.type = MapOf(Basic("text"))
    BY DEF GoField
  <1>2. Basic("text").type = "text" /\ MapOf(Basic("text")).type = "map"
        /\ "type" \in DOMAIN Basic("text") /\ "type" \in DOMAIN MapOf(Basic("text"))
    BY DEF Basic, MapOf
  <1>3. t = GoStruct(<<name, labels>>)
    BY Zenon DEF MetadataType
  <1> HIDE DEF t, name, labels
  <1>4. d.type = "struct" /\ d.fields = <<name, labels>>
    BY <1>3 DEF DerefType, GoStruct
  <1> HIDE DEF d
  <1>5. \A k \in DOMAIN d.fields : d.fields[k].type \in {Basic("text"), MapOf(Basic("text"))}
    <2>1. \A k \in DOMAIN d.fields : d.fields[k] \in {name, labels}
      BY <1>4
    <2> QED BY <1>1, <2>1
  <1>6. ASSUME NEW any, NEW u \in FieldType(d, any) PROVE "type" \in DOMAIN u /\ u.type \notin {"any", "struct"}
    <2>1. PICK k \in FieldsNamed(d, any) : u = d.fields[k].type
      BY <1>6, Zenon DEF FieldType
    <2>2. k \in DOMAIN d.fields
      BY <1>4, <2>1, Zenon DEF FieldsNamed
    <2>3. u = Basic("text") \/ u = MapOf(Basic("text"))
      BY <1>5, <2>1, <2>2
    <2> QED BY <1>2, <2>3
  <1> QED BY <1>4, <1>6 DEF Shallow, d, t

(* No path leads through an interface from there. *)
LEMMA ShallowIsKnown ==
  ASSUME NEW t, Shallow(t), NEW path \in Seq(Segment)
  PROVE  ~ThroughInterface(t, path)
  <1> DEFINE L == Along(t, path)
             m == Len(path)
             S == {k \in Nat : k <= m => \A u \in L[k] : Shallow(u)}
  <1>1. m \in Nat /\ L[0] = {t} /\ \A k \in 1..m : L[k] = Behind(L[k - 1], path[k])
    BY AlongIs
  <1> HIDE DEF L, m
  <1>2. 0 \in S
    BY <1>1
  <1>3. ASSUME NEW k \in Nat, k \in S PROVE k + 1 \in S
    <2> SUFFICES ASSUME k + 1 <= m, NEW u \in L[k + 1] PROVE Shallow(u)
      OBVIOUS
    <2>1. k + 1 \in 1..m /\ (k + 1) - 1 = k /\ k <= m
      BY <1>1
    <2>2. L[k + 1] = Behind(L[k], path[k + 1])
      BY <1>1, <2>1
    <2>3. PICK w \in L[k] : \E a \in FieldType(w, path[k + 1]) : u = DerefType(a)
      BY <2>2 DEF Behind
    <2>4. PICK a \in FieldType(w, path[k + 1]) : u = DerefType(a)
      BY <2>3
    <2>5. "type" \in DOMAIN a /\ a.type \notin {"any", "struct"}
      BY <1>3, <2>1, <2>4 DEF Shallow
    <2>6. u.type = a.type
      BY <2>4, <2>5 DEF DerefType
    <2>7. \A name : FieldType(u, name) = {}
      BY <2>5, <2>6 DEF FieldType, FieldsNamed
    <2> QED BY <2>5, <2>6, <2>7 DEF Shallow
  <1> HIDE DEF S
  <1>4. Nat \subseteq S
    BY <1>2, <1>3, Nesting!ByNumber
  <1>5. \A k \in 0..(m - 1) : k \in Nat /\ k <= m
    BY <1>1
  <1>6. \A k \in 0..(m - 1) : \A u \in L[k] : u.type # "any"
    BY <1>4, <1>5, Zenon DEF S, Shallow
  <1> QED BY <1>6, Zenon DEF ThroughInterface, L, m

(* Paths that are valid. *)
LEMMA ValidIs ==
  ASSUME NEW spec, NEW status, NEW path, path # <<>>
  PROVE  /\ Head(path) = "kind" /\ Len(path) = 1 => ValidPath(spec, status, path)
         /\ Head(path) = "metadata" /\ (Len(path) = 1 \/ ValidUnder(DerefType(MetadataType), Tail(path))) =>
              ValidPath(spec, status, path)
         /\ Head(path) = "spec" /\ (Len(path) = 1 \/ spec.type = "none" \/ ValidUnder(DerefType(spec), Tail(path))) =>
              ValidPath(spec, status, path)
         /\ Head(path) = "status" /\ (Len(path) = 1 \/ status.type = "none") => ValidPath(spec, status, path)
  BY Zenon DEF ValidPath

(* A path that names something is valid. *)
LEMMA AnyNamedIsValid ==
  ASSUME NEW spec, NEW v, <<spec, v>> \in OfType, NEW path \in Seq(Segment) \ {<<>>}
  PROVE  NamedIsValid(spec, v, path)
  <1> DEFINE obj  == ObjectOf(v, Nil)
             root == Head(path)
             rest == Tail(path)
             W    == Walk(obj, path)
             Is(w) == root \in DOMAIN Members(obj) /\ w = Members(obj)[root]
  <1>1. SUFFICES ASSUME Resolve(obj, path) # {}, ~(root = "spec" /\ ThroughInterface(DerefType(spec), rest))
                 PROVE  ValidPath(spec, Basic("none"), path)
    BY Zenon DEF NamedIsValid
  <1>2. /\ path \in Seq(Segment) /\ path # <<>> /\ Len(path) \in Nat /\ Len(path) # 0 /\ path[1] = root
        /\ rest \in Seq(Segment)
    OBVIOUS
  <1>3. /\ Members(obj) = [kind |-> Kind, spec |-> v, status |-> Nil, metadata |-> Metadata]
    BY DEF ObjectOf, OneNamed, Struct, Members, Deref
  <1>4. root \in {"kind", "spec", "status", "metadata"} /\ W[1] = {Members(obj)[root]}
    <2>1. W[0] = {obj} /\ \A k \in 1..Len(path) : W[k] = Follow(W[k - 1], path[k])
      BY <1>2, WalkIs
    <2>2. W[1] # {}
      BY <1>1, <1>2, NamedThroughout
    <2> HIDE DEF W
    <2>3. W[1] = Follow({obj}, root)
      <3>1. 1 \in 1..Len(path) /\ 1 - 1 = 0
        BY <1>2
      <3>2. W[1] = Follow(W[1 - 1], path[1])
        BY <2>1, <3>1, Zenon
      <3> HIDE DEF obj, root
      <3> QED BY <1>2, <2>1, <3>1, <3>2, Zenon
    <2>4. \A w \in W[1] : Is(w)
      BY <2>3, FollowIs
    <2>5. W[1] = {Members(obj)[root]} /\ root \in DOMAIN Members(obj)
      BY <2>2, <2>4
    <2> QED BY <1>3, <2>5
  <1> HIDE DEF root, rest
  <1>5. CASE Len(path) = 1
    BY <1>2, <1>4, <1>5, ValidIs, Zenon DEF root
  <1>6. CASE Len(path) > 1
    <2>1. CASE root = "kind"
      <3>1. W[1] = {Kind}
        BY <1>3, <1>4, <2>1
      <3>2. W[2] # {} /\ W[2] = Follow(W[2 - 1], path[2])
        <4>1. 2 \in 1..Len(path) /\ 2 \in 0..Len(path)
          BY <1>2, <1>6
        <4> QED BY <1>1, <1>2, <4>1, NamedThroughout, WalkIs
      <3>3. IsAtom(Kind) /\ Kind \in Value
        BY ValueAssumption DEF Kind, Txt, IsAtom
      <3>4. DOMAIN Members(Kind) = {}
        BY <3>3, MembersAre
      <3> HIDE DEF W
      <3>5. PICK y : y \in Follow({Kind}, path[2])
        <4>1. 2 - 1 = 1
          OBVIOUS
        <4>2. Follow({Kind}, path[2]) # {}
          BY <3>1, <3>2, <4>1, Zenon
        <4> QED BY <4>2
      <3> QED BY <3>4, <3>5, FollowIs
    <2>2. CASE root = "status"
      <3>1. Basic("none").type = "none"
        BY DEF Basic
      <3> QED BY <1>2, <2>2, <3>1, ValidIs, Zenon DEF root
    <2>3. CASE root = "spec"
      <3>1. W[1] = {v}
        BY <1>3, <1>4, <2>3
      <3>2. Fits(DerefType(spec), v)
        BY TypedFits
      <3>3. ~ThroughInterface(DerefType(spec), rest)
        BY <1>1, <2>3
      <3>4. ValidUnder(DerefType(spec), rest)
        BY <1>1, <1>2, <1>6, <3>1, <3>2, <3>3, PathFits, Zenon DEF rest
      <3> QED BY <1>2, <2>3, <3>4, ValidIs, Zenon DEF root, rest
    <2>4. CASE root = "metadata"
      <3>1. W[1] = {Metadata}
        BY <1>3, <1>4, <2>4
      <3>2. Fits(DerefType(MetadataType), Metadata)
        BY TypeAssumption, TypedFits
      <3>3. ~ThroughInterface(DerefType(MetadataType), rest)
        BY <1>2, MetadataIsShallow, ShallowIsKnown, Zenon
      <3>4. ValidUnder(DerefType(MetadataType), rest)
        BY <1>1, <1>2, <1>6, <3>1, <3>2, <3>3, PathFits, Zenon DEF rest
      <3> QED BY <1>2, <2>4, <3>4, ValidIs, Zenon DEF root, rest
    <2> QED BY <1>4, <2>1, <2>2, <2>3, <2>4
  <1>7. Len(path) = 1 \/ Len(path) > 1
    <2> DEFINE n == Len(path)
    <2>1. n \in Nat /\ n # 0
      BY <1>2
    <2> HIDE DEF n
    <2>2. n = 1 \/ n > 1
      BY <2>1
    <2> QED BY <2>2 DEF n
  <1> QED BY <1>5, <1>6, <1>7, Zenon

-----------------------------------------------------------------------------
(* The names of a struct's fields, the paths to them, and their tags, given *)
(* those of the level below.                                                *)
StructFieldsAt(names, n, p) ==
  [t \in GoType[n] |->
     IF t.type # "struct" THEN {}
     ELSE UNION {FieldNames(t.fields[k], names[n - 1]) : k \in {l \in Exported(t) : DocName(t.fields[l]) # "-"}}]

FieldPathsAt(paths, n, p) ==
  [t \in GoType[n] |->
     IF t.type # "struct" THEN {}
     ELSE UNION {PathsTo(t, PathName(t.fields[k]), paths[n - 1]) : k \in Exported(t)}]

TaggedAt(tagged, n, p) ==
  [t \in GoType[n] |->
     t.type = "struct" => \A k \in Exported(t) : TaggedAlone(t, k) /\ tagged[n - 1][t.fields[k].type]]

Documenting == INSTANCE Induction WITH Def <- StructFieldsAt
Reaching    == INSTANCE Induction WITH Def <- FieldPathsAt
Tagging     == INSTANCE Induction WITH Def <- TaggedAt

(* Each is the function that its recursive definition says. *)
LEMMA StructFieldsIs == \A n \in Nat : StructFields[n] = StructFieldsAt(StructFields, n, 0)
  <1>1. Documenting!NeedsSmaller(Nat, Counted, 0)
    <2> SUFFICES ASSUME NEW n \in Nat, NEW g, NEW h, \A m \in Documenting!Smaller(Nat, Counted, n) : g[m] = h[m]
                 PROVE  StructFieldsAt(g, n, 0) = StructFieldsAt(h, n, 0)
      BY DEF Documenting!NeedsSmaller
    <2>1. CASE n # 0
      <3>1. n - 1 \in Documenting!Smaller(Nat, Counted, n)
        BY <2>1 DEF Documenting!Smaller, Counted
      <3>2. g[n - 1] = h[n - 1]
        BY <3>1
      <3> QED BY <3>2, Zenon DEF StructFieldsAt
    <2>2. CASE n = 0
      <3>1. \A t \in GoType[n] : t.type # "struct"
        BY <2>2, TypeIs, Zenon
      <3> QED BY <3>1, Zenon DEF StructFieldsAt
    <2> QED BY <2>1, <2>2
  <1>2. \E f : f = [n \in Nat |-> StructFieldsAt(f, n, 0)]
    BY <1>1, LevelsAreRanks, Documenting!Defined
  <1>3. StructFields = [n \in Nat |-> StructFieldsAt(StructFields, n, 0)]
    BY <1>2, Zenon DEF StructFields, StructFieldsAt
  <1> QED BY <1>3, Zenon

LEMMA FieldPathsIs == \A n \in Nat : FieldPaths[n] = FieldPathsAt(FieldPaths, n, 0)
  <1>1. Reaching!NeedsSmaller(Nat, Counted, 0)
    <2> SUFFICES ASSUME NEW n \in Nat, NEW g, NEW h, \A m \in Reaching!Smaller(Nat, Counted, n) : g[m] = h[m]
                 PROVE  FieldPathsAt(g, n, 0) = FieldPathsAt(h, n, 0)
      BY DEF Reaching!NeedsSmaller
    <2>1. CASE n # 0
      <3>1. n - 1 \in Reaching!Smaller(Nat, Counted, n)
        BY <2>1 DEF Reaching!Smaller, Counted
      <3>2. g[n - 1] = h[n - 1]
        BY <3>1
      <3> QED BY <3>2, Zenon DEF FieldPathsAt
    <2>2. CASE n = 0
      <3>1. \A t \in GoType[n] : t.type # "struct"
        BY <2>2, TypeIs, Zenon
      <3> QED BY <3>1, Zenon DEF FieldPathsAt
    <2> QED BY <2>1, <2>2
  <1>2. \E f : f = [n \in Nat |-> FieldPathsAt(f, n, 0)]
    BY <1>1, LevelsAreRanks, Reaching!Defined
  <1>3. FieldPaths = [n \in Nat |-> FieldPathsAt(FieldPaths, n, 0)]
    BY <1>2, Zenon DEF FieldPaths, FieldPathsAt
  <1> QED BY <1>3, Zenon

LEMMA TaggedIs == \A n \in Nat : Tagged[n] = TaggedAt(Tagged, n, 0)
  <1>1. Tagging!NeedsSmaller(Nat, Counted, 0)
    <2> SUFFICES ASSUME NEW n \in Nat, NEW g, NEW h, \A m \in Tagging!Smaller(Nat, Counted, n) : g[m] = h[m]
                 PROVE  TaggedAt(g, n, 0) = TaggedAt(h, n, 0)
      BY DEF Tagging!NeedsSmaller
    <2>1. CASE n # 0
      <3>1. n - 1 \in Tagging!Smaller(Nat, Counted, n)
        BY <2>1 DEF Tagging!Smaller, Counted
      <3>2. g[n - 1] = h[n - 1]
        BY <3>1
      <3> QED BY <3>2, Zenon DEF TaggedAt
    <2>2. CASE n = 0
      <3>1. \A t \in GoType[n] : t.type # "struct"
        BY <2>2, TypeIs, Zenon
      <3> QED BY <3>1, Zenon DEF TaggedAt
    <2> QED BY <2>1, <2>2
  <1>2. \E f : f = [n \in Nat |-> TaggedAt(f, n, 0)]
    BY <1>1, LevelsAreRanks, Tagging!Defined
  <1>3. Tagged = [n \in Nat |-> TaggedAt(Tagged, n, 0)]
    BY <1>2, Zenon DEF Tagged, TaggedAt
  <1> QED BY <1>3, Zenon

(* What is below a type. *)
LEMMA BelowType ==
  ASSUME NEW n \in Nat, NEW t \in GoType[n]
  PROVE  /\ t.type # "struct" => StructFields[n][t] = {} /\ FieldPaths[n][t] = {}
         /\ t.type = "struct" =>
              /\ \A path : path \in StructFields[n][t] <=>
                   \E k \in Exported(t) : DocName(t.fields[k]) # "-" /\ path \in FieldNames(t.fields[k], StructFields[n - 1])
              /\ \A path : path \in FieldPaths[n][t] <=>
                   \E k \in Exported(t) : \E u \in FieldType(t, PathName(t.fields[k])) :
                     path \in AtAndBelow(PathName(t.fields[k]), FieldPaths[n - 1][u])
              /\ Tagged[n][t] => \A k \in Exported(t) : TaggedAlone(t, k) /\ Tagged[n - 1][t.fields[k].type]
  <1>1. CASE t.type # "struct"
    BY <1>1, StructFieldsIs, FieldPathsIs, Zenon DEF StructFieldsAt, FieldPathsAt
  <1>2. CASE t.type = "struct"
    <2>1. StructFields[n][t] =
            UNION {FieldNames(t.fields[k], StructFields[n - 1]) : k \in {l \in Exported(t) : DocName(t.fields[l]) # "-"}}
      BY <1>2, StructFieldsIs, Zenon DEF StructFieldsAt
    <2>2. FieldPaths[n][t] = UNION {PathsTo(t, PathName(t.fields[k]), FieldPaths[n - 1]) : k \in Exported(t)}
      BY <1>2, FieldPathsIs, Zenon DEF FieldPathsAt
    <2>3. Tagged[n][t] => \A k \in Exported(t) : TaggedAlone(t, k) /\ Tagged[n - 1][t.fields[k].type]
      <3>1. Tagged[n][t] = (t.type = "struct" => \A k \in Exported(t) : TaggedAlone(t, k) /\ Tagged[n - 1][t.fields[k].type])
        BY TaggedIs, Zenon DEF TaggedAt
      <3> QED BY <1>2, <3>1
    <2>4. \A path : path \in StructFields[n][t] <=>
            \E k \in Exported(t) : DocName(t.fields[k]) # "-" /\ path \in FieldNames(t.fields[k], StructFields[n - 1])
      BY <2>1, Zenon
    <2>5. \A path : path \in FieldPaths[n][t] <=>
            \E k \in Exported(t) : \E u \in FieldType(t, PathName(t.fields[k])) :
              path \in AtAndBelow(PathName(t.fields[k]), FieldPaths[n - 1][u])
      <3>1. \A path : path \in FieldPaths[n][t] <=>
              \E k \in Exported(t) : path \in PathsTo(t, PathName(t.fields[k]), FieldPaths[n - 1])
        BY <2>2, Zenon
      <3>2. \A path, name : path \in PathsTo(t, name, FieldPaths[n - 1]) <=>
              \E u \in FieldType(t, name) : path \in AtAndBelow(name, FieldPaths[n - 1][u])
        BY Zenon DEF PathsTo
      <3> QED BY <3>1, <3>2, Zenon
    <2> QED BY <1>2, <2>3, <2>4, <2>5, Zenon
  <1> QED BY <1>1, <1>2, Zenon

(* A name and what is below it. *)
Under(name, path) == <<name>> \o path

LEMMA AtAndBelowIs ==
  ASSUME NEW name, NEW paths, NEW path
  PROVE  path \in AtAndBelow(name, paths) <=> path = <<name>> \/ \E q \in paths : path = Under(name, q)
  <1> DEFINE at == <<name>>
  <1>1. AtAndBelow(name, paths) = {at} \cup {Under(name, q) : q \in paths}
    BY Zenon DEF AtAndBelow, Under
  <1> HIDE DEF at
  <1>2. path \in AtAndBelow(name, paths) <=> path = at \/ \E q \in paths : path = Under(name, q)
    BY <1>1
  <1> QED BY <1>2 DEF at

LEMMA UnderIs ==
  ASSUME NEW name \in Segment, NEW q \in Seq(Segment)
  PROVE  /\ <<name>> = Under(name, <<>>) /\ <<>> \in Seq(Segment)
         /\ Under(name, q) \in Seq(Segment) /\ Len(q) \in Nat /\ Len(Under(name, q)) = Len(q) + 1
         /\ Under(name, q)[1] = name /\ \A k \in 1..Len(q) : Under(name, q)[k + 1] = q[k]
  BY DEF Under

LEMMA OneSegment ==
  ASSUME NEW name \in Segment
  PROVE  <<name>> = Under(name, <<>>) /\ <<>> \in Seq(Segment)
  <1>1. <<>> \in Seq(Segment)
    OBVIOUS
  <1> QED BY <1>1, UnderIs

(* What is hidden is so at one of its segments. *)
LEMMA HiddenUnder ==
  ASSUME NEW name \in Segment, NEW q \in Seq(Segment)
  PROVE  Hidden(Under(name, q)) <=> name = "-" \/ Hidden(q)
  <1> DEFINE path == Under(name, q)
             dash == "-"
  <1>1. /\ Len(q) \in Nat /\ DOMAIN q = 1..Len(q) /\ DOMAIN path = 1..(Len(q) + 1)
        /\ path[1] = name /\ \A k \in 1..Len(q) : path[k + 1] = q[k]
    BY UnderIs
  <1>2. Hidden(path) <=> \E k \in DOMAIN path : path[k] = dash
    BY Zenon DEF Hidden
  <1>3. Hidden(q) <=> \E k \in DOMAIN q : q[k] = dash
    BY Zenon DEF Hidden
  <1> HIDE DEF path, dash
  <1>4. ASSUME NEW k \in DOMAIN path, path[k] = dash PROVE name = dash \/ Hidden(q)
    <2>1. k = 1 \/ (k - 1 \in DOMAIN q /\ path[(k - 1) + 1] = q[k - 1] /\ (k - 1) + 1 = k)
      BY <1>1
    <2>2. CASE k = 1
      BY <1>1, <1>4, <2>2
    <2>3. CASE k - 1 \in DOMAIN q /\ path[(k - 1) + 1] = q[k - 1] /\ (k - 1) + 1 = k
      <3>1. q[k - 1] = dash
        BY <1>4, <2>3
      <3> QED BY <1>3, <2>3, <3>1
    <2> QED BY <2>1, <2>2, <2>3
  <1>5. ASSUME name = dash PROVE Hidden(path)
    <2>1. 1 \in DOMAIN path /\ path[1] = dash
      BY <1>1, <1>5
    <2> QED BY <1>2, <2>1
  <1>6. ASSUME NEW k \in DOMAIN q, q[k] = dash PROVE Hidden(path)
    <2>1. k + 1 \in DOMAIN path /\ path[k + 1] = dash
      BY <1>1, <1>6
    <2> QED BY <1>2, <2>1
  <1>7. Hidden(path) <=> name = dash \/ Hidden(q)
    BY <1>2, <1>3, <1>4, <1>5, <1>6
  <1> QED BY <1>7 DEF path, dash

LEMMA ShownAlone ==
  ASSUME NEW name \in Segment, name # "-"
  PROVE  ~Hidden(<<name>>)
  <1>1. ~Hidden(<<>>)
    BY DEF Hidden
  <1> QED BY <1>1, OneSegment, HiddenUnder, Zenon

(* What is at or below a field named - is hidden; elsewhere what is hidden  *)
(* below a field is what is hidden below its type.                          *)
LEMMA BelowDash ==
  ASSUME NEW name \in Segment, name = "-", NEW S, \A q \in S : q \in Seq(Segment), NEW path \in AtAndBelow(name, S)
  PROVE  Hidden(path)
  <1>1. path = <<name>> \/ \E q \in S : path = Under(name, q)
    BY AtAndBelowIs
  <1>2. PICK q \in Seq(Segment) : path = Under(name, q)
    <2>1. CASE path = <<name>>
      BY <2>1, OneSegment, Zenon
    <2>2. CASE \E q \in S : path = Under(name, q)
      BY <2>2, Zenon
    <2> QED BY <1>1, <2>1, <2>2, Zenon
  <1> QED BY <1>2, HiddenUnder, Zenon

LEMMA BelowShown ==
  ASSUME NEW name \in Segment, name # "-", NEW S, NEW F, \A q \in F : q \in Seq(Segment),
         \A q : q \in S <=> q \in F /\ ~Hidden(q), NEW path
  PROVE  path \in AtAndBelow(name, S) <=> path \in AtAndBelow(name, F) /\ ~Hidden(path)
  <1>1. path \in AtAndBelow(name, S) <=> path = <<name>> \/ \E q \in S : path = Under(name, q)
    BY AtAndBelowIs
  <1>2. path \in AtAndBelow(name, F) <=> path = <<name>> \/ \E q \in F : path = Under(name, q)
    BY AtAndBelowIs
  <1>3. \A q \in F : Hidden(Under(name, q)) <=> Hidden(q)
    BY HiddenUnder, Zenon
  <1>4. path = <<name>> => ~Hidden(path)
    BY ShownAlone, Zenon
  <1> QED BY <1>1, <1>2, <1>3, <1>4

(* A path below a field goes through the types below the field's.           *)
LEMMA AlongBelow ==
  ASSUME NEW n \in Nat, NEW t \in GoType[n], NEW name \in Segment, NEW u \in FieldType(t, name), NEW q \in Seq(Segment)
  PROVE  \A k \in 0..Len(q) : Along(DerefType(u), q)[k] \subseteq Along(DerefType(t), Under(name, q))[k + 1]
  <1> DEFINE path == Under(name, q)
             L == Along(DerefType(u), q)
             M == Along(DerefType(t), path)
             m == Len(q)
             S == {k \in Nat : k <= m => L[k] \subseteq M[k + 1]}
  <1>1. path \in Seq(Segment) /\ m \in Nat /\ Len(path) = m + 1 /\ path[1] = name /\ \A k \in 1..m : path[k + 1] = q[k]
    BY UnderIs
  <1> HIDE DEF path
  <1>2. L[0] = {DerefType(u)} /\ \A k \in 1..m : L[k] = Behind(L[k - 1], q[k])
    BY AlongIs
  <1>3. M[0] = {DerefType(t)} /\ \A k \in 1..Len(path) : M[k] = Behind(M[k - 1], path[k])
    BY <1>1, AlongIs
  <1> HIDE DEF L, M, m
  <1>4. 0 \in S
    <2>1. u \in FieldType(DerefType(t), name)
      BY DerefTypeIs
    <2>2. 1 \in 1..Len(path) /\ 1 - 1 = 0
      BY <1>1
    <2>3. M[1] = Behind({DerefType(t)}, name)
      BY <1>1, <1>3, <2>2
    <2>4. DerefType(u) \in M[1]
      BY <2>1, <2>3, Zenon DEF Behind
    <2> QED BY <1>2, <2>4
  <1>5. ASSUME NEW k \in Nat, k \in S PROVE k + 1 \in S
    <2> SUFFICES ASSUME k + 1 <= m, NEW x \in L[k + 1] PROVE x \in M[(k + 1) + 1]
      OBVIOUS
    <2>1. k + 1 \in 1..m /\ (k + 1) - 1 = k /\ (k + 1) + 1 \in 1..Len(path) /\ ((k + 1) + 1) - 1 = k + 1
      BY <1>1
    <2>2. L[k + 1] = Behind(L[k], q[k + 1]) /\ M[(k + 1) + 1] = Behind(M[k + 1], q[k + 1])
      <3>1. L[k + 1] = Behind(L[(k + 1) - 1], q[k + 1])
        BY <1>2, <2>1, Zenon
      <3>2. M[(k + 1) + 1] = Behind(M[((k + 1) + 1) - 1], path[(k + 1) + 1])
        BY <1>3, <2>1, Zenon
      <3>3. path[(k + 1) + 1] = q[k + 1]
        BY <1>1, <2>1, Zenon
      <3> QED BY <2>1, <3>1, <3>2, <3>3, Zenon
    <2>3. L[k] \subseteq M[k + 1]
      BY <1>1, <1>5
    <2> QED BY <2>2, <2>3, Zenon DEF Behind
  <1> HIDE DEF S
  <1>6. Nat \subseteq S
    BY <1>4, <1>5, Nesting!ByNumber
  <1>7. \A k \in 0..m : k \in Nat /\ k <= m
    BY <1>1
  <1>8. \A k \in 0..m : L[k] \subseteq M[k + 1]
    BY <1>6, <1>7 DEF S
  <1> QED BY <1>8 DEF L, M, m, path

-----------------------------------------------------------------------------
(* The paths to fields go through types, and the documented names are those *)
(* that are not hidden, if the fields are tagged.                           *)
IsDocumented(n, t) ==
  /\ \A path \in FieldPaths[n][t] : path \in Seq(Segment) /\ Along(DerefType(t), path)[Len(path)] # {}
  /\ Tagged[n][t] => \A path : path \in StructFields[n][t] <=> path \in FieldPaths[n][t] /\ ~Hidden(path)

LEMMA PathReaches ==
  ASSUME NEW n \in Nat, NEW t \in GoType[n], \A u \in GoType[n - 1] : IsDocumented(n - 1, u), NEW path \in FieldPaths[n][t]
  PROVE  path \in Seq(Segment) /\ Along(DerefType(t), path)[Len(path)] # {}
  <1>1. t.type = "struct"
    BY BelowType, Zenon
  <1>2. PICK k \in Exported(t) : \E u \in FieldType(t, PathName(t.fields[k])) :
               path \in AtAndBelow(PathName(t.fields[k]), FieldPaths[n - 1][u])
    BY <1>1, BelowType, Zenon
  <1> DEFINE name == PathName(t.fields[k])
  <1>3. PICK u \in FieldType(t, name) : path \in AtAndBelow(name, FieldPaths[n - 1][u])
    BY <1>2
  <1>4. name \in Segment
    <2>1. t.fields \in Seq(FieldsOver(GoType[n - 1])) /\ k \in DOMAIN t.fields
      BY <1>1, TypeIs DEF Exported
    <2>2. t.fields[k] \in FieldsOver(GoType[n - 1])
      BY <2>1, ElementOfSeq
    <2> QED BY <2>2, FieldIs
  <1> HIDE DEF name
  <1>5. u \in GoType[n - 1]
    BY FieldTypeIs
  <1>6. \A q \in FieldPaths[n - 1][u] : q \in Seq(Segment) /\ Along(DerefType(u), q)[Len(q)] # {}
    BY <1>5, Zenon DEF IsDocumented
  <1>7. PICK q \in Seq(Segment) : path = Under(name, q) /\ Along(DerefType(u), q)[Len(q)] # {}
    <2>1. CASE path = <<name>>
      <3>1. path = Under(name, <<>>) /\ <<>> \in Seq(Segment)
        BY <1>4, <2>1, OneSegment, Zenon
      <3>2. Along(DerefType(u), <<>>)[0] # {} /\ Len(<<>>) = 0
        BY <3>1, AlongIs
      <3> QED BY <3>1, <3>2
    <2>2. CASE \E q \in FieldPaths[n - 1][u] : path = Under(name, q)
      BY <1>6, <2>2, Zenon
    <2> QED BY <1>3, <2>1, <2>2, AtAndBelowIs
  <1>8. path \in Seq(Segment) /\ Len(q) \in Nat /\ Len(path) = Len(q) + 1
    BY <1>4, <1>7, UnderIs, Zenon
  <1>9. Along(DerefType(u), q)[Len(q)] \subseteq Along(DerefType(t), path)[Len(q) + 1]
    <2>1. Len(q) \in 0..Len(q)
      BY <1>8
    <2> QED BY <1>4, <1>7, <2>1, AlongBelow, Zenon
  <1>10. Along(DerefType(t), path)[Len(path)] # {}
    BY <1>7, <1>8, <1>9
  <1> QED BY <1>8, <1>10

LEMMA TaggedAreDocumented ==
  ASSUME NEW n \in Nat, NEW t \in GoType[n], \A u \in GoType[n - 1] : IsDocumented(n - 1, u), Tagged[n][t]
  PROVE  \A path : path \in StructFields[n][t] <=> path \in FieldPaths[n][t] /\ ~Hidden(path)
  <1>1. CASE t.type # "struct"
    BY <1>1, BelowType
  <1>2. CASE t.type = "struct"
    <2> DEFINE A == GoType[n - 1]
               name(k) == t.fields[k].yaml.name
               type(k) == t.fields[k].type
               SF == StructFields[n - 1]
               FP == FieldPaths[n - 1]
               E == Exported(t)
    <2>1. \A k \in E : k \in Int /\ TaggedAlone(t, k) /\ Tagged[n - 1][type(k)] /\ t.fields[k] \in FieldsOver(A)
      <3>1. t.fields \in Seq(FieldsOver(A)) /\ \A k \in E : k \in DOMAIN t.fields
        BY <1>2, TypeIs DEF Exported
      <3>2. \A k \in E : k \in Int /\ t.fields[k] \in FieldsOver(A)
        BY <3>1, ElementOfSeq
      <3>3. \A k \in E : TaggedAlone(t, k) /\ Tagged[n - 1][type(k)]
        BY <1>2, BelowType, Zenon
      <3> QED BY <3>2, <3>3
    <2>2. \A k \in E : name(k) \in Segment /\ PathName(t.fields[k]) = name(k) /\ DocName(t.fields[k]) = name(k) /\ type(k) \in A
      <3> SUFFICES ASSUME NEW k \in E PROVE name(k) \in Segment /\ PathName(t.fields[k]) = name(k)
                                            /\ DocName(t.fields[k]) = name(k) /\ type(k) \in A
        OBVIOUS
      <3>1. Spelled(t.fields[k])
        BY <2>1, Zenon DEF TaggedAlone, Spelled
      <3> QED BY <2>1, <3>1, FieldIs
    <2>3. \A k \in E : FieldNames(t.fields[k], SF) = AtAndBelow(name(k), SF[type(k)])
      <3> SUFFICES ASSUME NEW k \in E PROVE FieldNames(t.fields[k], SF) = AtAndBelow(name(k), SF[type(k)])
        OBVIOUS
      <3>1. DocName(t.fields[k]) # ""
        BY <2>1, <2>2, Zenon DEF TaggedAlone
      <3> QED BY <2>2, <3>1, Zenon DEF FieldNames
    <2>4. \A k \in E : name(k) # "-" => FieldType(t, name(k)) = {type(k)}
      <3> SUFFICES ASSUME NEW k \in E, name(k) # "-" PROVE FieldType(t, name(k)) = {type(k)}
        OBVIOUS
      <3>1. FieldsNamed(t, name(k)) = {k}
        BY <2>1, Zenon DEF TaggedAlone
      <3> QED BY <2>1, <3>1, FieldTypeAlone
    <2>5. \A k \in E : \A q : q \in SF[type(k)] <=> q \in FP[type(k)] /\ ~Hidden(q)
      BY <2>1, <2>2, Zenon DEF IsDocumented
    <2>6. \A k \in E : \A q \in FP[type(k)] : q \in Seq(Segment)
      BY <2>2, Zenon DEF IsDocumented
    <2>7. \A path : path \in StructFields[n][t] <=> \E k \in E : name(k) # "-" /\ path \in AtAndBelow(name(k), SF[type(k)])
      <3>1. \A path : path \in StructFields[n][t] <=> \E k \in E : DocName(t.fields[k]) # "-" /\ path \in FieldNames(t.fields[k], SF)
        BY <1>2, BelowType, Zenon
      <3> QED BY <2>2, <2>3, <3>1, Zenon
    <2>8. \A path : path \in FieldPaths[n][t] <=> \E k \in E : \E u \in FieldType(t, name(k)) : path \in AtAndBelow(name(k), FP[u])
      <3>1. \A path : path \in FieldPaths[n][t] <=>
                 \E k \in E : \E u \in FieldType(t, PathName(t.fields[k])) : path \in AtAndBelow(PathName(t.fields[k]), FP[u])
        BY <1>2, BelowType, Zenon
      <3> QED BY <2>2, <3>1, Zenon
    <2>9. \A k \in E : \A path : Hidden(path) \/ name(k) # "-" \/ \A S : (\A q \in S : q \in Seq(Segment)) => path \notin AtAndBelow(name(k), S)
      BY <2>2, BelowDash, Zenon
    <2>10. \A k \in E : name(k) # "-" => \A path : path \in AtAndBelow(name(k), SF[type(k)]) <=>
                                            path \in AtAndBelow(name(k), FP[type(k)]) /\ ~Hidden(path)
      <3> SUFFICES ASSUME NEW k \in E, name(k) # "-", NEW path
                   PROVE  path \in AtAndBelow(name(k), SF[type(k)]) <=> path \in AtAndBelow(name(k), FP[type(k)]) /\ ~Hidden(path)
        BY Zenon
      <3>1. name(k) \in Segment
        BY <2>2
      <3>2. \A q \in FP[type(k)] : q \in Seq(Segment)
        BY <2>6, Zenon
      <3>3. \A q : q \in SF[type(k)] <=> q \in FP[type(k)] /\ ~Hidden(q)
        BY <2>5, Zenon
      <3> HIDE DEF name, SF, FP, type
      <3> QED BY <3>1, <3>2, <3>3, BelowShown
    <2> HIDE DEF name, type, SF, FP, E, A
    <2>11. ASSUME NEW path \in StructFields[n][t] PROVE path \in FieldPaths[n][t] /\ ~Hidden(path)
      <3>1. PICK k \in E : name(k) # "-" /\ path \in AtAndBelow(name(k), SF[type(k)])
        BY <2>7, <2>11, Zenon
      <3>2. path \in AtAndBelow(name(k), FP[type(k)]) /\ ~Hidden(path)
        BY <2>10, <3>1, Zenon
      <3>3. type(k) \in FieldType(t, name(k))
        BY <2>4, <3>1, Zenon
      <3> QED BY <2>8, <3>2, <3>3, Zenon
    <2>12. ASSUME NEW path \in FieldPaths[n][t], ~Hidden(path) PROVE path \in StructFields[n][t]
      <3>1. PICK k \in E : \E u \in FieldType(t, name(k)) : path \in AtAndBelow(name(k), FP[u])
        BY <2>8, <2>12, Zenon
      <3>2. PICK u \in FieldType(t, name(k)) : path \in AtAndBelow(name(k), FP[u])
        BY <3>1
      <3>3. \A q \in FP[u] : q \in Seq(Segment)
        <4>1. u \in GoType[n - 1]
          BY FieldTypeIs
        <4> QED BY <4>1, Zenon DEF IsDocumented, FP
      <3>4. name(k) # "-"
        BY <2>9, <2>12, <3>2, <3>3, Zenon
      <3>5. u = type(k)
        BY <2>4, <3>2, <3>4, Zenon
      <3>6. path \in AtAndBelow(name(k), SF[type(k)])
        BY <2>10, <2>12, <3>2, <3>4, <3>5, Zenon
      <3> QED BY <2>7, <3>4, <3>6, Zenon
    <2> QED BY <2>11, <2>12, Zenon
  <1> QED BY <1>1, <1>2, Zenon

LEMMA AnyIsDocumented == \A n \in Nat : \A t \in GoType[n] : IsDocumented(n, t)
  <1> DEFINE S == {n \in Nat : \A t \in GoType[n] : IsDocumented(n, t)}
  <1>1. 0 \in S
    <2> SUFFICES ASSUME NEW t \in GoType[0] PROVE IsDocumented(0, t)
      OBVIOUS
    <2>1. t.type # "struct"
      BY TypeIs
    <2>2. StructFields[0][t] = {} /\ FieldPaths[0][t] = {}
      BY <2>1, BelowType
    <2> QED BY <2>2, Zenon DEF IsDocumented
  <1>2. ASSUME NEW n \in Nat, n \in S PROVE n + 1 \in S
    <2> DEFINE m == n + 1
    <2>1. m \in Nat /\ m - 1 = n
      OBVIOUS
    <2> HIDE DEF m
    <2>2. \A u \in GoType[m - 1] : IsDocumented(m - 1, u)
      BY <1>2, <2>1
    <2>3. ASSUME NEW t \in GoType[m] PROVE IsDocumented(m, t)
      BY <2>1, <2>2, PathReaches, TaggedAreDocumented, Zenon DEF IsDocumented
    <2> QED BY <2>1, <2>3 DEF m
  <1> HIDE DEF S
  <1>3. Nat \subseteq S
    BY <1>1, <1>2, Nesting!ByNumber
  <1> QED BY <1>3 DEF S

(* What the documentation calls a field is what a column may call it. *)
LEMMA AnyFieldHasOneName ==
  ASSUME NEW t \in GoType[TypeLevels]
  PROVE  OneNameEach(t)
  <1>1. SUFFICES ASSUME Tagged[TypeLevels][t]
                 PROVE  /\ \A path \in Of(t) : ValidPath(t, Basic("none"), <<"spec">> \o path)
                        /\ {path \in FieldPaths[TypeLevels][t] : ~Hidden(path)} = Of(t)
    BY Zenon DEF OneNameEach
  <1>2. IsDocumented(TypeLevels, t)
    BY TypeAssumption, AnyIsDocumented
  <1>3. \A path : path \in Of(t) <=> path \in FieldPaths[TypeLevels][t] /\ ~Hidden(path)
    BY <1>1, <1>2, Zenon DEF IsDocumented, Of
  <1>4. ASSUME NEW path \in Of(t) PROVE ValidPath(t, Basic("none"), <<"spec">> \o path)
    <2> DEFINE whole == <<"spec">> \o path
    <2>1. path \in Seq(Segment) /\ Along(DerefType(t), path)[Len(path)] # {}
      BY <1>2, <1>3, <1>4, Zenon DEF IsDocumented
    <2>2. whole # <<>> /\ Head(whole) = "spec" /\ Tail(whole) = path
      BY <2>1
    <2> HIDE DEF whole
    <2>3. ValidUnder(DerefType(t), Tail(whole))
      BY <2>1, <2>2, Zenon DEF ValidUnder
    <2>4. ValidPath(t, Basic("none"), whole)
      BY <2>2, <2>3, ValidIs, Zenon
    <2> QED BY <2>4 DEF whole
  <1> QED BY <1>3, <1>4
=============================================================================
