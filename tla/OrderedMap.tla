------------------------------ MODULE OrderedMap ------------------------------
(***************************************************************************)
(* protocol.Map of protocol/ordered.go: an object that remembers the order *)
(* of its keys, how it is read from JSON and from a manifest, and how it   *)
(* is written.                                                             *)
(*                                                                         *)
(* A document is a sequence of members, <<key, value>>; a value is null, a *)
(* number, a number carried as a text, a list or an object, a document.    *)
(* Keys are numbers too, in alphabetical order.  A Map is a document no    *)
(* key of which appears twice.  Numbers are integers at the widths of a    *)
(* small machine: an int holds -IntLimit..IntLimit-1, a float every        *)
(* integer of at most Digits binary digits, times a power of two, up to    *)
(* 2^FloatBits.                                                            *)
(***************************************************************************)
EXTENDS Integers, Sequences, FiniteSets
LOCAL INSTANCE FiniteSetsExt

CONSTANTS IntLimit, Digits, FloatBits,
          Levels  \* how deep a document may be nested

ASSUME OrderedMapAssumption ==
  IntLimit \in Nat /\ Digits \in Nat \ {0} /\ FloatBits \in Nat /\ Levels \in Nat

Null       == [null |-> TRUE]
Number(n)  == [number |-> n]
Numeral(n) == [text |-> n]
List(l)    == [list |-> l]
Object(d)  == [object |-> d]
Untyped(v) == [any |-> v]    \* a value read into any: its objects are Go maps

(* The values of at most n levels. *)
JSON[n \in Nat] ==
  {Null} \cup [number : Int] \cup [text : Int] \cup
    IF n = 0 THEN {} ELSE [list : Seq(JSON[n - 1])] \cup [object : Seq(Int \X JSON[n - 1])]

IsDocument(d) == Object(d) \in JSON[Levels]

Keys(d) == {d[k][1] : k \in DOMAIN d}

(* Set appends a key, or replaces one already present without moving it.    *)
Set(m, key, value) ==
  IF key \in Keys(m)
  THEN [m EXCEPT ![CHOOSE k \in DOMAIN m : m[k][1] = key] = <<key, value>>]
  ELSE Append(m, <<key, value>>)

(* A function of the elements of a list, and of the values of a document.   *)
Each(l, f)      == [k \in DOMAIN l |-> f[l[k]]]
EachValue(d, f) == [k \in DOMAIN d |-> <<d[k][1], f[d[k][2]]>>]

(* decodeInto: every member is set in turn. *)
SetAll(members) ==
  LET map[n \in 0..Len(members)] ==
        IF n = 0 THEN <<>> ELSE Set(map[n - 1], members[n][1], members[n][2])
  IN  map[Len(members)]

-----------------------------------------------------------------------------
(* Numbers. *)

Magnitude(n) == IF n < 0 THEN 0 - n ELSE n

TwoTo[e \in Nat] == IF e = 0 THEN 1 ELSE 2 * TwoTo[e - 1]

(* The float nearest to an integer: all but its first Digits binary digits  *)
(* are rounded away.                                                        *)
Unit(n) == TwoTo[Min({e \in 0..FloatBits : n \div TwoTo[e] < TwoTo[Digits]})]

Nearest(n) == ((n + Unit(n) \div 2) \div Unit(n)) * Unit(n)

Rounded(n) == IF n < 0 THEN 0 - Nearest(0 - n) ELSE Nearest(n)

(* Wrong: every number is read as a float. *)
NormalizeFloats(n) == IF Magnitude(n) <= TwoTo[FloatBits] THEN Number(Rounded(n)) ELSE Numeral(n)

(* normalizeNumber: an int when it is one, or else a float, or else its     *)
(* text.                                                                    *)
NormalizeNumber(n) ==
  IF -IntLimit <= n /\ n < IntLimit THEN Number(n)
  ELSE IF Magnitude(n) <= TwoTo[FloatBits] THEN Number(Rounded(n))
  ELSE Numeral(n)

Normalize(v) == IF "number" \in DOMAIN v THEN NormalizeNumber(v.number) ELSE v

-----------------------------------------------------------------------------
(* UnmarshalJSON, decodeValue: nested objects are ordered too.              *)
DecodeValue[n \in Nat] ==
  [v \in JSON[n] |->
     IF "list" \in DOMAIN v THEN List(Each(v.list, DecodeValue[n - 1]))
     ELSE IF "object" \in DOMAIN v THEN Object(SetAll(EachValue(v.object, DecodeValue[n - 1])))
     ELSE Normalize(v)]

Decode(doc) == DecodeValue[Levels][Object(doc)].object

(* UnmarshalYAML: what is below the first mapping is read into any, and     *)
(* yaml refuses a mapping there with a key twice.                           *)
Unique(d) == \A k, l \in DOMAIN d : d[k][1] = d[l][1] => k = l

Readable[n \in Nat] ==
  [v \in JSON[n] |->
     IF "list" \in DOMAIN v THEN \A k \in DOMAIN v.list : Readable[n - 1][v.list[k]]
     ELSE IF "object" \in DOMAIN v
     THEN Unique(v.object) /\ \A k \in DOMAIN v.object : Readable[n - 1][v.object[k][2]]
     ELSE TRUE]

DecodeManifest(doc) == SetAll([k \in DOMAIN doc |-> <<doc[k][1], Untyped(doc[k][2])>>])

-----------------------------------------------------------------------------
(* A member's place in the order of the keys, none of which is there twice. *)
Place(d, k) == Cardinality({l \in DOMAIN d : d[l][1] <= d[k][1]})

Sorted(d) == [i \in DOMAIN d |-> d[CHOOSE k \in DOMAIN d : Place(d, k) = i]]

(* A value as it is written: a Map in its order, a Go map in the order of   *)
(* its keys.  A list that was read without an element is a nil slice, which *)
(* is written as null; yaml makes another of it.                            *)
EncodeValue[n \in Nat] ==
  [v \in JSON[n] |->
     IF "list" \in DOMAIN v THEN IF v.list = <<>> THEN Null ELSE List(Each(v.list, EncodeValue[n - 1]))
     ELSE IF "object" \in DOMAIN v THEN Object(EachValue(v.object, EncodeValue[n - 1]))
     ELSE v]

EncodeAny[n \in Nat] ==
  [v \in JSON[n] |->
     IF "list" \in DOMAIN v THEN List(Each(v.list, EncodeAny[n - 1]))
     ELSE IF "object" \in DOMAIN v THEN Object(Sorted(EachValue(v.object, EncodeAny[n - 1])))
     ELSE v]

(* MarshalJSON: the members' values are a level down. *)
Encode(m) ==
  [k \in DOMAIN m |->
     <<m[k][1], IF "any" \in DOMAIN m[k][2] THEN EncodeAny[Levels - 1][m[k][2].any]
                                            ELSE EncodeValue[Levels - 1][m[k][2]]>>]

-----------------------------------------------------------------------------
FirstOf(doc, key) == Min({k \in DOMAIN doc : doc[k][1] = key})
LastOf(doc, key)  == Max({k \in DOMAIN doc : doc[k][1] = key})

(* Every key of a document once, and in the order the keys first appeared.  *)
OnceEach(m, doc) == Unique(m) /\ Keys(m) = Keys(doc)

InOrder(m, doc) == \A k, l \in DOMAIN m : k < l => FirstOf(doc, m[k][1]) < FirstOf(doc, m[l][1])

(* What is kept of a value: the keys of its objects, each with the value    *)
(* given last, and numbers as far as they can be held; if asked, the order  *)
(* of the keys, and that an empty list is still a list.                     *)
Keeps(levels, got, given, asked) ==
  LET keeps[n \in Nat] ==
        [pair \in JSON[n] \X JSON[n] |->
           LET new == pair[1]
               old == pair[2]
           IN
           IF "list" \in DOMAIN old
           THEN \/ "lists" \notin asked /\ old.list = <<>> /\ new = Null
                \/ /\ DOMAIN new = {"list"} /\ Len(new.list) = Len(old.list)
                   /\ \A k \in DOMAIN new.list : keeps[n - 1][<<new.list[k], old.list[k]>>]
           ELSE IF "object" \in DOMAIN old
           THEN /\ DOMAIN new = {"object"} /\ OnceEach(new.object, old.object)
                /\ "order" \in asked => InOrder(new.object, old.object)
                /\ \A k \in DOMAIN new.object :
                     keeps[n - 1][<<new.object[k][2], old.object[LastOf(old.object, new.object[k][1])][2]>>]
           ELSE new = Normalize(old)]
  IN  keeps[levels][<<got, given>>]

(* The wire keeps the order of a spec's fields, nested ones too             *)
(* (ordered.go:71), and everything in it, however often it is read and      *)
(* written: from the second reading on, nothing changes.                    *)
KeepsOrder(doc) ==
  LET once  == Decode(doc)
      twice == Decode(Encode(once))
  IN
  /\ Keeps(Levels, Object(once), Object(doc), {"order", "lists"})
  /\ Keeps(Levels, Object(twice), Object(doc), {"order"})
  /\ Decode(Encode(twice)) = twice

(* A manifest that yaml reads reaches a provider whole, each key with the   *)
(* value given last, and in its own order at its first level                *)
(* (ordered.go:204).                                                        *)
IsManifest(doc) == \A k \in DOMAIN doc : Readable[Levels - 1][doc[k][2]]

Arrived(doc) == Decode(Encode(DecodeManifest(doc)))

KeepsManifest(doc) ==
  LET m == Arrived(doc) IN
  IsManifest(doc) =>
    /\ OnceEach(m, doc) /\ InOrder(m, doc)
    /\ \A k \in DOMAIN m : Keeps(Levels - 1, m[k][2], doc[LastOf(doc, m[k][1])][2], {"lists"})

(* A number is the narrowest thing that is still right (ordered.go:138): an *)
(* int crosses as it is, and what one crossing rounded or made a text, the  *)
(* next does not change again.                                              *)
NumberSurvives(n) ==
  LET once == NormalizeNumber(n) IN
  /\ -IntLimit <= n /\ n < IntLimit => once = Number(n)
  /\ "number" \in DOMAIN once => NormalizeNumber(once.number) = once
=============================================================================
