--------------------------------- MODULE Path ---------------------------------
(***************************************************************************)
(* Dotted paths into objects, core/path.go: what one names in an object,   *)
(* before and after the object crosses the wire.                           *)
(*                                                                         *)
(* A path is a sequence of segments, names that may be empty, and has one  *)
(* at least.  A value is nil, a number, a text, a list, or something with  *)
(* members: a Go struct, a Go map, or an ordered map, which is what structs *)
(* and maps arrive as; or a pointer to one of those.  The fields of a      *)
(* struct go by the names a path spells; beside them is which are tagged   *)
(* omitempty, the name encoding/json writes each by ("" for none), and     *)
(* which is an embedded struct it writes inline.                           *)
(***************************************************************************)
EXTENDS Naturals, Sequences

CONSTANTS Value,  \* the values a handler has
          Depth,  \* value |-> how deep it is nested
          Segment \* the names a path is made of

Nil        == [nil |-> TRUE]
Num(n)     == [num |-> n]
Txt(s)     == [txt |-> s]
Lst(l)     == [list |-> l]
Map(f)     == [map |-> f]
Ordered(f) == [ordered |-> f]
Ptr(v)     == [to |-> v]

Struct(f, omit, json, inlined) == [struct |-> f, omit |-> omit, json |-> json, inlined |-> inlined]

(* A struct whose fields have one name each. *)
OneNamed(f, omit) == Struct(f, omit, [n \in DOMAIN f |-> n], {})

NoMembers == [n \in {} |-> Nil]

(* A value is made of values that are less deep; a struct embeds one other  *)
(* at most, and no two fields of its own are written by one name.           *)
Holds(v, w) == w \in Value /\ Depth[w] < Depth[v]

IsValue(v) ==
  \/ v = Nil \/ DOMAIN v \in {{"num"}, {"txt"}, {"list"}}
  \/ DOMAIN v = {"to"} /\ DOMAIN v.to # {"to"} /\ Holds(v, v.to)
  \/ DOMAIN v = {"map"} /\ v = Map(v.map) /\ \A n \in DOMAIN v.map : Holds(v, v.map[n])
  \/ /\ DOMAIN v = {"struct", "omit", "json", "inlined"}
     /\ v.omit \cup v.inlined \subseteq DOMAIN v.struct /\ DOMAIN v.json = DOMAIN v.struct
     /\ \A n, m \in DOMAIN v.struct \ v.inlined : v.json[n] = v.json[m] /\ v.json[n] # "" => n = m
     /\ \A n, m \in v.inlined : n = m
     /\ \A n \in DOMAIN v.struct : Holds(v, v.struct[n])

Deref(v) == IF "to" \in DOMAIN v THEN v.to ELSE v

(* Wrong: an ordered map is reflected over, and has no exported field.      *)
MembersReflected(v) ==
  IF "struct" \in DOMAIN Deref(v) THEN Deref(v).struct
  ELSE IF "map" \in DOMAIN Deref(v) THEN Deref(v).map
  ELSE NoMembers

(* field: what has members, behind a pointer or not. *)
Members(v) ==
  IF "struct" \in DOMAIN Deref(v) THEN Deref(v).struct
  ELSE IF "map" \in DOMAIN Deref(v) THEN Deref(v).map
  ELSE IF "ordered" \in DOMAIN Deref(v) THEN Deref(v).ordered
  ELSE NoMembers

Field(v, name) == {Members(v)[n] : n \in {name} \cap DOMAIN Members(v)}

(* The values a path leads through, one or none after each segment.         *)
Walk(v, path) ==
  LET at[k \in 0..Len(path)] ==
        IF k = 0 THEN {v}
        ELSE IF path[k] = "" THEN {}
        ELSE UNION {Field(w, path[k]) : w \in at[k - 1]}
  IN  at

(* Resolve: the value a path names, if it names one.                        *)
Resolve(v, path) == Walk(v, path)[Len(path)]

(* isEmptyValue: a zero number is an answer, an empty collection is not.    *)
Nothing(v) == Deref(v) \in {Nil, Txt(""), Lst(<<>>), Map(NoMembers)}

(* Lookup: the first alternative that names something.                      *)
Lookup(v, paths) ==
  LET found == {k \in DOMAIN paths : \E w \in Resolve(v, paths[k]) : ~Nothing(w)} IN
  IF found = {} THEN {} ELSE Resolve(v, paths[CHOOSE k \in found : \A l \in found : k <= l])

-----------------------------------------------------------------------------
(* Crossing the wire: a struct or a map is written as a JSON object and     *)
(* read as an ordered map.  A field is written by its json name, unless it  *)
(* is empty and tagged omitempty; the members of an embedded struct stand   *)
(* among the others, which win over them.  A pointer is left out when it is *)
(* nil, whatever it would point to; a list without an element arrives as    *)
(* null, the second time it crosses; what has arrived stays as it is.       *)
Omitted(v) == v \in {Nil, Num(0), Txt(""), Lst(<<>>), Map(NoMembers)}

Own(u) == DOMAIN u.struct \ u.inlined

FieldsWritten(u) == {n \in Own(u) : u.json[n] # "" /\ ~(n \in u.omit /\ Omitted(u.struct[n]))}

CrossedMembers(u, cross) ==
  LET below == IF u.inlined = {} THEN NoMembers ELSE Members(cross[u.struct[CHOOSE n \in u.inlined : TRUE]])
  IN  [name \in {u.json[n] : n \in FieldsWritten(u)} \cup (DOMAIN below \ {u.json[n] : n \in Own(u)}) |->
         IF \E n \in FieldsWritten(u) : u.json[n] = name
         THEN cross[u.struct[CHOOSE n \in FieldsWritten(u) : u.json[n] = name]]
         ELSE below[name]]

Cross(v) ==
  LET cross[w \in Value] ==
        IF "struct" \in DOMAIN w THEN Ordered(CrossedMembers(w, cross))
        ELSE IF "map" \in DOMAIN w THEN Ordered([n \in DOMAIN w.map |-> cross[w.map[n]]])
        ELSE IF "to" \in DOMAIN w THEN cross[w.to]
        ELSE IF w = Lst(<<>>) THEN Nil
        ELSE w
  IN  IF "ordered" \in DOMAIN v THEN v ELSE cross[v]

(* The two sides' Object is a struct, whose spec and status cross; the rest *)
(* of it is the same on both.                                               *)
Kind     == Txt("Kind")
Metadata == OneNamed([name |-> Txt("name"), labels |-> Map([x |-> Txt("v")])], {"labels"})

ObjectOf(spec, status) ==
  OneNamed([kind |-> Kind, spec |-> spec, status |-> status, metadata |-> Metadata], {})

ASSUME ValueAssumption ==
  /\ Depth \in [Value -> Nat]
  /\ \A v \in Value : IsValue(v)
  /\ {Nil, Kind, Metadata} \subseteq Value

-----------------------------------------------------------------------------
(* Three ways for a path to find something else on the other side: it leads *)
(* to a struct whose yaml and json names differ, it ends at a zero number   *)
(* that is left out, or at an empty map.                                    *)
NamedAlike(u) == "struct" \in DOMAIN u => u.inlined = {} /\ \A n \in DOMAIN u.struct : u.json[n] = n

Misnamed(o, path) == \E k \in 0..(Len(path) - 1) : \E u \in Walk(o, path)[k] : ~NamedAlike(Deref(u))

OmittedZero(u, name) == Num(0) \in Field(u, name) /\ "omit" \in DOMAIN Deref(u) /\ name \in Deref(u).omit

EndsAtZero(o, path) == \E u \in Walk(o, path)[Len(path) - 1] : OmittedZero(u, path[Len(path)])

EndsAtEmptyMap(o, path) == \E w \in Resolve(o, path) : Deref(w) = Map(NoMembers)

Pitfall(o, path) == Misnamed(o, path) \/ EndsAtZero(o, path) \/ EndsAtEmptyMap(o, path)

(* The same path works against what a handler returns and against what      *)
(* arrives (path.go:33): Lookup finds the same on both sides, where no path *)
(* meets a pitfall.                                                         *)
SameOnBothSides(v, paths) ==
  (\A k \in DOMAIN paths : ~Pitfall(ObjectOf(v, Nil), paths[k])) =>
    {Cross(w) : w \in Lookup(ObjectOf(Cross(v), Nil), paths)} = {Cross(w) : w \in Lookup(ObjectOf(v, Nil), paths)}
=============================================================================
