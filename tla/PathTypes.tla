------------------------------- MODULE PathTypes -------------------------------
(***************************************************************************)
(* Go types as core/path.go sees them, and whether the types of a kind     *)
(* have what a path names.                                                 *)
(*                                                                         *)
(* A type is a number, a text, an interface, an opaque struct (time.Time), *)
(* nothing at all, a map or a list of some type, or a struct: a sequence   *)
(* of fields, each with its Go name, its tags and its type; and it is      *)
(* behind a number of pointers.  Types are nested at most TypeLevels deep, *)
(* and none holds itself.                                                  *)
(***************************************************************************)
EXTENDS Path

CONSTANTS TypeLevels,
          OfType \* <<type, value>>, the values of a type

NoTag     == [name |-> "", written |-> FALSE]
Tag(name) == [name |-> name, written |-> TRUE]
Tags      == {NoTag} \cup [name : Segment, written : {TRUE}]

GoField(go, yaml, json, exported, embedded, type) ==
  [go |-> go, yaml |-> yaml, json |-> json, exported |-> exported, embedded |-> embedded, type |-> type]

Basic(t)         == [type |-> t, pointers |-> 0]
MapOf(t)         == [type |-> "map", of |-> t, pointers |-> 0]
ListOf(t)        == [type |-> "list", of |-> t, pointers |-> 0]
GoStruct(fields) == [type |-> "struct", fields |-> fields, pointers |-> 0]
Optional(t)      == [t EXCEPT !.pointers = @ + 1]

FieldsOver(types) ==
  [go : Segment, yaml : Tags, json : Tags, exported : BOOLEAN, embedded : BOOLEAN, type : types]

(* The types of at most n levels. *)
GoType[n \in Nat] ==
  [type : {"number", "text", "any", "opaque", "none"}, pointers : Nat] \cup
    IF n = 0 THEN {}
    ELSE [type : {"map", "list"}, of : GoType[n - 1], pointers : Nat] \cup
         [type : {"struct"}, fields : Seq(FieldsOver(GoType[n - 1])), pointers : Nat]

(* derefType: behind any number of pointers.                                *)
DerefType(t) == [t EXCEPT !.pointers = 0]

-----------------------------------------------------------------------------
(* yamlName: the name a path spells. *)
PathName(f) == IF f.yaml.name = "" THEN f.go ELSE f.yaml.name

(* fieldType: the type of the first exported field of a name. *)
FieldsNamed(t, name) ==
  IF t.type # "struct" THEN {}
  ELSE {k \in DOMAIN t.fields : t.fields[k].exported /\ PathName(t.fields[k]) = name}

FieldType(t, name) ==
  {t.fields[k].type : k \in {l \in FieldsNamed(t, name) : \A m \in FieldsNamed(t, name) : l <= m}}

(* The types a path goes through, one or none at each of its segments.      *)
Behind(types, name) == {DerefType(u) : u \in UNION {FieldType(t, name) : t \in types}}

Along(t, path) ==
  LET at[k \in 0..Len(path)] == IF k = 0 THEN {t} ELSE Behind(at[k - 1], path[k])
  IN  at

(* A map may have any key; an interface has no field. *)
ValidUnder(t, path) ==
  \/ Along(t, path)[Len(path)] # {}
  \/ \E k \in 0..(Len(path) - 1) : \E u \in Along(t, path)[k] : u.type = "map"

(* validOne: a path below a spec or status without a type is given the      *)
(* benefit of the doubt.                                                    *)
MetadataType ==
  GoStruct(<<GoField("Name", Tag("name"), Tag("name"), TRUE, FALSE, Basic("text")),
             GoField("Labels", Tag("labels"), Tag("labels"), TRUE, FALSE, MapOf(Basic("text")))>>)

ValidPath(spec, status, path) ==
  LET root == IF path = <<>> THEN "" ELSE Head(path)
      Under(t) == Len(path) = 1 \/ t.type = "none" \/ ValidUnder(DerefType(t), Tail(path))
  IN
  \/ root = "kind" /\ Len(path) = 1
  \/ root = "metadata" /\ Under(MetadataType)
  \/ root = "spec" /\ Under(spec)
  \/ root = "status" /\ Under(status)

-----------------------------------------------------------------------------
(* A value of a type has the members the type has fields; a value of a type *)
(* with pointers is nil, or what it points to is of the type pointed to.    *)
IsOfType(t, v) ==
  IF t.pointers > 0
  THEN v = Nil \/ (DOMAIN v = {"to"} /\ <<[t EXCEPT !.pointers = @ - 1], v.to>> \in OfType)
  ELSE
  \/ t.type = "any"
  \/ t.type \in {"number", "text", "opaque", "none", "list"} /\ DOMAIN v \in {{"nil"}, {"num"}, {"txt"}, {"list"}}
  \/ t.type = "map" /\ (v = Nil \/ (DOMAIN v = {"map"} /\ \A n \in DOMAIN v.map : <<t.of, v.map[n]>> \in OfType))
  \/ /\ t.type = "struct" /\ "struct" \in DOMAIN v
     /\ \A n \in DOMAIN v.struct : \E u \in FieldType(t, n) : <<u, v.struct[n]>> \in OfType

ASSUME TypeAssumption ==
  /\ TypeLevels \in Nat
  /\ <<MetadataType, Metadata>> \in OfType
  /\ \A typed \in OfType :
       /\ \E n \in 0..TypeLevels : typed[1] \in GoType[n]
       /\ typed[2] \in Value /\ IsOfType(typed[1], typed[2])

(* A path that names something in an object of a kind is one ValidPath      *)
(* accepts (path.go:109), so that no column is refused that could show a    *)
(* value; but an interface's members are not known, and refused.            *)
ThroughInterface(t, path) ==
  \E k \in 0..(Len(path) - 1) : \E u \in Along(t, path)[k] : u.type = "any"

NamedIsValid(spec, v, path) ==
  Resolve(ObjectOf(v, Nil), path) # {} /\ ~(Head(path) = "spec" /\ ThroughInterface(DerefType(spec), Tail(path)))
  => ValidPath(spec, Basic("none"), path)
=============================================================================
