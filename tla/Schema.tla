-------------------------------- MODULE Schema --------------------------------
(***************************************************************************)
(* The fields of a spec or a status as they are documented,                *)
(* schema/schema.go, beside the paths that reach them, core/path.go: two   *)
(* readings of one Go type's tags.  The names of a type's fields are a set *)
(* of paths here.                                                          *)
(***************************************************************************)
EXTENDS PathTypes

CONSTANT LowerFirst \* a Go name |-> with its first letter in lower case

(* Wrong: the tag is looked for in json first. *)
JSONName(f) == IF f.json.written THEN f.json.name ELSE f.yaml.name

(* yamlName: the yaml tag's name, or the json tag's without one. *)
DocName(f) == IF f.yaml.written THEN f.yaml.name ELSE f.json.name

AtAndBelow(name, paths) == {<<name>>} \cup {<<name>> \o path : path \in paths}

(* structFields: a field is documented by its name, those of a nested       *)
(* struct below the field that holds it; an embedded struct without a name  *)
(* adds its own, and a field named - is left out.                           *)
FieldNames(f, below) ==
  IF DocName(f) = "" /\ f.embedded /\ f.type.type \in {"struct", "opaque"} THEN below[f.type]
  ELSE AtAndBelow(IF DocName(f) = "" THEN LowerFirst[f.go] ELSE DocName(f), below[f.type])

Exported(t) == {k \in DOMAIN t.fields : t.fields[k].exported}

StructFields[n \in Nat] ==
  [t \in GoType[n] |->
     IF t.type # "struct" THEN {}
     ELSE UNION {FieldNames(t.fields[k], StructFields[n - 1]) : k \in {l \in Exported(t) : DocName(t.fields[l]) # "-"}}]

(* Of: a type without fields documents none. *)
Of(t) == StructFields[TypeLevels][t]

-----------------------------------------------------------------------------
(* The paths below a type that stay among the fields of structs. *)
PathsTo(t, name, below) == UNION {AtAndBelow(name, below[u]) : u \in FieldType(t, name)}

FieldPaths[n \in Nat] ==
  [t \in GoType[n] |->
     IF t.type # "struct" THEN {}
     ELSE UNION {PathsTo(t, PathName(t.fields[k]), FieldPaths[n - 1]) : k \in Exported(t)}]

(* Every exported field is tagged for yaml, by a name of its own, or hidden. *)
TaggedAlone(t, k) ==
  t.fields[k].yaml.name # "" /\ (t.fields[k].yaml.name = "-" \/ FieldsNamed(t, t.fields[k].yaml.name) = {k})

Tagged[n \in Nat] ==
  [t \in GoType[n] |->
     t.type = "struct" => \A k \in Exported(t) : TaggedAlone(t, k) /\ Tagged[n - 1][t.fields[k].type]]

Hidden(path) == \E k \in DOMAIN path : path[k] = "-"

(* What the documentation calls a field is what a column may call it: of a  *)
(* type whose fields are tagged, every documented name is a path ValidPath  *)
(* accepts, and every path to a field that is not hidden is documented      *)
(* (schema.go:50, path.go:186).                                             *)
OneNameEach(t) ==
  Tagged[TypeLevels][t] =>
    /\ \A path \in Of(t) : ValidPath(t, Basic("none"), <<"spec">> \o path)
    /\ {path \in FieldPaths[TypeLevels][t] : ~Hidden(path)} = Of(t)
=============================================================================
