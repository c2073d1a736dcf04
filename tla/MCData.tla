------------------------------- MODULE MCData -------------------------------
(* The pure algorithms of the SDK over bounded inputs, one input a state.   *)
EXTENDS Data, TLC

CONSTANTS TextLength, \* the longest selector text
          PageLength, \* the longest page
          FrontLength, \* the longest page with front matter
          DocLength,  \* the most members of a document
          Largest     \* the largest number

SeqsTo(S, n) == UNION {[1..k -> S] : k \in 0..n}

SomeWords == STRING
SomeMarks == {"a", "b", "=", "!", ",", " "}

Pieces == {Prose("p"), Space, Begin("spec"), End("spec"), Begin("status"), End("status"),
           Table("spec", "old")}

FrontPieces == {Prose("p"), Space, Begin("spec"), End("spec"), Rule, Dashes, Key("title", "t"), Heading("h")}

(* Two kinds of one page, or of one each; a page that is there, or missing; *)
(* and pages of one kind that may have front matter.                        *)
Alone == [kinds |-> <<"k1">>, slugOf |-> [k1 |-> "one"], fails |-> 0]
Two   == {[kinds |-> <<"k1", "k2">>, slugOf |-> [k1 |-> "one", k2 |-> second], fails |-> fails] :
            second \in {"one", "other"}, fails \in 0..2}

SomePages ==
  {[files |-> [one |-> c[1]]] @@ c[2] :
     c \in (SeqsTo(Pieces, PageLength) \X Two) \cup (SeqsTo(FrontPieces, FrontLength) \X {Alone})}

(* A provider of two kinds, whose pages are where they are by default or    *)
(* beside each other, or where core/docs.go says, with an overview and      *)
(* guides, one perhaps in a directory of its own.                           *)
SomePage == {<<>>, <<Rule, Key("subcategory", "s"), Space, Dashes, Heading("h"), Begin("spec")>>,
             <<Rule, Prose("p"), Rule>>}

Family == [one |-> <<Dir("family"), Md("one")>>, two |-> <<Dir("family"), Md("two")>>]

Within(dir, files) == [path \in {dir \o f : f \in DOMAIN files} |-> files[SubSeq(path, Len(dir) + 1, Len(path))]]

Trees ==
  UNION {{paths} \X (paths \cup {<<>>}) :
    paths \in SUBSET {<<Md("index")>>, <<Dir("guides"), Md("g")>>, <<Dir("guides"), Dir("g")>>,
                      <<Dir("guides"), Dir("d"), Md("h")>>, ResourcePage("one"), Family.one,
                      <<Dir("resources"), Md("two")>>}}

SomeProviders ==
  {[summary |-> "", dir |-> dir, layout |-> layout, sourceDir |-> sourceDir,
    kinds |-> [One |-> [singular |-> "one", description |-> description],
               Two |-> [singular |-> "two", description |-> "d"]],
    fs |-> Within(dir, [path \in tree[1] |-> IF path = tree[2] THEN page ELSE <<Prose("p")>>])] :
     tree \in Trees, layout \in {NoKeys, Family}, sourceDir \in BOOLEAN, page \in SomePage,
     dir \in {<<>>, <<Dir("docs")>>}, description \in {"", "d"}}

(* Documents of two keys, one perhaps there twice, whose values are null,   *)
(* numbers, an int or a float that is rounded, or lists and objects nested  *)
(* in alphabetical order and not, empty ones too.                           *)
SomeDocuments ==
  LET turned == Object(<< <<2, Number(0)>>, <<1, Number(21)>> >>)
      twice  == Object(<< <<1, Number(0)>>, <<1, turned>> >>)
      deep   == Object(<< <<2, turned>>, <<1, List(<<turned, List(<<>>)>>)>> >>)
  IN  SeqsTo({1, 2} \X {Null, Number(0), Number(21), Numeral(0), List(<<>>), twice, deep}, DocLength)

(* Specs with optional, nested, free-form, omitted and embedded fields, one *)
(* not tagged for json.                                                     *)
Named(name, t) == GoField("F", Tag(name), Tag(name), TRUE, FALSE, t)

SpecTypes ==
  {Optional(GoStruct(<<Named("x", Basic("number")), Named("y", Optional(Basic("number")))>>)),
   GoStruct(<<Named("x", GoStruct(<<Named("x", Basic("text")), Named("y", ListOf(Basic("text")))>>)),
              Named("y", Optional(Basic("text")))>>),
   GoStruct(<<Named("x", Optional(MapOf(Basic("text")))), Named("y", Basic("any"))>>),
   GoStruct(<<Named("x", MapOf(MapOf(Basic("number"))))>>),
   GoStruct(<<GoField("X", Tag("x"), NoTag, TRUE, FALSE, Basic("text")),
              GoField("L", NoTag, NoTag, TRUE, TRUE, Optional(GoStruct(<<Named("y", Basic("text"))>>)))>>),
   Basic("none")}

(* Values of a type: none or two numbers, texts and lists, maps of at most  *)
(* one key; an interface holds a text or a map.  All fields of a struct are *)
(* tagged omitempty, or none.                                               *)
JSONNameOf(f) == IF f.json.name = "" THEN f.go ELSE IF f.json.name = "-" THEN "" ELSE f.json.name

Inlined(f) == f.embedded /\ f.json.name = "" /\ f.type.type = "struct"

RECURSIVE Values(_)
Values(t) ==
  IF t.pointers > 0 THEN {Nil} \cup {Ptr(v) : v \in Values(DerefType(t))}
  ELSE
  CASE t.type = "none"   -> {Nil}
    [] t.type = "number" -> {Num(0), Num(1)}
    [] t.type = "text"   -> {Txt(""), Txt("t")}
    [] t.type = "list"   -> {Nil, Lst(<<>>), Lst(<<"t">>)}
    [] t.type = "any"    -> {Nil, Txt("t"), Map([x |-> Txt("t")])}
    [] t.type = "map"    -> {Nil, Map(NoMembers)} \cup {Map([x |-> v]) : v \in Values(t.of)}
    [] OTHER ->
         LET names == {PathName(t.fields[k]) : k \in DOMAIN t.fields}
             field == [n \in names |-> t.fields[CHOOSE k \in DOMAIN t.fields : PathName(t.fields[k]) = n]]
             of    == [n \in names |-> Values(field[n].type)]
         IN  {Struct(f, omit, [n \in names |-> JSONNameOf(field[n])], {n \in names : Inlined(field[n])}) :
                omit \in {{}, names},
                f \in {g \in [names -> UNION {of[n] : n \in names}] : \A n \in names : g[n] \in of[n]}}

RECURSIVE Typed(_)
Typed(t) ==
  ({t} \X Values(t)) \cup
  (IF t.pointers > 0 THEN Typed(DerefType(t))
   ELSE IF t.type = "map" THEN Typed(t.of)
   ELSE IF t.type = "struct" THEN UNION {Typed(t.fields[k].type) : k \in DOMAIN t.fields}
   ELSE {})

SomeOfType ==
  {typed : typed \in UNION {Typed(t) : t \in SpecTypes} \cup
                     {<<MetadataType, Metadata>>, <<MapOf(Basic("text")), Metadata.struct.labels>>} \cup
                     ({Basic("text")} \X {Metadata.struct.name, Txt("v")})}

Objects == UNION {{spec} \X Values(spec) : spec \in SpecTypes}

(* The values in these, and in an object of them.                           *)
Parts(v) == IF "to" \in DOMAIN v THEN {v.to} ELSE {Members(v)[n] : n \in DOMAIN Members(v)}

RECURSIVE Inner(_)
Inner(v) == {v} \cup UNION {Inner(w) : w \in Parts(v)}

SomeValues == {w : w \in UNION {Inner(v) : v \in {Nil, Kind} \cup {typed[2] : typed \in SomeOfType}}}

RECURSIVE DepthOf(_)
DepthOf(v) ==
  LET depths == {0} \cup {DepthOf(w) + 1 : w \in Parts(v)} IN CHOOSE d \in depths : \A e \in depths : e <= d

SomeDepths == [v \in SomeValues |-> DepthOf(v)]

SomeRoutes ==
  ({"spec"} \X SeqsTo({"x", "y", "labels", ""}, 3)) \cup
  ({"metadata", "kind", "status", ""} \X SeqsTo({"x", "labels"}, 2))

SomePaths ==
  {[spec |-> object[1], value |-> object[2], paths |-> << <<route[1]>> \o route[2], other >>] :
     object \in Objects, route \in SomeRoutes, other \in {<<"kind">>, <<"spec", "y">>}}

(* Structs of one field, or of two that may share a name; a field is tagged, *)
(* hidden, tagged for json only, unexported, or an embedded struct.          *)
GoLeaves == {Basic("text"), Basic("opaque"), MapOf(Basic("text")), ListOf(Basic("text")), Basic("any")}

GoFields(types) ==
  {GoField("X", yaml, json, exported, embedded, t) :
     yaml \in {NoTag, Tag("x"), Tag("y"), Tag("-"), Tag("")}, json \in {NoTag, Tag("y")},
     exported \in BOOLEAN, embedded \in BOOLEAN, t \in types}

GoInner == {GoStruct(<<f>>) : f \in {g \in GoFields(GoLeaves) : ~g.embedded}}

SomeStructs ==
  {GoStruct(<<f>> \o rest) :
     f \in GoFields(GoLeaves \cup GoInner \cup {Optional(t) : t \in GoInner} \cup {ListOf(t) : t \in GoInner}),
     rest \in {<<>>, <<GoField("Y", Tag("y"), NoTag, TRUE, FALSE, Basic("number"))>>}}

(* A kind of a few groups and names, beside one of another few. *)
SomeLabels == {"", "a", "A", "b", "x", "p", "P", "v"}
InLowerFirst == [s \in STRING |-> CASE s = "X" -> "x" [] s = "Y" -> "y" [] OTHER -> s]
InLower    == [l \in SomeLabels |-> CASE l = "A" -> "a" [] l = "P" -> "p" [] OTHER -> l]

KindOf(group, kind, plural, short, list) ==
  [group |-> group, version |-> "v", kind |-> kind, plural |-> plural, singular |-> <<"x">>,
   shortNames |-> short, listKind |-> list]

AskedOf == {<<"a">>, <<"A">>, <<"b">>, <<"x">>, <<"P">>, <<"a", "p">>, <<"b", "a">>}

SomeKinds ==
  {[provider |-> provider, kinds |-> <<KindOf(group, kind, plural, short, list)>> \o other,
    texts |-> AskedOf, object |-> <<"a">>] :
     group \in {Unnamed, <<"p">>, <<"A", "P">>, <<"a", "p">>, <<"b", "a", "p">>, <<"b">>},
     kind \in {<<"x">>, <<"A">>}, plural \in {<<"x">>, <<"b">>, <<"x", "a">>},
     short \in {{}, {<<"b">>}, {Unnamed}}, list \in {Unnamed, <<"A">>},
     other \in {<<>>, << KindOf(<<"a", "p">>, <<"x">>, <<"x">>, {}, Unnamed) >>,
                << KindOf(<<"p">>, <<"A">>, <<"b">>, {}, Unnamed) >>,
                << KindOf(<<"x", "p">>, <<"v">>, <<"v">>, {<<"A">>}, Unnamed) >>},
     provider \in {"p", "a"}}

Links == {Uncoded(<<"word">>), Uncoded(<<>>)} \cup
         {Coded(code, r, m) : code \in {"NOT_FOUND", "REFUSED", ""}, r \in {"", "user"}, m \in {<<>>, <<"text">>}}

SomeErrors == {[chain |-> chain, around |-> <<"around">>] : chain \in SeqsTo(Links, 3) \ {<<>>}}

SomeInputs ==
  [selector |-> SeqsTo(SomeMarks, TextLength), page |-> SomePages, site |-> SomeProviders,
   document |-> SomeDocuments, number |-> (0 - Largest)..Largest, path |-> SomePaths, struct |-> SomeStructs,
   kinds |-> SomeKinds, error |-> SomeErrors, time |-> [second : 0..(MaxSecond + 1), part : 0..1],
   command |-> CommandsToRun]

(* TLC evaluates a definition once, and what is given to a constant each    *)
(* time: the constants are given these, that name the definitions.          *)
TheInputs == SomeInputs
TheValues == SomeValues
TheDepths == SomeDepths
TheTypes  == SomeOfType
=============================================================================
