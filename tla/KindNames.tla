------------------------------ MODULE KindNames ------------------------------
(***************************************************************************)
(* How kinds are named on a command line: core/object.go (MatchesName,     *)
(* MatchesGroupPrefix), core/resource.go (Name, Ref, GroupPath), and what  *)
(* providertest.Naming asks of a provider so that names can be resolved.   *)
(*                                                                         *)
(* A text is a non-empty sequence of labels, cut at its dots; the empty    *)
(* text is the one empty label.  A kind is a record of the texts of a      *)
(* ResourceType.  A command line names segments, texts cut at slashes.     *)
(***************************************************************************)
EXTENDS Naturals, Sequences

CONSTANTS Labels, \* the labels
          Lower   \* label |-> the label in lower case

ASSUME LowerAssumption ==
  /\ "" \in Labels
  /\ Lower \in [Labels -> Labels]
  /\ \A l \in Labels : Lower[l] = "" <=> l = ""

Texts == Seq(Labels) \ {<<>>}
Unnamed == <<"">>

ResourceType ==
  [group : Texts, version : Labels, kind : Texts, plural : Texts, singular : Texts,
   shortNames : SUBSET Texts, listKind : Texts]

Fold(text) == [k \in DOMAIN text |-> Lower[text[k]]]

(* A group in full, or cut short at a label boundary. *)
MatchesGroupPrefix(kind, prefix) ==
  /\ prefix # Unnamed
  /\ Len(prefix) <= Len(kind.group)
  /\ \A k \in DOMAIN prefix : Lower[prefix[k]] = Lower[kind.group[k]]

NamesOf(kind) == {kind.plural, kind.singular, kind.kind} \cup kind.shortNames

MatchesBareName(kind, label) == \E n \in NamesOf(kind) : Fold(n) = <<Lower[label]>>

(* A name, or a name qualified by a group. *)
MatchesName(kind, text) ==
  /\ Len(text) > 1 => MatchesGroupPrefix(kind, Tail(text))
  /\ MatchesBareName(kind, Head(text))

(* CollectionKind defaults to the kind with List appended, which never is   *)
(* the kind itself.                                                         *)
ListsAreTold(kind) == kind.listKind = Unnamed \/ kind.listKind # kind.kind

(* Wrong: a kind's names are looked for among its own group's labels only. *)
ApartFromOwnGroup(kinds, name) ==
  \A k \in DOMAIN kinds : name \in NamesOf(kinds[k]) =>
    \A i \in DOMAIN kinds[k].group : Fold(name) # <<Lower[kinds[k].group[i]]>>

(* A name is the label of no group the provider serves. *)
ApartFromGroups(kinds, name) ==
  \A k \in DOMAIN kinds : \A i \in DOMAIN kinds[k].group : Fold(name) # <<Lower[kinds[k].group[i]]>>

(* providertest.Naming finds nothing to report of a provider's kinds. *)
Naming(kinds) ==
  /\ \A j, k \in DOMAIN kinds :
       (kinds[j].group = kinds[k].group /\ kinds[j].version = kinds[k].version /\ kinds[j].kind = kinds[k].kind)
         => j = k
  /\ \A k \in DOMAIN kinds :
       /\ kinds[k].group # Unnamed /\ kinds[k].version # ""
       /\ ListsAreTold(kinds[k])
       /\ \A name \in NamesOf(kinds[k]) : name # Unnamed /\ ApartFromGroups(kinds, name)

-----------------------------------------------------------------------------
(* Wrong: the labels on the other side of the provider's own. *)
GroupPathAfter(kind, provider) ==
  LET at == {i \in DOMAIN kind.group : Lower[kind.group[i]] = Lower[provider]} IN
  IF at = {} THEN <<>> ELSE SubSeq(kind.group, (CHOOSE i \in at : \A j \in at : i <= j) + 1, Len(kind.group))

(* The labels of the group before the provider's own. *)
GroupPath(kind, provider) ==
  LET at == {i \in DOMAIN kind.group : Lower[kind.group[i]] = Lower[provider]} IN
  IF at = {} THEN <<>> ELSE SubSeq(kind.group, 1, (CHOOSE i \in at : \A j \in at : i <= j) - 1)

(* What a command prints of a kind and of an object, past the provider. *)
PathOf(kind, provider) ==
  LET labels == GroupPath(kind, provider) IN
  IF labels = Unnamed THEN <<>> ELSE [k \in DOMAIN labels |-> <<labels[k]>>]

Name(kind, provider)        == PathOf(kind, provider) \o <<kind.plural>>
Ref(kind, provider, object) == PathOf(kind, provider) \o <<kind.singular, object>>

(* What the command line makes of segments: it tries the kind first, and a  *)
(* group where no kind has the name (providertest.go:50).                   *)
Called(kinds, name)         == {k \in DOMAIN kinds : MatchesName(kinds[k], name)}
CalledIn(kinds, group, name) == {k \in Called(kinds, name) : MatchesGroupPrefix(kinds[k], group)}

KindsMeant(kinds, segments) ==
  CASE Len(segments) = 1 -> Called(kinds, segments[1])
    [] Len(segments) = 2 /\ Called(kinds, segments[1]) = {} -> CalledIn(kinds, segments[1], segments[2])
    [] OTHER -> {}

ObjectsMeant(kinds, segments) ==
  CASE Len(segments) = 2 -> {[kind |-> k, name |-> segments[2]] : k \in Called(kinds, segments[1])}
    [] Len(segments) = 3 -> {[kind |-> k, name |-> segments[3]] : k \in CalledIn(kinds, segments[1], segments[2])}
    [] OTHER -> {}

-----------------------------------------------------------------------------
(* A text in the middle may not name both a group and a kind: that choice   *)
(* would be a coin toss (providertest.go:54).                               *)
MiddleIsClear(kinds, text) ==
  Naming(kinds) =>
    ~(/\ \E j \in DOMAIN kinds : MatchesName(kinds[j], text)
      /\ \E k \in DOMAIN kinds : MatchesGroupPrefix(kinds[k], text))

Undotted(kind) == Len(kind.plural) = 1 /\ Len(kind.singular) = 1

(* What one command prints is a name the next one accepts (resource.go:28): *)
(* the name and the reference of a kind without dots in it, at most one     *)
(* label below its provider, mean that kind, and never an object when a     *)
(* kind was meant.                                                          *)
PrintedIsAccepted(kinds, provider, object) ==
  Naming(kinds) =>
    \A k \in DOMAIN kinds :
      Undotted(kinds[k]) /\ Len(GroupPath(kinds[k], provider)) <= 1 =>
        /\ k \in KindsMeant(kinds, Name(kinds[k], provider))
        /\ ObjectsMeant(kinds, Name(kinds[k], provider)) = {}
        /\ [kind |-> k, name |-> object] \in ObjectsMeant(kinds, Ref(kinds[k], provider, object))
=============================================================================
