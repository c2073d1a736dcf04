------------------------------- MODULE Selector -------------------------------
(***************************************************************************)
(* The label and field selectors of core/selector.go: how the text of a    *)
(* command line is read, how a Selector is written back, and what it keeps.*)
(*                                                                         *)
(* A text is a sequence of the marks the syntax is made of -- comma, "=",  *)
(* "!", blank -- and of words, which stand for runs of any other letters.  *)
(***************************************************************************)
EXTENDS Naturals, Sequences
LOCAL INSTANCE FiniteSetsExt

CONSTANT Mark  \* the marks and words a text is made of

Comma == ","
Blank == " "

ASSUME MarkAssumption == {Comma, "=", "!", Blank} \subseteq Mark

(* strings.TrimSpace, strings.Index and strings.Split. *)
Kept(t) == {k \in DOMAIN t : t[k] # Blank}

Trim(t) == IF Kept(t) = {} THEN <<>> ELSE SubSeq(t, Min(Kept(t)), Max(Kept(t)))

Places(t, mark) == {k \in 1..(Len(t) + 1 - Len(mark)) : SubSeq(t, k, k + Len(mark) - 1) = mark}

Terms(t) ==
  LET split[s \in Seq(Mark)] ==
        LET commas == Places(s, <<Comma>>) IN
        IF commas = {} THEN <<s>>
        ELSE <<SubSeq(s, 1, Min(commas) - 1)>> \o split[SubSeq(s, Min(commas) + 1, Len(s))]
  IN  split[t]

(* The operators of a term, in the order they are looked for. *)
Operators == << <<"!", "=">>, <<"=", "=">>, <<"=">> >>

Refused == [key |-> <<>>, value |-> <<>>, negated |-> FALSE, hasValue |-> FALSE]

Term(key, value, negated, hasValue) ==
  IF key = <<>> THEN Refused
  ELSE [key |-> key, value |-> value, negated |-> negated, hasValue |-> hasValue]

(* key != value, key == value, key = value, !key or key.  A term is cut at  *)
(* the first place of the first operator it has.                            *)
ParseRequirement(term) ==
  LET found == {k \in DOMAIN Operators : Places(term, Operators[k]) # {}} IN
  IF found # {}
  THEN LET op == Operators[Min(found)]
           at == Min(Places(term, op))
       IN  Term(Trim(SubSeq(term, 1, at - 1)), Trim(SubSeq(term, at + Len(op), Len(term))),
                op = <<"!", "=">>, TRUE)
  ELSE IF term # <<>> /\ Head(term) = "!"
       THEN Term(Trim(Tail(term)), <<>>, TRUE, FALSE)
       ELSE Term(term, <<>>, FALSE, FALSE)

ParseSelector(t) ==
  LET terms == Terms(Trim(t)) IN
  IF Trim(t) = <<>> THEN <<>> ELSE [k \in DOMAIN terms |-> ParseRequirement(Trim(terms[k]))]

Accepted(sel) == \A k \in DOMAIN sel : sel[k] # Refused

(* Wrong: key= and key, which ask different questions, are written alike.   *)
WrittenBare(r) ==
  IF r.value # <<>> THEN r.key \o (IF r.negated THEN <<"!", "=">> ELSE <<"=">>) \o r.value
  ELSE (IF r.negated THEN <<"!">> ELSE <<>>) \o r.key

(* Selector.String. *)
Written(r) ==
  IF r.hasValue THEN r.key \o (IF r.negated THEN <<"!", "=">> ELSE <<"=">>) \o r.value
  ELSE (IF r.negated THEN <<"!">> ELSE <<>>) \o r.key

Text(sel) ==
  LET from[k \in 1..Len(sel)] ==
        IF k = Len(sel) THEN Written(sel[k]) ELSE Written(sel[k]) \o <<Comma>> \o from[k + 1]
  IN  IF sel = <<>> THEN <<>> ELSE from[1]

(* Requirement.matches: an absent label is not set, equals the empty value  *)
(* and no other.                                                            *)
Matches(r, labels) ==
  LET present == r.key \in DOMAIN labels
      equal   == IF present THEN labels[r.key] = r.value ELSE r.value = <<>>
  IN  IF r.hasValue THEN equal # r.negated ELSE present # r.negated

MatchesLabels(sel, labels) == \A k \in DOMAIN sel : Matches(sel[k], labels)

-----------------------------------------------------------------------------
(* A term with one operator, and no blank that hides a "!" from its "=".     *)
(* Any other is read one way and written another: "a===b" is written "a==b", *)
(* "a=b==c" "a=b=c", and "a! =b" "a!=b".                                     *)
PlainTerm(term) ==
  LET at == Places(term, <<"=">>) IN
  at # {} => Max(at) - Min(at) <= 1 /\ Places(term, <<"!", Blank>>) = {}

(* Every label set that could tell two selectors apart. *)
Labellings(sels) ==
  LET terms  == UNION {{sel[k] : k \in DOMAIN sel} : sel \in sels}
      keys   == {r.key : r \in terms}
      values == {<<>>, <<"?">>} \cup {r.value : r \in terms}
  IN  UNION {[set -> values] : set \in SUBSET keys}

(* A selector is applied on both sides of the wire (selector.go:15): what   *)
(* a provider reads from the text of a plain selector keeps exactly the     *)
(* objects that whoctl keeps, so a provider that filters never hides one.   *)
CrossesAsText(t) ==
  LET sel == ParseSelector(t)
      got == ParseSelector(Text(sel))
      terms == Terms(Trim(t))
  IN  Accepted(sel) /\ (\A k \in DOMAIN terms : PlainTerm(Trim(terms[k]))) =>
        /\ Accepted(got)
        /\ \A labels \in Labellings({sel, got}) : MatchesLabels(got, labels) <=> MatchesLabels(sel, labels)

(* A term with "!=" keeps exactly the objects that the same term with "="   *)
(* leaves out, absent labels included (selector.go:140), and likewise !key  *)
(* and key.                                                                 *)
NegationFlips(t) ==
  LET marks == Places(t, <<"!", "=">>)
      at    == IF marks # {} THEN Min(marks) ELSE 1
      sel   == ParseSelector(t)
      other == ParseSelector(SubSeq(t, 1, at - 1) \o SubSeq(t, at + 1, Len(t)))
      one(m) == \E k \in DOMAIN t : Places(t, <<m>>) = {k}
  IN  /\ Accepted(sel) /\ Places(t, <<Comma>>) = {} /\ one("!")
      /\ IF marks # {} THEN one("=") ELSE Places(t, <<"=">>) = {} /\ Head(t) = "!"
      => \A labels \in Labellings({sel, other}) : MatchesLabels(sel, labels) # MatchesLabels(other, labels)
=============================================================================
