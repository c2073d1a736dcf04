--------------------------------- MODULE Wire ---------------------------------
(***************************************************************************)
(* What crosses the wire besides objects: errors (core/errors.go, errorOf  *)
(* of protocol/server.go, coreError of protocol/client.go) and timestamps  *)
(* (core/time.go).                                                         *)
(*                                                                         *)
(* An error is the chain of what it wraps, the outermost first; each link  *)
(* is a core.Error or any other.  A text is a sequence of words, none for  *)
(* a message that was left empty.  A time is a number of seconds since the *)
(* zero time and of parts of a second.                                     *)
(***************************************************************************)
EXTENDS Naturals, Sequences
LOCAL INSTANCE FiniteSetsExt

CONSTANT MaxSecond  \* the last second of the year 9999

ASSUME TimeAssumption == MaxSecond \in Nat

Uncoded(message) == [coded |-> FALSE, message |-> message]
Coded(code, resource, message) ==
  [coded |-> TRUE, code |-> code, resource |-> resource, message |-> message]

(* Error: the message, or what the other fields say. *)
Says(chain) ==
  LET e == Head(chain) IN
  IF e.message # <<>> \/ ~e.coded THEN e.message
  ELSE (IF e.resource # "" THEN <<e.resource>> ELSE <<>>) \o <<e.code>>

(* The first core.Error of a chain, as errors.As finds it. *)
CodedLinks(chain) == {k \in DOMAIN chain : chain[k].coded}

(* Wrong: only an error that is a core.Error itself has a code. *)
CodeOfHead(chain) == IF Head(chain).coded THEN Head(chain).code ELSE "INTERNAL"

CodeOf(chain) == IF CodedLinks(chain) = {} THEN "INTERNAL" ELSE chain[Min(CodedLinks(chain))].code

ResourceOf(chain) == IF CodedLinks(chain) = {} THEN "" ELSE chain[Min(CodedLinks(chain))].resource

(* errorOf flattens the chain, and coreError makes one core.Error of it,    *)
(* whose message is the text the chain had.                                 *)
ErrorOf(chain)  == [code |-> CodeOf(chain), resource |-> ResourceOf(chain), message |-> Says(chain)]
CoreError(wire) == << Coded(wire.code, wire.resource, wire.message) >>
Crossed(chain)  == CoreError(ErrorOf(chain))

(* MarshalJSON and MarshalYAML: null, or the seconds.  UnmarshalJSON        *)
(* refuses a year of five digits.                                           *)
NewTime(t)   == [t EXCEPT !.part = 0]
ZeroTime     == [second |-> 0, part |-> 0]
Marshal(t)   == IF t = ZeroTime THEN <<>> ELSE <<t.second>>
Unmarshal(w) == CASE w = <<>>          -> {ZeroTime}
                  [] w # <<>> /\ w[1] <= MaxSecond -> {[second |-> w[1], part |-> 0]}
                  [] OTHER -> {}

-----------------------------------------------------------------------------
(* A command keys on the code and prints the text (errors.go:12): however   *)
(* an error was wrapped, both are what they were on the provider's side, on *)
(* this side and behind a server that passes the error on; and an error     *)
(* added around it there changes neither the code nor the object named.     *)
ErrorCrosses(chain, around) ==
  Says(chain) # <<>> =>
    /\ CodeOf(Crossed(chain)) = CodeOf(chain)
    /\ Says(Crossed(chain)) = Says(chain)
    /\ Crossed(Crossed(chain)) = Crossed(chain)
    /\ ErrorOf(<<Uncoded(around)>> \o Crossed(chain)) = [ErrorOf(chain) EXCEPT !.message = around]

(* A timestamp is the same to the second on the other side, where only one  *)
(* that was never set is absent (time.go:9).                                *)
TimeSurvives(t) ==
  /\ t.second <= MaxSecond => Unmarshal(Marshal(t)) = {NewTime(t)}
  /\ Marshal(NewTime(t)) = <<>> <=> NewTime(t) = ZeroTime
=============================================================================
