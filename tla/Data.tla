---------------------------------- MODULE Data ----------------------------------
(***************************************************************************)
(* The pure algorithms of the SDK, one input a step: a selector text, the  *)
(* pages of a provider, a document, a number, a value and paths into it, a *)
(* Go type, the kinds a provider serves, an error, a time, a command.      *)
(* What an algorithm promises of its input is an invariant of the states   *)
(* that hold one.                                                          *)
(***************************************************************************)
EXTENDS FiniteSets, Pages, KindNames, Wire, Commands, Selector, OrderedMap, Schema, Site

CONSTANT Inputs  \* topic |-> the inputs to try

(* A provider's pages, by name; its kinds, the page each is written to, and *)
(* the place of the kind whose page cannot be written, or 0.                *)
IsPageInput(given) ==
  /\ \A f \in DOMAIN given.files : given.files[f] \in Page
  /\ given.kinds \in Seq(Word)
  /\ given.fails \in 0..Len(given.kinds)

(* A provider with its files, each at a path of its own, and its kinds, a   *)
(* finite number of them.                                                   *)
Names == [stem : Word, md : BOOLEAN]

IsProvider(p) ==
  /\ DOMAIN p = {"summary", "dir", "layout", "sourceDir", "kinds", "fs"}
  /\ p.dir \in Seq(Names) /\ DOMAIN p.fs \subseteq Seq(Names)
  /\ \A path \in DOMAIN p.fs : p.fs[path] \in Page
  /\ IsFiniteSet(DOMAIN p.kinds) /\ DOMAIN p.kinds \subseteq Word
  /\ \A k \in DOMAIN p.kinds : PagePath(p, p.kinds[k].singular) \in Seq(Names)

(* A provider's name and kinds, and texts and an object to name on a        *)
(* command line.                                                            *)
IsKindsInput(given) ==
  /\ given.provider \in Labels
  /\ given.kinds \in Seq(ResourceType)
  /\ given.texts \subseteq Texts

(* A link of a chain is a core.Error or any other.                          *)
Messages == Seq(Word)

IsErrorInput(given) ==
  /\ given.chain \in Seq([coded : {FALSE}, message : Messages] \cup
                         [coded : {TRUE}, code : Word, resource : Word, message : Messages])
  /\ given.chain # <<>>

(* A value of a type, and the alternatives that are looked up in an object  *)
(* of it.                                                                   *)
IsPathInput(given) ==
  /\ given.value \in Value /\ <<given.spec, given.value>> \in OfType
  /\ given.paths \in Seq(Seq(Segment) \ {<<>>})

ASSUME InputAssumption ==
  /\ {"selector", "page", "site", "document", "number", "path", "struct", "kinds", "error", "time", "command"}
       \subseteq DOMAIN Inputs
  /\ Inputs["selector"] \subseteq Seq(Mark)
  /\ \A given \in Inputs["page"] : IsPageInput(given)
  /\ \A given \in Inputs["site"] : IsProvider(given)
  /\ \A given \in Inputs["document"] : IsDocument(given)
  /\ Inputs["number"] \subseteq Int
  /\ \A given \in Inputs["path"] : IsPathInput(given)
  /\ Inputs["struct"] \subseteq GoType[TypeLevels]
  /\ \A given \in Inputs["kinds"] : IsKindsInput(given)
  /\ \A given \in Inputs["error"] : IsErrorInput(given)
  /\ Inputs["time"] \subseteq [second : Nat, part : Nat]
  /\ Inputs["command"] \subseteq CommandsToRun

VARIABLE input

Init == input = [topic |-> "none"]

Next ==
  /\ input.topic = "none"
  /\ \E topic \in DOMAIN Inputs : \E given \in Inputs[topic] : input' = [topic |-> topic, given |-> given]

Spec == Init /\ [][Next]_input

-----------------------------------------------------------------------------
(* A selector keeps the same objects on both sides of the wire              *)
(* (selector.go:15), and != is the complement of =, as !key of key          *)
(* (selector.go:140).                                                       *)
SelectorsMean ==
  input.topic = "selector" => CrossesAsText(input.given) /\ NegationFlips(input.given)

(* A refreshed page reads as it did, whichever kind's it is                 *)
(* (sections.go:82), and what was generated is in date (generate.go:100).   *)
PagesSettle ==
  LET given == input.given IN
  input.topic = "page" =>
    /\ \A f \in DOMAIN given.files, k \in DOMAIN given.kinds : ReadsTheSame(given.files[f], given.kinds[k])
    /\ Settles(given.files, given.kinds, given.slugOf, given.fails)

(* Every guide of a provider is on its site (docs.go:261), and a page that  *)
(* was generated and embedded is found again, filed as it was, with nothing *)
(* left to report (generate.go:100).                                        *)
SiteIsComplete == input.topic = "site" => GuidesAreListed(input.given) /\ FoundAgain(input.given)

(* A Map keeps the order of a document and everything in it                 *)
(* (ordered.go:71), and a manifest arrives whole (ordered.go:204); a number *)
(* is still right (ordered.go:138).                                         *)
ValuesSurvive ==
  /\ input.topic = "document" => KeepsOrder(input.given) /\ KeepsManifest(input.given)
  /\ input.topic = "number" => NumberSurvives(input.given)

(* A path that names something is a valid path (path.go:109), and what the  *)
(* documentation calls a field is one too (schema.go:50).                   *)
FieldsHaveOneName ==
  LET given == input.given IN
  /\ input.topic = "path" => \A k \in DOMAIN given.paths : NamedIsValid(given.spec, given.value, given.paths[k])
  /\ input.topic = "struct" => OneNameEach(given)

(* A path finds the same on both sides of the wire (path.go:33), unless it  *)
(* meets one of the three pitfalls of Path.                                 *)
PathsCross == input.topic = "path" => SameOnBothSides(input.given.value, input.given.paths)

(* No text means both a kind and a group (providertest.go:54).              *)
MiddleIsOne ==
  input.topic = "kinds" => \A text \in input.given.texts : MiddleIsClear(input.given.kinds, text)

(* What one command prints is a name the next one accepts (resource.go:28). *)
PrintedNamesReach ==
  LET given == input.given IN
  input.topic = "kinds" => PrintedIsAccepted(given.kinds, given.provider, given.object)

(* An error's code and text are the same on the other side (errors.go:12),  *)
(* and so is a timestamp (time.go:9).                                       *)
ErrorsCross ==
  /\ input.topic = "error" => ErrorCrosses(input.given.chain, input.given.around)
  /\ input.topic = "time" => TimeSurvives(input.given)

(* A command leaves nothing behind and is waited for alone (exec.go:59,     *)
(* exec.go:96).                                                             *)
CommandsLeaveNothing == input.topic = "command" => LeavesNothing(input.given)
=============================================================================
