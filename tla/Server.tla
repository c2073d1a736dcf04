-------------------------------- MODULE Server --------------------------------
(***************************************************************************)
(* What a Server answers (protocol/server.go, dispatch) and what a Client  *)
(* makes of it (protocol/client.go, Connect and the verbs of handler), one *)
(* request at a time.  The handshake builds the provider from a            *)
(* configuration and registers its handlers by triple; the schema          *)
(* publishes what each can do; every other verb finds its handler in that  *)
(* map.  What a command put on its context crosses as fields of the        *)
(* params, which leave out those that are zero.                            *)
(*                                                                         *)
(* A configuration stands for what newProvider makes of it: an error, or a *)
(* provider with a list of handlers, of which the triples and the          *)
(* capabilities matter: those its Go type implements, which is what a      *)
(* request reaches, and the list it declares if it is a core.Capable.      *)
(*                                                                         *)
(* Clients connect one after another, and any may give up before it asks   *)
(* for the schema: two at once on one transport would share its ids, and   *)
(* in one process would write the map of handlers with no lock.            *)
(***************************************************************************)
EXTENDS Naturals, Sequences

CONSTANTS Refs,       \* the triples
          Configs,    \* the configurations
          Kinds,      \* configuration |-> the triples of its handlers, in order
          Implements, \* configuration |-> triple |-> the interfaces of its handler
          Lists,      \* configuration |-> triple |-> the capabilities it declares, or None
          Declares,   \* configuration |-> triple |-> the verbs its handler declares
          Failing,    \* the configurations newProvider refuses
          Contexts,   \* what commands put on their contexts
          None        \* no provider, no list

Capabilities == {"describe", "restart", "scopedList", "watch"}
KnownVerbs   == {"get", "list", "watch", "create", "update", "patch", "delete"}

ScopeFields == {"namespace", "allNamespaces", "labelSelector", "fieldSelector"}
Fields      == ScopeFields \cup {"cascade"}
Zero        == [f \in Fields |-> IF f \in {"allNamespaces", "cascade"} THEN FALSE ELSE ""]

Verbs == {"list", "get", "listScoped", "apply", "delete", "describe", "restart", "watch"}

ASSUME ServerAssumption ==
  /\ Kinds \in [Configs -> Seq(Refs)]
  /\ Implements \in [Configs -> [Refs -> SUBSET Capabilities]]
  /\ Lists \in [Configs -> [Refs -> (SUBSET Capabilities) \cup {None}]]
  /\ Declares \in [Configs -> [Refs -> SUBSET KnownVerbs]]
  /\ Failing \subseteq Configs
  /\ \A ctx \in Contexts : DOMAIN ctx = Fields
  /\ None \notin Configs

VARIABLES
  provider,  \* Server.provider: the configuration it was built from
  handlers,  \* Server.handlers: triple |-> the configuration of the handler
  accepted,  \* the configurations whose handshake was answered without error
  welcomed,  \* the last handshake was, and its client may ask for the schema
  published, \* the handlers of every Client: triple |-> what the schema said of it
  last       \* the last verb since a client connected: what was asked, the answer's code, what the handler saw

vars == <<provider, handlers, accepted, welcomed, published, last>>

Nothing == [verb |-> "none"]

Init ==
  /\ provider = None
  /\ handlers = [r \in {} |-> None]
  /\ accepted = {}
  /\ welcomed = FALSE
  /\ published = [r \in {} |-> {}]
  /\ last = Nothing

-----------------------------------------------------------------------------
(* The handshake.                                                           *)

(* Wrong: a triple taken by an earlier handshake, or twice by the same      *)
(* provider, is taken over.                                                 *)
TakenWithin(c, k) == \E j \in 1..(k - 1) : Kinds[c][j] = Kinds[c][k]
TakenBefore(c, k) == Kinds[c][k] \in DOMAIN handlers

(* The handshake of a whoctl that speaks another version, or whose provider *)
(* cannot be built, changes nothing.  Otherwise a provider's handlers are   *)
(* registered up to the first whose triple is taken, by an earlier handler  *)
(* of the same provider or by an earlier handshake.                         *)
Taken(c, k) == Kinds[c][k] \in DOMAIN handlers \/ \E j \in 1..(k - 1) : Kinds[c][j] = Kinds[c][k]

Registers(c) == {Kinds[c][k] : k \in {k \in DOMAIN Kinds[c] : \A j \in 1..k : ~Taken(c, j)}}

Welcomes(c) == \A k \in DOMAIN Kinds[c] : ~Taken(c, k)

(* Wrong: what is registered is the provider the handshake replaces. *)
WithOld(c, new) ==
  [r \in DOMAIN handlers \cup new |-> IF r \in new THEN provider ELSE handlers[r]]

With(c, new) ==
  [r \in DOMAIN handlers \cup new |-> IF r \in new THEN c ELSE handlers[r]]

(* What is published of a handler: the list it declares, or what its Go     *)
(* type implements.                                                         *)
CapsOf(c, r) == IF Lists[c][r] # None THEN Lists[c][r] ELSE Implements[c][r]

BaseVerbs == {"get", "list", "create", "update", "delete"}

(* VerbsOf: what a handler declares, or else what implementing Handler      *)
(* implies and watch if it can stream.                                      *)
VerbsOf(c, r) ==
  IF Declares[c][r] # {} THEN Declares[c][r]
  ELSE BaseVerbs \cup (Implements[c][r] \cap {"watch"})

(* Wrong: the schema claims every verb there is. *)
PublishesAll(c, r) == [caps |-> CapsOf(c, r), verbs |-> KnownVerbs]

(* What the schema says of a handler. *)
Publishes(c, r) == [caps |-> CapsOf(c, r), verbs |-> VerbsOf(c, r)]

(* providertest: what a handler declares it implements (Capabilities), and  *)
(* it is said to be watched if it can be (Verbs).                           *)
Conforms(c) ==
  \A k \in 1..Len(Kinds[c]) :
    LET r == Kinds[c][k] IN
    /\ CapsOf(c, r) \subseteq Implements[c][r]
    /\ "watch" \in VerbsOf(c, r) <=> "watch" \in Implements[c][r]

KindsOf(c) == {Kinds[c][k] : k \in DOMAIN Kinds[c]}

Told(c) ==
  [r \in DOMAIN published \cup KindsOf(c) |-> IF r \in KindsOf(c) THEN Publishes(c, r) ELSE published[r]]

(* The provider is replaced before its handlers are looked at, and stays    *)
(* when they clash.                                                         *)
Handshake(c) ==
  /\ c \notin Failing
  /\ provider' = c
  /\ handlers' = With(c, Registers(c))
  /\ welcomed' = Welcomes(c)
  /\ accepted' = IF Welcomes(c) THEN accepted \cup {c} ELSE accepted
  /\ last' = Nothing
  /\ UNCHANGED published

(* Connect goes on when it is welcomed; the schema speaks of the handlers   *)
(* of the provider there is.                                                *)
Schema ==
  /\ welcomed
  /\ welcomed' = FALSE
  /\ published' = Told(provider)
  /\ last' = Nothing
  /\ UNCHANGED <<provider, handlers, accepted>>

-----------------------------------------------------------------------------
(* The verbs.                                                               *)

(* Wrong: --cascade rides the context only. *)
CarriesScope(v) == IF v = "apply" THEN {} ELSE ScopeFields

(* What the client spells out in the params of a verb. *)
Carries(v) == CASE v = "apply"  -> {}
                [] v = "delete" -> Fields
                [] OTHER        -> ScopeFields

Wire(v, ctx) == [f \in {f \in Carries(v) : ctx[f] # Zero[f]} |-> ctx[f]]

(* The context the server rebuilds from them. *)
Reads(v) == IF v = "delete" THEN Fields ELSE ScopeFields

Rebuilt(v, wire) == [f \in Fields |-> IF f \in Reads(v) \cap DOMAIN wire THEN wire[f] ELSE Zero[f]]

Needs(v) == CASE v = "listScoped" -> {"scopedList"}
              [] v \in {"describe", "restart", "watch"} -> {v}
              [] OTHER -> {}

Answer(v, r, ctx, code, seen) ==
  last' = [verb |-> v, ref |-> r, asked |-> ctx, code |-> code, seen |-> seen]

(* A command asks one of the handlers its client knows: no handler is       *)
(* called before a handshake, for a triple nobody serves, or for a verb the *)
(* Go type does not have.                                                   *)
Ask(v, r, ctx) ==
  /\ IF provider = None \/ r \notin DOMAIN handlers
     THEN Answer(v, r, ctx, "INVALID", Nothing)
     ELSE IF Needs(v) \subseteq Implements[handlers[r]][r]
          THEN Answer(v, r, ctx, "ok", Rebuilt(v, Wire(v, ctx)))
          ELSE Answer(v, r, ctx, "UNSUPPORTED", Nothing)
  /\ UNCHANGED <<provider, handlers, accepted, welcomed, published>>

Next ==
  \/ \E c \in Configs : Handshake(c)
  \/ Schema
  \/ \E v \in Verbs, r \in Refs, ctx \in Contexts : Ask(v, r, ctx)

Spec == Init /\ [][Next]_vars

-----------------------------------------------------------------------------
(* Type correctness of every variable. *)
TypeOK ==
  /\ provider \in Configs \cup {None}
  /\ DOMAIN handlers \subseteq Refs
  /\ handlers \in [DOMAIN handlers -> Configs]
  /\ accepted \subseteq Configs
  /\ welcomed \in BOOLEAN
  /\ DOMAIN published \subseteq Refs
  /\ published \in [DOMAIN published -> [caps : SUBSET Capabilities, verbs : (SUBSET KnownVerbs) \ {{}}]]
  /\ last = Nothing \/ last.code \in {"ok", "INVALID", "UNSUPPORTED"}

(* One kind never answers for another (server.go:34): the handler behind a  *)
(* triple is never replaced.                                                *)
HandlersStay == [][\A r \in DOMAIN handlers : r \in DOMAIN handlers' /\ handlers'[r] = handlers[r]]_vars

(* A welcome is whole: every kind of the welcomed provider is served by     *)
(* that provider, and none is served twice (server.go:94).                  *)
WelcomesAreWhole ==
  \A c \in accepted : \A k \in 1..Len(Kinds[c]) :
    /\ Kinds[c][k] \in DOMAIN handlers /\ handlers[Kinds[c][k]] = c
    /\ \A j \in 1..Len(Kinds[c]) : Kinds[c][j] = Kinds[c][k] => j = k

(* Whatever a command put on its context reaches the handler (options.go:8, *)
(* options.go:28), through params that leave zero values out; only apply,   *)
(* whose object carries its namespace, has no scope.                        *)
OptionsCross ==
  last # Nothing /\ last.code = "ok" /\ last.verb # "apply" =>
    \A f \in IF last.verb = "delete" THEN Fields ELSE ScopeFields : last.seen[f] = last.asked[f]

(* Commands and clients decide from the published lists (capability.go:14,  *)
(* providertest.go:101).  Of a provider that passes the conformance suite,  *)
(* whose lists may still leave out what a handler implements, a connected   *)
(* client is never told of a capability or a verb that is then answered as  *)
(* one the handler does not have, whatever other handshakes came between.   *)
PublishedIsServed ==
  last # Nothing /\ last.ref \in DOMAIN published /\ last.code # "ok" =>
    LET told == published[last.ref] IN
    Conforms(handlers[last.ref]) => ~(Needs(last.verb) \subseteq told.caps) /\ last.verb \notin told.verbs
=============================================================================
