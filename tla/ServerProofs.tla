----------------------------- MODULE ServerProofs -----------------------------
(***************************************************************************)
(* What a Server promises for any triples, configurations, capabilities    *)
(* and contexts, proved.                                                   *)
(***************************************************************************)
EXTENDS Server, TLAPS

(* What the loop of a handshake adds was not there, and belongs to the      *)
(* provider it built.                                                       *)
LEMMA RegistersAreNew ==
  ASSUME NEW c \in Configs
  PROVE  /\ Registers(c) \subseteq Refs
         /\ \A r \in Registers(c) : r \notin DOMAIN handlers
         /\ \A r \in Registers(c) : \E k \in DOMAIN Kinds[c] : r = Kinds[c][k]
         /\ Welcomes(c) => \A k \in DOMAIN Kinds[c] : Kinds[c][k] \in Registers(c)
  <1> DEFINE Reached == {k \in DOMAIN Kinds[c] : \A j \in 1..k : ~Taken(c, j)}
  <1>1. Kinds[c] \in Seq(Refs) /\ DOMAIN Kinds[c] = 1..Len(Kinds[c])
    BY ServerAssumption
  <1>2. \A k \in Reached : ~Taken(c, k)
    BY <1>1
  <1>3. Welcomes(c) => \A k \in DOMAIN Kinds[c] : k \in Reached
    BY <1>1 DEF Welcomes
  <1> QED BY <1>1, <1>2, <1>3 DEF Registers, Taken

(* The client that may ask for the schema was welcomed by the provider that *)
(* answers.                                                                 *)
WelcomedIsAccepted == welcomed => provider \in accepted

(* It stays so. *)
LEMMA WelcomedStep == WelcomedIsAccepted /\ [Next]_vars => WelcomedIsAccepted'
  <1> SUFFICES ASSUME WelcomedIsAccepted, [Next]_vars PROVE WelcomedIsAccepted'
    OBVIOUS
  <1>1. ASSUME NEW c \in Configs, Handshake(c) PROVE WelcomedIsAccepted'
    BY <1>1 DEF Handshake, WelcomedIsAccepted
  <1>2. ASSUME NEW v \in Verbs, NEW r \in Refs, NEW ctx \in Contexts, Ask(v, r, ctx) PROVE WelcomedIsAccepted'
    BY <1>2 DEF Ask, WelcomedIsAccepted
  <1>3. CASE Schema
    BY <1>3 DEF Schema, WelcomedIsAccepted
  <1>4. CASE UNCHANGED vars
    BY <1>4 DEF vars, WelcomedIsAccepted
  <1> QED BY <1>1, <1>2, <1>3, <1>4 DEF Next

(* Type correctness, which a schema keeps because it asks a provider there  *)
(* is.                                                                      *)
THEOREM TypeCorrect == Spec => []TypeOK
  <1> USE ServerAssumption
  <1>1. Init => TypeOK /\ WelcomedIsAccepted
    BY DEF Init, TypeOK, WelcomedIsAccepted, Nothing
  <1>2. TypeOK /\ WelcomedIsAccepted /\ [Next]_vars => TypeOK'
    <2> SUFFICES ASSUME TypeOK, WelcomedIsAccepted, [Next]_vars PROVE TypeOK'
      OBVIOUS
    <2>1. ASSUME NEW c \in Configs, Handshake(c) PROVE TypeOK'
      <3>1. Registers(c) \subseteq Refs
        BY RegistersAreNew
      <3>2. /\ DOMAIN handlers' = DOMAIN handlers \cup Registers(c)
            /\ handlers' \in [DOMAIN handlers' -> Configs]
        BY <2>1 DEF Handshake, With, TypeOK
      <3>3. Welcomes(c) \in BOOLEAN
        BY DEF Welcomes
      <3>4. /\ provider' = c /\ published' = published /\ last' = Nothing /\ welcomed' \in BOOLEAN
            /\ accepted' \subseteq accepted \cup {c}
        BY <2>1, <3>3 DEF Handshake
      <3> QED BY <3>1, <3>2, <3>4 DEF TypeOK
    <2>2. CASE Schema
      <3>1. provider \in Configs => KindsOf(provider) \subseteq Refs
        BY DEF KindsOf
      <3>2. \A c \in Configs, r \in Refs :
              Publishes(c, r) \in [caps : SUBSET Capabilities, verbs : (SUBSET KnownVerbs) \ {{}}]
        BY DEF Publishes, CapsOf, VerbsOf, BaseVerbs, KnownVerbs, Capabilities
      <3>3. provider \in Configs
        BY <2>2 DEF Schema, WelcomedIsAccepted, TypeOK
      <3>4. /\ DOMAIN published' \subseteq Refs
            /\ published' \in [DOMAIN published' -> [caps : SUBSET Capabilities, verbs : (SUBSET KnownVerbs) \ {{}}]]
        BY <2>2, <3>1, <3>2, <3>3 DEF Schema, Told, TypeOK
      <3> QED BY <2>2, <3>4 DEF Schema, TypeOK
    <2>3. ASSUME NEW v \in Verbs, NEW r \in Refs, NEW ctx \in Contexts, Ask(v, r, ctx) PROVE TypeOK'
      BY <2>3 DEF Ask, Answer, TypeOK
    <2>4. CASE UNCHANGED vars
      BY <2>4 DEF vars, TypeOK
    <2> QED BY <2>1, <2>2, <2>3, <2>4 DEF Next
  <1> QED BY <1>1, <1>2, WelcomedStep, PTL DEF Spec

-----------------------------------------------------------------------------
(* HandlersStay needs no invariant: no handshake adds a triple that is      *)
(* there, and nothing else touches the map.                                 *)
THEOREM HandlersNeverReplaced == Spec => HandlersStay
  <1> DEFINE Stays == \A r \in DOMAIN handlers : r \in DOMAIN handlers' /\ handlers'[r] = handlers[r]
  <1>1. ASSUME [Next]_vars PROVE [Stays]_vars
    <2>1. ASSUME NEW c \in Configs, Handshake(c) PROVE Stays
      BY <2>1, RegistersAreNew DEF Handshake, With
    <2>2. ASSUME NEW v \in Verbs, NEW r \in Refs, NEW ctx \in Contexts, Ask(v, r, ctx) PROVE Stays
      BY <2>2 DEF Ask
    <2>3. CASE Schema
      BY <2>3 DEF Schema
    <2> QED BY <1>1, <2>1, <2>2, <2>3 DEF Next
  <1> QED BY <1>1, PTL DEF Spec, HandlersStay

(* A welcomed provider met none of its triples, so none of them twice, and  *)
(* what it registered stays.                                                *)
THEOREM WelcomesStayWhole == Spec => []WelcomesAreWhole
  <1> USE ServerAssumption
  <1>1. Init => WelcomesAreWhole
    BY DEF Init, WelcomesAreWhole
  <1>2. TypeOK /\ WelcomesAreWhole /\ [Next]_vars => WelcomesAreWhole'
    <2> SUFFICES ASSUME TypeOK, WelcomesAreWhole, [Next]_vars PROVE WelcomesAreWhole'
      OBVIOUS
    <2>1. ASSUME NEW c \in Configs, Handshake(c) PROVE WelcomesAreWhole'
      <3> SUFFICES ASSUME NEW d \in accepted', NEW k \in 1..Len(Kinds[d])
                   PROVE  /\ Kinds[d][k] \in DOMAIN handlers' /\ handlers'[Kinds[d][k]] = d
                          /\ \A j \in 1..Len(Kinds[d]) : Kinds[d][j] = Kinds[d][k] => j = k
        BY DEF WelcomesAreWhole
      <3>1. CASE d \in accepted
        <4>1. Kinds[d][k] \in DOMAIN handlers /\ handlers[Kinds[d][k]] = d
          BY <3>1 DEF WelcomesAreWhole
        <4>2. \A j \in 1..Len(Kinds[d]) : Kinds[d][j] = Kinds[d][k] => j = k
          BY <3>1 DEF WelcomesAreWhole
        <4> QED BY <2>1, <4>1, <4>2, RegistersAreNew DEF Handshake, With
      <3>2. CASE d \notin accepted
        <4>1. d = c /\ Welcomes(c)
          BY <2>1, <3>2 DEF Handshake
        <4>2. DOMAIN Kinds[c] = 1..Len(Kinds[c])
          OBVIOUS
        <4>3. Kinds[c][k] \in Registers(c)
          BY <4>1, <4>2, RegistersAreNew
        <4>4. \A i, j \in 1..Len(Kinds[c]) : Kinds[c][j] = Kinds[c][i] => ~(j < i)
          BY <4>1, <4>2 DEF Welcomes, Taken
        <4>5. \A j \in 1..Len(Kinds[c]) : Kinds[c][j] = Kinds[c][k] => j = k
          BY <4>1, <4>4
        <4> QED BY <2>1, <4>1, <4>3, <4>5 DEF Handshake, With
      <3> QED BY <3>1, <3>2
    <2>2. ASSUME NEW v \in Verbs, NEW r \in Refs, NEW ctx \in Contexts, Ask(v, r, ctx) PROVE WelcomesAreWhole'
      BY <2>2 DEF Ask, WelcomesAreWhole
    <2>3. CASE Schema \/ UNCHANGED vars
      BY <2>3 DEF Schema, vars, WelcomesAreWhole
    <2> QED BY <2>1, <2>2, <2>3 DEF Next
  <1> QED BY <1>1, <1>2, TypeCorrect, PTL DEF Spec

-----------------------------------------------------------------------------
(* What a client was told of a triple is what the handler behind it says of *)
(* itself, which is one of the handlers of the provider it belongs to.      *)
ToldTruly ==
  /\ \A r \in DOMAIN handlers : \E k \in DOMAIN Kinds[handlers[r]] : r = Kinds[handlers[r]][k]
  /\ \A r \in DOMAIN published : r \in DOMAIN handlers /\ published[r] = Publishes(handlers[r], r)
  /\ DOMAIN handlers # {} => provider # None

(* What a client was told stays true of the handlers: a schema is asked of  *)
(* a provider whose every kind is its own (WelcomesAreWhole).               *)
LEMMA ToldTrulyStep ==
  ASSUME TypeOK, WelcomedIsAccepted, WelcomesAreWhole, ToldTruly, [Next]_vars
  PROVE  ToldTruly'
  <1> USE ServerAssumption
  <1> USE DEF Publishes, CapsOf, VerbsOf
  <1>1. ASSUME NEW c \in Configs, Handshake(c) PROVE ToldTruly'
    <2>1. /\ DOMAIN handlers' = DOMAIN handlers \cup Registers(c)
          /\ \A r \in Registers(c) : handlers'[r] = c
          /\ \A r \in DOMAIN handlers : handlers'[r] = handlers[r]
      BY <1>1, RegistersAreNew DEF Handshake, With
    <2>2. \A r \in DOMAIN handlers' : \E k \in DOMAIN Kinds[handlers'[r]] : r = Kinds[handlers'[r]][k]
      BY <2>1, RegistersAreNew DEF ToldTruly
    <2>3. published' = published /\ provider' # None
      BY <1>1 DEF Handshake
    <2>4. ASSUME NEW r \in DOMAIN published
          PROVE  r \in DOMAIN handlers' /\ published'[r] = Publishes(handlers'[r], r)
      <3>1. r \in DOMAIN handlers /\ published[r] = Publishes(handlers[r], r)
        BY DEF ToldTruly
      <3> QED BY <2>1, <2>3, <3>1
    <2> QED BY <2>2, <2>3, <2>4 DEF ToldTruly
  <1>2. CASE Schema
    <2>1. provider \in accepted /\ provider \in Configs /\ UNCHANGED <<provider, handlers>>
          /\ published' = Told(provider)
      BY <1>2 DEF Schema, WelcomedIsAccepted, TypeOK
    <2>2. Kinds[provider] \in Seq(Refs) /\ DOMAIN Kinds[provider] = 1..Len(Kinds[provider])
      BY <2>1
    <2>3. \A r \in KindsOf(provider) : r \in DOMAIN handlers /\ handlers[r] = provider
      BY <2>1, <2>2 DEF KindsOf, WelcomesAreWhole
    <2> QED BY <2>1, <2>3 DEF Told, ToldTruly
  <1>3. ASSUME NEW v \in Verbs, NEW r \in Refs, NEW ctx \in Contexts, Ask(v, r, ctx) PROVE ToldTruly'
    BY <1>3 DEF Ask, ToldTruly
  <1>4. CASE UNCHANGED vars
    BY <1>4 DEF vars, ToldTruly
  <1> QED BY <1>1, <1>2, <1>3, <1>4 DEF Next

(* A request for a triple that was published reaches its handler, which     *)
(* lacks only what the client was not told of.                              *)
LEMMA AskServesPublished ==
  ASSUME TypeOK, ToldTruly,
         NEW v \in Verbs, NEW r \in Refs, NEW ctx \in Contexts, Ask(v, r, ctx)
  PROVE  PublishedIsServed'
  <1> USE ServerAssumption
  <1>1. last'.verb = v /\ last'.ref = r /\ published' = published /\ handlers' = handlers
    BY DEF Ask, Answer
  <1> SUFFICES ASSUME r \in DOMAIN published, last'.code # "ok", Conforms(handlers[r])
               PROVE  ~(Needs(v) \subseteq published[r].caps) /\ v \notin published[r].verbs
    BY <1>1 DEF PublishedIsServed, Conforms, CapsOf, VerbsOf, Needs
  <1>2. r \in DOMAIN handlers /\ published[r] = Publishes(handlers[r], r)
    BY DEF ToldTruly
  <1>3. provider # None
    BY <1>2 DEF ToldTruly
  <1>4. ~(Needs(v) \subseteq Implements[handlers[r]][r])
    BY <1>2, <1>3 DEF Ask, Answer
  <1>5. handlers[r] \in Configs
    BY <1>2 DEF TypeOK
  <1>6. PICK k \in DOMAIN Kinds[handlers[r]] : r = Kinds[handlers[r]][k]
    BY <1>2 DEF ToldTruly
  <1>7. k \in 1..Len(Kinds[handlers[r]])
    BY <1>5, <1>6
  <1>8. /\ CapsOf(handlers[r], r) \subseteq Implements[handlers[r]][r]
        /\ "watch" \in VerbsOf(handlers[r], r) <=> "watch" \in Implements[handlers[r]][r]
    BY <1>6, <1>7 DEF Conforms
  <1>9. ASSUME v \in VerbsOf(handlers[r], r) PROVE FALSE
    <2>1. VerbsOf(handlers[r], r) \subseteq KnownVerbs
      BY <1>5 DEF VerbsOf, BaseVerbs, KnownVerbs
    <2>2. v = "watch" /\ Needs(v) = {"watch"}
      BY <1>4, <1>9, <2>1 DEF Verbs, KnownVerbs, Needs
    <2> QED BY <1>4, <1>8, <1>9, <2>2
  <1> QED BY <1>2, <1>4, <1>8, <1>9 DEF Publishes

(* The registry and what was told of it agree, whatever handshakes came     *)
(* between (ToldTruly); so no client of a provider that passes the suite is *)
(* told of what its handler, reached by what it implements, does not have.  *)
THEOREM PublishedAlwaysServed == Spec => []PublishedIsServed
  <1>1. Init => ToldTruly /\ PublishedIsServed /\ WelcomedIsAccepted
    BY DEF Init, ToldTruly, PublishedIsServed, WelcomedIsAccepted, Nothing
  <1>2. TypeOK /\ ToldTruly /\ PublishedIsServed /\ [Next]_vars => PublishedIsServed'
    <2> SUFFICES ASSUME TypeOK, ToldTruly, PublishedIsServed, [Next]_vars PROVE PublishedIsServed'
      OBVIOUS
    <2>1. CASE Schema \/ \E c \in Configs : Handshake(c)
      BY <2>1 DEF Handshake, Schema, PublishedIsServed
    <2>2. ASSUME NEW v \in Verbs, NEW r \in Refs, NEW ctx \in Contexts, Ask(v, r, ctx) PROVE PublishedIsServed'
      BY <2>2, AskServesPublished
    <2>3. CASE UNCHANGED vars
      BY <2>3 DEF vars, PublishedIsServed, Conforms, CapsOf, VerbsOf, Needs
    <2> QED BY <2>1, <2>2, <2>3 DEF Next
  <1> QED BY <1>1, <1>2, ToldTrulyStep, WelcomedStep, WelcomesStayWhole, TypeCorrect, PTL DEF Spec

(* Leaving out what is zero loses nothing: what a verb carries is what its  *)
(* handler reads, and the rest is rebuilt as zero.                          *)
THEOREM OptionsAlwaysCross == Spec => []OptionsCross
  <1>1. Init => OptionsCross
    BY DEF Init, OptionsCross
  <1>2. OptionsCross /\ [Next]_vars => OptionsCross'
    <2> SUFFICES ASSUME OptionsCross, [Next]_vars PROVE OptionsCross'
      OBVIOUS
    <2>1. CASE Schema \/ \E c \in Configs : Handshake(c)
      BY <2>1 DEF Handshake, Schema, OptionsCross
    <2>2. ASSUME NEW v \in Verbs, NEW r \in Refs, NEW ctx \in Contexts, Ask(v, r, ctx) PROVE OptionsCross'
      <3>1. ASSUME v # "apply",
                   NEW f \in IF v = "delete" THEN Fields ELSE ScopeFields
            PROVE  Rebuilt(v, Wire(v, ctx))[f] = ctx[f]
        BY <3>1 DEF Rebuilt, Wire, Reads, Carries, Fields
      <3>2. last' = [verb |-> v, ref |-> r, asked |-> ctx, code |-> "ok", seen |-> Rebuilt(v, Wire(v, ctx))]
            \/ last'.code # "ok"
        BY <2>2 DEF Ask, Answer
      <3> QED BY <3>1, <3>2 DEF OptionsCross
    <2>3. CASE UNCHANGED vars
      BY <2>3 DEF vars, OptionsCross
    <2> QED BY <2>1, <2>2, <2>3 DEF Next
  <1> QED BY <1>1, <1>2, PTL DEF Spec
=============================================================================
