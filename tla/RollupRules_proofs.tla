------------------------- MODULE RollupRules_proofs -------------------------
(***************************************************************************)
(* Proofs about RollupRules, for every set of UUIDs, every configuration,  *)
(* however many rules it has, and every answer Pulse may give.             *)
(*                                                                         *)
(* Three arguments carry them.  Resolving a value only adds errors, so     *)
(* that a rejection stands (ErrorsStay).  The checks on an answer let only *)
(* sound rulesets through (AcceptedIsSound), none that breaks the contract *)
(* (FaultsAreSeen), and each that lists what was sent, in any order        *)
(* (FaithfulAnswersAreStored).                                             *)
(* And a finite set can be listed in order (SortedLists): the one          *)
(* induction, on the set, made by looking at a smallest counterexample.    *)
(***************************************************************************)
EXTENDS RollupRules, FiniteSetTheorems, TLAPS

Numbered(rules) == \A i \in DOMAIN rules : i \in Nat
Distinct(list) == \A p, q \in DOMAIN list : list[p] = list[q] => p = q

\* What Pulse is asked to store.
Asked(c) ==
    [present |-> TRUE, parent |-> c.parent,
     rules |-> [i \in DOMAIN c.rules |-> Stored(Translated(c.rules[i]))]]

\* What is planned was not rejected, and what is rejected had a reason.
Judged ==
    /\ phase = "planned" => ~validateComponentRollupModel(config)
    /\ phase = "rejected" =>
          \/ validateComponentRollupModel(config)
          \/ Resolutions(config) = {} /\ Untranslatable(config.rules)

\* What is being applied is sound, and what was sent is the configuration.
Applied ==
    /\ phase \in {"sent", "answered"} =>
          Sound(config.parent, config.rules) /\ ~Untranslatable(config.rules)
    /\ phase = "sent" => request = componentRollupRulesFromTerraform(config.rules)
    /\ phase = "answered" => srv = Asked(config)

AllNumbered == Numbered(request) /\ Numbered(answer.rules) /\ Numbered(srv.rules)

RulesInv == TypeOK /\ Judged /\ Applied /\ AllNumbered /\ StateIsSound

-----------------------------------------------------------------------------

LEMMA Marks ==
    /\ Unknown \notin UUIDs /\ Null \notin UUIDs /\ Malformed \notin UUIDs
    /\ Unknown # Null /\ Unknown # Malformed /\ Null # Malformed
    /\ "unknown" \notin Effects /\ UUIDs # {}
<1>1. \A k \in UUIDs : k \in Nat \ {0}
  BY RulesAssumption
<1>2. 0 \notin UUIDs /\ -1 \notin UUIDs /\ -2 \notin UUIDs
  BY <1>1
<1> QED
  BY <1>2, RulesAssumption DEF Unknown, Null, Malformed, Effects

\* A configuration in which nothing is left to resolve has known rules only.
LEMMA ResolvedConfiguration ==
    ASSUME NEW c \in ConfigurationType, Resolutions(c) = {}
    PROVE  /\ c.parent # Unknown /\ c.listed
           /\ \A i \in DOMAIN c.rules : ResolvedRules(c.rules[i]) = {}
<1>1. ASSUME c.parent = Unknown PROVE FALSE
  <2>1. [c EXCEPT !.parent = Malformed] \in Resolutions(c)
    BY <1>1 DEF Resolutions
  <2> QED
    BY <2>1
<1>2. ASSUME ~c.listed PROVE FALSE
  <2>1. [c EXCEPT !.listed = TRUE] \in Resolutions(c)
    BY <1>2 DEF Resolutions
  <2> QED
    BY <2>1
<1>3. ASSUME NEW i \in DOMAIN c.rules, NEW rule \in ResolvedRules(c.rules[i]) PROVE FALSE
  <2>1. [c EXCEPT !.rules[i] = rule] \in Resolutions(c)
    BY <1>2, <1>3 DEF Resolutions
  <2> QED
    BY <2>1
<1> QED
  BY <1>1, <1>2, <1>3

LEMMA ResolvedRule ==
    ASSUME NEW rule \in ConfiguredRules, IsObject(rule), ResolvedRules(rule) = {}
    PROVE  /\ rule.children \subseteq UUIDs \cup {Null, Malformed}
           /\ rule.yellow # "unknown" /\ rule.red # "unknown"
           /\ rule.children # UnknownSet
<1> USE DEF IsObject
<1>1. ASSUME rule.children = UnknownSet PROVE FALSE
  <2>1. [rule EXCEPT !.children = {}] \in ResolvedRules(rule)
    BY <1>1 DEF ResolvedRules
  <2> QED
    BY <2>1
<1>2. ASSUME Unknown \in rule.children PROVE FALSE
  <2>1. Malformed \in UUIDs \cup {Malformed}
    OBVIOUS
  <2>2. [rule EXCEPT !.children = (@ \ {Unknown}) \cup {Malformed, Malformed}]
           \in ResolvedRules(rule)
    BY <1>1, <1>2, <2>1 DEF ResolvedRules
  <2> QED
    BY <2>2
<1>3. ASSUME rule.yellow = "unknown" PROVE FALSE
  <2>1. [rule EXCEPT !.yellow = "none"] \in ResolvedRules(rule)
    BY <1>3 DEF ResolvedRules, Effects
  <2> QED
    BY <2>1
<1>4. ASSUME rule.red = "unknown" PROVE FALSE
  <2>1. [rule EXCEPT !.red = "none"] \in ResolvedRules(rule)
    BY <1>4 DEF ResolvedRules, Effects
  <2> QED
    BY <2>1
<1>5. rule.children \in ConfiguredSets
  BY DEF ConfiguredRules, UnknownRule, NullRule
<1> QED
  BY <1>1, <1>2, <1>3, <1>4, <1>5 DEF ConfiguredSets

\* Validation of a configuration that is known as a whole leaves only sound
\* rulesets and those with a null, which the translation turns down.
LEMMA ValidatedIsSound ==
    ASSUME NEW c \in ConfigurationType, Resolutions(c) = {},
           ~validateComponentRollupModel(c), ~Untranslatable(c.rules)
    PROVE  Sound(c.parent, c.rules)
<1>1. /\ c.parent # Unknown /\ c.listed
      /\ \A i \in DOMAIN c.rules : ResolvedRules(c.rules[i]) = {}
  BY ResolvedConfiguration
<1>2. c.parent \in UUIDs
  BY <1>1 DEF ConfigurationType, validateComponentRollupModel
<1>3. c.rules \in Seq(ConfiguredRules) /\ \A i \in DOMAIN c.rules : i \in Nat
  BY DEF ConfigurationType
<1>4. ASSUME NEW i \in DOMAIN c.rules
      PROVE  /\ IsObject(c.rules[i])
             /\ KnownChildren(c.rules[i]) = c.rules[i].children
             /\ c.rules[i].children # {}
             /\ c.rules[i].children \subseteq UUIDs \ {c.parent}
             /\ {c.rules[i].yellow, c.rules[i].red} \subseteq Effects
             /\ \A child \in c.rules[i].children : ~SelectedBefore(c.rules, i, child)
  <2>1. c.rules[i] \in ConfiguredRules
    BY <1>3
  <2>2. IsObject(c.rules[i]) /\ Null \notin c.rules[i].children
    BY DEF Untranslatable
  <2>3. /\ c.rules[i].children \subseteq UUIDs \cup {Null, Malformed}
        /\ c.rules[i].yellow # "unknown" /\ c.rules[i].red # "unknown"
        /\ c.rules[i].children # UnknownSet
    BY <1>1, <2>1, <2>2, ResolvedRule
  <2>4. ~RuleErrors(c.parent, c.rules, i)
    BY <1>1 DEF validateComponentRollupModel
  <2>5. KnownChildren(c.rules[i]) = c.rules[i].children
    BY <2>2, <2>3, Marks DEF KnownChildren
  <2>6. /\ c.rules[i].children # {}
        /\ ~InvalidEffect(c.rules[i].yellow) /\ ~InvalidEffect(c.rules[i].red)
        /\ \A child \in c.rules[i].children :
              ~InvalidChild(c.parent, child) /\ ~SelectedBefore(c.rules, i, child)
    BY <2>2, <2>4, <2>5 DEF RuleErrors
  <2>7. c.rules[i].children \subseteq UUIDs \ {c.parent}
    BY <2>2, <2>3, <2>6 DEF InvalidChild
  <2>8. {c.rules[i].yellow, c.rules[i].red} \subseteq Effects
    BY <2>3, <2>6 DEF InvalidEffect
  <2> QED
    BY <2>2, <2>5, <2>6, <2>7, <2>8
<1>5. ASSUME NEW i \in DOMAIN c.rules, NEW j \in DOMAIN c.rules, i # j
      PROVE  c.rules[i].children \cap c.rules[j].children = {}
  <2>1. ASSUME NEW k \in DOMAIN c.rules, NEW l \in DOMAIN c.rules, k < l
        PROVE  c.rules[k].children \cap c.rules[l].children = {}
    BY <2>1, <1>4 DEF SelectedBefore
  <2>2. i < j \/ j < i
    BY <1>3, <1>5
  <2> QED
    BY <2>1, <2>2
<1> QED
  BY <1>2, <1>4, <1>5 DEF Sound

\* Conversely, a sound ruleset whose rules are all known passes validation.
LEMMA SoundIsAccepted ==
    ASSUME NEW parent, NEW rules, Sound(parent, rules),
           \A i \in DOMAIN rules : IsObject(rules[i]), Numbered(rules)
    PROVE  ~validateComponentRollupModel([parent |-> parent, listed |-> TRUE, rules |-> rules])
<1>1. parent # Malformed
  BY Marks DEF Sound
<1>2. ASSUME NEW i \in DOMAIN rules PROVE ~RuleErrors(parent, rules, i)
  <2>1. KnownChildren(rules[i]) \subseteq rules[i].children
    BY DEF KnownChildren
  <2>2. rules[i].children # {} /\ rules[i].children \subseteq UUIDs \ {parent}
    BY DEF Sound
  <2>3. ~InvalidEffect(rules[i].yellow) /\ ~InvalidEffect(rules[i].red)
    BY DEF Sound, InvalidEffect
  <2>4. ASSUME NEW child \in KnownChildren(rules[i])
        PROVE  ~InvalidChild(parent, child) /\ ~SelectedBefore(rules, i, child)
    <3>1. ~InvalidChild(parent, child)
      BY <2>1, <2>2, Marks DEF InvalidChild
    <3>2. ASSUME NEW j \in DOMAIN rules, j < i, child \in KnownChildren(rules[j]) PROVE FALSE
      <4>1. child \in rules[j].children
        BY <3>2 DEF KnownChildren
      <4>2. i # j
        BY <3>2 DEF Numbered
      <4> QED
        BY <2>1, <4>1, <4>2 DEF Sound
    <3> QED
      BY <3>1, <3>2 DEF SelectedBefore
  <2> QED
    BY <2>2, <2>3, <2>4 DEF RuleErrors
<1> QED
  BY <1>1, <1>2 DEF validateComponentRollupModel

-----------------------------------------------------------------------------

\* The checks on an answer let only sound rulesets through.
LEMMA AcceptedIsSound ==
    ASSUME NEW remote, NEW parent \in UUIDs, Acceptable(remote, parent),
           Numbered(remote.rules)
    PROVE  LET model == componentRollupModelFromAPI(remote)
           IN  /\ Sound(model.parent, model.rules)
               /\ ~validateComponentRollupModel(
                      [parent |-> model.parent, listed |-> TRUE, rules |-> model.rules])
<1> DEFINE model == componentRollupModelFromAPI(remote)
<1>1. /\ model.parent = parent
      /\ DOMAIN model.rules = DOMAIN remote.rules
      /\ \A i \in DOMAIN remote.rules :
            /\ IsObject(model.rules[i])
            /\ model.rules[i].children = ToSet(remote.rules[i].children)
            /\ model.rules[i].yellow = remote.rules[i].yellow
            /\ model.rules[i].red = remote.rules[i].red
  BY DEF componentRollupModelFromAPI, Acceptable, validateRollup, IsObject
<1>2. \A i \in DOMAIN remote.rules :
        /\ DOMAIN remote.rules[i].children # {}
        /\ remote.rules[i].yellow \in Effects /\ remote.rules[i].red \in Effects
        /\ \A p \in DOMAIN remote.rules[i].children :
              remote.rules[i].children[p] \in UUIDs \ {parent}
  BY DEF Acceptable, validateRollup, ModelAccepts
<1>3. NoChildTwice(remote.rules)
  BY DEF Acceptable, validateRollup
<1> HIDE DEF model
<1>4. ASSUME NEW i \in DOMAIN model.rules
      PROVE  /\ model.rules[i].children # {}
             /\ model.rules[i].children \subseteq UUIDs \ {parent}
             /\ {model.rules[i].yellow, model.rules[i].red} \subseteq Effects
  <2>1. i \in DOMAIN remote.rules
    BY <1>1
  <2>2. model.rules[i].children = {remote.rules[i].children[p] : p \in DOMAIN remote.rules[i].children}
    BY <1>1, <2>1 DEF ToSet
  <2>3. model.rules[i].yellow \in Effects /\ model.rules[i].red \in Effects
    BY <1>1, <1>2, <2>1
  <2>4. model.rules[i].children # {} /\ model.rules[i].children \subseteq UUIDs \ {parent}
    BY <1>2, <2>1, <2>2
  <2> QED
    BY <2>3, <2>4
<1>5. ASSUME NEW i \in DOMAIN model.rules, NEW j \in DOMAIN model.rules, i # j,
             NEW child \in model.rules[i].children \cap model.rules[j].children
      PROVE  FALSE
  <2>1. PICK p \in DOMAIN remote.rules[i].children : remote.rules[i].children[p] = child
    BY <1>1, <1>5 DEF ToSet
  <2>2. PICK q \in DOMAIN remote.rules[j].children : remote.rules[j].children[q] = child
    BY <1>1, <1>5 DEF ToSet
  <2> QED
    BY <1>1, <1>3, <1>5, <2>1, <2>2 DEF NoChildTwice
<1>6. Sound(model.parent, model.rules)
  BY <1>1, <1>4, <1>5 DEF Sound
<1>7. ~validateComponentRollupModel(
         [parent |-> model.parent, listed |-> TRUE, rules |-> model.rules])
  BY <1>1, <1>6, SoundIsAccepted DEF Numbered
<1> QED
  BY <1>6, <1>7 DEF model

LEMMA StoringIsSound ==
    ASSUME NEW remote, NEW parent \in UUIDs, StateIsSound, Store(remote, parent),
           Numbered(remote.rules)
    PROVE  StateIsSound'
<1>1. CASE Acceptable(remote, parent)
  BY <1>1, AcceptedIsSound DEF Store, StateIsSound
<1>2. CASE ~Acceptable(remote, parent)
  BY <1>2 DEF Store, StateIsSound, Sound, validateComponentRollupModel, RuleErrors,
              SelectedBefore
<1> QED
  BY <1>1, <1>2

\* Pulse's answers number their rules the way its rollup does.
LEMMA FaithfulAnswersAreNumbered ==
    ASSUME NEW rollup, Numbered(rollup.rules), NEW good \in Faithful(rollup)
    PROVE  Numbered(good.rules)
BY DEF Faithful, Numbered

LEMMA AnswersAreNumbered ==
    ASSUME NEW rollup, Numbered(rollup.rules), NEW remote \in Answers(rollup)
    PROVE  Numbered(remote.rules)
<1>1. ASSUME NEW rules \in Rulesets, remote \in Faithful([parent |-> rollup.parent, rules |-> rules])
      PROVE  Numbered(remote.rules)
  <2> DEFINE other == [parent |-> rollup.parent, rules |-> rules]
  <2>1. Numbered(other.rules)
    BY RulesAssumption DEF Numbered
  <2> HIDE DEF other
  <2> QED
    BY <1>1, <2>1, FaithfulAnswersAreNumbered DEF other
<1>2. ASSUME NEW good \in Faithful(rollup),
             remote \in {good} \cup Faulty(good) \cup Foreign(good)
      PROVE  Numbered(remote.rules)
  <2> PICK down \in SUBSET DOMAIN rollup.rules :
         good = [parent |-> rollup.parent, revision |-> 1,
                 rules |-> [i \in DOMAIN rollup.rules |-> Listed(rollup.rules[i], i \in down)]]
    BY DEF Faithful
  <2> DEFINE rules == [i \in DOMAIN rollup.rules |-> Listed(rollup.rules[i], i \in down)]
  <2>1. /\ good = [parent |-> rollup.parent, revision |-> 1, rules |-> rules]
        /\ rules = [i \in DOMAIN rules |-> rules[i]] /\ DOMAIN rules = DOMAIN rollup.rules
        /\ DOMAIN good.rules = DOMAIN rules
    OBVIOUS
  <2> HIDE DEF rules
  <2>2. CASE remote \in FaultyHead(good)
    <3>1. remote = [good EXCEPT !.revision = 0] \/ remote = [good EXCEPT !.parent = Malformed]
      BY <2>2, Zenon DEF FaultyHead
    <3> QED
      BY <3>1, <2>1 DEF Numbered
  <2>3. ASSUME NEW i \in DOMAIN good.rules, remote \in FaultyAt(good, i) \cup ForeignAt(good, i)
        PROVE  Numbered(remote.rules)
    <3>1. PICK rule : remote = [good EXCEPT !.rules[i] = rule]
      BY <2>3, Zenon DEF FaultyAt, ForeignAt
    <3> QED
      BY <3>1, <2>1 DEF Numbered
  <2>4. ASSUME NEW list \in Rearranged(good.rules), remote = [good EXCEPT !.rules = list]
        PROVE  Numbered(remote.rules)
    <3>1. PICK order \in UNION {[1..n -> DOMAIN good.rules] : n \in 0..Cardinality(DOMAIN good.rules)} :
             list = [i \in DOMAIN order |-> good.rules[order[i]]]
      BY <2>4, Zenon DEF Rearranged
    <3>2. PICK n \in 0..Cardinality(DOMAIN good.rules) : order \in [1..n -> DOMAIN good.rules]
      BY <3>1
    <3>3. DOMAIN list = 1..n /\ n \in Int
      BY <3>1, <3>2
    <3> QED
      BY <2>1, <2>4, <3>3 DEF Numbered
  <2>5. CASE remote = good
    BY <2>1, <2>5 DEF Numbered
  <2>6. CASE remote \in Faulty(good)
    BY <2>2, <2>3, <2>6 DEF Faulty
  <2>7. CASE remote \in Foreign(good)
    <3>1. \/ \E list \in Rearranged(good.rules) : remote = [good EXCEPT !.rules = list]
          \/ \E i \in DOMAIN good.rules : remote \in ForeignAt(good, i)
      BY <2>7, Zenon DEF Foreign
    <3> QED
      BY <2>3, <2>4, <3>1
  <2> QED
    BY <1>2, <2>5, <2>6, <2>7
<1>3. \/ \E good \in Faithful(rollup) : remote \in {good} \cup Faulty(good) \cup Foreign(good)
      \/ \E rules \in Rulesets : remote \in Faithful([parent |-> rollup.parent, rules |-> rules])
  BY Zenon DEF Answers
<1> QED
  BY <1>1, <1>2, <1>3

LEMMA ReadingIsSound ==
    ASSUME NEW parent \in UUIDs, StateIsSound, Reads(parent), Numbered(srv.rules)
    PROVE  StateIsSound'
<1>1. CASE srv.present /\ srv.parent = parent
  <2>1. PICK remote \in Answers(srv) : Store(remote, parent)
    BY <1>1 DEF Reads
  <2> QED
    BY <2>1, AnswersAreNumbered, StoringIsSound
<1>2. CASE ~(srv.present /\ srv.parent = parent)
  BY <1>2 DEF Reads, StateIsSound, NoRollup
<1> QED
  BY <1>1, <1>2

LEMMA ResolvedRulesAreRules ==
    ASSUME NEW rule \in ConfiguredRules, NEW resolved \in ResolvedRules(rule)
    PROVE  resolved \in ConfiguredRules
<1> DEFINE Objects == [kind : {"object"}, children : ConfiguredSets,
                       yellow : Effects \cup {"unknown", "invalid"},
                       red : Effects \cup {"unknown", "invalid"}]
<1>1. CASE rule.kind = "unknown"
  <2>1. PICK k \in UUIDs : resolved = [kind |-> "object", children |-> {k},
                                       yellow |-> "none", red |-> "red"]
    BY <1>1 DEF ResolvedRules
  <2> QED
    BY <2>1 DEF ConfiguredRules, ConfiguredSets, Effects
<1>2. CASE rule.kind = "null"
  BY <1>2 DEF ResolvedRules
<1>3. CASE rule \in Objects
  <2>1. rule.kind = "object" /\ rule.children \in ConfiguredSets
    BY <1>3
  <2>2. ASSUME NEW s \in SUBSET UUIDs, resolved = [rule EXCEPT !.children = s]
        PROVE  resolved \in Objects
    BY <1>3, <2>2 DEF ConfiguredSets
  <2>3. ASSUME NEW k \in UUIDs \cup {Malformed}, NEW l \in UUIDs \cup {Malformed},
               rule.children # UnknownSet,
               resolved = [rule EXCEPT !.children = (@ \ {Unknown}) \cup {k, l}]
        PROVE  resolved \in Objects
    <3>1. (rule.children \ {Unknown}) \cup {k, l} \in ConfiguredSets
      BY <2>1, <2>3 DEF ConfiguredSets
    <3> QED
      BY <1>3, <2>3, <3>1
  <2>4. ASSUME NEW e \in Effects \cup {"invalid"},
               resolved = [rule EXCEPT !.yellow = e] \/ resolved = [rule EXCEPT !.red = e]
        PROVE  resolved \in Objects
    BY <1>3, <2>4
  <2>5. resolved \in Objects
    BY <2>1, <2>2, <2>3, <2>4 DEF ResolvedRules
  <2> QED
    BY <2>5 DEF ConfiguredRules
<1> QED
  BY <1>1, <1>2, <1>3 DEF ConfiguredRules, UnknownRule, NullRule

LEMMA ResolvingKeepsTypes ==
    ASSUME NEW c \in ConfigurationType, NEW next \in Resolutions(c)
    PROVE  next \in ConfigurationType
<1>1. CASE \E k \in UUIDs \cup {Malformed} : next = [c EXCEPT !.parent = k]
  BY <1>1 DEF ConfigurationType
<1>2. CASE c.listed /\ \E i \in DOMAIN c.rules : \E rule \in ResolvedRules(c.rules[i]) :
              next = [c EXCEPT !.rules[i] = rule]
  <2>0. PICK i \in DOMAIN c.rules : \E rule \in ResolvedRules(c.rules[i]) :
          next = [c EXCEPT !.rules[i] = rule]
    BY <1>2
  <2>1. PICK rule \in ResolvedRules(c.rules[i]) : next = [c EXCEPT !.rules[i] = rule]
    BY <2>0
  <2>2. c.rules[i] \in ConfiguredRules
    BY DEF ConfigurationType
  <2>3. rule \in ConfiguredRules
    BY <2>2, ResolvedRulesAreRules
  <2>4. [c.rules EXCEPT ![i] = rule] \in Seq(ConfiguredRules)
    BY <2>3 DEF ConfigurationType
  <2> QED
    BY <2>1, <2>4 DEF ConfigurationType
<1>3. CASE next = [c EXCEPT !.listed = TRUE, !.rules = <<UnknownRule>>]
  <2>1. <<UnknownRule>> \in Seq(ConfiguredRules)
    BY DEF ConfiguredRules
  <2> QED
    BY <1>3, <2>1 DEF ConfigurationType
<1>4. CASE next = [c EXCEPT !.listed = TRUE]
  BY <1>4 DEF ConfigurationType
<1> QED
  BY <1>1, <1>2, <1>3, <1>4 DEF Resolutions

-----------------------------------------------------------------------------
(* sort.Strings.  That a finite set can be listed in order is an induction *)
(* on the set, made by looking at a smallest set that cannot.              *)

Increasing(list, n) == \A p, q \in 1..n : p < q => list[p] < list[q]
Listable(set) == \E list \in [1..Cardinality(set) -> set] : Increasing(list, Cardinality(set))

LEMMA LeastElement ==
    ASSUME NEW S \in SUBSET Nat, S # {}
    PROVE  \E least \in S : \A k \in S : least <= k
<1>1. \E least \in S : \A k \in S : <<k, least>> \notin OpToRel(<, Nat)
  BY WFMin, NatLessThanWellFounded
<1>2. \E least \in S : \A k \in S : ~(k < least)
  BY <1>1 DEF OpToRel
<1> QED
  BY <1>2

\* Its least element goes before the list of the others.
LEMMA OneMoreIsListable ==
    ASSUME NEW S \in SUBSET Nat, IsFiniteSet(S), NEW least \in S, \A k \in S : least <= k,
           Listable(S \ {least})
    PROVE  Listable(S)
<1> DEFINE n == Cardinality(S)
<1>1. n \in Nat /\ n # 0 /\ Cardinality(S \ {least}) = n - 1
  BY FS_RemoveElement, FS_CardinalityType, FS_EmptySet
<1>2. PICK list \in [1..(n - 1) -> S \ {least}] : Increasing(list, n - 1)
  BY <1>1 DEF Listable
<1> DEFINE longer == [p \in 1..n |-> IF p = 1 THEN least ELSE list[p - 1]]
<1> HIDE DEF n
<1>3. longer \in [1..n -> S]
  BY <1>1, <1>2
<1>4. ASSUME NEW p \in 1..n, NEW q \in 1..n, p < q PROVE longer[p] < longer[q]
  <2>1. q - 1 \in 1..(n - 1) /\ longer[q] = list[q - 1]
    BY <1>1, <1>4
  <2>2. list[q - 1] \in S \ {least}
    BY <1>2, <2>1
  <2>3. CASE p = 1
    <3>1. longer[p] = least /\ least <= list[q - 1] /\ list[q - 1] # least
      BY <1>1, <2>2, <2>3
    <3>2. least \in Nat /\ list[q - 1] \in Nat
      BY <2>2
    <3> QED
      BY <2>1, <3>1, <3>2
  <2>4. CASE p # 1
    <3>1. p - 1 \in 1..(n - 1) /\ longer[p] = list[p - 1] /\ p - 1 < q - 1
      BY <1>1, <1>4, <2>4
    <3> QED
      BY <1>2, <2>1, <3>1 DEF Increasing
  <2> QED
    BY <2>3, <2>4
<1> QED
  BY <1>3, <1>4 DEF Listable, Increasing, n

LEMMA FiniteSetsAreListable ==
    ASSUME NEW S \in SUBSET Nat, IsFiniteSet(S)
    PROVE  Listable(S)
<1> DEFINE Bad == {T \in FiniteSubsetsOf(S) : ~Listable(T)}
<1> SUFFICES ASSUME Bad # {} PROVE FALSE
  BY DEF FiniteSubsetsOf
<1>1. PICK T \in Bad : \A U \in Bad : <<U, T>> \notin StrictSubsetOrdering(S)
  <2>1. IsWellFoundedOn(StrictSubsetOrdering(S), FiniteSubsetsOf(S))
    BY FS_StrictSubsetOrderingWellFounded
  <2>2. Bad \subseteq FiniteSubsetsOf(S)
    OBVIOUS
  <2> HIDE DEF Bad
  <2> QED
    BY <2>1, <2>2, WFMin
<1>2. T \in SUBSET Nat /\ T \subseteq S /\ IsFiniteSet(T) /\ ~Listable(T)
  BY DEF FiniteSubsetsOf
<1>3. T # {}
  <2>1. Listable({})
    <3>1. Cardinality({}) = 0 /\ [p \in 1..0 |-> 0] \in [1..0 -> {}]
      BY FS_EmptySet
    <3>2. Increasing([p \in 1..0 |-> 0], 0)
      BY DEF Increasing
    <3> QED
      BY <3>1, <3>2 DEF Listable
  <2> QED
    BY <1>2, <2>1
<1>4. PICK least \in T : \A k \in T : least <= k
  BY <1>2, <1>3, LeastElement
<1>5. IsFiniteSet(T \ {least})
  BY <1>2, FS_RemoveElement
<1>6. <<T \ {least}, T>> \in StrictSubsetOrdering(S)
  BY <1>2 DEF StrictSubsetOrdering
<1>7. Listable(T \ {least})
  BY <1>1, <1>2, <1>5, <1>6 DEF FiniteSubsetsOf
<1> QED
  BY <1>2, <1>4, <1>7, OneMoreIsListable

\* The list has the set's elements, each once.
LEMMA SortedLists ==
    ASSUME NEW S \in SUBSET Nat, IsFiniteSet(S)
    PROVE  /\ Sorted(S) \in Seq(S)
           /\ ToSet(Sorted(S)) = S
           /\ \A p, q \in DOMAIN Sorted(S) : Sorted(S)[p] = Sorted(S)[q] => p = q
<1> DEFINE n == Cardinality(S)
           list == Sorted(S)
<1>1. list \in [1..n -> S] /\ Increasing(list, n)
  BY FiniteSetsAreListable, Zenon DEF Listable, Sorted, Increasing
<1>2. n \in Nat
  BY FS_CardinalityType
<1> HIDE DEF n, list
<1>3. ASSUME NEW p \in 1..n, NEW q \in 1..n, list[p] = list[q] PROVE p = q
  <2>1. list[p] \in Nat /\ list[q] \in Nat
    <3>1. list[p] \in S /\ list[q] \in S
      BY <1>1, <1>3
    <3> QED
      BY <3>1
  <2>2. ~(p < q) /\ ~(q < p)
    BY <1>1, <1>3, <2>1 DEF Increasing
  <2> QED
    BY <1>2, <2>2
<1>4. list \in Surjection(1..n, S)
  <2>1. list \in Injection(1..n, S)
    BY <1>1, <1>3 DEF Injection, IsInjective
  <2>2. IsFiniteSet(1..n) /\ Cardinality(1..n) = n
    BY <1>2, FS_Interval
  <2> QED
    BY <2>1, <2>2, FS_Injection DEF n
<1>5. ToSet(list) = S
  <2>1. \A k \in S : \E p \in 1..n : list[p] = k
    BY <1>4 DEF Surjection
  <2> QED
    BY <1>1, <2>1 DEF ToSet
<1> QED
  BY <1>1, <1>2, <1>3, <1>5 DEF list

LEMMA ReversedLists ==
    ASSUME NEW S, NEW list \in Seq(S)
    PROVE  /\ Reverse(list) \in Seq(S) /\ Len(Reverse(list)) = Len(list)
           /\ ToSet(Reverse(list)) = ToSet(list)
           /\ Distinct(list) => Distinct(Reverse(list))
<1>1. Len(list) \in Nat /\ DOMAIN list = 1..Len(list)
  OBVIOUS
<1>2. Reverse(list) \in [1..Len(list) -> S]
  BY <1>1 DEF Reverse
<1>3. \A p \in 1..Len(list) : Len(list) - p + 1 \in 1..Len(list) /\ Len(list) - (Len(list) - p + 1) + 1 = p
  BY <1>1
<1>4. ToSet(Reverse(list)) \subseteq ToSet(list)
  BY <1>1, <1>3 DEF Reverse, ToSet
<1>5. ASSUME NEW p \in 1..Len(list) PROVE list[p] \in ToSet(Reverse(list))
  BY <1>1, <1>3 DEF Reverse, ToSet
<1>6. Reverse(list) \in Seq(S) /\ Len(Reverse(list)) = Len(list)
  BY <1>1, <1>2
<1>7. ToSet(list) \subseteq ToSet(Reverse(list))
  BY <1>1, <1>5 DEF ToSet
<1>8. ASSUME Distinct(list), NEW p \in 1..Len(list), NEW q \in 1..Len(list),
             Reverse(list)[p] = Reverse(list)[q]
      PROVE  p = q
  <2>1. /\ Len(list) - p + 1 \in DOMAIN list /\ Len(list) - q + 1 \in DOMAIN list
        /\ list[Len(list) - p + 1] = list[Len(list) - q + 1]
    BY <1>1, <1>3, <1>8 DEF Reverse
  <2>2. Len(list) - p + 1 = Len(list) - q + 1
    BY <1>8, <2>1 DEF Distinct
  <2> QED
    BY <1>1, <2>2
<1>9. Distinct(list) => Distinct(Reverse(list))
  BY <1>2, <1>8 DEF Distinct
<1> QED
  BY <1>4, <1>6, <1>7, <1>9

-----------------------------------------------------------------------------
(* Rejections.                                                             *)

\* A rule that is unknown or null as a whole has no set of children.
LEMMA SoundRulesAreObjects ==
    ASSUME NEW c \in ConfigurationType, Sound(c.parent, c.rules)
    PROVE  /\ \A i \in DOMAIN c.rules : IsObject(c.rules[i])
           /\ ~Untranslatable(c.rules)
<1>1. ASSUME NEW i \in DOMAIN c.rules PROVE IsObject(c.rules[i])
  <2>1. c.rules[i] \in ConfiguredRules /\ c.rules[i].children \subseteq UUIDs
    BY DEF ConfigurationType, Sound
  <2>2. -3 \notin UUIDs
    BY RulesAssumption
  <2> QED
    BY <2>1, <2>2 DEF ConfiguredRules, UnknownRule, NullRule, UnknownSet, IsObject
<1> QED
  BY <1>1, Marks DEF Sound, Untranslatable

\* What is rejected when all of it is known is unsound.
LEMMA CompleteRejections ==
    ASSUME NEW c \in ConfigurationType, Resolutions(c) = {},
           validateComponentRollupModel(c) \/ Untranslatable(c.rules)
    PROVE  ~Sound(c.parent, c.rules)
<1> SUFFICES ASSUME Sound(c.parent, c.rules) PROVE FALSE
  OBVIOUS
<1>1. validateComponentRollupModel(c)
  BY SoundRulesAreObjects
<1>2. c.listed /\ Numbered(c.rules)
  BY ResolvedConfiguration DEF ConfigurationType, Numbered
<1>3. c = [parent |-> c.parent, listed |-> TRUE, rules |-> c.rules]
  BY <1>2 DEF ConfigurationType
<1>4. ~validateComponentRollupModel([parent |-> c.parent, listed |-> TRUE, rules |-> c.rules])
  BY <1>2, SoundRulesAreObjects, SoundIsAccepted
<1> QED
  BY <1>1, <1>3, <1>4

\* Resolving a value takes away nothing that was known.
LEMMA KnownStaysKnown ==
    ASSUME NEW rule \in ConfiguredRules, IsObject(rule), NEW resolved \in ResolvedRules(rule)
    PROVE  /\ IsObject(resolved)
           /\ KnownChildren(rule) \subseteq KnownChildren(resolved)
           /\ rule.children = {} => resolved.children = {}
           /\ InvalidEffect(rule.yellow) => InvalidEffect(resolved.yellow)
           /\ InvalidEffect(rule.red) => InvalidEffect(resolved.red)
<1>1. rule.kind = "object" /\ rule.children \in ConfiguredSets
  BY DEF IsObject, ConfiguredRules, UnknownRule, NullRule
<1>2. DOMAIN rule = {"kind", "children", "yellow", "red"}
  BY <1>1 DEF ConfiguredRules, UnknownRule, NullRule
<1>3. UnknownSet # {} /\ Unknown \notin UnknownSet
  BY DEF UnknownSet, Unknown
<1>4. CASE \E s \in SUBSET UUIDs :
              rule.children = UnknownSet /\ resolved = [rule EXCEPT !.children = s]
  BY <1>1, <1>2, <1>3, <1>4 DEF KnownChildren, IsObject
<1>5. CASE /\ rule.children # UnknownSet /\ Unknown \in rule.children
           /\ \E k, l \in UUIDs \cup {Malformed} :
                  resolved = [rule EXCEPT !.children = (@ \ {Unknown}) \cup {k, l}]
  <2>1. PICK k \in UUIDs \cup {Malformed}, l \in UUIDs \cup {Malformed} :
            resolved = [rule EXCEPT !.children = (@ \ {Unknown}) \cup {k, l}]
    BY <1>5
  <2>2. /\ resolved.children = (rule.children \ {Unknown}) \cup {k, l}
        /\ resolved.kind = "object" /\ resolved.yellow = rule.yellow /\ resolved.red = rule.red
    BY <1>1, <1>2, <2>1
  <2>3. resolved.children # UnknownSet
    <3>1. k # -3
      BY RulesAssumption DEF Malformed
    <3> QED
      BY <2>2, <3>1 DEF UnknownSet
  <2> QED
    BY <1>1, <1>5, <2>2, <2>3 DEF KnownChildren, IsObject
<1>6. CASE \E e \in Effects \cup {"invalid"} :
              rule.yellow = "unknown" /\ resolved = [rule EXCEPT !.yellow = e]
  BY <1>1, <1>2, <1>6 DEF KnownChildren, IsObject, InvalidEffect
<1>7. CASE \E e \in Effects \cup {"invalid"} :
              rule.red = "unknown" /\ resolved = [rule EXCEPT !.red = e]
  BY <1>1, <1>2, <1>7 DEF KnownChildren, IsObject, InvalidEffect
<1> QED
  BY <1>1, <1>4, <1>5, <1>6, <1>7 DEF ResolvedRules

\* What is wrong with a configuration stays wrong, whichever value becomes known.
LEMMA ErrorsStay ==
    ASSUME NEW c \in ConfigurationType, validateComponentRollupModel(c),
           NEW next \in Resolutions(c)
    PROVE  validateComponentRollupModel(next)
<1>1. CASE \E k \in UUIDs \cup {Malformed} :
              c.parent = Unknown /\ next = [c EXCEPT !.parent = k]
  <2>1. PICK k \in UUIDs \cup {Malformed} : next = [c EXCEPT !.parent = k]
    BY <1>1
  <2>2. next.parent = k /\ next.listed = c.listed /\ next.rules = c.rules
    BY <2>1 DEF ConfigurationType
  <2>3. PICK i \in DOMAIN c.rules : c.listed /\ RuleErrors(c.parent, c.rules, i)
    BY <1>1, Marks DEF validateComponentRollupModel
  <2>4. \A child \in KnownChildren(c.rules[i]) : child # Unknown
    BY DEF KnownChildren
  <2>5. RuleErrors(next.parent, c.rules, i)
    BY <1>1, <2>3, <2>4 DEF RuleErrors, InvalidChild
  <2> QED
    BY <2>2, <2>3, <2>5 DEF validateComponentRollupModel
<1>2. CASE c.listed /\ \E j \in DOMAIN c.rules : \E rule \in ResolvedRules(c.rules[j]) :
              next = [c EXCEPT !.rules[j] = rule]
  <2>1. PICK j \in DOMAIN c.rules : \E rule \in ResolvedRules(c.rules[j]) :
            next = [c EXCEPT !.rules[j] = rule]
    BY <1>2
  <2>2. PICK rule \in ResolvedRules(c.rules[j]) : next = [c EXCEPT !.rules[j] = rule]
    BY <2>1
  <2>3. /\ next.parent = c.parent /\ next.listed
        /\ next.rules = [c.rules EXCEPT ![j] = rule]
    BY <1>2, <2>2 DEF ConfigurationType
  <2>4. /\ DOMAIN next.rules = DOMAIN c.rules /\ next.rules[j] = rule
        /\ \A i \in DOMAIN c.rules : i # j => next.rules[i] = c.rules[i]
    BY <2>3 DEF ConfigurationType
  <2>5. ASSUME NEW i \in DOMAIN c.rules, IsObject(c.rules[i])
        PROVE  /\ IsObject(next.rules[i])
               /\ KnownChildren(c.rules[i]) \subseteq KnownChildren(next.rules[i])
               /\ c.rules[i].children = {} => next.rules[i].children = {}
               /\ InvalidEffect(c.rules[i].yellow) => InvalidEffect(next.rules[i].yellow)
               /\ InvalidEffect(c.rules[i].red) => InvalidEffect(next.rules[i].red)
    <3>1. c.rules[i] \in ConfiguredRules
      BY DEF ConfigurationType
    <3> QED
      BY <2>2, <2>4, <2>5, <3>1, KnownStaysKnown
  <2>6. CASE c.parent = Malformed
    BY <2>3, <2>6 DEF validateComponentRollupModel
  <2>7. ASSUME NEW i \in DOMAIN c.rules, RuleErrors(c.parent, c.rules, i)
        PROVE  RuleErrors(next.parent, next.rules, i)
    <3>1. IsObject(c.rules[i])
      BY <2>7 DEF RuleErrors
    <3>2. ASSUME NEW child \in KnownChildren(c.rules[i]), SelectedBefore(c.rules, i, child)
          PROVE  SelectedBefore(next.rules, i, child)
      <4>1. PICK k \in DOMAIN c.rules : k < i /\ child \in KnownChildren(c.rules[k])
        BY <3>2 DEF SelectedBefore
      <4>2. IsObject(c.rules[k])
        BY <4>1 DEF KnownChildren
      <4> QED
        BY <2>4, <2>5, <4>1, <4>2 DEF SelectedBefore
    <3> QED
      BY <2>3, <2>5, <2>7, <3>1, <3>2 DEF RuleErrors
  <2> QED
    BY <2>3, <2>4, <2>6, <2>7 DEF validateComponentRollupModel
<1>3. CASE /\ ~c.listed
           /\ \/ next = [c EXCEPT !.listed = TRUE, !.rules = <<UnknownRule>>]
              \/ next = [c EXCEPT !.listed = TRUE]
  <2>1. c.parent = Malformed
    BY <1>3 DEF validateComponentRollupModel
  <2>2. next.parent = c.parent
    BY <1>3 DEF ConfigurationType
  <2> QED
    BY <2>1, <2>2 DEF validateComponentRollupModel
<1> QED
  BY <1>1, <1>2, <1>3 DEF Resolutions

-----------------------------------------------------------------------------

-----------------------------------------------------------------------------
(* Answers to a request.                                                   *)

ListedRules == [children : Seq(UUIDs), yellow : Effects, red : Effects]

\* Each way to break the contract is one the checks see.
LEMMA FaultsAreSeen ==
    ASSUME NEW parent \in UUIDs, NEW D, NEW rules \in [D -> ListedRules], NEW good,
           good = [parent |-> parent, revision |-> 1, rules |-> rules],
           NEW remote \in Faulty(good)
    PROVE  ~Acceptable(remote, parent)
<1> SUFFICES ASSUME Acceptable(remote, parent) PROVE FALSE
  OBVIOUS
<1>1. /\ validateRollup(remote, parent)
      /\ \A i \in DOMAIN remote.rules : \A p \in DOMAIN remote.rules[i].children :
            remote.rules[i].children[p] \in UUIDs \ {parent}
  BY DEF Acceptable, ModelAccepts
<1>2. CASE remote \in FaultyHead(good)
  <2>1. remote = [good EXCEPT !.revision = 0] \/ remote = [good EXCEPT !.parent = Malformed]
    BY <1>2, Zenon DEF FaultyHead
  <2>2. remote.revision = 0 \/ remote.parent = Malformed
    BY <2>1
  <2> QED
    BY <1>1, <2>2, Marks DEF validateRollup
<1>3. ASSUME NEW i \in DOMAIN good.rules, remote \in FaultyAt(good, i) PROVE FALSE
  <2> DEFINE others == UNION {ToSet(other.children) : other \in ToSet(good.rules)}
  <2>1. PICK rule \in FaultyRules(good.rules[i], good.parent, others) :
            remote = [good EXCEPT !.rules[i] = rule]
    BY <1>3, Zenon DEF FaultyAt
  <2>2. /\ i \in D /\ rules[i] \in ListedRules
        /\ rule \in FaultyRules(rules[i], parent, others)
        /\ DOMAIN remote.rules = D /\ remote.rules[i] = rule
        /\ \A j \in D : j # i => remote.rules[j] = rules[j]
    <3>1. i \in D /\ good.rules = rules /\ good.parent = parent
      BY <1>3
    <3>2. remote.rules = [rules EXCEPT ![i] = rule]
      BY <2>1, <3>1
    <3> QED
      BY <2>1, <3>1, <3>2
  <2>3. /\ DOMAIN rule.children # {} /\ rule.yellow \in Effects /\ rule.red \in Effects
        /\ \A p \in DOMAIN rule.children : rule.children[p] \in UUIDs \ {parent}
    BY <1>1, <2>2 DEF validateRollup
  <2>4. PICK child \in {parent, Malformed} \cup others :
            rule = [rules[i] EXCEPT !.children = Append(@, child)]
    <3>1. \/ rule = [rules[i] EXCEPT !.yellow = "invalid"]
          \/ rule = [rules[i] EXCEPT !.red = "invalid"]
          \/ rule = [rules[i] EXCEPT !.children = <<>>]
          \/ \E child \in {parent, Malformed} \cup others :
                rule = [rules[i] EXCEPT !.children = Append(@, child)]
      BY <2>2, Zenon DEF FaultyRules
    <3>2. rule # [rules[i] EXCEPT !.yellow = "invalid"] /\ rule # [rules[i] EXCEPT !.red = "invalid"]
      BY <2>2, <2>3 DEF ListedRules, Effects
    <3>3. rule # [rules[i] EXCEPT !.children = <<>>]
      <4>1. DOMAIN <<>> = {}
        OBVIOUS
      <4> QED
        BY <2>2, <2>3, <4>1 DEF ListedRules
    <3> QED
      BY <3>1, <3>2, <3>3
  <2> DEFINE list == rules[i].children
             last == Len(list) + 1
  <2>5. list \in Seq(UUIDs) /\ rule.children = Append(list, child)
    BY <2>2, <2>4 DEF ListedRules
  <2>6. /\ last \in DOMAIN rule.children /\ rule.children[last] = child
        /\ \A p \in DOMAIN list : p \in DOMAIN rule.children /\ p # last /\ rule.children[p] = list[p]
    <3>1. Append(list, child) \in Seq(UUIDs \cup {child}) /\ Len(Append(list, child)) = last
      BY <2>5
    <3>2. DOMAIN list = 1..Len(list) /\ Len(list) \in Nat /\ DOMAIN Append(list, child) = 1..last
      BY <2>5, <3>1
    <3> QED
      BY <2>5, <3>2
  <2>7. child \in others
    BY <2>3, <2>6, Marks
  <2>8. PICK j \in D : child \in ToSet(rules[j].children)
    <3>1. ToSet(good.rules) = {rules[j] : j \in D}
      BY DEF ToSet
    <3> QED
      BY <2>7, <3>1
  <2>9. PICK q \in DOMAIN rules[j].children : rules[j].children[q] = child
    BY <2>8 DEF ToSet
  <2>10. \A k, l \in D : \A p \in DOMAIN remote.rules[k].children, r \in DOMAIN remote.rules[l].children :
             remote.rules[k].children[p] = remote.rules[l].children[r] => k = l /\ p = r
    BY <1>1, <2>2 DEF validateRollup, NoChildTwice
  <2>11. q \in DOMAIN remote.rules[j].children /\ remote.rules[j].children[q] = child /\ (i # j \/ q # last)
    BY <2>2, <2>6, <2>9
  <2> QED
    BY <2>2, <2>6, <2>10, <2>11
<1> QED
  BY <1>2, <1>3 DEF Faulty

\* Pulse's own answers list the rules that were sent, each set in some order.
LEMMA FaithfulAnswersListTheRules ==
    ASSUME NEW c \in ConfigurationType, Sound(c.parent, c.rules), NEW good \in Faithful(Asked(c))
    PROVE  \E rules \in [DOMAIN c.rules -> ListedRules] :
              /\ good = [parent |-> c.parent, revision |-> 1, rules |-> rules]
              /\ \A i \in DOMAIN c.rules :
                    /\ ToSet(rules[i].children) = c.rules[i].children /\ Distinct(rules[i].children)
                    /\ rules[i].yellow = c.rules[i].yellow /\ rules[i].red = c.rules[i].red
<1>1. PICK down \in SUBSET DOMAIN Asked(c).rules :
          good = [parent |-> Asked(c).parent, revision |-> 1,
                  rules |-> [i \in DOMAIN Asked(c).rules |-> Listed(Asked(c).rules[i], i \in down)]]
  BY DEF Faithful
<1>2. /\ Asked(c).parent = c.parent /\ DOMAIN Asked(c).rules = DOMAIN c.rules
      /\ \A i \in DOMAIN c.rules : Asked(c).rules[i] = Stored(Translated(c.rules[i]))
  BY DEF Asked
<1> DEFINE rules == [i \in DOMAIN c.rules |-> Listed(Asked(c).rules[i], i \in down)]
<1>3. good = [parent |-> c.parent, revision |-> 1, rules |-> rules]
  BY <1>1, <1>2
<1>4. ASSUME NEW i \in DOMAIN c.rules
      PROVE  /\ rules[i] \in ListedRules
             /\ ToSet(rules[i].children) = c.rules[i].children /\ Distinct(rules[i].children)
             /\ rules[i].yellow = c.rules[i].yellow /\ rules[i].red = c.rules[i].red
  <2> DEFINE set == c.rules[i].children
             back == i \in down
             list == IF back THEN Reverse(Sorted(set)) ELSE Sorted(set)
  <2>1. set \in SUBSET UUIDs /\ {c.rules[i].yellow, c.rules[i].red} \subseteq Effects
    BY DEF Sound
  <2>2. set \in SUBSET Nat /\ IsFiniteSet(set)
    BY <2>1, FS_Subset, RulesAssumption
  <2>3. Sorted(set) \in Seq(UUIDs) /\ ToSet(Sorted(set)) = set /\ Distinct(Sorted(set))
    <3>1. Sorted(set) \in Seq(set) /\ ToSet(Sorted(set)) = set /\ Distinct(Sorted(set))
      BY <2>2, SortedLists DEF Distinct
    <3>2. Seq(set) \subseteq Seq(UUIDs)
      BY <2>1
    <3> QED
      BY <3>1, <3>2
  <2>4. list \in Seq(UUIDs) /\ ToSet(list) = set /\ Distinct(list)
    <3>1. Reverse(Sorted(set)) \in Seq(UUIDs) /\ ToSet(Reverse(Sorted(set))) = set
          /\ Distinct(Reverse(Sorted(set)))
      BY <2>3, ReversedLists
    <3> QED
      BY <2>3, <3>1
  <2>5. Asked(c).rules[i] = [children |-> set, yellow |-> c.rules[i].yellow, red |-> c.rules[i].red]
    BY <1>2, <2>3 DEF Stored, Translated
  <2>6. rules[i] = [children |-> list, yellow |-> c.rules[i].yellow, red |-> c.rules[i].red]
    BY <2>5 DEF Listed
  <2> QED
    BY <2>1, <2>4, <2>6 DEF ListedRules
<1> QED
  BY <1>3, <1>4

\* No answer that breaks the contract in one place is accepted.
LEMMA FaultyAnswersAreSeen ==
    ASSUME NEW c \in ConfigurationType, Sound(c.parent, c.rules),
           NEW good \in Faithful(Asked(c)), NEW remote \in Faulty(good)
    PROVE  ~Acceptable(remote, c.parent)
<1>1. PICK rules \in [DOMAIN c.rules -> ListedRules] :
          good = [parent |-> c.parent, revision |-> 1, rules |-> rules]
  BY FaithfulAnswersListTheRules
<1>2. c.parent \in UUIDs
  BY DEF Sound
<1> QED
  BY <1>1, <1>2, FaultsAreSeen

\* Every answer that lists what was sent is accepted, and stores it.
LEMMA FaithfulAnswersAreStored ==
    ASSUME NEW c \in ConfigurationType, Sound(c.parent, c.rules), NEW remote \in Faithful(Asked(c))
    PROVE  /\ Acceptable(remote, c.parent)
           /\ componentRollupModelFromAPI(remote)
                 = [present |-> TRUE, parent |-> c.parent, rules |-> c.rules]
<1>1. PICK rules \in [DOMAIN c.rules -> ListedRules] :
          /\ remote = [parent |-> c.parent, revision |-> 1, rules |-> rules]
          /\ \A i \in DOMAIN c.rules :
                /\ ToSet(rules[i].children) = c.rules[i].children /\ Distinct(rules[i].children)
                /\ rules[i].yellow = c.rules[i].yellow /\ rules[i].red = c.rules[i].red
  BY FaithfulAnswersListTheRules
<1>2. ASSUME NEW i \in DOMAIN c.rules
      PROVE  /\ DOMAIN rules[i].children # {} /\ rules[i].yellow \in Effects /\ rules[i].red \in Effects
             /\ \A p \in DOMAIN rules[i].children :
                   rules[i].children[p] \in c.rules[i].children /\ rules[i].children[p] \in UUIDs \ {c.parent}
  <2>1. /\ rules[i] \in ListedRules /\ c.rules[i].children # {}
        /\ c.rules[i].children \subseteq UUIDs \ {c.parent}
    BY DEF Sound
  <2>2. c.rules[i].children = {rules[i].children[p] : p \in DOMAIN rules[i].children}
    BY <1>1 DEF ToSet
  <2> QED
    BY <2>1, <2>2 DEF ListedRules
<1>3. NoChildTwice(rules)
  <2> SUFFICES ASSUME NEW i \in DOMAIN c.rules, NEW j \in DOMAIN c.rules,
                      NEW p \in DOMAIN rules[i].children, NEW q \in DOMAIN rules[j].children,
                      rules[i].children[p] = rules[j].children[q]
               PROVE  i = j /\ p = q
    BY DEF NoChildTwice
  <2>1. rules[i].children[p] \in c.rules[i].children \cap c.rules[j].children
    BY <1>2
  <2>2. i = j
    BY <2>1 DEF Sound
  <2> QED
    BY <1>1, <2>2 DEF Distinct
<1>4. Acceptable(remote, c.parent)
  BY <1>1, <1>2, <1>3 DEF Acceptable, validateRollup, ModelAccepts
<1>5. ASSUME NEW i \in DOMAIN c.rules
      PROVE  c.rules[i] = [kind |-> "object", children |-> ToSet(rules[i].children),
                           yellow |-> rules[i].yellow, red |-> rules[i].red]
  <2>1. c.rules[i] \in ConfiguredRules /\ c.rules[i].kind = "object"
    BY SoundRulesAreObjects DEF ConfigurationType, IsObject
  <2>2. c.rules[i] = [kind |-> c.rules[i].kind, children |-> c.rules[i].children,
                      yellow |-> c.rules[i].yellow, red |-> c.rules[i].red]
    BY <2>1 DEF ConfiguredRules, UnknownRule, NullRule
  <2> QED
    BY <1>1, <2>1, <2>2
<1>6. c.rules = [i \in DOMAIN c.rules |-> c.rules[i]]
  BY DEF ConfigurationType
<1>7. [i \in DOMAIN rules |-> [kind |-> "object", children |-> ToSet(rules[i].children),
                               yellow |-> rules[i].yellow, red |-> rules[i].red]] = c.rules
  BY <1>5, <1>6
<1> QED
  BY <1>1, <1>4, <1>7 DEF componentRollupModelFromAPI

-----------------------------------------------------------------------------
(* The invariant.                                                          *)

\* Sorted lists of known children are what the types ask of a request.
LEMMA TranslationTypes ==
    ASSUME NEW c \in ConfigurationType, Sound(c.parent, c.rules)
    PROVE  LET sent == componentRollupRulesFromTerraform(c.rules)
           IN  Numbered(sent) /\ \A i \in DOMAIN sent : sent[i].children \in Seq(UUIDs)
<1> DEFINE sent == componentRollupRulesFromTerraform(c.rules)
<1>1. DOMAIN sent = DOMAIN c.rules /\ \A i \in DOMAIN c.rules : sent[i].children = Sorted(c.rules[i].children)
  BY DEF componentRollupRulesFromTerraform, Translated
<1>2. ASSUME NEW i \in DOMAIN c.rules PROVE sent[i].children \in Seq(UUIDs)
  <2>1. c.rules[i].children \in SUBSET UUIDs
    BY DEF Sound
  <2>2. c.rules[i].children \in SUBSET Nat /\ IsFiniteSet(c.rules[i].children)
    BY <2>1, FS_Subset, RulesAssumption
  <2>3. Sorted(c.rules[i].children) \in Seq(c.rules[i].children)
    BY <2>2, SortedLists
  <2>4. Seq(c.rules[i].children) \subseteq Seq(UUIDs)
    BY <2>1
  <2> QED
    BY <1>1, <2>3, <2>4
<1>3. Numbered(sent)
  BY <1>1 DEF ConfigurationType, Numbered
<1> QED
  BY <1>1, <1>2, <1>3

LEMMA InitRules == Init => RulesInv
<1> SUFFICES ASSUME Init PROVE RulesInv
  OBVIOUS
<1>1. TypeOK
  BY RulesAssumption DEF Init, TypeOK
<1>2. Judged /\ Applied
  BY DEF Init, Judged, Applied
<1>3. AllNumbered /\ StateIsSound
  BY DEF Init, AllNumbered, Numbered, NoRollup, NoAnswer, StateIsSound
<1> QED
  BY <1>1, <1>2, <1>3 DEF RulesInv

\* The reasons for a rejection and what was sent stay while the configuration does.
LEMMA NothingJudged ==
    ASSUME RulesInv, UNCHANGED <<config, phase>>, phase \in {"done", "rejected"}
    PROVE  Judged' /\ Applied'
BY DEF RulesInv, Judged, Applied

LEMMA ValidateConfigRules == RulesInv /\ ValidateConfig => RulesInv'
<1> SUFFICES ASSUME RulesInv, ValidateConfig PROVE RulesInv'
  OBVIOUS
<1>1. TypeOK'
  BY DEF RulesInv, TypeOK, ValidateConfig
<1>2. Judged' /\ Applied'
  BY DEF ValidateConfig, Judged, Applied
<1>3. AllNumbered' /\ StateIsSound'
  BY DEF RulesInv, ValidateConfig, AllNumbered, StateIsSound
<1> QED
  BY <1>1, <1>2, <1>3 DEF RulesInv

LEMMA ResolveRules == RulesInv /\ Resolve => RulesInv'
<1> SUFFICES ASSUME RulesInv, Resolve PROVE RulesInv'
  OBVIOUS
<1>1. TypeOK'
  BY ResolvingKeepsTypes DEF RulesInv, TypeOK, Resolve
<1>2. Judged' /\ Applied'
  BY DEF Resolve, Judged, Applied
<1>3. AllNumbered' /\ StateIsSound'
  BY DEF RulesInv, Resolve, AllNumbered, StateIsSound
<1> QED
  BY <1>1, <1>2, <1>3 DEF RulesInv

\* The step that matters: only a configuration known as a whole gets here.
LEMMA ReplaceRules == RulesInv /\ ReplaceComponentRollup => RulesInv'
<1> SUFFICES ASSUME RulesInv, ReplaceComponentRollup PROVE RulesInv'
  OBVIOUS
<1>1. /\ config \in ConfigurationType /\ Resolutions(config) = {}
      /\ ~validateComponentRollupModel(config)
      /\ UNCHANGED <<config, outcome, answer, srv, state, edits>>
  BY DEF RulesInv, TypeOK, Judged, ReplaceComponentRollup
<1>2. StateIsSound'
  BY <1>1 DEF RulesInv, StateIsSound
<1>3. CASE Untranslatable(config.rules)
  <2>1. phase' = "rejected" /\ UNCHANGED request
    BY <1>3 DEF ReplaceComponentRollup
  <2>2. TypeOK'
    BY <1>1, <2>1 DEF RulesInv, TypeOK
  <2>3. Judged' /\ Applied'
    BY <1>1, <1>3, <2>1 DEF Judged, Applied
  <2>4. AllNumbered'
    BY <1>1, <2>1 DEF RulesInv, AllNumbered
  <2> QED
    BY <1>2, <2>2, <2>3, <2>4 DEF RulesInv
<1>4. CASE ~Untranslatable(config.rules)
  <2>1. phase' = "sent" /\ request' = componentRollupRulesFromTerraform(config.rules)
    BY <1>4 DEF ReplaceComponentRollup
  <2>2. Sound(config.parent, config.rules)
    BY <1>1, <1>4, ValidatedIsSound
  <2>3. Numbered(request') /\ \A i \in DOMAIN request' : request'[i].children \in Seq(UUIDs)
    BY <1>1, <2>1, <2>2, TranslationTypes
  <2>4. TypeOK'
    BY <1>1, <2>1, <2>3 DEF RulesInv, TypeOK
  <2>5. Judged' /\ Applied'
    BY <1>1, <1>4, <2>1, <2>2 DEF Judged, Applied
  <2>6. AllNumbered'
    BY <1>1, <2>3 DEF RulesInv, AllNumbered
  <2> QED
    BY <1>2, <2>4, <2>5, <2>6 DEF RulesInv
<1> QED
  BY <1>3, <1>4

LEMMA ExecuteRules == RulesInv /\ Execute => RulesInv'
<1> SUFFICES ASSUME RulesInv, Execute PROVE RulesInv'
  OBVIOUS
<1>1. /\ phase = "sent" /\ phase' = "answered"
      /\ UNCHANGED <<config, outcome, request, state, edits>>
      /\ request = componentRollupRulesFromTerraform(config.rules)
  BY DEF Execute, RulesInv, Applied
<1>2. srv' = Asked(config)
  BY <1>1 DEF Execute, Asked, componentRollupRulesFromTerraform
<1>3. answer' \in Answers(Asked(config))
  BY <1>2 DEF Execute
<1>4. TypeOK'
  BY <1>1 DEF RulesInv, TypeOK
<1>5. Judged' /\ Applied'
  BY <1>1, <1>2 DEF RulesInv, Judged, Applied, Asked
<1>6. AllNumbered'
  <2>1. Numbered(srv'.rules)
    BY <1>1, <1>2 DEF RulesInv, TypeOK, ConfigurationType, Asked, Numbered
  <2>2. Numbered(answer'.rules)
    BY <1>2, <1>3, <2>1, AnswersAreNumbered
  <2> QED
    BY <1>1, <2>1, <2>2 DEF RulesInv, AllNumbered
<1>7. StateIsSound'
  BY <1>1 DEF RulesInv, StateIsSound
<1> QED
  BY <1>4, <1>5, <1>6, <1>7 DEF RulesInv

LEMMA RefuseRules == RulesInv /\ Refuse => RulesInv'
<1> SUFFICES ASSUME RulesInv, Refuse PROVE RulesInv'
  OBVIOUS
<1>1. TypeOK'
  BY DEF RulesInv, TypeOK, Refuse
<1>2. Judged' /\ Applied'
  BY DEF Refuse, Judged, Applied
<1>3. AllNumbered' /\ StateIsSound'
  BY DEF RulesInv, Refuse, AllNumbered, StateIsSound
<1> QED
  BY <1>1, <1>2, <1>3 DEF RulesInv

LEMMA StoringTypes ==
    ASSUME NEW remote, NEW parent, Store(remote, parent)
    PROVE  outcome' \in {"ok", "error"}
BY DEF Store

LEMMA ReceiveRules == RulesInv /\ Receive => RulesInv'
<1> SUFFICES ASSUME RulesInv, Receive PROVE RulesInv'
  OBVIOUS
<1>1. /\ phase = "answered" /\ phase' = "done" /\ Store(answer, config.parent)
      /\ UNCHANGED <<config, srv, edits>> /\ request' = <<>> /\ answer' = NoAnswer
      /\ Sound(config.parent, config.rules)
  BY DEF Receive, RulesInv, Applied
<1>2. TypeOK'
  BY <1>1, StoringTypes DEF RulesInv, TypeOK
<1>3. Judged' /\ Applied' /\ AllNumbered'
  BY <1>1 DEF RulesInv, Judged, Applied, AllNumbered, Numbered, NoAnswer
<1>4. StateIsSound'
  BY <1>1, StoringIsSound DEF RulesInv, AllNumbered, Sound
<1> QED
  BY <1>2, <1>3, <1>4 DEF RulesInv

LEMMA ReadingTypes ==
    ASSUME NEW parent, Reads(parent)
    PROVE  outcome' \in {"ok", "error"}
BY StoringTypes DEF Reads

LEMMA ReadRules == RulesInv /\ (Read \/ ImportState) => RulesInv'
<1> SUFFICES ASSUME RulesInv, Read \/ ImportState PROVE RulesInv'
  OBVIOUS
<1>1. /\ phase \in {"done", "rejected"}
      /\ UNCHANGED <<config, phase, request, answer, srv, edits>>
  BY DEF Read, ImportState
<1>2. outcome' \in {"ok", "error"} /\ StateIsSound'
  <2>1. CASE Read
    <3>1. state.parent \in UUIDs /\ Reads(state.parent)
      BY <2>1 DEF Read, RulesInv, StateIsSound, Sound
    <3> QED
      BY <3>1, ReadingTypes, ReadingIsSound DEF RulesInv, AllNumbered
  <2>2. CASE ImportState
    <3>1. PICK id \in UUIDs \cup {Malformed} :
            IF id = Malformed THEN outcome' = "error" /\ UNCHANGED state ELSE Reads(id)
      BY <2>2 DEF ImportState
    <3>2. CASE id = Malformed
      BY <3>1, <3>2 DEF RulesInv, StateIsSound
    <3>3. CASE id # Malformed
      BY <3>1, <3>3, ReadingTypes, ReadingIsSound DEF RulesInv, AllNumbered
    <3> QED
      BY <3>2, <3>3
  <2> QED
    BY <2>1, <2>2
<1>3. TypeOK'
  BY <1>1, <1>2 DEF RulesInv, TypeOK
<1>4. Judged' /\ Applied'
  BY <1>1, NothingJudged
<1>5. AllNumbered'
  BY <1>1 DEF RulesInv, AllNumbered
<1> QED
  BY <1>2, <1>3, <1>4, <1>5 DEF RulesInv

LEMMA EditRules == RulesInv /\ Edit => RulesInv'
<1> SUFFICES ASSUME RulesInv, Edit PROVE RulesInv'
  OBVIOUS
<1>1. /\ phase \in {"done", "rejected"} /\ edits > 0 /\ edits' = edits - 1
      /\ UNCHANGED <<config, phase, outcome, request, answer, state>>
  BY DEF Edit
<1>2. TypeOK'
  BY <1>1, RulesAssumption DEF RulesInv, TypeOK
<1>3. Judged' /\ Applied'
  BY <1>1, NothingJudged
<1>4. AllNumbered'
  BY <1>1, RulesAssumption DEF Edit, RulesInv, AllNumbered, Numbered, NoRollup
<1>5. StateIsSound'
  BY <1>1 DEF RulesInv, StateIsSound
<1> QED
  BY <1>2, <1>3, <1>4, <1>5 DEF RulesInv

\* RulesInv is inductive; the steps that matter are the translation, which only
\* a configuration known as a whole reaches, and the storing of answers.
THEOREM RollupInvariant == Spec => []RulesInv
<1>1. RulesInv /\ [Next]_vars => RulesInv'
  <2>1. RulesInv /\ UNCHANGED vars => RulesInv'
    BY DEF vars, RulesInv, TypeOK, Judged, Applied, AllNumbered, StateIsSound
  <2> QED
    BY <2>1, ValidateConfigRules, ResolveRules, ReplaceRules, ExecuteRules, RefuseRules,
       ReceiveRules, ReadRules, EditRules DEF Next
<1> QED
  BY <1>1, InitRules, PTL DEF Spec

\* Whatever the configuration and the answers, the variables have their types;
\* in particular a request lists known components only.
THEOREM RulesTypes == Spec => []TypeOK
<1>1. RulesInv => TypeOK
  BY DEF RulesInv
<1> QED
  BY <1>1, RollupInvariant, PTL

\* No configuration is turned down that is sound, or that would be once its
\* unknown values are known, in whatever order they become so.
THEOREM RejectionsStand == Spec => []RejectionsAreDeserved
<1>1. RulesInv => RejectionsAreDeserved
  BY CompleteRejections, ErrorsStay DEF RulesInv, TypeOK, Judged, RejectionsAreDeserved
<1> QED
  BY <1>1, RollupInvariant, PTL

\* Pulse is never asked for a ruleset the schema rules out, in whatever order
\* the values of the configuration became known.
THEOREM SoundRulesAreSent == Spec => []OnlySoundRulesAreSent
<1>1. RulesInv => OnlySoundRulesAreSent
  BY DEF RulesInv, Applied, OnlySoundRulesAreSent
<1> QED
  BY <1>1, RollupInvariant, PTL

\* Whatever Pulse answers, the state holds a ruleset that can be applied again.
THEOREM StateStaysSound == Spec => []StateIsSound
<1>1. RulesInv => StateIsSound
  BY DEF RulesInv
<1> QED
  BY <1>1, RollupInvariant, PTL

\* A Create or Update that Pulse answers with what it stored succeeds and stores
\* the configuration it was given, in whatever order the children are listed; an
\* answer that breaks the contract in one place fails it and changes no state.
THEOREM AppliesStoreTheConfiguration == Spec => ApplyStoresTheConfiguration
<1> DEFINE Obeyed ==
       Receive =>
        /\ answer \in Faithful(srv) => outcome' = "ok" /\ state' = Configured
        /\ (\E good \in Faithful(srv) : answer \in Faulty(good)) =>
               outcome' = "error" /\ state' = state
<1>1. RulesInv /\ [Next]_vars => [Obeyed]_vars
  <2> SUFFICES ASSUME RulesInv, Receive
               PROVE  /\ answer \in Faithful(srv) => outcome' = "ok" /\ state' = Configured
                      /\ (\E good \in Faithful(srv) : answer \in Faulty(good)) =>
                             outcome' = "error" /\ state' = state
    OBVIOUS
  <2>1. /\ config \in ConfigurationType /\ Sound(config.parent, config.rules)
        /\ srv = Asked(config) /\ Store(answer, config.parent)
    BY DEF RulesInv, TypeOK, Applied, Receive
  <2>2. ASSUME answer \in Faithful(srv) PROVE outcome' = "ok" /\ state' = Configured
    BY <2>1, <2>2, FaithfulAnswersAreStored DEF Store, Configured
  <2>3. ASSUME NEW good \in Faithful(srv), answer \in Faulty(good)
        PROVE  outcome' = "error" /\ state' = state
    BY <2>1, <2>3, FaultyAnswersAreSeen DEF Store
  <2> QED
    BY <2>2, <2>3
<1> QED
  BY <1>1, RollupInvariant, PTL DEF Spec, ApplyStoresTheConfiguration
=============================================================================
