---------------------------- MODULE RollupRules ----------------------------
(***************************************************************************)
(* The ruleset of a pulse_component_rollup on its way from a configuration *)
(* to Pulse and back (internal/provider/component_rollup_resource.go).     *)
(*                                                                         *)
(* While Terraform resolves references a configuration holds unknown       *)
(* values, and ValidateConfig judges it as far as it is known, again each  *)
(* time more of it is.  Complete rules are translated and sent; Pulse's    *)
(* answer passes the client's contract and the provider's own checks       *)
(* before it becomes state.  Revisions are the matter of RevisionedResource *)
(* and appear here only as valid or not.                                   *)
(***************************************************************************)
EXTENDS Integers, SequencesExt

CONSTANTS
    UUIDs,          \* canonical component UUIDs, numbered in their string order
    Configurations, \* what users write, with its unknown values
    Rulesets,       \* what people store in Pulse under Parent
    MaxEdits        \* edits people make in Pulse

Unknown == 0
Null == -1
Malformed == -2     \* any string that is no lowercase UUID
Effects == {"none", "yellow", "red"}

\* A set that is unknown as a whole, and rules that are unknown or null.
UnknownSet == {-3}
UnknownRule == [kind |-> "unknown", children |-> UnknownSet,
                yellow |-> "unknown", red |-> "unknown"]
NullRule == [UnknownRule EXCEPT !.kind = "null"]

ConfiguredSets == (SUBSET (UUIDs \cup {Unknown, Null, Malformed})) \cup {UnknownSet}
ConfiguredRules ==
    [kind : {"object"}, children : ConfiguredSets,
     yellow : Effects \cup {"unknown", "invalid"}, red : Effects \cup {"unknown", "invalid"}]
    \cup {UnknownRule, NullRule}

ConfigurationType ==
    [parent : UUIDs \cup {Unknown, Malformed}, listed : BOOLEAN, rules : Seq(ConfiguredRules)]

ASSUME RulesAssumption ==
    /\ UUIDs \subseteq Nat \ {0} /\ UUIDs # {} /\ IsFiniteSet(UUIDs)
    /\ MaxEdits \in Nat
    /\ Configurations \subseteq ConfigurationType
    /\ \A rules \in Rulesets : DOMAIN rules \subseteq Nat

VARIABLES
    config,   \* [parent, listed, rules]: listed is false while rules is unknown
    phase,    \* "written", "planned", "rejected", "sent", "answered" or "done"
    outcome,  \* of the last Create, Update or Read: "none", "ok" or "error"
    request,  \* the rules of ComponentRollupReplaceRequest
    answer,   \* ComponentRollup as Pulse sends it
    srv,      \* Pulse's rollup of the parent
    state,    \* Terraform's
    edits     \* what is left of MaxEdits

vars == <<config, phase, outcome, request, answer, srv, state, edits>>

NoRollup == [present |-> FALSE, parent |-> Null, rules |-> <<>>]
NoAnswer == [parent |-> Null, rules |-> <<>>, revision |-> 0]

Init ==
    /\ config \in Configurations
    /\ phase = "written"
    /\ outcome = "none"
    /\ request = <<>>
    /\ answer = NoAnswer
    /\ srv = NoRollup
    /\ state = NoRollup
    /\ edits = MaxEdits

-----------------------------------------------------------------------------
(* Validation: what is unknown or null is passed over *)

IsObject(rule) == rule.kind = "object"
KnownChildren(rule) ==
    IF IsObject(rule) /\ rule.children # UnknownSet
    THEN rule.children \ {Unknown, Null} ELSE {}

UnresolvedEffectsAreInvalid(effect) == effect \notin Effects
InvalidEffect(effect) == effect \notin Effects \cup {"unknown"}

NothingSelectedBefore(rules, i, child) == FALSE
SelectedBefore(rules, i, child) ==
    \E j \in DOMAIN rules : j < i /\ child \in KnownChildren(rules[j])

AnyStringIsAChild(parent, child) == child = parent
InvalidChild(parent, child) == child = Malformed \/ child = parent

RuleErrors(parent, rules, i) ==
    /\ IsObject(rules[i])
    /\ \/ InvalidEffect(rules[i].yellow) \/ InvalidEffect(rules[i].red)
       \/ rules[i].children = {}
       \/ \E child \in KnownChildren(rules[i]) :
            InvalidChild(parent, child) \/ SelectedBefore(rules, i, child)

validateComponentRollupModel(c) ==
    \/ c.parent = Malformed
    \/ c.listed /\ \E i \in DOMAIN c.rules : RuleErrors(c.parent, c.rules, i)

ValidateConfig ==
    /\ phase = "written"
    /\ phase' = IF validateComponentRollupModel(config) THEN "rejected" ELSE "planned"
    /\ UNCHANGED <<config, outcome, request, answer, srv, state, edits>>

\* One more value becomes known (Terraform core, external).  One element of a
\* set may have stood for one UUID or, counted once, for two.
ResolvedRules(rule) ==
    IF rule.kind = "unknown"
    THEN {[kind |-> "object", children |-> {k}, yellow |-> "none", red |-> "red"] : k \in UUIDs}
    ELSE IF rule.kind = "null" THEN {}
    ELSE (IF rule.children = UnknownSet
          THEN {[rule EXCEPT !.children = s] : s \in SUBSET UUIDs}
          ELSE IF Unknown \in rule.children
          THEN {[rule EXCEPT !.children = (@ \ {Unknown}) \cup {k, l}] : k, l \in UUIDs \cup {Malformed}}
          ELSE {})
         \cup (IF rule.yellow = "unknown"
               THEN {[rule EXCEPT !.yellow = e] : e \in Effects \cup {"invalid"}} ELSE {})
         \cup (IF rule.red = "unknown"
               THEN {[rule EXCEPT !.red = e] : e \in Effects \cup {"invalid"}} ELSE {})

Resolutions(c) ==
    (IF c.parent = Unknown THEN {[c EXCEPT !.parent = k] : k \in UUIDs \cup {Malformed}} ELSE {})
    \cup (IF c.listed
          THEN UNION {{[c EXCEPT !.rules[i] = rule] : rule \in ResolvedRules(c.rules[i])} :
                        i \in DOMAIN c.rules}
          ELSE {[c EXCEPT !.listed = TRUE, !.rules = <<UnknownRule>>],
                [c EXCEPT !.listed = TRUE]})

Resolve ==
    /\ phase = "planned"
    /\ config' \in Resolutions(config)
    /\ phase' = "written"
    /\ UNCHANGED <<outcome, request, answer, srv, state, edits>>

-----------------------------------------------------------------------------
(* Create and Update *)

\* ElementsAs has no place for a null; the others are sorted.
Untranslatable(rules) ==
    \E i \in DOMAIN rules : ~IsObject(rules[i]) \/ Null \in rules[i].children
Sorted(set) ==
    CHOOSE list \in [1..Cardinality(set) -> set] :
        \A p, q \in 1..Cardinality(set) : p < q => list[p] < list[q]
TranslatedSwapped(rule) ==
    [children |-> Sorted(rule.children), yellow |-> rule.red, red |-> rule.yellow]
Translated(rule) ==
    [children |-> Sorted(rule.children), yellow |-> rule.yellow, red |-> rule.red]
componentRollupRulesFromTerraform(rules) == [i \in DOMAIN rules |-> Translated(rules[i])]

ReplaceComponentRollup ==
    /\ phase = "planned"
    /\ Resolutions(config) = {}
    /\ IF Untranslatable(config.rules)
       THEN phase' = "rejected" /\ UNCHANGED request
       ELSE /\ request' = componentRollupRulesFromTerraform(config.rules)
            /\ phase' = "sent"
    /\ UNCHANGED <<config, outcome, answer, srv, state, edits>>

\* Pulse keeps a rule's children as a set and lists them in any order (external).
Stored(rule) == [rule EXCEPT !.children = ToSet(@)]
Listed(rule, backwards) ==
    [rule EXCEPT !.children = IF backwards THEN Reverse(Sorted(@)) ELSE Sorted(@)]
Faithful(rollup) ==
    {[parent |-> rollup.parent, revision |-> 1,
      rules |-> [i \in DOMAIN rollup.rules |-> Listed(rollup.rules[i], i \in down)]] :
        down \in SUBSET DOMAIN rollup.rules}

\* What may reach the client instead (external): an answer that breaks Pulse's
\* contract in one place, ...
FaultyRules(rule, parent, others) ==
    {[rule EXCEPT !.yellow = "invalid"], [rule EXCEPT !.red = "invalid"],
     [rule EXCEPT !.children = <<>>]}
    \cup {[rule EXCEPT !.children = Append(@, child)] : child \in {parent, Malformed} \cup others}
FaultyHead(good) == {[good EXCEPT !.revision = 0], [good EXCEPT !.parent = Malformed]}
FaultyAt(good, i) ==
    {[good EXCEPT !.rules[i] = rule] :
        rule \in FaultyRules(good.rules[i], good.parent,
                             UNION {ToSet(other.children) : other \in ToSet(good.rules)})}
Faulty(good) == FaultyHead(good) \cup UNION {FaultyAt(good, i) : i \in DOMAIN good.rules}

\* ... or a well-formed one that is not what is stored: rules in another order,
\* missing or repeated, with other effects or children, or other rules altogether.
ForeignRules(rule) ==
    {[rule EXCEPT !.yellow = effect] : effect \in Effects}
    \cup {[rule EXCEPT !.red = effect] : effect \in Effects}
    \cup {[rule EXCEPT !.children = Append(@, child)] : child \in UUIDs}
    \cup {[rule EXCEPT !.children = <<child>>] : child \in UUIDs}
Rearranged(rules) ==
    {[i \in DOMAIN order |-> rules[order[i]]] :
        order \in UNION {[1..n -> DOMAIN rules] : n \in 0..Cardinality(DOMAIN rules)}}
ForeignAt(good, i) == {[good EXCEPT !.rules[i] = rule] : rule \in ForeignRules(good.rules[i])}
Foreign(good) ==
    {[good EXCEPT !.rules = rules] : rules \in Rearranged(good.rules)}
    \cup UNION {ForeignAt(good, i) : i \in DOMAIN good.rules}

Answers(rollup) ==
    (UNION {{good} \cup Faulty(good) \cup Foreign(good) : good \in Faithful(rollup)})
    \cup (UNION {Faithful([parent |-> rollup.parent, rules |-> rules]) : rules \in Rulesets})

Execute ==
    /\ phase = "sent"
    /\ srv' = [present |-> TRUE, parent |-> config.parent,
               rules |-> [i \in DOMAIN request |-> Stored(request[i])]]
    /\ answer' \in Answers(srv')
    /\ phase' = "answered"
    /\ UNCHANGED <<config, outcome, request, state, edits>>

Refuse ==
    /\ phase = "sent"
    /\ phase' = "done" /\ outcome' = "error"
    /\ UNCHANGED <<config, request, answer, srv, state, edits>>

NoChildTwice(rules) ==
    \A i, j \in DOMAIN rules :
        \A p \in DOMAIN rules[i].children, q \in DOMAIN rules[j].children :
            rules[i].children[p] = rules[j].children[q] => i = j /\ p = q

validateRollup(remote, expectedParent) ==
    /\ remote.parent = expectedParent
    /\ remote.revision > 0
    /\ \A i \in DOMAIN remote.rules :
        /\ DOMAIN remote.rules[i].children # {}
        /\ remote.rules[i].yellow \in Effects
        /\ remote.rules[i].red \in Effects
    /\ NoChildTwice(remote.rules)

\* The provider checks all that again, and the children themselves.
TrustsTheContract(remote, expectedParent) == validateRollup(remote, expectedParent)
ModelAccepts(remote, expectedParent) ==
    /\ validateRollup(remote, expectedParent)
    /\ \A i \in DOMAIN remote.rules :
          \A p \in DOMAIN remote.rules[i].children :
              remote.rules[i].children[p] \in UUIDs \ {expectedParent}
Acceptable(remote, expectedParent) ==
    validateRollup(remote, expectedParent) /\ ModelAccepts(remote, expectedParent)

componentRollupModelFromAPI(remote) ==
    [present |-> TRUE, parent |-> remote.parent,
     rules |-> [i \in DOMAIN remote.rules |->
        [kind |-> "object", children |-> ToSet(remote.rules[i].children),
         yellow |-> remote.rules[i].yellow, red |-> remote.rules[i].red]]]

\* What Create, Update and Read do with an answer.
Store(remote, expectedParent) ==
    IF Acceptable(remote, expectedParent)
    THEN state' = componentRollupModelFromAPI(remote) /\ outcome' = "ok"
    ELSE UNCHANGED state /\ outcome' = "error"

\* The request and the answer are locals of Create and Update.
Receive ==
    /\ phase = "answered"
    /\ Store(answer, config.parent)
    /\ phase' = "done" /\ request' = <<>> /\ answer' = NoAnswer
    /\ UNCHANGED <<config, srv, edits>>

-----------------------------------------------------------------------------
(* Read and ImportState, once the apply is over; a rejected configuration is   *)
(* the end here, as Terraform validates before it refreshes or imports.        *)

Reads(parent) ==
    IF srv.present /\ srv.parent = parent
    THEN \E remote \in Answers(srv) : Store(remote, parent)
    ELSE state' = NoRollup /\ outcome' = "ok"

Read ==
    /\ phase = "done"
    /\ state.present
    /\ Reads(state.parent)
    /\ UNCHANGED <<config, phase, request, answer, srv, edits>>

ImportState ==
    /\ phase = "done"
    /\ ~state.present
    /\ \E id \in UUIDs \cup {Malformed} :
        IF id = Malformed THEN outcome' = "error" /\ UNCHANGED state ELSE Reads(id)
    /\ UNCHANGED <<config, phase, request, answer, srv, edits>>

\* People replace the rules in Pulse, or remove them (external).
Edit ==
    /\ phase = "done"
    /\ edits > 0
    /\ edits' = edits - 1
    /\ \/ \E rules \in Rulesets, parent \in UUIDs :
            srv' = [present |-> TRUE, parent |-> parent, rules |-> rules]
       \/ srv' = NoRollup
    /\ UNCHANGED <<config, phase, outcome, request, answer, state>>

Next ==
    \/ ValidateConfig \/ Resolve \/ ReplaceComponentRollup
    \/ Execute \/ Refuse \/ Receive
    \/ Read \/ ImportState \/ Edit

Spec == Init /\ [][Next]_vars

-----------------------------------------------------------------------------
(* Properties *)

\* What the schema asks of a complete ruleset: non-empty sets of canonical
\* children, none of them the parent, no child in two rules, known effects.
Sound(parent, rules) ==
    /\ parent \in UUIDs
    /\ \A i \in DOMAIN rules :
        /\ rules[i].children # {}
        /\ rules[i].children \subseteq UUIDs \ {parent}
        /\ {rules[i].yellow, rules[i].red} \subseteq Effects
    /\ \A i, j \in DOMAIN rules : i # j => rules[i].children \cap rules[j].children = {}

TypeOK ==
    /\ config \in ConfigurationType
    /\ phase \in {"written", "planned", "rejected", "sent", "answered", "done"}
    /\ outcome \in {"none", "ok", "error"}
    /\ \A i \in DOMAIN request : request[i].children \in Seq(UUIDs)
    /\ edits \in 0..MaxEdits

\* ValidateConfig never turns down what it should not: a complete ruleset that
\* is rejected, here or by the translation, is unsound, and an incomplete one
\* stays rejected whatever its unknown values turn out to be.
RejectionsAreDeserved ==
    phase = "rejected" =>
        IF Resolutions(config) = {}
        THEN ~Sound(config.parent, config.rules)
        ELSE \A next \in Resolutions(config) : validateComponentRollupModel(next)

\* What passed validation piece by piece is sound as a whole when it is sent:
\* Pulse is never asked for a ruleset the schema rules out.
OnlySoundRulesAreSent == phase = "sent" => Sound(config.parent, config.rules)

\* Whatever Pulse answers, what becomes state is a sound ruleset, so that it
\* can be written as configuration and applied again.
StateIsSound ==
    state.present =>
        /\ Sound(state.parent, state.rules)
        /\ ~validateComponentRollupModel(
               [parent |-> state.parent, listed |-> TRUE, rules |-> state.rules])

\* Create and Update store the configuration they were given whenever Pulse
\* answers with what it stored, in whatever order it lists children: anything
\* else Terraform would refuse as an inconsistent result, and a difference would
\* stay in every plan.  An answer that breaks the contract in one place fails
\* them and changes no state.  Well-formed answers about other rules are not
\* told apart: the code stores them, and leaves the comparison to Terraform.
Configured == [present |-> TRUE, parent |-> config.parent, rules |-> config.rules]
ApplyStoresTheConfiguration ==
    [][Receive =>
        /\ answer \in Faithful(srv) => outcome' = "ok" /\ state' = Configured
        /\ (\E good \in Faithful(srv) : answer \in Faulty(good)) =>
               outcome' = "error" /\ state' = state]_vars
=============================================================================
