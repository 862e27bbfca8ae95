--------------------------- MODULE MCRollupRules ---------------------------
(* A small instance of RollupRules for TLC: up to two rules that select at *)
(* most two children each, with every kind of unknown, null and malformed  *)
(* value.                                                                  *)
EXTENDS RollupRules

MCUUIDs == 1..3

MCSets == {s \in SUBSET (MCUUIDs \cup {Unknown, Null, Malformed}) : Cardinality(s) <= 2}
          \cup {UnknownSet}
MCRules ==
    [kind : {"object"}, children : MCSets, yellow : {"none"}, red : {"red"}]
    \cup [kind : {"object"}, children : {{2}, {3}},
          yellow : {"unknown", "invalid"}, red : {"yellow", "unknown"}]
    \cup {UnknownRule, NullRule}

MCConfigurations ==
    [parent : {1, Unknown, Malformed}, listed : {TRUE},
     rules : {<<>>} \cup {<<rule>> : rule \in MCRules} \cup {<<one, two>> : one, two \in MCRules}]
    \cup [parent : {1}, listed : {FALSE}, rules : {<<>>}]

MCRulesets ==
    {<<>>, <<[children |-> {2, 3}, yellow |-> "none", red |-> "yellow"]>>,
     <<[children |-> {3}, yellow |-> "yellow", red |-> "red"],
       [children |-> {1, 2}, yellow |-> "none", red |-> "red"]>>}
=============================================================================
