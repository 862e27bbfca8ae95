---------------------------- MODULE DataSources ----------------------------
(***************************************************************************)
(* Data sources from the configuration to the state: ValidateConfig and    *)
(* Read of pulse_tag, of pulse_team and pulse_component_type ("named") and *)
(* of pulse_component, over the selectors of                               *)
(* internal/provider/data_source_common.go.                                *)
(*                                                                         *)
(* A configured value may be unknown for some time, and Terraform          *)
(* validates what it has; it reads when all of them are known, but may     *)
(* still show an attribute that is not configured, and computed, as        *)
(* unknown.  The lookup is one step here; CatalogLookup has its pages.     *)
(***************************************************************************)
EXTENDS Integers, FiniteSets

CONSTANTS
    Ids, Names,   \* of catalog items, as strings
    Catalogs      \* what Pulse may hold: sets of items, one for each id

Purposes == {"filter", "relevance"}
Items == [id : Ids, name : Names, purpose : Purposes]

\* What an attribute may be instead of a proper value; "blank" is the empty string.
NotGiven == {"null", "blank"}
Improper == NotGiven \cup {"unknown", "padded"}

ASSUME DataSourceAssumption ==
    /\ (Ids \cup Names) \cap (Improper \cup Purposes \cup {"", "other"}) = {}
    /\ \A listing \in Catalogs :
          /\ listing \subseteq Items /\ IsFiniteSet(listing)
          /\ \A one, other \in listing : one.id = other.id => one = other

Attributes == {"id", "name", "purpose"}
Configurations ==
    [kind : {"tag"}, id : Ids \cup NotGiven \cup {"padded"},
     name : Names \cup NotGiven \cup {"padded"}, purpose : Purposes \cup NotGiven \cup {"other"}]
    \cup [kind : {"named"}, id : Ids \cup NotGiven \cup {"padded"},
          name : Names \cup NotGiven \cup {"padded"}, purpose : {"null"}]
    \cup [kind : {"component"}, id : Ids \cup {"blank", "padded"},
          name : {"null"}, purpose : {"null"}]

NoItem == [id |-> "", name |-> "", purpose |-> ""]

VARIABLES
    config,    \* the data source's block, all values known: never changes
    known,     \* the attributes Terraform knows by now
    catalog,   \* Pulse's catalog
    state,     \* the item in Terraform's state, or NoItem
    outcome    \* of the last ValidateConfig or Read

vars == <<config, known, catalog, state, outcome>>

AttributesOf(kind) ==
    CASE kind = "tag" -> Attributes [] kind = "named" -> {"id", "name"} [] kind = "component" -> {"id"}

Init ==
    /\ config \in Configurations
    /\ known \in {attributes \in SUBSET Attributes :
                     Attributes \ AttributesOf(config.kind) \subseteq attributes}
    /\ catalog \in Catalogs
    /\ state = NoItem
    /\ outcome = "none"

-----------------------------------------------------------------------------
(* Selectors: none, when the attributes do not make one.                   *)

Value(shown) == IF shown \in NotGiven \cup {"unknown"} THEN "" ELSE shown
Selector(id, name, purpose) == [id |-> id, name |-> name, purpose |-> purpose]

\* One known id or name is enough, whatever its counterpart turns out to be.
idOrNameSelector(id, name) ==
    IF "padded" \notin {id, name} /\ (Value(id) = "" <=> Value(name) # "")
    THEN {Selector(Value(id), Value(name), "")}
    ELSE {}

IdDecides(id, name, purpose) ==
    IF "padded" \in {id, name, purpose} THEN {}
    ELSE IF Value(id) # "" THEN {Selector(id, "", "")}
    ELSE IF Value(name) # "" /\ purpose \in Purposes THEN {Selector("", name, purpose)}
    ELSE {}
tagSelector(id, name, purpose) ==
    IF "padded" \in {id, name, purpose} THEN {}
    ELSE IF Value(id) # "" /\ Value(name) = "" /\ Value(purpose) = "" THEN {Selector(id, "", "")}
    ELSE IF Value(id) = "" /\ Value(name) # "" /\ purpose \in Purposes
    THEN {Selector("", name, purpose)}
    ELSE {}

\* Components are selected by id alone; GetComponent refuses a padded one.
componentSelector(id) ==
    IF id \in NotGiven \cup {"unknown", "padded"} THEN {} ELSE {Selector(id, "", "")}

SelectorOf(shown) ==
    CASE config.kind = "tag" -> tagSelector(shown.id, shown.name, shown.purpose)
      [] config.kind = "named" -> idOrNameSelector(shown.id, shown.name)
      [] config.kind = "component" -> componentSelector(shown.id)

Selects(selector, item) ==
    IF selector.id # "" THEN item.id = selector.id
    ELSE item.name = selector.name /\ selector.purpose \in {"", item.purpose}
-----------------------------------------------------------------------------
(* The data source's methods                                               *)

\* Without known values validation waits for Read.
NeverDeferred(shown) == FALSE
Deferred(shown) == \E attribute \in Attributes : shown[attribute] = "unknown"

ValidateConfig ==
    /\ config.kind # "component"
    /\ LET shown == [attribute \in Attributes |->
                        IF attribute \in known THEN config[attribute] ELSE "unknown"]
       IN outcome' = IF Deferred(shown) \/ SelectorOf(shown) # {} THEN "accepted" ELSE "rejected"
    /\ UNCHANGED <<config, known, catalog, state>>

\* All that is computed comes from the item.
ForgetsName(shown, item) == [item EXCEPT !.name = shown.name]
Stored(shown, item) == item

ReadAs(shown) ==
    LET found == {item \in catalog : \E selector \in SelectorOf(shown) : Selects(selector, item)}
    IN  \/ /\ SelectorOf(shown) = {}
           /\ outcome' = "rejected" /\ UNCHANGED state
        \/ /\ SelectorOf(shown) # {} /\ Cardinality(found) # 1
           /\ outcome' = (IF found = {} THEN "not_found" ELSE "ambiguous") /\ UNCHANGED state
        \/ /\ Cardinality(found) = 1
           /\ outcome' = "read"
           /\ \E item \in found : state' = Stored(shown, item)

Read ==
    /\ known = Attributes
    /\ \E computed \in SUBSET {attribute \in Attributes : config[attribute] = "null"} :
           ReadAs([attribute \in Attributes |->
                       IF attribute \in computed THEN "unknown" ELSE config[attribute]])
    /\ UNCHANGED <<config, known, catalog>>

\* Terraform computes what the configuration refers to (external).
Resolve ==
    /\ \E attribute \in Attributes \ known : known' = known \cup {attribute}
    /\ UNCHANGED <<config, catalog, state, outcome>>

\* People work in Pulse (external).
Change ==
    /\ catalog' \in Catalogs \ {catalog}
    /\ UNCHANGED <<config, known, state, outcome>>

Next == ValidateConfig \/ Read \/ Resolve \/ Change

Spec == Init /\ [][Next]_vars

-----------------------------------------------------------------------------
(* Properties *)

TypeOK ==
    /\ config \in Configurations /\ known \subseteq Attributes /\ catalog \in Catalogs
    /\ state \in Items \cup {NoItem}
    /\ outcome \in {"none", "accepted", "rejected", "read", "not_found", "ambiguous"}

Given == {attribute \in Attributes : config[attribute] \notin NotGiven}

\* What the documentation asks for: an id or a name; for a tag an id or a purpose
\* with a name; for a component an id.
Sound ==
    /\ \A attribute \in Given : config[attribute] \notin {"padded", "other"}
    /\ CASE config.kind = "tag" -> Given \in {{"id"}, {"name", "purpose"}}
         [] config.kind = "named" -> Given \in {{"id"}, {"name"}}
         [] config.kind = "component" -> Given = {"id"}

\* Neither ValidateConfig nor Read rejects a configuration that is right once
\* all its values are known, whatever is unknown when they see it.
RejectionsAreDeserved == outcome = "rejected" => ~Sound

\* What Read puts into the state is the only item of the catalog that has every
\* attribute the configuration gives, of a configuration that is right.
StateIsWhatWasAskedFor ==
    [][state' # state =>
           /\ Sound
           /\ {item \in catalog : \A attribute \in Given : item[attribute] = config[attribute]}
                  = {state'}]_vars
=============================================================================
