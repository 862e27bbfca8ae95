------------------------- MODULE DataSources_proofs -------------------------
(***************************************************************************)
(* Proofs about DataSources, for any identifiers, names and catalogs.      *)
(*                                                                         *)
(* What ValidateConfig sees once nothing is unknown, and what Read sees,   *)
(* is the configuration, except that Read may be shown "unknown" where     *)
(* nothing is configured.  On such views each selector exists exactly for  *)
(* the configurations that are right, and it picks the items that have     *)
(* every attribute given.                                                  *)
(***************************************************************************)
EXTENDS DataSources, FiniteSetTheorems, TLAPS

\* A view of the configuration in which only what is computed may be unknown.
Faithful(shown) ==
    \A attribute \in Attributes :
        \/ shown[attribute] = config[attribute]
        \/ config[attribute] = "null" /\ shown[attribute] = "unknown"

HasAllGiven(item) == \A attribute \in Given : item[attribute] = config[attribute]

-----------------------------------------------------------------------------

\* A proper value is none of the words that stand for something else.
LEMMA ProperValues ==
    /\ \A text \in Ids \cup Names : text \notin {"null", "blank", "unknown", "padded",
                                                 "filter", "relevance", "", "other"}
    /\ Purposes = {"filter", "relevance"}
BY DataSourceAssumption DEF Improper, NotGiven, Purposes

\* For a data source of each kind: there is a selector exactly when the
\* configuration is right, and it selects by all that the configuration gives.
Decides(shown) ==
    /\ SelectorOf(shown) # {} <=> Sound
    /\ \A selector \in SelectorOf(shown), item \in Items :
          Selects(selector, item) <=> HasAllGiven(item)
    /\ \A one, other \in SelectorOf(shown) : one = other

LEMMA OneByIdSelects ==
    ASSUME config.id \in Ids
    PROVE  \A item : Selects(Selector(config.id, "", ""), item) <=> item.id = config.id
BY ProperValues DEF Selects, Selector

LEMMA TagSelectors ==
    ASSUME NEW shown, config \in Configurations, config.kind = "tag", Faithful(shown)
    PROVE  Decides(shown)
<1>1. /\ config.id \in Ids \cup {"null", "blank", "padded"}
      /\ config.name \in Names \cup {"null", "blank", "padded"}
      /\ config.purpose \in {"filter", "relevance", "null", "blank", "other"}
  BY DEF Configurations, NotGiven, Purposes
<1>2. /\ shown.id = config.id \/ (config.id = "null" /\ shown.id = "unknown")
      /\ shown.name = config.name \/ (config.name = "null" /\ shown.name = "unknown")
      /\ shown.purpose = config.purpose \/ (config.purpose = "null" /\ shown.purpose = "unknown")
  BY DEF Faithful, Attributes
<1>3. SelectorOf(shown) = tagSelector(shown.id, shown.name, shown.purpose)
  BY DEF SelectorOf
<1>4. /\ "id" \in Given <=> config.id \notin {"null", "blank"}
      /\ "name" \in Given <=> config.name \notin {"null", "blank"}
      /\ "purpose" \in Given <=> config.purpose \notin {"null", "blank"}
      /\ Given \subseteq {"id", "name", "purpose"}
  BY DEF Given, Attributes, NotGiven
<1>5. Sound <=> /\ \A attribute \in Given : config[attribute] \notin {"padded", "other"}
                /\ Given \in {{"id"}, {"name", "purpose"}}
  BY DEF Sound
<1>6. CASE /\ config.id \in Ids /\ config.name \in {"null", "blank"}
           /\ config.purpose \in {"null", "blank"}
  <2>1. SelectorOf(shown) = {Selector(config.id, "", "")}
    BY <1>1, <1>2, <1>3, <1>6, ProperValues DEF tagSelector, Value, NotGiven, Purposes
  <2>2. Given = {"id"}
    BY <1>4, <1>6, ProperValues
  <2>3. Sound
    BY <1>5, <1>6, <2>2, ProperValues
  <2>4. \A item : HasAllGiven(item) <=> item.id = config.id
    BY <2>2 DEF HasAllGiven
  <2> QED
    BY <1>6, <2>1, <2>3, <2>4, OneByIdSelects DEF Decides
<1>7. CASE /\ config.id \in {"null", "blank"} /\ config.name \in Names
           /\ config.purpose \in {"filter", "relevance"}
  <2>1. SelectorOf(shown) = {Selector("", config.name, config.purpose)}
    BY <1>1, <1>2, <1>3, <1>7, ProperValues DEF tagSelector, Value, NotGiven, Purposes
  <2>2. Given = {"name", "purpose"}
    BY <1>4, <1>7, ProperValues
  <2>3. Sound
    BY <1>5, <1>7, <2>2, ProperValues
  <2>4. \A item : HasAllGiven(item) <=>
                      item.name = config.name /\ item.purpose = config.purpose
    BY <2>2 DEF HasAllGiven
  <2>5. config.purpose # ""
    BY <1>7
  <2>6. \A item : Selects(Selector("", config.name, config.purpose), item) <=> HasAllGiven(item)
    <3> TAKE item
    <3>1. Selects(Selector("", config.name, config.purpose), item) <=>
              item.name = config.name /\ config.purpose \in {"", item.purpose}
      BY DEF Selects, Selector
    <3>2. HasAllGiven(item) <=> item.name = config.name /\ item.purpose = config.purpose
      BY <2>4
    <3> QED
      BY <2>5, <3>1, <3>2
  <2> QED
    BY <2>1, <2>3, <2>6 DEF Decides
<1>8. ASSUME ~(/\ config.id \in Ids /\ config.name \in {"null", "blank"}
               /\ config.purpose \in {"null", "blank"}),
             ~(/\ config.id \in {"null", "blank"} /\ config.name \in Names
               /\ config.purpose \in {"filter", "relevance"})
      PROVE  Decides(shown)
  <2>1. SelectorOf(shown) = {}
    BY <1>1, <1>2, <1>3, <1>8, ProperValues DEF tagSelector, Value, NotGiven, Purposes
  <2>2. ASSUME Given = {"id"}, Sound PROVE FALSE
    BY <1>1, <1>4, <1>5, <1>8, <2>2, ProperValues
  <2>3. ASSUME Given = {"name", "purpose"}, Sound PROVE FALSE
    BY <1>1, <1>4, <1>5, <1>8, <2>3, ProperValues
  <2> QED
    BY <1>5, <2>1, <2>2, <2>3 DEF Decides
<1> QED
  BY <1>6, <1>7, <1>8

LEMMA NamedSelectors ==
    ASSUME NEW shown, config \in Configurations, config.kind = "named", Faithful(shown)
    PROVE  Decides(shown)
<1>1. /\ config.id \in Ids \cup {"null", "blank", "padded"}
      /\ config.name \in Names \cup {"null", "blank", "padded"}
      /\ config.purpose = "null"
  BY DEF Configurations, NotGiven
<1>2. /\ shown.id = config.id \/ (config.id = "null" /\ shown.id = "unknown")
      /\ shown.name = config.name \/ (config.name = "null" /\ shown.name = "unknown")
  BY DEF Faithful, Attributes
<1>3. SelectorOf(shown) = idOrNameSelector(shown.id, shown.name)
  BY DEF SelectorOf
<1>4. /\ "id" \in Given <=> config.id \notin {"null", "blank"}
      /\ "name" \in Given <=> config.name \notin {"null", "blank"}
      /\ Given \subseteq {"id", "name"}
  BY <1>1 DEF Given, Attributes, NotGiven
<1>5. Sound <=> /\ \A attribute \in Given : config[attribute] \notin {"padded", "other"}
                /\ Given \in {{"id"}, {"name"}}
  BY DEF Sound
<1>6. CASE config.id \in Ids /\ config.name \in {"null", "blank"}
  <2>1. SelectorOf(shown) = {Selector(config.id, "", "")}
    BY <1>1, <1>2, <1>3, <1>6, ProperValues DEF idOrNameSelector, Value, NotGiven
  <2>2. Given = {"id"}
    BY <1>4, <1>6, ProperValues
  <2>3. Sound
    BY <1>5, <1>6, <2>2, ProperValues
  <2>4. \A item : HasAllGiven(item) <=> item.id = config.id
    BY <2>2 DEF HasAllGiven
  <2> QED
    BY <1>6, <2>1, <2>3, <2>4, OneByIdSelects DEF Decides
<1>7. CASE config.id \in {"null", "blank"} /\ config.name \in Names
  <2>1. SelectorOf(shown) = {Selector("", config.name, "")}
    BY <1>1, <1>2, <1>3, <1>7, ProperValues DEF idOrNameSelector, Value, NotGiven
  <2>2. Given = {"name"}
    BY <1>4, <1>7, ProperValues
  <2>3. Sound
    BY <1>5, <1>7, <2>2, ProperValues
  <2>4. \A item : HasAllGiven(item) <=> item.name = config.name
    BY <2>2 DEF HasAllGiven
  <2>5. \A item : Selects(Selector("", config.name, ""), item) <=> HasAllGiven(item)
    <3> TAKE item
    <3>1. Selects(Selector("", config.name, ""), item) <=> item.name = config.name
      BY DEF Selects, Selector
    <3>2. HasAllGiven(item) <=> item.name = config.name
      BY <2>4
    <3> QED
      BY <3>1, <3>2
  <2> QED
    BY <2>1, <2>3, <2>5 DEF Decides
<1>8. ASSUME ~(config.id \in Ids /\ config.name \in {"null", "blank"}),
             ~(config.id \in {"null", "blank"} /\ config.name \in Names)
      PROVE  Decides(shown)
  <2>1. SelectorOf(shown) = {}
    BY <1>1, <1>2, <1>3, <1>8, ProperValues DEF idOrNameSelector, Value, NotGiven
  <2>2. ASSUME Given = {"id"}, Sound PROVE FALSE
    BY <1>1, <1>4, <1>5, <1>8, <2>2, ProperValues
  <2>3. ASSUME Given = {"name"}, Sound PROVE FALSE
    BY <1>1, <1>4, <1>5, <1>8, <2>3, ProperValues
  <2> QED
    BY <1>5, <2>1, <2>2, <2>3 DEF Decides
<1> QED
  BY <1>6, <1>7, <1>8

LEMMA ComponentSelectors ==
    ASSUME NEW shown, config \in Configurations, config.kind = "component", Faithful(shown)
    PROVE  Decides(shown)
<1>1. /\ config.id \in Ids \cup {"blank", "padded"}
      /\ config.name = "null" /\ config.purpose = "null"
  BY DEF Configurations
<1>2. shown.id = config.id
  BY <1>1, ProperValues DEF Faithful, Attributes
<1>3. SelectorOf(shown) = componentSelector(shown.id)
  BY DEF SelectorOf
<1>4. /\ "id" \in Given <=> config.id # "blank"
      /\ Given \subseteq {"id"}
  BY <1>1, ProperValues DEF Given, Attributes, NotGiven
<1>5. Sound <=> /\ \A attribute \in Given : config[attribute] \notin {"padded", "other"}
                /\ Given = {"id"}
  BY DEF Sound
<1>6. CASE config.id \in Ids
  <2>1. SelectorOf(shown) = {Selector(config.id, "", "")}
    BY <1>2, <1>3, <1>6, ProperValues DEF componentSelector, NotGiven
  <2>2. Given = {"id"} /\ Sound
    BY <1>4, <1>5, <1>6, ProperValues
  <2>3. \A item : HasAllGiven(item) <=> item.id = config.id
    BY <2>2 DEF HasAllGiven
  <2> QED
    BY <1>6, <2>1, <2>2, <2>3, OneByIdSelects DEF Decides
<1>7. CASE config.id \in {"blank", "padded"}
  <2>1. SelectorOf(shown) = {}
    BY <1>2, <1>3, <1>7 DEF componentSelector, NotGiven
  <2>2. ~Sound
    BY <1>4, <1>5, <1>7
  <2> QED
    BY <2>1, <2>2 DEF Decides
<1> QED
  BY <1>1, <1>6, <1>7

LEMMA SelectorsDecide ==
    ASSUME NEW shown, config \in Configurations, Faithful(shown)
    PROVE  Decides(shown)
<1>1. config.kind \in {"tag", "named", "component"}
  BY DEF Configurations
<1> QED
  BY <1>1, TagSelectors, NamedSelectors, ComponentSelectors

-----------------------------------------------------------------------------

\* Validation rejects only when it sees the whole configuration, as it is.
LEMMA RejectsWhatItSees ==
    ASSUME TypeOK, ValidateConfig, outcome' = "rejected"
    PROVE  ~Sound
<1> DEFINE shown == [attribute \in Attributes |->
                        IF attribute \in known THEN config[attribute] ELSE "unknown"]
<1>1. ~Deferred(shown) /\ SelectorOf(shown) = {}
  BY DEF ValidateConfig
<1>2. Faithful(shown)
  BY <1>1 DEF Deferred, Faithful
<1>3. Decides(shown)
  BY <1>2, SelectorsDecide DEF TypeOK
<1> QED
  BY <1>1, <1>3 DEF Decides

\* A view Read decides on, and what it decides.
LEMMA ReadsAView ==
    ASSUME TypeOK, Read
    PROVE  \E shown : Decides(shown) /\ ReadAs(shown)
<1>1. PICK computed \in SUBSET {attribute \in Attributes : config[attribute] = "null"} :
           ReadAs([attribute \in Attributes |->
                       IF attribute \in computed THEN "unknown" ELSE config[attribute]])
  BY DEF Read
<1> DEFINE shown == [attribute \in Attributes |->
                       IF attribute \in computed THEN "unknown" ELSE config[attribute]]
<1>2. Faithful(shown)
  BY DEF Faithful
<1>3. Decides(shown)
  BY <1>2, SelectorsDecide DEF TypeOK
<1> HIDE DEF shown
<1> QED
  BY <1>1, <1>3 DEF shown

LEMMA CatalogsAreFinite ==
    ASSUME TypeOK, NEW found, found \subseteq catalog
    PROVE  /\ IsFiniteSet(found) /\ Cardinality(found) \in Nat
           /\ found \subseteq Items
           /\ Cardinality(found) = 1 => \E item \in catalog : found = {item}
<1>1. IsFiniteSet(catalog) /\ catalog \subseteq Items
  BY DataSourceAssumption DEF TypeOK
<1>2. IsFiniteSet(found) /\ Cardinality(found) \in Nat
  BY <1>1, FS_Subset, FS_CardinalityType
<1>3. Cardinality(found) = 1 => \E item : found = {item}
  BY <1>2, FS_Singleton
<1> QED
  BY <1>1, <1>2, <1>3

\* A Read that answers has found the one item with all that is given.
LEMMA ReadFindsWhatIsGiven ==
    ASSUME TypeOK, Read
    PROVE  \/ outcome' = "rejected" /\ ~Sound /\ state' = state
           \/ outcome' \in {"not_found", "ambiguous"} /\ state' = state
           \/ /\ outcome' = "read" /\ Sound /\ state' \in catalog
              /\ {item \in catalog : HasAllGiven(item)} = {state'}
<1>1. PICK shown : Decides(shown) /\ ReadAs(shown)
  BY ReadsAView
<1> DEFINE found == {item \in catalog : \E selector \in SelectorOf(shown) : Selects(selector, item)}
<1>2. CASE SelectorOf(shown) = {} /\ outcome' = "rejected" /\ state' = state
  BY <1>1, <1>2 DEF Decides
<1>3. CASE /\ outcome' = (IF found = {} THEN "not_found" ELSE "ambiguous") /\ state' = state
  BY <1>3
<1>4. CASE /\ Cardinality(found) = 1 /\ outcome' = "read"
           /\ \E item \in found : state' = Stored(shown, item)
  <2>1. PICK item \in catalog : found = {item}
    BY <1>4, CatalogsAreFinite
  <2>2. state' = item
    BY <1>4, <2>1 DEF Stored
  <2>3. SelectorOf(shown) # {}
    BY <2>1
  <2>4. catalog \subseteq Items
    BY CatalogsAreFinite
  <2>5. found = {one \in catalog : HasAllGiven(one)}
    BY <1>1, <2>3, <2>4 DEF Decides
  <2> QED
    BY <1>1, <1>4, <2>1, <2>2, <2>3, <2>5 DEF Decides
<1> QED
  BY <1>1, <1>2, <1>3, <1>4 DEF ReadAs

DataSourceInv == TypeOK /\ RejectionsAreDeserved

LEMMA DataSourceInvariance == Spec => []DataSourceInv
<1>1. Init => DataSourceInv
  BY DEF Init, DataSourceInv, TypeOK, RejectionsAreDeserved
<1>2. DataSourceInv /\ [Next]_vars => DataSourceInv'
  <2> SUFFICES ASSUME TypeOK, RejectionsAreDeserved, [Next]_vars
               PROVE  TypeOK' /\ RejectionsAreDeserved'
    BY DEF DataSourceInv
  <2>1. ASSUME UNCHANGED config PROVE Sound' <=> Sound
    BY <2>1 DEF Sound, Given
  <2>2. CASE ValidateConfig
    <3>1. TypeOK'
      BY <2>2 DEF ValidateConfig, TypeOK
    <3>2. RejectionsAreDeserved'
      BY <2>1, <2>2, RejectsWhatItSees DEF ValidateConfig, RejectionsAreDeserved
    <3> QED
      BY <3>1, <3>2
  <2>3. CASE Read
    <3>1. TypeOK'
      BY <2>3, ReadFindsWhatIsGiven, DataSourceAssumption DEF Read, TypeOK
    <3>2. RejectionsAreDeserved'
      BY <2>1, <2>3, ReadFindsWhatIsGiven DEF Read, RejectionsAreDeserved
    <3> QED
      BY <3>1, <3>2
  <2>4. CASE Resolve
    BY <2>1, <2>4 DEF Resolve, TypeOK, RejectionsAreDeserved
  <2>5. CASE Change
    BY <2>1, <2>5 DEF Change, TypeOK, RejectionsAreDeserved
  <2>6. CASE UNCHANGED vars
    BY <2>1, <2>6 DEF vars, TypeOK, RejectionsAreDeserved
  <2> QED
    BY <2>2, <2>3, <2>4, <2>5, <2>6 DEF Next
<1> QED
  BY <1>1, <1>2, PTL DEF Spec

\* TypeOK, for any identifiers and names: what Read stores is an item of
\* the catalog, and never part of one.
THEOREM DataSourceTypes == Spec => []TypeOK
BY DataSourceInvariance, PTL DEF DataSourceInv

\* RejectionsAreDeserved: neither ValidateConfig, whatever it cannot know yet,
\* nor Read rejects a configuration that the documentation allows.
THEOREM RejectedOnesAreWrong == Spec => []RejectionsAreDeserved
BY DataSourceInvariance, PTL DEF DataSourceInv

\* StateIsWhatWasAskedFor: Read stores the only item of the catalog that has
\* all the configuration gives, for catalogs of any size.
THEOREM ReadsStoreWhatWasAskedFor == Spec => StateIsWhatWasAskedFor
<1>1. ASSUME TypeOK, [Next]_vars, state' # state
      PROVE  /\ Sound
             /\ {item \in catalog : \A attribute \in Given : item[attribute] = config[attribute]}
                    = {state'}
  <2>1. Read
    BY <1>1 DEF Next, ValidateConfig, Resolve, Change, vars
  <2> QED
    BY <1>1, <2>1, ReadFindsWhatIsGiven DEF HasAllGiven
<1> QED
  BY <1>1, DataSourceTypes, PTL DEF Spec, StateIsWhatWasAskedFor
=============================================================================
