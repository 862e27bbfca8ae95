--------------------------- MODULE CatalogLookup ---------------------------
(***************************************************************************)
(* The lookup behind pulse_tag, pulse_team and pulse_component_type as     *)
(* data sources: lookupCatalogItem of                                      *)
(* internal/provider/data_source_common.go reads every page of a           *)
(* collection and wants exactly one item that matches the selector, while  *)
(* people create, rename and delete items between two pages.               *)
(*                                                                         *)
(* Items are numbered in the order Pulse lists them (external).  "stable"  *)
(* paging is what models.go calls stable cursor pagination: a cursor marks *)
(* a place in that order.  "broken" paging repeats the collection or shows *)
(* nothing and hands out any cursor; the loop defends itself against that. *)
(***************************************************************************)
EXTENDS Integers

CONSTANTS
    Keys,        \* places in the order, each the UUID of at most one item
    Names,
    Purposes,
    Selectors,   \* catalogSelectors asked for: id, or name, or name and purpose
    MaxChanges   \* changes people make during the lookup

Unset == 0

Items == [name : Names, purpose : Purposes]
NoItem == [name |-> Unset, purpose |-> Unset]

ASSUME LookupAssumption ==
    /\ Keys \subseteq Nat \ {Unset}
    /\ MaxChanges \in Nat
    /\ Unset \notin Names \cup Purposes
    /\ Selectors \subseteq [id : Keys \cup {Unset}, name : Names \cup {Unset},
                            purpose : Purposes \cup {Unset}]

VARIABLES
    query,     \* what the lookup is called with, and how Pulse pages: never changes
    catalog,   \* the item at each place, or NoItem
    deleted,   \* UUIDs of deleted items, which no other item gets
    cursor,    \* the cursor of the page asked for next
    seen,      \* seenCursors
    matches,   \* matching items, with the page each was on
    outcome,   \* what lookupCatalogItem returned
    ever,      \* what matched at some time since the lookup began
    steady,    \* what has matched all the time since then
    changes    \* what is left of MaxChanges

lookup == <<query, cursor, seen, matches, outcome>>
vars == <<query, catalog, deleted, cursor, seen, matches, outcome, ever, steady, changes>>

Present(listing) == {k \in Keys : listing[k] # NoItem}

\* An ID alone decides; a purpose, when there is one, narrows the name.
Selects(k, item) ==
    IF query.selector.id # Unset THEN k = query.selector.id
    ELSE /\ item.name = query.selector.name
         /\ query.selector.purpose # Unset => item.purpose = query.selector.purpose

Matching(listing) == {k \in Present(listing) : Selects(k, listing[k])}

Init ==
    /\ query \in [selector : Selectors, paging : {"stable", "broken"}]
    /\ catalog \in [Keys -> Items \cup {NoItem}]
    /\ deleted = {}
    /\ cursor = Unset
    /\ seen = {}
    /\ matches = {}
    /\ outcome = "pending"
    /\ ever = Matching(catalog)
    /\ steady = Matching(catalog)
    /\ changes = MaxChanges

-----------------------------------------------------------------------------
(* The lookup *)

\* Pulse's answers to one List call (external).  Pages may be short or empty;
\* without a next cursor nothing is left to list.
StablePages ==
    {[keys |-> {k \in Present(catalog) : cursor < k /\ k <= last}, next |-> last] :
         last \in {k \in Keys : cursor < k}}
    \cup {[keys |-> {k \in Present(catalog) : cursor < k}, next |-> Unset]}
BrokenPages == [keys : {{}, Present(catalog)}, next : Keys \cup {Unset}]
Pages == IF query.paging = "stable" THEN StablePages ELSE BrokenPages

\* Matches of all pages are kept: the lookup does not stop at the first.
MatchesOn(page) == {[on |-> cursor, key |-> k] : k \in page.keys \cap Matching(catalog)}
CollectLastPage(page) == MatchesOn(page)
Collect(page) == matches \cup MatchesOn(page)

RepeatsAtOnce(next) == next = cursor
Repeats(next) == next = cursor \/ next \in seen

RemembersThePrevious(next) == seen \cup {cursor}
Remember(next) == seen \cup {next}

FirstOf(found) == IF found = {} THEN "not_found" ELSE "found"
Resolve(found) ==
    IF found = {} THEN "not_found"
    ELSE IF \A one, other \in found : one = other THEN "found"
    ELSE "ambiguous"

ReadPage ==
    /\ outcome = "pending"
    /\ \E page \in Pages :
        /\ matches' = Collect(page)
        /\ IF page.next = Unset
           THEN outcome' = Resolve(matches') /\ UNCHANGED <<cursor, seen>>
           ELSE IF Repeats(page.next)
           THEN outcome' = "error" /\ UNCHANGED <<cursor, seen>>
           ELSE /\ cursor' = page.next
                /\ seen' = Remember(page.next)
                /\ UNCHANGED outcome
    /\ UNCHANGED <<query, catalog, deleted, ever, steady, changes>>

\* List returns an error: no retry of the client's helped.
ListFails ==
    /\ outcome = "pending"
    /\ outcome' = "error"
    /\ UNCHANGED <<query, catalog, deleted, cursor, seen, matches, ever, steady, changes>>

-----------------------------------------------------------------------------
(* People, between two pages (external).  A UUID is never used again.      *)

BecomesAt(k, item) ==
    /\ outcome = "pending"
    /\ changes > 0
    /\ changes' = changes - 1
    /\ catalog' = [catalog EXCEPT ![k] = item]
    /\ ever' = ever \cup Matching(catalog')
    /\ steady' = steady \cap Matching(catalog')
    /\ UNCHANGED lookup

CreateOrEdit ==
    \E k \in Keys \ deleted, item \in Items :
        item # catalog[k] /\ BecomesAt(k, item) /\ UNCHANGED deleted

Delete ==
    \E k \in Present(catalog) : BecomesAt(k, NoItem) /\ deleted' = deleted \cup {k}

Next == ReadPage \/ ListFails \/ CreateOrEdit \/ Delete

Spec == Init /\ [][Next]_vars

\* Every List call returns, one way or the other.
FairSpec == Spec /\ WF_vars(ReadPage)

-----------------------------------------------------------------------------
(* Properties *)

\* The lookup's variables have their types, the cursor it asks for is one it
\* remembers having been given, and the ghosts are consistent.
TypeOK ==
    /\ query \in [selector : Selectors, paging : {"stable", "broken"}]
    /\ catalog \in [Keys -> Items \cup {NoItem}]
    /\ deleted \subseteq Keys
    /\ seen \subseteq Keys
    /\ cursor \in seen \cup {Unset}
    /\ matches \subseteq [on : Keys \cup {Unset}, key : Keys]
    /\ outcome \in {"pending", "found", "not_found", "ambiguous", "error"}
    /\ ever \subseteq Keys /\ steady \subseteq ever
    /\ changes \in 0..MaxChanges

\* With stable cursors what the lookup says is true of the time it took, whatever
\* changed between its pages: an item found did match and nothing else matched
\* throughout; nothing matched throughout when nothing is found; and two different
\* items did match, if not at once, when the selector is called ambiguous.
OutcomeIsJustified == query.paging = "stable" =>
    /\ outcome = "found" =>
           \E k \in ever : steady \subseteq {k} /\ \A match \in matches : match.key = k
    /\ outcome = "not_found" => steady = {}
    /\ outcome = "ambiguous" => \E one, other \in ever : one # other

\* lookupCatalogItem returns even when the cursors go round in a circle.
LookupEnds == <>(outcome # "pending")
=============================================================================
