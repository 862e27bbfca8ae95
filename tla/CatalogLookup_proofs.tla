------------------------ MODULE CatalogLookup_proofs ------------------------
(***************************************************************************)
(* Proofs about CatalogLookup, for catalogs of any size, every selector    *)
(* and any number of changes people make during the lookup.                *)
(*                                                                         *)
(* With stable cursors the matches collected so far are a sweep of the     *)
(* order up to the cursor: they lie at or before it, each at its own       *)
(* place, and none that matched all the time is missing.  The last page    *)
(* then extends the sweep to the whole catalog.                            *)
(***************************************************************************)
EXTENDS CatalogLookup, FiniteSetTheorems, TLAPS

Ghosts ==
    /\ steady \subseteq Matching(catalog)
    /\ Matching(catalog) \subseteq ever

\* What was collected did match once, and no item was collected twice.
Collected == query.paging = "stable" =>
    /\ \A match \in matches : match.key \in ever
    /\ \A one, other \in matches : one.key = other.key => one = other

Sweep ==
    outcome = "pending" /\ query.paging = "stable" =>
        /\ \A match \in matches : match.key <= cursor
        /\ \A k \in steady : k <= cursor => \E match \in matches : match.key = k

SweepInv == TypeOK /\ Ghosts /\ Collected /\ Sweep /\ OutcomeIsJustified

-----------------------------------------------------------------------------

LEMMA PlacesAreNumbers == /\ Keys \subseteq Nat /\ Unset \notin Keys /\ Unset \in Nat
                          /\ MaxChanges \in Nat /\ Unset \notin Names
BY LookupAssumption DEF Unset

LEMMA MatchingIsInKeys == ASSUME NEW listing PROVE Matching(listing) \subseteq Keys
BY DEF Matching, Present, Selects

LEMMA ResolveIsAnOutcome ==
    ASSUME NEW found PROVE Resolve(found) \in {"found", "not_found", "ambiguous"}
BY DEF Resolve

LEMMA PagesAreOfTheCatalog ==
    ASSUME NEW page \in Pages
    PROVE  page.keys \subseteq Present(catalog) /\ page.next \in Keys \cup {Unset}
<1>1. CASE query.paging = "stable"
  BY <1>1 DEF Pages, StablePages
<1>2. CASE query.paging # "stable"
  BY <1>2 DEF Pages, BrokenPages
<1> QED
  BY <1>1, <1>2

LEMMA ChangesKeepTypes ==
    ASSUME TypeOK, NEW k \in Keys, NEW item \in Items \cup {NoItem}, BecomesAt(k, item),
           deleted' \subseteq Keys
    PROVE  TypeOK'
<1>1. catalog' \in [Keys -> Items \cup {NoItem}]
  BY DEF TypeOK, BecomesAt
<1>2. changes' \in 0..MaxChanges
  BY PlacesAreNumbers DEF TypeOK, BecomesAt
<1>3. ever' \subseteq Keys /\ steady' \subseteq ever'
  BY MatchingIsInKeys DEF TypeOK, BecomesAt
<1> QED
  BY <1>1, <1>2, <1>3 DEF TypeOK, BecomesAt, lookup

LEMMA ReadingKeepsTypes == ASSUME TypeOK, ReadPage PROVE TypeOK'
<1>1. PICK page \in Pages :
        /\ matches' = Collect(page)
        /\ IF page.next = Unset
           THEN outcome' = Resolve(matches') /\ UNCHANGED <<cursor, seen>>
           ELSE IF Repeats(page.next)
           THEN outcome' = "error" /\ UNCHANGED <<cursor, seen>>
           ELSE /\ cursor' = page.next
                /\ seen' = Remember(page.next)
                /\ UNCHANGED outcome
  BY DEF ReadPage
<1>2. page.next \in Keys \cup {Unset}
  BY PagesAreOfTheCatalog
<1>3. matches' \subseteq [on : Keys \cup {Unset}, key : Keys]
  BY <1>1, MatchingIsInKeys DEF Collect, MatchesOn, TypeOK
<1>4. seen' \subseteq Keys /\ cursor' \in seen' \cup {Unset}
  BY <1>1, <1>2 DEF TypeOK, Remember
<1>5. outcome' \in {"pending", "found", "not_found", "ambiguous", "error"}
  BY <1>1, ResolveIsAnOutcome DEF TypeOK
<1> QED
  BY <1>3, <1>4, <1>5 DEF TypeOK, ReadPage

\* TypeOK holds in every reachable state, whatever pages Pulse hands out: the
\* cursor lookupCatalogItem asks for is always among those it remembers.
THEOREM LookupTypes == Spec => []TypeOK
<1>1. Init => TypeOK
  BY PlacesAreNumbers, MatchingIsInKeys DEF Init, TypeOK
<1>2. TypeOK /\ [Next]_vars => TypeOK'
  <2> SUFFICES ASSUME TypeOK, [Next]_vars PROVE TypeOK'
    OBVIOUS
  <2>1. CASE ReadPage
    BY <2>1, ReadingKeepsTypes
  <2>2. CASE ListFails
    BY <2>2 DEF ListFails, TypeOK
  <2>3. CASE CreateOrEdit
    BY <2>3, ChangesKeepTypes DEF CreateOrEdit, TypeOK
  <2>4. CASE Delete
    BY <2>4, ChangesKeepTypes DEF Delete, TypeOK, Present
  <2>5. CASE UNCHANGED vars
    BY <2>5 DEF vars, TypeOK
  <2> QED
    BY <2>1, <2>2, <2>3, <2>4, <2>5 DEF Next
<1> QED
  BY <1>1, <1>2, PTL DEF Spec

-----------------------------------------------------------------------------

\* Changes between two pages only add to what ever matched and take away from
\* what always did, so the sweep stays complete.
LEMMA ChangesKeepTheSweep ==
    ASSUME SweepInv, NEW k, NEW item, BecomesAt(k, item)
    PROVE  (Ghosts /\ Collected /\ Sweep /\ OutcomeIsJustified)'
<1> USE DEF SweepInv, BecomesAt, lookup
<1>1. Ghosts'
  <2>1. Matching(catalog)' = Matching(catalog')
    BY DEF Matching, Present, Selects
  <2> QED
    BY <2>1 DEF Ghosts
<1>2. Collected'
  BY DEF Collected
<1>3. Sweep'
  BY DEF Sweep
<1>4. OutcomeIsJustified'
  BY DEF OutcomeIsJustified
<1> QED
  BY <1>1, <1>2, <1>3, <1>4

\* A page of stable paging: all there is between the cursor and where it ends.
Continues(page) ==
    /\ page.keys \subseteq Present(catalog)
    /\ \A k \in page.keys : cursor < k /\ (page.next # Unset => k <= page.next)
    /\ \A k \in Present(catalog) :
          cursor < k /\ (page.next = Unset \/ k <= page.next) => k \in page.keys
    /\ page.next # Unset => page.next \in Keys /\ cursor < page.next

LEMMA StablePagesContinue ==
    ASSUME query.paging = "stable", NEW page \in Pages PROVE Continues(page)
<1>1. CASE page = [keys |-> {k \in Present(catalog) : cursor < k}, next |-> Unset]
  BY <1>1 DEF Continues
<1>2. ASSUME NEW last \in Keys, cursor < last,
             page = [keys |-> {k \in Present(catalog) : cursor < k /\ k <= last},
                     next |-> last]
      PROVE  Continues(page)
  <2>1. last # Unset
    BY PlacesAreNumbers
  <2> QED
    BY <1>2, <2>1 DEF Continues
<1> QED
  BY <1>1, <1>2 DEF Pages, StablePages

\* A page of a stable catalog adds matches after the cursor, and none of the
\* steady ones up to the place where it ends is missing from it.
LEMMA APageExtendsTheSweep ==
    ASSUME SweepInv, outcome = "pending", query.paging = "stable", NEW page \in Pages
    PROVE  /\ \A match \in Collect(page) : match.key \in ever
           /\ \A one, other \in Collect(page) : one.key = other.key => one = other
           /\ page.next # Unset => \A match \in Collect(page) : match.key <= page.next
           /\ \A k \in steady :
                (page.next = Unset \/ k <= page.next) =>
                    \E match \in Collect(page) : match.key = k
<1> USE PlacesAreNumbers
<1>1. Continues(page)
  BY StablePagesContinue
<1>2. cursor \in Nat /\ ever \subseteq Nat /\ steady \subseteq Nat
  BY DEF SweepInv, TypeOK
<1>3. \A match \in MatchesOn(page) :
         /\ match.on = cursor /\ match.key \in page.keys
         /\ match.key \in Matching(catalog) /\ match = [on |-> cursor, key |-> match.key]
  BY DEF MatchesOn
<1>4. \A k \in page.keys \cap Matching(catalog) :
         \E match \in MatchesOn(page) : match.key = k
  <2> TAKE k \in page.keys \cap Matching(catalog)
  <2>1. [on |-> cursor, key |-> k] \in MatchesOn(page)
    BY DEF MatchesOn
  <2> WITNESS [on |-> cursor, key |-> k] \in MatchesOn(page)
  <2> QED
    OBVIOUS
<1>5. \A match \in matches : match.key <= cursor /\ match.key \in Nat /\ match.key \in ever
  BY DEF SweepInv, Sweep, Collected, TypeOK
<1>6. \A match \in Collect(page) : match.key \in ever
  BY <1>3, <1>5 DEF Collect, SweepInv, Ghosts
<1>7. ASSUME NEW one \in Collect(page), NEW other \in Collect(page), one.key = other.key
      PROVE  one = other
  <2>1. CASE one \in matches /\ other \in matches
    BY <2>1, <1>7 DEF SweepInv, Collected
  <2>2. CASE one \in MatchesOn(page) /\ other \in MatchesOn(page)
    BY <2>2, <1>3, <1>7
  <2>3. ASSUME NEW old \in matches, NEW new \in MatchesOn(page) PROVE old.key # new.key
    <3>1. cursor < new.key /\ new.key \in Nat
      BY <1>1, <1>3 DEF Continues, Present
    <3> QED
      BY <3>1, <1>5, <1>2
  <2> QED
    BY <2>1, <2>2, <2>3, <1>7 DEF Collect
<1>8. ASSUME page.next # Unset, NEW match \in Collect(page) PROVE match.key <= page.next
  <2>1. CASE match \in matches
    <3>1. match.key \in Nat /\ match.key <= cursor
      BY <2>1, <1>5
    <3>2. page.next \in Nat /\ cursor < page.next
      BY <1>1, <1>8 DEF Continues
    <3> QED
      BY <3>1, <3>2, <1>2
  <2>2. CASE match \in MatchesOn(page)
    BY <2>2, <1>1, <1>3, <1>8 DEF Continues
  <2> QED
    BY <2>1, <2>2 DEF Collect
<1>9. ASSUME NEW k \in steady, page.next = Unset \/ k <= page.next
      PROVE  \E match \in Collect(page) : match.key = k
  <2>1. CASE k <= cursor
    BY <2>1 DEF SweepInv, Sweep, Collect
  <2>2. CASE cursor < k
    <3>1. k \in Matching(catalog) /\ k \in Present(catalog)
      BY DEF SweepInv, Ghosts, Matching
    <3> QED
      BY <3>1, <2>2, <1>1, <1>4, <1>9 DEF Continues, Collect
  <2> QED
    BY <2>1, <2>2, <1>2
<1> QED
  BY <1>6, <1>7, <1>8, <1>9

LEMMA ReadingKeepsTheSweep ==
    ASSUME SweepInv, ReadPage, query.paging = "stable"
    PROVE  (Ghosts /\ Collected /\ Sweep /\ OutcomeIsJustified)'
<1>1. PICK page \in Pages :
        /\ matches' = Collect(page)
        /\ IF page.next = Unset
           THEN outcome' = Resolve(matches') /\ UNCHANGED <<cursor, seen>>
           ELSE IF Repeats(page.next)
           THEN outcome' = "error" /\ UNCHANGED <<cursor, seen>>
           ELSE /\ cursor' = page.next
                /\ seen' = Remember(page.next)
                /\ UNCHANGED outcome
  BY DEF ReadPage
<1>2. outcome = "pending" /\ UNCHANGED <<query, catalog, ever, steady>>
  BY DEF ReadPage
<1>3. /\ \A match \in matches' : match.key \in ever
      /\ \A one, other \in matches' : one.key = other.key => one = other
      /\ page.next # Unset => \A match \in matches' : match.key <= page.next
      /\ \A k \in steady :
           (page.next = Unset \/ k <= page.next) => \E match \in matches' : match.key = k
  BY <1>1, <1>2, APageExtendsTheSweep
<1>4. Ghosts'
  BY <1>2 DEF SweepInv, Ghosts, Matching, Present, Selects
<1>5. Collected'
  BY <1>2, <1>3 DEF Collected
<1>6. CASE page.next = Unset
  <2>1. outcome' = Resolve(matches')
    BY <1>1, <1>6
  <2>2. Sweep'
    BY <2>1, ResolveIsAnOutcome DEF Sweep
  <2>3. \A k \in steady : \E match \in matches' : match.key = k
    BY <1>3, <1>6
  <2>4. OutcomeIsJustified'
    <3>1. CASE matches' = {}
      BY <3>1, <2>1, <2>3, <1>2 DEF Resolve, OutcomeIsJustified
    <3>2. CASE matches' # {} /\ \A one, other \in matches' : one = other
      <4>1. PICK match \in matches' : \A other \in matches' : other = match
        BY <3>2
      <4>2. match.key \in ever /\ steady \subseteq {match.key}
        BY <4>1, <1>3, <2>3
      <4>3. outcome' = "found"
        BY <3>2, <2>1 DEF Resolve
      <4> QED
        BY <4>1, <4>2, <4>3, <1>2 DEF OutcomeIsJustified
    <3>3. CASE matches' # {} /\ ~\A one, other \in matches' : one = other
      <4>1. PICK one \in matches', other \in matches' : one # other
        BY <3>3
      <4>2. one.key \in ever /\ other.key \in ever /\ one.key # other.key
        BY <4>1, <1>3
      <4>3. outcome' = "ambiguous"
        BY <3>3, <2>1 DEF Resolve
      <4> QED
        BY <4>2, <4>3, <1>2 DEF OutcomeIsJustified
    <3> QED
      BY <3>1, <3>2, <3>3
  <2> QED
    BY <1>4, <1>5, <2>2, <2>4
<1>7. CASE page.next # Unset /\ Repeats(page.next)
  BY <1>1, <1>4, <1>5, <1>7 DEF Sweep, OutcomeIsJustified
<1>8. CASE page.next # Unset /\ ~Repeats(page.next)
  BY <1>1, <1>2, <1>3, <1>4, <1>5, <1>8 DEF Sweep, OutcomeIsJustified
<1> QED
  BY <1>6, <1>7, <1>8

LEMMA SweepInvariance == Spec => []SweepInv
<1>1. Init => SweepInv
  <2> SUFFICES ASSUME Init PROVE SweepInv
    OBVIOUS
  <2>1. TypeOK
    BY PlacesAreNumbers, MatchingIsInKeys DEF Init, TypeOK
  <2>2. \A k \in steady : ~(k <= cursor)
    <3>1. steady \subseteq Keys /\ cursor = 0
      BY MatchingIsInKeys DEF Init, Unset
    <3>2. \A k \in Keys : k \in Nat /\ k # 0
      BY PlacesAreNumbers DEF Unset
    <3>3. \A k \in Nat : k # 0 => ~(k <= 0)
      OBVIOUS
    <3> QED
      BY <3>1, <3>2, <3>3
  <2> QED
    BY <2>1, <2>2 DEF Init, SweepInv, Ghosts, Collected, Sweep, OutcomeIsJustified
<1>2. SweepInv /\ [Next]_vars => SweepInv'
  <2> SUFFICES ASSUME SweepInv, [Next]_vars PROVE SweepInv'
    OBVIOUS
  <2> USE DEF SweepInv
  <2>1. CASE ReadPage
    <3>1. CASE query.paging = "stable"
      BY <2>1, <3>1, ReadingKeepsTypes, ReadingKeepsTheSweep
    <3>2. CASE query.paging # "stable"
      <4>1. UNCHANGED <<query, catalog, ever, steady>>
        BY <2>1 DEF ReadPage
      <4>2. Ghosts'
        BY <4>1 DEF Ghosts, Matching, Present, Selects
      <4>3. (Collected /\ Sweep /\ OutcomeIsJustified)'
        BY <3>2, <4>1 DEF Collected, Sweep, OutcomeIsJustified
      <4> QED
        BY <2>1, <4>2, <4>3, ReadingKeepsTypes
    <3> QED
      BY <3>1, <3>2
  <2>2. CASE ListFails
    BY <2>2 DEF ListFails, TypeOK, Ghosts, Collected, Sweep, OutcomeIsJustified,
                Matching, Present, Selects
  <2>3. CASE CreateOrEdit
    BY <2>3, ChangesKeepTypes, ChangesKeepTheSweep DEF CreateOrEdit, TypeOK
  <2>4. CASE Delete
    BY <2>4, ChangesKeepTypes, ChangesKeepTheSweep DEF Delete, TypeOK, Present
  <2>5. CASE UNCHANGED vars
    BY <2>5 DEF vars, TypeOK, Ghosts, Collected, Sweep, OutcomeIsJustified, Matching, Present, Selects
  <2> QED
    BY <2>1, <2>2, <2>3, <2>4, <2>5 DEF Next
<1> QED
  BY <1>1, <1>2, PTL DEF Spec

\* With stable cursors what a data source is told about its selector was true
\* of the catalog during the lookup, whatever changed between the pages.
THEOREM TheLookupIsJustified == Spec => []OutcomeIsJustified
BY SweepInvariance, PTL DEF SweepInv

-----------------------------------------------------------------------------
(* A catalog nobody changes                                                *)

Quiet == changes = MaxChanges => steady = Matching(catalog) /\ ever = Matching(catalog)

LEMMA QuietInvariance == Spec => []Quiet
<1>1. Init => Quiet
  BY DEF Init, Quiet
<1>2. TypeOK /\ Quiet /\ [Next]_vars => Quiet'
  <2> SUFFICES ASSUME TypeOK, Quiet, [Next]_vars PROVE Quiet'
    OBVIOUS
  <2>1. ASSUME UNCHANGED <<query, catalog, ever, steady, changes>> PROVE Quiet'
    BY <2>1 DEF Quiet, Matching, Present, Selects
  <2>2. ASSUME NEW k, NEW item, BecomesAt(k, item) PROVE Quiet'
    BY <2>2, PlacesAreNumbers DEF Quiet, BecomesAt, TypeOK
  <2> QED
    BY <2>1, <2>2 DEF Next, ReadPage, ListFails, CreateOrEdit, Delete, vars
<1> QED
  BY <1>1, <1>2, LookupTypes, PTL DEF Spec

\* When nobody changes the catalog meanwhile, the many pages of
\* lookupCatalogItem say what one look at all of it would say: that is the
\* single step DataSources takes for the lookup.
OneLook ==
    query.paging = "stable" /\ changes = MaxChanges =>
        /\ outcome = "found" => \E k \in Keys : Matching(catalog) = {k}
        /\ outcome = "not_found" => Matching(catalog) = {}
        /\ outcome = "ambiguous" => \E one, other \in Matching(catalog) : one # other

THEOREM QuietLookupsAreExact == Spec => []OneLook
<1>1. TypeOK /\ SweepInv /\ Quiet => OneLook
  <2> SUFFICES ASSUME TypeOK, SweepInv, Quiet,
                      query.paging = "stable", changes = MaxChanges
               PROVE  /\ outcome = "found" => \E k \in Keys : Matching(catalog) = {k}
                      /\ outcome = "not_found" => Matching(catalog) = {}
                      /\ outcome = "ambiguous" => \E one, other \in Matching(catalog) : one # other
    BY DEF OneLook
  <2>1. steady = Matching(catalog) /\ ever = Matching(catalog)
    BY DEF Quiet
  <2>2. Matching(catalog) \subseteq Keys
    BY MatchingIsInKeys
  <2> QED
    BY <2>1, <2>2 DEF SweepInv, OutcomeIsJustified
<1> QED
  BY <1>1, SweepInvariance, LookupTypes, QuietInvariance, PTL

-----------------------------------------------------------------------------
(* Cursors that go round in a circle                                       *)

\* Cursors the lookup has not been given yet.
CursorsLeft == Cardinality(Keys \ seen)

\* However Pulse pages, each page either ends the lookup or uses up a cursor,
\* and nothing gives one back: lookupCatalogItem asks for at most one page
\* more than there are cursors.  This is what LookupEnds rests on.
THEOREM EveryPageUsesUpACursor ==
    ASSUME IsFiniteSet(Keys)
    PROVE  Spec => [][/\ CursorsLeft \in Nat
                      /\ ReadPage => outcome' # "pending" \/ CursorsLeft' = CursorsLeft - 1
                      /\ ~ReadPage => CursorsLeft' = CursorsLeft]_vars
<1>1. ASSUME TypeOK, [Next]_vars
      PROVE  /\ CursorsLeft \in Nat
             /\ ReadPage => outcome' # "pending" \/ CursorsLeft' = CursorsLeft - 1
             /\ ~ReadPage => CursorsLeft' = CursorsLeft
  <2>1. IsFiniteSet(Keys \ seen) /\ CursorsLeft \in Nat
    BY FS_Subset, FS_CardinalityType DEF CursorsLeft
  <2>2. ASSUME ReadPage, outcome' = "pending" PROVE CursorsLeft' = CursorsLeft - 1
    <3>1. PICK page \in Pages :
            /\ matches' = Collect(page)
            /\ IF page.next = Unset
               THEN outcome' = Resolve(matches') /\ UNCHANGED <<cursor, seen>>
               ELSE IF Repeats(page.next)
               THEN outcome' = "error" /\ UNCHANGED <<cursor, seen>>
               ELSE /\ cursor' = page.next
                    /\ seen' = Remember(page.next)
                    /\ UNCHANGED outcome
      BY <2>2 DEF ReadPage
    <3>2. page.next # Unset /\ ~Repeats(page.next)
      BY <2>2, <3>1, ResolveIsAnOutcome
    <3>3. page.next \in Keys \ seen
      BY <3>2, PagesAreOfTheCatalog DEF Repeats
    <3>4. Keys \ seen' = (Keys \ seen) \ {page.next}
      BY <3>1, <3>2 DEF Remember
    <3> QED
      BY <2>1, <3>3, <3>4, FS_RemoveElement DEF CursorsLeft
  <2>3. ASSUME ~ReadPage PROVE seen' = seen
    BY <1>1, <2>3 DEF Next, ListFails, CreateOrEdit, Delete, BecomesAt, lookup, vars
  <2> QED
    BY <2>1, <2>2, <2>3 DEF CursorsLeft
<1> QED
  BY <1>1, LookupTypes, PTL DEF Spec
=============================================================================
