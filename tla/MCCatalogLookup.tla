-------------------------- MODULE MCCatalogLookup --------------------------
(* A small instance of CatalogLookup for TLC: a tag by purpose and name, a *)
(* team by name, and anything by UUID.                                     *)
EXTENDS CatalogLookup

MCSelectors == {[id |-> 0, name |-> 1, purpose |-> 1],
                [id |-> 0, name |-> 1, purpose |-> 0],
                [id |-> 2, name |-> 0, purpose |-> 0]}
=============================================================================
