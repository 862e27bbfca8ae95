--------------------------- MODULE MCDataSources ---------------------------
(* A small instance of DataSources for TLC: every catalog of up to two     *)
(* items that share names across and within purposes.                      *)
EXTENDS DataSources

MCCatalogs ==
    {listing \in SUBSET Items :
        \A one, other \in listing : one.id = other.id => one = other}
=============================================================================
