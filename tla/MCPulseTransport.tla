-------------------------- MODULE MCPulseTransport --------------------------
(* Small instances of PulseTransport for TLC. *)
EXTENDS PulseTransport

CONSTANTS keyed, unkeyed, read

MCKind == [c \in Calls |-> IF c = keyed THEN "keyed"
                           ELSE IF c = unkeyed THEN "unkeyed" ELSE "read"]
=============================================================================
