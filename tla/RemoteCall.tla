----------------------------- MODULE RemoteCall -----------------------------
(***************************************************************************)
(* What a caller of the Pulse client may rely on, with attempts, keys and  *)
(* the network hidden.  A mutation takes effect at most once, before or    *)
(* after the call has returned; a call that returns without an error has   *)
(* taken effect; a call that returns an error may or may not have.         *)
(***************************************************************************)
EXTENDS Naturals

CONSTANTS
    Calls,      \* the calls a caller makes
    Mutations,  \* the ones that change something in Pulse
    Failures    \* the errors a call may return

VARIABLES
    phase,      \* phase[c] \in {"idle", "open", "closed"}
    applied,    \* applied[c]: how many times call c took effect
    outcome     \* outcome[c]: "none" until the call has returned

vars == <<phase, applied, outcome>>

Init ==
    /\ phase = [c \in Calls |-> "idle"]
    /\ applied = [c \in Calls |-> 0]
    /\ outcome = [c \in Calls |-> "none"]

Invoke(c) ==
    /\ phase[c] = "idle"
    /\ phase' = [phase EXCEPT ![c] = "open"]
    /\ UNCHANGED <<applied, outcome>>

\* The effect is not tied to the life of the call: a request the caller gave
\* up on can still be executed.
Apply(c) ==
    /\ c \in Mutations
    /\ phase[c] # "idle"
    /\ applied[c] = 0
    /\ applied' = [applied EXCEPT ![c] = 1]
    /\ UNCHANGED <<phase, outcome>>

Succeed(c) ==
    /\ phase[c] = "open"
    /\ c \in Mutations => applied[c] = 1
    /\ phase' = [phase EXCEPT ![c] = "closed"]
    /\ outcome' = [outcome EXCEPT ![c] = "ok"]
    /\ UNCHANGED applied

Fail(c) ==
    /\ phase[c] = "open"
    /\ phase' = [phase EXCEPT ![c] = "closed"]
    /\ \E failure \in Failures : outcome' = [outcome EXCEPT ![c] = failure]
    /\ UNCHANGED applied

Next == \E c \in Calls : Invoke(c) \/ Apply(c) \/ Succeed(c) \/ Fail(c)

Spec == Init /\ [][Next]_vars

\* Every call that was made returns.
FairSpec == Spec /\ \A c \in Calls : WF_vars(Succeed(c) \/ Fail(c))
=============================================================================
