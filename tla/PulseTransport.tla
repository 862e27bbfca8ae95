--------------------------- MODULE PulseTransport ---------------------------
(***************************************************************************)
(* The request transport every resource of the provider goes through:      *)
(* doWithRetry of internal/client/retry.go, with the idempotency key       *)
(* mutate() of internal/client/automation.go puts on each mutation.        *)
(*                                                                         *)
(* Attempts of one call share one request.  Between the client and Pulse   *)
(* is a network that delays, duplicates and loses requests and loses or    *)
(* truncates responses; gateways in it answer for a server that goes on    *)
(* executing.  Pulse itself (external) executes a request once per         *)
(* idempotency key.                                                        *)
(***************************************************************************)
EXTENDS Integers, FiniteSets

CONSTANTS
    Calls,        \* calls of Client.Do
    Kind,         \* Kind[c]: "read" (GET), "keyed" or "unkeyed" mutation
    MaxAttempts,  \* RetryConfig, normalised
    MinDelay,
    MaxDelay,
    RetryAfters   \* delays a Retry-After header may ask for, in MinDelay units

Kinds == {"read", "keyed", "unkeyed"}

ASSUME CallsAssumption == Kind \in [Calls -> Kinds]

ASSUME RetryAssumption ==
    /\ MaxAttempts \in 1..10
    /\ MinDelay \in Nat \ {0}
    /\ MaxDelay \in Nat
    /\ MinDelay <= MaxDelay
    /\ RetryAfters \subseteq Nat

Mutations == {c \in Calls : Kind[c] # "read"}

Outcomes == {"none", "ok", "refused", "transport", "decode", "context"}
NoReply  == [kind |-> "none", after |-> 0]
Replies  == [kind : {"ok", "refused", "unavailable", "none"}, after : RetryAfters \cup {0}]

VARIABLES
    pc,         \* where doWithRetry of call c stands
    attempt,    \* its loop variable
    asked,      \* the Retry-After the pending sleep was computed from
    result,     \* what Do returned
    cancelled,  \* the call's context is done
    wire,       \* requests <<c, n>> that can still reach Pulse
    reply,      \* the response to the current attempt, if one is under way
    ledger,     \* idempotency keys Pulse has executed
    effects     \* effects[c]: how many times Pulse executed call c

client == <<pc, attempt, asked, result, cancelled>>
pulse  == <<ledger, effects>>
vars   == <<pc, attempt, asked, result, cancelled, wire, reply, ledger, effects>>

Init ==
    /\ pc = [c \in Calls |-> "idle"]
    /\ attempt = [c \in Calls |-> 0]
    /\ asked = [c \in Calls |-> 0]
    /\ result = [c \in Calls |-> "none"]
    /\ cancelled = [c \in Calls |-> FALSE]
    /\ wire = {}
    /\ reply = [c \in Calls |-> NoReply]
    /\ ledger = {}
    /\ effects = [c \in Calls |-> 0]

-----------------------------------------------------------------------------
(* The client *)

\* requestReplaySafe: a read, or a mutation that carries a key.
AlwaysReplaySafe(c) == TRUE
ReplaySafe(c) == Kind[c] # "unkeyed"

\* mutate() draws one random key and every attempt clones that one request.
FreshKeyPerAttempt(c, n) == <<c, n>>
IdempotencyKey(c, n) == <<c, 0>>

\* The doubling loop of retryDelay: the delay before attempt n + 1.
Backoff[n \in 1..10] ==
    IF n = 1 THEN MinDelay
    ELSE LET previous == Backoff[n - 1]
         IN  IF previous >= MaxDelay THEN previous
             ELSE IF previous > MaxDelay \div 2 THEN MaxDelay
             ELSE 2 * previous

\* Retry-After may lengthen the delay, and MaxDelay bounds both.
UnboundedRetryDelay(n, after) ==
    IF after > Backoff[n] THEN after ELSE Backoff[n]
RetryDelay(n, after) ==
    LET delay == IF after > Backoff[n] THEN after ELSE Backoff[n]
    IN  IF delay > MaxDelay THEN MaxDelay ELSE delay

Finish(c, outcome) ==
    /\ pc' = [pc EXCEPT ![c] = "done"]
    /\ result' = [result EXCEPT ![c] = outcome]
    /\ UNCHANGED <<attempt, asked>>

Sleep(c, after) ==
    /\ pc' = [pc EXCEPT ![c] = "asleep"]
    /\ asked' = [asked EXCEPT ![c] = after]
    /\ UNCHANGED <<attempt, result>>

\* The test that follows every failed attempt, and the two ways on from it.
ForgetsLastError(c, retryable, after, outcome) ==
    IF ReplaySafe(c) /\ attempt[c] < MaxAttempts /\ retryable
    THEN Sleep(c, after)
    ELSE Finish(c, IF attempt[c] = MaxAttempts /\ retryable THEN "ok" ELSE outcome)
NeverGivesUp(c, retryable, after, outcome) ==
    IF ReplaySafe(c) /\ retryable THEN Sleep(c, after) ELSE Finish(c, outcome)
RetryOrFinish(c, retryable, after, outcome) ==
    IF ReplaySafe(c) /\ attempt[c] < MaxAttempts /\ retryable
    THEN Sleep(c, after)
    ELSE Finish(c, outcome)

\* Do is called: the request is built and the loop entered.
Start(c) ==
    /\ pc[c] = "idle"
    /\ pc' = [pc EXCEPT ![c] = "ready"]
    /\ attempt' = [attempt EXCEPT ![c] = 1]
    /\ UNCHANGED <<asked, result, cancelled, wire, reply, pulse>>

\* cloneRequest and httpClient.Do; with its context done Do sends nothing.
Send(c) ==
    /\ pc[c] = "ready"
    /\ ~cancelled[c]
    /\ pc' = [pc EXCEPT ![c] = "inflight"]
    /\ wire' = wire \cup {<<c, attempt[c]>>}
    /\ reply' = [reply EXCEPT ![c] = NoReply]
    /\ UNCHANGED <<attempt, asked, result, cancelled, pulse>>

SendCancelled(c) ==
    /\ pc[c] = "ready"
    /\ cancelled[c]
    /\ Finish(c, "transport")
    /\ UNCHANGED <<cancelled, wire, reply, pulse>>

\* The connection or the reading of a body fails, or the client's own 30 s
\* timeout expires, whatever Pulse has done meanwhile.  A done context and a
\* permanent error are not retryable, io.EOF and temporary errors are.
TransportFailure(c) ==
    /\ pc[c] = "inflight"
    /\ \E retryable \in IF cancelled[c] THEN {FALSE} ELSE BOOLEAN :
           RetryOrFinish(c, retryable, 0, "transport")
    /\ UNCHANGED <<cancelled, wire, reply, pulse>>

\* A response outside 2xx: Retryable() holds for "unavailable" only.
ErrorResponse(c) ==
    /\ pc[c] = "inflight"
    /\ reply[c].kind \in {"refused", "unavailable"}
    /\ RetryOrFinish(c, reply[c].kind = "unavailable", reply[c].after, "refused")
    /\ UNCHANGED <<cancelled, wire, reply, pulse>>

\* A 2xx response whose body is whole, or is not wanted.
Success(c) ==
    /\ pc[c] = "inflight"
    /\ reply[c].kind = "ok"
    /\ Finish(c, "ok")
    /\ UNCHANGED <<cancelled, wire, reply, pulse>>

\* A 2xx response whose body is not JSON: retryable when the text ends early.
DecodeFailure(c) ==
    /\ pc[c] = "inflight"
    /\ reply[c].kind = "ok"
    /\ \E incomplete \in BOOLEAN : RetryOrFinish(c, incomplete, 0, "decode")
    /\ UNCHANGED <<cancelled, wire, reply, pulse>>

\* sleepContext returns for its timer or for its context, and when both are
\* ready select takes either.
WakesUncounted(c) ==
    /\ pc[c] = "asleep"
    /\ pc' = [pc EXCEPT ![c] = "ready"]
    /\ UNCHANGED <<attempt, asked, result, cancelled, wire, reply, pulse>>
Wake(c) ==
    /\ pc[c] = "asleep"
    /\ pc' = [pc EXCEPT ![c] = "ready"]
    /\ attempt' = [attempt EXCEPT ![c] = @ + 1]
    /\ UNCHANGED <<asked, result, cancelled, wire, reply, pulse>>

SleepCancelled(c) ==
    /\ pc[c] = "asleep"
    /\ cancelled[c]
    /\ Finish(c, "context")
    /\ UNCHANGED <<cancelled, wire, reply, pulse>>

-----------------------------------------------------------------------------
(* The environment: Terraform's context, the network and Pulse *)

Cancel(c) ==
    /\ pc[c] # "done"
    /\ ~cancelled[c]
    /\ cancelled' = [cancelled EXCEPT ![c] = TRUE]
    /\ UNCHANGED <<pc, attempt, asked, result, wire, reply, pulse>>

\* Only the attempt being waited for has a connection to answer on.
Answer(c, n, response) ==
    reply' = IF pc[c] = "inflight" /\ attempt[c] = n /\ reply[c] = NoReply
             THEN [reply EXCEPT ![c] = response]
             ELSE reply

\* net/http sends a replayable request again when a reused connection breaks,
\* so the wire may hold a copy of a request that has been taken from it.
Taken(c, n) ==
    IF ReplaySafe(c) THEN wire' \in {wire, wire \ {<<c, n>>}}
    ELSE wire' = wire \ {<<c, n>>}

\* Pulse executes a request, or recognises its key and repeats the answer.
Execute(c, n) ==
    LET key == IdempotencyKey(c, n)
        replayed == Kind[c] = "keyed" /\ key \in ledger
    IN  /\ <<c, n>> \in wire
        /\ Taken(c, n)
        /\ IF Kind[c] = "read" \/ replayed THEN UNCHANGED effects
           ELSE effects' = [effects EXCEPT ![c] = @ + 1]
        /\ ledger' = IF Kind[c] = "keyed" THEN ledger \cup {key} ELSE ledger
        /\ Answer(c, n, [kind |-> "ok", after |-> 0])
        /\ UNCHANGED client

\* Pulse or a gateway refuses the request; a gateway's refusal does not keep
\* the request from being executed.
Refuse(c, n) ==
    /\ <<c, n>> \in wire
    /\ wire' \in {wire, wire \ {<<c, n>>}}
    /\ \/ Answer(c, n, [kind |-> "refused", after |-> 0])
       \/ \E after \in RetryAfters \cup {0} :
              Answer(c, n, [kind |-> "unavailable", after |-> after])
    /\ UNCHANGED <<client, pulse>>

Returns(c) ==
    \/ TransportFailure(c) \/ ErrorResponse(c) \/ Success(c) \/ DecodeFailure(c)

ClientStep(c) ==
    \/ Send(c) \/ SendCancelled(c) \/ Returns(c) \/ Wake(c) \/ SleepCancelled(c)

Next ==
    \/ \E c \in Calls : Start(c) \/ ClientStep(c) \/ Cancel(c)
    \/ \E c \in Calls, n \in 1..MaxAttempts : Execute(c, n) \/ Refuse(c, n)

Spec == Init /\ [][Next]_vars

\* A goroutine in doWithRetry runs on: Do returns because of the client's
\* timeout even when nothing answers, and every timer fires.
FairSpec == Spec /\ \A c \in Calls : WF_vars(ClientStep(c))

-----------------------------------------------------------------------------
(* Properties *)

TypeOK ==
    /\ pc \in [Calls -> {"idle", "ready", "inflight", "asleep", "done"}]
    /\ attempt \in [Calls -> 0..MaxAttempts]
    /\ asked \in [Calls -> RetryAfters \cup {0}]
    /\ result \in [Calls -> Outcomes]
    /\ cancelled \in [Calls -> BOOLEAN]
    /\ wire \subseteq (Calls \X (1..MaxAttempts))
    /\ reply \in [Calls -> Replies]
    /\ ledger \subseteq (Calls \X (0..MaxAttempts))
    /\ effects \in [Calls -> Nat]

\* No mutation is executed twice by Pulse, whatever the client retries, the
\* network repeats and the gateways answer.
AtMostOneEffect == \A c \in Calls : effects[c] <= 1

\* A mutation for which Do returned nil has been executed: giving up, being
\* cancelled or running out of attempts is never reported as success.
SuccessWasExecuted ==
    \A c \in Mutations : result[c] = "ok" => effects[c] = 1

\* Every effect, executed key, request under way and answer of a call agree;
\* this is AtMostOneEffect and SuccessWasExecuted with what makes them
\* inductive: a keyed call is executed when its one key is recorded, and a
\* call without a key has one request, on the wire or executed, never both.
LedgerAccount(c) ==
    /\ Kind[c] = "keyed" => effects[c] = IF <<c, 0>> \in ledger THEN 1 ELSE 0
    /\ Kind[c] = "read" => effects[c] = 0
UnkeyedAccount(c) ==
    Kind[c] = "unkeyed" =>
        /\ effects[c] <= 1
        /\ pc[c] # "asleep"
        /\ attempt[c] <= 1
        /\ effects[c] = 1 => <<c, 1>> \notin wire
        /\ pc[c] \in {"idle", "ready"} => effects[c] = 0 /\ <<c, 1>> \notin wire
AnswerAccount(c) ==
    c \in Mutations /\ (reply[c].kind = "ok" \/ result[c] = "ok") => effects[c] = 1
LoopAccount(c) ==
    /\ pc[c] \in {"ready", "inflight", "asleep"} => attempt[c] >= 1
    /\ pc[c] = "asleep" => attempt[c] < MaxAttempts
    /\ pc[c] = "idle" => \A n \in 1..MaxAttempts : <<c, n>> \notin wire
    /\ result[c] = "none" <=> pc[c] # "done"
    /\ \A n \in 1..MaxAttempts : <<c, n>> \in wire => n <= attempt[c]
Accounted(c) ==
    LedgerAccount(c) /\ UnkeyedAccount(c) /\ AnswerAccount(c) /\ LoopAccount(c)
EffectsAreAccountedFor == \A c \in Calls : Accounted(c)

\* The delay before the next attempt is the exponential backoff, lengthened
\* by Retry-After and bounded by MaxDelay, whatever path the loop takes.
BackoffIsBoundedExponential ==
    \A c \in Calls : pc[c] = "asleep" =>
        LET exponential == MinDelay * 2^(attempt[c] - 1)
            wanted == IF asked[c] > exponential THEN asked[c] ELSE exponential
        IN  RetryDelay(attempt[c], asked[c]) = IF wanted > MaxDelay THEN MaxDelay ELSE wanted

\* A call for which Do was entered returns, without help from the network.
CallsReturn == \A c \in Calls : pc[c] = "ready" ~> pc[c] = "done"

\* The transport implements the contract its callers are written against.
Phase(c) ==
    IF pc[c] = "idle" THEN "idle" ELSE IF pc[c] = "done" THEN "closed" ELSE "open"

Contract == INSTANCE RemoteCall WITH
    Failures <- {"refused", "transport", "decode", "context"},
    phase <- [c \in Calls |-> Phase(c)],
    applied <- [c \in Calls |-> effects[c]],
    outcome <- result

ImplementsContract == Contract!FairSpec
=============================================================================
