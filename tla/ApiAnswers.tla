----------------------------- MODULE ApiAnswers -----------------------------
(***************************************************************************)
(* What one call of a typed method of the Pulse client makes of the HTTP   *)
(* answers it gets, and what the resource's method then does with          *)
(* Terraform's state: doWithRetry with decodeResponseError (retry.go,      *)
(* errors.go), the checks of contract.go and automation.go, and the        *)
(* branches of Create, Read, Update and Delete.                            *)
(*                                                                         *)
(* Pulse (external) answers for a record that other people delete, archive *)
(* and restore meanwhile.  Between the client and Pulse are gateways that  *)
(* answer for a Pulse that is down, and links that break; and the answer   *)
(* may come from a stranger: a proxy's login page, a wrong base URL.       *)
(*                                                                         *)
(* PulseTransport has the wire, the keys and the delays of the same loop;  *)
(* there an answer is one of three kinds, here it is a status, the error   *)
(* code its body carries and what the body is.                             *)
(***************************************************************************)
EXTENDS Integers

CONSTANTS
    MaxAttempts,    \* RetryConfig
    MaxChanges,     \* changes of the record made by others
    MaxIntrusions   \* answers that are not Pulse's

ASSUME AnswersAssumption ==
    /\ MaxAttempts \in 1..10
    /\ {MaxChanges, MaxIntrusions} \subseteq Nat

Kinds == {"component", "catalog", "rollup", "integration"}
Methods == {"create", "read", "update", "delete"}
Calls == Kinds \X Methods

VARIABLES
    call,      \* <<kind, method>>
    pc,        \* where the call stands
    attempt,
    record,    \* Pulse's record
    seen,      \* what the record has been since the call began
    effects,   \* how many times Pulse has executed the call
    answer,    \* the answer to the current attempt
    result,    \* what the client's method returned
    state,     \* what became of the resource's state
    budget     \* what is left of the bounds

vars == <<call, pc, attempt, record, seen, effects, answer, result, state, budget>>

kind == call[1]
method == call[2]

-----------------------------------------------------------------------------
(* Answers: who gave it, its HTTP status (0 when the connection broke), the *)
(* error code a JSON body carries, and the body.                           *)

Codes == {"none", "resource_not_found", "stale_revision", "already_exists",
          "permission_denied", "validation_failed", "secret_reissue_required",
          "rate_limited", "service_unavailable", "forbidden"}
Bodies == {"record",     \* the whole record that was asked for
           "archived",   \* the same with its archived_at
           "object",     \* some other JSON: an error envelope, not a record
           "page",       \* not JSON
           "empty",
           "cut",        \* it ends early, or a passing network error ends it
           "reset",      \* the connection was refused, reset or never made
           "oversized"}
Statuses == {0, 200, 204, 302, 403, 404, 409, 422, 429, 502, 503, 504}
Answer(from, status, code, body) ==
    [from |-> from, status |-> status, code |-> code, body |-> body]
NoAnswer == Answer("nobody", 0, "none", "empty")

Success(a) == a.status \in 200..299

Pulse(status, code) == Answer("pulse", status, code, "object")
Whole(body) == Answer("pulse", 200, "none", body)
Deleted == Answer("pulse", 204, "none", "empty")
NotFound == Pulse(404, "resource_not_found")

\* Short troubles: Pulse's limits and outages, a gateway that says so for it,
\* an answer that ends early.
Limits == {Pulse(429, "rate_limited"), Pulse(503, "service_unavailable")}
Outages ==
    {Answer("gateway", status, "none", body) : status \in {502, 503, 504}, body \in {"page", "empty"}}
    \cup {Answer("gateway", 0, "none", "cut")}
Damaged(a) ==
    {[a EXCEPT !.body = body] :
         body \in {"cut", "reset"} \cup IF Success(a) THEN {"empty"} ELSE {}}
ShortTrouble(a) ==
    \/ a \in Limits \cup Outages
    \/ a.from = "pulse" /\ a.body \in {"cut", "empty"} /\ a # Deleted

\* What the client takes for lasting: an outage announced at length, a
\* connection refused or reset, a name unknown, a certificate that is wrong.
\* And there is somebody else altogether.
LastingOutages ==
    {Answer("gateway", 503, "none", "oversized"), Answer("gateway", 0, "none", "reset")}
Strangers ==
    {Answer("stranger", status, "none", "page") : status \in {200, 302, 403, 404}}
    \cup {Answer("stranger", status, code, "object") :
              status \in {403, 404}, code \in {"forbidden", "resource_not_found"}}
    \cup {Answer("stranger", 200, "none", "object"), Answer("stranger", 204, "none", "empty")}

-----------------------------------------------------------------------------
(* doWithRetry and decodeResponseError *)

\* fallbackErrorCode, and the code of the body when there is one.
fallbackErrorCode(status) ==
    IF status = 403 THEN "permission_denied"
    ELSE IF status = 404 THEN "resource_not_found"
    ELSE IF status = 409 THEN "conflict"
    ELSE IF status = 422 THEN "validation_failed"
    ELSE IF status = 429 THEN "rate_limited"
    ELSE IF status >= 500 THEN "service_unavailable"
    ELSE "unknown"
AnyRefusalIsNotFound(a) == IF a.code # "none" THEN a.code ELSE "resource_not_found"
Code(a) == IF a.code # "none" THEN a.code ELSE fallbackErrorCode(a.status)

\* ResponseError.Retryable.
RetriesConflicts(a) ==
    \/ Code(a) \in {"rate_limited", "service_unavailable", "stale_revision"}
    \/ a.status \in {408, 425, 429, 500, 502, 503, 504}
Retryable(a) ==
    \/ Code(a) \in {"rate_limited", "service_unavailable"}
    \/ a.status \in {408, 425, 429, 500, 502, 503, 504}

\* A deletion wants no body, and 204 has none: any 2xx will do.
Unread(a) == Success(a) /\ (method = "delete" \/ a.status = 204)

ReadFails(a) == ~Unread(a) /\ a.body \in {"cut", "reset", "oversized"}
Refusal(a) == ~Success(a) /\ ~ReadFails(a)

\* retryableTransportError and incompleteJSON: of the readings that fail, those
\* that end early; of the JSON that is wrong, what is not there at all.
EndsEarly(a) == ~Unread(a) /\ (a.body = "cut" \/ (Success(a) /\ a.body = "empty"))

TriesAgain(a) == EndsEarly(a) \/ (Refusal(a) /\ Retryable(a))

-----------------------------------------------------------------------------
(* The typed methods and the resources *)

\* validateComponent, validateIntegration, ... and the identity each method
\* compares: what remains of a 204 is a record without any field.
ShapeOnly(a) == Success(a) /\ (Unread(a) \/ a.body \in {"record", "archived"})
KeepsContract(a) ==
    /\ Success(a)
    /\ method # "delete" => ~Unread(a) /\ a.body = "record"

Returned(a) ==
    IF KeepsContract(a) THEN "ok"
    ELSE IF ReadFails(a) THEN "transport"
    ELSE IF Refusal(a) THEN "response"
    ELSE IF ~Unread(a) /\ a.body \in {"page", "empty"} THEN "decode"
    ELSE "contract"

\* IsErrorCode(err, ErrorCodeNotFound) reads the code; the integration's
\* isNotFound reads the status.
IsNotFound(a) ==
    /\ Refusal(a)
    /\ IF kind = "integration" THEN a.status = 404 ELSE Code(a) = "resource_not_found"

BecomesOf(a) ==
    IF KeepsContract(a) THEN IF method = "delete" THEN "dropped" ELSE "stored"
    ELSE IF IsNotFound(a) /\ method \in {"read", "delete"} THEN "dropped"
    ELSE "kept"

Init ==
    /\ call \in Calls
    /\ pc = "idle"
    /\ attempt = 0
    /\ record \in {"active", "gone"}
    /\ seen = {record}
    /\ effects = 0
    /\ answer = NoAnswer
    /\ result = "none"
    /\ state = "kept"
    /\ budget = [changes |-> MaxChanges, intrusions |-> MaxIntrusions]

Start ==
    /\ pc = "idle"
    /\ pc' = "waiting"
    /\ attempt' = 1
    /\ seen' = {record}
    /\ UNCHANGED <<call, record, effects, answer, result, state, budget>>

Finish(outcome, becomes) ==
    /\ pc' = "done"
    /\ result' = outcome
    /\ state' = becomes
    /\ UNCHANGED <<attempt, answer>>

Repeat ==
    /\ attempt' = attempt + 1
    /\ answer' = NoAnswer
    /\ UNCHANGED <<pc, result, state>>

\* The test after every attempt, and the two ways on from it.
TriesForEver ==
    IF TriesAgain(answer) THEN Repeat ELSE Finish(Returned(answer), BecomesOf(answer))
RepeatOrFinish ==
    IF TriesAgain(answer) /\ attempt < MaxAttempts
    THEN Repeat
    ELSE Finish(Returned(answer), BecomesOf(answer))

Receive ==
    /\ pc = "waiting" /\ answer # NoAnswer
    /\ RepeatOrFinish
    /\ UNCHANGED <<call, record, seen, effects, budget>>

\* The client's own timeout is a context.DeadlineExceeded: it is not retried.
TimeOut ==
    /\ pc = "waiting"
    /\ Finish("transport", "kept")
    /\ UNCHANGED <<call, record, seen, effects, budget>>

-----------------------------------------------------------------------------
(* Pulse, and what stands before it (external) *)

Removed == IF kind \in {"component", "integration"} THEN "archived" ELSE "gone"

\* How Pulse may answer a call it executes now: [record, done, answer].
Does(next, a) == [record |-> next, done |-> 1, answer |-> a]
Says(a) == [record |-> record, done |-> 0, answer |-> a]

Reads ==
    IF record = "active" THEN {Says(Whole("record"))}
    ELSE {Says(NotFound)} \cup IF record = "archived" THEN {Says(Whole("archived"))} ELSE {}
Creates ==
    IF record = "active" /\ kind # "component" THEN {Says(Pulse(409, "already_exists"))}
    ELSE {Does("active", Whole("record"))}
Changes(next, a) ==
    IF record = "active" THEN {Does(next, a), Says(Pulse(409, "stale_revision"))}
    ELSE {Says(NotFound)}

Executed ==
    CASE method = "read" -> Reads
      [] method = "create" -> Creates
      [] method = "update" -> Changes("active", Whole("record"))
      [] method = "delete" -> Changes(Removed, Deleted)

\* Pulse recognises the key and repeats its answer; of a secret it has only
\* the version left.
Repeated ==
    IF method = "delete" THEN {Says(Deleted)}
    ELSE IF kind = "integration" THEN {Says(Pulse(409, "secret_reissue_required"))}
    ELSE {Says(Whole("record"))}

Refused ==
    {Says(a) : a \in Limits \cup {Pulse(403, "permission_denied"), Pulse(422, "validation_failed")}}

Execute ==
    /\ pc = "waiting" /\ answer = NoAnswer
    /\ \E outcome \in Refused \cup IF effects = 0 THEN Executed ELSE Repeated :
        /\ record' = outcome.record
        /\ seen' = seen \cup {outcome.record}
        /\ effects' = effects + outcome.done
        /\ answer' = outcome.answer
    /\ UNCHANGED <<call, pc, attempt, result, state, budget>>

Spend(item) ==
    /\ budget[item] > 0
    /\ budget' = [budget EXCEPT ![item] = @ - 1]

\* Another answer arrives than Pulse's, which may have executed the call.
Intrude ==
    /\ pc = "waiting" /\ answer.from \in {"nobody", "pulse"}
    /\ Spend("intrusions")
    /\ answer' \in Outages \cup LastingOutages \cup Strangers
          \cup IF answer.from = "pulse" /\ answer # Deleted THEN Damaged(answer) ELSE {}
    /\ UNCHANGED <<call, pc, attempt, record, seen, effects, result, state>>

\* Somebody else deletes, archives, restores or creates the record again.
Change ==
    /\ pc # "done"
    /\ Spend("changes")
    /\ record' = IF record = "active" THEN Removed ELSE "active"
    /\ seen' = seen \cup {record'}
    /\ UNCHANGED <<call, pc, attempt, effects, answer, result, state>>

ClientStep == Receive \/ TimeOut

Next == Start \/ ClientStep \/ Execute \/ Intrude \/ Change

Spec == Init /\ [][Next]_vars

\* doWithRetry runs on; its timeout needs nobody's help.
FairSpec == Spec /\ WF_vars(ClientStep)

-----------------------------------------------------------------------------
(* Properties *)

TypeOK ==
    /\ call \in Calls
    /\ pc \in {"idle", "waiting", "done"}
    /\ attempt \in 0..MaxAttempts
    /\ record \in {"active", "archived", "gone"}
    /\ seen \subseteq {"active", "archived", "gone"}
    /\ effects \in {0, 1}
    /\ answer \in [from : {"nobody", "pulse", "gateway", "stranger"}, status : Statuses,
                   code : Codes, body : Bodies]
    /\ result \in {"none", "ok", "response", "transport", "decode", "contract"}
    /\ state \in {"kept", "stored", "dropped"}
    /\ budget \in [changes : Nat, intrusions : Nat]

\* A resource leaves the state only because Pulse said of a record that was
\* not active, at some time since the call began, that it is gone, or because
\* a stranger said "not found" in the way the resource looks for it, or "done"
\* to a deletion.  No other refusal, outage or broken answer loses a resource.
Misleads(a) ==
    /\ a.from = "stranger"
    /\ \/ a.status = 404 \/ a.code = "resource_not_found"
       \/ method = "delete" /\ a.status \in {200, 204}
DropIsJustified ==
    state = "dropped" =>
        \/ answer.from = "pulse" /\ seen # {"active"}
        \/ Misleads(answer)

\* What is stored is an answer of Pulse's own about a record that was active at
\* some time since the call began: an archived record, a stranger's 2xx and a
\* success without a body are errors.
StoredIsReal ==
    state = "stored" => answer.from = "pulse" /\ "active" \in seen

\* The client sends again on a short trouble only - a limit or an outage that
\* Pulse or a gateway announces, an answer that ends early - and on every such
\* answer that arrives in time, while attempts are left: no refusal by Pulse is
\* asked for twice.  Whatever else goes wrong ends the call with attempts to
\* spare: a connection refused, reset or never made, an outage described at
\* length, the client's own timeout.
RetriesShortTroubles ==
    [][/\ pc = "waiting" /\ attempt' # attempt => ShortTrouble(answer)
       /\ Receive /\ ShortTrouble(answer) /\ attempt < MaxAttempts => attempt' # attempt]_vars

\* For creations and updates the client's methods keep the contract of
\* RemoteCall even among strangers: who is told "ok" has taken effect, at most
\* once, and every call returns.  A deletion takes any 2xx for its own.
Phase(c) ==
    IF c # call \/ pc = "idle" THEN "idle" ELSE IF pc = "done" THEN "closed" ELSE "open"
Trusted == {c \in Calls : c[2] \in {"create", "update"}}
Contract == INSTANCE RemoteCall WITH
    Mutations <- Trusted,
    Failures <- {"response", "transport", "decode", "contract"},
    phase <- [c \in Calls |-> Phase(c)],
    applied <- [c \in Calls |-> IF c = call /\ c \in Trusted THEN effects ELSE 0],
    outcome <- [c \in Calls |-> IF c = call THEN result ELSE "none"]

ImplementsContract == Contract!FairSpec
=============================================================================
