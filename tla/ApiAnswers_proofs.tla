------------------------- MODULE ApiAnswers_proofs -------------------------
(***************************************************************************)
(* Proofs about ApiAnswers, for any number of attempts, of changes made by *)
(* others and of answers that are not Pulse's.                             *)
(*                                                                         *)
(* What an answer of Pulse's may say of the record is bound to what the    *)
(* record has been since the call began (Honest): "the record" only if it  *)
(* was active, "not found" and "deleted" only if it was not.  The link may *)
(* cut such an answer short but not change its status or its code.  What   *)
(* is stored or dropped follows from the last answer alone.                *)
(***************************************************************************)
EXTENDS ApiAnswers, TLAPS

Records == {"active", "archived", "gone"}
Answers == [from : {"nobody", "pulse", "gateway", "stranger"}, status : Statuses,
            code : Codes, body : Bodies]
Budget == [changes : Nat, intrusions : Nat]

SaysGone(a) ==
    \/ a.status = 404 \/ a.code = "resource_not_found"
    \/ method = "delete" /\ Success(a)

\* An answer and its source.
Honest(a) ==
    /\ a.from = "nobody" => a = NoAnswer
    /\ a.from = "gateway" => a \in Outages \cup LastingOutages
    /\ a.from = "stranger" => a \in Strangers
    /\ a.from = "pulse" => /\ a.body = "record" => "active" \in seen
                           /\ SaysGone(a) => seen # {"active"}

\* What has been executed has been seen.
EffectIsSeen ==
    effects = 1 => IF method = "delete" THEN seen # {"active"}
                   ELSE method \in {"create", "update"} /\ "active" \in seen

Inv ==
    /\ TypeOK
    /\ record \in seen
    /\ answer \in Answers /\ Honest(answer)
    /\ EffectIsSeen
    /\ pc # "done" => state = "kept"
    /\ pc = "idle" => effects = 0 /\ answer = NoAnswer
    /\ DropIsJustified /\ StoredIsReal

-----------------------------------------------------------------------------

LEMMA CallFields == call \in Calls => kind \in Kinds /\ method \in Methods
BY DEF Calls, kind, method

\* Every answer of the environment is an answer.
LEMMA AnswerTypes ==
    /\ Limits \cup Outages \cup LastingOutages \cup Strangers \subseteq Answers
    /\ \A a \in Limits : a.from = "pulse" /\ a.body = "object" /\ ~SaysGone(a)
    /\ \A a \in Outages \cup LastingOutages : a.from = "gateway"
    /\ \A a \in Strangers : a.from = "stranger"
    /\ NoAnswer \in Answers /\ NoAnswer.from = "nobody"
<1>1. /\ Limits \subseteq Answers
      /\ \A a \in Limits : a.from = "pulse" /\ a.body = "object" /\ ~SaysGone(a)
  BY DEF Limits, Pulse, Answer, Answers, Statuses, Codes, Bodies, SaysGone, Success
<1>2. /\ Outages \cup LastingOutages \subseteq Answers
      /\ \A a \in Outages \cup LastingOutages : a.from = "gateway"
  BY DEF Outages, LastingOutages, Answer, Answers, Statuses, Codes, Bodies
<1>3. /\ Strangers \subseteq Answers
      /\ \A a \in Strangers : a.from = "stranger"
  BY DEF Strangers, Answer, Answers, Statuses, Codes, Bodies
<1>4. NoAnswer \in Answers /\ NoAnswer.from = "nobody"
  BY DEF NoAnswer, Answer, Answers, Statuses, Codes, Bodies
<1> QED
  BY <1>1, <1>2, <1>3, <1>4

\* A gateway's answer is never a success nor a "not found".
LEMMA GatewaysOnlyFail ==
    ASSUME NEW a \in Outages \cup LastingOutages
    PROVE  ~Success(a) /\ ~IsNotFound(a)
<1>1. a.code = "none" /\ \/ a.status \in {502, 503, 504}
                         \/ a.status = 0 /\ a.body \in {"cut", "reset"}
  BY DEF Outages, LastingOutages, Answer
<1>2. ~Success(a)
  BY <1>1 DEF Success
<1>3. CASE a.status \in {502, 503, 504}
  BY <1>1, <1>2, <1>3 DEF IsNotFound, Code, fallbackErrorCode
<1>4. CASE a.status = 0 /\ a.body \in {"cut", "reset"}
  BY <1>2, <1>4 DEF IsNotFound, Refusal, ReadFails, Unread
<1> QED
  BY <1>1, <1>2, <1>3, <1>4

\* A stranger has no record of Pulse's, and what it says of a record that is
\* missing is misleading.
LEMMA StrangersMislead ==
    ASSUME NEW a \in Strangers
    PROVE  /\ KeepsContract(a) => method = "delete" /\ Misleads(a)
           /\ IsNotFound(a) => Misleads(a)
<1>1. /\ a.from = "stranger" /\ a.status \in {200, 204, 302, 403, 404}
      /\ a.body # "record" /\ a.code \in {"none", "forbidden", "resource_not_found"}
  BY DEF Strangers, Answer
<1>2. Success(a) => a.status \in {200, 204}
  BY <1>1 DEF Success
<1>3. KeepsContract(a) => method = "delete" /\ Misleads(a)
  BY <1>1, <1>2 DEF KeepsContract, Misleads
<1>4. IsNotFound(a) => a.status = 404 \/ a.code = "resource_not_found"
  BY <1>1 DEF IsNotFound, Code, fallbackErrorCode
<1> QED
  BY <1>1, <1>3, <1>4 DEF Misleads

\* So what the resource does with its state is justified by the answer.
LEMMA VerdictIsJustified ==
    ASSUME Inv, answer # NoAnswer
    PROVE  /\ BecomesOf(answer) = "dropped" =>
                  \/ answer.from = "pulse" /\ seen # {"active"}
                  \/ Misleads(answer)
           /\ BecomesOf(answer) = "stored" => answer.from = "pulse" /\ "active" \in seen
           /\ BecomesOf(answer) \in {"kept", "stored", "dropped"}
<1>1. answer \in Answers /\ Honest(answer) /\ method \in Methods
  BY CallFields DEF Inv, TypeOK
<1>2. CASE answer.from = "pulse"
  <2>1. IsNotFound(answer) => SaysGone(answer)
    BY <1>1 DEF IsNotFound, Code, fallbackErrorCode, SaysGone, Answers, Statuses
  <2>2. KeepsContract(answer) =>
            IF method = "delete" THEN SaysGone(answer) ELSE answer.body = "record"
    BY DEF KeepsContract, SaysGone
  <2> QED
    BY <1>1, <1>2, <2>1, <2>2 DEF Honest, BecomesOf
<1>3. CASE answer.from = "gateway"
  BY <1>1, <1>3, GatewaysOnlyFail DEF Honest, BecomesOf, KeepsContract
<1>4. CASE answer.from = "stranger"
  BY <1>1, <1>4, StrangersMislead DEF Honest, BecomesOf
<1> QED
  BY <1>1, <1>2, <1>3, <1>4 DEF Answers, Honest

-----------------------------------------------------------------------------

LEMMA InitInv == Init => Inv
<1> SUFFICES ASSUME Init PROVE Inv
  OBVIOUS
<1>1. TypeOK
  BY AnswerTypes, AnswersAssumption DEF Init, TypeOK, Answers
<1> QED
  BY <1>1, AnswerTypes DEF Init, Inv, Honest, EffectIsSeen, DropIsJustified, StoredIsReal

LEMMA StartInv == Inv /\ Start => Inv'
<1> SUFFICES ASSUME Inv, Start PROVE Inv'
  OBVIOUS
<1>1. TypeOK'
  BY AnswersAssumption DEF Inv, TypeOK, Start
<1>2. effects' = 0 /\ answer' = NoAnswer /\ state' = "kept" /\ record' \in seen' /\ pc' = "waiting"
  BY DEF Inv, Start
<1> QED
  BY <1>1, <1>2, AnswerTypes DEF Inv, Honest, EffectIsSeen, DropIsJustified, StoredIsReal

LEMMA ReceiveInv == Inv /\ Receive => Inv'
<1> SUFFICES ASSUME Inv, Receive PROVE Inv'
  OBVIOUS
<1>1. UNCHANGED <<call, record, seen, effects, budget>> /\ answer # NoAnswer /\ pc = "waiting"
  BY DEF Receive
<1>2. CASE Repeat /\ attempt < MaxAttempts
  <2>1. TypeOK'
    BY <1>1, <1>2, AnswerTypes, AnswersAssumption DEF Inv, TypeOK, Repeat, Answers
  <2> QED
    BY <1>1, <1>2, <2>1, AnswerTypes
       DEF Inv, Repeat, Honest, EffectIsSeen, DropIsJustified, StoredIsReal, method
<1>3. CASE Finish(Returned(answer), BecomesOf(answer))
  <2>1. Returned(answer) \in {"ok", "response", "transport", "decode", "contract"}
    BY DEF Returned
  <2>2. TypeOK'
    BY <1>1, <1>3, <2>1, VerdictIsJustified DEF Inv, TypeOK, Finish
  <2>3. DropIsJustified' /\ StoredIsReal'
    BY <1>1, <1>3, VerdictIsJustified
       DEF Finish, DropIsJustified, StoredIsReal, Misleads, method
  <2>4. Honest(answer)' /\ EffectIsSeen'
    BY <1>1, <1>3 DEF Inv, Finish, Honest, EffectIsSeen, SaysGone, method
  <2> QED
    BY <1>1, <1>3, <2>2, <2>3, <2>4 DEF Inv, Finish
<1> QED
  BY <1>2, <1>3 DEF Receive, RepeatOrFinish, Inv, TypeOK

LEMMA TimeOutInv == Inv /\ TimeOut => Inv'
<1> SUFFICES ASSUME Inv, TimeOut PROVE Inv'
  OBVIOUS
<1>1. TypeOK'
  BY DEF Inv, TypeOK, TimeOut, Finish
<1> QED
  BY <1>1 DEF Inv, TimeOut, Finish, Honest, EffectIsSeen, DropIsJustified, StoredIsReal,
     SaysGone, method

\* Seeing more keeps what was said true.
LEMMA SeenGrows ==
    ASSUME Inv, pc # "done", seen \subseteq seen', UNCHANGED <<call, pc, attempt, result, state>>,
           record' \in seen', seen' \subseteq Records, answer' \in Answers, Honest(answer)',
           effects' \in {0, 1}, EffectIsSeen', budget' \in Budget,
           pc = "idle" => UNCHANGED <<effects, answer>>
    PROVE  Inv'
<1>1. TypeOK'
  BY DEF Inv, TypeOK, Records, Budget, Answers
<1> QED
  BY <1>1 DEF Inv, DropIsJustified, StoredIsReal

LEMMA MoreSeen ==
    ASSUME Inv, UNCHANGED <<call, answer, effects>>, seen \subseteq seen'
    PROVE  Honest(answer)' /\ EffectIsSeen'
<1>1. seen # {"active"} => seen' # {"active"}
  BY DEF Inv
<1> QED
  BY <1>1 DEF Inv, Honest, EffectIsSeen, SaysGone, method

\* Whatever Pulse does and says agrees with what is seen from then on.
LEMMA OutcomesAreHonest ==
    ASSUME Inv, pc # "idle",
           NEW outcome \in Refused \cup IF effects = 0 THEN Executed ELSE Repeated,
           UNCHANGED call, seen' = seen \cup {outcome.record}, effects' = effects + outcome.done
    PROVE  /\ outcome.record \in Records /\ outcome.answer \in Answers
           /\ outcome.answer.from = "pulse" /\ Honest(outcome.answer)'
           /\ effects' \in {0, 1} /\ EffectIsSeen'
<1> USE DEF Says, Does, Pulse, Whole, Deleted, NotFound, Answer
<1>1. /\ kind \in Kinds /\ method \in Methods /\ effects \in {0, 1} /\ record \in Records
      /\ record \in seen /\ method' = method
  BY CallFields DEF Inv, TypeOK, Records, method
<1>2. CASE outcome \in Refused
  <2>1. PICK a \in Limits \cup {Pulse(403, "permission_denied"), Pulse(422, "validation_failed")} :
            outcome = Says(a)
    BY <1>2 DEF Refused
  <2>2. a \in Answers /\ a.from = "pulse" /\ a.body = "object" /\ ~SaysGone(a)
    BY <2>1, AnswerTypes DEF Answers, Statuses, Codes, Bodies, SaysGone, Success
  <2>3. outcome.record = record /\ outcome.done = 0 /\ outcome.answer = a /\ seen' = seen
    BY <1>1, <2>1
  <2> QED
    BY <1>1, <2>2, <2>3 DEF Honest, SaysGone, Inv, EffectIsSeen
<1>3. CASE effects = 0 /\ outcome \in Executed
  <2>1. CASE method = "read"
    BY <1>1, <1>3, <2>1 DEF Executed, Reads, Records, Answers, Statuses, Codes, Bodies,
       Honest, SaysGone, Success, EffectIsSeen
  <2>2. CASE method = "create"
    BY <1>1, <1>3, <2>2 DEF Executed, Creates, Records, Answers, Statuses, Codes, Bodies,
       Honest, SaysGone, Success, EffectIsSeen
  <2>3. CASE method = "update"
    BY <1>1, <1>3, <2>3 DEF Executed, Changes, Records, Answers, Statuses, Codes, Bodies,
       Honest, SaysGone, Success, EffectIsSeen
  <2>4. CASE method = "delete"
    BY <1>1, <1>3, <2>4 DEF Executed, Changes, Removed, Records, Answers, Statuses, Codes, Bodies,
       Honest, SaysGone, Success, EffectIsSeen
  <2> QED
    BY <1>1, <2>1, <2>2, <2>3, <2>4 DEF Methods
<1>4. CASE effects = 1 /\ outcome \in Repeated
  <2>1. IF method = "delete" THEN seen # {"active"}
        ELSE method \in {"create", "update"} /\ "active" \in seen
    BY <1>4 DEF Inv, EffectIsSeen
  <2>2. /\ outcome.record = record /\ outcome.done = 0 /\ seen' = seen
        /\ outcome.answer = IF method = "delete" THEN Deleted
                            ELSE IF kind = "integration" THEN Pulse(409, "secret_reissue_required")
                            ELSE Whole("record")
    BY <1>1, <1>4 DEF Repeated
  <2>3. outcome.answer \in Answers /\ outcome.answer.from = "pulse"
    BY <2>2 DEF Answers, Statuses, Codes, Bodies
  <2>4. Honest(outcome.answer)'
    BY <1>1, <2>1, <2>2 DEF Honest, SaysGone, Success
  <2> QED
    BY <1>1, <1>4, <2>1, <2>2, <2>3, <2>4 DEF EffectIsSeen
<1> QED
  BY <1>1, <1>2, <1>3, <1>4

LEMMA ExecuteInv == Inv /\ Execute => Inv'
<1> SUFFICES ASSUME Inv, Execute PROVE Inv'
  OBVIOUS
<1>1. PICK outcome \in Refused \cup IF effects = 0 THEN Executed ELSE Repeated :
          /\ record' = outcome.record
          /\ seen' = seen \cup {outcome.record}
          /\ effects' = effects + outcome.done
          /\ answer' = outcome.answer
  BY DEF Execute
<1>2. pc = "waiting" /\ UNCHANGED <<call, pc, attempt, result, state, budget>>
  BY DEF Execute
<1>3. /\ outcome.record \in Records /\ outcome.answer \in Answers
      /\ Honest(outcome.answer)'
      /\ effects' \in {0, 1} /\ EffectIsSeen'
  BY <1>1, <1>2, OutcomesAreHonest
<1>4. Honest(answer)'
  BY <1>1, <1>3
<1>5. seen' \subseteq Records /\ budget' \in Budget
  BY <1>1, <1>2, <1>3 DEF Inv, TypeOK, Records, Budget
<1> QED
  BY <1>1, <1>2, <1>3, <1>4, <1>5, SeenGrows

\* The link does not change what Pulse's answer says of the record.
LEMMA DamagedIsHonest ==
    ASSUME Inv, answer.from = "pulse", NEW a \in Damaged(answer)
    PROVE  a \in Answers /\ a.from = "pulse" /\ Honest(a)
<1>1. PICK body \in {"cut", "reset", "empty"} : a = [answer EXCEPT !.body = body]
  BY DEF Damaged
<1>2. /\ a \in Answers /\ a.from = "pulse" /\ a.body # "record"
      /\ a.status = answer.status /\ a.code = answer.code
  BY <1>1 DEF Inv, Answers, Bodies
<1>3. SaysGone(a) <=> SaysGone(answer)
  BY <1>2 DEF SaysGone, Success
<1> QED
  BY <1>2, <1>3 DEF Inv, Honest

LEMMA IntrudeInv == Inv /\ Intrude => Inv'
<1> SUFFICES ASSUME Inv, Intrude PROVE Inv'
  OBVIOUS
<1>1. /\ pc = "waiting"
      /\ UNCHANGED <<call, pc, attempt, record, seen, effects, result, state>>
      /\ budget' \in Budget
  BY DEF Intrude, Spend, Inv, TypeOK, Budget
<1>2. answer' \in Answers /\ Honest(answer')
  <2>1. CASE answer' \in Outages \cup LastingOutages \cup Strangers
    BY <2>1, AnswerTypes DEF Honest
  <2>2. CASE answer.from = "pulse" /\ answer' \in Damaged(answer)
    BY <2>2, DamagedIsHonest
  <2> QED
    BY <2>1, <2>2 DEF Intrude
<1>3. Honest(answer)' /\ EffectIsSeen'
  BY <1>1, <1>2 DEF Inv, Honest, EffectIsSeen, SaysGone, method
<1> QED
  BY <1>1, <1>2, <1>3, SeenGrows DEF Inv, TypeOK, Records

LEMMA ChangeInv == Inv /\ Change => Inv'
<1> SUFFICES ASSUME Inv, Change PROVE Inv'
  OBVIOUS
<1>1. /\ pc # "done" /\ seen' = seen \cup {record'} /\ record' \in Records
      /\ UNCHANGED <<call, pc, attempt, effects, answer, result, state>>
      /\ budget' \in Budget
  BY DEF Change, Spend, Inv, TypeOK, Budget, Removed, Records
<1>2. Honest(answer)' /\ EffectIsSeen'
  BY <1>1, MoreSeen
<1> QED
  BY <1>1, <1>2, SeenGrows DEF Inv, TypeOK, Records

LEMMA StepInv == Inv /\ [Next]_vars => Inv'
<1> SUFFICES ASSUME Inv, [Next]_vars PROVE Inv'
  OBVIOUS
<1>1. CASE UNCHANGED vars
  BY <1>1 DEF vars, Inv, TypeOK, Honest, EffectIsSeen, DropIsJustified, StoredIsReal, SaysGone,
     Misleads, method
<1>2. CASE Next
  BY <1>2, StartInv, ReceiveInv, TimeOutInv, ExecuteInv, IntrudeInv, ChangeInv
     DEF Next, ClientStep
<1> QED
  BY <1>1, <1>2

LEMMA Invariance == Spec => []Inv
BY InitInv, StepInv, PTL DEF Spec

-----------------------------------------------------------------------------

\* Whatever the answers, the variables have their types: in particular the
\* attempts are counted up to MaxAttempts.
THEOREM AnswerLoopTypes == Spec => []TypeOK
<1>1. Inv => TypeOK
  BY DEF Inv
<1> QED
  BY <1>1, Invariance, PTL

\* No resource is dropped from the state but for a record that was gone or a
\* stranger that said so.
THEOREM DropsAreJustified == Spec => []DropIsJustified
<1>1. Inv => DropIsJustified
  BY DEF Inv
<1> QED
  BY <1>1, Invariance, PTL

\* Nothing is stored that is not Pulse's answer about an active record.
THEOREM WhatIsStoredIsReal == Spec => []StoredIsReal
<1>1. Inv => StoredIsReal
  BY DEF Inv
<1> QED
  BY <1>1, Invariance, PTL

-----------------------------------------------------------------------------
(* What Pulse's own answers look like, after the link may have cut them,   *)
(* and what has happened when one shows the record that was asked for.     *)

Refusals ==
    Limits \cup {NotFound, Pulse(403, "permission_denied"), Pulse(422, "validation_failed")}
    \cup {Pulse(409, code) : code \in {"already_exists", "stale_revision", "secret_reissue_required"}}
Sayings ==
    Refusals \cup IF method = "delete" THEN {Deleted} ELSE {Whole("record"), Whole("archived")}
Wordings == Sayings \cup UNION {Damaged(a) : a \in Sayings \ {Deleted}}

WordInv ==
    answer.from = "pulse" =>
        /\ answer \in Wordings
        /\ answer.body = "record" /\ method \in {"create", "update"} => effects = 1

LEMMA Sayable ==
    ASSUME NEW a \in Sayings
    PROVE  /\ a \in Refusals =>
                  /\ a.body = "object" /\ ~Success(a) /\ a.status \in {403, 404, 409, 422, 429, 503}
                  /\ a \in Limits <=> Retryable(a)
           /\ a \notin Refusals =>
                  /\ a.code = "none"
                  /\ \/ method = "delete" /\ a = Deleted
                     \/ method # "delete" /\ a.status = 200 /\ a.body \in {"record", "archived"}
           /\ a.from = "pulse"
<1> USE DEF Refusals, Limits, Pulse, Answer, NotFound
<1>1. CASE a \in Refusals
  BY <1>1 DEF Success, Retryable, Code
<1>2. CASE a \notin Refusals
  BY <1>2 DEF Sayings, Deleted, Whole
<1> QED
  BY <1>1, <1>2

\* Cutting short again what was cut short makes nothing new.
LEMMA CutsAreWordings ==
    ASSUME NEW a \in Wordings, a # Deleted, NEW b \in Damaged(a)
    PROVE  b \in Wordings /\ b.body # "record"
<1>1. PICK said \in Sayings :
          /\ said # Deleted
          /\ \/ a = said
             \/ \E body \in {"cut", "reset", "empty"} :
                    a = [said EXCEPT !.body = body] /\ (body = "empty" => Success(said))
  BY DEF Wordings, Damaged
<1>2. PICK body \in {"cut", "reset", "empty"} :
          b = [a EXCEPT !.body = body] /\ (body = "empty" => Success(a))
  BY DEF Damaged
<1>3. said = [from |-> said.from, status |-> said.status, code |-> said.code, body |-> said.body]
  BY DEF Sayings, Refusals, Limits, Pulse, NotFound, Deleted, Whole, Answer
<1>4. b = [said EXCEPT !.body = body] /\ (body = "empty" => Success(said)) /\ b.body = body
  BY <1>1, <1>2, <1>3 DEF Success
<1>5. b \in Damaged(said)
  BY <1>4 DEF Damaged
<1> QED
  BY <1>1, <1>4, <1>5 DEF Wordings

LEMMA SaysWordings ==
    ASSUME Inv, NEW outcome \in Refused \cup IF effects = 0 THEN Executed ELSE Repeated
    PROVE  /\ outcome.answer \in Sayings
           /\ outcome.answer.body = "record" /\ method \in {"create", "update"} =>
                  effects + outcome.done = 1
<1> USE DEF Says, Does, Sayings, Refusals
<1>1. method \in Methods /\ effects \in {0, 1}
  BY CallFields DEF Inv, TypeOK
<1>2. \A a \in Refusals : a.body # "record"
  BY DEF Limits, Pulse, NotFound, Answer
<1>3. CASE outcome \in Refused
  <2>1. outcome.answer \in Refusals
    BY <1>3 DEF Refused
  <2> QED
    BY <1>2, <2>1
<1>4. CASE effects = 0 /\ outcome \in Executed
  <2>1. \/ outcome.answer \in Refusals
        \/ method = "delete" /\ outcome.answer = Deleted
        \/ method # "delete" /\ outcome.answer \in {Whole("record"), Whole("archived")}
    BY <1>1, <1>4 DEF Executed, Reads, Creates, Changes, Methods
  <2>2. outcome.answer \in Refusals \/ outcome.done = 1 \/ method = "read"
    BY <1>1, <1>4 DEF Executed, Reads, Creates, Changes, Methods
  <2> QED
    BY <1>2, <1>4, <2>1, <2>2
<1>5. CASE effects = 1 /\ outcome \in Repeated
  <2>1. outcome.done = 0 /\ outcome.answer \in Sayings
    BY <1>5 DEF Repeated
  <2> QED
    BY <1>5, <2>1
<1> QED
  BY <1>1, <1>3, <1>4, <1>5

LEMMA WordStep == Inv /\ WordInv /\ [Next]_vars => WordInv'
<1> SUFFICES ASSUME Inv, WordInv, [Next]_vars PROVE WordInv'
  OBVIOUS
<1>1. CASE UNCHANGED <<call, effects, answer>>
  BY <1>1 DEF WordInv, Wordings, Sayings, Refusals, Limits, Damaged, method
<1>2. CASE answer' = NoAnswer
  BY <1>2, AnswerTypes DEF WordInv
<1>3. CASE Execute
  <2>1. PICK outcome \in Refused \cup IF effects = 0 THEN Executed ELSE Repeated :
            effects' = effects + outcome.done /\ answer' = outcome.answer
    BY <1>3 DEF Execute
  <2>2. call' = call
    BY <1>3 DEF Execute
  <2>3. answer' \in Wordings
    BY <2>1, SaysWordings DEF Wordings
  <2>4. Wordings' = Wordings /\ method' = method
    BY <2>2 DEF Wordings, Sayings, method
  <2> QED
    BY <2>1, <2>3, <2>4, SaysWordings DEF WordInv
<1>4. CASE Intrude
  <2>1. UNCHANGED <<call, effects>>
    BY <1>4 DEF Intrude
  <2>2. Wordings' = Wordings /\ method' = method
    BY <2>1 DEF Wordings, Sayings, method
  <2>3. CASE answer' \in Outages \cup LastingOutages \cup Strangers
    BY <2>3, AnswerTypes DEF WordInv
  <2>4. CASE answer.from = "pulse" /\ answer # Deleted /\ answer' \in Damaged(answer)
    BY <2>2, <2>4, CutsAreWordings DEF WordInv
  <2> QED
    BY <1>4, <2>3, <2>4 DEF Intrude
<1> QED
  BY <1>1, <1>2, <1>3, <1>4
     DEF Next, ClientStep, Start, Receive, RepeatOrFinish, Repeat, Finish, TimeOut, Change, vars

LEMMA WordInvariance == Spec => [](Inv /\ WordInv)
<1>1. Init => WordInv
  BY AnswerTypes DEF Init, WordInv
<1> QED
  BY <1>1, InitInv, StepInv, WordStep, PTL DEF Spec

\* Trying again is what the loop does with just the short troubles.
LEMMA OnlyShortTroublesAreRepeated ==
    ASSUME Inv, WordInv, answer # NoAnswer
    PROVE  TriesAgain(answer) <=> ShortTrouble(answer)
<1>1. answer \in Answers /\ Honest(answer)
  BY DEF Inv
<1> USE DEF TriesAgain, EndsEarly, ReadFails, Refusal, Unread
<1>2. CASE answer.from = "pulse"
  <2>1. answer \in Wordings
    BY <1>2 DEF WordInv
  <2>2. CASE answer \in Sayings
    <3>1. CASE answer \in Refusals
      <4>1. /\ answer.body = "object" /\ ~Success(answer)
            /\ answer \in Limits <=> Retryable(answer)
        BY <2>2, <3>1, Sayable
      <4>2. answer \notin Outages
        BY <1>2, AnswerTypes
      <4> QED
        BY <4>1, <4>2 DEF ShortTrouble
    <3>2. CASE answer \notin Refusals
      <4>1. \/ method = "delete" /\ answer = Deleted
            \/ method # "delete" /\ answer.status = 200 /\ answer.body \in {"record", "archived"}
        BY <2>2, <3>2, Sayable
      <4>2. answer \notin Limits \cup Outages
        BY <1>2, <3>2, AnswerTypes DEF Refusals
      <4>3. Success(answer)
        BY <4>1 DEF Success, Deleted, Answer
      <4> QED
        BY <4>1, <4>2, <4>3 DEF ShortTrouble
    <3> QED
      BY <3>1, <3>2
  <2>3. ASSUME NEW said \in Sayings, said # Deleted, answer \in Damaged(said)
        PROVE  TriesAgain(answer) <=> ShortTrouble(answer)
    <3>1. PICK body \in {"cut", "reset"} \cup IF Success(said) THEN {"empty"} ELSE {} :
              answer = [said EXCEPT !.body = body]
      BY <2>3 DEF Damaged
    <3>2. /\ answer.status = said.status /\ answer.body \in {"cut", "reset", "empty"}
          /\ Success(answer) <=> Success(said)
          /\ answer.body = "empty" => Success(answer)
      BY <3>1, <1>1 DEF Success, Answers
    <3>3. Success(said) => said.status = 200 /\ method # "delete"
      BY <2>3, Sayable
    <3>4. CASE answer.body \in {"cut", "empty"}
      BY <1>2, <3>2, <3>3, <3>4 DEF ShortTrouble, Deleted, Answer
    <3>5. CASE answer.body = "reset"
      <4>1. answer \notin Limits \cup Outages
        BY <1>2, <3>5, AnswerTypes
      <4> QED
        BY <3>2, <3>3, <3>5, <4>1 DEF ShortTrouble
    <3> QED
      BY <3>2, <3>4, <3>5
  <2> QED
    BY <2>1, <2>2, <2>3 DEF Wordings
<1>3. CASE answer.from = "gateway"
  <2>1. CASE answer \in Outages
    BY <2>1 DEF Outages, Answer, ShortTrouble, Success, Retryable
  <2>2. CASE answer \in LastingOutages
    BY <2>2 DEF LastingOutages, Outages, Limits, Pulse, Answer, ShortTrouble, Success
  <2> QED
    BY <1>1, <1>3, <2>1, <2>2 DEF Honest
<1>4. CASE answer.from = "stranger"
  <2>1. answer \in Strangers
    BY <1>1, <1>4 DEF Honest
  <2>2. ~ShortTrouble(answer)
    BY <1>4, AnswerTypes DEF ShortTrouble, Limits, Pulse, Answer
  <2>3. /\ answer.status \in {200, 204, 302, 403, 404} /\ answer.body \in {"page", "object", "empty"}
        /\ answer.code \in {"none", "forbidden", "resource_not_found"}
        /\ answer.body = "empty" => answer.status = 204
    BY <2>1 DEF Strangers, Answer
  <2> QED
    BY <2>2, <2>3 DEF Success, Retryable, Code, fallbackErrorCode
<1> QED
  BY <1>1, <1>2, <1>3, <1>4 DEF Answers, Honest

\* Whatever the answers, in whatever order: the client sends again on short
\* troubles only, and on every one that arrives in time while attempts are left.
THEOREM ShortTroublesAreRepeated == Spec => RetriesShortTroubles
<1>1. Inv /\ WordInv /\ [Next]_vars =>
          [/\ pc = "waiting" /\ attempt' # attempt => ShortTrouble(answer)
           /\ Receive /\ ShortTrouble(answer) /\ attempt < MaxAttempts => attempt' # attempt]_vars
  <2> SUFFICES ASSUME Inv, WordInv, Next
               PROVE  /\ pc = "waiting" /\ attempt' # attempt => ShortTrouble(answer)
                      /\ Receive /\ ShortTrouble(answer) /\ attempt < MaxAttempts => attempt' # attempt
    OBVIOUS
  <2>1. Receive => (TriesAgain(answer) <=> ShortTrouble(answer))
    BY OnlyShortTroublesAreRepeated DEF Receive
  <2>2. attempt \in Int
    BY AnswersAssumption DEF Inv, TypeOK
  <2>3. ASSUME Receive, attempt' # attempt PROVE TriesAgain(answer)
    BY <2>3 DEF Receive, RepeatOrFinish, Finish
  <2>4. ASSUME pc = "waiting", attempt' # attempt PROVE Receive
    BY <2>4 DEF Next, ClientStep, Start, TimeOut, Finish, Execute, Intrude, Change
  <2>5. ASSUME Receive, TriesAgain(answer), attempt < MaxAttempts PROVE attempt' # attempt
    BY <2>2, <2>5 DEF Receive, RepeatOrFinish, Repeat
  <2> QED
    BY <2>1, <2>3, <2>4, <2>5
<1> QED
  BY <1>1, WordInvariance, PTL DEF Spec, RetriesShortTroubles

-----------------------------------------------------------------------------
(* The typed methods implement the safety part of RemoteCall for creations *)
(* and updates, step by step.                                              *)

\* Only the call itself moves; ending it closes it with its outcome.
LEMMA EndingCloses ==
    ASSUME Inv, pc = "waiting", NEW ended, NEW becomes, Finish(ended, becomes),
           UNCHANGED <<call, effects>>
    PROVE  /\ call \in Calls /\ [c \in Calls |-> Phase(c)][call] = "open"
           /\ [c \in Calls |-> Phase(c)]' = [[c \in Calls |-> Phase(c)] EXCEPT ![call] = "closed"]
           /\ [c \in Calls |-> IF c = call THEN result ELSE "none"]' =
                  [[c \in Calls |-> IF c = call THEN result ELSE "none"] EXCEPT ![call] = ended]
           /\ UNCHANGED [c \in Calls |-> IF c = call /\ c \in Trusted THEN effects ELSE 0]
<1>1. call \in Calls
  BY DEF Inv, TypeOK
<1>2. UNCHANGED call /\ pc' = "done" /\ result' = ended
  BY DEF Finish
<1>3. \A c \in Calls : Phase(c)' = IF c = call THEN "closed" ELSE Phase(c)
  BY <1>2 DEF Phase
<1> QED
  BY <1>1, <1>2, <1>3 DEF Phase, Trusted

LEMMA EndingInAnErrorFails ==
    ASSUME Inv, pc = "waiting", NEW becomes,
           NEW failure \in {"response", "transport", "decode", "contract"},
           Finish(failure, becomes), UNCHANGED <<call, effects>>
    PROVE  Contract!Next
<1>1. PICK c \in Calls : c = call
  BY DEF Inv, TypeOK
<1>2. Contract!Fail(c)
  BY <1>1, EndingCloses DEF Contract!Fail
<1> QED
  BY <1>2 DEF Contract!Next

\* A creation or an update that keeps the contract has been executed.
LEMMA KeptIsExecuted ==
    ASSUME Inv, WordInv, answer # NoAnswer, KeepsContract(answer), call \in Trusted
    PROVE  effects = 1
<1>1. method \in {"create", "update"} /\ Success(answer) /\ answer.body = "record"
  BY DEF Trusted, method, KeepsContract
<1>2. answer \in Answers /\ Honest(answer)
  BY DEF Inv
<1>3. answer.from # "gateway"
  BY <1>1, <1>2, GatewaysOnlyFail DEF Honest
<1>4. answer.from # "stranger"
  BY <1>1, <1>2 DEF Honest, Strangers, Answer
<1>5. answer.from = "pulse"
  BY <1>2, <1>3, <1>4 DEF Answers, Honest
<1> QED
  BY <1>1, <1>5 DEF WordInv

LEMMA ReceiveEndsOrRepeats ==
    ASSUME Inv, WordInv, Receive
    PROVE  Contract!Next \/ UNCHANGED Contract!vars
<1>1. pc = "waiting" /\ answer # NoAnswer /\ UNCHANGED <<call, effects>> /\ call \in Calls
  BY DEF Receive, Inv, TypeOK
<1>2. CASE Repeat
  <2>1. \A c \in Calls : Phase(c)' = Phase(c)
    BY <1>1, <1>2 DEF Repeat, Phase
  <2> QED
    BY <1>1, <1>2, <2>1 DEF Repeat, Contract!vars, Trusted
<1>3. CASE Finish(Returned(answer), BecomesOf(answer))
  <2>1. CASE KeepsContract(answer)
    <3>1. Finish("ok", BecomesOf(answer))
      BY <1>3, <2>1 DEF Returned
    <3>2. call \in Trusted => [c \in Calls |-> IF c = call /\ c \in Trusted THEN effects ELSE 0][call] = 1
      BY <1>1, <2>1, KeptIsExecuted
    <3>3. PICK c \in Calls : c = call
      BY <1>1
    <3>4. Contract!Succeed(c)
      BY <1>1, <3>1, <3>2, <3>3, EndingCloses DEF Contract!Succeed
    <3> QED
      BY <3>4 DEF Contract!Next
  <2>2. CASE ~KeepsContract(answer)
    <3>1. Returned(answer) \in {"response", "transport", "decode", "contract"}
      BY <2>2 DEF Returned
    <3> QED
      BY <1>1, <1>3, <3>1, EndingInAnErrorFails
  <2> QED
    BY <2>1, <2>2
<1> QED
  BY <1>2, <1>3 DEF Receive, RepeatOrFinish

LEMMA ExecuteAppliesOnce ==
    ASSUME Inv, Execute
    PROVE  Contract!Next \/ UNCHANGED Contract!vars
<1>1. /\ pc = "waiting" /\ call \in Calls /\ effects \in {0, 1}
      /\ UNCHANGED <<call, pc, result>>
  BY DEF Execute, Inv, TypeOK
<1>2. PICK outcome \in Refused \cup IF effects = 0 THEN Executed ELSE Repeated :
          effects' = effects + outcome.done
  BY DEF Execute
<1>3. outcome.done = 0 \/ (outcome.done = 1 /\ effects = 0)
  <2>1. CASE outcome \in Refused
    BY <2>1 DEF Refused, Says
  <2>2. CASE effects = 0 /\ outcome \in Executed
    <3>1. method \in Methods
      BY CallFields DEF Inv, TypeOK
    <3> QED
      BY <2>2, <3>1 DEF Executed, Methods, Reads, Creates, Changes, Says, Does
  <2>3. CASE outcome \in Repeated
    BY <2>3 DEF Repeated, Says
  <2> QED
    BY <1>1, <2>1, <2>2, <2>3
<1>4. /\ UNCHANGED [c \in Calls |-> Phase(c)]
      /\ UNCHANGED [c \in Calls |-> IF c = call THEN result ELSE "none"]
  BY <1>1 DEF Phase
<1>5. CASE effects' = effects \/ call \notin Trusted
  BY <1>1, <1>4, <1>5 DEF Contract!vars, Trusted
<1>6. CASE effects = 0 /\ effects' = 1 /\ call \in Trusted
  <2>1. /\ [c \in Calls |-> Phase(c)][call] # "idle"
        /\ [c \in Calls |-> IF c = call /\ c \in Trusted THEN effects ELSE 0][call] = 0
        /\ [c \in Calls |-> IF c = call /\ c \in Trusted THEN effects ELSE 0]' =
               [[c \in Calls |-> IF c = call /\ c \in Trusted THEN effects ELSE 0] EXCEPT ![call] = 1]
    BY <1>1, <1>6 DEF Phase, Trusted
  <2>2. PICK c \in Calls : c = call
    BY <1>1
  <2>3. Contract!Apply(c)
    BY <1>4, <1>6, <2>1, <2>2 DEF Contract!Apply
  <2> QED
    BY <2>3 DEF Contract!Next
<1> QED
  BY <1>1, <1>2, <1>3, <1>5, <1>6

\* For any number of attempts, of changes by others and of strangers' answers:
\* who creates or updates may rely on RemoteCall.
THEOREM AnswersImplementContract == Spec => Contract!Spec
<1>1. Init => Contract!Init
  <2> SUFFICES ASSUME Init PROVE Contract!Init
    OBVIOUS
  <2>1. pc = "idle" /\ effects = 0 /\ result = "none"
    BY DEF Init
  <2> QED
    BY <2>1 DEF Contract!Init, Phase
<1>2. Inv /\ WordInv /\ [Next]_vars => [Contract!Next]_(Contract!vars)
  <2> SUFFICES ASSUME Inv, WordInv, [Next]_vars
               PROVE  Contract!Next \/ UNCHANGED Contract!vars
    OBVIOUS
  <2>0. call \in Calls
    BY DEF Inv, TypeOK
  <2>1. CASE Start
    <3>1. /\ pc = "idle" /\ pc' = "waiting" /\ UNCHANGED <<call, effects, result>>
      BY <2>1 DEF Start
    <3>2. [c \in Calls |-> Phase(c)]' = [[c \in Calls |-> Phase(c)] EXCEPT ![call] = "open"]
      BY <2>0, <3>1 DEF Phase
    <3>3. PICK c \in Calls : c = call
      BY <2>0
    <3>4. Contract!Invoke(c)
      BY <3>1, <3>2, <3>3 DEF Contract!Invoke, Phase, Trusted
    <3> QED
      BY <3>4 DEF Contract!Next
  <2>2. CASE Receive
    BY <2>2, ReceiveEndsOrRepeats
  <2>3. CASE TimeOut
    BY <2>3, EndingInAnErrorFails DEF TimeOut
  <2>4. CASE Execute
    BY <2>4, ExecuteAppliesOnce
  <2>5. CASE UNCHANGED <<call, pc, effects, result>>
    <3>1. \A c \in Calls : Phase(c)' = Phase(c)
      BY <2>5 DEF Phase
    <3> QED
      BY <2>5, <3>1 DEF Contract!vars, Trusted
  <2> QED
    BY <2>1, <2>2, <2>3, <2>4, <2>5 DEF Next, ClientStep, Intrude, Change, vars
<1> QED
  BY <1>1, <1>2, WordInvariance, PTL DEF Spec, Contract!Spec
=============================================================================
