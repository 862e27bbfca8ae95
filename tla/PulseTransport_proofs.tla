----------------------- MODULE PulseTransport_proofs -----------------------
(***************************************************************************)
(* Proofs about PulseTransport, for every set of calls and every retry     *)
(* configuration the client accepts.                                       *)
(***************************************************************************)
EXTENDS PulseTransport, TLAPS

Inv == TypeOK /\ EffectsAreAccountedFor

(* What follows every failed attempt: the call sleeps with an attempt to   *)
(* spare, and it carries a key or is a read, or it ends with the error.    *)
LEMMA RetryOrFinishCases ==
    ASSUME NEW c \in Calls, NEW retryable, NEW after, NEW failure,
           RetryOrFinish(c, retryable, after, failure)
    PROVE  \/ /\ Kind[c] # "unkeyed"
              /\ attempt[c] < MaxAttempts
              /\ pc' = [pc EXCEPT ![c] = "asleep"]
              /\ asked' = [asked EXCEPT ![c] = after]
              /\ UNCHANGED <<attempt, result>>
           \/ /\ pc' = [pc EXCEPT ![c] = "done"]
              /\ result' = [result EXCEPT ![c] = failure]
              /\ UNCHANGED <<attempt, asked>>
BY Zenon DEF RetryOrFinish, Sleep, Finish, ReplaySafe

(* Every step of the call itself that ends an attempt is one of these two. *)
FailsOrFinishes(c) ==
    \/ \E after \in RetryAfters \cup {0} :
          /\ Kind[c] # "unkeyed"
          /\ attempt[c] < MaxAttempts
          /\ pc' = [pc EXCEPT ![c] = "asleep"]
          /\ asked' = [asked EXCEPT ![c] = after]
          /\ UNCHANGED <<attempt, result>>
    \/ \E failure \in {"refused", "transport", "decode", "context"} :
          /\ pc' = [pc EXCEPT ![c] = "done"]
          /\ result' = [result EXCEPT ![c] = failure]
          /\ UNCHANGED <<attempt, asked>>

(* An attempt that does not succeed retries or returns an error.           *)
LEMMA FailureCases ==
    ASSUME TypeOK, NEW c \in Calls,
           TransportFailure(c) \/ ErrorResponse(c) \/ DecodeFailure(c)
    PROVE  /\ FailsOrFinishes(c)
           /\ pc[c] = "inflight"
           /\ UNCHANGED <<cancelled, wire, reply, ledger, effects>>
<1>1. CASE TransportFailure(c)
  <2>1. PICK retryable \in BOOLEAN : RetryOrFinish(c, retryable, 0, "transport")
    BY <1>1 DEF TransportFailure, TypeOK
  <2> QED
    BY <1>1, <2>1, RetryOrFinishCases DEF TransportFailure, FailsOrFinishes, pulse
<1>2. CASE ErrorResponse(c)
  <2>1. reply[c].after \in RetryAfters \cup {0}
    BY DEF TypeOK, Replies
  <2>2. RetryOrFinish(c, reply[c].kind = "unavailable", reply[c].after, "refused")
    BY <1>2 DEF ErrorResponse
  <2> QED
    BY <1>2, <2>1, <2>2, RetryOrFinishCases DEF ErrorResponse, FailsOrFinishes, pulse
<1>3. CASE DecodeFailure(c)
  <2>1. PICK incomplete \in BOOLEAN : RetryOrFinish(c, incomplete, 0, "decode")
    BY <1>3 DEF DecodeFailure
  <2> QED
    BY <1>3, <2>1, RetryOrFinishCases DEF DecodeFailure, FailsOrFinishes, pulse
<1> QED
  BY <1>1, <1>2, <1>3

-----------------------------------------------------------------------------
(* The invariant holds initially.                                          *)
LEMMA InitInv == Init => Inv
<1> SUFFICES ASSUME Init PROVE Inv
  OBVIOUS
<1> USE RetryAssumption, CallsAssumption
<1>1. TypeOK
  BY DEF Init, TypeOK, Outcomes, Replies, NoReply
<1>2. EffectsAreAccountedFor
  BY DEF Init, EffectsAreAccountedFor, LedgerAccount, UnkeyedAccount,
         AnswerAccount, LoopAccount, NoReply, Accounted
<1> QED
  BY <1>1, <1>2 DEF Inv

(* The account of a call depends on the call's own entries only.           *)
LEMMA Frame ==
    ASSUME NEW d \in Calls, Accounted(d),
           pc'[d] = pc[d], attempt'[d] = attempt[d], result'[d] = result[d],
           reply'[d] = reply[d], effects'[d] = effects[d],
           \A n \in 1..MaxAttempts : <<d, n>> \in wire' <=> <<d, n>> \in wire,
           <<d, 0>> \in ledger' <=> <<d, 0>> \in ledger
    PROVE  Accounted(d)'
<1>1. LedgerAccount(d)' /\ AnswerAccount(d)'
  BY DEF Accounted, LedgerAccount, AnswerAccount
<1>2. LoopAccount(d)'
  BY DEF Accounted, LoopAccount
<1>3. UnkeyedAccount(d)'
  BY RetryAssumption DEF Accounted, UnkeyedAccount
<1> QED
  BY <1>1, <1>2, <1>3 DEF Accounted

(* Entering the loop.                                                      *)
LEMMA StartInv ==
    ASSUME Inv, NEW c \in Calls, Start(c)
    PROVE  Inv'
<1> USE RetryAssumption, CallsAssumption DEF Inv
<1>1. TypeOK'
  BY DEF Start, TypeOK, pulse
<1>2. ASSUME NEW d \in Calls, d # c
      PROVE  Accounted(d)'
  <2> Accounted(d)
    BY DEF EffectsAreAccountedFor
  <2> QED
    BY <1>2, Frame DEF Start, TypeOK, pulse
<1>3. Accounted(c)'
  <2> Accounted(c)
    BY DEF EffectsAreAccountedFor
  <2>1. LedgerAccount(c)' /\ AnswerAccount(c)'
    BY DEF Start, TypeOK, pulse, Accounted, LedgerAccount, AnswerAccount
  <2>2. UnkeyedAccount(c)'
    BY DEF Start, TypeOK, pulse, Accounted, UnkeyedAccount, LoopAccount
  <2>3. LoopAccount(c)'
    BY DEF Start, TypeOK, pulse, Accounted, LoopAccount
  <2> QED
    BY <2>1, <2>2, <2>3 DEF Accounted
<1> QED
  BY <1>1, <1>2, <1>3 DEF EffectsAreAccountedFor

(* Sending: a call without a key sends once.                               *)
LEMMA SendInv ==
    ASSUME Inv, NEW c \in Calls, Send(c)
    PROVE  Inv'
<1> USE RetryAssumption, CallsAssumption DEF Inv
<1>0. attempt[c] \in 1..MaxAttempts
  <2>1. attempt[c] \in 0..MaxAttempts
    BY DEF TypeOK
  <2>2. LoopAccount(c) /\ UnkeyedAccount(c)
    BY DEF EffectsAreAccountedFor, Accounted
  <2> QED
    BY <2>1, <2>2 DEF Send, LoopAccount, UnkeyedAccount
<1>1. TypeOK'
  BY <1>0 DEF Send, TypeOK, pulse, Replies, NoReply
<1>2. ASSUME NEW d \in Calls, d # c
      PROVE  Accounted(d)'
  <2> Accounted(d)
    BY DEF EffectsAreAccountedFor
  <2> QED
    BY <1>2, Frame DEF Send, TypeOK, pulse
<1>3. Accounted(c)'
  <2> Accounted(c)
    BY DEF EffectsAreAccountedFor
  <2>1. LedgerAccount(c)' /\ AnswerAccount(c)'
    BY <1>0 DEF Send, TypeOK, pulse, Accounted, LedgerAccount, AnswerAccount, NoReply
  <2>2. UnkeyedAccount(c)'
    BY <1>0 DEF Send, TypeOK, pulse, Accounted, UnkeyedAccount, LoopAccount
  <2>3. LoopAccount(c)'
    BY <1>0 DEF Send, TypeOK, pulse, Accounted, LoopAccount
  <2> QED
    BY <2>1, <2>2, <2>3 DEF Accounted
<1> QED
  BY <1>1, <1>2, <1>3 DEF EffectsAreAccountedFor

(* Sending with the context done.                                          *)
LEMMA SendCancelledInv ==
    ASSUME Inv, NEW c \in Calls, SendCancelled(c)
    PROVE  Inv'
<1> USE RetryAssumption, CallsAssumption DEF Inv
<1>1. TypeOK'
  BY DEF SendCancelled, Finish, TypeOK, pulse, Outcomes
<1>2. ASSUME NEW d \in Calls, d # c
      PROVE  Accounted(d)'
  <2> Accounted(d)
    BY DEF EffectsAreAccountedFor
  <2> QED
    BY <1>2, Frame DEF SendCancelled, Finish, TypeOK, pulse
<1>3. Accounted(c)'
  <2> Accounted(c)
    BY DEF EffectsAreAccountedFor
  <2>1. LedgerAccount(c)' /\ AnswerAccount(c)'
    BY DEF SendCancelled, Finish, TypeOK, pulse, Accounted, LedgerAccount, AnswerAccount
  <2>2. UnkeyedAccount(c)'
    BY DEF SendCancelled, Finish, TypeOK, pulse, Accounted, UnkeyedAccount, LoopAccount
  <2>3. LoopAccount(c)'
    BY DEF SendCancelled, Finish, TypeOK, pulse, Accounted, LoopAccount
  <2> QED
    BY <2>1, <2>2, <2>3 DEF Accounted
<1> QED
  BY <1>1, <1>2, <1>3 DEF EffectsAreAccountedFor

(* The next attempt: only a call that is safe to replay has one.           *)
LEMMA WakeInv ==
    ASSUME Inv, NEW c \in Calls, Wake(c)
    PROVE  Inv'
<1> USE RetryAssumption, CallsAssumption DEF Inv
<1>0. attempt[c] \in 1..(MaxAttempts - 1) /\ Kind[c] # "unkeyed"
  <2>1. attempt[c] \in 0..MaxAttempts
    BY DEF TypeOK
  <2>2. LoopAccount(c) /\ UnkeyedAccount(c)
    BY DEF EffectsAreAccountedFor, Accounted
  <2> QED
    BY <2>1, <2>2 DEF Wake, LoopAccount, UnkeyedAccount
<1>1. TypeOK'
  BY <1>0 DEF Wake, TypeOK, pulse
<1>2. ASSUME NEW d \in Calls, d # c
      PROVE  Accounted(d)'
  <2> Accounted(d)
    BY DEF EffectsAreAccountedFor
  <2> QED
    BY <1>2, Frame DEF Wake, TypeOK, pulse
<1>3. Accounted(c)'
  <2> Accounted(c)
    BY DEF EffectsAreAccountedFor
  <2>1. LedgerAccount(c)' /\ AnswerAccount(c)'
    BY <1>0 DEF Wake, TypeOK, pulse, Accounted, LedgerAccount, AnswerAccount
  <2>2. UnkeyedAccount(c)'
    BY <1>0 DEF Wake, TypeOK, pulse, Accounted, UnkeyedAccount, LoopAccount
  <2>3. LoopAccount(c)'
    BY <1>0 DEF Wake, TypeOK, pulse, Accounted, LoopAccount
  <2> QED
    BY <2>1, <2>2, <2>3 DEF Accounted
<1> QED
  BY <1>1, <1>2, <1>3 DEF EffectsAreAccountedFor

(* A cancelled sleep.                                                      *)
LEMMA SleepCancelledInv ==
    ASSUME Inv, NEW c \in Calls, SleepCancelled(c)
    PROVE  Inv'
<1> USE RetryAssumption, CallsAssumption DEF Inv
<1>1. TypeOK'
  BY DEF SleepCancelled, Finish, TypeOK, pulse, Outcomes
<1>2. ASSUME NEW d \in Calls, d # c
      PROVE  Accounted(d)'
  <2> Accounted(d)
    BY DEF EffectsAreAccountedFor
  <2> QED
    BY <1>2, Frame DEF SleepCancelled, Finish, TypeOK, pulse
<1>3. Accounted(c)'
  <2> Accounted(c)
    BY DEF EffectsAreAccountedFor
  <2>1. LedgerAccount(c)' /\ AnswerAccount(c)'
    BY DEF SleepCancelled, Finish, TypeOK, pulse, Accounted, LedgerAccount, AnswerAccount
  <2>2. UnkeyedAccount(c)'
    BY DEF SleepCancelled, Finish, TypeOK, pulse, Accounted, UnkeyedAccount, LoopAccount
  <2>3. LoopAccount(c)'
    BY DEF SleepCancelled, Finish, TypeOK, pulse, Accounted, LoopAccount
  <2> QED
    BY <2>1, <2>2, <2>3 DEF Accounted
<1> QED
  BY <1>1, <1>2, <1>3 DEF EffectsAreAccountedFor

(* A success is believed, and has been executed.                           *)
LEMMA SuccessInv ==
    ASSUME Inv, NEW c \in Calls, Success(c)
    PROVE  Inv'
<1> USE RetryAssumption, CallsAssumption DEF Inv
<1>1. TypeOK'
  BY DEF Success, Finish, TypeOK, pulse, Outcomes
<1>2. ASSUME NEW d \in Calls, d # c
      PROVE  Accounted(d)'
  <2> Accounted(d)
    BY DEF EffectsAreAccountedFor
  <2> QED
    BY <1>2, Frame DEF Success, Finish, TypeOK, pulse
<1>3. Accounted(c)'
  <2> Accounted(c)
    BY DEF EffectsAreAccountedFor
  <2>1. LedgerAccount(c)' /\ AnswerAccount(c)'
    BY DEF Success, Finish, TypeOK, pulse, Accounted, LedgerAccount, AnswerAccount
  <2>2. UnkeyedAccount(c)'
    BY DEF Success, Finish, TypeOK, pulse, Accounted, UnkeyedAccount, LoopAccount
  <2>3. LoopAccount(c)'
    BY DEF Success, Finish, TypeOK, pulse, Accounted, LoopAccount
  <2> QED
    BY <2>1, <2>2, <2>3 DEF Accounted
<1> QED
  BY <1>1, <1>2, <1>3 DEF EffectsAreAccountedFor

(* A cancellation is noticed later.                                        *)
LEMMA CancelInv ==
    ASSUME Inv, NEW c \in Calls, Cancel(c)
    PROVE  Inv'
<1> USE RetryAssumption, CallsAssumption DEF Inv
<1>1. TypeOK'
  BY DEF Cancel, TypeOK, pulse
<1>2. ASSUME NEW d \in Calls, d # c
      PROVE  Accounted(d)'
  <2> Accounted(d)
    BY DEF EffectsAreAccountedFor
  <2> QED
    BY <1>2, Frame DEF Cancel, TypeOK, pulse
<1>3. Accounted(c)'
  <2> Accounted(c)
    BY DEF EffectsAreAccountedFor
  <2>1. LedgerAccount(c)' /\ AnswerAccount(c)'
    BY DEF Cancel, TypeOK, pulse, Accounted, LedgerAccount, AnswerAccount
  <2>2. UnkeyedAccount(c)'
    BY DEF Cancel, TypeOK, pulse, Accounted, UnkeyedAccount, LoopAccount
  <2>3. LoopAccount(c)'
    BY DEF Cancel, TypeOK, pulse, Accounted, LoopAccount
  <2> QED
    BY <2>1, <2>2, <2>3 DEF Accounted
<1> QED
  BY <1>1, <1>2, <1>3 DEF EffectsAreAccountedFor

(* An attempt that fails: it sleeps, or the call returns an error.         *)
LEMMA FailureInv ==
    ASSUME Inv, NEW c \in Calls,
           TransportFailure(c) \/ ErrorResponse(c) \/ DecodeFailure(c)
    PROVE  Inv'
<1> USE RetryAssumption, CallsAssumption DEF Inv
<1>0. /\ FailsOrFinishes(c)
      /\ pc[c] = "inflight"
      /\ UNCHANGED <<cancelled, wire, reply, ledger, effects>>
  BY FailureCases
<1>1. TypeOK'
  BY <1>0 DEF FailsOrFinishes, TypeOK, Outcomes
<1>2. ASSUME NEW d \in Calls, d # c
      PROVE  Accounted(d)'
  <2> Accounted(d)
    BY DEF EffectsAreAccountedFor
  <2> QED
    BY <1>0, <1>2, Frame DEF FailsOrFinishes, TypeOK
<1>3. Accounted(c)'
  <2> Accounted(c)
    BY DEF EffectsAreAccountedFor
  <2>1. LedgerAccount(c)' /\ AnswerAccount(c)'
    BY <1>0 DEF FailsOrFinishes, TypeOK, Accounted, LedgerAccount, AnswerAccount
  <2>2. UnkeyedAccount(c)'
    BY <1>0 DEF FailsOrFinishes, TypeOK, Accounted, UnkeyedAccount
  <2>3. LoopAccount(c)'
    BY <1>0 DEF FailsOrFinishes, TypeOK, Accounted, LoopAccount
  <2> QED
    BY <2>1, <2>2, <2>3 DEF Accounted
<1> QED
  BY <1>1, <1>2, <1>3 DEF EffectsAreAccountedFor

(* Pulse executes a key once, and a request without a key once.            *)
LEMMA ExecuteInv ==
    ASSUME Inv, NEW c \in Calls, NEW n \in 1..MaxAttempts, Execute(c, n)
    PROVE  Inv'
<1> USE RetryAssumption, CallsAssumption DEF Inv
<1>0. /\ UNCHANGED <<pc, attempt, asked, result, cancelled>>
      /\ <<c, n>> \in wire
      /\ wire' \subseteq wire
      /\ \A d \in Calls, m \in 1..MaxAttempts : d # c => (<<d, m>> \in wire' <=> <<d, m>> \in wire)
      /\ ~ReplaySafe(c) => wire' = wire \ {<<c, n>>}
      /\ reply' \in [Calls -> Replies]
      /\ \A d \in Calls : d # c => reply'[d] = reply[d]
  BY DEF Execute, TypeOK, Taken, Answer, Replies, NoReply, client
<1>1. TypeOK'
  BY <1>0 DEF Execute, TypeOK, IdempotencyKey
<1>2. ASSUME NEW d \in Calls, d # c
      PROVE  Accounted(d)'
  <2>1. effects'[d] = effects[d] /\ (<<d, 0>> \in ledger' <=> <<d, 0>> \in ledger)
    BY <1>2 DEF Execute, TypeOK, IdempotencyKey
  <2>2. Accounted(d)
    BY DEF EffectsAreAccountedFor
  <2> QED
    BY <1>0, <1>2, <2>1, <2>2, Frame
<1>3. Accounted(c)'
  <2>0. Accounted(c)
    BY DEF EffectsAreAccountedFor
  <2>1. LedgerAccount(c)' /\ (Kind[c] = "keyed" => effects'[c] = 1)
    BY <2>0 DEF Execute, TypeOK, IdempotencyKey, Accounted, LedgerAccount
  <2>2. ASSUME Kind[c] = "unkeyed"
        PROVE  UnkeyedAccount(c)' /\ effects'[c] = 1
    <3>1. n = 1
      BY <1>0, <2>0, <2>2 DEF Accounted, UnkeyedAccount, LoopAccount, TypeOK
    <3>2. effects[c] = 0 /\ pc[c] # "idle" /\ pc[c] # "ready"
      BY <1>0, <2>0, <2>2, <3>1 DEF Accounted, UnkeyedAccount, TypeOK
    <3>3. effects'[c] = 1
      BY <2>2, <3>2 DEF Execute, TypeOK
    <3>4. <<c, 1>> \notin wire'
      BY <1>0, <2>2, <3>1 DEF ReplaySafe
    <3> QED
      BY <1>0, <2>0, <2>2, <3>2, <3>3, <3>4 DEF Accounted, UnkeyedAccount
  <2>3. UnkeyedAccount(c)' /\ (Kind[c] = "unkeyed" => effects'[c] = 1)
    BY <2>2 DEF UnkeyedAccount
  <2>4. AnswerAccount(c)'
    <3>1. CASE c \in Mutations
      BY <3>1, <2>1, <2>3 DEF AnswerAccount, Mutations, Kinds
    <3>2. CASE c \notin Mutations
      BY <3>2 DEF AnswerAccount
    <3> QED
      BY <3>1, <3>2
  <2>5. LoopAccount(c)'
    BY <1>0, <2>0 DEF Accounted, LoopAccount
  <2> QED
    BY <2>1, <2>3, <2>4, <2>5 DEF Accounted
<1> QED
  BY <1>1, <1>2, <1>3 DEF EffectsAreAccountedFor

(* A refusal changes no account.                                           *)
LEMMA RefuseInv ==
    ASSUME Inv, NEW c \in Calls, NEW n \in 1..MaxAttempts, Refuse(c, n)
    PROVE  Inv'
<1> USE RetryAssumption, CallsAssumption DEF Inv
<1>1. TypeOK'
  BY DEF Refuse, TypeOK, Answer, Replies, NoReply, client, pulse
<1>2. /\ UNCHANGED <<pc, attempt, asked, result, ledger, effects>>
      /\ wire' \subseteq wire
  BY DEF Refuse, client, pulse
<1>3. ASSUME NEW d \in Calls
      PROVE  reply'[d].kind = "ok" => reply[d].kind = "ok"
  BY DEF Refuse, Answer, TypeOK
<1>4. ASSUME NEW d \in Calls
      PROVE  (LedgerAccount(d) /\ UnkeyedAccount(d) /\ LoopAccount(d))'
  BY <1>2 DEF EffectsAreAccountedFor, Accounted, LedgerAccount, UnkeyedAccount, LoopAccount
<1>5. ASSUME NEW d \in Calls
      PROVE  AnswerAccount(d)'
  BY <1>2, <1>3 DEF EffectsAreAccountedFor, Accounted, AnswerAccount
<1> QED
  BY <1>1, <1>4, <1>5 DEF EffectsAreAccountedFor, Accounted

LEMMA NextInv == Inv /\ [Next]_vars => Inv'
<1> SUFFICES ASSUME Inv, [Next]_vars PROVE Inv'
  OBVIOUS
<1>1. CASE UNCHANGED vars
  BY <1>1 DEF Inv, vars, TypeOK, EffectsAreAccountedFor, Accounted,
              LedgerAccount,
              UnkeyedAccount, AnswerAccount, LoopAccount
<1>2. CASE Next
  <2>1. CASE \E c \in Calls : Start(c) \/ ClientStep(c) \/ Cancel(c)
    BY <2>1, StartInv, SendInv, SendCancelledInv, SuccessInv, FailureInv,
       WakeInv, SleepCancelledInv, CancelInv DEF ClientStep, Returns
  <2>2. CASE \E c \in Calls, n \in 1..MaxAttempts : Execute(c, n) \/ Refuse(c, n)
    BY <2>2, ExecuteInv, RefuseInv
  <2> QED
    BY <1>2, <2>1, <2>2 DEF Next
<1> QED
  BY <1>1, <1>2

(* Requests, keys, effects and answers agree in every reachable state.     *)
THEOREM TransportInvariant == Spec => [](TypeOK /\ EffectsAreAccountedFor)
<1>1. Init => Inv
  BY InitInv
<1>2. Inv /\ [Next]_vars => Inv'
  BY NextInv
<1> QED
  BY <1>1, <1>2, PTL DEF Spec, Inv

(* For every set of calls and every retry configuration: no mutation is    *)
(* executed twice.                                                         *)
THEOREM MutationsApplyOnce == Spec => []AtMostOneEffect
<1>1. Inv => AtMostOneEffect
  <2> SUFFICES ASSUME Inv, NEW c \in Calls PROVE effects[c] <= 1
    BY DEF AtMostOneEffect
  <2>1. LedgerAccount(c) /\ UnkeyedAccount(c) /\ Kind[c] \in Kinds
    BY CallsAssumption DEF Inv, EffectsAreAccountedFor, Accounted
  <2> QED
    BY <2>1 DEF LedgerAccount, UnkeyedAccount, Kinds
<1> QED
  BY <1>1, TransportInvariant, PTL DEF Inv

(* For every set of calls and every retry configuration: what is reported  *)
(* as done has been done.                                                  *)
THEOREM SuccessIsReal == Spec => []SuccessWasExecuted
<1>1. Inv => SuccessWasExecuted
  BY DEF Inv, EffectsAreAccountedFor, Accounted, AnswerAccount, SuccessWasExecuted, Mutations
<1> QED
  BY <1>1, TransportInvariant, PTL DEF Inv

(* Whatever the calls do, the variables have their types: in particular    *)
(* the attempts of a call are counted up to MaxAttempts.                   *)
THEOREM TransportTypes == Spec => []TypeOK
BY TransportInvariant, PTL

-----------------------------------------------------------------------------
(* The doubling loop: Backoff is the function Doubling leaves fixed.  Its   *)
(* domain is the ten attempts a configuration may ask for, so that its      *)
(* values follow one from the other without an induction.                   *)

Doubling(f) ==
    [n \in 1..10 |->
        IF n = 1 THEN MinDelay
        ELSE LET previous == f[n - 1]
             IN  IF previous >= MaxDelay THEN previous
                 ELSE IF previous > MaxDelay \div 2 THEN MaxDelay
                 ELSE 2 * previous]
Power(exponent) == 2^exponent
Exponential(n) == MinDelay * Power(n - 1)
Bounded(delay) == IF delay > MaxDelay THEN MaxDelay ELSE delay
Closed == [n \in 1..10 |-> Bounded(Exponential(n))]

LEMMA Powers ==
    /\ Power(0) = 1
    /\ \A n \in 1..10 : Power(n - 1) \in Nat \ {0}
    /\ \A n \in 2..10 : Power(n - 1) = 2 * Power(n - 1 - 1)
<1>1. /\ Power(0) = 1 /\ Power(1) = 2 /\ Power(2) = 4 /\ Power(3) = 8 /\ Power(4) = 16
      /\ Power(5) = 32 /\ Power(6) = 64 /\ Power(7) = 128 /\ Power(8) = 256 /\ Power(9) = 512
  BY DEF Power
<1> QED
  BY <1>1

LEMMA ExponentialDoubles ==
    /\ Exponential(1) = MinDelay
    /\ \A n \in 1..10 : Exponential(n) \in Nat \ {0}
    /\ \A n \in 2..10 : Exponential(n) = 2 * Exponential(n - 1)
<1>1. ASSUME NEW m \in Nat \ {0}
      PROVE  MinDelay * m \in Nat \ {0} /\ MinDelay * (2 * m) = 2 * (MinDelay * m)
  BY RetryAssumption
<1>2. MinDelay * 1 = MinDelay
  BY RetryAssumption
<1>3. ASSUME NEW n \in 2..10 PROVE Exponential(n) = 2 * Exponential(n - 1)
  <2>1. Power(n - 1 - 1) \in Nat \ {0} /\ Power(n - 1) = 2 * Power(n - 1 - 1)
    BY Powers
  <2> QED
    BY <1>1, <2>1, Zenon DEF Exponential
<1> QED
  BY <1>1, <1>2, <1>3, Powers DEF Exponential

LEMMA ClosedIsFixed == Closed = Doubling(Closed)
<1>1. ASSUME NEW n \in 2..10
      PROVE  Bounded(Exponential(n)) =
                LET previous == Bounded(Exponential(n - 1))
                IN  IF previous >= MaxDelay THEN previous
                    ELSE IF previous > MaxDelay \div 2 THEN MaxDelay
                    ELSE 2 * previous
  <2>1. Exponential(n - 1) \in Nat /\ Exponential(n) = 2 * Exponential(n - 1)
    BY ExponentialDoubles
  <2> QED
    BY <2>1, RetryAssumption DEF Bounded
<1>2. Bounded(Exponential(1)) = MinDelay
  BY ExponentialDoubles, RetryAssumption DEF Bounded
<1> QED
  BY <1>1, <1>2 DEF Closed, Doubling

LEMMA BackoffIsFixed == Backoff = Doubling(Backoff)
<1>1. \E f : f = Doubling(f)
  BY ClosedIsFixed
<1>2. (CHOOSE f : f = Doubling(f)) = Doubling(CHOOSE f : f = Doubling(f))
  BY <1>1, Zenon
<1>3. Backoff = CHOOSE f : f = Doubling(f)
  BY Zenon DEF Backoff, Doubling
<1> QED
  BY <1>2, <1>3

(* Attempt by attempt, the loop comes to the bounded power of two.         *)
LEMMA BackoffIsClosed ==
    ASSUME NEW n \in 1..10
    PROVE  Backoff[n] = Bounded(Exponential(n))
<1>1. Backoff[1] = Closed[1]
  BY BackoffIsFixed, ClosedIsFixed DEF Doubling
<1>2. \A m \in 2..10 : Backoff[m - 1] = Closed[m - 1] => Backoff[m] = Closed[m]
  <2> TAKE m \in 2..10
  <2> HAVE Backoff[m - 1] = Closed[m - 1]
  <2> DEFINE next(d) == IF d >= MaxDelay THEN d
                        ELSE IF d > MaxDelay \div 2 THEN MaxDelay ELSE 2 * d
  <2>1. Doubling(Backoff)[m] = next(Backoff[m - 1])
    BY DEF Doubling
  <2>2. Doubling(Closed)[m] = next(Closed[m - 1])
    BY DEF Doubling
  <2> QED
    BY <2>1, <2>2, BackoffIsFixed, ClosedIsFixed
<1>3. /\ Backoff[2] = Closed[2] /\ Backoff[3] = Closed[3] /\ Backoff[4] = Closed[4]
      /\ Backoff[5] = Closed[5] /\ Backoff[6] = Closed[6] /\ Backoff[7] = Closed[7]
      /\ Backoff[8] = Closed[8] /\ Backoff[9] = Closed[9] /\ Backoff[10] = Closed[10]
  BY <1>1, <1>2
<1>4. \/ n = 1 \/ n = 2 \/ n = 3 \/ n = 4 \/ n = 5
      \/ n = 6 \/ n = 7 \/ n = 8 \/ n = 9 \/ n = 10
  OBVIOUS
<1>5. Backoff[n] = Closed[n]
  BY <1>1, <1>3, <1>4
<1> QED
  BY <1>5 DEF Closed

(* For every pair of delays, every number of attempts and every            *)
(* Retry-After: the delay before the next attempt is the exponential one,  *)
(* lengthened by Retry-After and bounded by MaxDelay.                      *)
THEOREM DelaysAreBounded == Spec => []BackoffIsBoundedExponential
<1>1. Inv => BackoffIsBoundedExponential
  <2> SUFFICES ASSUME Inv, NEW c \in Calls, pc[c] = "asleep"
               PROVE  RetryDelay(attempt[c], asked[c]) =
                          Bounded(IF asked[c] > Exponential(attempt[c])
                                  THEN asked[c] ELSE Exponential(attempt[c]))
    BY DEF BackoffIsBoundedExponential, Bounded, Exponential, Power
  <2>1. attempt[c] \in 1..10 /\ asked[c] \in Nat
    <3>1. attempt[c] \in 0..MaxAttempts /\ asked[c] \in RetryAfters \cup {0}
      BY DEF Inv, TypeOK
    <3>2. attempt[c] >= 1
      BY DEF Inv, EffectsAreAccountedFor, Accounted, LoopAccount
    <3>3. attempt[c] \in 1..10
      BY <3>1, <3>2, RetryAssumption
    <3>4. asked[c] \in Nat
      <4>1. RetryAfters \cup {0} \subseteq Nat
        BY RetryAssumption
      <4> QED
        BY <3>1, <4>1
    <3> QED
      BY <3>3, <3>4
  <2>2. Exponential(attempt[c]) \in Nat
    BY <2>1, ExponentialDoubles
  <2>3. Backoff[attempt[c]] = Bounded(Exponential(attempt[c]))
    BY <2>1, BackoffIsClosed
  <2> QED
    BY <2>1, <2>2, <2>3, RetryAssumption DEF RetryDelay, Bounded
<1> QED
  BY <1>1, TransportInvariant, PTL DEF Inv

-----------------------------------------------------------------------------
(* The transport implements the safety part of RemoteCall, step by step.   *)

(* Entering the loop opens the call.                                       *)
LEMMA StartInvokes ==
    ASSUME Inv, NEW c \in Calls, Start(c)
    PROVE  Contract!Invoke(c)
<1>1. [d \in Calls |-> Phase(d)]' = [[d \in Calls |-> Phase(d)] EXCEPT ![c] = "open"]
  BY DEF Inv, TypeOK, Start, Phase
<1> QED
  BY <1>1 DEF Contract!Invoke, Start, pulse, Phase

(* Sending, sleeping, waking, refusing and cancelling are invisible.       *)
LEMMA SilentSteps ==
    ASSUME Inv, NEW c \in Calls,
           \/ Send(c) \/ Wake(c) \/ Cancel(c)
           \/ \E n \in 1..MaxAttempts : Refuse(c, n)
    PROVE  UNCHANGED Contract!vars
<1>1. UNCHANGED <<result, effects>>
  BY DEF Send, Wake, Cancel, Refuse, client, pulse
<1>2. ASSUME NEW d \in Calls PROVE Phase(d)' = Phase(d)
  BY DEF Inv, TypeOK, Send, Wake, Cancel, Refuse, client, Phase
<1> QED
  BY <1>1, <1>2 DEF Contract!vars

(* A call that ends with an error closes, whatever became of its request.  *)
LEMMA EndingFails ==
    ASSUME NEW c \in Calls, TypeOK, pc[c] \in {"ready", "inflight", "asleep"},
           NEW failure \in {"refused", "transport", "decode", "context"},
           Finish(c, failure), UNCHANGED effects
    PROVE  Contract!Fail(c)
<1>1. [d \in Calls |-> Phase(d)]' = [[d \in Calls |-> Phase(d)] EXCEPT ![c] = "closed"]
  BY DEF TypeOK, Finish, Phase
<1> QED
  BY <1>1 DEF Contract!Fail, Finish, Phase

(* An attempt that fails is invisible, or fails the call.                  *)
LEMMA FailureFails ==
    ASSUME Inv, NEW c \in Calls,
           TransportFailure(c) \/ ErrorResponse(c) \/ DecodeFailure(c)
    PROVE  Contract!Fail(c) \/ UNCHANGED Contract!vars
<1>1. /\ FailsOrFinishes(c)
      /\ pc[c] = "inflight"
      /\ UNCHANGED effects
  BY FailureCases DEF Inv
<1>2. CASE pc' = [pc EXCEPT ![c] = "asleep"] /\ UNCHANGED <<attempt, result>>
  <2>1. ASSUME NEW d \in Calls PROVE Phase(d)' = Phase(d)
    BY <1>1, <1>2 DEF Inv, TypeOK, Phase
  <2> QED
    BY <1>1, <1>2, <2>1 DEF Contract!vars
<1>3. ASSUME NEW failure \in {"refused", "transport", "decode", "context"},
             Finish(c, failure)
      PROVE  Contract!Fail(c)
  BY <1>1, <1>3, EndingFails DEF Inv
<1> QED
  BY <1>1, <1>2, <1>3 DEF FailsOrFinishes, Finish

(* A success closes a call whose mutation has been applied.                *)
LEMMA SuccessSucceeds ==
    ASSUME Inv, NEW c \in Calls, Success(c)
    PROVE  Contract!Succeed(c)
<1>1. [d \in Calls |-> Phase(d)]' = [[d \in Calls |-> Phase(d)] EXCEPT ![c] = "closed"]
  BY DEF Inv, TypeOK, Success, Finish, Phase
<1>2. c \in Mutations => effects[c] = 1
  BY DEF Inv, EffectsAreAccountedFor, Accounted, AnswerAccount, Success
<1> QED
  BY <1>1, <1>2 DEF Contract!Succeed, Success, Finish, Phase, pulse

(* Executing a request applies the mutation, or repeats an answer.         *)
LEMMA ExecuteApplies ==
    ASSUME Inv, NEW c \in Calls, NEW n \in 1..MaxAttempts, Execute(c, n)
    PROVE  Contract!Apply(c) \/ UNCHANGED Contract!vars
<1>1. UNCHANGED <<pc, attempt, asked, result, cancelled>>
  BY DEF Execute, client
<1>2. [d \in Calls |-> Phase(d)]' = [d \in Calls |-> Phase(d)]
  BY <1>1 DEF Phase
<1>3. effects \in [Calls -> Nat]
  BY DEF Inv, TypeOK
<1>4. CASE effects' = effects
  BY <1>1, <1>2, <1>4 DEF Contract!vars
<1>5. CASE effects' # effects
  <2>1. effects' = [effects EXCEPT ![c] = @ + 1] /\ c \in Mutations
    BY <1>5 DEF Execute, Mutations
  <2>2. effects'[c] <= 1 /\ <<c, n>> \in wire
    <3>1. Inv'
      BY ExecuteInv
    <3>2. Kind[c] \in Kinds /\ (LedgerAccount(c) /\ UnkeyedAccount(c))'
      BY <3>1, CallsAssumption DEF Inv, EffectsAreAccountedFor, Accounted
    <3> QED
      BY <3>2 DEF LedgerAccount, UnkeyedAccount, Kinds, Execute
  <2>3. effects[c] = 0
    BY <1>3, <2>1, <2>2
  <2>4. pc[c] # "idle"
    BY <2>2 DEF Inv, EffectsAreAccountedFor, Accounted, LoopAccount
  <2>5. [d \in Calls |-> effects[d]]' = [[d \in Calls |-> effects[d]] EXCEPT ![c] = 1]
    BY <1>3, <2>1, <2>3
  <2> QED
    BY <1>1, <1>2, <2>1, <2>3, <2>4, <2>5 DEF Contract!Apply, Phase
<1> QED
  BY <1>4, <1>5

(* For every set of calls and every retry configuration: callers of the    *)
(* client may rely on RemoteCall.                                          *)
THEOREM TransportImplementsContract == Spec => Contract!Spec
<1>1. Init => Contract!Init
  BY DEF Init, Contract!Init, Phase
<1>2. Inv /\ [Next]_vars => [Contract!Next]_(Contract!vars)
  <2> SUFFICES ASSUME Inv, [Next]_vars
               PROVE  Contract!Next \/ UNCHANGED Contract!vars
    OBVIOUS
  <2>1. CASE UNCHANGED vars
    BY <2>1 DEF vars, Contract!vars, Phase
  <2>2. ASSUME NEW c \in Calls, Start(c) \/ ClientStep(c) \/ Cancel(c)
        PROVE  Contract!Next \/ UNCHANGED Contract!vars
    <3>1. CASE Start(c)
      BY <3>1, StartInvokes DEF Contract!Next
    <3>2. CASE Send(c) \/ Wake(c) \/ Cancel(c)
      BY <3>2, SilentSteps
    <3>3. CASE SendCancelled(c)
      BY <3>3, EndingFails DEF SendCancelled, Inv, pulse, Contract!Next
    <3>4. CASE SleepCancelled(c)
      BY <3>4, EndingFails DEF SleepCancelled, Inv, pulse, Contract!Next
    <3>5. CASE Success(c)
      BY <3>5, SuccessSucceeds DEF Contract!Next
    <3>6. CASE TransportFailure(c) \/ ErrorResponse(c) \/ DecodeFailure(c)
      BY <3>6, FailureFails DEF Contract!Next
    <3> QED
      BY <2>2, <3>1, <3>2, <3>3, <3>4, <3>5, <3>6 DEF ClientStep, Returns
  <2>3. ASSUME NEW c \in Calls, NEW n \in 1..MaxAttempts, Execute(c, n) \/ Refuse(c, n)
        PROVE  Contract!Next \/ UNCHANGED Contract!vars
    BY <2>3, ExecuteApplies, SilentSteps DEF Contract!Next
  <2> QED
    BY <2>1, <2>2, <2>3 DEF Next
<1> QED
  BY <1>1, <1>2, TransportInvariant, PTL DEF Spec, Inv, Contract!Spec

-----------------------------------------------------------------------------
(* The loop runs out: no call has more than three steps for each attempt.  *)

StepsLeft(c) ==
    LET ofAttempts == 3 * (MaxAttempts - attempt[c])
    IN  CASE pc[c] = "idle" -> 3 * MaxAttempts + 1
          [] pc[c] = "ready" -> ofAttempts + 3
          [] pc[c] = "inflight" -> ofAttempts + 2
          [] pc[c] = "asleep" -> ofAttempts + 1
          [] pc[c] = "done" -> 0

LEMMA StepsAreCounted ==
    ASSUME Inv, NEW c \in Calls
    PROVE  /\ StepsLeft(c) \in Nat
           /\ StepsLeft(c) = 0 <=> pc[c] = "done"
           /\ pc[c] \in {"idle", "ready", "inflight", "asleep", "done"}
           /\ pc[c] \in {"ready", "inflight", "asleep"} => StepsLeft(c) <= 3 * MaxAttempts
<1>1. /\ pc[c] \in {"idle", "ready", "inflight", "asleep", "done"}
      /\ attempt[c] \in Nat /\ attempt[c] <= MaxAttempts
      /\ MaxAttempts \in Nat /\ MaxAttempts >= 1
  BY RetryAssumption DEF Inv, TypeOK
<1>2. pc[c] \in {"ready", "inflight", "asleep"} => attempt[c] >= 1
  BY DEF Inv, EffectsAreAccountedFor, Accounted, LoopAccount
<1> QED
  BY <1>1, <1>2 DEF StepsLeft

(* Its own steps take one or more from what a call has left.               *)
LEMMA OwnStepsCountDown ==
    ASSUME Inv, NEW c \in Calls, Start(c) \/ ClientStep(c)
    PROVE  StepsLeft(c)' < StepsLeft(c)
<1>1. Inv'
  BY NextInv DEF Next
<1>2. /\ MaxAttempts \in Nat /\ attempt[c] \in Nat
      /\ StepsLeft(c) \in Nat
      /\ StepsLeft(c) = 0 <=> pc[c] = "done"
  BY StepsAreCounted, RetryAssumption DEF Inv, TypeOK
<1>3. pc \in [Calls -> {"idle", "ready", "inflight", "asleep", "done"}]
      /\ attempt \in [Calls -> 0..MaxAttempts]
  BY DEF Inv, TypeOK
<1>4. ASSUME pc[c] # "done", pc'[c] = "done" PROVE StepsLeft(c)' < StepsLeft(c)
  <2>1. StepsLeft(c)' = 0
    BY <1>4 DEF StepsLeft
  <2> QED
    BY <2>1, <1>2, <1>4
<1>5. CASE Start(c)
  <2>1. pc[c] = "idle" /\ pc'[c] = "ready" /\ attempt'[c] = 1
    BY <1>3, <1>5 DEF Start
  <2>2. StepsLeft(c) = 3 * MaxAttempts + 1
    BY <2>1 DEF StepsLeft
  <2>3. StepsLeft(c)' = 3 * (MaxAttempts - 1) + 3
    BY <2>1 DEF StepsLeft
  <2> QED
    BY <2>2, <2>3, <1>2
<1>6. CASE Send(c)
  <2>1. pc[c] = "ready" /\ pc'[c] = "inflight" /\ attempt'[c] = attempt[c]
    BY <1>3, <1>6 DEF Send
  <2> QED
    BY <2>1, <1>2 DEF StepsLeft
<1>7. CASE Wake(c)
  <2>1. pc[c] = "asleep" /\ pc'[c] = "ready" /\ attempt'[c] = attempt[c] + 1
    BY <1>3, <1>7 DEF Wake
  <2>2. StepsLeft(c) = 3 * (MaxAttempts - attempt[c]) + 1
    BY <2>1 DEF StepsLeft
  <2>3. StepsLeft(c)' = 3 * (MaxAttempts - attempt'[c]) + 3
    BY <2>1 DEF StepsLeft
  <2> QED
    BY <2>1, <2>2, <2>3, <1>2
<1>8. CASE SendCancelled(c) \/ SleepCancelled(c) \/ Success(c)
  <2>1. pc[c] # "done" /\ pc'[c] = "done"
    BY <1>3, <1>8 DEF SendCancelled, SleepCancelled, Success, Finish
  <2> QED
    BY <2>1, <1>4
<1>9. CASE TransportFailure(c) \/ ErrorResponse(c) \/ DecodeFailure(c)
  <2>1. FailsOrFinishes(c) /\ pc[c] = "inflight"
    BY <1>9, FailureCases DEF Inv
  <2>2. CASE pc'[c] = "asleep" /\ attempt'[c] = attempt[c]
    BY <2>1, <2>2, <1>2 DEF StepsLeft
  <2>3. CASE pc'[c] = "done"
    BY <2>1, <2>3, <1>4
  <2> QED
    BY <2>1, <2>2, <2>3, <1>3 DEF FailsOrFinishes
<1> QED
  BY <1>5, <1>6, <1>7, <1>8, <1>9 DEF ClientStep, Returns

(* Every step counts down the call whose step it is and leaves the others  *)
(* where they are, so that doWithRetry makes at most three steps, one of   *)
(* them a request, for each attempt it may make: what CallsReturn needs    *)
(* beside fairness.                                                        *)
CountsDown(c) ==
    /\ StepsLeft(c) \in Nat
    /\ StepsLeft(c) = 0 <=> pc[c] = "done"
    /\ Start(c) \/ ClientStep(c) => StepsLeft(c)' < StepsLeft(c)
    /\ StepsLeft(c)' # StepsLeft(c) => Start(c) \/ ClientStep(c)

THEOREM CallsRunOut == Spec => [][\A c \in Calls : CountsDown(c)]_vars
<1>1. ASSUME Inv, [Next]_vars PROVE \A c \in Calls : CountsDown(c)
  <2> TAKE c \in Calls
  <2>0. /\ pc \in [Calls -> {"idle", "ready", "inflight", "asleep", "done"}]
        /\ attempt \in [Calls -> 0..MaxAttempts]
    BY <1>1 DEF Inv, TypeOK
  <2>1. ASSUME UNCHANGED <<pc, attempt>> PROVE StepsLeft(c)' = StepsLeft(c)
    BY <2>1 DEF StepsLeft
  <2>2. ASSUME NEW d \in Calls, d # c, Start(d) \/ ClientStep(d)
        PROVE  StepsLeft(c)' = StepsLeft(c)
    <3>1. pc'[c] = pc[c] /\ attempt'[c] = attempt[c]
      <4>1. CASE TransportFailure(d) \/ ErrorResponse(d) \/ DecodeFailure(d)
        <5>1. FailsOrFinishes(d)
          BY <1>1, <4>1, FailureCases DEF Inv
        <5>2. \/ pc' = [pc EXCEPT ![d] = "asleep"] /\ attempt' = attempt
              \/ pc' = [pc EXCEPT ![d] = "done"] /\ attempt' = attempt
          BY <5>1 DEF FailsOrFinishes
        <5> QED
          BY <2>0, <2>2, <5>2
      <4>2. CASE \/ Start(d) \/ Send(d) \/ SendCancelled(d) \/ Success(d)
                 \/ Wake(d) \/ SleepCancelled(d)
        BY <2>0, <2>2, <4>2 DEF Start, Send, SendCancelled, Success, Wake,
                                SleepCancelled, Finish
      <4> QED
        BY <2>2, <4>1, <4>2 DEF ClientStep, Returns
    <3> QED
      BY <3>1 DEF StepsLeft
  <2>3. ASSUME NEW d \in Calls, Cancel(d) PROVE UNCHANGED <<pc, attempt>>
    BY <2>3 DEF Cancel
  <2>4. ASSUME NEW d \in Calls, NEW n \in 1..MaxAttempts, Execute(d, n) \/ Refuse(d, n)
        PROVE  UNCHANGED <<pc, attempt>>
    BY <2>4 DEF Execute, Refuse, client
  <2>5. \/ Start(c) \/ ClientStep(c) \/ StepsLeft(c)' = StepsLeft(c)
    <3>1. CASE UNCHANGED vars
      BY <3>1, <2>1 DEF vars
    <3>2. CASE Next
      BY <3>2, <2>1, <2>2, <2>3, <2>4 DEF Next
    <3> QED
      BY <1>1, <3>1, <3>2
  <2> QED
    BY <1>1, <2>5, StepsAreCounted, OwnStepsCountDown DEF CountsDown
<1> QED
  BY <1>1, TransportInvariant, PTL DEF Spec, Inv
=============================================================================
