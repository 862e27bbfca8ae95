-------------------- MODULE IntegrationLifecycle_proofs --------------------
(***************************************************************************)
(* Proofs about IntegrationLifecycle, without bounds on disturbances,      *)
(* losses, edits or triggers.  The first half has the types and what the   *)
(* state says of the binding (Inv); the second half strengthens that to    *)
(* what requests and replies under way say of it, for the guards.          *)
(***************************************************************************)
EXTENDS IntegrationLifecycle, TLAPS

(* An active binding has a revision and a version, so a state or a reply   *)
(* that carries none is never taken for a snapshot of it.                  *)
ActiveIsNumbered == srv.active => srv.rev > 0 /\ srv.version > 0

(* A reply that ends or resumes a mutation names the version it issued.    *)
Numbered(reply) == reply.kind \in {"ok", "secret_reissue_required"} => reply.version > 0
RepliesAreNumbered == IssuesSecret(call.op) => Numbered(call.reply)

(* The bounded loop of reissueSecret starts from zero.                     *)
ReissuesCounted == call.op # "reissue" => job.reissues = 0

Inv == TypeOK /\ ActiveIsNumbered /\ StateIsHonest /\ ReissuesCounted /\ RepliesAreNumbered

CurrentAt(snapshot, s) ==
    /\ snapshot.rev <= s.rev
    /\ s.active /\ snapshot.rev = s.rev =>
           snapshot.version = s.version /\ snapshot.owner = s.owner

(* A change of the binding gives it the next revision.                     *)
Moves(next) ==
    /\ next \in Credential
    /\ next.active => next.rev > 0 /\ next.version > 0
    /\ next = srv \/ next.rev = srv.rev + 1

-----------------------------------------------------------------------------
LEMMA IssueMoves ==
    ASSUME srv \in Credential, NEW owner \in Owners \cup {"none"}, NEW kept \in SUBSET Nat
    PROVE  /\ Moves(Issued(owner, kept).srv)
           /\ Issued(owner, kept).live \in SUBSET Nat
           /\ Issued(owner, kept).reply \in Reply /\ Numbered(Issued(owner, kept).reply)
           /\ CurrentAt(Issued(owner, kept).reply, Issued(owner, kept).srv)
<1> DEFINE next == Issue(srv, owner)
<1>1. /\ next \in Credential
      /\ next.rev = srv.rev + 1 /\ next.version > 0
      /\ srv.rev \in Nat
  BY DEF Issue, Credential
<1>2. /\ Issued(owner, kept).srv = next
      /\ Issued(owner, kept).live = kept \cup {next.version}
      /\ Issued(owner, kept).reply = Metadata("ok", next)
  BY DEF Issued
<1>3. next.version \in Nat /\ next.rev \in Nat /\ next.owner \in Owners \cup {"none"}
  BY <1>1 DEF Credential
<1> HIDE DEF next
<1>4. /\ Metadata("ok", next) \in Reply /\ CurrentAt(Metadata("ok", next), next)
      /\ Numbered(Metadata("ok", next))
  BY <1>1, <1>3 DEF Metadata, Reply, CurrentAt, Numbered
<1>5. Moves(next)
  BY <1>1 DEF Moves
<1> QED
  BY <1>2, <1>3, <1>4, <1>5

LEMMA ArchiveMoves ==
    ASSUME srv \in Credential
    PROVE  /\ Moves(Archive(srv))
           /\ Metadata("ok", Archive(srv)) \in Reply
           /\ CurrentAt(Metadata("ok", Archive(srv)), Archive(srv))
           /\ srv.version > 0 => Numbered(Metadata("ok", Archive(srv)))
<1> DEFINE next == Archive(srv)
<1>1. /\ next \in Credential
      /\ next.rev = srv.rev + 1
      /\ srv.rev \in Nat /\ ~next.active /\ next.version = srv.version
  BY DEF Archive, Credential
<1>2. next.version \in Nat /\ next.rev \in Nat /\ next.owner \in Owners \cup {"none"}
  BY <1>1 DEF Credential
<1> HIDE DEF next
<1>3. /\ Metadata("ok", next) \in Reply /\ CurrentAt(Metadata("ok", next), next)
      /\ srv.version > 0 => Numbered(Metadata("ok", next))
  BY <1>1, <1>2 DEF Metadata, Reply, CurrentAt, Numbered
<1>4. Moves(next)
  BY <1>1 DEF Moves
<1> QED
  BY <1>3, <1>4 DEF next

(* A reply that changes nothing names no revision, or the present one.     *)
LEMMA UnchangedReplies ==
    ASSUME TypeOK, ActiveIsNumbered
    PROVE  /\ Moves(srv)
           /\ \A kind \in {"not_found", "stale_revision", "conflict", "already_exists",
                           "ownership_conflict"} :
                  Refusal(kind) \in Reply /\ CurrentAt(Refusal(kind), srv) /\ Numbered(Refusal(kind))
           /\ \A kind \in {"ok", "secret_reissue_required"} :
                  /\ Metadata(kind, srv) \in Reply /\ CurrentAt(Metadata(kind, srv), srv)
                  /\ srv.active => Numbered(Metadata(kind, srv))
BY DEF TypeOK, ActiveIsNumbered, Moves, Refusal, Metadata, NoReply, Reply, CurrentAt, Credential,
   Numbered

(* What Pulse may make of any request.                                     *)
WellExecuted(outcome) ==
    /\ Moves(outcome.srv)
    /\ outcome.live \in SUBSET Nat
    /\ outcome.reply \in Reply
    /\ CurrentAt(outcome.reply, outcome.srv)
    /\ Numbered(outcome.reply)

LEMMA ExecutedShape ==
    ASSUME TypeOK, ActiveIsNumbered,
           NEW op \in Operations \cup {"get"}, NEW rev \in Nat,
           NEW outcome \in Executed(op, rev)
    PROVE  WellExecuted(outcome)
<1> srv \in Credential /\ live \in SUBSET Nat
  BY DEF TypeOK
<1>1. \A kind \in {"not_found", "stale_revision", "conflict", "already_exists",
                   "ownership_conflict"} : WellExecuted(Unchanged(Refusal(kind)))
  BY UnchangedReplies DEF WellExecuted, Unchanged
<1>2. srv.active => \A kind \in {"ok", "secret_reissue_required"} :
                       WellExecuted(Unchanged(Metadata(kind, srv)))
  BY UnchangedReplies DEF WellExecuted, Unchanged
<1>3. \A owner \in Owners \cup {"none"}, kept \in SUBSET Nat : WellExecuted(Issued(owner, kept))
  BY IssueMoves DEF WellExecuted
<1>4. srv.active =>
        WellExecuted([srv |-> Archive(srv), live |-> {}, reply |-> Metadata("ok", Archive(srv))])
  BY ArchiveMoves DEF WellExecuted, ActiveIsNumbered
<1>5. srv.owner \in Owners \cup {"none"} /\ {} \in SUBSET Nat /\ live \ {srv.version} \in SUBSET Nat
  BY DEF Credential
<1>6. CASE op = "upsert"
  <2>1. outcome \in Upserted
    BY <1>6 DEF Executed
  <2> QED
    BY <1>1, <1>2, <1>3, <1>5, <2>1 DEF Upserted, Owners
<1>7. CASE op # "upsert"
  <2> DEFINE Ways ==
        {Issued(owner, kept) : owner \in Owners \cup {"none"}, kept \in SUBSET Nat}
        \cup {Unchanged(Metadata("ok", srv)), Unchanged(Refusal("conflict"))}
        \cup {[srv |-> Archive(srv), live |-> {}, reply |-> Metadata("ok", Archive(srv))]}
  <2>1. \/ outcome \in {Unchanged(Refusal(kind)) : kind \in {"not_found", "stale_revision"}}
        \/ srv.active /\ outcome \in Ways
    <3>1. CASE op = "get"
      BY <3>1 DEF Executed, Guarded
    <3>2. CASE op = "adopt"
      BY <3>2, <1>5 DEF Executed, Guarded, Owners
    <3>3. CASE op = "rotate"
      BY <3>3, <1>5 DEF Executed, Guarded
    <3>4. CASE op = "reissue"
      BY <3>4, <1>5 DEF Executed, Guarded
    <3>5. CASE op = "delete"
      BY <3>5, <1>5 DEF Executed, Guarded
    <3> QED
      BY <1>7, <3>1, <3>2, <3>3, <3>4, <3>5 DEF Operations
  <2> QED
    BY <1>1, <1>2, <1>3, <1>4, <2>1
<1> QED
  BY <1>6, <1>7
-----------------------------------------------------------------------------
(* Snapshots outlive changes of the binding: what they say is of a past    *)
(* revision then.                                                          *)
LEMMA SnapshotsAge ==
    ASSUME NEW snapshot, snapshot.rev \in Nat, srv \in Credential,
           CurrentAt(snapshot, srv), Moves(srv')
    PROVE  CurrentAt(snapshot, srv')
BY DEF CurrentAt, Moves, Credential

LEMMA CurrentIsCurrentAt ==
    ASSUME NEW snapshot
    PROVE  Current(snapshot) <=> CurrentAt(snapshot, srv)
BY DEF Current, CurrentAt

(* A change of the binding by anyone leaves the workspace's part honest.   *)
LEMMA HeldSnapshotsAge ==
    ASSUME Inv, Moves(srv')
    PROVE  CurrentAt(tf, srv') /\ CurrentAt(job.prior, srv') /\ CurrentAt(call.reply, srv')
<1>1. /\ tf.rev \in Nat /\ job.prior.rev \in Nat /\ call.reply.rev \in Nat
      /\ srv \in Credential
  BY DEF Inv, TypeOK, State, Reply
<1> QED
  BY <1>1, SnapshotsAge, CurrentIsCurrentAt DEF Inv, StateIsHonest

LEMMA OthersKeepHonest ==
    ASSUME Inv, Moves(srv'), tf' = tf, job' = job, CurrentAt(call'.reply, srv')
    PROVE  StateIsHonest' /\ ActiveIsNumbered'
<1>1. Current(tf)' /\ Current(job.prior)' /\ Current(call.reply)'
  BY HeldSnapshotsAge DEF Current, CurrentAt
<1>2. (Linked(tf) /\ Linked(job.prior) /\ Flagged(tf) /\ Flagged(job.prior))'
  BY DEF Inv, StateIsHonest, Linked, Flagged
<1> QED
  BY <1>1, <1>2 DEF StateIsHonest, ActiveIsNumbered, Moves

LEMMA ExecuteInv ==
    ASSUME Inv, Execute
    PROVE  Inv'
<1>1. call.op \in Operations \cup {"get"} /\ call.rev \in Nat
  BY DEF Inv, TypeOK, Execute
<1>2. PICK outcome \in Executed(call.op, call.rev) :
         srv' = outcome.srv /\ live' = outcome.live /\ call' = [call EXCEPT !.reply = outcome.reply]
  BY DEF Execute
<1>3. WellExecuted(outcome)
  BY <1>1, ExecutedShape DEF Inv
<1>4. /\ call' \in [op : Operations \cup {"none", "get"}, rev : Nat, reply : Reply]
      /\ call'.reply = outcome.reply
  BY <1>2, <1>3 DEF Inv, TypeOK, WellExecuted
<1>5. TypeOK'
  BY <1>2, <1>3, <1>4 DEF Inv, TypeOK, Execute, WellExecuted, Moves
<1>6. ReissuesCounted' /\ RepliesAreNumbered'
  BY <1>2, <1>3, <1>4 DEF Inv, TypeOK, Execute, ReissuesCounted, RepliesAreNumbered,
     WellExecuted, IssuesSecret, Numbered
<1> QED
  BY <1>2, <1>3, <1>4, <1>5, <1>6, OthersKeepHonest DEF Inv, WellExecuted, Execute

LEMMA ExecuteLateInv ==
    ASSUME Inv, ExecuteLate
    PROVE  Inv'
<1>1. PICK request \in late : Carry(request) /\ late' = late \ {request}
  BY DEF ExecuteLate
<1>2. request.op \in Operations /\ request.rev \in Nat
  BY <1>1 DEF Inv, TypeOK
<1>3. PICK outcome \in Executed(request.op, request.rev) :
         srv' = outcome.srv /\ live' = outcome.live
  BY <1>1 DEF Carry
<1>4. WellExecuted(outcome)
  BY <1>2, ExecutedShape DEF Inv
<1>5. TypeOK'
  BY <1>1, <1>3, <1>4 DEF Inv, TypeOK, ExecuteLate, WellExecuted, Moves
<1>6. Moves(srv') /\ tf' = tf /\ job' = job /\ call' = call
  BY <1>3, <1>4 DEF WellExecuted, ExecuteLate
<1>7. StateIsHonest' /\ ActiveIsNumbered'
  BY <1>6, HeldSnapshotsAge, OthersKeepHonest
<1> QED
  BY <1>5, <1>6, <1>7 DEF Inv, ReissuesCounted, RepliesAreNumbered,
     IssuesSecret, Numbered

(* Paying for a bounded step keeps the budget's type.                      *)
LEMMA SpendType ==
    ASSUME TypeOK, NEW item \in {"disturbances", "losses", "edits"}, Spend(item)
    PROVE  budget' \in [disturbances : Nat, losses : Nat, edits : Nat]
BY DEF TypeOK, Spend

LEMMA DisturbInv ==
    ASSUME Inv, Disturb
    PROVE  Inv'
<1> srv \in Credential /\ live \in SUBSET Nat
  BY DEF Inv, TypeOK
<1>1. Moves(srv') /\ live' \in SUBSET Nat
  <2>1. ASSUME NEW owner \in Owners \cup {"none"}
        PROVE  Moves(Issue(srv, owner)) /\ Issue(srv, owner).version \in Nat
    BY <2>1 DEF Moves, Issue, Credential
  <2>2. CASE /\ ~srv.active
             /\ \E owner \in Owners : srv' = Issue(srv, owner)
             /\ live' = {srv'.version}
    BY <2>1, <2>2
  <2>3. CASE /\ srv' = Issue(srv, srv.owner)
             /\ live' = live \cup {srv'.version}
    BY <2>1, <2>3 DEF Credential
  <2>4. CASE srv' = Archive(srv) /\ live' = {}
    BY <2>4, ArchiveMoves
  <2>5. CASE srv' = [srv EXCEPT !.rev = @ + 1] /\ UNCHANGED live
    BY <2>5 DEF Moves, Credential, Inv, ActiveIsNumbered
  <2> QED
    BY <2>2, <2>3, <2>4, <2>5 DEF Disturb
<1>2. TypeOK'
  BY <1>1, SpendType DEF Inv, TypeOK, Disturb, Moves
<1>3. tf' = tf /\ job' = job /\ call' = call
  BY DEF Disturb
<1>4. StateIsHonest' /\ ActiveIsNumbered'
  BY <1>1, <1>3, HeldSnapshotsAge, OthersKeepHonest
<1> QED
  BY <1>2, <1>3, <1>4 DEF Inv, ReissuesCounted, RepliesAreNumbered,
     IssuesSecret, Numbered

(* Expiry, edits and lost responses.                                       *)
LEMMA QuietStepsInv ==
    ASSUME Inv, Expire \/ Obey \/ Edit \/ LoseResponse
    PROVE  Inv'
<1>1. CASE Expire
  <2>1. TypeOK'
    BY <1>1 DEF Inv, TypeOK, Expire
  <2> QED
    BY <1>1, <2>1 DEF Inv, Expire, ActiveIsNumbered, StateIsHonest, Linked, Flagged, Current,
       ReissuesCounted, RepliesAreNumbered, IssuesSecret, Numbered
<1>2. CASE Obey
  <2>1. TypeOK'
    BY <1>2 DEF Inv, TypeOK, Obey
  <2> QED
    BY <1>2, <2>1 DEF Inv, Obey, ActiveIsNumbered, StateIsHonest, Linked, Flagged, Current,
       ReissuesCounted, RepliesAreNumbered, IssuesSecret, Numbered
<1>3. CASE Edit
  <2>1. TypeOK'
    <3> DEFINE Config == [wanted : BOOLEAN, trigger : Triggers, adopt : BOOLEAN]
    <3>1. UNCHANGED <<srv, live, late, tf, job, call>> /\ Spend("edits") /\ config \in Config
      BY <1>3 DEF Edit, Inv, TypeOK
    <3>3. ASSUME NEW trigger \in Triggers PROVE [config EXCEPT !.trigger = trigger] \in Config
      BY <3>1
    <3>4. /\ [config EXCEPT !.adopt = ~@] \in Config
          /\ [config EXCEPT !.wanted = ~@] \in Config
      BY <3>1
    <3> HIDE DEF Config
    <3>5. config' \in Config
      BY <1>3, <3>3, <3>4 DEF Edit
    <3>2. budget' \in [disturbances : Nat, losses : Nat, edits : Nat]
      BY <3>1, SpendType DEF Inv
    <3> QED
      BY <3>1, <3>2, <3>5 DEF Inv, TypeOK, Config
  <2> QED
    BY <1>3, <2>1 DEF Inv, Edit, ActiveIsNumbered, StateIsHonest, Linked, Flagged, Current,
       ReissuesCounted, RepliesAreNumbered, IssuesSecret, Numbered
<1>4. CASE LoseResponse
  <2>1. /\ call' \in [op : Operations \cup {"none", "get"}, rev : Nat, reply : Reply]
        /\ call'.reply.rev = call.reply.rev
        /\ call'.reply.version = call.reply.version
        /\ call'.reply.owner = call.reply.owner
        /\ call'.op = call.op /\ call.reply.kind = "ok"
    BY <1>4 DEF Inv, TypeOK, LoseResponse, Reply
  <2>2. TypeOK'
    BY <1>4, <2>1, SpendType DEF Inv, TypeOK, LoseResponse
  <2> QED
    BY <1>4, <2>1, <2>2 DEF Inv, LoseResponse, ActiveIsNumbered, StateIsHonest, Linked, Flagged, Current,
       ReissuesCounted, RepliesAreNumbered, IssuesSecret, Numbered
<1> QED
  BY <1>1, <1>2, <1>3, <1>4

-----------------------------------------------------------------------------
(* The workspace's own steps leave the binding alone.                      *)
Calling == [op : Operations \cup {"none", "get"}, rev : Nat, reply : Reply]
Job == [kind : {"none", "upgrade", "create", "update", "delete"}, prior : State, trigger : Nat,
        adopt : BOOLEAN, known : BOOLEAN, announced : BOOLEAN, replaces : BOOLEAN,
        reissues : 0..maxSecretReissueAttempts, observed : SUBSET Nat, lost : SUBSET Nat]

Answered(request) ==
    Current(request.reply) /\ (IssuesSecret(request.op) => Numbered(request.reply))

HonestState(state) == state \in State /\ Linked(state) /\ Flagged(state) /\ Current(state)

LEMMA WorkspaceStepInv ==
    ASSUME Inv, UNCHANGED <<srv, live, config>>,
           late' \subseteq [op : Operations, rev : Nat, adopt : BOOLEAN, observed : SUBSET Nat],
           budget' \in [disturbances : Nat, losses : Nat, edits : Nat],
           HonestState(tf'), job' \in Job, HonestState(job'.prior),
           call' \in Calling, Answered(call'),
           call'.op # "reissue" => job'.reissues = 0
    PROVE  Inv'
<1>1. TypeOK'
  BY DEF Inv, TypeOK, HonestState, Calling, Job
<1>2. StateIsHonest'
  BY DEF HonestState, StateIsHonest, Linked, Flagged, Current, Answered
<1>3. ActiveIsNumbered' /\ RepliesAreNumbered'
  BY DEF Inv, ActiveIsNumbered, Answered, RepliesAreNumbered, IssuesSecret, Numbered
<1> QED
  BY <1>1, <1>2, <1>3 DEF Inv, ReissuesCounted

LEMMA PresentIsHonest ==
    ASSUME Inv
    PROVE  /\ HonestState(tf) /\ HonestState(job.prior) /\ HonestState(Absent)
           /\ job \in Job /\ call \in Calling /\ Answered(call)
           /\ call.op # "reissue" => job.reissues = 0
           /\ NoJob \in Job /\ NoJob.prior = Absent /\ NoJob.reissues = 0
           /\ NoCall \in Calling /\ Answered(NoCall)
           /\ late \subseteq [op : Operations, rev : Nat, adopt : BOOLEAN, observed : SUBSET Nat]
           /\ budget \in [disturbances : Nat, losses : Nat, edits : Nat]
           /\ config.trigger \in Nat /\ config.adopt \in BOOLEAN
<1>1. HonestState(tf) /\ HonestState(job.prior) /\ job \in Job /\ call \in Calling
  BY DEF Inv, TypeOK, StateIsHonest, HonestState, Job, Calling
<1>2. HonestState(Absent) /\ Answered(NoCall)
  BY DEF Inv, TypeOK, ActiveIsNumbered, Credential, HonestState, Absent, State, Linked, Flagged,
         Current, NoCall, NoReply, Answered, IssuesSecret
<1>3. NoJob \in Job /\ NoJob.prior = Absent /\ NoJob.reissues = 0
  BY <1>2, BoundsAssumption DEF NoJob, Job, HonestState
<1>4. NoCall \in Calling
  BY DEF NoCall, NoReply, Calling, Reply
<1>5. config.trigger \in Nat /\ config.adopt \in BOOLEAN
  BY BoundsAssumption DEF Inv, TypeOK
<1> QED
  BY <1>1, <1>2, <1>3, <1>4, <1>5 DEF Inv, TypeOK, StateIsHonest, ReissuesCounted,
     RepliesAreNumbered, Answered

(* Read turns any linked state into an honest one.                         *)
LEMMA ReadIsHonest ==
    ASSUME Inv, NEW state \in State, Linked(state)
    PROVE  HonestState(Read(state))
<1> DEFINE merged == mergeRemoteIntegration(state, srv)
<1>1. merged \in State /\ merged.secret = state.secret /\ merged.version = srv.version
      /\ merged.owner = srv.owner /\ merged.rev = srv.rev
  BY DEF mergeRemoteIntegration, State, Inv, TypeOK, Credential
<1>2. srv.rev \in Nat
  BY DEF Inv, TypeOK, Credential
<1>3. CASE ~state.present \/ ~srv.active
  BY <1>3, PresentIsHonest DEF Read
<1>4. CASE /\ state.present /\ srv.active
           /\ (state.version # 0 /\ state.version # srv.version) \/ state.secret = 0
  <2> HIDE DEF merged
  <2> DEFINE dropped == [merged EXCEPT !.secret = 0, !.rotationRequired = TRUE]
  <2>1. dropped \in State /\ dropped.secret = 0 /\ dropped.version = srv.version
        /\ dropped.owner = srv.owner /\ dropped.rev = srv.rev /\ dropped.rotationRequired
    BY <1>1 DEF State
  <2>2. Read(state) = dropped
    BY <1>4 DEF Read, merged
  <2> HIDE DEF dropped
  <2> QED
    BY <1>2, <2>1, <2>2 DEF HonestState, Linked, Flagged, Current
<1>5. CASE /\ state.present /\ srv.active
           /\ state.version = 0 \/ state.version = srv.version
           /\ state.secret # 0
  <2> HIDE DEF merged
  <2> DEFINE kept == [merged EXCEPT !.rotationRequired = FALSE]
  <2>1. kept \in State /\ kept.secret = state.secret /\ kept.version = srv.version
        /\ kept.owner = srv.owner /\ kept.rev = srv.rev /\ ~kept.rotationRequired
    BY <1>1 DEF State
  <2>2. Read(state) = kept
    BY <1>5 DEF Read, merged
  <2>3. state.secret = srv.version
    BY <1>5 DEF Linked
  <2> HIDE DEF kept
  <2> QED
    BY <1>2, <1>5, <2>1, <2>2, <2>3 DEF HonestState, Linked, Flagged, Current
<1> QED
  BY <1>3, <1>4, <1>5

(* A plan is made for an honest state.                                     *)
LEMMA PlannedIsHonest ==
    ASSUME Inv, NEW prior, HonestState(prior), NEW known \in BOOLEAN,
           NEW kind \in {"create", "update", "delete"},
           Planned(kind, prior, known)
    PROVE  job' \in Job /\ HonestState(job'.prior) /\ job'.reissues = 0
<1>1. ModifyPlanAnnounces(prior, config.trigger, config.adopt, known) \in BOOLEAN
  BY DEF ModifyPlanAnnounces
<1>2. Known(prior.version) \in SUBSET Nat
  BY DEF Known, HonestState, State
<1>3. job' = [NoJob EXCEPT
        !.kind = kind, !.prior = prior, !.trigger = config.trigger, !.adopt = config.adopt,
        !.known = known, !.observed = Known(prior.version),
        !.announced = ModifyPlanAnnounces(prior, config.trigger, config.adopt, known)]
  BY DEF Planned
<1>4. prior \in State /\ NoJob \in Job /\ NoJob.reissues = 0 /\ config.trigger \in Nat /\ config.adopt \in BOOLEAN
  BY PresentIsHonest DEF HonestState
<1>5. job' \in Job /\ job'.prior = prior /\ job'.reissues = 0
  BY <1>1, <1>2, <1>3, <1>4 DEF Job
<1> QED
  BY <1>5
LEMMA PlanInv ==
    ASSUME Inv, Plan
    PROVE  Inv'
<1> DEFINE prior == Read(tf)
<1>1. HonestState(prior)
  BY PresentIsHonest, ReadIsHonest DEF HonestState
<1> HIDE DEF prior
<1>2. PlanCreate(prior, TRUE) \/ PlanUpdate(prior, TRUE) \/ PlanDestroy(prior)
  BY DEF Plan, prior
<1>3. \E kind \in {"create", "update", "delete"} : Planned(kind, prior, TRUE)
  BY <1>2 DEF PlanCreate, PlanUpdate, PlanDestroy
<1>4. job' \in Job /\ HonestState(job'.prior) /\ job'.reissues = 0
  BY <1>1, <1>3, PlannedIsHonest
<1>5. UNCHANGED <<srv, live, late, tf, config, call, budget>>
  BY DEF Plan
<1> QED
  BY <1>4, <1>5, PresentIsHonest, WorkspaceStepInv

LEMMA PlanOtherwiseInv ==
    ASSUME Inv, PlanOtherwise
    PROVE  Inv'
<1> DEFINE prior == Read(tf)
<1>1. HonestState(tf) /\ HonestState(prior)
  BY PresentIsHonest, ReadIsHonest DEF HonestState
<1> HIDE DEF prior
<1>2. ASSUME PlanReplace(prior)
      PROVE  job' \in Job /\ HonestState(job'.prior) /\ job'.reissues = 0
  <2>1. job' = [NoJob EXCEPT
           !.kind = "delete", !.prior = prior, !.trigger = config.trigger,
           !.adopt = config.adopt, !.replaces = TRUE, !.observed = Known(prior.version)]
    BY <1>2 DEF PlanReplace
  <2>2. /\ prior \in State /\ NoJob \in Job /\ NoJob.reissues = 0 /\ config.trigger \in Nat
        /\ config.adopt \in BOOLEAN /\ Known(prior.version) \in SUBSET Nat
    BY <1>1, PresentIsHonest DEF HonestState, Known, State
  <2>3. job' \in Job /\ job'.prior = prior /\ job'.reissues = 0
    BY <2>1, <2>2 DEF Job
  <2> QED
    BY <1>1, <2>3
<1>3. ASSUME \/ PlanCreate(tf, TRUE) \/ PlanUpdate(tf, TRUE) \/ PlanDestroy(tf)
             \/ PlanUpdate(prior, FALSE)
      PROVE  job' \in Job /\ HonestState(job'.prior) /\ job'.reissues = 0
  <2>1. \E kind \in {"create", "update", "delete"}, known \in BOOLEAN :
           Planned(kind, tf, known) \/ Planned(kind, prior, known)
    BY <1>3 DEF PlanCreate, PlanUpdate, PlanDestroy
  <2> QED
    BY <1>1, <2>1, PlannedIsHonest
<1>4. job' \in Job /\ HonestState(job'.prior) /\ job'.reissues = 0
  BY <1>2, <1>3 DEF PlanOtherwise, prior
<1>5. UNCHANGED <<srv, live, late, tf, config, call>> /\ Spend("edits")
  BY DEF PlanOtherwise
<1>6. budget' \in [disturbances : Nat, losses : Nat, edits : Nat]
  BY <1>5, SpendType DEF Inv
<1> QED
  BY <1>4, <1>5, <1>6, PresentIsHonest, WorkspaceStepInv

LEMMA RefreshInv ==
    ASSUME Inv, Refresh \/ ImportState
    PROVE  Inv'
<1> DEFINE identity == [Absent EXCEPT !.present = TRUE]
<1>1. identity \in State /\ Linked(identity)
  BY DEF Absent, State, Linked
<1> HIDE DEF identity
<1>2. HonestState(Read(tf)) /\ HonestState(Read(identity))
  BY <1>1, PresentIsHonest, ReadIsHonest DEF HonestState
<1>3. HonestState(tf')
  BY <1>2 DEF Refresh, ImportState, identity
<1>4. UNCHANGED <<srv, live, late, config, job, call, budget>>
  BY DEF Refresh, ImportState
<1> QED
  BY <1>3, <1>4, PresentIsHonest, WorkspaceStepInv

(* A call is well formed when its operation and revision are.              *)
LEMMA RequestType ==
    ASSUME NEW op \in Operations \cup {"get"}, NEW rev \in Nat, Inv, UNCHANGED srv,
           Request(op, rev)
    PROVE  call' \in Calling /\ Answered(call') /\ call'.op = op
<1>1. call' \in Calling /\ call'.reply = NoCall.reply /\ call'.op = op
  BY PresentIsHonest DEF Request, Calling
<1> QED
  BY <1>1, PresentIsHonest DEF Answered, Numbered, NoCall, NoReply

LEMMA BeginInv ==
    ASSUME Inv, Begin
    PROVE  Inv'
<1>1. UNCHANGED <<srv, live, late, config, budget>>
  BY DEF Begin
<1>2. HonestState(job.prior) /\ job.prior.rev \in Nat /\ job \in Job
  BY PresentIsHonest DEF HonestState, State
<1>3. HonestState(tf')
  <2>1. CASE tf' = job.prior
    BY <1>2, <2>1
  <2>2. CASE tf' = stateWithoutMutation(job.prior, job)
    <3>1. /\ tf' \in State /\ tf'.secret = job.prior.secret
          /\ tf'.version = job.prior.version /\ tf'.rev = job.prior.rev
          /\ tf'.owner = job.prior.owner
          /\ tf'.rotationRequired = job.prior.rotationRequired
          /\ tf'.present = job.prior.present
      BY <1>2, <2>2 DEF stateWithoutMutation, HonestState, State, Job
    <3> QED
      BY <1>2, <3>1 DEF HonestState, Linked, Flagged, Current
  <2> QED
    BY <2>1, <2>2 DEF Begin, BeginCreate, BeginUpdate, BeginDelete
<1>4. \/ UNCHANGED job /\ \E op \in Operations \ {"reissue"}, rev \in Nat : Request(op, rev)
      \/ Return
  BY <1>2 DEF Begin, BeginCreate, BeginUpdate, BeginDelete, IfMatch, Operations
<1>5. job' \in Job /\ HonestState(job'.prior) /\ call' \in Calling /\ Answered(call')
  BY <1>1, <1>2, <1>4, RequestType, PresentIsHonest DEF Return
<1>6. job'.reissues = 0
  <2>1. call.op # "reissue"
    BY DEF Begin, NoCall
  <2> QED
    BY <1>4, <2>1, PresentIsHonest DEF Return
<1> QED
  BY <1>1, <1>3, <1>5, <1>6, PresentIsHonest, WorkspaceStepInv

LEMMA MisdirectInv ==
    ASSUME Inv, Misdirect \/ MisdirectRead
    PROVE  Inv'
<1>1. UNCHANGED <<srv, live, late, config>> /\ Spend("losses")
  BY DEF Misdirect, MisdirectRead
<1>2. budget' \in [disturbances : Nat, losses : Nat, edits : Nat]
  BY <1>1, SpendType DEF Inv
<1>3. CASE Misdirect
  <2>1. PICK kind \in {"not_found", "ok"} :
           (kind = "ok" => call.op = "delete") /\ call' = [call EXCEPT !.reply = Refusal(kind)]
    BY <1>3 DEF Misdirect
  <2>2. /\ Refusal(kind) \in Reply /\ Current(Refusal(kind))
        /\ kind = "not_found" => Numbered(Refusal(kind))
    BY DEF Refusal, NoReply, Reply, Current, Inv, TypeOK, Credential, ActiveIsNumbered, Numbered
  <2>3. call' \in Calling /\ call'.reply = Refusal(kind) /\ call'.op = call.op
    BY <2>1, <2>2, PresentIsHonest DEF Calling
  <2>5. Answered(call')
    BY <2>1, <2>2, <2>3 DEF Answered, IssuesSecret
  <2>4. UNCHANGED <<tf, job>>
    BY <1>3 DEF Misdirect
  <2> QED
    BY <1>1, <1>2, <2>3, <2>4, <2>5, PresentIsHonest, WorkspaceStepInv
<1>4. CASE MisdirectRead
  <2>1. /\ UNCHANGED call
        /\ \/ UNCHANGED tf /\ Planned("create", Absent, TRUE)
           \/ UNCHANGED job /\ tf' = Absent
    BY <1>4 DEF MisdirectRead, PlanCreate
  <2>2. job' \in Job /\ HonestState(job'.prior) /\ HonestState(tf')
    BY <2>1, PlannedIsHonest, PresentIsHonest
  <2>3. call'.op # "reissue" => job'.reissues = 0
    BY <2>1, PlannedIsHonest, PresentIsHonest
  <2> QED
    BY <1>1, <1>2, <2>1, <2>2, <2>3, PresentIsHonest, WorkspaceStepInv
<1> QED
  BY <1>3, <1>4

LEMMA InterruptInv ==
    ASSUME Inv, Interrupt
    PROVE  Inv'
<1>1. UNCHANGED <<srv, live, config, tf>> /\ Return /\ Spend("losses")
  BY DEF Interrupt, ReturnError
<1>2. late' \subseteq [op : Operations, rev : Nat, adopt : BOOLEAN, observed : SUBSET Nat]
  <2>1. CASE late' = late
    BY <2>1, PresentIsHonest
  <2>2. CASE /\ IssuesSecret(call.op) \/ call.op = "delete"
             /\ late' = late \cup {[op |-> call.op, rev |-> call.rev,
                                   adopt |-> job.adopt, observed |-> job.observed]}
    BY <2>2, PresentIsHonest DEF IssuesSecret, Operations, Job, Calling
  <2> QED
    BY <2>1, <2>2 DEF Interrupt
<1>3. budget' \in [disturbances : Nat, losses : Nat, edits : Nat]
  BY <1>1, SpendType DEF Inv
<1>4. job' = NoJob /\ call' = NoCall
  BY <1>1 DEF Return
<1> QED
  BY <1>1, <1>2, <1>3, <1>4, PresentIsHonest, WorkspaceStepInv

(* The plaintext of a reply is stored with the version it belongs to.      *)
LEMMA StoredIsHonest ==
    ASSUME Inv, IssuesSecret(call.op), KeepsContract(call.reply)
    PROVE  HonestState(stateFromMutation(job, call.reply))
<1>1. /\ job.trigger \in Nat /\ job.adopt \in BOOLEAN
      /\ call.reply \in Reply /\ Current(call.reply) /\ call.reply.version > 0
  BY PresentIsHonest DEF Job, Calling, Answered, Numbered, KeepsContract
<1> QED
  BY <1>1 DEF stateFromMutation, HonestState, State, Reply, Linked, Flagged, Current

LEMMA ReceiveInv ==
    ASSUME Inv, Receive
    PROVE  Inv'
<1>1. UNCHANGED <<srv, live, late, config, budget>>
  BY DEF Receive
<1>2. /\ job \in Job /\ call \in Calling /\ call.reply.rev \in Nat
      /\ call.reply.version \in Nat
  BY PresentIsHonest DEF Calling, Reply
<1>3. CASE StoreSecret
  BY <1>1, <1>3, StoredIsHonest, PresentIsHonest, WorkspaceStepInv DEF StoreSecret, Return
<1>4. CASE reissueSecret
  <2>1. job.reissues + 1 \in 0..maxSecretReissueAttempts
    <3>1. job.reissues \in 0..maxSecretReissueAttempts
      BY <1>2 DEF Job
    <3>2. job.reissues = 0 \/ job.reissues < maxSecretReissueAttempts
      BY <1>4, PresentIsHonest DEF reissueSecret, MayReissue
    <3> QED
      BY <3>1, <3>2, BoundsAssumption
  <2>2. job' \in Job /\ job'.prior = job.prior
    BY <1>2, <1>4, <2>1 DEF reissueSecret, Job
  <2>3. call' \in Calling /\ Answered(call') /\ call'.op = "reissue"
    BY <1>1, <1>2, <1>4, RequestType DEF reissueSecret, Revocation, Operations
  <2> QED
    BY <1>1, <1>4, <2>2, <2>3, PresentIsHonest, WorkspaceStepInv DEF reissueSecret
<1>5. CASE adoptExistingReads
  <2>1. call' \in Calling /\ Answered(call') /\ job.reissues = 0
    BY <1>1, <1>5, RequestType, PresentIsHonest DEF adoptExistingReads
  <2> QED
    BY <1>1, <1>5, <2>1, PresentIsHonest, WorkspaceStepInv DEF adoptExistingReads
<1>6. CASE adoptExistingAdopts
  <2>1. call' \in Calling /\ Answered(call')
    BY <1>1, <1>2, <1>6, RequestType DEF adoptExistingAdopts, Operations
  <2>2. job' \in Job /\ job'.prior = job.prior /\ job'.reissues = job.reissues
    BY <1>2, <1>6 DEF adoptExistingAdopts, Observe, Known, Job
  <2>3. job.reissues = 0
    BY <1>6, PresentIsHonest DEF adoptExistingAdopts
  <2> QED
    BY <1>1, <1>6, <2>1, <2>2, <2>3, PresentIsHonest, WorkspaceStepInv DEF adoptExistingAdopts
<1>7. CASE FinishDelete
  <2>1. Absent \in State
    BY PresentIsHonest DEF HonestState
  <2>2. job' \in Job /\ job'.prior = Absent /\ job'.reissues = 0
    <3>0. job.reissues = 0
      BY <1>7, PresentIsHonest DEF FinishDelete
    <3>1. CASE job' = [job EXCEPT !.kind = "create", !.prior = Absent, !.replaces = FALSE]
      BY <1>2, <2>1, <3>0, <3>1 DEF Job
    <3>2. CASE job' = NoJob
      BY <3>2, PresentIsHonest
    <3> QED
      BY <1>7, <3>1, <3>2 DEF FinishDelete
  <2> QED
    BY <1>1, <1>7, <2>2, PresentIsHonest, WorkspaceStepInv DEF FinishDelete
<1>8. CASE ReportError
  BY <1>1, <1>8, PresentIsHonest, WorkspaceStepInv DEF ReportError, ReturnError, Return
<1> QED
  BY <1>3, <1>4, <1>5, <1>6, <1>7, <1>8 DEF Receive

-----------------------------------------------------------------------------
LEMMA InitNewIsHonest ==
    ASSUME InitNew
    PROVE  /\ srv \in Credential /\ (srv.active => srv.rev > 0 /\ srv.version > 0)
           /\ HonestState(tf)
           /\ config \in [wanted : BOOLEAN, trigger : Triggers, adopt : BOOLEAN]
<1>1. srv \in Credential /\ (srv.active => srv.rev > 0 /\ srv.version > 0) /\ srv.rev \in Nat
  <2>1. NoBinding \in Credential /\ ~NoBinding.active /\ NoBinding.rev = 0 /\ NoBinding.version = 0
    BY DEF NoBinding, Credential
  <2>2. ASSUME NEW owner \in Owners
        PROVE  Issue(NoBinding, owner) \in Credential /\ Issue(NoBinding, owner).rev = 1
               /\ Issue(NoBinding, owner).version = 1
    BY <2>1 DEF Issue, Credential
  <2> QED
    BY <2>1, <2>2 DEF InitNew, Owners
<1>2. Absent \in State /\ Absent.rev = 0 /\ Absent.secret = 0 /\ ~Absent.present
  BY DEF Absent, State
<1>3. config \in [wanted : BOOLEAN, trigger : Triggers, adopt : BOOLEAN]
  BY BoundsAssumption DEF InitNew
<1> QED
  BY <1>1, <1>2, <1>3 DEF InitNew, HonestState, Linked, Flagged, Current

(* A version 0 state is honest too.                                        *)
LEMMA InitVersion0IsHonest ==
    ASSUME InitVersion0
    PROVE  /\ srv \in Credential /\ (srv.active => srv.rev > 0 /\ srv.version > 0)
           /\ HonestState(tf)
           /\ config \in [wanted : BOOLEAN, trigger : Triggers, adopt : BOOLEAN]
<1>1. PICK owner \in Owners : srv = Issue(NoBinding, owner)
  BY DEF InitVersion0
<1>2. srv = [active |-> TRUE, owner |-> owner, version |-> 1, rev |-> 1]
  BY <1>1 DEF Issue, NoBinding
<1>3. /\ tf \in V0States(srv)
      /\ config = [wanted |-> TRUE, trigger |-> tf.trigger, adopt |-> tf.adopt]
  BY DEF InitVersion0
<1>5. PICK trigger \in Triggers, adopt \in BOOLEAN, secret \in {0, 1} :
        tf = [present |-> TRUE, trigger |-> trigger, adopt |-> adopt, secret |-> secret,
              version |-> 1, rotationRequired |-> secret = 0, owner |-> owner, rev |-> 1]
  BY <1>2, <1>3 DEF V0States
<1>6. srv \in Credential /\ HonestState(tf)
  <2>1. srv \in Credential /\ trigger \in Nat /\ secret \in Nat /\ owner \in Owners \cup {"none"}
    BY <1>2, BoundsAssumption DEF Credential, Owners
  <2>2. (secret = 0) \in BOOLEAN
    OBVIOUS
  <2>3. tf \in State
    BY <1>5, <2>1, <2>2 DEF State
  <2>4. tf.rotationRequired <=> secret = 0
    BY <1>5, Zenon
  <2>5. tf.secret = secret /\ tf.version = 1 /\ tf.owner = owner /\ tf.rev = 1
    BY <1>5, Zenon
  <2> QED
    BY <1>2, <2>1, <2>3, <2>4, <2>5 DEF HonestState, Linked, Flagged, Current
<1>7. config \in [wanted : BOOLEAN, trigger : Triggers, adopt : BOOLEAN]
  <2>1. tf.trigger = trigger /\ tf.adopt = adopt
    BY <1>5, Zenon
  <2> QED
    BY <1>3, <2>1
<1> QED
  BY <1>2, <1>6, <1>7

(* Whoever begins has a job of the right type that rests on nothing.       *)
LEMMA FirstJob ==
    ASSUME Init
    PROVE  /\ job \in Job /\ job.kind \in {"none", "upgrade"}
           /\ job.prior = Absent /\ job.reissues = 0 /\ job.lost = {}
           /\ Absent \in State /\ Absent.version = 0 /\ Absent.rev = 0 /\ Absent.secret = 0
           /\ ~Absent.present
<1>1. /\ Absent \in State /\ Absent.version = 0 /\ Absent.rev = 0 /\ Absent.secret = 0
      /\ ~Absent.present
  BY DEF Absent, State
<1>2. /\ NoJob \in Job /\ NoJob.kind = "none" /\ NoJob.prior = Absent /\ NoJob.reissues = 0
      /\ NoJob.lost = {}
  BY <1>1, BoundsAssumption DEF NoJob, Job
<1>3. job = NoJob \/ job = [NoJob EXCEPT !.kind = "upgrade"]
  BY DEF Init, InitNew, InitVersion0
<1> QED
  BY <1>1, <1>2, <1>3 DEF Job

LEMMA InitInv == Init => Inv
<1> SUFFICES ASSUME Init PROVE Inv
  OBVIOUS
<1>1. /\ srv \in Credential /\ (srv.active => srv.rev > 0 /\ srv.version > 0)
      /\ HonestState(tf)
      /\ config \in [wanted : BOOLEAN, trigger : Triggers, adopt : BOOLEAN]
  BY InitNewIsHonest, InitVersion0IsHonest DEF Init
<1>2. srv.rev \in Nat /\ live \subseteq Nat
  BY <1>1 DEF Init, Credential
<1>3. Absent \in State /\ Absent.rev = 0 /\ Absent.secret = 0 /\ ~Absent.present
  BY FirstJob
<1>4. job \in Job /\ job.prior = Absent /\ job.reissues = 0 /\ HonestState(Absent)
  <2>1. srv.active => srv.rev # 0
    BY <1>1, <1>2
  <2> QED
    BY <1>2, <1>3, <2>1, FirstJob DEF HonestState, Linked, Flagged, Current
<1>5. NoCall \in Calling /\ NoCall.op = "none" /\ NoCall.reply.rev = 0
  BY DEF NoCall, NoReply, Calling, Reply
<1>6. budget \in [disturbances : Nat, losses : Nat, edits : Nat]
  BY BoundsAssumption DEF Init
<1>7. TypeOK
  BY <1>1, <1>2, <1>4, <1>5, <1>6 DEF Init, TypeOK, HonestState, Job, Calling
<1>8. StateIsHonest
  BY <1>1, <1>2, <1>4, <1>5 DEF Init, StateIsHonest, HonestState, Linked, Flagged, Current
<1> QED
  BY <1>1, <1>4, <1>5, <1>7, <1>8 DEF Init, Inv, ActiveIsNumbered, ReissuesCounted,
     RepliesAreNumbered, IssuesSecret

(* An upgrade keeps every attribute.                                       *)
LEMMA UpgradeKeepsAll ==
    ASSUME NEW state \in State
    PROVE  UpgradeState(state) = state
BY DEF UpgradeState, State

LEMMA UpgradeInv ==
    ASSUME Inv, Upgrade
    PROVE  Inv'
<1>1. tf' = tf /\ job' = NoJob /\ UNCHANGED <<srv, live, late, config, call, budget>>
  BY UpgradeKeepsAll, PresentIsHonest DEF Upgrade, HonestState
<1> QED
  BY <1>1, PresentIsHonest, WorkspaceStepInv

LEMMA NextInv == Inv /\ [Next]_vars => Inv'
<1> SUFFICES ASSUME Inv, [Next]_vars PROVE Inv'
  OBVIOUS
<1>1. CASE UNCHANGED vars
  BY <1>1, PresentIsHonest, WorkspaceStepInv DEF vars
<1>2. CASE Next
  BY <1>2, PlanInv, PlanOtherwiseInv, RefreshInv, BeginInv, ReceiveInv, ExecuteInv,
     QuietStepsInv, MisdirectInv, InterruptInv, ExecuteLateInv, DisturbInv, UpgradeInv DEF Next
<1> QED
  BY <1>1, <1>2

(* Types, whatever is bounded by how much.                                 *)
THEOREM LifecycleTypes == Spec => []TypeOK
<1>1. Init => Inv
  BY InitInv
<1>2. Inv /\ [Next]_vars => Inv'
  BY NextInv
<1>3. Inv => TypeOK
  BY DEF Inv
<1> QED
  BY <1>1, <1>2, <1>3, PTL DEF Spec

(* However often the binding is changed by others, responses are lost and  *)
(* operations cut off, in a new workspace or in one that version 0 of the  *)
(* resource wrote: a secret in the state belongs to the version beside it, *)
(* and while the state names Pulse's revision it is the active one.        *)
THEOREM StateStaysHonest == Spec => []StateIsHonest
<1>1. Init => Inv
  BY InitInv
<1>2. Inv /\ [Next]_vars => Inv'
  BY NextInv
<1>3. Inv => StateIsHonest
  BY DEF Inv
<1> QED
  BY <1>1, <1>2, <1>3, PTL DEF Spec

-----------------------------------------------------------------------------
(* What the steps may never do: change a version unseen, touch what a      *)
(* person owns, leave a lost credential alive, throw the secret away, or   *)
(* apply what was not planned.                                             *)

(* A request that Pulse guards by a revision was built from a state of     *)
(* that revision: should it still be the present one, the workspace has    *)
(* seen its version and, to adopt it, has the configuration's consent.     *)
SafeFor(op, rev, observed, adopt, s) ==
    /\ op = "adopt" => adopt
    /\ op \in {"adopt", "rotate", "reissue", "delete"} =>
           /\ 0 < rev /\ rev <= s.rev
           /\ s.active /\ rev = s.rev =>
                  s.version \in observed /\ (op # "adopt" => s.owner # "human")
RequestsAreSafe(s) ==
    /\ SafeFor(call.op, call.rev, job.observed, job.adopt, s)
    /\ \A request \in late :
           SafeFor(request.op, request.rev, request.observed, request.adopt, s)

(* A job rests on a state with a revision, whose version it counts as seen. *)
JobIsGrounded ==
    /\ tf.present => tf.rev > 0
    /\ job.prior.present => job.prior.rev > 0
    /\ job.kind \in {"update", "delete"} => job.prior.present
    /\ Known(job.prior.version) \subseteq job.observed
    /\ call.op = "get" => job.adopt
    /\ job.kind \in {"none", "upgrade"} => call = NoCall

(* What a reply that tells of a version says of it.                        *)
Tells(reply) == reply.kind \in {"ok", "secret_reissue_required"}
RepliesAreOurs(s) ==
    Tells(call.reply) /\ call.op # "delete" =>
        /\ call.reply.rev > 0 /\ call.reply.version <= s.version
        /\ call.op # "get" => call.reply.owner # "human"

(* Versions whose plaintext was lost are on their way out: only a reissue  *)
(* knows any, and it revokes the one that is left.                         *)
LostAreLeaving(s, l) ==
    /\ \A version \in job.lost : version <= s.version
    /\ call.op # "reissue" => job.lost = {}
    /\ call.op = "reissue" /\ s.active /\ call.rev = s.rev => job.lost \cap l \subseteq {s.version}
    /\ call.op = "reissue" /\ Tells(call.reply) => job.lost \cap l = {}

(* No plan that is about to be applied has lost the secret held, a reply   *)
(* brings a newer one, and only a stranger calls a held binding gone.      *)
Gone(reply) == reply.kind \in {"ok", "not_found"}
HeldBy(s) == tf.secret # 0 /\ s.active /\ tf.secret = s.version
SecretsAreNewest(s) ==
    /\ (tf.secret # 0 => tf.present) /\ (job.prior.secret # 0 => job.prior.present)
    /\ tf.secret <= s.version /\ job.prior.secret <= s.version
    /\ job.kind # "none" /\ call.op = "none" /\ HeldBy(s) =>
           job.prior.secret = tf.secret \/ ~job.prior.present
    /\ IssuesSecret(call.op) /\ call.reply.kind = "ok" => tf.secret < call.reply.version
    /\ call.op = "delete" /\ Gone(call.reply) /\ HeldBy(s) =>
           call.reply \in {Refusal("not_found"), Refusal("ok")}

GuardInv ==
    /\ RequestsAreSafe(srv) /\ JobIsGrounded /\ RepliesAreOurs(srv)
    /\ LostAreLeaving(srv, live) /\ SecretsAreNewest(srv)

-----------------------------------------------------------------------------
(* What anyone's change of the binding is like.                            *)
ServerMoves(s, l) ==
    /\ s \in Credential /\ s.version >= srv.version
    /\ \/ s = srv /\ l \subseteq live
       \/ s.rev = srv.rev + 1 /\ \A version \in l : version \in live \/ version > srv.version
    /\ s.active /\ s.version = srv.version => srv.active

Guards == {"adopt", "rotate", "reissue", "delete"}

(* What Pulse makes of a request, as far as the guards are concerned.      *)
OutcomeOf(op, rev, s, l, reply) ==
    /\ ServerMoves(s, l)
    /\ srv.active /\ s # srv => op \in Guards /\ (rev = 0 \/ rev = srv.rev)
    /\ IssuesSecret(op) /\ reply.kind = "ok" => reply.version = srv.version + 1
    /\ Tells(reply) /\ op # "delete" =>
           /\ reply.rev > 0 /\ reply.version <= s.version
           /\ op \in {"upsert", "adopt"} => reply.owner # "human"
           /\ op \in {"rotate", "reissue"} =>
                  srv.active /\ (rev = 0 \/ rev = srv.rev) /\ reply.owner = srv.owner
           /\ op = "reissue" => \A version \in l :
                  \/ version \in live /\ version # srv.version
                  \/ version > srv.version

LEMMA RefusedOutcome ==
    ASSUME Inv, NEW op, NEW rev,
           NEW kind \in {"not_found", "stale_revision", "conflict", "already_exists",
                         "ownership_conflict"}
    PROVE  OutcomeOf(op, rev, srv, live, Refusal(kind))
BY DEF Inv, TypeOK, Credential, OutcomeOf, ServerMoves, Refusal, NoReply, Tells

LEMMA IssuedOutcome ==
    ASSUME Inv, NEW op \in {"upsert", "adopt", "rotate", "reissue"}, NEW rev,
           NEW owner \in Owners \cup {"none"}, NEW kept \in SUBSET live,
           srv.active => op # "upsert" /\ (rev = 0 \/ rev = srv.rev),
           op \in {"upsert", "adopt"} => owner = "automation",
           op \in {"rotate", "reissue"} => srv.active /\ owner = srv.owner,
           op = "reissue" => kept = live \ {srv.version}
    PROVE  OutcomeOf(op, rev, Issued(owner, kept).srv, Issued(owner, kept).live,
                     Issued(owner, kept).reply)
<1> DEFINE next == Issue(srv, owner)
<1>1. /\ next \in Credential /\ next.rev = srv.rev + 1 /\ next.version = srv.version + 1
      /\ srv.rev \in Nat /\ srv.version \in Nat /\ next.owner = owner
  BY DEF Inv, TypeOK, Issue, Credential
<1>2. Issued(owner, kept).srv = next /\ Issued(owner, kept).live = kept \cup {srv.version + 1}
  BY <1>1 DEF Issued
<1>3. /\ Issued(owner, kept).reply.kind = "ok" /\ Issued(owner, kept).reply.owner = owner
      /\ Issued(owner, kept).reply.rev = srv.rev + 1
      /\ Issued(owner, kept).reply.version = srv.version + 1
  BY <1>1 DEF Issued, Metadata
<1> HIDE DEF next
<1>4. ServerMoves(next, kept \cup {srv.version + 1})
  BY <1>1 DEF ServerMoves
<1> QED
  BY <1>1, <1>2, <1>3, <1>4 DEF OutcomeOf, Guards, Tells

LEMMA ExecutedOutcome ==
    ASSUME Inv, NEW op \in Operations \cup {"get"}, NEW rev \in Nat,
           NEW outcome \in Executed(op, rev)
    PROVE  OutcomeOf(op, rev, outcome.srv, outcome.live, outcome.reply)
<1> DEFINE Shows(o) == OutcomeOf(op, rev, o.srv, o.live, o.reply)
<1>1. srv \in Credential /\ live \in SUBSET Nat /\ (srv.active => srv.rev > 0 /\ srv.version > 0)
  BY DEF Inv, TypeOK, ActiveIsNumbered
<1>2. \A kind \in {"not_found", "stale_revision", "conflict", "already_exists",
                   "ownership_conflict"} : Shows(Unchanged(Refusal(kind)))
  BY RefusedOutcome DEF Unchanged
<1>3. srv.owner \in Owners \cup {"none"} /\ {} \in SUBSET live /\ live \in SUBSET live
      /\ live \ {srv.version} \in SUBSET live /\ "automation" \in Owners \cup {"none"}
  BY <1>1 DEF Credential, Owners
<1> DEFINE Allowed == srv.active /\ (rev = 0 \/ rev = srv.rev)
<1>4. \/ \E kind \in {"not_found", "stale_revision"} : outcome = Unchanged(Refusal(kind))
      \/ op \in {"upsert", "get"} \/ Allowed
  BY DEF Executed, Guarded, Operations
<1>5. CASE op = "upsert"
  <2>1. outcome \in Upserted
    BY <1>5 DEF Executed
  <2>2. CASE ~srv.active
    BY <1>3, <1>5, <2>1, <2>2, IssuedOutcome DEF Upserted
  <2>3. CASE srv.active /\ outcome = Unchanged(Metadata("secret_reissue_required", srv))
             /\ srv.owner # "human"
    BY <1>1, <1>5, <2>3 DEF Unchanged, Metadata, OutcomeOf, ServerMoves, Tells, Credential
  <2> QED
    BY <1>2, <2>1, <2>2, <2>3 DEF Upserted
<1>6. CASE op = "get"
  <2>1. \/ srv.active /\ outcome = Unchanged(Metadata("ok", srv))
        \/ outcome = Unchanged(Refusal("not_found"))
    BY <1>6 DEF Executed, Guarded
  <2>2. srv.active => Shows(Unchanged(Metadata("ok", srv)))
    BY <1>1, <1>6 DEF Unchanged, Metadata, OutcomeOf, ServerMoves, Tells, Credential, IssuesSecret
  <2> QED
    BY <1>2, <2>1, <2>2
<1>7. CASE op = "adopt" /\ Allowed
  <2>1. outcome \in {Issued("automation", live), Issued("automation", {}), Unchanged(Refusal("conflict"))}
    BY <1>7 DEF Executed, Guarded
  <2> QED
    BY <1>2, <1>3, <1>7, <2>1, IssuedOutcome
<1>8. CASE op = "rotate" /\ Allowed
  <2>1. outcome = Issued(srv.owner, live)
    BY <1>8 DEF Executed, Guarded
  <2> QED
    BY <1>3, <1>8, <2>1, IssuedOutcome
<1>9. CASE op = "reissue" /\ Allowed
  <2>1. outcome = Issued(srv.owner, live \ {srv.version})
    BY <1>9 DEF Executed, Guarded
  <2> QED
    BY <1>3, <1>9, <2>1, IssuedOutcome
<1>10. CASE op = "delete" /\ Allowed
  <2>1. outcome = [srv |-> Archive(srv), live |-> {}, reply |-> Metadata("ok", Archive(srv))]
    BY <1>10 DEF Executed, Guarded
  <2>2. ServerMoves(Archive(srv), {})
    BY <1>1 DEF ServerMoves, Archive, Credential
  <2> QED
    BY <1>10, <2>1, <2>2 DEF OutcomeOf, Guards, IssuesSecret
<1> QED
  BY <1>2, <1>4, <1>5, <1>6, <1>7, <1>8, <1>9, <1>10 DEF Operations

-----------------------------------------------------------------------------
(* Whoever changes the binding, what the workspace holds ages safely.      *)
LEMMA RequestsAge ==
    ASSUME Inv, RequestsAreSafe(srv), ServerMoves(srv', live'),
           job' = job, call'.op = call.op, call'.rev = call.rev, late' \subseteq late
    PROVE  RequestsAreSafe(srv)'
<1>1. ASSUME NEW op, NEW rev \in Nat, NEW observed, NEW adopt, SafeFor(op, rev, observed, adopt, srv)
      PROVE  SafeFor(op, rev, observed, adopt, srv')
  <2>1. srv.rev \in Nat
    BY DEF Inv, TypeOK, Credential
  <2> QED
    BY <1>1, <2>1 DEF SafeFor, ServerMoves
<1>2. call.rev \in Nat /\ \A request \in late : request.rev \in Nat
  BY DEF Inv, TypeOK
<1> QED
  BY <1>1, <1>2 DEF RequestsAreSafe

LEMMA LostAge ==
    ASSUME Inv, LostAreLeaving(srv, live), RequestsAreSafe(srv), ServerMoves(srv', live'),
           job' = job, call' = call
    PROVE  LostAreLeaving(srv, live)'
<1>1. srv.rev \in Nat /\ srv.version \in Nat /\ call.rev \in Nat /\ job.lost \in SUBSET Nat
  BY DEF Inv, TypeOK, Credential
<1>2. call.op = "reissue" => call.rev <= srv.rev
  BY DEF RequestsAreSafe, SafeFor
<1> QED
  BY <1>1, <1>2 DEF LostAreLeaving, ServerMoves, Credential

LEMMA SecretsAge ==
    ASSUME Inv, SecretsAreNewest(srv), ServerMoves(srv', live'), tf' = tf, job' = job, call' = call
    PROVE  SecretsAreNewest(srv)'
<1>1. /\ srv.version \in Nat /\ tf.secret \in Nat /\ job.prior.secret \in Nat
  BY DEF Inv, TypeOK, Credential, State
<1>2. HeldBy(srv)' => HeldBy(srv)
  BY <1>1 DEF HeldBy, ServerMoves, SecretsAreNewest, Credential
<1> QED
  BY <1>1, <1>2 DEF SecretsAreNewest, ServerMoves, Credential, IssuesSecret

LEMMA GuardsAge ==
    ASSUME Inv, GuardInv, ServerMoves(srv', live'), tf' = tf, job' = job, call' = call,
           late' \subseteq late
    PROVE  GuardInv'
<1>1. RequestsAreSafe(srv)' /\ LostAreLeaving(srv, live)' /\ SecretsAreNewest(srv)'
  BY RequestsAge, LostAge, SecretsAge DEF GuardInv
<1>2. JobIsGrounded'
  BY DEF GuardInv, JobIsGrounded, Known, NoCall, NoReply
<1>3. RepliesAreOurs(srv)'
  <2>1. call.reply.version \in Nat /\ srv.version \in Nat
    BY DEF Inv, TypeOK, Credential, Reply
  <2> QED
    BY <2>1 DEF GuardInv, RepliesAreOurs, Tells, ServerMoves, Credential
<1> QED
  BY <1>1, <1>2, <1>3 DEF GuardInv

LEMMA OthersKeepGuards ==
    ASSUME Inv, GuardInv, ExecuteLate \/ Disturb \/ Expire
    PROVE  GuardInv'
<1>0. srv \in Credential /\ live \in SUBSET Nat
  BY DEF Inv, TypeOK
<1>1. CASE ExecuteLate
  <2>1. PICK request \in late : Carry(request) /\ late' = late \ {request}
    BY <1>1 DEF ExecuteLate
  <2>2. request.op \in Operations /\ request.rev \in Nat
    BY <2>1 DEF Inv, TypeOK
  <2>3. PICK outcome \in Executed(request.op, request.rev) :
           srv' = outcome.srv /\ live' = outcome.live
    BY <2>1 DEF Carry
  <2>4. ServerMoves(srv', live')
    BY <2>2, <2>3, ExecutedOutcome DEF OutcomeOf
  <2> QED
    BY <1>1, <2>1, <2>4, GuardsAge DEF ExecuteLate
<1>2. CASE Disturb
  <2>1. ASSUME NEW owner \in Owners \cup {"none"}, srv' = Issue(srv, owner),
               live' \subseteq live \cup {srv'.version}
        PROVE  ServerMoves(srv', live')
    BY <1>0, <2>1 DEF ServerMoves, Issue, Credential
  <2>2. ASSUME srv.active, srv' = Archive(srv), live' = {}
        PROVE  ServerMoves(srv', live')
    BY <1>0, <2>2 DEF ServerMoves, Archive, Credential
  <2>3. ASSUME srv.active, srv' = [srv EXCEPT !.rev = @ + 1], live' = live
        PROVE  ServerMoves(srv', live')
    BY <1>0, <2>3 DEF ServerMoves, Credential
  <2>4. ServerMoves(srv', live')
    BY <1>0, <1>2, <2>1, <2>2, <2>3 DEF Disturb, Credential, Owners
  <2> QED
    BY <1>2, <2>4, GuardsAge DEF Disturb
<1>3. CASE Expire
  <2>1. ServerMoves(srv', live')
    BY <1>0, <1>3 DEF Expire, ServerMoves, Credential
  <2> QED
    BY <1>3, <2>1, GuardsAge DEF Expire
<1> QED
  BY <1>1, <1>2, <1>3

LEMMA ExecuteKeepsGuards ==
    ASSUME Inv, GuardInv, Execute
    PROVE  GuardInv'
<1>1. call.op \in Operations \cup {"get"} /\ call.rev \in Nat /\ call.reply = NoReply
  BY DEF Inv, TypeOK, Execute
<1>2. PICK outcome \in Executed(call.op, call.rev) :
         srv' = outcome.srv /\ live' = outcome.live /\ call' = [call EXCEPT !.reply = outcome.reply]
  BY DEF Execute
<1>3. OutcomeOf(call.op, call.rev, srv', live', outcome.reply)
  BY <1>1, <1>2, ExecutedOutcome
<1>4. call'.op = call.op /\ call'.rev = call.rev /\ call'.reply = outcome.reply
      /\ tf' = tf /\ job' = job /\ late' = late
  BY <1>2 DEF Execute, Inv, TypeOK
<1>5. ServerMoves(srv', live')
  BY <1>3 DEF OutcomeOf
<1>6. RequestsAreSafe(srv)' /\ JobIsGrounded'
  BY <1>1, <1>4, <1>5, RequestsAge DEF GuardInv, JobIsGrounded, Known, NoCall, Operations
<1>7. RepliesAreOurs(srv)'
  <2>1. \/ call.op \in {"upsert", "adopt", "get", "delete"}
        \/ call.op \in {"rotate", "reissue"}
    BY <1>1 DEF Operations
  <2>2. /\ Tells(outcome.reply) /\ call.op \in {"rotate", "reissue"} =>
               outcome.reply.owner = srv.owner /\ srv.owner # "human"
    BY <1>3, <1>1 DEF OutcomeOf, GuardInv, RequestsAreSafe, SafeFor
  <2> QED
    BY <1>3, <1>4, <2>1, <2>2 DEF RepliesAreOurs, OutcomeOf, Tells
<1>8. LostAreLeaving(srv, live)'
  <2>1. srv.rev \in Nat /\ srv.version \in Nat /\ job.lost \in SUBSET Nat
    BY DEF Inv, TypeOK, Credential
  <2>2. call.op = "reissue" => 0 < call.rev /\ call.rev <= srv.rev
    BY DEF GuardInv, RequestsAreSafe, SafeFor
  <2>3. call.op = "reissue" /\ Tells(outcome.reply) => job.lost \cap live' = {}
    BY <1>1, <1>3, <2>1, <2>2 DEF OutcomeOf, GuardInv, LostAreLeaving
  <2> QED
    BY <1>1, <1>4, <1>5, <2>1, <2>2, <2>3 DEF GuardInv, LostAreLeaving, ServerMoves, Credential
<1>9. SecretsAreNewest(srv)'
  <2>1. srv.version \in Nat /\ tf.secret \in Nat /\ job.prior.secret \in Nat /\ call.op # "none"
    BY <1>1 DEF Inv, TypeOK, Credential, State, Operations
  <2>2. call.op = "delete" =>
           \/ \E kind \in {"not_found", "stale_revision"} : outcome = Unchanged(Refusal(kind))
           \/ outcome.srv = Archive(srv)
    BY <1>2 DEF Executed, Guarded
  <2>3. ~Archive(srv).active /\ Refusal("stale_revision").kind = "stale_revision"
    BY DEF Archive, Refusal, NoReply
  <2>4. \A reply, s : Unchanged(reply).reply = reply
    BY DEF Unchanged
  <2>5. call.op = "delete" /\ Gone(outcome.reply) /\ HeldBy(srv') =>
           outcome.reply \in {Refusal("not_found"), Refusal("ok")}
    BY <1>2, <2>2, <2>3, <2>4 DEF Gone, HeldBy
  <2>6. HeldBy(srv)' <=> HeldBy(srv')
    BY <1>4 DEF HeldBy
  <2>7. call'.op = "delete" /\ Gone(call'.reply) /\ HeldBy(srv)' =>
           call'.reply \in {Refusal("not_found"), Refusal("ok")}
    BY <1>4, <2>5, <2>6
  <2>8. /\ (tf.secret # 0 => tf.present) /\ (job.prior.secret # 0 => job.prior.present)
        /\ tf.secret <= srv'.version /\ job.prior.secret <= srv'.version
        /\ IssuesSecret(call.op) /\ outcome.reply.kind = "ok" => tf.secret < outcome.reply.version
    BY <1>3, <1>5, <2>1 DEF GuardInv, SecretsAreNewest, OutcomeOf, ServerMoves, Credential
  <2> QED
    BY <1>4, <2>1, <2>7, <2>8 DEF SecretsAreNewest
<1> QED
  BY <1>6, <1>7, <1>8, <1>9 DEF GuardInv

-----------------------------------------------------------------------------
(* The workspace's own steps.                                              *)

(* A state a plan may rest on, or that may be stored.                      *)
Grounded(state) ==
    /\ state \in State
    /\ state.present => state.rev > 0
    /\ state.secret <= srv.version
    /\ state.secret # 0 => state.present

LEMMA ReadIsGrounded ==
    ASSUME Inv, NEW state \in State, Linked(state), state.secret <= srv.version
    PROVE  /\ Grounded(Read(state))
           /\ state.secret # 0 /\ srv.active /\ state.secret = srv.version /\ state.present =>
                  Read(state).secret = state.secret
<1> DEFINE merged == mergeRemoteIntegration(state, srv)
<1>1. /\ merged \in State /\ merged.secret = state.secret /\ merged.rev = srv.rev
      /\ merged.present = state.present
  BY DEF mergeRemoteIntegration, State, Inv, TypeOK, Credential
<1>2. srv.version \in Nat /\ (srv.active => srv.rev > 0)
  BY DEF Inv, TypeOK, Credential, ActiveIsNumbered
<1>3. CASE ~state.present \/ ~srv.active
  <2>1. Read(state) = Absent
    BY <1>3 DEF Read
  <2>2. Absent \in State /\ ~Absent.present /\ Absent.secret = 0
    BY DEF Absent, State
  <2> QED
    BY <1>2, <1>3, <2>1, <2>2 DEF Grounded
<1>4. CASE /\ state.present /\ srv.active
           /\ (state.version # 0 /\ state.version # srv.version) \/ state.secret = 0
  <2> HIDE DEF merged
  <2> DEFINE dropped == [merged EXCEPT !.secret = 0, !.rotationRequired = TRUE]
  <2>1. dropped \in State /\ dropped.secret = 0 /\ dropped.rev = srv.rev
    BY <1>1 DEF State
  <2>2. Read(state) = dropped
    BY <1>4 DEF Read, merged
  <2> HIDE DEF dropped
  <2>3. ~(state.secret # 0 /\ state.secret = srv.version)
    BY <1>2, <1>4 DEF Linked
  <2> QED
    BY <1>2, <1>4, <2>1, <2>2, <2>3 DEF Grounded
<1>5. CASE /\ state.present /\ srv.active
           /\ state.version = 0 \/ state.version = srv.version
           /\ state.secret # 0
  <2> HIDE DEF merged
  <2> DEFINE kept == [merged EXCEPT !.rotationRequired = FALSE]
  <2>1. kept \in State /\ kept.secret = state.secret /\ kept.rev = srv.rev /\ kept.present
    BY <1>1, <1>5 DEF State
  <2>2. Read(state) = kept
    BY <1>5 DEF Read, merged
  <2> HIDE DEF kept
  <2> QED
    BY <1>2, <1>5, <2>1, <2>2 DEF Grounded
<1> QED
  BY <1>3, <1>4, <1>5

LEMMA HeldIsGrounded ==
    ASSUME Inv, GuardInv
    PROVE  /\ Grounded(tf) /\ Grounded(Read(tf)) /\ Grounded(Absent)
           /\ HeldBy(srv) => Read(tf).secret = tf.secret
           /\ Grounded(job.prior)
<1>1. tf \in State /\ Linked(tf) /\ srv.version \in Nat /\ job.prior \in State
  BY PresentIsHonest DEF HonestState, Inv, TypeOK, Credential
<1>2. Grounded(tf) /\ Grounded(job.prior)
  BY <1>1 DEF GuardInv, JobIsGrounded, SecretsAreNewest, Grounded
<1>3. Absent \in State /\ ~Absent.present /\ Absent.secret = 0
  BY DEF Absent, State
<1>4. Grounded(Absent)
  BY <1>1, <1>3 DEF Grounded
<1> QED
  BY <1>1, <1>2, <1>4, ReadIsGrounded DEF Grounded, HeldBy, GuardInv, SecretsAreNewest

(* Between two operations there is nothing to guard but late requests.     *)
LEMMA IdleKeepsGuards ==
    ASSUME Inv, GuardInv, UNCHANGED <<srv, live>>, Grounded(tf'),
           late' \subseteq late \cup {[op |-> call.op, rev |-> call.rev,
                                     adopt |-> job.adopt, observed |-> job.observed]},
           job' = NoJob, call' = NoCall
    PROVE  GuardInv'
<1>1. /\ NoJob.prior = Absent /\ NoJob.lost = {} /\ NoJob.kind = "none" /\ NoJob.observed = {}
      /\ Absent.version = 0 /\ ~Absent.present /\ Absent.secret = 0
      /\ NoCall.op = "none" /\ NoCall.reply.kind = "none"
  BY DEF NoJob, Absent, NoCall, NoReply
<1>2. srv.version \in Nat /\ tf'.secret <= srv.version
  BY DEF Inv, TypeOK, Credential, Grounded
<1>3. RequestsAreSafe(srv)'
  BY <1>1 DEF GuardInv, RequestsAreSafe, SafeFor
<1>4. JobIsGrounded' /\ RepliesAreOurs(srv)'
  BY <1>1 DEF JobIsGrounded, RepliesAreOurs, Known, Tells, Grounded
<1>5. LostAreLeaving(srv, live)' /\ SecretsAreNewest(srv)'
  BY <1>1, <1>2 DEF LostAreLeaving, SecretsAreNewest, IssuesSecret, Grounded
<1> QED
  BY <1>3, <1>4, <1>5 DEF GuardInv

(* A plan rests on the state it was made for.                              *)
PlansFrom(prior) ==
    /\ job'.prior = prior /\ job'.observed = Known(prior.version) /\ job'.lost = {}
    /\ job'.kind \in {"create", "update", "delete"}
    /\ job'.kind \in {"update", "delete"} => prior.present

LEMMA PlansAreFrom ==
    ASSUME Inv, NEW prior, NEW known \in BOOLEAN,
           \/ PlanCreate(prior, known) \/ PlanUpdate(prior, known)
           \/ PlanDestroy(prior) \/ PlanReplace(prior)
    PROVE  PlansFrom(prior)
<1>1. ASSUME NEW kind \in {"create", "update", "delete"}, NEW b \in BOOLEAN,
             Planned(kind, prior, b), kind \in {"update", "delete"} => prior.present
      PROVE  PlansFrom(prior)
  BY <1>1 DEF Planned, PlansFrom, NoJob
<1>2. CASE PlanCreate(prior, known)
  BY <1>1, <1>2 DEF PlanCreate
<1>3. CASE PlanUpdate(prior, known)
  BY <1>1, <1>3 DEF PlanUpdate
<1>4. CASE PlanDestroy(prior)
  BY <1>1, <1>4 DEF PlanDestroy
<1>5. CASE PlanReplace(prior)
  BY <1>5 DEF PlanReplace, PlansFrom, NoJob
<1> QED
  BY <1>2, <1>3, <1>4, <1>5

LEMMA PlanningKeepsGuards ==
    ASSUME Inv, GuardInv, UNCHANGED <<srv, live, late, tf, call>>, job = NoJob,
           NEW prior, Grounded(prior), PlansFrom(prior),
           HeldBy(srv) => prior.secret = tf.secret \/ ~prior.present
    PROVE  GuardInv'
<1>1. call' = NoCall /\ NoCall.op = "none" /\ NoCall.reply.kind = "none"
  BY DEF GuardInv, JobIsGrounded, NoJob, NoCall, NoReply
<1>2. srv.version \in Nat /\ prior.secret <= srv.version
  BY DEF Inv, TypeOK, Credential, Grounded
<1>3. RequestsAreSafe(srv)'
  BY <1>1 DEF GuardInv, RequestsAreSafe, SafeFor
<1>4. JobIsGrounded'
  BY <1>1 DEF JobIsGrounded, GuardInv, PlansFrom, Grounded, Known
<1>5. RepliesAreOurs(srv)' /\ LostAreLeaving(srv, live)'
  BY <1>1 DEF RepliesAreOurs, Tells, LostAreLeaving, PlansFrom
<1>6. SecretsAreNewest(srv)'
  BY <1>1, <1>2 DEF SecretsAreNewest, HeldBy, IssuesSecret, GuardInv, PlansFrom,
     Grounded
<1> QED
  BY <1>3, <1>4, <1>5, <1>6 DEF GuardInv

LEMMA PlansKeepGuards ==
    ASSUME Inv, GuardInv, Plan \/ PlanOtherwise
    PROVE  GuardInv'
<1> DEFINE read == Read(tf)
<1>1. Grounded(tf) /\ Grounded(read) /\ (HeldBy(srv) => read.secret = tf.secret)
  BY HeldIsGrounded
<1> HIDE DEF read
<1>2. \E prior \in {tf, read}, known \in BOOLEAN :
        \/ PlanCreate(prior, known) \/ PlanUpdate(prior, known)
        \/ PlanDestroy(prior) \/ PlanReplace(prior)
  BY DEF Plan, PlanOtherwise, read
<1>3. PlansFrom(tf) \/ PlansFrom(read)
  BY <1>2, PlansAreFrom
<1>4. UNCHANGED <<srv, live, late, tf, call>> /\ job = NoJob
  BY DEF Plan, PlanOtherwise
<1> QED
  BY <1>1, <1>3, <1>4, PlanningKeepsGuards

LEMMA ReadingKeepsGuards ==
    ASSUME Inv, GuardInv, Refresh \/ ImportState \/ MisdirectRead
    PROVE  GuardInv'
<1> DEFINE identity == [Absent EXCEPT !.present = TRUE]
<1>1. identity \in State /\ Linked(identity) /\ identity.secret = 0
  BY DEF Absent, State, Linked
<1> HIDE DEF identity
<1>2. srv.version \in Nat /\ job = NoJob /\ UNCHANGED <<srv, live, late, call>>
  BY DEF Inv, TypeOK, Credential, Refresh, ImportState, MisdirectRead
<1>3. Grounded(Read(tf)) /\ Grounded(Read(identity)) /\ Grounded(Absent)
  BY <1>1, <1>2, HeldIsGrounded, ReadIsGrounded
<1>4. call = NoCall
  BY <1>2 DEF GuardInv, JobIsGrounded, NoJob
<1>5. CASE job' = job /\ Grounded(tf')
  BY <1>2, <1>4, <1>5, IdleKeepsGuards
<1>6. CASE PlanCreate(Absent, TRUE) /\ UNCHANGED tf
  <2>1. PlansFrom(Absent) /\ ~Absent.present
    BY <1>6, PlansAreFrom DEF Absent
  <2> QED
    BY <1>2, <1>3, <1>6, <2>1, PlanningKeepsGuards
<1> QED
  BY <1>3, <1>5, <1>6 DEF Refresh, ImportState, MisdirectRead, identity

(* A call is made for the job at hand.                                     *)
LEMMA RequestKeepsGuards ==
    ASSUME Inv, GuardInv, UNCHANGED <<srv, live, late>>, Grounded(tf'),
           NEW op \in Operations \cup {"get"}, NEW rev, Request(op, rev),
           SafeFor(op, rev, job'.observed, job'.adopt, srv),
           job'.kind = job.kind, job.kind \in Applications, job'.prior = job.prior,
           job.observed \subseteq job'.observed, op = "get" => job'.adopt,
           LostAreLeaving(srv, live)'
    PROVE  GuardInv'
<1>1. call' = [NoCall EXCEPT !.op = op, !.rev = rev]
  BY DEF Request
<1>2. call'.op = op /\ call'.rev = rev /\ call'.reply.kind = "none" /\ op # "none"
  BY <1>1 DEF NoCall, NoReply, Operations
<1>3. RequestsAreSafe(srv)'
  BY <1>2 DEF GuardInv, RequestsAreSafe, SafeFor
<1>4. JobIsGrounded' /\ RepliesAreOurs(srv)'
  BY <1>2 DEF GuardInv, JobIsGrounded, RepliesAreOurs, Tells, Grounded, Applications
<1>5. SecretsAreNewest(srv)'
  BY <1>2 DEF GuardInv, SecretsAreNewest, Grounded, Gone
<1> QED
  BY <1>3, <1>4, <1>5 DEF GuardInv

LEMMA BeginKeepsGuards ==
    ASSUME Inv, GuardInv, Begin
    PROVE  GuardInv'
<1>1. call = NoCall /\ UNCHANGED <<srv, live, late>> /\ job.kind \in Applications
  BY DEF Begin, BeginCreate, BeginUpdate, BeginDelete, Applications
<1>2. Grounded(job.prior) /\ job.lost = {} /\ Current(job.prior)
  BY <1>1, HeldIsGrounded DEF GuardInv, LostAreLeaving, NoCall, Inv, StateIsHonest
<1>3. Grounded(tf')
  <2>1. CASE tf' = stateWithoutMutation(job.prior, job)
    <3>1. job.trigger \in Nat /\ job.adopt \in BOOLEAN /\ job.prior \in State
      BY DEF Inv, TypeOK
    <3>2. /\ tf' \in State /\ tf'.secret = job.prior.secret /\ tf'.rev = job.prior.rev
          /\ tf'.present = job.prior.present
      BY <2>1, <3>1 DEF stateWithoutMutation, State
    <3> QED
      BY <1>2, <3>2 DEF Grounded
  <2> QED
    BY <1>2, <2>1 DEF Begin, BeginCreate, BeginUpdate, BeginDelete
<1>4. CASE Return
  BY <1>1, <1>3, <1>4, IdleKeepsGuards DEF Return
<1>5. ASSUME UNCHANGED job, NEW op \in {"upsert", "adopt", "rotate", "delete"},
             NEW rev, Request(op, rev), SafeFor(op, rev, job.observed, job.adopt, srv)
      PROVE  GuardInv'
  <2>1. LostAreLeaving(srv, live)'
    BY <1>1, <1>2, <1>5 DEF LostAreLeaving, Request
  <2> QED
    BY <1>1, <1>3, <1>5, <2>1, RequestKeepsGuards DEF Operations
<1>6. ASSUME job.kind \in {"update", "delete"}, NEW op \in {"adopt", "rotate", "delete"},
             op = "adopt" => job.adopt, op # "adopt" => job.prior.owner # "human"
      PROVE  SafeFor(op, IfMatch(job.prior), job.observed, job.adopt, srv)
  <2>1. 0 < job.prior.rev /\ job.prior.rev <= srv.rev
    BY <1>2, <1>6 DEF GuardInv, JobIsGrounded, Current, Inv, TypeOK, State
  <2>2. srv.active /\ job.prior.rev = srv.rev =>
            srv.version \in job.observed /\ (op # "adopt" => srv.owner # "human")
    BY <1>2, <1>6 DEF Current, GuardInv, JobIsGrounded, Known, Inv, ActiveIsNumbered
  <2> QED
    BY <1>6, <2>1, <2>2 DEF SafeFor, IfMatch
<1>7. CASE BeginCreate
  BY <1>5, <1>7 DEF BeginCreate, SafeFor
<1>8. CASE BeginUpdate
  <2>1. \/ Return
        \/ UNCHANGED job /\ job.adopt /\ Request("adopt", IfMatch(job.prior))
        \/ /\ UNCHANGED job /\ Request("rotate", IfMatch(job.prior))
           /\ job.prior.owner # "human"
    BY <1>8 DEF BeginUpdate, UpdateMayAdopt, humanOwned
  <2> QED
    BY <1>4, <1>5, <1>6, <1>8, <2>1 DEF BeginUpdate
<1>9. CASE BeginDelete
  <2>1. \/ Return
        \/ /\ UNCHANGED job /\ Request("delete", IfMatch(job.prior))
           /\ job.prior.owner # "human"
    BY <1>9 DEF BeginDelete, MayArchive
  <2> QED
    BY <1>4, <1>5, <1>6, <1>9, <2>1 DEF BeginDelete
<1> QED
  BY <1>7, <1>8, <1>9 DEF Begin

LEMMA ReceiveKeepsGuards ==
    ASSUME Inv, GuardInv, Receive
    PROVE  GuardInv'
<1>1. UNCHANGED <<srv, live, late>>
  BY DEF Receive
<1>2. Grounded(tf) /\ Grounded(Absent) /\ Current(call.reply) /\ srv.version \in Nat
      /\ call.reply \in Reply /\ job \in Job /\ job.lost \in SUBSET Nat
  BY HeldIsGrounded, PresentIsHonest DEF Answered, Inv, TypeOK, Credential, Calling, Job
<1>3. call.op # "none" => job.kind \in Applications
  BY <1>2 DEF GuardInv, JobIsGrounded, NoCall, Applications, Job
<1>4. CASE StoreSecret
  <2>1. stateFromMutation(job, call.reply) \in State
    BY <1>4, StoredIsHonest DEF StoreSecret, HonestState
  <2>2. call.reply.rev > 0 /\ call.reply.version <= srv.version
    BY <1>4 DEF StoreSecret, KeepsContract, GuardInv, RepliesAreOurs, Tells, IssuesSecret
  <2>3. tf' = stateFromMutation(job, call.reply)
    BY <1>4 DEF StoreSecret
  <2>4. tf'.secret = call.reply.version /\ tf'.rev = call.reply.rev /\ tf'.present
    BY <2>3 DEF stateFromMutation
  <2>5. Grounded(tf')
    BY <2>1, <2>2, <2>3, <2>4 DEF Grounded
  <2> QED
    BY <1>1, <1>4, <2>5, IdleKeepsGuards DEF StoreSecret, Return
<1>5. CASE reissueSecret
  <2>1. Tells(call.reply) /\ call.op \in {"upsert", "adopt", "rotate", "reissue"} /\ tf' = tf
    BY <1>5 DEF reissueSecret, Tells, MayReissue
  <2>2. /\ call.reply.rev > 0 /\ call.reply.version <= srv.version
        /\ call.reply.owner # "human" /\ call.reply.rev <= srv.rev
        /\ srv.active /\ call.reply.rev = srv.rev =>
               call.reply.version = srv.version /\ call.reply.owner = srv.owner
    BY <1>2, <2>1 DEF GuardInv, RepliesAreOurs, Current
  <2>3. /\ job'.observed = job.observed \cup {call.reply.version}
        /\ job'.lost = job.lost \cup {call.reply.version}
        /\ job'.kind = job.kind /\ job'.prior = job.prior /\ job'.adopt = job.adopt
    BY <1>2, <1>5 DEF reissueSecret, Job
  <2>4. Request("reissue", call.reply.rev)
    BY <1>5 DEF reissueSecret, Revocation
  <2>5. SafeFor("reissue", call.reply.rev, job'.observed, job'.adopt, srv)
    BY <2>2, <2>3 DEF SafeFor
  <2>6. job.lost \cap live = {} /\ \A version \in job.lost : version <= srv.version
    BY <2>1 DEF GuardInv, LostAreLeaving
  <2>7. call'.op = "reissue" /\ call'.rev = call.reply.rev /\ call'.reply.kind = "none"
    BY <2>4 DEF Request, NoCall, NoReply
  <2>8. LostAreLeaving(srv, live)'
    BY <1>1, <2>2, <2>3, <2>6, <2>7 DEF LostAreLeaving, Tells
  <2> QED
    BY <1>1, <1>2, <1>3, <2>1, <2>3, <2>4, <2>5, <2>8, RequestKeepsGuards DEF Operations
<1>6. CASE adoptExistingReads
  <2>1. job.lost = {} /\ Request("get", 0) /\ job' = job /\ tf' = tf /\ job.adopt
        /\ call.op = "upsert"
    BY <1>6 DEF adoptExistingReads, GuardInv, LostAreLeaving
  <2>2. LostAreLeaving(srv, live)'
    BY <2>1 DEF LostAreLeaving, Request, NoCall
  <2>3. SafeFor("get", 0, job'.observed, job'.adopt, srv)
    BY DEF SafeFor
  <2> QED
    BY <1>1, <1>2, <1>3, <2>1, <2>2, <2>3, RequestKeepsGuards
<1>7. CASE adoptExistingAdopts
  <2>1. /\ Request("adopt", call.reply.rev) /\ tf' = tf /\ call.op = "get" /\ job.lost = {}
        /\ Tells(call.reply) /\ job.adopt
    BY <1>7 DEF adoptExistingAdopts, GuardInv, LostAreLeaving, JobIsGrounded, Tells
  <2>2. /\ job'.observed = job.observed \cup Known(call.reply.version)
        /\ job'.kind = job.kind /\ job'.prior = job.prior /\ job'.adopt = job.adopt
        /\ job'.lost = {}
    BY <1>2, <1>7, <2>1 DEF adoptExistingAdopts, Observe, Job
  <2>3. SafeFor("adopt", call.reply.rev, job'.observed, job'.adopt, srv)
    BY <1>2, <2>1, <2>2 DEF SafeFor, GuardInv, RepliesAreOurs, Current, Known, Inv, ActiveIsNumbered
  <2>4. LostAreLeaving(srv, live)'
    BY <2>1, <2>2 DEF LostAreLeaving, Request, NoCall
  <2> QED
    BY <1>1, <1>2, <1>3, <2>1, <2>2, <2>3, <2>4, RequestKeepsGuards DEF Operations
<1>8. CASE FinishDelete
  <2>1. tf' = Absent /\ call' = NoCall /\ job.lost = {} /\ call.op = "delete"
    BY <1>8 DEF FinishDelete, GuardInv, LostAreLeaving
  <2>2. CASE job' = NoJob
    BY <1>1, <1>2, <2>1, <2>2, IdleKeepsGuards
  <2>3. CASE job' = [job EXCEPT !.kind = "create", !.prior = Absent, !.replaces = FALSE]
    <3>1. job'.kind = "create" /\ job'.prior = Absent /\ job'.lost = {}
      BY <1>2, <2>1, <2>3 DEF Job
    <3>2. /\ NoCall.op = "none" /\ NoCall.reply.kind = "none"
          /\ Absent.version = 0 /\ ~Absent.present /\ Absent.secret = 0
      BY DEF NoCall, NoReply, Absent
    <3>3. RequestsAreSafe(srv)'
      BY <1>1, <2>1, <3>2 DEF GuardInv, RequestsAreSafe, SafeFor
    <3>4. JobIsGrounded' /\ RepliesAreOurs(srv)' /\ LostAreLeaving(srv, live)'
      BY <2>1, <3>1, <3>2 DEF JobIsGrounded, RepliesAreOurs, LostAreLeaving, Tells, Known
    <3>5. SecretsAreNewest(srv)'
      BY <1>1, <1>2, <2>1, <3>1, <3>2 DEF SecretsAreNewest, IssuesSecret, HeldBy
    <3> QED
      BY <3>3, <3>4, <3>5 DEF GuardInv
  <2> QED
    BY <1>8, <2>2, <2>3 DEF FinishDelete
<1>9. CASE ReportError
  BY <1>1, <1>2, <1>9, IdleKeepsGuards DEF ReportError, ReturnError, Return
<1> QED
  BY <1>4, <1>5, <1>6, <1>7, <1>8, <1>9 DEF Receive

LEMMA QuietStepsKeepGuards ==
    ASSUME Inv, GuardInv, Obey \/ Edit \/ Interrupt \/ LoseResponse \/ Misdirect
    PROVE  GuardInv'
<1>1. CASE Obey \/ Edit
  <2>1. UNCHANGED <<srv, live, late, tf, job, call>>
    BY <1>1 DEF Obey, Edit
  <2> QED
    BY <2>1 DEF GuardInv, RequestsAreSafe, JobIsGrounded, RepliesAreOurs, LostAreLeaving,
       SecretsAreNewest, HeldBy
<1>2. CASE Interrupt
  BY <1>2, HeldIsGrounded, IdleKeepsGuards DEF Interrupt, ReturnError, Return
<1>3. ASSUME UNCHANGED <<srv, live, late, tf, job>>, call'.op = call.op, call'.rev = call.rev,
             call.op # "none", call'.reply.kind = "ok" => call.op = "delete",
             Tells(call'.reply) /\ call.op # "delete" =>
                 /\ Tells(call.reply) /\ call'.reply.rev = call.reply.rev
                 /\ call'.reply.version = call.reply.version
                 /\ call'.reply.owner = call.reply.owner,
             call'.op = "delete" /\ Gone(call'.reply) =>
                 call'.reply \in {Refusal("not_found"), Refusal("ok")}
      PROVE  GuardInv'
  <2>1. RequestsAreSafe(srv)' /\ JobIsGrounded'
    BY <1>3 DEF GuardInv, RequestsAreSafe, JobIsGrounded, NoCall
  <2>2. RepliesAreOurs(srv)'
    BY <1>3 DEF GuardInv, RepliesAreOurs
  <2>3. LostAreLeaving(srv, live)' /\ SecretsAreNewest(srv)'
    BY <1>3 DEF GuardInv, LostAreLeaving, SecretsAreNewest, HeldBy, IssuesSecret
  <2> QED
    BY <2>1, <2>2, <2>3 DEF GuardInv
<1>4. CASE LoseResponse
  <2>1. call \in Calling /\ call.op # "none"
    BY <1>4, PresentIsHonest DEF LoseResponse, IssuesSecret
  <2>2. /\ call'.op = call.op /\ call'.rev = call.rev
        /\ call'.reply.kind = "secret_reissue_required" /\ Tells(call.reply)
        /\ call'.reply.rev = call.reply.rev /\ call'.reply.version = call.reply.version
        /\ call'.reply.owner = call.reply.owner
    BY <1>4, <2>1 DEF LoseResponse, Calling, Reply, Tells
  <2> QED
    BY <1>3, <1>4, <2>1, <2>2 DEF LoseResponse, Gone
<1>5. CASE Misdirect
  <2>1. PICK kind \in {"not_found", "ok"} :
           (kind = "ok" => call.op = "delete") /\ call' = [call EXCEPT !.reply = Refusal(kind)]
    BY <1>5 DEF Misdirect
  <2>2. /\ call'.op = call.op /\ call'.rev = call.rev /\ call'.reply.kind = kind
    BY <2>1, PresentIsHonest DEF Calling, Refusal, NoReply
  <2>3. call'.reply = Refusal(kind)
    BY <2>1, PresentIsHonest DEF Calling
  <2> QED
    BY <1>3, <1>5, <2>1, <2>2, <2>3 DEF Misdirect, Tells
<1> QED
  BY <1>1, <1>2, <1>4, <1>5

LEMMA UpgradeKeepsGuards ==
    ASSUME Inv, GuardInv, Upgrade
    PROVE  GuardInv'
<1>1. tf' = tf /\ job' = NoJob /\ UNCHANGED <<srv, live, late, call>>
  BY UpgradeKeepsAll, PresentIsHonest DEF Upgrade, HonestState
<1>2. call = NoCall
  BY DEF Upgrade, GuardInv, JobIsGrounded
<1> QED
  BY <1>1, <1>2, HeldIsGrounded, IdleKeepsGuards

-----------------------------------------------------------------------------
LEMMA InitGuards == Init => GuardInv
<1> SUFFICES ASSUME Init PROVE GuardInv
  OBVIOUS
<1>1. NoCall.op = "none" /\ NoCall.reply.kind = "none"
  BY DEF NoCall, NoReply
<1>2. late = {} /\ call = NoCall
  BY DEF Init
<1>3. /\ tf.present => tf.rev > 0
      /\ tf.secret # 0 => tf.present
      /\ tf.secret <= srv.version /\ 0 <= srv.version
  <2>1. CASE InitNew
    <3>1. tf = Absent /\ srv \in Credential
      BY <2>1, InitInv DEF InitNew, Inv, TypeOK
    <3> QED
      BY <3>1, FirstJob DEF Credential
  <2>2. CASE InitVersion0
    <3>1. PICK owner \in Owners : srv = Issue(NoBinding, owner)
      BY <2>2 DEF InitVersion0
    <3>2. srv = [active |-> TRUE, owner |-> owner, version |-> 1, rev |-> 1]
      BY <3>1 DEF Issue, NoBinding
    <3>3. tf \in V0States(srv)
      BY <2>2 DEF InitVersion0
    <3>4. tf.secret \in {0, 1} /\ tf.rev = 1 /\ tf.present
      BY <3>2, <3>3 DEF V0States
    <3> QED
      BY <3>2, <3>4
  <2> QED
    BY <2>1, <2>2 DEF Init
<1>4. RequestsAreSafe(srv) /\ JobIsGrounded /\ RepliesAreOurs(srv)
  BY <1>1, <1>2, <1>3, FirstJob DEF RequestsAreSafe, SafeFor, JobIsGrounded, Known,
     RepliesAreOurs, Tells
<1>5. LostAreLeaving(srv, live) /\ SecretsAreNewest(srv)
  BY <1>1, <1>2, <1>3, FirstJob DEF LostAreLeaving, SecretsAreNewest, IssuesSecret
<1> QED
  BY <1>4, <1>5 DEF GuardInv

LEMMA NextGuards == Inv /\ GuardInv /\ [Next]_vars => GuardInv'
<1> SUFFICES ASSUME Inv, GuardInv, [Next]_vars PROVE GuardInv'
  OBVIOUS
<1>1. CASE UNCHANGED vars
  BY <1>1 DEF vars, GuardInv, RequestsAreSafe, JobIsGrounded, RepliesAreOurs, LostAreLeaving,
     SecretsAreNewest, HeldBy
<1>2. CASE Next
  BY <1>2, PlansKeepGuards, ReadingKeepsGuards, BeginKeepsGuards, ReceiveKeepsGuards,
     ExecuteKeepsGuards, OthersKeepGuards, QuietStepsKeepGuards, UpgradeKeepsGuards DEF Next
<1> QED
  BY <1>1, <1>2

(* What a request that Pulse carries out now finds.                        *)
LEMMA ChangeIsGuarded ==
    ASSUME Inv, NEW op \in Operations \cup {"get"}, NEW rev \in Nat, NEW observed, NEW adopt,
           SafeFor(op, rev, observed, adopt, srv),
           NEW outcome \in Executed(op, rev), srv.active, outcome.srv # srv
    PROVE  /\ srv.version \in observed
           /\ srv.owner = "human" => op = "adopt" /\ adopt
BY ExecutedOutcome DEF OutcomeOf, SafeFor, Guards

LEMMA ChangesAreGuarded ==
    ASSUME Inv, GuardInv, [Next]_vars
    PROVE  NothingUnseenChanges /\ OwnersAreRespected
<1>1. ASSUME Execute
      PROVE  ChangesOnlyWhatItSaw(job) /\ RespectsOwner(call.op, job.adopt)
  <2>1. call.op \in Operations \cup {"get"} /\ call.rev \in Nat
    BY <1>1 DEF Inv, TypeOK, Execute
  <2>2. PICK outcome \in Executed(call.op, call.rev) : srv' = outcome.srv
    BY <1>1 DEF Execute
  <2>3. SafeFor(call.op, call.rev, job.observed, job.adopt, srv)
    BY DEF GuardInv, RequestsAreSafe
  <2> QED
    BY <2>1, <2>2, <2>3, ChangeIsGuarded DEF ChangesOnlyWhatItSaw, RespectsOwner
<1>2. ASSUME ExecuteLate
      PROVE  \E request \in late \ late' :
                 ChangesOnlyWhatItSaw(request) /\ RespectsOwner(request.op, request.adopt)
  <2>1. PICK request \in late : Carry(request) /\ late' = late \ {request}
    BY <1>2 DEF ExecuteLate
  <2>2. request.op \in Operations /\ request.rev \in Nat
    BY <2>1 DEF Inv, TypeOK
  <2>3. PICK outcome \in Executed(request.op, request.rev) : srv' = outcome.srv
    BY <2>1 DEF Carry
  <2>4. SafeFor(request.op, request.rev, request.observed, request.adopt, srv)
    BY <2>1 DEF GuardInv, RequestsAreSafe
  <2>5. ChangesOnlyWhatItSaw(request) /\ RespectsOwner(request.op, request.adopt)
    BY <2>2, <2>3, <2>4, ChangeIsGuarded DEF ChangesOnlyWhatItSaw, RespectsOwner
  <2> QED
    BY <2>1, <2>5
<1> QED
  BY <1>1, <1>2 DEF NothingUnseenChanges, OwnersAreRespected

LEMMA LostAreRevoked ==
    ASSUME Inv, GuardInv, [Next]_vars
    PROVE  LostAreRevokedByTheEnd
<1> SUFFICES ASSUME job.kind # "none", job'.kind = "none", tf'.secret # tf.secret
             PROVE  job.lost \cap live' = {}
  BY DEF LostAreRevokedByTheEnd
<1>1. job # NoJob /\ job \in Job /\ NoJob.kind = "none"
  BY PresentIsHonest DEF NoJob
<1>2. Begin \/ Receive
  <2>1. tf' # tf
    OBVIOUS
  <2> QED
    BY <1>1, <2>1, UpgradeKeepsAll, PresentIsHonest
       DEF Next, vars, Plan, PlanOtherwise, Refresh, ImportState, Execute, LoseResponse,
       Misdirect, MisdirectRead, Interrupt, ReturnError, ExecuteLate, Disturb, Expire, Obey, Edit,
       Upgrade, HonestState
<1>3. CASE Begin
  BY <1>3 DEF Begin, NoCall, GuardInv, LostAreLeaving
<1>4. CASE Receive
  <2>1. live' = live
    BY <1>4 DEF Receive
  <2>2. StoreSecret \/ FinishDelete
    BY <1>1, <1>4 DEF Receive, reissueSecret, adoptExistingReads, adoptExistingAdopts, Observe,
       ReportError, ReturnError
  <2>3. CASE StoreSecret
    BY <2>1, <2>3 DEF StoreSecret, KeepsContract, GuardInv, LostAreLeaving, Tells
  <2>4. CASE FinishDelete
    BY <2>4 DEF FinishDelete, GuardInv, LostAreLeaving
  <2> QED
    BY <2>2, <2>3, <2>4
<1> QED
  BY <1>2, <1>3, <1>4

(* A plan rests on the state itself, or on the truth about it; only a      *)
(* stranger makes one that rests on nothing.                               *)
LEMMA PlansKeepSecrets ==
    ASSUME Inv, GuardInv, Plan \/ PlanOtherwise, Held
    PROVE  job'.prior.secret = srv.version
<1> DEFINE read == Read(tf)
<1>1. HeldBy(srv) => read.secret = tf.secret
  BY HeldIsGrounded
<1> HIDE DEF read
<1>2. \E prior \in {tf, read}, known \in BOOLEAN :
        \/ PlanCreate(prior, known) \/ PlanUpdate(prior, known)
        \/ PlanDestroy(prior) \/ PlanReplace(prior)
  BY DEF Plan, PlanOtherwise, read
<1>3. PlansFrom(tf) \/ PlansFrom(read)
  BY <1>2, PlansAreFrom
<1> QED
  BY <1>1, <1>3 DEF PlansFrom, Held, HeldBy

LEMMA HeldStays ==
    ASSUME Inv, GuardInv, [Next]_vars
    PROVE  StaysHeld
<1> SUFFICES ASSUME SafelyHeld, UNCHANGED srv, ~StrangerHeard
             PROVE  SafelyHeld'
  BY DEF StaysHeld
<1>1. /\ Held /\ tf.present /\ srv.version \in Nat /\ tf.secret = srv.version
      /\ Absent.secret = 0 /\ ~Absent.present /\ tf \in State /\ job \in Job
  BY PresentIsHonest
     DEF SafelyHeld, Held, GuardInv, SecretsAreNewest, Absent, Inv, TypeOK, Credential, HonestState
<1>2. ASSUME tf'.secret = tf.secret,
             job'.kind \in Applications /\ call' = NoCall => job'.prior.secret = srv.version
      PROVE  SafelyHeld'
  BY <1>1, <1>2 DEF SafelyHeld, Held
<1>3. ASSUME job' = NoJob PROVE job'.kind \notin Applications
  BY <1>3 DEF NoJob, Applications
<1>4. CASE Upgrade
  BY <1>1, <1>2, <1>3, <1>4, UpgradeKeepsAll DEF Upgrade
<1>5. CASE Plan \/ PlanOtherwise
  BY <1>1, <1>2, <1>5, PlansKeepSecrets DEF Plan, PlanOtherwise
<1>6. CASE Refresh
  <2>1. tf'.secret = tf.secret
    BY <1>1, <1>6, HeldIsGrounded DEF Refresh, Held, HeldBy
  <2> QED
    BY <1>2, <1>3, <1>6, <2>1 DEF Refresh
<1>7. CASE ImportState
  BY <1>1, <1>7 DEF ImportState
<1>8. CASE Begin
  <2>1. job.prior.secret = tf.secret
    BY <1>1, <1>8 DEF Begin, BeginCreate, BeginUpdate, BeginDelete, SafelyHeld, Applications
  <2>2. tf'.secret = job.prior.secret
    <3>1. CASE tf' = stateWithoutMutation(job.prior, job)
      BY <3>1, PresentIsHonest DEF stateWithoutMutation, HonestState, State
    <3> QED
      BY <1>8, <3>1 DEF Begin, BeginCreate, BeginUpdate, BeginDelete
  <2>3. job' = NoJob \/ job'.prior = job.prior
    BY <1>8 DEF Begin, BeginCreate, BeginUpdate, BeginDelete, Return
  <2> QED
    BY <1>1, <1>2, <1>3, <2>1, <2>2, <2>3
<1>9. CASE Receive
  <2>1. CASE StoreSecret
    <3>1. tf.secret < call.reply.version /\ call.reply.version <= srv.version
      BY <2>1 DEF StoreSecret, KeepsContract, GuardInv, SecretsAreNewest, RepliesAreOurs, Tells,
         IssuesSecret
    <3>2. call.reply.version \in Nat
      BY DEF Inv, TypeOK, Reply
    <3> QED
      BY <1>1, <3>1, <3>2
  <2>2. CASE reissueSecret \/ adoptExistingReads \/ adoptExistingAdopts
    <3>1. \E op \in {"reissue", "get", "adopt"}, rev \in {0, call.reply.rev} : Request(op, rev)
      BY <2>2 DEF reissueSecret, adoptExistingReads, adoptExistingAdopts, Revocation
    <3>2. call'.op # NoCall.op
      BY <3>1 DEF Request, NoCall
    <3> QED
      BY <1>2, <2>2, <3>2 DEF reissueSecret, adoptExistingReads, adoptExistingAdopts
  <2>3. CASE FinishDelete
    <3>1. call.reply \in {Refusal("not_found"), Refusal("ok")}
      BY <1>1, <2>3 DEF FinishDelete, GuardInv, SecretsAreNewest, Gone, Held, HeldBy
    <3> QED
      BY <2>3, <3>1 DEF StrangerHeard
  <2>4. CASE ReportError
    BY <1>2, <1>3, <2>4 DEF ReportError, ReturnError, Return
  <2> QED
    BY <1>9, <2>1, <2>2, <2>3, <2>4 DEF Receive
<1>10. CASE Execute \/ LoseResponse \/ Misdirect
  <2>1. UNCHANGED <<tf, job>> /\ call' # NoCall
    <3>1. call \in Calling /\ call.op # "none" /\ NoCall.op = "none"
      BY <1>10, PresentIsHonest DEF Execute, LoseResponse, Misdirect, IssuesSecret, NoCall
    <3>2. call'.op = call.op
      BY <1>10, <3>1 DEF Execute, LoseResponse, Misdirect, Calling
    <3> QED
      BY <1>10, <3>1, <3>2 DEF Execute, LoseResponse, Misdirect
  <2> QED
    BY <1>2, <2>1
<1>11. CASE MisdirectRead
  BY <1>11 DEF StrangerHeard
<1>12. CASE Interrupt
  BY <1>2, <1>3, <1>12 DEF Interrupt, ReturnError, Return
<1>13. CASE UNCHANGED <<tf, job, call>>
  BY <1>1, <1>13 DEF SafelyHeld, Held
<1> QED
  BY <1>4, <1>5, <1>6, <1>7, <1>8, <1>9, <1>10, <1>11, <1>12, <1>13
     DEF Next, vars, ExecuteLate, Disturb, Expire, Obey, Edit

(* The plan under way has announced what its apply will do.                *)
LEMMA PlansAreKept ==
    ASSUME Inv, GuardInv, UpdateKeepsThePlan, [Next]_vars
    PROVE  UpdateKeepsThePlan'
<1> DEFINE Announces(j) ==
        j.kind = "update" /\ j.known =>
            (j.announced <=> humanOwned(j.prior) \/ UpdateRotates(j.prior, j.trigger))
<1>0. Announces(job) /\ job \in Job
  BY PresentIsHonest DEF UpdateKeepsThePlan
<1>1. CASE job' = job \/ job' = NoJob
  BY <1>0, <1>1 DEF NoJob, UpdateKeepsThePlan
<1>2. ASSUME NEW prior, PlanUpdate(prior, TRUE) \/ PlanUpdate(prior, FALSE)
      PROVE  Announces(job')
  <2>1. PICK known \in BOOLEAN : PlanUpdate(prior, known)
    BY <1>2
  <2>2. /\ ModifyPlanAccepts(prior, config.trigger, config.adopt, known)
        /\ job' = [NoJob EXCEPT
              !.kind = "update", !.prior = prior, !.trigger = config.trigger,
              !.adopt = config.adopt, !.known = known, !.observed = Known(prior.version),
              !.announced = ModifyPlanAnnounces(prior, config.trigger, config.adopt, known)]
    BY <2>1 DEF PlanUpdate, Planned
  <2>3. /\ job'.known = known /\ job'.prior = prior /\ job'.trigger = config.trigger
        /\ job'.announced = ModifyPlanAnnounces(prior, config.trigger, config.adopt, known)
    BY <2>2 DEF NoJob
  <2>4. known => (ModifyPlanAnnounces(prior, config.trigger, config.adopt, known)
                     <=> humanOwned(prior) \/ UpdateRotates(prior, config.trigger))
    BY <2>2 DEF ModifyPlanAccepts, AdoptionMissing, RotationMissing, AdoptionApproved,
       ModifyPlanAnnounces, UpdateRotates
  <2> QED
    BY <2>3, <2>4
<1>3. ASSUME job'.kind \in {"create", "delete"}
      PROVE  Announces(job')
  BY <1>3
<1>4. ASSUME NEW prior, NEW known \in BOOLEAN,
             \/ PlanCreate(prior, known) \/ PlanDestroy(prior) \/ PlanReplace(prior)
      PROVE  job'.kind \in {"create", "delete"}
  BY <1>4 DEF PlanCreate, PlanDestroy, PlanReplace, Planned, NoJob
<1>5. ASSUME /\ job'.kind = job.kind /\ job'.known = job.known /\ job'.prior = job.prior
             /\ job'.trigger = job.trigger /\ job'.announced = job.announced
      PROVE  Announces(job')
  BY <1>0, <1>5
<1>6. CASE Plan \/ PlanOtherwise \/ MisdirectRead
  <2>1. \/ \E prior \in {tf, Read(tf)} : PlanUpdate(prior, TRUE) \/ PlanUpdate(prior, FALSE)
        \/ \E prior \in {tf, Read(tf), Absent} :
              \/ PlanCreate(prior, TRUE) \/ PlanDestroy(prior) \/ PlanReplace(prior)
        \/ UNCHANGED job
    BY <1>6 DEF Plan, PlanOtherwise, MisdirectRead
  <2> QED
    BY <1>1, <1>2, <1>3, <1>4, <2>1 DEF UpdateKeepsThePlan
<1>7. CASE Receive
  <2>1. CASE reissueSecret \/ adoptExistingAdopts
    BY <1>0, <1>5, <2>1 DEF reissueSecret, adoptExistingAdopts, Observe, Job, UpdateKeepsThePlan
  <2>2. CASE FinishDelete
    <3>1. job' = NoJob \/ job'.kind = "create"
      BY <1>0, <2>2 DEF FinishDelete, Job
    <3> QED
      BY <1>1, <1>3, <3>1 DEF UpdateKeepsThePlan
  <2>3. CASE StoreSecret \/ adoptExistingReads \/ ReportError
    BY <1>1, <2>3 DEF StoreSecret, adoptExistingReads, ReportError, ReturnError, Return
  <2> QED
    BY <1>7, <2>1, <2>2, <2>3 DEF Receive
<1>8. CASE Begin
  BY <1>1, <1>8 DEF Begin, BeginCreate, BeginUpdate, BeginDelete, Return
<1>9. CASE Interrupt
  BY <1>1, <1>9 DEF Interrupt, ReturnError, Return
<1>11. CASE Upgrade
  BY <1>1, <1>11 DEF Upgrade
<1>10. ~(Plan \/ PlanOtherwise \/ MisdirectRead \/ Receive \/ Begin \/ Interrupt \/ Upgrade) => job' = job
  BY DEF Next, vars, Refresh, ImportState, Execute, LoseResponse, Misdirect, ExecuteLate, Disturb,
     Expire, Obey, Edit
<1> QED
  BY <1>1, <1>6, <1>7, <1>8, <1>9, <1>10, <1>11

LEMMA AllInvariant ==
    /\ Init => Inv /\ GuardInv
    /\ Inv /\ GuardInv /\ [Next]_vars => Inv' /\ GuardInv'
BY InitInv, InitGuards, NextInv, NextGuards

(* Nobody else's credential is replaced or archived unseen, whatever was   *)
(* delayed, lost or changed by others: the guard a request carries names a *)
(* revision whose version the workspace had read.                          *)
THEOREM NothingChangesBlindly == Spec => NoBlindChange
<1>1. Inv /\ GuardInv /\ [Next]_vars => [NothingUnseenChanges]_vars
  BY ChangesAreGuarded
<1> QED
  BY <1>1, AllInvariant, PTL DEF Spec, NoBlindChange

(* What a person owns is changed by an adoption that the plan's            *)
(* configuration allowed, and by nothing else this workspace sends.        *)
THEOREM HumansKeepTheirs == Spec => HumanOwnershipIsRespected
<1>1. Inv /\ GuardInv /\ [Next]_vars => [OwnersAreRespected]_vars
  BY ChangesAreGuarded
<1> QED
  BY <1>1, AllInvariant, PTL DEF Spec, HumanOwnershipIsRespected

(* However many responses of a mutation and of the reissues after it were  *)
(* lost, Pulse has revoked every version nobody holds by the time one is   *)
(* stored.                                                                 *)
THEOREM LostOnesEndRevoked == Spec => LostVersionsAreRevoked
<1>1. Inv /\ GuardInv /\ [Next]_vars => [LostAreRevokedByTheEnd]_vars
  BY LostAreRevoked
<1> QED
  BY <1>1, AllInvariant, PTL DEF Spec, LostVersionsAreRevoked

(* The only copy of the active plaintext is never thrown away or planned   *)
(* away, from the upgrade of a version 0 state on, but for a stranger's    *)
(* word that the binding is gone.                                          *)
THEOREM SecretsStay == Spec => SecretIsKept
<1>1. Inv /\ GuardInv /\ [Next]_vars => [StaysHeld]_vars
  BY HeldStays
<1> QED
  BY <1>1, AllInvariant, PTL DEF Spec, SecretIsKept

(* A plan of known values announces a new secret exactly when Update makes *)
(* one.                                                                    *)
THEOREM PlansTellTheTruth == Spec => []UpdateKeepsThePlan
<1>1. Init => UpdateKeepsThePlan
  BY FirstJob DEF UpdateKeepsThePlan
<1>2. Inv /\ GuardInv /\ UpdateKeepsThePlan /\ [Next]_vars => UpdateKeepsThePlan'
  BY PlansAreKept
<1> QED
  BY <1>1, <1>2, AllInvariant, PTL DEF Spec
=============================================================================
