------------------------ MODULE IntegrationLifecycle ------------------------
(***************************************************************************)
(* One pulse_component_integration: the binding of a component to a signal *)
(* provider, its ingestion credential, the Terraform state that keeps the  *)
(* credential's one copy of the plaintext, and everyone who changes them.  *)
(*                                                                         *)
(* Terraform reads, plans and applies through the resource's methods       *)
(* (internal/provider/component_integration_resource.go).  Each call of    *)
(* the Pulse client is the remote call of RemoteCall: executed at most     *)
(* once, perhaps after the client has given up.  When a response is lost   *)
(* the retry under the same key finds the mutation done and the plaintext  *)
(* gone: Pulse answers secret_reissue_required with the version and        *)
(* revision it issued.                                                     *)
(*                                                                         *)
(* Credential versions are numbered in the order Pulse issues them; the    *)
(* plaintext of version v is written v, and 0 stands for null.             *)
(***************************************************************************)
EXTENDS Integers, FiniteSets

CONSTANTS
    Triggers,         \* values of rotation_trigger the user writes
    maxSecretReissueAttempts,  \* 3 in the code
    MaxDisturbances,  \* changes made by people and other API clients
    MaxLosses,        \* answers lost or a stranger's, operations cut off
    MaxEdits,         \* changes of the configuration and plans cut short
    Destroys          \* whether the user may also destroy and replace

ASSUME BoundsAssumption ==
    /\ Triggers # {} /\ Triggers \subseteq Nat \ {0}
    /\ maxSecretReissueAttempts \in Nat \ {0}
    /\ {MaxDisturbances, MaxLosses, MaxEdits} \subseteq Nat
    /\ Destroys \in BOOLEAN

Owners == {"human", "automation"}

VARIABLES
    srv,      \* Pulse's record of the binding
    live,     \* credential versions Pulse accepts signals with
    late,     \* requests nobody waits for any more
    tf,       \* the resource in Terraform's state
    config,   \* the resource's block in the configuration
    job,      \* the plan being made or applied
    call,     \* the client call under way
    budget    \* what is left of the bounds

vars == <<srv, live, late, tf, config, job, call, budget>>

-----------------------------------------------------------------------------
(* Pulse (external): the automation API as the resource and its tests use  *)
(* it.  A binding is archived, never removed, so its revision only grows.  *)

NoBinding == [active |-> FALSE, owner |-> "none", version |-> 0, rev |-> 0]

NoReply == [kind |-> "none", version |-> 0, rev |-> 0, owner |-> "none"]
NoCall  == [op |-> "none", rev |-> 0, reply |-> NoReply]

Refusal(kind) == [NoReply EXCEPT !.kind = kind]
Metadata(kind, s) == [kind |-> kind, version |-> s.version, rev |-> s.rev, owner |-> s.owner]

\* Versions are dense: the next one Pulse issues.
Issue(s, owner) ==
    [active |-> TRUE, owner |-> owner, version |-> s.version + 1, rev |-> s.rev + 1]

Archive(s) ==
    [active |-> FALSE, owner |-> s.owner, version |-> s.version, rev |-> s.rev + 1]

\* The states and replies a request may lead to: [srv, live, reply].
Unchanged(reply) == [srv |-> srv, live |-> live, reply |-> reply]
Issued(owner, kept) ==
    LET next == Issue(srv, owner)
    IN  [srv |-> next, live |-> kept \cup {next.version}, reply |-> Metadata("ok", next)]

Guarded(rev, outcomes) ==
    IF ~srv.active THEN {Unchanged(Refusal("not_found"))}
    ELSE IF rev # 0 /\ rev # srv.rev THEN {Unchanged(Refusal("stale_revision"))}
    ELSE outcomes

\* A fresh upsert of an active automation binding is refused; Pulse may know
\* that the active secret was never delivered and offer to reissue it.
Upserted ==
    IF ~srv.active THEN {Issued("automation", {})}
    ELSE IF srv.owner = "human" THEN {Unchanged(Refusal("ownership_conflict"))}
    ELSE {Unchanged(Refusal("already_exists")), Unchanged(Metadata("secret_reissue_required", srv))}

Executed(op, rev) ==
    CASE op = "get"    -> Guarded(0, {Unchanged(Metadata("ok", srv))})
      [] op = "upsert" -> Upserted
      [] op = "adopt"  -> Guarded(rev,
             {Issued("automation", live), Issued("automation", {})}
             \cup IF srv.owner = "human" THEN {} ELSE {Unchanged(Refusal("conflict"))})
      [] op = "rotate" -> Guarded(rev, {Issued(srv.owner, live)})
      [] op = "reissue" -> Guarded(rev, {Issued(srv.owner, live \ {srv.version})})
      [] op = "delete" -> Guarded(rev,
             {[srv |-> Archive(srv), live |-> {}, reply |-> Metadata("ok", Archive(srv))]})

IssuesSecret(op) == op \in {"upsert", "adopt", "rotate", "reissue"}

-----------------------------------------------------------------------------
(* The resource's state and what its methods make of it                    *)

Absent ==
    [present |-> FALSE, trigger |-> 0, adopt |-> FALSE, secret |-> 0, version |-> 0,
     rotationRequired |-> FALSE, owner |-> "none", rev |-> 0]

NoJob ==
    [kind |-> "none", prior |-> Absent, trigger |-> 0, adopt |-> FALSE, known |-> TRUE,
     announced |-> FALSE, replaces |-> FALSE, reissues |-> 0, observed |-> {}, lost |-> {}]

mergeRemoteIntegration(state, remote) ==
    [state EXCEPT !.version = remote.version, !.owner = remote.owner, !.rev = remote.rev]

\* Read: a binding that is gone leaves the state; a secret that is missing or
\* belongs to another version is dropped, never kept beside a newer version.
ReadKeepsSecret(state) ==
    IF ~state.present \/ ~srv.active THEN Absent
    ELSE [mergeRemoteIntegration(state, srv) EXCEPT !.rotationRequired = state.secret = 0]
Read(state) ==
    LET versionChanged == state.version # 0 /\ state.version # srv.version
        secretUnavailable == state.secret = 0
    IN  IF ~state.present \/ ~srv.active THEN Absent
        ELSE IF versionChanged \/ secretUnavailable
        THEN [mergeRemoteIntegration(state, srv) EXCEPT
                 !.secret = 0, !.rotationRequired = TRUE]
        ELSE [mergeRemoteIntegration(state, srv) EXCEPT !.rotationRequired = FALSE]

\* stateFromMutation: the reply carries the plaintext of its own version.
stateFromMutation(plan, reply) ==
    [present |-> TRUE, trigger |-> plan.trigger, adopt |-> plan.adopt,
     secret |-> reply.version, version |-> reply.version, rotationRequired |-> FALSE,
     owner |-> reply.owner, rev |-> reply.rev]

\* An update that needs no call keeps what is computed and takes the rest from
\* the plan.
stateWithoutMutation(state, plan) ==
    [state EXCEPT !.trigger = plan.trigger, !.adopt = plan.adopt]

humanOwned(state) == state.owner = "human"
rotationTriggerChanged(state, trigger) == state.trigger # trigger

\* ModifyPlan, for a state and a plan that both exist.  When an expression of
\* the configuration is not known before apply, trigger and adopt are not.
AdoptionApproved(adopt, known) == known /\ adopt
AdoptionMissing(state, adopt, known) == humanOwned(state) /\ known /\ ~adopt
RotationMissing(state, trigger, adopt, known) ==
    /\ state.rotationRequired
    /\ ~(known /\ rotationTriggerChanged(state, trigger))
    /\ ~(humanOwned(state) /\ AdoptionApproved(adopt, known))
ModifyPlanAccepts(state, trigger, adopt, known) ==
    /\ ~AdoptionMissing(state, adopt, known)
    /\ ~RotationMissing(state, trigger, adopt, known)

\* Whether the plan shows the credential as known after apply.
AnnouncesTriggerOnly(state, trigger, adopt, known) ==
    known /\ rotationTriggerChanged(state, trigger)
ModifyPlanAnnounces(state, trigger, adopt, known) ==
    \/ known /\ rotationTriggerChanged(state, trigger)
    \/ state.secret = 0
    \/ humanOwned(state) /\ AdoptionApproved(adopt, known)

-----------------------------------------------------------------------------
(* States written by version 0 of the resource                             *)

\* What that version kept (external): the secret, when it had it, beside the
\* version it had observed.  Attributes are written under their present names.
V0States(s) ==
    {[present |-> TRUE, trigger |-> trigger, adopt |-> adopt, secret |-> secret,
      version |-> s.version, rotationRequired |-> secret = 0, owner |-> s.owner, rev |-> s.rev] :
         trigger \in Triggers, adopt \in BOOLEAN, secret \in {0, s.version}}

\* UpgradeState: the integration's UUID, source key and status go, the rest is
\* carried over one by one.
UpgradeWithoutSecret(previous) == [previous EXCEPT !.secret = 0, !.rotationRequired = TRUE]
UpgradeState(previous) ==
    [present |-> previous.present, trigger |-> previous.trigger, adopt |-> previous.adopt,
     secret |-> previous.secret, version |-> previous.version,
     rotationRequired |-> previous.rotationRequired, owner |-> previous.owner,
     rev |-> previous.rev]

-----------------------------------------------------------------------------
(* Terraform's workflow around the resource.  One workspace, one operation *)
(* at a time: Terraform locks its state.                                   *)

Credential == [active : BOOLEAN, owner : Owners \cup {"none"}, version : Nat, rev : Nat]
State == [present : BOOLEAN, trigger : Nat, adopt : BOOLEAN, secret : Nat, version : Nat,
          rotationRequired : BOOLEAN, owner : Owners \cup {"none"}, rev : Nat]
Reply == [kind : {"none", "ok", "not_found", "stale_revision", "conflict", "already_exists",
                  "ownership_conflict", "secret_reissue_required"},
          version : Nat, rev : Nat, owner : Owners \cup {"none"}]
Operations == {"upsert", "adopt", "rotate", "reissue", "delete"}

TypeOK ==
    /\ srv \in Credential
    /\ live \subseteq Nat
    /\ late \subseteq [op : Operations, rev : Nat, adopt : BOOLEAN, observed : SUBSET Nat]
    /\ tf \in State
    /\ config \in [wanted : BOOLEAN, trigger : Triggers, adopt : BOOLEAN]
    /\ job \in [kind : {"none", "upgrade", "create", "update", "delete"}, prior : State, trigger : Nat,
                adopt : BOOLEAN, known : BOOLEAN, announced : BOOLEAN, replaces : BOOLEAN,
                reissues : 0..maxSecretReissueAttempts, observed : SUBSET Nat, lost : SUBSET Nat]
    /\ call \in [op : Operations \cup {"none", "get"}, rev : Nat, reply : Reply]
    /\ budget \in [disturbances : Nat, losses : Nat, edits : Nat]

\* The workspace does not manage the binding yet.
InitNew ==
    /\ srv \in {NoBinding, Issue(NoBinding, "human"), Issue(NoBinding, "automation")}
    /\ tf = Absent
    /\ config = [wanted |-> TRUE, trigger |-> CHOOSE t \in Triggers : TRUE, adopt |-> FALSE]
    /\ job = NoJob

\* Or version 0 of the resource has written its state, which Terraform upgrades
\* before it does anything else with it.
InitVersion0 ==
    /\ srv \in {Issue(NoBinding, owner) : owner \in Owners}
    /\ tf \in V0States(srv)
    /\ config = [wanted |-> TRUE, trigger |-> tf.trigger, adopt |-> tf.adopt]
    /\ job = [NoJob EXCEPT !.kind = "upgrade"]

Init ==
    /\ InitNew \/ InitVersion0
    /\ live = IF srv.active THEN {srv.version} ELSE {}
    /\ late = {}
    /\ call = NoCall
    /\ budget = [disturbances |-> MaxDisturbances, losses |-> MaxLosses, edits |-> MaxEdits]

Upgrade ==
    /\ job.kind = "upgrade"
    /\ tf' = UpgradeState(tf)
    /\ job' = NoJob
    /\ UNCHANGED <<srv, live, late, config, call, budget>>

Spend(item) ==
    /\ budget[item] > 0
    /\ budget' = [budget EXCEPT ![item] = @ - 1]

Known(version) == {version} \ {0}

Applications == {"create", "update", "delete"}

Planned(kind, prior, known) ==
    job' = [NoJob EXCEPT
        !.kind = kind, !.prior = prior, !.trigger = config.trigger, !.adopt = config.adopt,
        !.known = known, !.observed = Known(prior.version),
        !.announced = ModifyPlanAnnounces(prior, config.trigger, config.adopt, known)]

PlanCreate(prior, known) ==
    /\ config.wanted /\ ~prior.present
    /\ Planned("create", prior, known)

PlanUpdate(prior, known) ==
    /\ config.wanted /\ prior.present
    /\ ModifyPlanAccepts(prior, config.trigger, config.adopt, known)
    /\ \/ ~known \/ rotationTriggerChanged(prior, config.trigger)
       \/ prior.adopt # config.adopt
       \/ ModifyPlanAnnounces(prior, config.trigger, config.adopt, known)
    /\ Planned("update", prior, known)

\* ModifyPlan of a destroy plan.
PlanDestroy(prior) ==
    /\ ~config.wanted /\ prior.present
    /\ prior.owner = "automation"
    /\ Planned("delete", prior, TRUE)

\* A replacement is planned as an update and as a create; ModifyPlan never
\* sees its destroy half.
PlanReplace(prior) ==
    /\ Destroys /\ config.wanted /\ prior.present
    /\ ModifyPlanAccepts(prior, config.trigger, config.adopt, TRUE)
    /\ job' = [NoJob EXCEPT
           !.kind = "delete", !.prior = prior, !.trigger = config.trigger,
           !.adopt = config.adopt, !.replaces = TRUE, !.observed = Known(prior.version)]

\* terraform plan reads the binding first unless told -refresh=false.
Plan ==
    /\ job = NoJob
    /\ LET prior == Read(tf)
       IN PlanCreate(prior, TRUE) \/ PlanUpdate(prior, TRUE) \/ PlanDestroy(prior)
    /\ UNCHANGED <<srv, live, late, tf, config, call, budget>>

\* The less usual plans: of an old state, of values known only on apply, and
\* of a replacement the user asks for.
PlanOtherwise ==
    /\ job = NoJob
    /\ Spend("edits")
    /\ \/ PlanCreate(tf, TRUE) \/ PlanUpdate(tf, TRUE) \/ PlanDestroy(tf)
       \/ PlanUpdate(Read(tf), FALSE)
       \/ PlanReplace(Read(tf))
    /\ UNCHANGED <<srv, live, late, tf, config, call>>

\* A plan that changes nothing but what the state says.
Refresh ==
    /\ job = NoJob
    /\ tf' = Read(tf)
    /\ UNCHANGED <<srv, live, late, config, job, call, budget>>

\* ImportState knows the identity alone; Terraform reads the rest at once.
ImportState ==
    /\ job = NoJob
    /\ config.wanted /\ ~tf.present
    /\ srv.active
    /\ tf' = Read([Absent EXCEPT !.present = TRUE])
    /\ UNCHANGED <<srv, live, late, config, job, call, budget>>

-----------------------------------------------------------------------------
(* Applying a plan                                                         *)

Request(op, rev) == call' = [NoCall EXCEPT !.op = op, !.rev = rev]

Return == job' = NoJob /\ call' = NoCall

\* A method that reports an error leaves the state it was given.
ReturnError == Return /\ UNCHANGED tf

BeginCreate ==
    /\ job.kind = "create"
    /\ tf' = job.prior
    /\ Request("upsert", 0)
    /\ UNCHANGED job

\* revisionPrecondition: a mutation names the revision its state was read at.
NoPrecondition(state) == 0
IfMatch(state) == state.rev

\* Update asks again for the consent ModifyPlan asks for: a value that was not
\* known when the plan was made is known now.
UpdateMayAdopt(adopt) == adopt

\* Whether Update rotates a binding that is the workspace's own.
UpdateRotates(state, trigger) ==
    rotationTriggerChanged(state, trigger) \/ state.secret = 0 \/ state.rotationRequired

BeginUpdate ==
    /\ job.kind = "update"
    /\ IF humanOwned(job.prior)
       THEN /\ tf' = job.prior
            /\ IF UpdateMayAdopt(job.adopt)
               THEN Request("adopt", IfMatch(job.prior)) /\ UNCHANGED job
               ELSE Return
       ELSE IF UpdateRotates(job.prior, job.trigger)
       THEN /\ tf' = job.prior
            /\ Request("rotate", IfMatch(job.prior)) /\ UNCHANGED job
       ELSE /\ tf' = stateWithoutMutation(job.prior, job)
            /\ Return

\* Delete looks at the owner again: the destroy half of a replacement has not
\* been through ModifyPlan.
ArchivesAnyone(state) == TRUE
MayArchive(state) == state.owner = "automation"

BeginDelete ==
    /\ job.kind = "delete"
    /\ tf' = job.prior
    /\ IF MayArchive(job.prior)
       THEN Request("delete", IfMatch(job.prior)) /\ UNCHANGED job
       ELSE Return

Begin ==
    /\ call = NoCall
    /\ BeginCreate \/ BeginUpdate \/ BeginDelete
    /\ UNCHANGED <<srv, live, late, config, budget>>

Observe(version) == job' = [job EXCEPT !.observed = @ \cup Known(version)]

\* validateIntegrationMutation: whoever owned the binding, the owner after a
\* mutation that issues a secret is automation.
KeepsContract(reply) == reply.kind = "ok" /\ reply.owner = "automation"

\* Create, Update and reissueSecret take the plaintext of a whole reply.
StoreSecret ==
    /\ IssuesSecret(call.op) /\ KeepsContract(call.reply)
    /\ tf' = stateFromMutation(job, call.reply)
    /\ Return

\* The plaintext was lost: rotate, guarded by the revision the lost mutation
\* left, and revoke the lost version at once.
MayReissueForever ==
    \/ call.op \in {"upsert", "reissue"}
    \/ call.op \in {"adopt", "rotate"} /\ job.kind = "update"
MayReissue ==
    \/ call.op = "upsert"
    \/ call.op \in {"adopt", "rotate"} /\ job.kind = "update"
    \/ call.op = "reissue" /\ job.reissues < maxSecretReissueAttempts
RevokesLater == "rotate"
Revocation == "reissue"
reissueSecret ==
    /\ call.reply.kind = "secret_reissue_required"
    /\ MayReissue
    /\ job' = [job EXCEPT !.reissues = @ + 1, !.lost = @ \cup {call.reply.version},
                          !.observed = @ \cup {call.reply.version}]
    /\ Request(Revocation, call.reply.rev)
    /\ UNCHANGED tf

\* Create found a binding and the plan allows adoption: look at it first.
adoptExistingReads ==
    /\ call.op = "upsert" /\ job.adopt
    /\ call.reply.kind \in {"ownership_conflict", "already_exists"}
    /\ Request("get", 0)
    /\ UNCHANGED <<tf, job>>

adoptExistingAdopts ==
    /\ call.op = "get" /\ call.reply.kind = "ok"
    /\ Request("adopt", call.reply.rev)
    /\ Observe(call.reply.version)
    /\ UNCHANGED tf

\* Delete takes a binding that is not found for one that is archived.
FinishDelete ==
    /\ call.op = "delete" /\ call.reply.kind \in {"ok", "not_found"}
    /\ tf' = Absent
    /\ call' = NoCall
    /\ job' = IF job.replaces
              THEN [job EXCEPT !.kind = "create", !.prior = Absent, !.replaces = FALSE]
              ELSE NoJob

ReportError ==
    /\ \/ call.reply.kind \in {"stale_revision", "conflict"}
       \/ call.reply.kind = "ok" /\ IssuesSecret(call.op) /\ ~KeepsContract(call.reply)
       \/ call.reply.kind = "not_found" /\ call.op # "delete"
       \/ call.reply.kind = "secret_reissue_required" /\ ~MayReissue
       \/ call.reply.kind \in {"ownership_conflict", "already_exists"} /\ ~job.adopt
    /\ ReturnError

Receive ==
    /\ \/ StoreSecret \/ reissueSecret \/ adoptExistingReads \/ adoptExistingAdopts
       \/ FinishDelete \/ ReportError
    /\ UNCHANGED <<srv, live, late, config, budget>>

-----------------------------------------------------------------------------
(* The world outside Terraform                                             *)

Carry(request) ==
    \E outcome \in Executed(request.op, request.rev) :
        /\ srv' = outcome.srv
        /\ live' = outcome.live

Execute ==
    /\ call.op # "none" /\ call.reply = NoReply
    /\ \E outcome \in Executed(call.op, call.rev) :
        /\ srv' = outcome.srv
        /\ live' = outcome.live
        /\ call' = [call EXCEPT !.reply = outcome.reply]
    /\ UNCHANGED <<late, tf, config, job, budget>>

\* The response is lost and the client's retry is recognised by its key.
LoseResponse ==
    /\ IssuesSecret(call.op) /\ call.reply.kind = "ok"
    /\ Spend("losses")
    /\ call' = [call EXCEPT !.reply.kind = "secret_reissue_required"]
    /\ UNCHANGED <<srv, live, late, tf, config, job>>

\* A proxy or another server answers instead, "not found" or, to a deletion,
\* "done": the answers DropIsJustified of ApiAnswers leaves it.
Misdirect ==
    /\ call.op # "none" /\ call.reply = NoReply
    /\ Spend("losses")
    /\ \E kind \in {"not_found", "ok"} :
        /\ kind = "ok" => call.op = "delete"
        /\ call' = [call EXCEPT !.reply = Refusal(kind)]
    /\ UNCHANGED <<srv, live, late, tf, config, job>>

\* The same to the Read of a plan or a refresh: the resource is lost.
MisdirectRead ==
    /\ job = NoJob /\ tf.present
    /\ Spend("losses")
    /\ \/ PlanCreate(Absent, TRUE) /\ UNCHANGED tf
       \/ tf' = Absent /\ UNCHANGED job
    /\ UNCHANGED <<srv, live, late, config, call>>

\* The plan is dropped, Terraform is killed, or the client gives up: the
\* state stays as it was, and a request on its way may still arrive.
Interrupt ==
    /\ job.kind \in Applications
    /\ Spend("losses")
    /\ ReturnError
    /\ late' = IF (IssuesSecret(call.op) \/ call.op = "delete") /\ call.reply = NoReply
               THEN late \cup {[op |-> call.op, rev |-> call.rev,
                                adopt |-> job.adopt, observed |-> job.observed]}
               ELSE late
    /\ UNCHANGED <<srv, live, config>>

ExecuteLate ==
    /\ \E request \in late :
        /\ Carry(request)
        /\ late' = late \ {request}
    /\ UNCHANGED <<tf, config, job, call, budget>>

\* People in Pulse's UI and other holders of an automation key.
Disturb ==
    /\ Spend("disturbances")
    /\ \/ /\ ~srv.active
          /\ \E owner \in Owners : srv' = Issue(srv, owner)
          /\ live' = {srv'.version}
       \/ /\ srv.active
          /\ srv' = Issue(srv, srv.owner)
          /\ live' = live \cup {srv'.version}
       \/ srv.active /\ srv' = Archive(srv) /\ live' = {}
       \/ srv.active /\ srv' = [srv EXCEPT !.rev = @ + 1] /\ UNCHANGED live
    /\ UNCHANGED <<late, tf, config, job, call>>

\* The overlap of a rotation ends.
Expire ==
    /\ \E version \in live \ {srv.version} : live' = live \ {version}
    /\ UNCHANGED <<srv, late, tf, config, job, call, budget>>

\* The user does what the diagnostics of ModifyPlan say.
Obey ==
    /\ job = NoJob
    /\ tf.present
    /\ \/ /\ AdoptionMissing(tf, config.adopt, TRUE)
          /\ config' = [config EXCEPT !.adopt = TRUE]
       \/ /\ RotationMissing(tf, config.trigger, config.adopt, TRUE)
          /\ \E trigger \in Triggers \ {config.trigger} :
                 config' = [config EXCEPT !.trigger = trigger]
    /\ UNCHANGED <<srv, live, late, tf, job, call, budget>>

Edit ==
    /\ Spend("edits")
    /\ \/ \E trigger \in Triggers \ {config.trigger} :
              config' = [config EXCEPT !.trigger = trigger]
       \/ config' = [config EXCEPT !.adopt = ~@]
       \/ Destroys /\ config' = [config EXCEPT !.wanted = ~@]
    /\ UNCHANGED <<srv, live, late, tf, job, call>>

Next ==
    \/ Upgrade \/ Plan \/ PlanOtherwise \/ Refresh \/ ImportState \/ Begin \/ Receive
    \/ Execute \/ LoseResponse \/ Misdirect \/ MisdirectRead \/ Interrupt \/ ExecuteLate
    \/ Disturb \/ Expire \/ Obey \/ Edit

Spec == Init /\ [][Next]_vars

\* Terraform runs on, Pulse answers, and the user keeps applying, does what
\* diagnostics ask, and imports what Create keeps finding in its way.  Nobody
\* has to lose, disturb, edit or hurry anything.
FairSpec ==
    /\ Spec
    /\ WF_vars(Begin) /\ WF_vars(Receive) /\ WF_vars(Execute)
    /\ WF_vars(Upgrade) /\ WF_vars(Plan) /\ WF_vars(Refresh) /\ WF_vars(Obey)
    /\ SF_vars(ImportState)

-----------------------------------------------------------------------------
(* Properties *)

\* What the state says of the binding is true of the revision it names: while
\* Pulse still has that revision, owner and version agree with Pulse's, and a
\* secret in the state is the active one.  A secret never outlives its version
\* in the state, and a state without one says so, for ModifyPlan to ask for a
\* rotation, whatever was rotated, lost, imported, planned or upgraded before.
Linked(state) ==
    state.secret # 0 => state.secret = state.version /\ ~state.rotationRequired
Flagged(state) == state.present /\ state.secret = 0 => state.rotationRequired
Current(snapshot) ==
    /\ snapshot.rev <= srv.rev
    /\ srv.active /\ snapshot.rev = srv.rev =>
           snapshot.version = srv.version /\ snapshot.owner = srv.owner
StateIsHonest ==
    /\ Linked(tf) /\ Linked(job.prior)
    /\ Flagged(tf) /\ Flagged(job.prior)
    /\ Current(tf) /\ Current(job.prior) /\ Current(call.reply)

\* A request of this workspace changes an active binding only when the
\* workspace has seen the version it replaces or archives: nobody else's
\* credential is replaced unseen, even by a request that arrives late.
ChangesOnlyWhatItSaw(request) ==
    srv.active /\ srv' # srv => srv.version \in request.observed
NothingUnseenChanges ==
    /\ Execute => ChangesOnlyWhatItSaw(job)
    /\ ExecuteLate => \E request \in late \ late' : ChangesOnlyWhatItSaw(request)
NoBlindChange == [][NothingUnseenChanges]_vars

\* What a person owns is only ever changed by an adoption the configuration
\* of that plan allows: never rotated, never archived, not even by a destroy
\* or a replacement planned while it was the workspace's own.
RespectsOwner(op, adopt) ==
    srv.active /\ srv.owner = "human" /\ srv' # srv => op = "adopt" /\ adopt
OwnersAreRespected ==
    /\ Execute => RespectsOwner(call.op, job.adopt)
    /\ ExecuteLate => \E request \in late \ late' : RespectsOwner(request.op, request.adopt)
HumanOwnershipIsRespected == [][OwnersAreRespected]_vars

\* When an operation ends with a secret in the state, no version whose
\* plaintext was reported lost on the way is still accepted by Pulse.
LostAreRevokedByTheEnd ==
    job.kind # "none" /\ job'.kind = "none" /\ tf'.secret # tf.secret => job.lost \cap live' = {}
LostVersionsAreRevoked == [][LostAreRevokedByTheEnd]_vars

\* A plan whose values were known announces the replacement of the secret
\* that its apply makes, and Update replaces it whenever the plan said so.
UpdateKeepsThePlan ==
    job.kind = "update" /\ job.known =>
        (job.announced <=>
            humanOwned(job.prior) \/ UpdateRotates(job.prior, job.trigger))

\* The state holds the plaintext Pulse accepts.
Held == tf.secret # 0 /\ srv.active /\ tf.secret = srv.version

\* The only copy of a plaintext Pulse accepts as the active one stays in the
\* state and in every plan that is to replace the state: no upgrade, refresh,
\* plan, apply or error throws it away while Pulse's record stands still.  Only a
\* stranger can, with "not found" to a Read, or with "not found" or "done" to a
\* deletion.
SafelyHeld ==
    /\ Held
    /\ job.kind \in Applications /\ call = NoCall => job.prior.secret = srv.version
StrangerHeard ==
    MisdirectRead \/ (FinishDelete /\ call.reply \in {Refusal("not_found"), Refusal("ok")})
StaysHeld == SafelyHeld /\ UNCHANGED srv /\ ~StrangerHeard => SafelyHeld'
SecretIsKept == [][StaysHeld]_vars

\* Once people, networks and edits leave the binding alone, a user who applies
\* and does what the diagnostics ask ends up, for good, with the plaintext of
\* the active credential in the state.
Recovers == <>[]Held

\* Create adopts, as the attribute's description says, a human-owned binding.
AdoptsOnlyHumanOwned ==
    [][job.kind = "create" /\ call.op = "get" /\ call'.op = "adopt"
           => call.reply.owner = "human"]_vars
=============================================================================
