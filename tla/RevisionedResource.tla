------------------------ MODULE RevisionedResource -------------------------
(***************************************************************************)
(* A resource whose writes Pulse guards with a configuration revision, of  *)
(* any kind:                                                               *)
(*   "catalog"    pulse_tag, pulse_team, pulse_component_type: created by  *)
(*                POST under a name Pulse keeps unique;                    *)
(*   "component"  pulse_component: created, recovered or restored by POST  *)
(*                under its immutable external_key;                        *)
(*   "rollup"     pulse_component_rollup: the complete ruleset of a parent *)
(*                component, created and replaced by PUT.                  *)
(*                                                                         *)
(* A plan is made from what Read saw; the apply may come much later, and   *)
(* Pulse serves other people and other workspaces in between.  A call of   *)
(* the Pulse client is executed at most once, perhaps after the client has *)
(* given it up (RemoteCall); a replayed one repeats its first answer.      *)
(***************************************************************************)
EXTENDS Integers, FiniteSets

CONSTANTS
    Configurations,   \* values of the whole mutable configuration
    MaxDisturbances,  \* changes made by people and other API clients
    MaxLosses,        \* requests refused, misdirected, given up or cut off
    MaxEdits          \* changes of the user's mind

ASSUME BoundsAssumption ==
    /\ Configurations # {}
    /\ {MaxDisturbances, MaxLosses, MaxEdits} \subseteq Nat

VARIABLES
    srv,      \* Pulse's record: the last one made under this name, key or parent
    late,     \* requests nobody waits for any more
    tf,       \* the resource in Terraform's state
    config,   \* the resource's block in the configuration, and its kind
    job,      \* the plan being made or applied
    call,     \* the request under way
    reply,    \* Pulse's answer to it
    budget    \* what is left of the bounds

vars == <<srv, late, tf, config, job, call, reply, budget>>

Kinds == {"catalog", "component", "rollup"}
Kind == config.kind

anyConfiguration == CHOOSE value \in Configurations : TRUE

Absent == [present |-> FALSE, id |-> 0, value |-> anyConfiguration, rev |-> 0]
NoJob == [kind |-> "none", prior |-> Absent, value |-> anyConfiguration, replaces |-> FALSE]
NoReply == [kind |-> "none", id |-> 0, value |-> anyConfiguration, rev |-> 0]
NoPrecondition == [rev |-> 0, createOnly |-> FALSE]
NoRequest ==
    [op |-> "none", id |-> 0, value |-> anyConfiguration, seen |-> anyConfiguration,
     precondition |-> NoPrecondition]

-----------------------------------------------------------------------------
(* Pulse (external).  Every change of the configuration raises the         *)
(* revision; a restored record keeps its UUID and goes on counting.        *)

NoRecord == [id |-> 0, active |-> FALSE, value |-> anyConfiguration, rev |-> 0]

\* A deleted catalog item is gone and its name free for a new UUID; a
\* component is archived; a ruleset is identified by its parent.
Created(s, value) ==
    IF Kind = "catalog" \/ s.id = 0
    THEN [id |-> s.id + 1, active |-> TRUE, value |-> value, rev |-> 1]
    ELSE [id |-> s.id, active |-> TRUE, value |-> value, rev |-> s.rev + 1]
Replaced(s, value) == [id |-> s.id, active |-> s.active, value |-> value, rev |-> s.rev + 1]
Archived(s) == [id |-> s.id, active |-> FALSE, value |-> s.value, rev |-> s.rev + 1]

Refused(kind) == [srv |-> srv, reply |-> [NoReply EXCEPT !.kind = kind]]
Done(s) ==
    [srv |-> s, reply |-> [kind |-> "ok", id |-> s.id, value |-> s.value, rev |-> s.rev]]

\* A POST under an active external_key answers with the component it finds;
\* a PUT replaces what it finds unless the request forbids it.
ExecutedCreate(request) ==
    IF ~srv.active THEN Done(Created(srv, request.value))
    ELSE IF Kind = "component" THEN Done(srv)
    ELSE IF Kind = "catalog" \/ request.precondition.createOnly THEN Refused("already_exists")
    ELSE Done(Replaced(srv, request.value))

Executed(request) ==
    IF request.op = "create" THEN ExecutedCreate(request)
    ELSE IF ~srv.active \/ request.id # srv.id THEN Refused("not_found")
    ELSE IF request.precondition.rev \notin {0, srv.rev} THEN Refused("stale_revision")
    ELSE IF request.op = "update" THEN Done(Replaced(srv, request.value))
    ELSE Done(Archived(srv))

-----------------------------------------------------------------------------
(* The resources' methods                                                  *)

\* componentModelFromRemote, componentRollupModelFromAPI, tagState, ...: what
\* the state says comes from Pulse's answer, not from the plan.
FromRemote(remote) ==
    [present |-> TRUE, id |-> remote.id, value |-> remote.value, rev |-> remote.rev]

\* Read: a record that is not found, or archived, leaves the state.
ReadKeepsGone(state) ==
    IF ~state.present \/ ~srv.active \/ state.id # srv.id THEN state ELSE FromRemote(srv)
ReadHidesDrift(state) ==
    IF ~state.present \/ ~srv.active \/ state.id # srv.id THEN Absent
    ELSE [state EXCEPT !.rev = srv.rev]
Read(state) ==
    IF ~state.present \/ ~srv.active \/ state.id # srv.id THEN Absent ELSE FromRemote(srv)

\* The state names the revision an update or a deletion is guarded by; only a
\* rollup is created under a precondition, If-None-Match: *.
NeverGuarded(state) == NoPrecondition
IfMatch(state) == [rev |-> state.rev, createOnly |-> FALSE]
CreateOrReplace == NoPrecondition
CreatePrecondition == [rev |-> 0, createOnly |-> Kind = "rollup"]

HasRevision(state) == state.rev > 0

\* Version 0 of pulse_component told components that receive signals from those
\* that own children; the upgrade drops that and keeps everything else.
V0States(s) ==
    [kind : {"external", "rollup"}, id : {s.id}, value : {s.value}, rev : {s.rev}]
UpgradeState(previous) ==
    [present |-> TRUE, id |-> previous.id, value |-> previous.value, rev |-> previous.rev]

Init ==
    /\ config \in [kind : Kinds, wanted : {TRUE}, value : {anyConfiguration}]
    /\ srv \in {NoRecord} \cup {Created(NoRecord, value) : value \in Configurations}
    /\ \/ tf = Absent
       \/ /\ Kind = "component" /\ srv.active
          /\ \E previous \in V0States(srv) : tf = UpgradeState(previous)
    /\ late = {}
    /\ job = NoJob
    /\ call = NoRequest
    /\ reply = NoReply
    /\ budget = [disturbances |-> MaxDisturbances, losses |-> MaxLosses, edits |-> MaxEdits]

Spend(item) ==
    /\ budget[item] > 0
    /\ budget' = [budget EXCEPT ![item] = @ - 1]

-----------------------------------------------------------------------------
(* Terraform: one operation at a time, planned from a state and applied    *)

Planned(kind, prior, replaces) ==
    job' = [kind |-> kind, prior |-> prior, value |-> config.value, replaces |-> replaces]

PlanFrom(prior) ==
    \/ config.wanted /\ ~prior.present /\ Planned("create", prior, FALSE)
    \/ /\ config.wanted /\ prior.present /\ prior.value # config.value
       /\ Planned("update", prior, FALSE)
    \/ ~config.wanted /\ prior.present /\ Planned("delete", prior, FALSE)

\* terraform plan reads the record first.
Plan ==
    /\ job = NoJob
    /\ PlanFrom(Read(tf))
    /\ UNCHANGED <<srv, late, tf, config, call, reply, budget>>

\* ... unless told -refresh=false; and the user may ask for a replacement, or
\* change what only a replacement can change.
PlanOtherwise ==
    /\ job = NoJob
    /\ Spend("edits")
    /\ \/ PlanFrom(tf)
       \/ config.wanted /\ Read(tf).present /\ Planned("delete", Read(tf), TRUE)
    /\ UNCHANGED <<srv, late, tf, config, call, reply>>

Refresh ==
    /\ job = NoJob
    /\ tf' = Read(tf)
    /\ UNCHANGED <<srv, late, config, job, call, reply, budget>>

\* ImportState passes the identifier through; Terraform reads the rest at once.
ImportState ==
    /\ job = NoJob
    /\ config.wanted /\ ~tf.present
    /\ srv.active
    /\ tf' = Read([Absent EXCEPT !.present = TRUE, !.id = srv.id])
    /\ UNCHANGED <<srv, late, config, job, call, reply, budget>>

Request(op, precondition) ==
    call' = [op |-> op, id |-> job.prior.id, value |-> job.value,
             seen |-> job.prior.value, precondition |-> precondition]

Return ==
    /\ job' = NoJob
    /\ call' = NoRequest
    /\ reply' = NoReply

\* The methods build the request, or report a state without a revision.
Begin ==
    /\ job.kind # "none" /\ call = NoRequest
    /\ tf' = job.prior
    /\ IF job.kind = "create"
       THEN Request("create", CreatePrecondition) /\ UNCHANGED <<job, reply>>
       ELSE IF HasRevision(job.prior)
       THEN Request(job.kind, IfMatch(job.prior)) /\ UNCHANGED <<job, reply>>
       ELSE Return
    /\ UNCHANGED <<srv, late, config, budget>>

StoreRemote ==
    /\ call.op \in {"create", "update"} /\ reply.kind = "ok"
    /\ tf' = FromRemote(reply)
    /\ Return

\* Delete takes a record that is not found for one that is deleted.
FinishDelete ==
    /\ call.op = "delete" /\ reply.kind \in {"ok", "not_found"}
    /\ tf' = Absent
    /\ IF job.replaces
       THEN /\ job' = [job EXCEPT !.kind = "create", !.prior = Absent, !.replaces = FALSE]
            /\ call' = NoRequest
            /\ reply' = NoReply
       ELSE Return

ReportError ==
    /\ \/ reply.kind \in {"stale_revision", "already_exists", "refused"}
       \/ reply.kind = "not_found" /\ call.op # "delete"
    /\ Return
    /\ UNCHANGED tf

Receive ==
    /\ StoreRemote \/ FinishDelete \/ ReportError
    /\ UNCHANGED <<srv, late, config, budget>>

-----------------------------------------------------------------------------
(* The world outside Terraform                                             *)

Execute ==
    /\ call # NoRequest /\ reply = NoReply
    /\ srv' = Executed(call).srv
    /\ reply' = Executed(call).reply
    /\ UNCHANGED <<late, tf, config, job, call, budget>>

\* Pulse refuses for a reason of its own: a permission, a limit, a catalog
\* item that is referenced, a parent that is gone, an outage.
Refuse ==
    /\ call # NoRequest /\ reply = NoReply
    /\ Spend("losses")
    /\ reply' = [NoReply EXCEPT !.kind = "refused"]
    /\ UNCHANGED <<srv, late, tf, config, job, call>>

\* A proxy or another server answers instead: "not found" to anything, "done" to
\* a deletion.  No other answer that is not Pulse's passes for one of Pulse's
\* (DropIsJustified and StoredIsReal of ApiAnswers).
Misdirect ==
    /\ call # NoRequest /\ reply = NoReply
    /\ Spend("losses")
    /\ \E kind \in {"not_found", "ok"} :
        /\ kind = "ok" => call.op = "delete"
        /\ reply' = [NoReply EXCEPT !.kind = kind]
    /\ UNCHANGED <<srv, late, tf, config, job, call>>

\* The same to the Read of a plan or a refresh: the resource is lost.
MisdirectRead ==
    /\ job = NoJob /\ tf.present
    /\ Spend("losses")
    /\ \/ PlanFrom(Absent) /\ UNCHANGED tf
       \/ tf' = Absent /\ UNCHANGED job
    /\ UNCHANGED <<srv, late, config, call, reply>>

\* The plan is dropped, Terraform is killed, or the client gives up: the state
\* stays as it was, and a request on its way may still arrive.
Interrupt ==
    /\ job # NoJob
    /\ Spend("losses")
    /\ Return
    /\ late' = IF call # NoRequest /\ reply = NoReply THEN late \cup {call} ELSE late
    /\ UNCHANGED <<srv, tf, config>>

ExecuteLate ==
    /\ \E request \in late :
        /\ srv' = Executed(request).srv
        /\ late' = late \ {request}
    /\ UNCHANGED <<tf, config, job, call, reply, budget>>

\* People in Pulse's UI and other holders of an automation key.
Disturb ==
    /\ Spend("disturbances")
    /\ \E value \in Configurations :
           srv' = IF srv.active THEN Replaced(srv, value) ELSE Created(srv, value)
    /\ UNCHANGED <<late, tf, config, job, call, reply>>

DisturbByArchiving ==
    /\ Spend("disturbances")
    /\ srv.active
    /\ srv' = Archived(srv)
    /\ UNCHANGED <<late, tf, config, job, call, reply>>

Edit ==
    /\ Spend("edits")
    /\ \/ \E value \in Configurations \ {config.value} : config' = [config EXCEPT !.value = value]
       \/ config' = [config EXCEPT !.wanted = ~@]
    /\ UNCHANGED <<srv, late, tf, job, call, reply>>

Next ==
    \/ Plan \/ PlanOtherwise \/ Refresh \/ ImportState \/ Begin \/ Receive
    \/ Execute \/ Refuse \/ Misdirect \/ MisdirectRead \/ Interrupt \/ ExecuteLate
    \/ Disturb \/ DisturbByArchiving \/ Edit

Spec == Init /\ [][Next]_vars

\* Terraform runs on, Pulse answers and the user keeps planning and applying.
\* A component needs no more; of the other kinds the user imports what Create
\* keeps finding in its way.
FairSpec ==
    /\ Spec
    /\ WF_vars(Plan) /\ WF_vars(Refresh) /\ WF_vars(Begin)
    /\ WF_vars(Receive) /\ WF_vars(Execute)
    /\ SF_vars(Kind # "component" /\ ImportState)

-----------------------------------------------------------------------------
(* Properties *)

\* A change or a deletion always names a revision, a creation never does.
Changes ==
    [op : {"update", "delete"}, id : Nat, value : Configurations, seen : Configurations,
     precondition : [rev : Nat \ {0}, createOnly : {FALSE}]]
Creations ==
    [op : {"create"}, id : {0}, value : Configurations, seen : Configurations,
     precondition : [rev : {0}, createOnly : {Kind = "rollup"}]]
Requests == Changes \cup Creations
State == [present : BOOLEAN, id : Nat, value : Configurations, rev : Nat]

TypeOK ==
    /\ srv \in [id : Nat, active : BOOLEAN, value : Configurations, rev : Nat]
    /\ late \subseteq Requests
    /\ tf \in State
    /\ config \in [kind : Kinds, wanted : BOOLEAN, value : Configurations]
    /\ job \in [kind : {"none", "create", "update", "delete"}, prior : State,
                value : Configurations, replaces : BOOLEAN]
    /\ call \in Requests \cup {NoRequest}
    /\ reply \in [kind : {"none", "ok", "not_found", "stale_revision", "already_exists",
                          "refused"},
                  id : Nat, value : Configurations, rev : Nat]
    /\ budget \in [disturbances : Nat, losses : Nat, edits : Nat]

\* What the state, a plan, a request or an answer says of a record is what
\* Pulse says of it for as long as the record has the revision named: a
\* revision is never kept beside a configuration it does not belong to.
Snapshot(id, rev, value) ==
    /\ id <= srv.id
    /\ id = srv.id => rev <= srv.rev
    /\ id = srv.id /\ rev = srv.rev /\ rev > 0 => value = srv.value
Current(state) == Snapshot(state.id, state.rev, state.value)
RequestIsCurrent(request) == Snapshot(request.id, request.precondition.rev, request.seen)
SnapshotsAreHonest ==
    /\ Current(tf) /\ Current(job.prior) /\ Current(reply)
    /\ \A request \in late \cup {call} : RequestIsCurrent(request)

\* A request of this workspace replaces or archives an active configuration
\* only when that is the configuration its plan was made from, however late it
\* arrives and whatever others did in between.  A creation replaces nothing.
ReplacesWhatItSaw(request) ==
    srv.active /\ srv' # srv =>
        /\ request.op # "create"
        /\ request.id = srv.id
        /\ request.seen = srv.value
NoLostUpdate ==
    [][/\ Execute => ReplacesWhatItSaw(call)
       /\ ExecuteLate => \E request \in late \ late' : ReplacesWhatItSaw(request)]_vars

\* Configuration, state and Pulse agree.
Converged ==
    IF config.wanted
    THEN srv.active /\ srv.value = config.value /\ tf = FromRemote(srv)
    ELSE ~tf.present

\* Once people, networks and edits leave the record alone, a user who applies
\* ends up, for good, with what the configuration says, even after a stranger's
\* answer made Terraform forget the record; a component is recovered from that,
\* from a lost creation and from an archival without an import.
Converges == <>[]Converged
=============================================================================
