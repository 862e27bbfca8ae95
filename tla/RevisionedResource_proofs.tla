--------------------- MODULE RevisionedResource_proofs ---------------------
(***************************************************************************)
(* Proofs about RevisionedResource, for every kind, every set of           *)
(* configurations and any number of disturbances, losses and edits.        *)
(*                                                                         *)
(* NoLostUpdate follows from one fact about snapshots: as long as Pulse    *)
(* has the revision a state, plan, request or answer names, it has the     *)
(* configuration noted beside it.  Pulse's own steps keep the fact because *)
(* they only raise revisions and identifiers (ServerSteps); Terraform's    *)
(* keep it because they only copy snapshots.                               *)
(***************************************************************************)
EXTENDS RevisionedResource, TLAPS

Record == [id : Nat, active : BOOLEAN, value : Configurations, rev : Nat]
Job == [kind : {"none", "create", "update", "delete"}, prior : State,
        value : Configurations, replaces : BOOLEAN]
Answers == [kind : {"none", "ok", "not_found", "stale_revision", "already_exists", "refused"},
            id : Nat, value : Configurations, rev : Nat]
Mind == [kind : Kinds, wanted : BOOLEAN, value : Configurations]

Budget == [disturbances : Nat, losses : Nat, edits : Nat]

\* The inductive invariant, one part for each variable: it is of its type, its
\* snapshot is honest, a state without the resource is empty and creations
\* start from the empty state.
HonestState(state) == state \in State /\ Current(state) /\ (state.present \/ state = Absent)
JobInv == /\ job \in Job /\ HonestState(job.prior)
          /\ job.kind = "create" => job.prior = Absent
CallInv == call \in Requests \cup {NoRequest} /\ RequestIsCurrent(call)
ReplyInv == reply \in Answers /\ Current(reply)
LateInv == /\ late \subseteq Requests
           /\ \A request \in late : RequestIsCurrent(request)
Inv ==
    /\ srv \in Record /\ HonestState(tf) /\ JobInv /\ CallInv /\ ReplyInv /\ LateInv
    /\ config \in Mind /\ budget \in Budget

-----------------------------------------------------------------------------

LEMMA AnyConfiguration == anyConfiguration \in Configurations
BY BoundsAssumption DEF anyConfiguration

LEMMA Constants ==
    /\ Absent \in State /\ ~Absent.present /\ Absent.id = 0 /\ Absent.rev = 0
    /\ NoJob \in Job /\ NoJob.prior = Absent /\ NoJob.kind = "none"
    /\ NoReply \in Answers /\ NoReply.id = 0 /\ NoReply.rev = 0 /\ NoReply.kind = "none"
    /\ NoRequest.id = 0 /\ NoRequest.precondition.rev = 0 /\ NoRequest.op = "none"
    /\ NoRecord \in Record
<1>1. Absent \in State /\ ~Absent.present /\ Absent.id = 0 /\ Absent.rev = 0
  BY AnyConfiguration DEF Absent, State
<1>2. NoJob \in Job /\ NoJob.prior = Absent /\ NoJob.kind = "none"
  BY <1>1, AnyConfiguration DEF NoJob, Job
<1>3. NoReply \in Answers /\ NoReply.id = 0 /\ NoReply.rev = 0 /\ NoReply.kind = "none"
  BY AnyConfiguration DEF NoReply, Answers
<1>4. NoRequest.id = 0 /\ NoRequest.precondition.rev = 0 /\ NoRequest.op = "none"
  BY DEF NoRequest, NoPrecondition
<1>5. NoRecord \in Record
  BY AnyConfiguration DEF NoRecord, Record
<1> QED
  BY <1>1, <1>2, <1>3, <1>4, <1>5

LEMMA RequestFields ==
    ASSUME NEW request \in Requests
    PROVE  /\ request.id \in Nat /\ request.precondition.rev \in Nat
           /\ request.value \in Configurations /\ request.seen \in Configurations
           /\ request.op = "create" =>
                  request.precondition.createOnly = (Kind = "rollup")
           /\ request.op # "create" =>
                  /\ request.op \in {"update", "delete"}
                  /\ request.precondition.rev \in Nat \ {0}
<1>1. CASE request \in Changes
  BY <1>1 DEF Changes
<1>2. CASE request \in Creations
  BY <1>2 DEF Creations
<1> QED
  BY <1>1, <1>2 DEF Requests

\* Every change Pulse makes has a larger identifier or a larger revision.
LEMMA RevisionsGrow ==
    ASSUME NEW s \in Record, NEW value \in Configurations
    PROVE  /\ Created(s, value) \in Record
           /\ \/ Created(s, value).id > s.id
              \/ Created(s, value).id = s.id /\ Created(s, value).rev > s.rev
           /\ Replaced(s, value) \in Record
           /\ Replaced(s, value).id = s.id /\ Replaced(s, value).rev > s.rev
           /\ Archived(s) \in Record
           /\ Archived(s).id = s.id /\ Archived(s).rev > s.rev
<1>1. /\ Created(s, value) \in Record
      /\ \/ Created(s, value).id > s.id
         \/ Created(s, value).id = s.id /\ Created(s, value).rev > s.rev
  <2>1. CASE Kind = "catalog" \/ s.id = 0
    BY <2>1 DEF Created, Record
  <2>2. CASE ~(Kind = "catalog" \/ s.id = 0)
    BY <2>2 DEF Created, Record
  <2> QED
    BY <2>1, <2>2
<1>2. /\ Replaced(s, value) \in Record
      /\ Replaced(s, value).id = s.id /\ Replaced(s, value).rev > s.rev
  BY DEF Replaced, Record
<1>3. /\ Archived(s) \in Record
      /\ Archived(s).id = s.id /\ Archived(s).rev > s.rev
  BY DEF Archived, Record
<1> QED
  BY <1>1, <1>2, <1>3

\* So what was true of a snapshot stays true.
LEMMA ServerSteps ==
    ASSUME srv \in Record, NEW value \in Configurations,
           \/ srv' = srv
           \/ srv' = Created(srv, value)
           \/ srv' = Replaced(srv, value)
           \/ srv' = Archived(srv)
    PROVE  /\ srv' \in Record
           /\ \A id, rev \in Nat, seen \in Configurations :
                  Snapshot(id, rev, seen) => Snapshot(id, rev, seen)'
<1>1. /\ srv' \in Record
      /\ \/ srv' = srv
         \/ srv'.id > srv.id
         \/ srv'.id = srv.id /\ srv'.rev > srv.rev
  BY RevisionsGrow
<1>2. srv.id \in Nat /\ srv.rev \in Nat /\ srv'.id \in Nat /\ srv'.rev \in Nat
  BY <1>1 DEF Record
<1> QED
  BY <1>1, <1>2 DEF Snapshot

\* An answer that repeats Pulse's record is honest.
LEMMA DoneIsHonest ==
    ASSUME NEW s \in Record, srv' = s
    PROVE  Done(s).reply \in Answers /\ Current(Done(s).reply)' /\ Done(s).srv = s
<1>1. /\ Done(s).reply \in Answers /\ Done(s).srv = s
      /\ Done(s).reply.id = s.id /\ Done(s).reply.rev = s.rev /\ Done(s).reply.value = s.value
  BY DEF Done, Answers, Record
<1>2. s.id \in Nat /\ s.rev \in Nat
  BY DEF Record
<1> QED
  BY <1>1, <1>2 DEF Current, Snapshot

\* The kind of the resource never changes, so requests stay what they are.
LEMMA SameKind ==
    ASSUME config'.kind = config.kind
    PROVE  Requests' = Requests
BY DEF Requests, Creations, Changes, Kind

\* What Pulse does with a request that is honest: it only replaces or archives
\* what the request was made from, and its answer is honest.
LEMMA Execution ==
    ASSUME srv \in Record, config \in Mind, NEW request \in Requests,
           RequestIsCurrent(request), srv' = Executed(request).srv, NEW answer, answer = Executed(request).reply
    PROVE  /\ \/ srv' = srv
              \/ srv' = Created(srv, request.value)
              \/ srv' = Replaced(srv, request.value)
              \/ srv' = Archived(srv)
           /\ ReplacesWhatItSaw(request)
           /\ answer \in Answers
           /\ Current(answer)'
<1>1. CASE request.op = "create"
  <2>1. request.precondition.createOnly = (Kind = "rollup")
    BY <1>1, RequestFields
  <2>2. Executed(request) = ExecutedCreate(request)
    BY <1>1 DEF Executed
  <2>3. CASE ~srv.active
    <3>1. Executed(request) = Done(Created(srv, request.value)) /\ request.value \in Configurations
      BY <2>2, <2>3, RequestFields DEF ExecutedCreate
    <3>2. Created(srv, request.value) \in Record /\ srv' = Created(srv, request.value)
      BY <3>1, RevisionsGrow DEF Done
    <3>3. answer = Done(Created(srv, request.value)).reply
      BY <3>1
    <3>4. ReplacesWhatItSaw(request)
      BY <2>3 DEF ReplacesWhatItSaw
    <3> QED
      BY <3>2, <3>3, <3>4, DoneIsHonest
  <2>4. CASE srv.active /\ Kind = "component"
    BY <2>2, <2>4 DEF ExecutedCreate, Done, Record, ReplacesWhatItSaw, Answers, Current, Snapshot
  <2>5. CASE srv.active /\ Kind # "component"
    BY <2>1, <2>2, <2>5, Constants
       DEF Kind, Kinds, Mind, ExecutedCreate, Refused, Record, ReplacesWhatItSaw, Answers, NoReply, Current, Snapshot
  <2> QED
    BY <2>3, <2>4, <2>5
<1>2. CASE request.op # "create"
  <2>1. /\ request.op \in {"update", "delete"} /\ request.id \in Nat
        /\ request.precondition.rev \in Nat \ {0} /\ request.value \in Configurations
    BY <1>2, RequestFields
  <2>2. CASE ~srv.active \/ request.id # srv.id \/ request.precondition.rev # srv.rev
    BY <1>2, <2>1, <2>2, Constants
       DEF Executed, Refused, Record, ReplacesWhatItSaw, Answers, NoReply, Current, Snapshot
  <2>3. CASE srv.active /\ request.id = srv.id /\ request.precondition.rev = srv.rev
    <3>1. request.seen = srv.value
      BY <2>1, <2>3 DEF RequestIsCurrent, Snapshot
    <3>2. Executed(request) = IF request.op = "update" THEN Done(Replaced(srv, request.value))
                                                       ELSE Done(Archived(srv))
      BY <1>2, <2>3 DEF Executed
    <3> QED
      BY <1>2, <2>1, <2>3, <3>1, <3>2 DEF Done, Replaced, Archived, Record, ReplacesWhatItSaw,
         Answers, Current, Snapshot
  <2> QED
    BY <2>2, <2>3
<1> QED
  BY <1>1, <1>2

-----------------------------------------------------------------------------
(* Pulse's steps                                                           *)

\* The parts a step of Pulse leaves alone stay honest.
LEMMA ServerInv ==
    ASSUME Inv, NEW value \in Configurations,
           \/ srv' = srv
           \/ srv' = Created(srv, value)
           \/ srv' = Replaced(srv, value)
           \/ srv' = Archived(srv),
           UNCHANGED <<tf, job, call, config>>, late' \subseteq late, budget' \in Budget
    PROVE  /\ (reply' \in Answers /\ Current(reply)') => Inv'
           /\ reply' = reply => Inv'
<1>0. Requests' = Requests
  BY SameKind
<1>1. /\ srv' \in Record
      /\ \A id, rev \in Nat, seen \in Configurations :
             Snapshot(id, rev, seen) => Snapshot(id, rev, seen)'
  BY ServerSteps DEF Inv
<1>2. HonestState(tf)'
  BY <1>1 DEF Inv, HonestState, State, Current
<1>3. JobInv'
  BY <1>1 DEF Inv, JobInv, HonestState, State, Current, Job
<1>4. \A request \in Requests : RequestIsCurrent(request) => RequestIsCurrent(request)'
  BY <1>1, RequestFields DEF RequestIsCurrent
<1>5. CallInv'
  <2>1. CASE call = NoRequest
    <3>1. NoRequest.id = 0 /\ NoRequest.precondition.rev = 0 /\ srv'.id \in Nat /\ srv'.rev \in Nat
      BY <1>1, Constants DEF Record
    <3> QED
      BY <2>1, <3>1 DEF CallInv, RequestIsCurrent, Snapshot
  <2>2. CASE call \in Requests
    BY <1>0, <1>4, <2>2 DEF Inv, CallInv
  <2> QED
    BY <2>1, <2>2 DEF Inv, CallInv
<1>6. LateInv'
  BY <1>0, <1>4 DEF Inv, LateInv
<1>7. ASSUME reply' = reply PROVE ReplyInv'
  BY <1>1, <1>7 DEF Inv, ReplyInv, Answers, Current
<1> QED
  BY <1>1, <1>2, <1>3, <1>5, <1>6, <1>7 DEF Inv, ReplyInv

LEMMA ExecuteInv == Inv /\ Execute => Inv'
<1> SUFFICES ASSUME Inv, Execute PROVE Inv'
  OBVIOUS
<1>1. call \in Requests /\ RequestIsCurrent(call) /\ call.value \in Configurations
  BY RequestFields DEF Inv, CallInv, Execute
<1>2. /\ srv \in Record /\ config \in Mind /\ srv' = Executed(call).srv /\ reply' = Executed(call).reply
      /\ UNCHANGED <<tf, job, call, config, late, budget>>
  BY DEF Inv, Execute
<1>3. /\ \/ srv' = srv
         \/ srv' = Created(srv, call.value)
         \/ srv' = Replaced(srv, call.value)
         \/ srv' = Archived(srv)
      /\ reply' \in Answers /\ Current(reply)'
  BY <1>1, <1>2, Execution DEF Current
<1> QED
  BY <1>1, <1>2, <1>3, ServerInv DEF Inv

LEMMA WorldInv ==
    ASSUME Inv, ExecuteLate \/ Disturb \/ DisturbByArchiving
    PROVE  Inv'
<1>1. CASE ExecuteLate
  <2>1. PICK request \in late : /\ srv' = Executed(request).srv
                                /\ late' = late \ {request}
    BY <1>1 DEF ExecuteLate
  <2>2. request \in Requests /\ RequestIsCurrent(request) /\ request.value \in Configurations
    BY RequestFields DEF Inv, LateInv
  <2>3. \/ srv' = srv
        \/ srv' = Created(srv, request.value)
        \/ srv' = Replaced(srv, request.value)
        \/ srv' = Archived(srv)
    BY <2>1, <2>2, Execution DEF Inv
  <2> QED
    BY <1>1, <2>1, <2>2, <2>3, ServerInv DEF Inv, ExecuteLate
<1>2. ASSUME NEW item \in {"disturbances", "losses", "edits"}, Spend(item)
      PROVE  budget' \in Budget
  BY <1>2 DEF Inv, Spend, Budget
<1>3. CASE Disturb
  BY <1>2, <1>3, ServerInv DEF Inv, Disturb
<1>4. CASE DisturbByArchiving
  BY <1>2, <1>4, AnyConfiguration, ServerInv DEF Inv, DisturbByArchiving
<1> QED
  BY <1>1, <1>3, <1>4

-----------------------------------------------------------------------------
(* Terraform's steps: Pulse's record stands still, and what the new state, *)
(* plan or request says of it is copied from something honest.             *)

LEMMA ReadIsHonest ==
    ASSUME Inv, NEW state \in State
    PROVE  HonestState(Read(state))
<1>1. HonestState(Absent)
  BY Constants DEF Inv, HonestState, Current, Snapshot, Record
<1>2. HonestState(FromRemote(srv))
  BY DEF Inv, FromRemote, HonestState, Current, Snapshot, Record, State
<1> QED
  BY <1>1, <1>2 DEF Read

LEMMA SpendKeepsBudget ==
    ASSUME Inv, NEW item \in {"disturbances", "losses", "edits"}, Spend(item)
    PROVE  budget' \in Budget
BY DEF Inv, Spend, Budget

LEMMA EmptyInv ==
    ASSUME Inv
    PROVE  /\ HonestState(Absent) /\ NoJob \in Job /\ NoJob.prior = Absent /\ NoJob.kind = "none"
           /\ RequestIsCurrent(NoRequest) /\ NoReply \in Answers /\ Current(NoReply)
BY Constants DEF Inv, HonestState, Current, RequestIsCurrent, Snapshot, Record

\* The frame: with Pulse's record unchanged, what was or is found honest stays
\* so in the next state.
LEMMA Frame ==
    ASSUME srv' = srv
    PROVE  /\ \A state : HonestState(state) => HonestState(state)'
           /\ \A state : Current(state) => Current(state)'
           /\ \A request : RequestIsCurrent(request) => RequestIsCurrent(request)'
BY DEF HonestState, Current, RequestIsCurrent, Snapshot

LEMMA WorkspaceInv ==
    ASSUME Inv, srv' = srv,
           HonestState(tf'),
           job' \in Job, HonestState(job'.prior), job'.kind = "create" => job'.prior = Absent,
           call' \in Requests \cup {NoRequest}, RequestIsCurrent(call'),
           reply' \in Answers, Current(reply'),
           \A request \in late' : request \in Requests /\ RequestIsCurrent(request),
           config' \in Mind, config'.kind = config.kind, budget' \in Budget
    PROVE  Inv'
<1>1. HonestState(tf)' /\ HonestState(job.prior)'
  BY Frame
<1>2. RequestIsCurrent(call)' /\ Current(reply)'
  BY Frame
<1>3. late' \subseteq Requests /\ \A request \in late' : RequestIsCurrent(request)'
  BY Frame
<1>4. Requests' = Requests
  BY SameKind
<1> QED
  BY <1>1, <1>2, <1>3, <1>4 DEF Inv, JobInv, CallInv, ReplyInv, LateInv

LEMMA PlanInv ==
    ASSUME Inv, Plan \/ PlanOtherwise \/ (MisdirectRead /\ PlanFrom(Absent))
    PROVE  Inv'
<1>1. tf \in State /\ HonestState(tf) /\ HonestState(Read(tf)) /\ HonestState(Absent)
  BY ReadIsHonest, EmptyInv DEF Inv, HonestState
<1>2. ASSUME NEW prior, HonestState(prior), NEW replaces \in BOOLEAN,
             NEW kind \in {"create", "update", "delete"}, kind = "create" => ~prior.present,
             Planned(kind, prior, replaces)
      PROVE  job' \in Job /\ HonestState(job'.prior) /\ (job'.kind = "create" => job'.prior = Absent)
  <2>1. prior \in State /\ config.value \in Configurations /\ (~prior.present => prior = Absent)
    BY <1>2 DEF Inv, HonestState, Mind
  <2>2. job' = [kind |-> kind, prior |-> prior, value |-> config.value, replaces |-> replaces]
    BY <1>2 DEF Planned
  <2>3. job' \in Job /\ job'.prior = prior /\ job'.kind = kind
    BY <2>1, <2>2 DEF Job
  <2> QED
    BY <1>2, <2>1, <2>3
<1>3. ASSUME NEW prior, HonestState(prior), PlanFrom(prior)
      PROVE  job' \in Job /\ HonestState(job'.prior) /\ (job'.kind = "create" => job'.prior = Absent)
  <2>1. \/ ~prior.present /\ Planned("create", prior, FALSE)
        \/ Planned("update", prior, FALSE)
        \/ Planned("delete", prior, FALSE)
    BY <1>3 DEF PlanFrom
  <2> QED
    BY <1>2, <1>3, <2>1
<1>4. job' \in Job /\ HonestState(job'.prior) /\ (job'.kind = "create" => job'.prior = Absent)
  <2>1. \/ PlanFrom(tf)
        \/ PlanFrom(Read(tf))
        \/ PlanFrom(Absent)
        \/ Planned("delete", Read(tf), TRUE)
    BY DEF Plan, PlanOtherwise
  <2> QED
    BY <1>1, <1>2, <1>3, <2>1
<1>5. UNCHANGED <<srv, late, config, call, reply>> /\ HonestState(tf') /\ budget' \in Budget
  BY <1>1, SpendKeepsBudget DEF Inv, Plan, PlanOtherwise, MisdirectRead
<1> QED
  BY <1>4, <1>5, WorkspaceInv DEF Inv, CallInv, ReplyInv, LateInv

LEMMA ReadingInv ==
    ASSUME Inv, Refresh \/ ImportState
    PROVE  Inv'
<1>1. HonestState(tf')
  <2>1. [Absent EXCEPT !.present = TRUE, !.id = srv.id] \in State
    BY Constants DEF Inv, Record, State
  <2> QED
    BY <2>1, ReadIsHonest DEF Inv, HonestState, Refresh, ImportState
<1>2. UNCHANGED <<srv, late, config, job, call, reply, budget>>
  BY DEF Refresh, ImportState
<1> QED
  BY <1>1, <1>2, WorkspaceInv DEF Inv, JobInv, CallInv, ReplyInv, LateInv

LEMMA BeginInv == Inv /\ Begin => Inv'
<1> SUFFICES ASSUME Inv, Begin PROVE Inv'
  OBVIOUS
<1>1. /\ HonestState(tf') /\ UNCHANGED <<srv, late, config, budget>>
      /\ job \in Job /\ HonestState(job.prior) /\ job.prior \in State /\ job.kind # "none"
      /\ job.kind = "create" => job.prior = Absent
  BY DEF Inv, JobInv, HonestState, Begin
<1>2. job.value \in Configurations /\ job.prior.value \in Configurations
      /\ job.prior.id \in Nat /\ job.prior.rev \in Nat
  BY <1>1 DEF Job, State
<1>3. CASE job.kind = "create"
  <2>1. /\ call' = [op |-> "create", id |-> 0, value |-> job.value, seen |-> job.prior.value,
                    precondition |-> [rev |-> 0, createOnly |-> Kind = "rollup"]]
        /\ UNCHANGED <<job, reply>>
    BY <1>1, <1>3, Constants DEF Begin, Request, CreatePrecondition
  <2>2. call' \in Creations
    BY <1>2, <2>1 DEF Creations
  <2>3. RequestIsCurrent(call')
    BY <1>2, <2>1 DEF Inv, RequestIsCurrent, Snapshot, Record
  <2> QED
    BY <1>1, <2>1, <2>2, <2>3, WorkspaceInv DEF Inv, JobInv, ReplyInv, LateInv, Requests
<1>4. CASE job.kind # "create" /\ HasRevision(job.prior)
  <2>1. /\ call' = [op |-> job.kind, id |-> job.prior.id, value |-> job.value,
                    seen |-> job.prior.value,
                    precondition |-> [rev |-> job.prior.rev, createOnly |-> FALSE]]
        /\ UNCHANGED <<job, reply>>
    BY <1>4 DEF Begin, Request, IfMatch
  <2>2. job.kind \in {"update", "delete"} /\ job.prior.rev \in Nat \ {0}
    BY <1>1, <1>2, <1>4 DEF Job, HasRevision
  <2>3. call' \in Changes
    BY <1>2, <2>1, <2>2 DEF Changes
  <2>4. RequestIsCurrent(call')
    BY <1>1, <2>1 DEF HonestState, Current, RequestIsCurrent
  <2> QED
    BY <1>1, <2>1, <2>3, <2>4, WorkspaceInv DEF Inv, JobInv, ReplyInv, LateInv, Requests
<1>5. CASE job.kind # "create" /\ ~HasRevision(job.prior)
  <2>1. Return
    BY <1>5 DEF Begin
  <2> QED
    BY <1>1, <2>1, EmptyInv, WorkspaceInv DEF Inv, LateInv, Return
<1> QED
  BY <1>3, <1>4, <1>5

\* What an answer becomes in the state.
LEMMA AnswerIsHonest ==
    ASSUME Inv
    PROVE  HonestState(FromRemote(reply))
BY DEF Inv, ReplyInv, Answers, FromRemote, HonestState, Current, State

LEMMA ReceiveInv == Inv /\ Receive => Inv'
<1> SUFFICES ASSUME Inv, Receive PROVE Inv'
  OBVIOUS
<1>1. UNCHANGED <<srv, late, config, budget>>
  BY DEF Receive
<1>2. HonestState(tf')
  BY AnswerIsHonest, EmptyInv DEF Inv, Receive, StoreRemote, FinishDelete, ReportError
<1>3. /\ job' \in Job /\ HonestState(job'.prior) /\ (job'.kind = "create" => job'.prior = Absent)
      /\ call' = NoRequest /\ reply' = NoReply
  <2>1. CASE Return
    BY <2>1, EmptyInv DEF Return
  <2>2. CASE FinishDelete /\ job.replaces
    <3>1. job' = [job EXCEPT !.kind = "create", !.prior = Absent, !.replaces = FALSE]
      BY <2>2 DEF FinishDelete
    <3>2. job' \in Job /\ job'.prior = Absent
      BY <3>1, Constants DEF Inv, JobInv, Job
    <3> QED
      BY <2>2, <3>2, EmptyInv DEF FinishDelete
  <2> QED
    BY <2>1, <2>2 DEF Receive, StoreRemote, FinishDelete, ReportError
<1> QED
  BY <1>1, <1>2, <1>3, EmptyInv, WorkspaceInv DEF Inv, LateInv

LEMMA FailureInv ==
    ASSUME Inv, Refuse \/ Misdirect \/ MisdirectRead \/ Interrupt
    PROVE  Inv'
<1>1. CASE Refuse \/ Misdirect
  <2>1. /\ UNCHANGED <<srv, late, tf, config, job, call>> /\ budget' \in Budget
        /\ \E kind \in {"refused", "not_found", "ok"} : reply' = [NoReply EXCEPT !.kind = kind]
    BY <1>1, SpendKeepsBudget DEF Refuse, Misdirect
  <2>2. /\ reply' \in Answers /\ reply'.id = 0 /\ reply'.rev = 0
    BY <2>1, Constants DEF Answers
  <2>3. Current(reply')
    BY <2>2 DEF Inv, Record, Current, Snapshot
  <2> QED
    BY <2>1, <2>2, <2>3, WorkspaceInv DEF Inv, JobInv, CallInv, LateInv
<1>2. CASE Interrupt
  <2>1. /\ UNCHANGED <<srv, tf, config>> /\ Return /\ budget' \in Budget
    BY <1>2, SpendKeepsBudget DEF Interrupt
  <2>2. late' \subseteq late \cup {call} /\ (call = NoRequest => late' = late)
    BY <1>2 DEF Interrupt
  <2>3. \A request \in late' : request \in Requests /\ RequestIsCurrent(request)
    BY <2>2 DEF Inv, CallInv, LateInv
  <2> QED
    BY <2>1, <2>3, EmptyInv, WorkspaceInv DEF Inv, Return
<1>3. CASE MisdirectRead /\ UNCHANGED job
  <2>1. /\ UNCHANGED <<srv, late, config, job, call, reply>> /\ budget' \in Budget
        /\ tf' \in {tf, Absent}
    BY <1>3, SpendKeepsBudget DEF MisdirectRead
  <2> QED
    BY <2>1, EmptyInv, WorkspaceInv DEF Inv, JobInv, CallInv, ReplyInv, LateInv
<1> QED
  BY <1>1, <1>2, <1>3, PlanInv DEF MisdirectRead

LEMMA EditInv == Inv /\ Edit => Inv'
<1> SUFFICES ASSUME Inv, Edit PROVE Inv'
  OBVIOUS
<1>1. /\ UNCHANGED <<srv, late, tf, job, call, reply>> /\ budget' \in Budget
      /\ config' \in Mind /\ config'.kind = config.kind
  BY SpendKeepsBudget DEF Inv, Mind, Edit
<1> QED
  BY <1>1, WorkspaceInv DEF Inv, JobInv, CallInv, ReplyInv, LateInv

-----------------------------------------------------------------------------

LEMMA InitInv == Init => Inv
<1> SUFFICES ASSUME Init PROVE Inv
  OBVIOUS
<1>1. srv \in Record
  BY Constants, RevisionsGrow DEF Init
<1>2. HonestState(Absent) /\ Current(NoReply) /\ RequestIsCurrent(NoRequest)
  BY <1>1, Constants DEF HonestState, Current, RequestIsCurrent, Snapshot, Record
<1>4. ASSUME NEW previous \in V0States(srv) PROVE HonestState(UpgradeState(previous))
  BY <1>1 DEF V0States, UpgradeState, HonestState, Current, Snapshot, Record, State
<1>5. HonestState(tf)
  BY <1>2, <1>4 DEF Init
<1>3. config \in Mind /\ budget \in Budget
  BY AnyConfiguration, BoundsAssumption DEF Init, Mind, Budget
<1> QED
  BY <1>1, <1>2, <1>3, <1>5, Constants DEF Init, Inv, JobInv, CallInv, ReplyInv, LateInv

LEMMA NextInv == Inv /\ [Next]_vars => Inv'
<1> SUFFICES ASSUME Inv, [Next]_vars PROVE Inv'
  OBVIOUS
<1>1. CASE Next
  BY <1>1, PlanInv, ReadingInv, BeginInv, ReceiveInv, ExecuteInv, WorldInv, FailureInv, EditInv
     DEF Next
<1>2. CASE UNCHANGED vars
  BY <1>2, WorkspaceInv DEF vars, Inv, JobInv, CallInv, ReplyInv, LateInv
<1> QED
  BY <1>1, <1>2

LEMMA Invariance == Spec => []Inv
BY InitInv, NextInv, PTL DEF Spec

\* Type correctness, for every kind of resource and every bound.
THEOREM RevisionedTypes == Spec => []TypeOK
<1>1. Inv => TypeOK
  BY DEF Inv, JobInv, CallInv, ReplyInv, LateInv, HonestState, TypeOK,
     Record, Job, Answers, Mind, Budget
<1> QED
  BY <1>1, Invariance, PTL

\* A revision is never kept beside a configuration it does not belong to: what
\* Read, ImportState, Create and Update put into the state, and with it every
\* plan and every If-Match made from it, is a snapshot of Pulse's record.
THEOREM SnapshotsStayHonest == Spec => []SnapshotsAreHonest
<1>1. Inv => SnapshotsAreHonest
  BY DEF Inv, JobInv, CallInv, ReplyInv, LateInv, HonestState, SnapshotsAreHonest
<1> QED
  BY <1>1, Invariance, PTL

\* No update or deletion of this workspace, however late it is executed, hits a
\* configuration other than the one it was planned from, and no creation
\* replaces anything.
THEOREM NoUpdateIsLost == Spec => NoLostUpdate
<1> DEFINE Step == /\ Execute => ReplacesWhatItSaw(call)
                   /\ ExecuteLate => \E request \in late \ late' : ReplacesWhatItSaw(request)
<1>1. Inv /\ [Next]_vars => [Step]_vars
  <2> SUFFICES ASSUME Inv PROVE Step
    OBVIOUS
  <2>1. ASSUME Execute PROVE ReplacesWhatItSaw(call)
    <3>1. call \in Requests /\ RequestIsCurrent(call) /\ srv' = Executed(call).srv
      BY <2>1 DEF Inv, CallInv, Execute
    <3> QED
      BY <3>1, Execution DEF Inv
  <2>2. ASSUME ExecuteLate PROVE \E request \in late \ late' : ReplacesWhatItSaw(request)
    <3>1. PICK request \in late : srv' = Executed(request).srv /\ late' = late \ {request}
      BY <2>2 DEF ExecuteLate
    <3>2. request \in Requests /\ RequestIsCurrent(request)
      BY DEF Inv, LateInv
    <3>3. ReplacesWhatItSaw(request)
      BY <3>1, <3>2, Execution DEF Inv
    <3> QED
      BY <3>1, <3>3
  <2> QED
    BY <2>1, <2>2
<1> QED
  BY <1>1, Invariance, PTL DEF Spec, NoLostUpdate
=============================================================================
