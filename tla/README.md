# Verification of the Pulse Terraform provider

TLA+ models of the Terraform provider for Pulse: the request transport, the
lifecycle of component integrations with their one-time secrets, the resources
whose writes are guarded by a configuration revision, what the resources make of
every kind of HTTP answer, the rules of rollups, the data sources and the way from
the provider block to a request. TLC checks them on small instances; TLAPS proves
every safety property of theirs for every value of the constants. Paths below are relative to the repository.

## 1. Inventory

| Component | State it keeps | Operations | What makes it correct |
|---|---|---|---|
| **Transport** `internal/client/retry.go`, `client.go`, `automation.go` (`mutate`) | per call: the loop's attempt, the last error, one idempotency key in the cloned request; the context | `Do`, `doWithRetry`, `retryDelay`, `sleepContext`, `mutate` | a mutation is executed at most once; an error is never reported as success; a call returns; the back-off is bounded |
| **Error classification** `internal/client/errors.go` | none | `decodeResponseError`, `fallbackErrorCode`, `Retryable`, `SecretReissueMetadataFromError` | status, code and headers give the answer the resources branch on |
| **Response contract** `internal/client/contract.go` | none | `validate...` | a success with missing or foreign data is an error, never state |
| **Component integration** `component_integration_resource.go` | Terraform state: trigger, secret, version, `rotation_required`, owner, revision | `ModifyPlan`, `Create` (`reissueSecret`, `adoptExisting`), `Read`, `Update`, `Delete`, `ImportState` | the one copy of the plaintext belongs to the version named; lost secrets are reissued and revoked; a person's binding is not touched without consent |
| **Component** `resource_component.go` | UUID, external key, configuration, revision | `ModifyPlan`, `Create`, `Read`, `Update`, `Delete`, `ImportState` | no lost update; creation recovers and restores |
| **Rollup** `component_rollup_resource.go` | parent UUID, rules, revision | `ValidateConfig`, `Create`, `Read`, `Update`, `Delete`, `ImportState` | no lost update; Create replaces nothing; rules survive the conversion |
| **Tag, team, component type** `resource_tag.go`, `resource_team.go`, `resource_component_type.go` | UUID, attributes, revision | `Create`, `Read`, `Update`, `Delete`, `ImportState` | no lost update |
| **Data sources** `data_source_*.go` | the lookup's cursors and matches; the item in the state | `ValidateConfig`, selectors, `lookupCatalogItem`, `Read` | an item is found exactly when one matches; the loop ends; the state has what was asked for; no sound configuration is rejected |
| **Provider configuration** `provider.go`, `client.go` (`New`, `parseBaseURL`, `NewRequest`) | the base URL, the token and the HTTP permission of the process | `Configure`, `resolveConfiguration`, `New`, `NewRequest` | requests go where the user means, with the token the user means; plain HTTP stays on this machine |
| **State upgrades** `*_upgrade.go` | none | `UpgradeState` | what version 0 knew is kept and no more is claimed |
| Current organization, schemas, tooling | none | | one call copied; declarations |

**How they interact.** Terraform core calls the resources' methods, one plan or
apply at a time (it locks its state). A method makes one or a few calls of the
client (`AutomationAPI`, `CatalogAPI`); each call is one HTTP exchange or several
attempts of it. Nothing is shared between resources in the provider: what they
share is Pulse's records, which people in Pulse's UI and other API clients
change at the same time. Between a plan and its apply lies any amount of time.

**What is hard.** Attempts of one call that overlap in Pulse; requests executed
after the client has given up; answers lost after the mutation they answer;
secrets that exist in exactly one answer; plans made from a state the world has
overtaken; ownership that changes hands between two calls of one method;
a crash of Terraform between Pulse's commit and the state's. `PROJECT.json`
lists each as a hazard at the line where it bites, with the properties that
cover it or the reason none does.

## 2. Modules

| Module | What it is |
|---|---|
| `RemoteCall` | abstract specification: what a caller of the client may rely on |
| `PulseTransport` | `doWithRetry`, the network and Pulse's idempotency ledger; implements `RemoteCall` |
| `MCPulseTransport` | names the calls of the TLC instances |
| `PulseTransport_proofs` | proofs about it |
| `IntegrationLifecycle` | one `pulse_component_integration` |
| `IntegrationLifecycle_proofs` | proofs about it: types and honest state; guards, owners, lost secrets, plans |
| `RevisionedResource`, `RevisionedResource_proofs` | one tag/team/type, one component or one rollup, told apart by `config.kind`; proofs about it |
| `ApiAnswers`, `ApiAnswers_proofs` | one call, by the HTTP answers it gets, down to what becomes of the state; implements `RemoteCall`; proofs about it |
| `CatalogLookup`, `MCCatalogLookup`, `CatalogLookup_proofs` | one lookup of a data source over the pages of a changing catalog; its selectors for TLC; proofs about it |
| `RollupRules`, `MCRollupRules`, `RollupRules_proofs` | the rules of a rollup from a partly unknown configuration to Pulse and back; configurations for TLC; proofs about it |
| `ProviderSetup`, `MCProviderSetup`, `ProviderSetup_proofs` | from the provider block to a request, process after process; addresses for TLC; proofs about it |
| `DataSources`, `MCDataSources`, `DataSources_proofs` | the data sources from a partly unknown configuration to the state; catalogs for TLC; proofs about them |

The layers meet at `RemoteCall`: `PulseTransport` is shown to implement it, and
the resource models treat a client call as what it promises. A call is executed
at most once, possibly after it has returned an error (`late`, `ExecuteLate`),
and a call that returns without error has been executed (`Execute` before
`Receive`). `ApiAnswers` looks at the same contract from the other side: with answers
that are not Pulse's at all, creations and updates still keep it. A read or a
deletion cannot tell a stranger's "not found" or "done" from Pulse's, so the resource
models have that one lie as steps of their own (`Misdirect`, `MisdirectRead`), and
`DropIsJustified` and `StoredIsReal` say that there is no other.

### PulseTransport

`pc[c]` is the place of call `c` in `doWithRetry`, `attempt[c]` its loop
variable. `Send` is `cloneRequest` and `httpClient.Do`; `TransportFailure`,
`ErrorResponse`, `Success` and `DecodeFailure` are the ways an attempt ends, all
of the failing ones through `RetryOrFinish`, the condition the code repeats
after each; `Wake` and `SleepCancelled` are the two arms of `sleepContext`'s
select, both possible when both are ready. `wire` holds requests that can still
reach Pulse, whatever the client thinks: an attempt given up stays there, and a
replayable request may be on it twice because net/http resends it. `Execute` is
Pulse with its ledger of keys, `Refuse` Pulse or a gateway that answers for it.

### IntegrationLifecycle

`srv` is Pulse's binding with its credential version, revision and owner, `live`
the versions Pulse accepts signals with, `tf` the state, `job` the plan being
applied (`prior` is the state it was made from), `call` the client call under
way. `Plan` is Terraform's refresh followed by `ModifyPlan`; `PlanOtherwise` adds
`-refresh=false`, values unknown at plan time, and replacements. `BeginCreate`,
`BeginUpdate` and `BeginDelete` are the parts of the methods up to their first
call, `StoreSecret`, `reissueSecret`, `adoptExistingReads`,
`adoptExistingAdopts`, `FinishDelete` and `ReportError` what they do with an
answer. `LoseResponse` turns a success into `secret_reissue_required`: the retry
under the same key finds the mutation done and its plaintext gone. Versions are
numbers in the order of issue and the plaintext of version v is written v, so
"the secret belongs to the version" is an equality. `InitVersion0` begins with a state
version 0 has written (`V0States`: with its secret, or with `rotation_required` when the
secret was lost), and `Upgrade`, the first step from there, is `UpgradeState`; `job.kind`
is "upgrade" until then. `SecretIsKept` looks at every step, this one included: while
Pulse's record stands still the plaintext of the active secret stays in the state and in
the plan being applied. It names the steps it exempts: a stranger's "not found" to a Read
(`MisdirectRead`), or its "not found" or "done" to a deletion.

### RevisionedResource

`srv` is the last record made under a name (catalog), an external key (component)
or a parent (rollup); `id` distinguishes a re-created catalog item from the one
before it. `Begin` is each method up to its client call, including the refusal to
act without a revision; `StoreRemote`, `FinishDelete` and `ReportError` are what
follows. A request also carries `seen`, the configuration the plan was made from,
which the code does not send: it lets the properties say what an overwritten
record should have been. `Configurations` are values of the whole mutable
configuration, because the code always sends the complete one. `Kind` is chosen in `Init` and never
changes; where the three kinds of resource differ (creation by PUT or POST, archiving,
the ways of an import) the guards and operators ask for it. A component may begin with
the upgraded state of version 0.

### ApiAnswers

An answer is who gave it, its status, the error code of its body and what the body
is. `Receive` is a turn of `doWithRetry`'s loop (`Unread`, `ReadFails`, `EndsEarly` and
`Retryable` are its branches, `Code` is `decodeResponseError`), `Finish` what the typed
method (`KeepsContract`, `Returned`) and then the resource (`BecomesOf`) make of the
last answer. `Execute` is Pulse, `Intrude` a gateway, a broken link or a stranger
whose answer arrives instead, `Change` another person. Of the ways a connection fails
the code tells two apart: what ends early (EOF, a network timeout that is not the
client's own, a `Temporary` error) is body `cut` and sent again; a connection refused or
reset, a name or certificate error is body `reset` and ends the call, as the client's own
timeout does (`TimeOut`). `RetriesShortTroubles` claims the first kind only. `seen` is a
history variable: what the record has been since the call began.

### ProviderSetup

`block` is what the provider block says in the end, `known` what of it Terraform
knows in this process, `env` this process's environment. `Configure` is
`resolveConfiguration` and `client.New` in one step: no call can come between them.
A refused configuration is a `Configure` that is not enabled, and `Start` the next
process. URLs are records of what `parseBaseURL` looks at; `Shapes` gathers the
reasons for which any URL is refused. `ResolveReference` is net/url's rule, which
replaces what follows the last slash. Identifiers are classes of strings:
`here` and `parent` are dots, `hidden_parent` holds an escaped slash. The client refuses
the parents and lets `here` through: the segment vanishes, and
`components/./integrations/grafana` asks below the component "integrations". The property
exempts that identifier from naming what the call is about (the resources ask for UUIDs
only), not from staying below the base URL. `Meant` is the
reference definition: the block, else the environment.

### DataSources

`config` is the block with all values known, `known` what Terraform knows of it.
`ValidateConfig` sees the others as unknown; `Read` runs when all are known, but may
see unset computed attributes as unknown, as the comment in `idOrNameSelector` says.
A selector is a set of none or one, because the code returns none with diagnostics.
`Sound` and the set comparison of `StateIsWhatWasAskedFor` are written from the
schemas' descriptions. The lookup is one step on one catalog here; what it is worth
when the catalog changes under it is `CatalogLookup`'s question.

### CatalogLookup

`cursor`, `seen`, `matches` and `outcome` are the locals and the result of
`lookupCatalogItem`; `ReadPage` is one turn of its loop, `ListFails` its error
return. `catalog` is the collection in the order Pulse lists it, and
`CreateOrEdit` and `Delete` change it between two pages. `ever` and `steady` are
history variables: what has matched the selector at some time, and all the time,
since the lookup began. They let `OutcomeIsJustified` say what an answer put
together from several moments is worth. `StablePages` is the cursor pagination
`models.go:116` speaks of, with pages of any size (the code's 200 is only an upper
bound Pulse may undercut); `BrokenPages` gives back anything, since the loop
defends itself against cursors that repeat. `query`, chosen in `Init`, holds the selector
and which of the two pagings this Pulse has. A match carries the page it was on,
because the code counts an item twice that is on two pages.

### RollupRules

`config` is the configuration with its unknown values, `phase` how far Terraform
has come with it. `ValidateConfig` is the method, run again after each `Resolve`,
which is Terraform core making one more value known; `ReplaceComponentRollup` is
`Create` and `Update` up to the call, `Receive` what they do with the answer,
`Read` and `ImportState` the methods. UUIDs are numbers, so that sorting means
something, and all strings that are no UUID are one value, `Malformed`. Pulse
answers with the stored children in either order (`Faithful`), or what arrives breaks
its contract in one place (`Faulty`), or is well-formed but not what is stored: rules
rearranged, missing or repeated, other effects or children, other rules altogether
(`Foreign`). The code stores the last kind as it is and leaves the comparison with the
plan to Terraform core. The client's check (`validateRollup`) and the provider's
(`ModelAccepts`) are kept apart because they differ: only the second looks at the
children themselves. `Sound` is the reference definition, written from the schema's
descriptions and independent of the order in which the code looks at things.

### What is assumed of Pulse

Pulse itself is not in the repository; it is modelled from how the code and the
tests in `internal/client` and `internal/provider` use it. An idempotency key is
executed once and replayed without one-time secrets. Every change of a record
raises its revision and revisions are not reused under one UUID or binding; an
archived component keeps its UUID and goes on counting (`models.go:163`). Writes
with `If-Match` are refused with `stale_revision` unless the revision is current;
`If-None-Match: *` refuses to replace. POST of a component under an active
external key answers with that component (`docs/resources/component.md:21`). A
missing or archived record answers `resource_not_found`. Version 0 of the integration
kept the version it had observed beside its secret, or said that a rotation was required.

## 3. Runs

| Run | Instance | What it shows |
|---|---|---|
| `TransportOneCall` | one keyed call, 4 attempts, delays 2..9, `Retry-After` 5 and 12 | at most one effect, success is real, bounded back-off, the call returns, `RemoteCall` is implemented |
| `TransportMixedCalls` | an unkeyed mutation beside a read, 3 attempts | nothing unkeyed is replayed; calls do not disturb each other |
| `IntegrationSafety` | 2 triggers, 2 disturbances, 1 loss, 1 edit, with destroys | honest state, no blind change, respect for owners, plan and update agree, secrets are kept |
| `IntegrationReissue` | 4 losses against a reissue bound of 3 | the reissue chain ends, lost versions are revoked |
| `IntegrationRecovery` | 2 disturbances, 1 loss, 1 edit | liveness: the user ends up with the active secret |
| `IntegrationAdoption` | 1 edit | expected violation, see below |
| `Resource` | each of the three kinds; 2 configurations, 2 disturbances, 2 losses, 2 edits | no lost update, honest snapshots, convergence |
| `Answers` | every kind and method; 3 attempts, 2 changes, 2 intrusions | losses and stored records are justified, retries are the right ones, the contract is kept |
| `Setup` | 8 URLs, 4 tokens, 8 endpoints, any sequence of processes | every request goes where the user means; plain HTTP stays local |
| `DataSources` | every configuration, 2 UUIDs, 2 names, catalogs of up to 2 items | rejections are deserved; the state is what was asked for |
| `Lookup` | 3 places, 2 names, 2 purposes, 2 changes; selectors by purpose and name, by name, by UUID; stable paging, and any pages and cursors at all | with stable paging an answer is justified by the catalog during the lookup; the lookup ends even when cursors go in circles |
| `RollupRules` | up to 2 rules of at most 2 children out of 3 UUIDs, with unknown, null and malformed values; 1 edit | validation rejects and accepts the right configurations at any stage; nothing unsound is sent or stored; what Pulse faithfully lists is stored as configured, and what breaks the contract is not stored |

**Bounds.** Four attempts are the code's default, and the delays make the
doubling meet the cap inside it and be overtaken by `Retry-After` on both sides of
the cap. Two disturbances are what it takes to archive and re-create a record
between a plan and its apply, or to rotate a binding twice, or to archive it and create it
for another owner; one loss is a
crash or a request executed late, two allow one of each; two edits of a resource allow a change
of mind after an unusual plan, one of an integration a plan that no longer says what
the user wants (what `IntegrationSafety` checks is proved for any number). Two configurations suffice to tell whose value a
record has. `maxSecretReissueAttempts` is 3 as in the code, and 4 losses let the chain run through
that bound. Three places give a lookup up to four pages, with room
for a match before and after a change, and circles of cursors need two. Two
rules make every pair of rules, two children every collision inside one, and three
UUIDs a parent with two children. Three attempts and two intrusions make every pair of
wrong answers, with a right one after or between them. The URLs of `Setup` have each
scheme on this machine and elsewhere, paths with and without a final slash, and a
reason to refuse each; two tokens tell the block's from the environment's. Two items
share or differ in name and purpose in every way. The budgets are constants the proofs
do not limit.

**Fairness.** A goroutine in `doWithRetry` runs on and every attempt ends, if only
by the client's 30 s timeout, so `ClientStep` is weakly fair; the network owes
nothing. A `List` call returns for the same reason (`ReadPage`); whether it succeeds
is not promised. In the resource models Terraform's own steps and Pulse's answers are
weakly fair, and so are the user's plans and refreshes: liveness there is a claim
about a user who keeps applying. `ImportState` is strongly fair where an existing
record stands in Create's way, because the diagnostics ask for the import and a
refresh may interrupt it; a component does without it (`Kind # "component"` in `FairSpec`).
In `ApiAnswers` the client's timeout alone ends a call, so only `ClientStep` is fair. Disturbances, losses
and edits are bounded and never owed.

**Deadlock** is checked except in the transport, answer, lookup and rollup-rule runs,
where every call is done in the end and nothing is left to do.

**Expected violation.** `IntegrationAdoption` records a divergence:
`docs/resources/component_integration.md:74` describes `adopt` as the permission
to adopt a *human-owned* integration, while `Create` also adopts on
`already_exists` and `adoptExisting` does not look at the owner it reads
(`component_integration_resource.go:210`, `:226-235`, `:504-510`). A second
workspace that sets `adopt = true` asks for a binding another automation owns. The run
ends at that request; whether Pulse grants it is not in the repository, and the model
has both answers.

Every property of a passing run has a mutant in `PROJECT.json`: a plausible bug
(a key per attempt, no precondition, a read that keeps the secret, ...) under
which TLC finds the property violated.

## 4. Proofs

All theorems hold for every value of the constants allowed by the named
assumptions of the modules. Every invariant and every safety property that the passing
runs check is proved; what remains with TLC is listed below. Two assumptions serve the
proofs alone and cost no generality: `IsFiniteSet(UUIDs)` in `RollupRules`, without which
a set of children need not have a sorted list, and in `DataSources` that a catalog is
finite, without which "the only match" could not be counted.

* **Transport** (`PulseTransport_proofs`). The inductive invariant is `TypeOK` with
  `EffectsAreAccountedFor`: a keyed call's effects are 1 exactly when its one key is
  in the ledger, an unkeyed call has one request that is on the wire or executed
  but never both, and a good answer means an effect. `AtMostOneEffect` and
  `SuccessWasExecuted` alone are not inductive, since they say nothing of the copies
  on the wire. From it follow `MutationsApplyOnce`, `SuccessIsReal` and, step by
  step under the refinement mapping, `TransportImplementsContract` (safety part).
  `DelaysAreBounded` compares the doubling loop with the closed form it should have:
  `Closed` satisfies the recursion of `Backoff` (`ClosedIsFixed`), so a function that does
  exists and `Backoff` is one (`BackoffIsFixed`), and ten unfoldings, one for each
  attempt `New` accepts, show the two equal (`BackoffIsClosed`). `CallsRunOut` gives
  `StepsLeft`, which every step of a call's own takes from and no other step touches;
  what `CallsReturn` has beyond it is that the scheduler lets the call step.
* **Integration** (`IntegrationLifecycle_proofs`). `StateStaysHonest` needs the
  invariant that every snapshot held anywhere (state, plan, answer) is no newer than
  Pulse's record and agrees with it at equal revision; Pulse's steps keep it because
  they raise the revision, Terraform's because they copy snapshots.
  The second half of the module builds on it: `GuardInv` ties every request on its way,
  late or not, to what its plan had seen and consented to, and every lost version to
  the chain of reissues. `NothingChangesBlindly`, `HumansKeepTheirs`, `SecretsStay`,
  `LostOnesEndRevoked` and `PlansTellTheTruth` follow step by step. For `SecretsStay` the
  invariant says that a running plan holds the state's own secret until its first call, and
  that a deletion answered "gone" while the secret is still the active one was answered by
  a stranger (`SecretsAreNewest`).
* **Revisioned resources** (`RevisionedResource_proofs`). The same idea with
  identifiers: a step of Pulse raises identifier or revision (`RevisionsGrow`), so a
  snapshot stays true (`ServerSteps`). `NoUpdateIsLost` is an action property: by the
  invariant a request whose If-Match passes carries, in `seen`, what the record
  holds (`Execution`). `SameKind` carries the case distinction through every step.
* **Answers** (`ApiAnswers_proofs`). `Inv` adds that an answer of Pulse's agrees with
  `seen` and that what was executed has been seen. Seeing more only makes more true
  (`SeenGrows`), so changes by others keep it; `GatewaysOnlyFail` and
  `StrangersMislead` bound what an intruder's answer can look like, and
  `VerdictIsJustified` is the last step of a call. `WordInv` adds what Pulse's own answers
  can say, and that one which shows a record comes after the execution: with it
  `ShortTroublesAreRepeated` goes through the answers by who gave them, and
  `AnswersImplementContract` maps a call that created or updated to `RemoteCall`.
* **Setup** (`ProviderSetup_proofs`). `ResolvedIsMeant`: what resolves to a known value
  is what the user means, whatever else is unknown; `PathsOnlyAdd`: under a base URL
  that ends in a slash a call's path is below the whole path, and is the call's own unless the identifier is
  a single dot. The invariant says of
  the client what the properties say of its requests.
* **Lookup** (`CatalogLookup_proofs`). `OutcomeIsJustified` says nothing until the
  lookup has ended, so it needs `Sweep` (the matches lie at or before the cursor and
  miss nothing steady there), `Collected` (they did match, each once) and `Ghosts`.
  `StablePagesContinue` is the only fact used about Pulse's pages. The theorem is
  about stable paging; against broken pages it is false, and only `LookupEnds` and
  the types are claimed. `EveryPageUsesUpACursor` counts the cursors the loop has not
  been given yet, for any paging. `QuietLookupsAreExact` is what `DataSources` relies on
  when it takes the lookup for one step.
* **Rollup rules** (`RollupRules_proofs`). `RulesInv` adds to the properties that a
  planned configuration was not rejected, that a rejected one had a reason, and that
  what is being applied is sound and was sent as configured. `RejectionsStand` rests on
  `ErrorsStay`: an error seen among partly unknown values is still there when one more
  is known, so that it is one of the complete configuration. `ValidatedIsSound` shows
  that a validated configuration with nothing left to resolve and no null is `Sound`,
  `AcceptedIsSound` that the two checks let only `Sound` answers through,
  `SoundIsAccepted` that such a state would pass validation, `FaultsAreSeen` that
  none that breaks the contract in one place passes, and `FaithfulAnswersAreStored` that
  each that lists what was stored does. Well-formed answers about other rules pass too, and
  no theorem says otherwise. That a finite
  set has one sorted list (`SortedLists`) is an induction; it is made without an
  induction theorem, from a smallest counterexample (`LeastElement`, and the
  well-founded order of the subsets).
* **Data sources** (`DataSources_proofs`). What the methods see when they decide is the
  configuration, except that what is computed may be unknown (`Faithful`). For each kind
  of data source such a view has a selector exactly when the configuration is `Sound`,
  and it selects by all that is given (`SelectorsDecide`); the theorems follow from that
  and from counting the matches of a finite catalog.

**Only model-checked:** liveness, that is `CallsReturn`, `Recovers`, `Converges`,
`LookupEnds` and the fairness part of both `ImplementsContract`. It depends on when an
action is ENABLED, which the prover cannot expand. For `CallsReturn` and `LookupEnds` the
counting half is proved (`CallsRunOut`, `EveryPageUsesUpACursor`): only the step from
"it can take no more than so many steps" to "it takes them" is left to TLC.

## 5. Not modelled

* The characters of strings, URLs and UUIDs: classes of them stand for what the code
  tells apart. The case of a UUID is lost that way: an upper-case component UUID passes
  `isCanonicalUUID` and then differs from the answer's (`contract.go:121`), so that the
  created binding's secret is dropped with an error.
* Attributes of a configuration one by one, where the code copies them; schemas and
  their descriptions; the plugin server; the test server and tooling.
* `pulse_current_organization`: one call without arguments whose answer is copied.
* Terraform core's own conduct: its tainting of a resource whose creation reported an
  error after saving state, and its second planning pass once unknown values are known.
  `UpdateKeepsThePlan` speaks of plans with known values for that reason; while
  `rotation_trigger` is unknown (`component_integration_resource.go:475`) the plan
  announces no new credential though the update may ask for one.
* A `Retry-After` beyond `MaxDelay` is cut in the model as in the code (`retry.go:208`),
  but what Pulse makes of a client that comes back too early is not modelled.

## 6. Plan

Done, in the order of importance: transport and its contract; integration
lifecycle; revisioned resources; catalog lookup; rollup rules; answers and errors; provider setup and
URL rules; data sources and selectors; state upgrades; theorems for every safety property
of the runs. Next:

1. Counting arguments like `CallsRunOut` for `Recovers` and `Converges`: with no
   disturbances, losses and edits left, each apply brings the state nearer to Pulse's.
2. What a resource makes of a call as a refinement of `RemoteCall` too, so that `late`
   and `ExecuteLate` of the resource models are derived from the contract.
3. A composition of a component with its rollup and integration under one apply:
   order of creation and destruction, parents archived under their rulesets.
