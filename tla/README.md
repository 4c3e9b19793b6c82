# A TLA+ development of the remediation core

The program is a platform that investigates incidents of Kubernetes workloads and
remediates them under human approval. Its Python service `src/services/agent_runtime/app`
(abbreviated `app/` below) decides whether a production cluster is changed, when, how often,
and what the operators are told about it afterwards. That path is what these modules model:

    incident -> investigation session -> preparation of an action -> approval
             -> claim of one execution -> pilot controls -> one PATCH
             -> outcome, or freeze and reconciliation -> verification -> incident

Every component on it is an asyncio service over a SQLite table. A transaction
(`BEGIN IMMEDIATE ... COMMIT`, run in a thread) is atomic; between two transactions of one
request there are awaits, so requests of one process interleave there, several processes may
share the database, and a request may be cancelled or its process die. Each module therefore
has one action per transaction or per stretch of code between two awaits that matter, workers
that stand for requests, and an action that cuts a worker off anywhere.

## 1. Inventory

### Modelled

| component | state | operations | hard behaviours | what makes it correct |
|---|---|---|---|---|
| Action execution ledger: `app/action/execution_{models,store,service}.py` | one row per execution: claim, status, outcome, reconciliation | claim (new, replay, conflict, invalid), succeed/fail, mark_indeterminate, reconcile | read, decide outside any transaction, compare-and-set on the status, re-read after a lost race | one launch per approval, an acknowledged outcome stands, one applied reconciliation, no outcome without a decision once frozen |
| Approval manager: `app/approval/` | one row per request: plan with its `approved` flag, fingerprint, status, audited decision | create, approve, reject (audited or not), guard, replay | guard awaited between read and write; a refused caller goes on when someone else decided the same; validation on assignment | one decision per request, kept with its audit; a refused caller never decides; the approved plan is the one fingerprinted |
| Verification: `app/verification/` (partly) | one row per verified execution, the incident's status | claim, start, evidence, verdict, incident synchronisation, replay | two requests verify one execution, the incident is moved by other attempts, interruption between verdict and incident write | evidence collected once, nothing resolves without a passed verdict, verdicts move a HEALING incident only, verdicts reach the incident |
| Action workflow: `app/runtime/action_runtime.py`, two endpoints of `app/api/runtime.py`, `app/action/kubernetes_production_executor.py` (partly) | the incident, the ledger, verifications, requests in flight | resume, reconcile, the production executor | lost or late answers of the cluster, retries of a resume, failures between any two steps | at most one PATCH, only under every control, a truthful ledger, only successes are verified, what is frozen can be reconciled |
| Production pilot controls: `app/action/production_pilot{,_ceremony_*,_budget_*}.py` (partly) | ceremony rows, one budget row, kill-switch file | checklist, activation, reserve, consume, switch | check and activation are separate transactions | with the workflow |
| Pilot live probe and go/no-go: `app/action/production_pilot_go_no_go_{models,service,store}.py`, `production_pilot_live_probe.py`, `production_pilot_final_handoff.py` | one probe record and one decision per pilot, computed handoff reports | run_live_probe, decide | evidence that changes or expires between a check and the write it is for, a request that dies in the middle of a probe, repeated and racing requests | the cluster is probed once, a GO is backed by evidence that was current after the pass, everybody is told the decision on record |
| Investigation session: `app/investigation/session_*.py`, `app/investigation/engine.py` | one versioned row with all steps | create, run loop, claim, external call, complete, outcome unknown | workers act on stale reads, retries of one request, lost workers, limits reached at the same step | one external call per step, limits, a claim binds the state its caller saw, no resumption of what is unresolved |
| Action preparation: `app/action/production_action_preparation.py`, `app/action/preflight_artifact_*.py` | artifacts by idempotency key, the approval derived from each | look up, resolve, insert, create approval, bind | three transactions on two databases, racing retries, caller death | every answer of a key is the same artifact and its own approval |
| ChatOps write bridge: `app/conversation/write_bridge.py`, `identity.py`, `app/security/policy.py`; with the transport, orchestrator and session store of the channel (partly) | the incident each conversation is bound to; otherwise only what the services it calls store | decide a request, remediate, the read-only turn | events delivered again, reads of approvals, executions and verifications that are old when the reply is sent, a conversation bound by others | every act has its authority, a reply tells what stands, one remediation per incident, success is told of verified successes only |
| LLM gateway: `app/llm/gateway/` | the sliding window, the circuit, the healthy providers | chat: limiter, circuit, attempts and retries, fallback | calls that end after the circuit opened, refusals that use slots, failures of fallbacks | the limit in every window, closed exactly while few failures in a row, a recovery timeout after the last failure, the circuit recovers |

Interactions. A preparation reads the cluster and creates an approval through the approval
manager. The API's resume endpoint calls `ActionRuntime.resume`, which claims the execution in
the ledger, asks the pilot controls, calls the executor, records the outcome and moves the
incident; the endpoint then starts the verification of a success. The reconcile endpoint
decides an INDETERMINATE record and either verifies (success) or moves the incident (failure).
The ChatOps bridge is a second front of the approval manager, of `resume` and of the
verification. The probe and the decision of a pilot read the handoff report, which is computed
from the stores of the others, and write only their own. The incident row is shared by all of
the remediation; verifications use a conditional write of it, `_update_incident` retries against
the status it read, reconciliation of a failure writes it blindly. The investigation session
shares no state with the rest; sessions and conversations call the LLM gateway.

### Not modelled

* The rehearsals and evidence packs of the pilot: read-only reports over the stores above.
* The preflight resolver, production guard and contract checks: reads of the cluster and pure
  comparisons. Where they matter a check "may pass or fail".
* The incident store beyond the status of one incident (creation, suppression, timeline) and
  the evidence recorder, which writes captures to files.
* Reasoner prompts, probes, planner, policy and risk engine, tools, observability, RAG, memory,
  skills, MCP, evolution, the legacy remediation; the other services, shared packages, the web
  console and the infrastructure. `PROJECT.json` lists each with its reason.

These make up most of the repository by lines: an archive of removed architecture
(`src/architecture_v2_archive`), offline evaluation harnesses and benchmark data, prompts, tool
clients, settings, request and response models, renderers, and services that are adapters without
state of their own. The models cover nearly all of the state that several requests, processes or
retries can write, which is a small part of the lines, and no state machine is to be had from the
rest.

Within modelled components, these are left out: verification without an execution (a legacy
entry), the freshness checks of the evidence collector, `ActionRuntime.run` (proposal) and the
path without a ledger, the replay of an identical checklist, expiry times (an expiry is a
check that may fail at any time), a disabled rate limiter and the lengths of the delays between
attempts, the life of the long connection to the chat, and list queries. In a preparation, a
request that leaves the container open matches any container; requests here name all of their
fields.

## 2. Modules

| module | models | built from |
|---|---|---|
| `ExecutionLifecycle` | what the ledger promises of one approval: unclaimed, running, settled by the executor, or frozen and then resolved by a decision | - |
| `ActionExecution` | the ledger with workers between read, compare-and-set and refresh | refines `ExecutionLifecycle` |
| `ApprovalRegister` | what the approval manager promises of one request: created, decided at most once, kept with its audit | - |
| `ApprovalDecision` | approval requests and decisions with callers between read and write | refines `ApprovalRegister` |
| `Verification` | claim, run and synchronisation of verifications | - |
| `ActionWorkflow` | resume, reconcile, executor, pilot controls | `ExecutionLifecycle` (the ledger, with who decided as the result) and `Verification`, by `INSTANCE` |
| `InvestigationSession` | loop, driver, service and store of one session | - |
| `ActionPreparation` | preparation, artifacts, approval, binding | - |
| `ChatOps` | deliveries, conversations, the write bridge | `ApprovalRegister` and `ExecutionLifecycle`, by `INSTANCE` |
| `LLMGateway` | limiter, circuit, attempts, fallback, with a clock | - |
| `PilotGoNoGo` | probe and decision of production pilots | - |
| `ProductionRequests` | no behaviour: the constants that `ActionPreparation` and `PilotGoNoGo` share, so that one module can hold the proofs of both | - |
| `...Proofs` | the theorems about the module they are named after (section 5) | that module; `ProductionProofs` is about `ActionPreparation` and `PilotGoNoGo`; `ActionWorkflowProofs` also instantiates `VerificationProofs` |
| `MC...` | symmetry sets, constant functions and bounds of the runs | the module they are named after |

How state and actions correspond to the code:

* **ActionExecution.** `executions` is the table. `ClaimNew`, `ClaimReplay`, `ClaimConflict`,
  `ClaimInvalid` are the four ends of `ActionExecutionStore.claim`, one transaction. `Settle`,
  `MarkIndeterminate` and `Reconcile` read the record and build a candidate (`calls`);
  `Update` is the conditional UPDATE (`Writable` is its WHERE clause and
  `_validate_transition`); `Refresh` the re-read after a lost one, which answers "replayed" for
  the same outcome and "conflict" otherwise. `launches` and `resolutions` are history.
* **ApprovalDecision.** `Calls.copy` is the Pydantic object a call read and changed. `Recheck`
  and `Refresh` are the two re-reads around the guard and the write. The recomputation of the
  fingerprint by `validate_assignment` is the guard `Bindable`.
* **Verification.** A run goes through the stages of `VerificationCoordinator.run`: admission
  (incident HEALING), claim, start (two writes), evidence, verdict and two halves of the
  incident synchronisation. `Decide` is the verdict function and `Backed` the model validator
  that is its second line of defence. `OtherAttempt` is another remediation of the incident.
* **ActionWorkflow.** A job's stage names the code between two awaits of a request. `phase` is
  the ledger. `Guard`, `Preflight` and other checks may fail at any time; they may pass only
  with the kill switch disengaged. `Patch` is the only real PATCH: whether the cluster
  applied it and what the executor can conclude from the answer are chosen together (`Answers`).
  `Plain` is the executor of a plan without a production artifact.
* **PilotGoNoGo.** A final handoff report stands for its digest. `current` are the reports that a
  rehearsal of their request gives now, and that pass; `expired` those whose contract, pilot or
  probe is over. The stages are those of `run_live_probe` (load, claim, two GETs in `Get`, second
  rehearsal in `Recheck`, completion) and `decide` (read and check, third rehearsal in `CheckGo`
  for a GO, transaction). `Claimed` and `Decided` are the rows the UNIQUE constraints and lookups
  of the two transactions meet. `probed`, `confirmed` and `told` are history; `told` has what
  each answered request asked, and the record it was answered (the stored one, on a replay).
  A rehearsal is one step here. In the code it reads its evidence part by part over several stores
  and awaits (`production_pilot_pre_enable_evidence.py:463-495`) and only then computes the
  report, so its parts were each current at some time of the rehearsal, not all at one instant.
  `Rehearses`, and with it what `GoIsBacked` calls current, is to be read in that sense.
* **InvestigationSession.** `session` is the row. A run is one `run` of the loop, with the
  stages read, claim, swap (the compare-and-swap), call, complete. `seen` is the session state
  the driver read; the request digest is computed from it. The version compared by the swap is
  the one `claim_step` re-read itself.
* **ActionPreparation.** The stages of `prepare` and `_ensure_approval`. The row constraint
  `UNIQUE (incident_id, idempotency_key)` is `Insertable`; an approval is stored under its
  artifact because its identifier is a UUIDv5 of the artifact's. `Views` are what the cluster
  shows: two resolutions of one request may differ, which `_same_logical_preflight` notices.
* **ChatOps.** A job is the handling of one delivery; its stages follow `handle` of the bridge
  from the reading of the session to the outcome. An event has one content, chosen at the start; an
  actor stands for the principal it is bound to. The idempotency key, a hash of conversation,
  message, operation and target, is the event in `Audits`. `Authorize` may decline at any time (the
  attestation has a bounded life and number). The replies that found or did nothing are merged as
  "declined", and a verification is absent, open, passed or not passed: what happens inside is in
  `Verification`. Remediations started through the API are left out: `OneRemediationPerIncident`
  is about texts. The live channel of this version attaches no write bridge; the model is of the
  bridge where one is attached, as its tests do.
* **LLMGateway.** A caller gives way only while an attempt is under way, so everything between two
  attempts is one step (`Start`, `Answered`, `Unavailable`, ...). Timestamps are ages and `Tick` makes
  them older; they are appended, so a list has the oldest first and the filter of `allow` takes a
  prefix away (`Younger`). The failure count stops at the threshold, the only thing it is compared
  with.
  The phase of a call is the execution of `chat` that is under way, in the try block or in its
  handler. `Rejected` stands for a failure that is not retried and for a cancelled caller. The factory
  registers one client, "openai"; the model has a sequence of them. A client wrapped for
  observation has no `provider` attribute, so a fallback's success marks the name "fallback" as
  healthy (`NameOf`). HALF_OPEN admits every call, as the code does.

## 3. Runs

All sets are model values. Symmetry is used for values that no definition singles out, in
runs that check invariants, action properties and a safety refinement only; the runs with
liveness properties have none.

| run | instance | shows |
|---|---|---|
| `ActionExecution` | 2 identifiers, 3 approvals (1 unapproved), 2 keys, 1 operator, 1 reconciler, 2 results, 2 workers | `LaunchedOnce`, `AcknowledgedOutcomeStands`, `ReconciledOnce`; `ImplementsLifecycle`: the ledger refines `ExecutionLifecycle` |
| `ApprovalDecision` | 2 requests (1 created with `approved = True`), 2 audits, 2 workers | `ApprovedPlanIsBound`, `AcknowledgedDecisionStands`, `RefusedCallersNeverDecide`; `ImplementsRegister`: the manager refines `ApprovalRegister` |
| `ApprovalDecisionTests` | 2 requests, none flagged approved, 1 audit, 1 worker | violates `DecisionsAreRecordable` (section 6) |
| `Verification` | 1 execution, 2 triggers, 2 probes (1 required), 2 workers, fair | `EvidenceCollectedOnce`, `ResolvedHasEvidence`, `VerdictsAreFinal`, `VerdictsMoveOnlyHealing`, `VerdictReachesIncident` |
| `ActionWorkflow` | 3 approvals of one incident, 2 of them of one pilot, any 2 of the 3 engaged; 1 probe, 2 workers | `FrozenIsReconcilable`, `OnePatchPerPilot`, `PatchIsPermitted`, `LedgerIsTruthful`, `OnlySuccessIsVerified` |
| `ActionWorkflowRecovery` | 1 production approval, 1 worker, fair | violates `RunningIsDecided` (section 6) |
| `InvestigationSession` | 2 probes, 3 iterations, 2 tool calls, 2 external calls per run, 2 claimants, 2 workers | `OneCallPerStep`, `StepsWithinLimits`, `ClaimBindsState`, `PausedIsResumable`, `ExpectedVersionBinds`, `UnresolvedIsNeverResumed` |
| `ActionPreparation` | 2 keys, 2 preflights, 2 views, 2 operators, 3 artifacts, 2 workers | `AnswersAgree`, `AnsweredAsAsked`, `ApprovalsFollowArtifacts` |
| `ChatOps` | 2 events, 1 chat, 2 actors (an approver, an executor), 2 incidents, 2 requests, 2 workers | `RepliedDecisionsHold`, `ActsFollowAuthority`, `LaunchedIsApproved`, `OneRemediationPerIncident`, `CompletedIsVerified` |
| `ChatOpsRedelivery` | 1 event, chat, actor, incident and worker, 2 requests | violates `OneDecisionPerEvent` (section 6) |
| `LLMGateway` | 2 clients, 3 routes, 2 callers, every limit 2, fair | `WindowKept`, `ClosedWhileWorking`, `FailuresAreWaitedOut`, `CallersMoveOn`, `CircuitRecovers` |
| `PilotGoNoGo` | 3 reports of one pilot (2 of one approval), 4 operators, 2 keys, 2 workers | `ProbedOnce`, `GoIsBacked`, `DecisionsAgree` |

The type invariants of the modules are proved (section 5) and are not repeated in the runs.

Why these bounds are enough. The races are between a reader that goes on to write and a
writer that comes in between: two workers make one. Two keys, operators, triggers, audits,
results or views tell "the same request" from "another one", the only thing the code compares.
Two approvals compete for one pilot and one incident; the third of `ActionWorkflow` is a plan
outside the pilot, and `TwoEngaged` (a state constraint in `MCActionWorkflow`) keeps a behaviour to
two of the three, whichever they are. With 3 iterations and 2 tool calls a session reaches both of
its limits, in the same step (`StepsStayWithinLimits` is proved for all limits), and with 2
external calls a run is paused by its own limit in the
middle. Three artifacts let a client retry after each of two races. In `ChatOps` two events are
delivered any number of times, so that a decision, its replay and an act of somebody else meet;
two incidents let a conversation be bound to the wrong one. In `LLMGateway` with every limit 2 a
call is retried, a second failure opens the circuit while another call is out, and a window is
full; the third route has no client. In `PilotGoNoGo` two of three reports share an approval and
all a pilot, so that each uniqueness rule is needed alone. Identifiers are used once, so their
number bounds claims and resolutions (`ExecutionIds`, `Artifacts`). No other counter is bounded:
sessions and histories are finite by the code's own limits, ages and the failure count by the
limits they are compared with.

Three things learned from the models:

* `OnePatchPerPilot` survives the loss of any one control: the claim, the ceremony and the
  budget each suffice. What would break it is a retry of a PATCH whose answer was lost.
* In an investigation session the compare-and-swap does not stop a stale request, because
  `claim_step` re-reads the version it compares. What does is the request digest: it binds the
  state the driver read and is compared with every earlier step, so a stale request is a replay
  (of a step that is over) or no longer admitted. Comparing it with the latest step only
  breaks limits, the expected version and the binding of a claim to its state.
* That a frozen execution can be reconciled rests on the budget, not on the incident: it keeps
  every other approval of the pilot away from the executor, and so from failing the incident. A
  plan outside the pilot has no such bar (section 6).

## 4. Fairness

Safety specifications have none. Three specifications state it:

* `Verification!RecoverySpec`: clients retry (strong fairness of beginning a run for each
  request), a run is never starved, and each step of a replay gets through in the end, because a
  run may be cut off before any step but not every time: asyncio resumes a request whose await
  has finished, a store that works executes its transaction, and interruptions are not aimed.
  Crashes themselves are never required to happen and never required to stop.
* `LLMGateway!FairSpec`: every attempt ends (the client has a timeout), time passes, and there is
  always somebody who calls, which may be to be refused: `CallersMoveOn` says that requests pass
  the limiter again and again for all that, and that no call stays out. Providers are never required to answer: `CircuitRecovers` is about the
  behaviours in which they do from some time on.
* `ActionWorkflow!RecoverySpec`, used by the run that shows a disagreement: requests are not
  starved, and clients retry each of resume and reconcile with each outcome. There is no fairness
  on the kill switch, the checklists or on any favourable answer of the cluster.

Deadlock is checked in every run.

## 5. Proofs

The eight `...Proofs` modules are checked by TLAPS (SMT, Zenon, LS4) for every value of the
constants, under the named assumptions of the modules:

* subsets: plans that carry an approval are among the approvals or requests (`PlansAssumption`,
  `PreApprovedAssumption`), plans with a pilot among the approvals (`ProductionAssumption`),
  approvers and executors among the actors (`RolesAssumption`), required probes among the probes
  (`RequiredAssumption`);
* limits are naturals, those that must admit something at least 1 (`LimitsAssumption`), and there
  is a client (`ClientsAssumption`);
* None is no other value (`NoneAssumption`, `ModelValues`, `SessionNone`, `VerificationNone`,
  `PreparationNone`, `WorkflowNone`, `PilotNone`);
* the executor, owners and reviewers of a report are among the operators (`OperatorsAssumption`).

TLC evaluates each assumption in the runs. Every theorem follows the same argument: an inductive
invariant (`IInv`, or one named for the part it is about) holds initially and is preserved by each
action (one lemma or step per action); invariants follow from it in a state, action properties in
both states of a step. A few theorems are about properties no run repeats, because another run
property already fails with them (`DecisionsAreFinal`, `OutcomesAreFinal`,
`IndeterminateNeedsDecision`, `ClaimsAreUnique` and the type invariants).

Ledger (`ActionExecutionProofs`):

* `TypeCorrect`: `Spec => []TypeOK`.
* `AtMostOneLaunch`: `LaunchedOnce`. Its invariant relates the launch count of an approval to
  the existence of its record, with the uniqueness of claims over approvals and keys.
* `AcknowledgementsHold`: `AcknowledgedOutcomeStands`. Not inductive alone: a call in flight may
  acknowledge what it read long ago. The invariant adds `CallsFollowRecords`: the candidate of a
  call belongs to a persisted record, keeps its claim and moves it forward, and a candidate
  with a decision has that decision's outcome.
* `OneReconciliation`: `ReconciledOnce`, from the same invariant: an applied decision is counted
  once and the record carries its outcome.
* `SettledStaysSettled`, `FrozenUntilDecided`: `OutcomesAreFinal` and `IndeterminateNeedsDecision`.
  Only a new claim and a write its WHERE clause allows change the table (`TableChanges`), and
  such a write starts from a running record or carries a decision (`WritesAreDecided`).
* `LedgerImplementsLifecycle`: `ImplementsLifecycle`, the refinement of `ExecutionLifecycle` for
  every approval. A new claim is a launch, a write is an outcome, a freeze or a resolution
  (`ClaimLaunches`, `WriteMoves`), anything else a stutter. The lifecycle knows no result before an
  outcome; that neither records nor candidates in flight do is the added invariant `ResultsFit`.

Approval (`ApprovalDecisionProofs`):

* `DecisionsAreTyped`, `PlansStayBound`, `AcknowledgementsStand`, `DecisionsStayFinal`,
  `RefusedCallersWriteNothing`: `TypeOK`, `ApprovedPlanIsBound`, `AcknowledgedDecisionStands`,
  `DecisionsAreFinal`, `RefusedCallersNeverDecide`. A call writes the whole copy it read, so the
  invariant says what a copy in flight may be: the request as created, changed by the call's own
  decision; and a refused call reaches its write only once the request is decided
  (`CallsAreBound`). A pending request has no decision (`PendingUndecided`), and whoever was
  acknowledged asked for a decision (`AnswersNameTargets`).
* `DecisionsImplementRegister`: `ImplementsRegister`, the refinement of `ApprovalRegister` for
  every request. The only write of a pending request is its decision, with the audit the call
  brought; what another call leaves behind is what it found.

Verification (`VerificationProofs`):

* `VerificationsAreTyped`, `ProbesRunOnce`, `NothingResolvesUnverified`, `VerdictsStayFinal`,
  `LateVerdictsMoveNothing`: `TypeOK`, `EvidenceCollectedOnce`, `ResolvedHasEvidence`,
  `VerdictsAreFinal`, `VerdictsMoveOnlyHealing`. One run at most may write a verification that is
  not terminal, the one that claimed it (`OneOwner`); how far it got shows in the table (`RunsFit`);
  a stored verdict is the one its stored checks decide (`TableFits`), and a passed one needs every
  required probe (the lemma `PassedIsBacked`).

Workflow (`ActionWorkflowProofs`):

* `WorkflowIsTyped`, `PatchesArePermitted`, `PilotsPatchOnce`, `LedgersAreTruthful`,
  `SuccessesAreVerified`, `DoubtsAreReconcilable`: `TypeOK`, `PatchIsPermitted`,
  `OnePatchPerPilot`, `LedgerIsTruthful`, `OnlySuccessIsVerified`, `FrozenIsReconcilable`. A claim
  is inserted once, so one request at most executes an approval (`OneCreator`), and one ceremony
  at most is activated (`OneCeremony`). How far that request got shows in the ledger and in the
  single budget row (`JobsFit`, `LedgerFits`): a PATCH comes after the row is consumed, the row is
  never released, and what the ledger says of the outcome is what the request learned. A
  verification under way is of an approval the ledger calls a success (`VerifiesSuccess`). While
  the approval that holds the budget is in doubt the incident stays HEALING, unless a plan without
  a pilot was claimed as well (`IncidentHolds`). The steps of the verifications inside are not
  proved again: the module instantiates `VerificationProofs` and cites its step lemma for that
  component.
* `WorkflowFollowsLedger`: `Spec => Ledger!Spec`. What `Persist` records and `Decide` decides are
  outcomes that the lifecycle knows because of `JobsFit`; no other step but a new claim touches
  the ledger.
* `WorkflowFollowsVerification`: `Spec => [][Verifying!Next]_verificationVars`. The start of an
  API verification is a run that begins, each write of the incident (`Heal`, `UpdateIncident`,
  `Overwrite`) another attempt. Only the initial state differs: an incident is CONFIRMED here
  before the first resume. With it `VerdictsSurviveTheWorkflow` and `LateVerdictsSpareTheWorkflow`
  carry `VerdictsAreFinal` and `VerdictsMoveOnlyHealing` over to the composition.

Preparation (`ProductionProofs`):

* `PreparationIsTyped`, `PreparationsAgree`, `PreparationsAnswerTheRequest`, `ApprovalsAreFollowed`:
  `TypeOK`, `AnswersAgree`, `AnsweredAsAsked`, `ApprovalsFollowArtifacts`. Keys of stored artifacts
  are unique (`KeysUnique`); a run about to insert is alone with its new artifact (`FreshInserts`);
  past the insert it works with a stored artifact of its key and with that artifact's plan, not
  with the one it resolved itself (`RunsFollow`), and binds an approval its own operator asked for
  (`BindsFollow`). `AnswersHold` keeps this for an answer already given.

Probe and go/no-go (`ProductionProofs`):

* `PilotIsTyped`, `TargetsAreProbedOnce`, `GoStaysBacked`, `DecisionsToldAgree`: `PilotTypeOK`,
  `ProbedOnce`, `GoIsBacked`, `DecisionsAgree`. The row of a probe is the claim of its whole pilot
  (`OneProbe`) and one request works on it until it is no longer RUNNING (`OneProber`); what that
  request has done shows in the row and in the history (`JobsFit`, `RowsFit`): the row of a request
  before its GETs is RUNNING and was not probed, and a probe passes only after a rehearsal. A GO
  that is about to be stored, or was, has a probe that passed, evidence that was current after that
  and a reviewer without another duty, and none of these can be taken back (`GoFits`,
  `DecisionsFit`), although the evidence may expire. The row of a decision is what every request
  is told, for a pilot has one, and a replay is answered it only when it asks for it
  (`OneDecision`, `ToldHold`).

Session (`InvestigationSessionProofs`):

* `RowsAreValid`: `TypeOK`, which includes the validators of the row a next read runs.
* `CallsAreNotRepeated`: `OneCallPerStep`. A worker *holds* the latest claim between its swap and
  its completion. There is one holder (`OneHolder`), it holds the last step of a running session
  (`HoldersOwn`) and its call has not been made before (`NotYetCalled`); a swap that can still
  succeed was prepared on a resumable session (`SwapsAreFresh`). Without the last one a stale
  swap could take a session that another worker holds.
* `NothingUnresolvedIsResumed`: the action property `UnresolvedIsNeverResumed`, from `IInv`
  as an invariant of both states of a step. `RunsCarry` and `OutcomesConsistent` say what a run
  carries, so that a completion writes a status that agrees with the state it writes.
* `StepsStayWithinLimits`, `ClaimsBindTheirState`, `NothingPausedIsStuck`, `ExpectedVersionsBind`:
  `StepsWithinLimits`, `ClaimBindsState`, `PausedIsResumable`, `ExpectedVersionBinds`. They rest on
  the whole history of the row (`HInv`): the budgets count the steps (`Budgets`), the probes tried
  are those of the steps (`CollectsAnew`), a continuation asked for something admitted (`GoesOn`).
  The argument about stale workers is `OnTime`: a state a worker read is still the current one and
  its step admitted, or that step is in the table under the same digest, because the state tells
  which step is next (`OneKindIsNext`). A swap comes after a search of the table for its digest at
  the version it compares, so only the first case can write.

ChatOps (`ChatOpsProofs`):

* `ChatOpsTypeOK`, `DecisionsToldHold`, `ActsAreAuthorized`, `LaunchesAreApproved`,
  `RemediatesOnce`, `SuccessIsVerified`: `TypeOK`, `RepliedDecisionsHold`, `ActsFollowAuthority`,
  `LaunchedIsApproved`, `OneRemediationPerIncident`, `CompletedIsVerified`. What a job read is old
  by the time it acts, so the invariant relates each job to what can only grow since its read
  (`Grows`): a request that was decided, an execution that was claimed, a verdict. On that rest
  what a job carries (`SoundJob`), what was told (`SoundReply`), who acted (`SoundAct`), who
  collects evidence (`Collectors`), and that remediation by text chooses one approval of an
  incident (`OneChosen`).
* `ChatsDecideThroughRegister`, `ChatsExecuteThroughLedger`: `Spec => Register!Spec` and
  `Spec => Ledger!Spec`. The bridge writes to approvals it chose in earlier states; that each of its
  writes, with those of the operators, is one step of the abstract register or ledger, or none,
  needs what `SoundJob` says of the target it carries.

Gateway (`LLMGatewayProofs`):

* `CircuitCounts`, `ClosedExactly`, `RecoveryIsQuiet`: the invariant `CircuitInv`, and from it
  `ClosedWhileWorking` and `FailuresAreWaitedOut`. The breaker's count is the number of failures
  in a row, cut at the threshold; it is closed exactly below the threshold; its timer is the time
  since the last failure, also for failures of calls that were admitted before it opened; and half
  open means that this time is the recovery timeout.

* `WindowSlides`: `WindowKept`. The limiter forgets timestamps when it is asked, the history
  `passed` when they leave the window: the first without its expired ones is the second
  (`LimiterInv`). In a list with its oldest entries first (`OldestFirst`) those that are too old are
  a prefix, as long as they are many (`ExpiredPrefix`, `YoungerIs`), so no induction over the list
  is needed. That `Younger` equals the filter of the code on such lists was checked by TLC, for
  lists of up to three ages.
* `GatewayIsTyped`: `TypeOK`, from the two invariants above and `CallsInv`.
* `FallsBackOnce`: `MovesOnce`, an action property stated beside its proof: a call
  under way stays where it is, or its first execution is over and the second begins, on a healthy
  provider other than the one that failed it. The first execution is on the provider the request
  was routed to (`CallFits`); the fallback is the first healthy client in order, and that there is a
  first one is `LeastElement`.

How the pieces fit. `ActionExecution` is proved to implement `ExecutionLifecycle` and
`ApprovalDecision` to implement `ApprovalRegister`. `ActionWorkflow` (for executions) and `ChatOps`
(for both) are written over these abstractions and are proved to use them only in ways they allow:
what is shown of executions and decisions there never rests on a step the services below would
refuse.

Only model-checked are the liveness properties (`VerdictReachesIncident`, `CallersMoveOn`,
`CircuitRecovers`), since liveness under fairness is beyond the prover's reach. Every invariant and
every action property of a run that is expected to pass is proved.

## 6. Disagreements between code and texts

Three runs are expected to be violated; `PROJECT.json` quotes each text with its line.

* `ApprovalDecisionTests` / `DecisionsAreRecordable`: `ApprovalManager._transition` changes the
  plan's flag and then assigns `decision`; the model validates on assignment and recomputes the
  fingerprint of the whole plan, so a request created with `approved = False` cannot be approved.
  `tests/test_approval_flow.py:110-113` expects it to be.
* `ActionWorkflowRecovery` / `RunningIsDecided`: an interrupted execution stays RUNNING and cannot
  be reconciled; the crash rehearsal and the pilot runbook prescribe a manual reconciliation of
  it.
* `ChatOpsRedelivery` / `OneDecisionPerEvent`: the bridge looks for its own earlier decision only
  when nothing is pending for the incident (`write_bridge.py:481`), so an approval that is
  delivered again after another request was created decides that one too. `identity.py:422` says
  that the exact same replay must produce the same decision data.

The models contain more that a reader of the code may want to know, without a run of its own: its
cause is that of a run above, or no text is definite about it.

* An interrupted verification stays PENDING or RUNNING for ever, and every retry answers with it
  (`Verification!ClaimedIsDecided` states the contrary), while the runbook and the crash rehearsal
  call it resumable.
* In the chat, a second approved request of an incident makes remediation by text ambiguous for
  ever. The identifier a reply is sent under is derived from the event, so the chat service may
  drop, as a duplicate of the first, the reply to the event delivered again, with what came of it.
* Once a plan without a pilot is executed, its failure moves the incident to FAILED, and an
  execution frozen before cannot be reconciled until another attempt makes the incident HEALING.
* A NO_GO may be recorded while the probe is RUNNING, and the probe's record changes afterwards;
  the class speaks of one immutable probe result. The rule that the final reviewer differs from
  the earlier ones is checked for a GO only; the runbook (section 10) states it without the
  exception.
* HALF_OPEN admits every call, where the docstring of the class speaks of a probe request.

## 7. Plan

Done, in this order, the claim and the PATCH first since a mistake there changes a cluster twice:
the ledger and its abstraction, approvals and theirs, verification, the workflow under the pilot
controls, investigation sessions, preparation, the write bridge of the chat, the LLM gateway, the
probe and go/no-go of a pilot; and the theorems above.

Next:

1. Incident store: creation, deduplication and suppression.
2. Retried preparation: a client that retries is answered, with fairness.
3. A specification of what a remediation promises from the approval to the verdict, implemented by
   `ActionWorkflow`, above the two specifications it is now shown to follow.
