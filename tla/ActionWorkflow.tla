---------------------------- MODULE ActionWorkflow ----------------------------
(***************************************************************************)
(* The remediation workflow of one incident behind the API: resume of an   *)
(* approved action (ActionRuntime.resume), reconciliation of an            *)
(* indeterminate one and the verification that follows, under the controls *)
(* of a production pilot: kill switch, activation ceremony and a write     *)
(* budget of one PATCH.                                                    *)
(*                                                                         *)
(* It composes the ledger, at the level of ExecutionLifecycle, which       *)
(* ActionExecution implements, with Verification.  An API request is a     *)
(* worker; one step is the code between two awaits that matter, and the    *)
(* request may be cut off after each of them.                              *)
(***************************************************************************)
EXTENDS Naturals

CONSTANTS
    Approvals,   \* approved plans of the incident; each has at most one execution
    Production,  \* those bound to a Kubernetes production artifact
    Probes,      \* of the verification profile
    Required,
    Workers,
    None

ASSUME ProductionAssumption == Production \subseteq Approvals

ASSUME RequiredAssumption == Required \subseteq Probes

VARIABLES
    phase,       \* the ledger: where the execution of each approval stands
    incident, verifications, runs, probed,    \* as in Verification
    jobs,        \* the resume or reconcile request of each worker, or None
    ceremonies,  \* the pilot ceremony of each approval
    checklists,  \* approvals whose checklist passed its checks and is being recorded
    budget,      \* the row of the pilot's write budget, or None
    killSwitch,  \* TRUE when engaged (or unreadable)
    writes       \* external and history: real PATCHes sent and applied

ledgerVars == phase
verificationVars == <<incident, verifications, runs, probed>>
pilotVars == <<ceremonies, checklists, budget, killSwitch, writes>>
vars == <<ledgerVars, verificationVars, jobs, pilotVars>>

Outcomes == {"succeeded", "failed"}

\* Who decided an outcome: the executor's answer or an operator's reconciliation.
Deciders == {"executor", "operator"}

Triggers == {"post_action_execution", "post_action_reconciliation"}

Ledger == INSTANCE ExecutionLifecycle WITH Results <- Deciders

Verifying == INSTANCE Verification WITH Executions <- Approvals

Stages ==
    {"lookup", "reget", "claim", "guard", "activate", "bind", "reserve", "heal", "plain",
     "preflight", "consume", "patch", "persist", "update_incident", "verify",
     "reconcile", "verify_reconciled", "reload", "overwrite"}

\* `outcome` is what the request is about to record, `goal` the status it will then
\* give the incident, None for none.
Jobs ==
    [approval: Approvals, stage: Stages,
     outcome: Outcomes \cup {"indeterminate", None},
     goal: {"healing", "failed", None}]

Budgets == [approval: Approvals, status: {"reserved", "consumed"}]

ASSUME WorkflowNone ==
    /\ None \notin Jobs /\ None \notin Budgets
    /\ None \notin Verifying!Verifications /\ None \notin Verifying!Runs
    /\ None \notin Verifying!Evidence
    /\ None \notin Outcomes \cup Deciders \cup {"healing", "failed", "indeterminate"}

Init ==
    /\ Ledger!Init
    /\ incident = "confirmed"
    /\ Verifying!VerificationInit
    /\ jobs = [w \in Workers |-> None]
    /\ ceremonies = [a \in Approvals |-> "none"]
    /\ checklists = {}
    /\ budget = None
    /\ killSwitch = TRUE
    /\ writes = [a \in Approvals |-> [sent |-> 0, applied |-> 0]]

------------------------------------------------------------------------------
(* Requests. *)

Idle(w) == jobs[w] = None /\ runs[w] = None

At(w, stage) == jobs[w] # None /\ jobs[w].stage = stage

Goto(w, stage) == jobs' = [jobs EXCEPT ![w].stage = stage]

Leave(w) == jobs' = [jobs EXCEPT ![w] = None]

\* What the request records next, and what becomes of the incident afterwards.
Record(w, outcome, goal) ==
    jobs' = [jobs EXCEPT ![w].stage = "persist", ![w].outcome = outcome, ![w].goal = goal]

BlocksIncident(w) == Record(w, "failed", "failed")

\* An execution blocked before the executor is FAILED and the incident not touched.
Block(w) == Record(w, "failed", None)

\* The request ends; the API starts or replays the verification of a success.
Verify(w, a, trigger) == Leave(w) /\ Verifying!BeginRun(w, a, trigger)

Claimed(a) == phase[a].status # "unclaimed"

IsReconciled(a) == phase[a].result = "operator"

\* The guard and readiness checks can always fail (clock, contract, binding,
\* configuration); a production plan passes them only with the switch disengaged.
MayPass(a) == a \in Production => ~killSwitch

------------------------------------------------------------------------------
(* Resume: up to the claim. *)

Resume(w, a) ==
    /\ Idle(w)
    /\ jobs' = [jobs EXCEPT ![w] =
         [approval |-> a, stage |-> "lookup", outcome |-> None, goal |-> None]]
    /\ UNCHANGED <<ledgerVars, verificationVars, pilotVars>>

Lookup(w) ==
    /\ At(w, "lookup")
    /\ LET a == jobs[w].approval IN
        \/ (Claimed(a) \/ MayPass(a)) /\ Goto(w, "claim")
        \/ ~Claimed(a) /\ Goto(w, "reget")
    /\ UNCHANGED <<ledgerVars, verificationVars, pilotVars>>

\* A check failed; someone may have claimed in the meantime.
Reget(w) ==
    /\ At(w, "reget")
    /\ IF Claimed(jobs[w].approval) THEN Goto(w, "claim") ELSE Leave(w)
    /\ UNCHANGED <<ledgerVars, verificationVars, pilotVars>>

VerifiesUnsettled(a) == phase[a].status \in {"succeeded", "indeterminate"}

\* Only the replay of a success goes on to its verification.
Verifiable(a) == phase[a].status = "succeeded"

\* Created, replayed, or refused because of another operator or key.
Claim(w) ==
    /\ At(w, "claim")
    /\ LET a == jobs[w].approval IN
        \/ /\ Ledger!Launch(a)
           /\ Goto(w, "guard")
           /\ UNCHANGED verificationVars
        \/ /\ Verifiable(a)
           /\ Verify(w, a, "post_action_execution")
           /\ UNCHANGED ledgerVars
        \/ /\ Claimed(a)
           /\ Leave(w)
           /\ UNCHANGED <<ledgerVars, verificationVars>>
    /\ UNCHANGED pilotVars

------------------------------------------------------------------------------
(* Resume: the creator of the claim goes on. *)

SkipsCeremony(a) == IF a \in Production THEN "reserve" ELSE "heal"

AfterGuard(a) == IF a \in Production THEN "activate" ELSE "heal"

Guard(w) ==
    /\ At(w, "guard")
    /\ LET a == jobs[w].approval IN
        \/ MayPass(a) /\ Goto(w, AfterGuard(a))
        \/ Block(w)
    /\ UNCHANGED <<ledgerVars, verificationVars, pilotVars>>

\* activate_for_execution checks the ceremony, the switch and that the budget is free ...
Activate(w) ==
    /\ At(w, "activate")
    /\ \/ /\ ceremonies[jobs[w].approval] = "ready"
          /\ ~killSwitch
          /\ budget = None
          /\ Goto(w, "bind")
       \/ Block(w)
    /\ UNCHANGED <<ledgerVars, verificationVars, pilotVars>>

\* ... and then moves READY to ACTIVATED; only applied=True goes on.
Bind(w) ==
    /\ At(w, "bind")
    /\ LET a == jobs[w].approval IN
        \/ /\ ceremonies[a] = "ready"
           /\ ceremonies' = [ceremonies EXCEPT ![a] = "activated"]
           /\ Goto(w, "reserve")
        \/ /\ Block(w)
           /\ UNCHANGED ceremonies
    /\ UNCHANGED <<ledgerVars, verificationVars, checklists, budget, killSwitch, writes>>

Reserve(w) ==
    /\ At(w, "reserve")
    /\ \/ /\ budget = None
          /\ budget' = [approval |-> jobs[w].approval, status |-> "reserved"]
          /\ Goto(w, "heal")
       \/ /\ Block(w)
          /\ UNCHANGED budget
    /\ UNCHANGED <<ledgerVars, verificationVars, ceremonies, checklists, killSwitch, writes>>

\* _update_incident is a read and a compare-and-set on the status read: it moves the
\* incident, whatever its status, or raises.
Heal(w) ==
    /\ At(w, "heal")
    /\ \/ /\ incident' = "healing"
          /\ Goto(w, IF jobs[w].approval \in Production THEN "preflight" ELSE "plain")
       \/ /\ Block(w)
          /\ UNCHANGED incident
    /\ UNCHANGED <<ledgerVars, verifications, runs, probed, pilotVars>>

\* The executor of plans without a production artifact: any answer.
Plain(w) ==
    /\ At(w, "plain")
    /\ \/ Record(w, "succeeded", "healing")
       \/ Record(w, "failed", "failed")
       \/ Record(w, "indeterminate", "healing")
    /\ UNCHANGED <<ledgerVars, verificationVars, pilotVars>>

------------------------------------------------------------------------------
(* KubernetesProductionExecutor.execute_claimed. *)

\* Binding, policy, contract clock, the live object, the dry run and last the switch:
\* each failure is definite.
Preflight(w) ==
    /\ At(w, "preflight")
    /\ \/ ~killSwitch /\ Goto(w, "consume")
       \/ Record(w, "failed", "failed")
    /\ UNCHANGED <<ledgerVars, verificationVars, pilotVars>>

\* A consumption repeated by the same execution would be accepted (`applied` is not
\* read).  A conflict is a definite failure, an error of the database an unexpected
\* one, hence indeterminate.
Consume(w) ==
    /\ At(w, "consume")
    /\ \/ /\ budget # None /\ budget.approval = jobs[w].approval
          /\ budget' = [budget EXCEPT !.status = "consumed"]
          /\ Goto(w, "patch")
       \/ /\ \/ Record(w, "failed", "failed")
             \/ Record(w, "indeterminate", "healing")
          /\ UNCHANGED budget
    /\ UNCHANGED <<ledgerVars, verificationVars, ceremonies, checklists, killSwitch, writes>>

\* What _request_json and _validate_applied make of the cluster's answer.
LostAnswerFails(applied) ==
    IF applied THEN {"succeeded", "failed"} ELSE {"failed"}

\* An applied PATCH is acknowledged, or its answer is lost, late, a 5xx or not
\* acceptable; one that is not applied is refused with a 4xx, or unknown.
Answers(applied) ==
    IF applied THEN {"succeeded", "indeterminate"} ELSE {"failed", "indeterminate"}

RetriesLostWrite(w, outcome) ==
    IF outcome = "indeterminate" THEN UNCHANGED jobs
    ELSE Record(w, outcome, IF outcome = "failed" THEN "failed" ELSE "healing")

AfterPatch(w, outcome) ==
    Record(w, outcome, IF outcome = "failed" THEN "failed" ELSE "healing")

\* The only real PATCH.
Patch(w) ==
    /\ At(w, "patch")
    /\ \E applied \in BOOLEAN : \E outcome \in Answers(applied) :
        /\ writes' = [writes EXCEPT
             ![jobs[w].approval].sent = @ + 1,
             ![jobs[w].approval].applied = @ + (IF applied THEN 1 ELSE 0)]
        /\ AfterPatch(w, outcome)
    /\ UNCHANGED <<ledgerVars, verificationVars, ceremonies, checklists, budget, killSwitch>>

------------------------------------------------------------------------------
(* Resume: the outcome is recorded, then the incident moved. *)

ReturnedByExecutor(w) ==
    jobs[w].outcome = "succeeded" \/ (jobs[w].outcome = "failed" /\ jobs[w].goal = "failed"
                                        /\ jobs[w].approval \notin Production)

\* When the outcome of an executor that returned cannot be persisted, the record
\* stays RUNNING and the incident is made HEALING.
Persist(w) ==
    /\ At(w, "persist")
    /\ LET a == jobs[w].approval
           outcome == jobs[w].outcome IN
        \/ /\ IF outcome = "indeterminate" THEN Ledger!Freeze(a)
              ELSE Ledger!Settle(a, outcome, "executor")
           /\ IF jobs[w].goal = None THEN Leave(w) ELSE Goto(w, "update_incident")
        \/ /\ ReturnedByExecutor(w)
           /\ jobs' = [jobs EXCEPT ![w].stage = "update_incident", ![w].outcome = None,
                                   ![w].goal = "healing"]
           /\ UNCHANGED ledgerVars
    /\ UNCHANGED <<verificationVars, pilotVars>>

\* From any status, as in Heal.
UpdateIncident(w) ==
    /\ At(w, "update_incident")
    /\ incident' = jobs[w].goal
    /\ IF jobs[w].outcome = "succeeded" THEN Goto(w, "verify") ELSE Leave(w)
    /\ UNCHANGED <<ledgerVars, verifications, runs, probed, pilotVars>>

\* The API starts the verification of a recorded success.
VerifyExecution(w) ==
    /\ At(w, "verify")
    /\ Verify(w, jobs[w].approval, "post_action_execution")
    /\ UNCHANGED <<ledgerVars, pilotVars>>

------------------------------------------------------------------------------
(* Reconciliation by an operator. *)

\* A new decision needs a HEALING incident; a decided execution may be replayed.
MayReconcile(a) == Claimed(a) /\ (IsReconciled(a) \/ incident = "healing")

Reconcile(w, a, outcome) ==
    /\ Idle(w)
    /\ MayReconcile(a)
    /\ jobs' = [jobs EXCEPT ![w] =
         [approval |-> a, stage |-> "reconcile", outcome |-> outcome, goal |-> None]]
    /\ UNCHANGED <<ledgerVars, verificationVars, pilotVars>>

\* ActionExecutionService.reconcile decides an INDETERMINATE record only.
Decidable(a) == phase[a].status = "indeterminate"

\* Applied, replayed with the same decision, or refused.
Decide(w) ==
    /\ At(w, "reconcile")
    /\ LET a == jobs[w].approval
           outcome == jobs[w].outcome
           next == IF outcome = "failed" THEN "reload" ELSE "verify_reconciled" IN
        \/ /\ Decidable(a)
           /\ phase' = [phase EXCEPT ![a] = [status |-> outcome, result |-> "operator"]]
           /\ Goto(w, next)
        \/ /\ IsReconciled(a) /\ phase[a].status = outcome
           /\ Goto(w, next)
           /\ UNCHANGED ledgerVars
        \/ /\ ~Decidable(a)
           /\ Leave(w)
           /\ UNCHANGED ledgerVars
    /\ UNCHANGED <<verificationVars, pilotVars>>

VerifyReconciled(w) ==
    /\ At(w, "verify_reconciled")
    /\ Verify(w, jobs[w].approval, "post_action_reconciliation")
    /\ UNCHANGED <<ledgerVars, pilotVars>>

\* _synchronize_reconciled_failure_incident reads the incident first ...
Reload(w) ==
    /\ At(w, "reload")
    /\ IF incident = "healing" THEN Goto(w, "overwrite") ELSE Leave(w)
    /\ UNCHANGED <<ledgerVars, verificationVars, pilotVars>>

\* ... and then writes without an expected status.
Overwrite(w) ==
    /\ At(w, "overwrite")
    /\ incident' = "failed"
    /\ Leave(w)
    /\ UNCHANGED <<ledgerVars, verifications, runs, probed, pilotVars>>

------------------------------------------------------------------------------
(* Around the requests. *)

\* The process dies, the request task is cancelled, or an error of a store goes to
\* the client: nothing further is done for the request.
Interrupt(w) ==
    /\ jobs[w] # None
    /\ Leave(w)
    /\ UNCHANGED <<ledgerVars, verificationVars, pilotVars>>

\* The switch is a file which an operator writes and every check reads.
ToggleKillSwitch ==
    /\ killSwitch' = ~killSwitch
    /\ UNCHANGED <<ledgerVars, verificationVars, jobs, ceremonies, checklists, budget, writes>>

NoCeremony == \A a \in Approvals : ceremonies[a] = "none"

\* A reviewer's checklist is checked while the switch is engaged ...
CheckChecklist(a) ==
    /\ a \in Production
    /\ killSwitch
    /\ NoCeremony
    /\ checklists' = checklists \cup {a}
    /\ UNCHANGED <<ledgerVars, verificationVars, jobs, ceremonies, budget, killSwitch, writes>>

\* ... and recorded later, in a transaction: one ceremony per pilot.
RecordChecklist(a) ==
    /\ a \in checklists
    /\ checklists' = checklists \ {a}
    /\ ceremonies' = IF NoCeremony THEN [ceremonies EXCEPT ![a] = "ready"] ELSE ceremonies
    /\ UNCHANGED <<ledgerVars, verificationVars, jobs, budget, killSwitch, writes>>

\* The verification of a request runs as a part of it.
VerificationStep(w) ==
    /\ Verifying!RunStep(w) \/ Verifying!CrashRun(w)
    /\ UNCHANGED <<ledgerVars, jobs, pilotVars>>

------------------------------------------------------------------------------
RequestStep(w) ==
    \/ Lookup(w) \/ Reget(w) \/ Claim(w) \/ Guard(w)
    \/ Activate(w) \/ Bind(w) \/ Reserve(w) \/ Heal(w) \/ Plain(w)
    \/ Preflight(w) \/ Consume(w) \/ Patch(w)
    \/ Persist(w) \/ UpdateIncident(w) \/ VerifyExecution(w)
    \/ Decide(w) \/ VerifyReconciled(w) \/ Reload(w) \/ Overwrite(w)

Next ==
    \/ \E w \in Workers :
        \/ \E a \in Approvals : Resume(w, a)
        \/ \E a \in Approvals, outcome \in Outcomes : Reconcile(w, a, outcome)
        \/ RequestStep(w)
        \/ Interrupt(w)
        \/ VerificationStep(w)
    \/ \E a \in Approvals : CheckChecklist(a) \/ RecordChecklist(a)
    \/ ToggleKillSwitch

Spec == Init /\ [][Next]_vars

\* No request is starved, interruptions do not hit the same step for ever, clients
\* retry a resume and the operators a reconciliation.
RecoverySpec ==
    /\ Spec
    /\ \A w \in Workers :
        /\ SF_vars(RequestStep(w) /\ ~At(w, "reconcile"))
        /\ SF_vars(Decide(w))
        /\ WF_vars(VerificationStep(w))
        /\ \A a \in Approvals :
            /\ SF_vars(Resume(w, a))
            /\ \A outcome \in Outcomes : SF_vars(Reconcile(w, a, outcome))

------------------------------------------------------------------------------
(* Properties. *)

\* The ledger, the incident, every request and every pilot control is well typed.
TypeOK ==
    /\ Ledger!TypeOK
    /\ Verifying!TypeOK
    /\ jobs \in [Workers -> Jobs \cup {None}]
    /\ ceremonies \in [Approvals -> {"none", "ready", "activated"}]
    /\ checklists \subseteq Production
    /\ budget \in Budgets \cup {None}
    /\ killSwitch \in BOOLEAN
    /\ writes \in [Approvals -> [sent: Nat, applied: Nat]]

\* Whatever is resumed, retried, interrupted and raced, a pilot sends at most one
\* real PATCH ("Perform at most one real PATCH for one durable execution claim").
OnePatchPerPilot ==
    \A a, b \in Approvals :
        /\ writes[a].sent <= 1
        /\ writes[a].sent = 1 /\ writes[b].sent = 1 => a = b

\* A PATCH that was sent has its whole chain of permissions persisted: a claimed
\* execution, an activated ceremony and the consumed budget of this very approval.
PatchIsPermitted ==
    \A a \in Approvals :
        writes[a].sent > 0 =>
            /\ Claimed(a)
            /\ ceremonies[a] = "activated"
            /\ budget = [approval |-> a, status |-> "consumed"]

\* What the ledger says on the executor's word is true of the cluster: SUCCEEDED was
\* applied, FAILED was not; a doubt is INDETERMINATE and left to an operator.
LedgerIsTruthful ==
    \A a \in Production :
        phase[a].result = "executor" =>
            (phase[a].status = "succeeded") = (writes[a].applied = 1)

\* Only a recorded success is verified, so RESOLVED needs a succeeded execution and
\* its PASSED verification.
OnlySuccessIsVerified ==
    /\ \A a \in Approvals : verifications[a] # None => phase[a].status = "succeeded"
    /\ Verifying!ResolvedHasEvidence

\* An execution frozen as INDETERMINATE can be reconciled: the API wants its incident
\* HEALING, and no other approval of the pilot, no retry and no late request may move
\* the incident while the doubt lasts.  Only a plan outside the pilot, which no
\* ceremony or budget holds back, may.
FrozenIsReconcilable ==
    \A a \in Approvals :
        phase[a].status = "indeterminate" =>
            \/ incident = "healing"
            \/ \E b \in Approvals \ Production : Claimed(b)

\* What the runbook says of a claim that was interrupted: a manual reconciliation
\* brings the existing execution to an outcome.
RunningIsDecided ==
    \A a \in Approvals :
        phase[a].status = "running" ~> phase[a].status # "running"

==============================================================================
