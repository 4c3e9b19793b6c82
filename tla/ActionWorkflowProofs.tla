------------------------- MODULE ActionWorkflowProofs -------------------------
(***************************************************************************)
(* Theorems about ActionWorkflow.  The request that creates the claim of an *)
(* approval is alone with it until it records an outcome (OneCreator).  How *)
(* far it got shows in the controls of the pilot: the ceremony, then the   *)
(* budget, which is never given back (JobFits).  So whatever was sent to   *)
(* the cluster, recorded as success or left in doubt belongs to the        *)
(* approval that holds the budget, and there is one.                       *)
(*                                                                         *)
(* The verification is the one of Verification: its invariant and the      *)
(* proof that its steps keep it are those of VerificationProofs.           *)
(***************************************************************************)
EXTENDS ActionWorkflow, TLAPS

VP == INSTANCE VerificationProofs WITH Executions <- Approvals

------------------------------------------------------------------------------
(* The inductive invariant. *)

Creating ==
    {"guard", "activate", "bind", "reserve", "heal", "plain", "preflight", "consume",
     "patch", "persist"}

\* w created the claim of a and has not recorded an outcome.
Creates(w, a) == jobs[w] # None /\ jobs[w].approval = a /\ jobs[w].stage \in Creating

OneCreator ==
    \A v, w \in Workers, a \in Approvals : Creates(v, a) /\ Creates(w, a) => v = w

\* A pilot has one ceremony.
OneCeremony ==
    \A a, b \in Approvals : ceremonies[a] # "none" /\ ceremonies[b] # "none" => a = b

HasBudget(a) == budget # None /\ budget.approval = a

\* Past the reservation, before the outcome.
Reserved(j) ==
    \/ j.stage \in {"preflight", "consume", "patch"}
    \/ j.stage = "heal" /\ j.approval \in Production

\* The executor was entered, or an outcome recorded.
Executed(j) ==
    \/ j.stage \in {"preflight", "consume", "patch", "update_incident", "verify",
                    "verify_reconciled", "reload", "overwrite"}
    \/ j.stage = "persist" /\ j.goal # None

\* What a request is about to record is true of the cluster.
RecordFits(j) ==
    /\ j.outcome # None
    /\ j.outcome # "failed" => j.goal = "healing"
    /\ j.approval \in Production =>
        /\ j.outcome = "succeeded" => writes[j.approval].applied = 1
        /\ j.outcome = "failed" => writes[j.approval].applied = 0

\* What a request carries fits the ledger and the controls.
JobFits(j) ==
    LET a == j.approval IN
    /\ j.stage \in Creating => phase[a].status = "running"
    /\ j.stage \in Creating \ {"persist"} => writes[a].sent = 0
    /\ j.stage \in {"activate", "bind", "reserve", "preflight", "consume", "patch"} =>
        a \in Production
    /\ j.stage = "plain" => a \notin Production
    /\ j.stage = "reserve" \/ Reserved(j) => ceremonies[a] = "activated"
    /\ Reserved(j) \/ (Executed(j) /\ a \in Production) => HasBudget(a)
    /\ j.stage = "patch" => budget.status = "consumed"
    /\ j.stage = "persist" => RecordFits(j)
    /\ j.stage = "reconcile" => j.outcome \in Outcomes
    /\ j.stage = "update_incident" =>
        /\ j.goal # None
        /\ j.outcome = "succeeded" => phase[a].status = "succeeded"
        /\ j.goal = "failed" => phase[a].status = "failed"
    /\ j.stage \in {"verify", "verify_reconciled"} => phase[a].status = "succeeded"
    /\ j.stage \in {"reload", "overwrite"} => phase[a].status = "failed"

JobsFit == \A w \in Workers : jobs[w] # None => JobFits(jobs[w])

\* A recorded success or doubt of a production approval, and a doubt an operator
\* decided, came from the approval with the budget.
PhaseFits(a) ==
    /\ phase[a].status \in {"unclaimed", "running", "indeterminate"} => phase[a].result = None
    /\ a \in Production =>
        /\ phase[a].result = "executor" =>
            (phase[a].status = "succeeded" <=> writes[a].applied = 1)
        /\ phase[a].status \in {"succeeded", "indeterminate"} \/ phase[a].result = "operator" =>
            HasBudget(a)

WritesFit(a) ==
    /\ writes[a].sent <= 1
    /\ writes[a].applied <= writes[a].sent
    /\ writes[a].sent > 0 =>
        /\ Claimed(a)
        /\ ceremonies[a] = "activated"
        /\ budget = [approval |-> a, status |-> "consumed"]

LedgerFits == \A a \in Approvals : PhaseFits(a) /\ WritesFit(a)

\* Verifications, and the runs on their way to one, are of recorded successes.
VerifiesSuccess ==
    /\ \A w \in Workers : runs[w] # None => phase[runs[w].execution].status = "succeeded"
    /\ \A a \in Approvals : verifications[a] # None => phase[a].status = "succeeded"

\* No plan outside the pilot was claimed.
PilotAlone == \A b \in Approvals \ Production : ~Claimed(b)

\* From the preflight of the executor to the outcome, and on while there is a doubt,
\* the incident is HEALING.
Healing(j) ==
    j.stage \in {"preflight", "consume", "patch"} \/ (j.stage = "persist" /\ j.goal # None)

IncidentHolds ==
    PilotAlone =>
        /\ \A a \in Approvals : phase[a].status = "indeterminate" => incident = "healing"
        /\ \A w \in Workers : jobs[w] # None /\ Healing(jobs[w]) => incident = "healing"

IInv ==
    /\ TypeOK
    /\ VP!IInv
    /\ JobsFit
    /\ OneCreator
    /\ OneCeremony
    /\ LedgerFits
    /\ VerifiesSuccess
    /\ IncidentHolds

------------------------------------------------------------------------------
(* What Verification and its proofs are instantiated with. *)

LEMMA VerificationAssumptions == VP!RequiredAssumption /\ VP!VerificationNone
BY RequiredAssumption, WorkflowNone
   DEF VP!RequiredAssumption, VP!VerificationNone,
       Verifying!Verifications, VP!Verifications, Verifying!Runs, VP!Runs,
       Verifying!Evidence, VP!Evidence, Verifying!Verdicts, VP!Verdicts,
       Verifying!CheckResults, VP!CheckResults, Verifying!Stages, VP!Stages

LEMMA VerificationTyped == (VP!IInv => Verifying!TypeOK) /\ (VP!IInv' => Verifying!TypeOK')
BY DEF VP!IInv, VP!TypeOK, Verifying!TypeOK, VP!IncidentStatuses, Verifying!IncidentStatuses,
       Verifying!Verifications, VP!Verifications, Verifying!Runs, VP!Runs,
       Verifying!Evidence, VP!Evidence, Verifying!Verdicts, VP!Verdicts,
       Verifying!CheckResults, VP!CheckResults, Verifying!Stages, VP!Stages

LEMMA VerificationKept ==
    ASSUME VP!IInv, [VP!Next]_(VP!verificationVars)
    PROVE  VP!IInv'
BY VerificationAssumptions, VP!StepInvariant

LEMMA VerificationUnchanged ==
    ASSUME VP!IInv, UNCHANGED verificationVars
    PROVE  VP!IInv'
BY VerificationKept DEF verificationVars, VP!verificationVars

\* For Verification the rest of the workflow is another attempt on the incident.
LEMMA IncidentMovedKept ==
    ASSUME VP!IInv, NEW status \in {"healing", "failed"}, incident' = status,
           UNCHANGED <<verifications, runs, probed>>
    PROVE  VP!IInv'
<1>1. [VP!Next]_(VP!verificationVars)
  BY DEF VP!Next, VP!OtherAttempt, VP!verificationVars
<1> QED
  BY <1>1, VerificationKept

\* The steps of Verification are those its proofs are about.
LEMMA BeginRunMatches ==
    ASSUME NEW w \in Workers, NEW a \in Approvals, NEW t \in Triggers,
           Verifying!BeginRun(w, a, t)
    PROVE  VP!BeginRun(w, a, t)
BY DEF VP!BeginRun, Verifying!BeginRun

LEMMA RunStepMatches ==
    ASSUME NEW w \in Workers, Verifying!RunStep(w) \/ Verifying!CrashRun(w)
    PROVE  VP!RunStep(w) \/ VP!CrashRun(w)
<1> USE DEF VP!At, Verifying!At, VP!Goto, Verifying!Goto, VP!Leave, Verifying!Leave,
            VP!Terminal, Verifying!Terminal, VP!Verdicts, Verifying!Verdicts
<1>1. CASE Verifying!Admit(w)
  <2>1. VP!Admit(w)
    BY <1>1 DEF Verifying!Admit, VP!Admit
  <2> QED
    BY <2>1 DEF VP!RunStep
<1>2. CASE Verifying!Claim(w)
  <2>1. VP!Claim(w)
    BY <1>2 DEF Verifying!Claim, VP!Claim, Verifying!Claimable, VP!Claimable,
                Verifying!Reconciles, VP!Reconciles
  <2> QED
    BY <2>1 DEF VP!RunStep
<1>3. CASE Verifying!Start(w)
  <2>1. VP!Start(w)
    BY <1>3 DEF Verifying!Start, VP!Start
  <2> QED
    BY <2>1 DEF VP!RunStep
<1>4. CASE Verifying!Mark(w)
  <2>1. VP!Mark(w)
    BY <1>4 DEF Verifying!Mark, VP!Mark
  <2> QED
    BY <2>1 DEF VP!RunStep
<1>5. CASE Verifying!Collect(w)
  <2>1. VP!Collect(w)
    BY <1>5 DEF Verifying!Collect, VP!Collect, Verifying!Evidence, VP!Evidence,
                Verifying!CheckResults, VP!CheckResults
  <2> QED
    BY <2>1 DEF VP!RunStep
<1>6. CASE Verifying!Complete(w)
  <2>1. VP!Complete(w)
    BY <1>6 DEF Verifying!Complete, VP!Complete, Verifying!Decide, VP!Decide,
                Verifying!Backed, VP!Backed
  <2> QED
    BY <2>1 DEF VP!RunStep
<1>7. CASE Verifying!Synchronize(w)
  <2>1. VP!Synchronize(w)
    BY <1>7 DEF Verifying!Synchronize, VP!Synchronize, Verifying!IncidentTransition,
                VP!IncidentTransition
  <2> QED
    BY <2>1 DEF VP!RunStep
<1>8. CASE Verifying!WriteIncident(w)
  <2>1. VP!WriteIncident(w)
    BY <1>8 DEF Verifying!WriteIncident, VP!WriteIncident, Verifying!IncidentTransition,
                VP!IncidentTransition, Verifying!WritesOnlyHealing, VP!WritesOnlyHealing
  <2> QED
    BY <2>1 DEF VP!RunStep
<1>9. CASE Verifying!CrashRun(w)
  BY <1>9 DEF Verifying!CrashRun, VP!CrashRun
<1> QED
  BY <1>1, <1>2, <1>3, <1>4, <1>5, <1>6, <1>7, <1>8, <1>9 DEF Verifying!RunStep

LEMMA BeginRunKept ==
    ASSUME VP!IInv, NEW w \in Workers, NEW a \in Approvals, NEW t \in Triggers,
           Verifying!BeginRun(w, a, t)
    PROVE  VP!IInv'
BY BeginRunMatches, VerificationKept DEF VP!Next

LEMMA RunStepKept ==
    ASSUME VP!IInv, NEW w \in Workers, Verifying!RunStep(w) \/ Verifying!CrashRun(w)
    PROVE  VP!IInv'
BY RunStepMatches, VerificationKept DEF VP!Next

\* What the run of one worker changes.
LEMMA RunStepFrame ==
    ASSUME Verifying!TypeOK, NEW w \in Workers, Verifying!RunStep(w) \/ Verifying!CrashRun(w)
    PROVE  /\ runs[w] # None
           /\ \A v \in Workers : runs'[v] # None =>
                runs[v] # None /\ runs'[v].execution = runs[v].execution
           /\ \A a \in Approvals : verifications'[a] # None =>
                verifications[a] # None \/ a = runs[w].execution
<1> USE DEF Verifying!At, Verifying!Goto, Verifying!Leave, Verifying!TypeOK
<1>1. CASE Verifying!Admit(w) \/ Verifying!Start(w) \/ Verifying!Synchronize(w)
           \/ Verifying!WriteIncident(w) \/ Verifying!CrashRun(w)
  BY <1>1 DEF Verifying!Admit, Verifying!Start, Verifying!Synchronize, Verifying!WriteIncident,
              Verifying!CrashRun, Verifying!Runs
<1>2. CASE Verifying!Claim(w)
  BY <1>2 DEF Verifying!Claim, Verifying!Runs
<1>3. CASE Verifying!Mark(w)
  BY <1>3 DEF Verifying!Mark, Verifying!Runs
<1>4. CASE Verifying!Collect(w)
  BY <1>4 DEF Verifying!Collect, Verifying!Runs
<1>5. CASE Verifying!Complete(w)
  BY <1>5 DEF Verifying!Complete, Verifying!Runs
<1> QED
  BY <1>1, <1>2, <1>3, <1>4, <1>5 DEF Verifying!RunStep

------------------------------------------------------------------------------
(* Steps of the requests. *)

LEMMA InitInvariant == Init => IInv
<1> SUFFICES ASSUME Init PROVE IInv
  OBVIOUS
<1>1. VP!IInv
  <2>1. /\ verifications = [x \in Approvals |-> None]
        /\ runs = [w \in Workers |-> None]
        /\ probed = [x \in Approvals |-> 0]
        /\ incident \in VP!IncidentStatuses /\ incident # "resolved"
    BY DEF Init, Verifying!VerificationInit, VP!IncidentStatuses
  <2>2. VP!TypeOK
    BY <2>1 DEF VP!TypeOK
  <2>3. VP!OneOwner /\ VP!RunsFit /\ VP!ResolvedHasEvidence
    BY <2>1 DEF VP!OneOwner, VP!Owns, VP!RunsFit, VP!ResolvedHasEvidence
  <2>4. VP!TableFits
    <3> SUFFICES ASSUME NEW x \in Approvals PROVE VP!FitsAt(x)
      BY DEF VP!TableFits
    <3>1. verifications[x] = None /\ probed[x] = 0
      BY <2>1
    <3> QED
      BY <3>1 DEF VP!FitsAt, VP!Terminal
  <2> QED
    BY <2>2, <2>3, <2>4 DEF VP!IInv
<1>2. Ledger!TypeOK
  BY DEF Init, Ledger!Init, Ledger!TypeOK, Ledger!Phases, Ledger!Unclaimed
<1>3. TypeOK
  BY <1>1, <1>2, VerificationTyped DEF Init, TypeOK
<1>4. LedgerFits
  <2> SUFFICES ASSUME NEW a \in Approvals PROVE PhaseFits(a) /\ WritesFit(a)
    BY DEF LedgerFits
  <2>1. phase[a] = Ledger!Unclaimed /\ writes[a] = [sent |-> 0, applied |-> 0]
    BY DEF Init, Ledger!Init
  <2> QED
    BY <2>1, WorkflowNone DEF Ledger!Unclaimed, PhaseFits, WritesFit, Deciders
<1>5. JobsFit /\ OneCreator /\ OneCeremony /\ VerifiesSuccess /\ IncidentHolds
  BY DEF Init, Ledger!Init, Ledger!Unclaimed, JobsFit, OneCreator, Creates, OneCeremony,
         VerifiesSuccess, Verifying!VerificationInit, IncidentHolds
<1> QED
  BY <1>1, <1>3, <1>4, <1>5 DEF IInv

LEMMA JobsMove ==
    ASSUME IInv, NEW w \in Workers, NEW j \in Jobs \cup {None},
           jobs' = [jobs EXCEPT ![w] = j],
           j # None => JobFits(j)',
           \A v \in Workers \ {w} : jobs[v] # None => JobFits(jobs[v])',
           j # None /\ j.stage \in Creating =>
             \A v \in Workers \ {w} : ~Creates(v, j.approval)
    PROVE  /\ jobs' \in [Workers -> Jobs \cup {None}]
           /\ JobsFit'
           /\ OneCreator'
<1>1. jobs \in [Workers -> Jobs \cup {None}]
  BY DEF IInv, TypeOK
<1>2. jobs'[w] = j /\ \A v \in Workers \ {w} : jobs'[v] = jobs[v]
  BY <1>1
<1>3. jobs' \in [Workers -> Jobs \cup {None}]
  BY <1>1
<1>4. JobsFit'
  <2> SUFFICES ASSUME NEW v \in Workers, jobs'[v] # None
               PROVE  JobFits(jobs[v])'
    BY DEF JobsFit
  <2>1. CASE v = w
    BY <2>1, <1>2 DEF JobFits, Reserved, Executed, HasBudget, RecordFits
  <2>2. CASE v # w
    BY <2>2, <1>2
  <2> QED
    BY <2>1, <2>2
<1>5. OneCreator'
  <2> SUFFICES ASSUME NEW u \in Workers, NEW v \in Workers, NEW a \in Approvals,
                      Creates(u, a)', Creates(v, a)'
               PROVE  u = v
    BY DEF OneCreator
  <2>1. CASE u # w /\ v # w
    <3>1. Creates(u, a) /\ Creates(v, a)
      BY <2>1, <1>2 DEF Creates
    <3> QED
      BY <3>1 DEF IInv, OneCreator
  <2>2. CASE u = w /\ v # w
    BY <2>2, <1>2 DEF Creates
  <2>3. CASE u # w /\ v = w
    BY <2>3, <1>2 DEF Creates
  <2> QED
    BY <2>1, <2>2, <2>3
<1> QED
  BY <1>3, <1>4, <1>5

\* A step that changes nothing but one request, the checklists and the switch.
LEMMA RequestMoves ==
    ASSUME IInv, NEW w \in Workers, NEW j \in Jobs \cup {None},
           jobs' = [jobs EXCEPT ![w] = j],
           UNCHANGED <<ledgerVars, verificationVars, ceremonies, budget, writes>>,
           checklists' \subseteq Production, killSwitch' \in BOOLEAN,
           j # None => JobFits(j),
           j # None /\ j.stage \in Creating =>
             \A v \in Workers \ {w} : ~Creates(v, j.approval),
           j # None /\ Healing(j) => incident = "healing" \/ ~PilotAlone
    PROVE  IInv'
<1> USE DEF ledgerVars, verificationVars
<1>1. \A i \in Jobs : JobFits(i)' <=> JobFits(i)
  BY DEF JobFits, Reserved, Executed, HasBudget, RecordFits
<1>2. jobs \in [Workers -> Jobs \cup {None}]
  BY DEF IInv, TypeOK
<1>3. \A v \in Workers \ {w} : jobs[v] # None => jobs'[v] = jobs[v] /\ JobFits(jobs[v])
  BY <1>2 DEF IInv, JobsFit
<1>4. \A v \in Workers \ {w} : jobs[v] # None => JobFits(jobs[v])'
  BY <1>2, <1>3 DEF JobFits, Reserved, Executed, HasBudget, RecordFits
<1>5. j # None => JobFits(j)'
  BY <1>1
<1>6. jobs' \in [Workers -> Jobs \cup {None}] /\ JobsFit' /\ OneCreator'
  BY <1>4, <1>5, JobsMove
<1>7. VP!IInv'
  BY VerificationUnchanged DEF IInv
<1>8. TypeOK'
  BY <1>6, <1>7, VerificationTyped DEF IInv, TypeOK, Ledger!TypeOK
<1>9. IncidentHolds'
  BY <1>2 DEF IInv, IncidentHolds, PilotAlone, Claimed, Healing
<1>10. OneCeremony' /\ LedgerFits' /\ VerifiesSuccess'
  BY DEF IInv, OneCeremony, LedgerFits, PhaseFits, WritesFit, HasBudget, Claimed,
         VerifiesSuccess
<1> QED
  BY <1>6, <1>7, <1>8, <1>9, <1>10 DEF IInv

LEMMA LeaveMoves ==
    ASSUME IInv, NEW w \in Workers, Leave(w),
           UNCHANGED <<ledgerVars, verificationVars, pilotVars>>
    PROVE  IInv'
BY RequestMoves DEF Leave, pilotVars, IInv, TypeOK

LEMMA GotoMoves ==
    ASSUME IInv, NEW w \in Workers, jobs[w] # None, NEW stage \in Stages, Goto(w, stage),
           UNCHANGED <<ledgerVars, verificationVars, pilotVars>>,
           JobFits([jobs[w] EXCEPT !.stage = stage]),
           stage \in Creating => jobs[w].stage \in Creating,
           Healing([jobs[w] EXCEPT !.stage = stage]) => incident = "healing" \/ ~PilotAlone
    PROVE  IInv'
<1> DEFINE j == [jobs[w] EXCEPT !.stage = stage]
<1>1. jobs[w] \in Jobs /\ jobs' = [jobs EXCEPT ![w] = j]
  BY DEF IInv, TypeOK, Goto
<1>2. j \in Jobs /\ j.approval = jobs[w].approval /\ j.approval \in Approvals /\ j.stage = stage
  BY <1>1 DEF Jobs
<1>3. j.stage \in Creating => \A v \in Workers \ {w} : ~Creates(v, j.approval)
  BY <1>2 DEF IInv, OneCreator, Creates
<1>4. checklists' \subseteq Production /\ killSwitch' \in BOOLEAN
      /\ UNCHANGED <<ceremonies, budget, writes>>
  BY DEF pilotVars, IInv, TypeOK
<1> HIDE DEF j
<1> QED
  BY <1>1, <1>2, <1>3, <1>4, RequestMoves DEF j

\* The creator of a claim is about to record an outcome.
LEMMA RecordMoves ==
    ASSUME IInv, NEW w \in Workers, jobs[w] # None, jobs[w].stage \in Creating \ {"persist"},
           NEW outcome \in Outcomes \cup {"indeterminate"},
           NEW goal \in {"healing", "failed", None},
           Record(w, outcome, goal),
           UNCHANGED <<ledgerVars, verificationVars, pilotVars>>,
           outcome # "failed" => goal = "healing",
           jobs[w].approval \in Production => outcome # "succeeded",
           jobs[w].approval \in Production /\ goal # None => jobs[w].stage \in {"preflight", "consume"}
    PROVE  IInv'
<1> DEFINE j == [jobs[w] EXCEPT !.stage = "persist", !.outcome = outcome, !.goal = goal]
<1>1. jobs[w] \in Jobs /\ jobs' = [jobs EXCEPT ![w] = j] /\ JobFits(jobs[w])
  BY DEF IInv, TypeOK, JobsFit, Record
<1>2. /\ j \in Jobs /\ j.approval = jobs[w].approval /\ j.approval \in Approvals
      /\ j.stage = "persist" /\ j.outcome = outcome /\ j.goal = goal
  BY <1>1 DEF Jobs, Stages
<1> HIDE DEF j
<1>3. \A v \in Workers \ {w} : ~Creates(v, j.approval)
  BY <1>2 DEF IInv, OneCreator, Creates, Creating
<1>4. checklists' \subseteq Production /\ killSwitch' \in BOOLEAN
      /\ UNCHANGED <<ceremonies, budget, writes>>
  BY DEF pilotVars, IInv, TypeOK
<1>5. writes[j.approval].applied = 0
  <2>1. WritesFit(j.approval) /\ writes[j.approval] \in [sent: Nat, applied: Nat]
    BY <1>2 DEF IInv, LedgerFits, TypeOK
  <2>2. writes[j.approval].sent = 0
    BY <1>1, <1>2 DEF JobFits
  <2> QED
    BY <2>1, <2>2 DEF WritesFit
<1>6. RecordFits(j)
  BY <1>2, <1>5, WorkflowNone DEF RecordFits
<1>7. JobFits(j)
  BY <1>1, <1>2, <1>6 DEF JobFits, Creating, Reserved, Executed
<1>8. Healing(j) => incident = "healing" \/ ~PilotAlone
  <2> SUFFICES ASSUME Healing(j), PilotAlone PROVE incident = "healing"
    OBVIOUS
  <2>1. goal # None /\ phase[j.approval].status = "running"
    BY <1>1, <1>2 DEF Healing, JobFits
  <2>2. j.approval \in Production
    BY <2>1, <1>2 DEF PilotAlone, Claimed
  <2> QED
    BY <2>1, <2>2, <1>2 DEF IInv, IncidentHolds, Healing
<1> QED
  BY <1>1, <1>2, <1>3, <1>4, <1>7, <1>8, RequestMoves

\* The request ends in the verification of a success.
LEMMA VerifyMoves ==
    ASSUME IInv, NEW w \in Workers, NEW a \in Approvals, NEW t \in Triggers,
           Verify(w, a, t), phase[a].status = "succeeded",
           UNCHANGED <<ledgerVars, pilotVars>>
    PROVE  IInv'
<1> USE DEF ledgerVars, pilotVars
<1>1. VP!IInv'
  BY BeginRunKept DEF IInv, Verify
<1>2. jobs' = [jobs EXCEPT ![w] = None] /\ UNCHANGED <<incident, verifications, probed>>
  BY DEF Verify, Leave, Verifying!BeginRun
<1>3. \A v \in Workers : runs'[v] = runs[v] \/ runs'[v].execution = a
  <2>1. PICK s \in {"admit", "claim"} : runs' = [runs EXCEPT ![w] =
           [execution |-> a, trigger |-> t, checks |-> None, stage |-> s]]
    BY DEF Verify, Verifying!BeginRun
  <2>2. runs \in [Workers -> Verifying!Runs \cup {None}]
    BY DEF IInv, TypeOK, Verifying!TypeOK
  <2> QED
    BY <2>1, <2>2
<1>4. \A v \in Workers \ {w} : jobs[v] # None => JobFits(jobs[v])'
  <2>1. \A v \in Workers \ {w} : jobs[v] # None => jobs'[v] = jobs[v] /\ JobFits(jobs[v])
    BY <1>2 DEF IInv, JobsFit, TypeOK
  <2> QED
    BY <2>1 DEF JobFits, Reserved, Executed, HasBudget, RecordFits
<1>5. jobs' \in [Workers -> Jobs \cup {None}] /\ JobsFit' /\ OneCreator'
  BY <1>2, <1>4, JobsMove
<1>6. TypeOK'
  BY <1>1, <1>5, VerificationTyped DEF IInv, TypeOK, Ledger!TypeOK
<1>7. IncidentHolds'
  BY <1>2 DEF IInv, TypeOK, IncidentHolds, PilotAlone, Claimed, Healing
<1>8. VerifiesSuccess'
  BY <1>2, <1>3 DEF IInv, VerifiesSuccess
<1>9. OneCeremony' /\ LedgerFits'
  BY DEF IInv, OneCeremony, LedgerFits, PhaseFits, WritesFit, HasBudget, Claimed
<1> QED
  BY <1>1, <1>5, <1>6, <1>7, <1>8, <1>9 DEF IInv

\* A request writes the incident: it fails it only for the approval with the budget,
\* or for one outside the pilot, whose execution is over.
LEMMA IncidentWrites ==
    ASSUME IInv, NEW w \in Workers, NEW j \in Jobs \cup {None},
           jobs' = [jobs EXCEPT ![w] = j],
           NEW a \in Approvals, NEW status \in {"healing", "failed"}, incident' = status,
           UNCHANGED <<ledgerVars, verifications, runs, probed, pilotVars>>,
           j # None => JobFits(j),
           j # None /\ j.stage \in Creating =>
             \A v \in Workers \ {w} : ~Creates(v, j.approval),
           j # None /\ Healing(j) => status = "healing",
           status = "failed" =>
             phase[a].status = "failed" /\ (a \in Production => HasBudget(a))
    PROVE  IInv'
<1> USE DEF ledgerVars, pilotVars
<1>1. VP!IInv'
  BY IncidentMovedKept DEF IInv
<1>2. \A v \in Workers \ {w} : jobs[v] # None => JobFits(jobs[v])'
  <2>1. \A v \in Workers \ {w} : jobs[v] # None => jobs'[v] = jobs[v] /\ JobFits(jobs[v])
    BY DEF IInv, JobsFit, TypeOK
  <2> QED
    BY <2>1 DEF JobFits, Reserved, Executed, HasBudget, RecordFits
<1>3. j # None => JobFits(j)'
  BY DEF JobFits, Reserved, Executed, HasBudget, RecordFits
<1>4. jobs' \in [Workers -> Jobs \cup {None}] /\ JobsFit' /\ OneCreator'
  BY <1>2, <1>3, JobsMove
<1>5. TypeOK'
  BY <1>1, <1>4, VerificationTyped DEF IInv, TypeOK, Ledger!TypeOK
<1>6. IncidentHolds'
  <2>1. CASE status = "healing"
    BY <2>1 DEF IncidentHolds
  <2>2. CASE status = "failed"
    <3> SUFFICES ASSUME PilotAlone
                 PROVE  /\ \A b \in Approvals : phase[b].status # "indeterminate"
                        /\ \A v \in Workers : jobs'[v] # None => ~Healing(jobs'[v])
      BY DEF IncidentHolds, PilotAlone, Claimed, Healing
    <3>1. a \in Production /\ HasBudget(a)
      BY <2>2 DEF PilotAlone, Claimed
    <3>2. \A b \in Approvals : phase[b].status # "indeterminate"
      <4> SUFFICES ASSUME NEW b \in Approvals, phase[b].status = "indeterminate" PROVE FALSE
        OBVIOUS
      <4>1. b \in Production /\ PhaseFits(b)
        BY DEF PilotAlone, Claimed, IInv, LedgerFits
      <4>2. b = a
        BY <3>1, <4>1 DEF PhaseFits, HasBudget
      <4> QED
        BY <4>2, <2>2
    <3>3. ASSUME NEW v \in Workers \ {w}, jobs[v] # None, Healing(jobs[v])
          PROVE  FALSE
      <4>1. JobFits(jobs[v]) /\ jobs[v].approval \in Approvals
        BY <3>3 DEF IInv, JobsFit, TypeOK, Jobs
      <4>2. phase[jobs[v].approval].status = "running" /\ Executed(jobs[v])
        BY <3>3, <4>1 DEF JobFits, Healing, Executed, Creating
      <4>3. jobs[v].approval \in Production
        BY <4>1, <4>2 DEF PilotAlone, Claimed
      <4>4. jobs[v].approval = a
        BY <3>1, <4>1, <4>2, <4>3 DEF JobFits, HasBudget
      <4> QED
        BY <4>2, <4>4, <2>2
    <3>4. jobs'[w] = j /\ \A v \in Workers \ {w} : jobs'[v] = jobs[v]
      BY DEF IInv, TypeOK
    <3> QED
      BY <2>2, <3>2, <3>3, <3>4
  <2> QED
    BY <2>1, <2>2
<1>7. OneCeremony' /\ LedgerFits' /\ VerifiesSuccess'
  BY DEF IInv, OneCeremony, LedgerFits, PhaseFits, WritesFit, HasBudget, Claimed,
         VerifiesSuccess
<1> QED
  BY <1>1, <1>4, <1>5, <1>6, <1>7 DEF IInv

\* An execution that is not over is claimed, settled, frozen or decided by a request.
LEMMA PhaseMoves ==
    ASSUME IInv, NEW w \in Workers, NEW j \in Jobs, NEW p \in Ledger!Phases,
           NEW a \in Approvals,
           jobs' = [jobs EXCEPT ![w] = j] \/ jobs' = [jobs EXCEPT ![w] = None],
           phase' = [phase EXCEPT ![a] = p],
           UNCHANGED <<verificationVars, pilotVars>>,
           phase[a].status \in {"unclaimed", "running", "indeterminate"},
           p.status # "unclaimed",
           \A v \in Workers \ {w} : ~Creates(v, a),
           j.approval = a,
           JobFits(j)',
           PhaseFits(a)',
           Healing(j) => jobs[w] # None /\ Healing(jobs[w]),
           p.status = "indeterminate" => incident = "healing" \/ ~PilotAlone \/ a \notin Production
    PROVE  IInv'
<1> USE DEF verificationVars, pilotVars
<1>1. VP!IInv'
  BY VerificationUnchanged DEF IInv
<1>2. phase \in [Approvals -> Ledger!Phases]
  BY DEF IInv, TypeOK, Ledger!TypeOK
<1>3. phase'[a] = p /\ \A b \in Approvals \ {a} : phase'[b] = phase[b]
  BY <1>2
<1>4. \A v \in Workers \ {w} : jobs[v] # None => JobFits(jobs[v])'
  <2> SUFFICES ASSUME NEW v \in Workers \ {w}, jobs[v] # None PROVE JobFits(jobs[v])'
    OBVIOUS
  <2>1. jobs'[v] = jobs[v] /\ JobFits(jobs[v]) /\ jobs[v].approval \in Approvals
    BY DEF IInv, JobsFit, TypeOK, Jobs
  <2>2. CASE jobs[v].approval # a
    BY <1>3, <2>1, <2>2 DEF JobFits, Reserved, Executed, HasBudget, RecordFits
  <2>3. CASE jobs[v].approval = a
    <3>1. jobs[v].stage \notin Creating
      BY <2>3 DEF Creates
    <3>2. jobs[v].stage \notin {"verify", "verify_reconciled", "reload", "overwrite"}
      BY <2>1, <2>3 DEF JobFits
    <3>3. jobs[v].stage = "update_incident" =>
            jobs[v].goal # None /\ jobs[v].outcome # "succeeded" /\ jobs[v].goal # "failed"
      BY <2>1, <2>3 DEF JobFits
    <3> QED
      BY <2>1, <2>3, <3>1, <3>2, <3>3
         DEF JobFits, Reserved, Executed, HasBudget, RecordFits, Creating
  <2> QED
    BY <2>2, <2>3
<1>5. jobs' \in [Workers -> Jobs \cup {None}] /\ JobsFit' /\ OneCreator'
  <2>1. CASE jobs' = [jobs EXCEPT ![w] = j]
    BY <2>1, <1>4, JobsMove
  <2>2. CASE jobs' = [jobs EXCEPT ![w] = None]
    BY <2>2, <1>4, JobsMove
  <2> QED
    BY <2>1, <2>2
<1>6. TypeOK'
  BY <1>1, <1>2, <1>5, VerificationTyped DEF IInv, TypeOK, Ledger!TypeOK
<1>7. PilotAlone' => PilotAlone /\ a \in Production
  BY <1>3, ProductionAssumption DEF PilotAlone, Claimed
<1>8. IncidentHolds'
  <2> SUFFICES ASSUME PilotAlone'
               PROVE  /\ \A b \in Approvals : phase'[b].status = "indeterminate" => incident = "healing"
                      /\ \A v \in Workers : jobs'[v] # None /\ Healing(jobs'[v]) => incident = "healing"
    BY DEF IncidentHolds, Healing
  <2>1. \A b \in Approvals : phase'[b].status = "indeterminate" => incident = "healing"
    BY <1>3, <1>7 DEF IInv, IncidentHolds
  <2>2. \A v \in Workers : jobs'[v] = jobs[v] \/ jobs'[v] = None \/ (v = w /\ jobs'[v] = j)
    BY DEF IInv, TypeOK
  <2> QED
    BY <1>7, <2>1, <2>2 DEF IInv, IncidentHolds
<1>9. LedgerFits'
  <2> SUFFICES ASSUME NEW b \in Approvals PROVE PhaseFits(b)' /\ WritesFit(b)'
    BY DEF LedgerFits
  <2>1. PhaseFits(b) /\ WritesFit(b)
    BY DEF IInv, LedgerFits
  <2>2. WritesFit(b)'
    BY <1>3, <2>1 DEF WritesFit, Claimed
  <2>3. PhaseFits(b)'
    BY <1>3, <2>1 DEF PhaseFits, HasBudget
  <2> QED
    BY <2>2, <2>3
<1>10. VerifiesSuccess'
  BY <1>3 DEF IInv, VerifiesSuccess, TypeOK, Verifying!TypeOK, Verifying!Runs
<1>11. OneCeremony'
  BY DEF IInv, OneCeremony
<1> QED
  BY <1>1, <1>5, <1>6, <1>8, <1>9, <1>10, <1>11 DEF IInv

------------------------------------------------------------------------------
(* The actions. *)

\* Every action of a request, and what is known of the request.
LEMMA AtStage ==
    ASSUME IInv, NEW w \in Workers, NEW stage, At(w, stage)
    PROVE  /\ jobs[w] \in Jobs /\ jobs[w] # None /\ jobs[w].stage = stage
           /\ jobs[w].approval \in Approvals
           /\ JobFits(jobs[w])
BY DEF At, IInv, TypeOK, JobsFit, Jobs

LEMMA ResumeInv ==
    ASSUME IInv, NEW w \in Workers, NEW a \in Approvals, Resume(w, a)
    PROVE  IInv'
<1> DEFINE j == [approval |-> a, stage |-> "lookup", outcome |-> None, goal |-> None]
<1>1. j \in Jobs /\ j.stage = "lookup" /\ jobs' = [jobs EXCEPT ![w] = j]
  BY DEF Jobs, Stages, Resume
<1> HIDE DEF j
<1>2. JobFits(j) /\ ~Healing(j) /\ j.stage \notin Creating
  BY <1>1 DEF JobFits, Creating, Reserved, Executed, Healing
<1> QED
  BY <1>1, <1>2, RequestMoves DEF Resume, pilotVars, IInv, TypeOK

LEMMA ReconcileInv ==
    ASSUME IInv, NEW w \in Workers, NEW a \in Approvals, NEW outcome \in Outcomes,
           Reconcile(w, a, outcome)
    PROVE  IInv'
<1> DEFINE j == [approval |-> a, stage |-> "reconcile", outcome |-> outcome, goal |-> None]
<1>1. /\ j \in Jobs /\ j.stage = "reconcile" /\ j.outcome = outcome
      /\ jobs' = [jobs EXCEPT ![w] = j]
  BY DEF Jobs, Stages, Reconcile
<1> HIDE DEF j
<1>2. JobFits(j) /\ ~Healing(j) /\ j.stage \notin Creating
  BY <1>1 DEF JobFits, Creating, Reserved, Executed, Healing
<1> QED
  BY <1>1, <1>2, RequestMoves DEF Reconcile, pilotVars, IInv, TypeOK

\* Neither the lookup before a claim nor the claim itself carries anything.
LEMMA CarriesNothing ==
    ASSUME NEW j \in Jobs, NEW stage \in {"claim", "reget"}
    PROVE  /\ JobFits([j EXCEPT !.stage = stage])
           /\ ~Healing([j EXCEPT !.stage = stage])
           /\ stage \in Stages /\ stage \notin Creating
BY DEF JobFits, Creating, Reserved, Executed, Healing, Stages, Jobs

LEMMA LookupInv ==
    ASSUME IInv, NEW w \in Workers, Lookup(w)
    PROVE  IInv'
<1>1. jobs[w] \in Jobs /\ jobs[w] # None
  BY AtStage DEF Lookup
<1>2. PICK stage \in {"claim", "reget"} : Goto(w, stage)
  BY DEF Lookup
<1> QED
  BY <1>1, <1>2, CarriesNothing, GotoMoves DEF Lookup

LEMMA RegetInv ==
    ASSUME IInv, NEW w \in Workers, Reget(w)
    PROVE  IInv'
<1>1. jobs[w] \in Jobs /\ jobs[w] # None
  BY AtStage DEF Reget
<1>2. CASE Goto(w, "claim")
  BY <1>1, <1>2, CarriesNothing, GotoMoves DEF Reget
<1>3. CASE Leave(w)
  BY <1>3, LeaveMoves DEF Reget
<1> QED
  BY <1>2, <1>3 DEF Reget

LEMMA ClaimInv ==
    ASSUME IInv, NEW w \in Workers, Claim(w)
    PROVE  IInv'
<1> DEFINE p == [status |-> "running", result |-> None]
<1>1. /\ jobs[w] \in Jobs /\ jobs[w] # None /\ jobs[w].approval \in Approvals
      /\ UNCHANGED pilotVars
  BY AtStage DEF Claim
<1>2. PICK a \in Approvals : a = jobs[w].approval
  BY <1>1
<1>3. CASE Ledger!Launch(a) /\ Goto(w, "guard") /\ UNCHANGED verificationVars
  <2>1. PICK j \in Jobs : /\ j.approval = a /\ j.stage = "guard"
                          /\ jobs' = [jobs EXCEPT ![w] = j]
    BY <1>1, <1>2, <1>3 DEF Jobs, Stages, Goto
  <2>2. phase[a].status = "unclaimed" /\ phase' = [phase EXCEPT ![a] = p]
    BY <1>3 DEF Ledger!Launch
  <2>3. p \in Ledger!Phases /\ phase'[a] = p
    BY <1>1, <2>2 DEF Ledger!Phases, IInv, TypeOK, Ledger!TypeOK
  <2>4. ASSUME NEW v \in Workers, Creates(v, a)
        PROVE  FALSE
    <3>1. JobFits(jobs[v]) /\ jobs[v].approval = a /\ jobs[v].stage \in Creating
      BY <2>4 DEF Creates, IInv, JobsFit
    <3> QED
      BY <3>1, <2>2 DEF JobFits
  <2>5. writes'[a].sent = 0 /\ PhaseFits(a)'
    <3>1. WritesFit(a) /\ writes[a] \in [sent: Nat, applied: Nat] /\ UNCHANGED writes
      BY <1>1 DEF IInv, LedgerFits, TypeOK, pilotVars
    <3> QED
      BY <3>1, <2>2, <2>3, WorkflowNone DEF WritesFit, Claimed, PhaseFits, Deciders
  <2>6. JobFits(j)' /\ ~Healing(j)
    BY <2>1, <2>3, <2>5 DEF JobFits, Creating, Reserved, Executed, Healing
  <2>7. p.status = "running"
    OBVIOUS
  <2> HIDE DEF p
  <2> QED
    BY <1>1, <1>3, <2>1, <2>2, <2>3, <2>4, <2>5, <2>6, <2>7, PhaseMoves
<1>4. CASE Verifiable(a) /\ Verify(w, a, "post_action_execution") /\ UNCHANGED ledgerVars
  BY <1>1, <1>4, VerifyMoves DEF Verifiable, Triggers
<1>5. CASE Leave(w) /\ UNCHANGED <<ledgerVars, verificationVars>>
  BY <1>1, <1>5, LeaveMoves DEF ledgerVars, verificationVars, pilotVars
<1> QED
  BY <1>2, <1>3, <1>4, <1>5 DEF Claim

LEMMA GuardInv ==
    ASSUME IInv, NEW w \in Workers, Guard(w)
    PROVE  IInv'
<1> DEFINE a == jobs[w].approval
<1>1. /\ jobs[w] \in Jobs /\ jobs[w] # None /\ a \in Approvals /\ JobFits(jobs[w])
      /\ jobs[w].stage = "guard"
      /\ UNCHANGED <<ledgerVars, verificationVars, pilotVars>>
  BY AtStage DEF Guard
<1>2. CASE Goto(w, AfterGuard(a))
  <2>1. PICK stage \in Stages : stage = AfterGuard(a)
    BY DEF AfterGuard, Stages
  <2>2. /\ JobFits([jobs[w] EXCEPT !.stage = stage])
        /\ ~Healing([jobs[w] EXCEPT !.stage = stage])
    BY <1>1, <2>1 DEF AfterGuard, JobFits, Creating, Reserved, Executed, Healing, Jobs
  <2> QED
    BY <1>1, <1>2, <2>1, <2>2, GotoMoves DEF Creating
<1>3. CASE Block(w)
  BY <1>1, <1>3, RecordMoves DEF Block, Creating, Outcomes
<1> QED
  BY <1>2, <1>3 DEF Guard

LEMMA ActivateInv ==
    ASSUME IInv, NEW w \in Workers, Activate(w)
    PROVE  IInv'
<1>1. /\ jobs[w] \in Jobs /\ jobs[w] # None /\ JobFits(jobs[w])
      /\ jobs[w].stage = "activate"
      /\ UNCHANGED <<ledgerVars, verificationVars, pilotVars>>
  BY AtStage DEF Activate
<1>2. CASE Goto(w, "bind")
  <2>1. /\ JobFits([jobs[w] EXCEPT !.stage = "bind"])
        /\ ~Healing([jobs[w] EXCEPT !.stage = "bind"])
    BY <1>1 DEF JobFits, Creating, Reserved, Executed, Healing, Jobs
  <2> QED
    BY <1>1, <1>2, <2>1, GotoMoves DEF Creating, Stages
<1>3. CASE Block(w)
  BY <1>1, <1>3, RecordMoves DEF Block, Creating, Outcomes
<1> QED
  BY <1>2, <1>3 DEF Activate

\* A step that writes a ceremony or the budget for the creator of a claim, which goes
\* on with j: nothing that is activated or consumed changes, and no budget is replaced.
LEMMA ControlMoves ==
    ASSUME IInv, NEW w \in Workers, NEW j \in Jobs, jobs[w] # None,
           jobs' = [jobs EXCEPT ![w] = j],
           j.approval = jobs[w].approval, jobs[w].stage \in Creating,
           UNCHANGED <<ledgerVars, verificationVars, checklists, killSwitch, writes>>,
           ceremonies' \in [Approvals -> {"none", "ready", "activated"}],
           budget' \in Budgets \cup {None},
           \A a \in Approvals :
             /\ ceremonies[a] = "activated" => ceremonies'[a] = "activated"
             /\ ceremonies'[a] # "none" => ceremonies[a] # "none",
           budget = None \/ (budget' # None /\ budget'.approval = budget.approval),
           budget # None /\ budget.status = "consumed" => budget' = budget,
           JobFits(j)',
           Healing(j) => incident = "healing" \/ ~PilotAlone
    PROVE  IInv'
<1> USE DEF ledgerVars, verificationVars
<1>1. VP!IInv'
  BY VerificationUnchanged DEF IInv
<1>2. jobs[w] \in Jobs /\ jobs[w].approval \in Approvals
  BY DEF IInv, TypeOK, Jobs
<1>4. \A v \in Workers \ {w} : jobs[v] # None => JobFits(jobs[v])'
  <2> SUFFICES ASSUME NEW v \in Workers \ {w}, jobs[v] # None PROVE JobFits(jobs[v])'
    OBVIOUS
  <2>1. jobs'[v] = jobs[v] /\ JobFits(jobs[v]) /\ jobs[v].approval \in Approvals
    BY DEF IInv, JobsFit, TypeOK, Jobs
  <2>2. HasBudget(jobs[v].approval) => HasBudget(jobs[v].approval)'
    BY <2>1 DEF HasBudget
  <2>3. jobs[v].stage = "patch" => budget'.status = "consumed"
    BY <2>1 DEF JobFits, Reserved, HasBudget
  <2> QED
    BY <2>1, <2>2, <2>3 DEF JobFits, Reserved, Executed, RecordFits
<1>5. \A v \in Workers \ {w} : ~Creates(v, j.approval)
  BY <1>2 DEF IInv, OneCreator, Creates
<1>6. jobs' \in [Workers -> Jobs \cup {None}] /\ JobsFit' /\ OneCreator'
  BY <1>4, <1>5, JobsMove
<1>7. TypeOK'
  BY <1>1, <1>6, VerificationTyped DEF IInv, TypeOK, Ledger!TypeOK
<1>8. LedgerFits'
  <2> SUFFICES ASSUME NEW a \in Approvals PROVE PhaseFits(a)' /\ WritesFit(a)'
    BY DEF LedgerFits
  <2>1. PhaseFits(a) /\ WritesFit(a)
    BY DEF IInv, LedgerFits
  <2>2. HasBudget(a) => HasBudget(a)'
    BY DEF HasBudget
  <2>3. budget = [approval |-> a, status |-> "consumed"] => budget' = budget
    BY WorkflowNone DEF Budgets
  <2> QED
    BY <2>1, <2>2, <2>3 DEF PhaseFits, WritesFit, Claimed
<1>9. IncidentHolds'
  <2>1. \A v \in Workers : jobs'[v] = jobs[v] \/ jobs'[v] = j
    BY DEF IInv, TypeOK
  <2> QED
    BY <2>1 DEF IInv, IncidentHolds, PilotAlone, Claimed, Healing
<1>10. OneCeremony' /\ VerifiesSuccess'
  BY DEF IInv, OneCeremony, VerifiesSuccess
<1> QED
  BY <1>1, <1>6, <1>7, <1>8, <1>9, <1>10 DEF IInv

LEMMA BindInv ==
    ASSUME IInv, NEW w \in Workers, Bind(w)
    PROVE  IInv'
<1>1. /\ jobs[w] \in Jobs /\ jobs[w] # None /\ JobFits(jobs[w]) /\ jobs[w].stage = "bind"
      /\ UNCHANGED <<ledgerVars, verificationVars, checklists, budget, killSwitch, writes>>
  BY AtStage DEF Bind
<1>2. PICK a \in Approvals : a = jobs[w].approval
  BY <1>1 DEF Jobs
<1>3. CASE /\ ceremonies[a] = "ready"
           /\ ceremonies' = [ceremonies EXCEPT ![a] = "activated"]
           /\ Goto(w, "reserve")
  <2>1. PICK j \in Jobs : j = [jobs[w] EXCEPT !.stage = "reserve"]
    BY <1>1 DEF Jobs, Stages
  <2>2. /\ jobs' = [jobs EXCEPT ![w] = j] /\ j.approval = a /\ j.stage = "reserve"
        /\ ~Healing(j)
    BY <1>1, <1>2, <1>3, <2>1 DEF Goto, Jobs, Healing
  <2>3. ceremonies' \in [Approvals -> {"none", "ready", "activated"}]
        /\ ceremonies'[a] = "activated"
        /\ \A b \in Approvals \ {a} : ceremonies'[b] = ceremonies[b]
    BY <1>3 DEF IInv, TypeOK
  <2>4. JobFits(j)'
    BY <1>1, <1>2, <2>2, <2>3
       DEF JobFits, Creating, Reserved, Executed, ledgerVars
  <2>5. budget' \in Budgets \cup {None} /\ budget' = budget
    BY <1>1 DEF IInv, TypeOK
  <2> QED
    BY <1>1, <1>2, <1>3, <2>2, <2>3, <2>4, <2>5, ControlMoves DEF Creating
<1>4. CASE Block(w) /\ UNCHANGED ceremonies
  BY <1>1, <1>4, RecordMoves DEF Block, Creating, Outcomes, pilotVars
<1> QED
  BY <1>2, <1>3, <1>4 DEF Bind

LEMMA ReserveInv ==
    ASSUME IInv, NEW w \in Workers, Reserve(w)
    PROVE  IInv'
<1>1. /\ jobs[w] \in Jobs /\ jobs[w] # None /\ JobFits(jobs[w]) /\ jobs[w].stage = "reserve"
      /\ UNCHANGED <<ledgerVars, verificationVars, ceremonies, checklists, killSwitch, writes>>
  BY AtStage DEF Reserve
<1>2. PICK a \in Approvals : a = jobs[w].approval
  BY <1>1 DEF Jobs
<1>3. CASE /\ budget = None
           /\ budget' = [approval |-> a, status |-> "reserved"]
           /\ Goto(w, "heal")
  <2>1. PICK j \in Jobs : j = [jobs[w] EXCEPT !.stage = "heal"]
    BY <1>1 DEF Jobs, Stages
  <2>2. /\ jobs' = [jobs EXCEPT ![w] = j] /\ j.approval = a /\ j.stage = "heal"
        /\ ~Healing(j)
    BY <1>1, <1>2, <1>3, <2>1 DEF Goto, Jobs, Healing
  <2>3. budget' \in Budgets /\ budget' # None /\ HasBudget(a)'
    BY <1>3, WorkflowNone DEF Budgets, HasBudget
  <2>4. JobFits(j)'
    BY <1>1, <1>2, <2>2, <2>3
       DEF JobFits, Creating, Reserved, Executed, ledgerVars
  <2>5. ceremonies' \in [Approvals -> {"none", "ready", "activated"}] /\ ceremonies' = ceremonies
    BY <1>1 DEF IInv, TypeOK
  <2> QED
    BY <1>1, <1>2, <1>3, <2>2, <2>3, <2>4, <2>5, ControlMoves DEF Creating
<1>4. CASE Block(w) /\ UNCHANGED budget
  BY <1>1, <1>4, RecordMoves DEF Block, Creating, Outcomes, pilotVars
<1> QED
  BY <1>2, <1>3, <1>4 DEF Reserve

LEMMA HealInv ==
    ASSUME IInv, NEW w \in Workers, Heal(w)
    PROVE  IInv'
<1>1. /\ jobs[w] \in Jobs /\ jobs[w] # None /\ JobFits(jobs[w]) /\ jobs[w].stage = "heal"
      /\ jobs[w].approval \in Approvals
      /\ UNCHANGED <<ledgerVars, verifications, runs, probed, pilotVars>>
  BY AtStage DEF Heal
<1>2. CASE /\ incident' = "healing"
           /\ Goto(w, IF jobs[w].approval \in Production THEN "preflight" ELSE "plain")
  <2>1. PICK stage \in {"preflight", "plain"} :
          /\ stage = "preflight" <=> jobs[w].approval \in Production
          /\ Goto(w, stage)
    BY <1>2
  <2>2. PICK j \in Jobs : j = [jobs[w] EXCEPT !.stage = stage]
    BY <1>1 DEF Jobs, Stages
  <2>3. /\ jobs' = [jobs EXCEPT ![w] = j] /\ j.approval = jobs[w].approval /\ j.stage = stage
    BY <1>1, <2>1, <2>2 DEF Goto, Jobs
  <2>4. JobFits(j)
    BY <1>1, <2>1, <2>3 DEF JobFits, Creating, Reserved, Executed
  <2>5. \A v \in Workers \ {w} : ~Creates(v, j.approval)
    BY <1>1, <2>3 DEF IInv, OneCreator, Creates, Creating
  <2> QED
    BY <1>1, <1>2, <2>3, <2>4, <2>5, IncidentWrites
<1>3. CASE Block(w) /\ UNCHANGED incident
  BY <1>1, <1>3, RecordMoves DEF Block, Creating, Outcomes, verificationVars
<1> QED
  BY <1>2, <1>3 DEF Heal

LEMMA PlainInv ==
    ASSUME IInv, NEW w \in Workers, Plain(w)
    PROVE  IInv'
<1>1. /\ jobs[w] # None /\ jobs[w].stage = "plain" /\ jobs[w].approval \notin Production
      /\ UNCHANGED <<ledgerVars, verificationVars, pilotVars>>
  BY AtStage DEF Plain, JobFits
<1>2. PICK outcome \in Outcomes \cup {"indeterminate"}, goal \in {"healing", "failed"} :
        Record(w, outcome, goal) /\ (outcome # "failed" => goal = "healing")
  BY DEF Plain, Outcomes
<1> QED
  BY <1>1, <1>2, RecordMoves DEF Creating

LEMMA PreflightInv ==
    ASSUME IInv, NEW w \in Workers, Preflight(w)
    PROVE  IInv'
<1>1. /\ jobs[w] \in Jobs /\ jobs[w] # None /\ JobFits(jobs[w]) /\ jobs[w].stage = "preflight"
      /\ UNCHANGED <<ledgerVars, verificationVars, pilotVars>>
  BY AtStage DEF Preflight
<1>2. CASE Goto(w, "consume")
  <2>1. JobFits([jobs[w] EXCEPT !.stage = "consume"])
    BY <1>1 DEF JobFits, Creating, Reserved, Executed, Jobs
  <2>2. incident = "healing" \/ ~PilotAlone
    BY <1>1 DEF IInv, IncidentHolds, Healing
  <2> QED
    BY <1>1, <1>2, <2>1, <2>2, GotoMoves DEF Creating, Stages
<1>3. CASE Record(w, "failed", "failed")
  BY <1>1, <1>3, RecordMoves DEF Creating, Outcomes
<1> QED
  BY <1>2, <1>3 DEF Preflight

LEMMA ConsumeInv ==
    ASSUME IInv, NEW w \in Workers, Consume(w)
    PROVE  IInv'
<1>1. /\ jobs[w] \in Jobs /\ jobs[w] # None /\ JobFits(jobs[w]) /\ jobs[w].stage = "consume"
      /\ UNCHANGED <<ledgerVars, verificationVars, ceremonies, checklists, killSwitch, writes>>
  BY AtStage DEF Consume
<1>2. PICK a \in Approvals : a = jobs[w].approval
  BY <1>1 DEF Jobs
<1>3. CASE /\ budget # None /\ budget.approval = a
           /\ budget' = [budget EXCEPT !.status = "consumed"]
           /\ Goto(w, "patch")
  <2>1. PICK j \in Jobs : j = [jobs[w] EXCEPT !.stage = "patch"]
    BY <1>1 DEF Jobs, Stages
  <2>2. /\ jobs' = [jobs EXCEPT ![w] = j] /\ j.approval = a /\ j.stage = "patch"
    BY <1>1, <1>2, <1>3, <2>1 DEF Goto, Jobs
  <2>3. /\ budget \in Budgets /\ budget' \in Budgets /\ budget' # None
        /\ budget'.approval = a /\ budget'.status = "consumed" /\ HasBudget(a)'
        /\ budget.status = "consumed" => budget' = budget
    BY <1>3, WorkflowNone DEF Budgets, HasBudget, IInv, TypeOK
  <2>4. JobFits(j)'
    BY <1>1, <1>2, <2>2, <2>3
       DEF JobFits, Creating, Reserved, Executed, ledgerVars
  <2>5. ceremonies' \in [Approvals -> {"none", "ready", "activated"}] /\ ceremonies' = ceremonies
    BY <1>1 DEF IInv, TypeOK
  <2>6. incident = "healing" \/ ~PilotAlone
    BY <1>1 DEF IInv, IncidentHolds, Healing
  <2> QED
    BY <1>1, <1>2, <1>3, <2>2, <2>3, <2>4, <2>5, <2>6, ControlMoves DEF Creating
<1>4. CASE Record(w, "failed", "failed") /\ UNCHANGED budget
  BY <1>1, <1>4, RecordMoves DEF Creating, Outcomes, pilotVars
<1>5. CASE Record(w, "indeterminate", "healing") /\ UNCHANGED budget
  BY <1>1, <1>5, RecordMoves DEF Creating, Outcomes, pilotVars
<1> QED
  BY <1>2, <1>3, <1>4, <1>5 DEF Consume

LEMMA PatchInv ==
    ASSUME IInv, NEW w \in Workers, Patch(w)
    PROVE  IInv'
<1> USE DEF ledgerVars, verificationVars
<1>1. /\ jobs[w] \in Jobs /\ jobs[w] # None /\ JobFits(jobs[w]) /\ jobs[w].stage = "patch"
      /\ UNCHANGED <<ledgerVars, verificationVars, ceremonies, checklists, budget, killSwitch>>
  BY AtStage DEF Patch
<1>2. PICK a \in Approvals : a = jobs[w].approval
  BY <1>1 DEF Jobs
<1>3. PICK n \in {0, 1}, outcome \in Outcomes \cup {"indeterminate"} :
        /\ outcome = "succeeded" => n = 1
        /\ outcome = "failed" => n = 0
        /\ writes' = [writes EXCEPT ![a].sent = @ + 1, ![a].applied = @ + n]
        /\ AfterPatch(w, outcome)
  <2>1. PICK applied \in BOOLEAN : \E outcome \in Answers(applied) :
          /\ writes' = [writes EXCEPT
               ![a].sent = @ + 1, ![a].applied = @ + (IF applied THEN 1 ELSE 0)]
          /\ AfterPatch(w, outcome)
    BY <1>2 DEF Patch
  <2>2. CASE applied
    BY <2>1, <2>2 DEF Answers, Outcomes
  <2>3. CASE ~applied
    BY <2>1, <2>3 DEF Answers, Outcomes
  <2> QED
    BY <2>2, <2>3
<1>4. /\ a \in Production /\ phase[a].status = "running" /\ ceremonies[a] = "activated"
      /\ HasBudget(a) /\ budget.status = "consumed" /\ writes[a].sent = 0
  BY <1>1, <1>2 DEF JobFits, Creating, Reserved
<1>5. /\ writes[a] \in [sent: Nat, applied: Nat] /\ WritesFit(a) /\ PhaseFits(a)
      /\ budget \in Budgets
  BY <1>4 DEF IInv, TypeOK, LedgerFits, HasBudget
<1>6. /\ writes'[a].sent = 1 /\ writes'[a].applied = n
      /\ \A b \in Approvals \ {a} : writes'[b] = writes[b]
      /\ writes' \in [Approvals -> [sent: Nat, applied: Nat]]
  <2>1. writes \in [Approvals -> [sent: Nat, applied: Nat]]
    BY DEF IInv, TypeOK
  <2>2. writes[a].applied = 0
    BY <1>4, <1>5 DEF WritesFit
  <2>3. PICK r \in [sent: Nat, applied: Nat] :
          r = [writes[a] EXCEPT !.sent = @ + 1, !.applied = @ + n]
    <3>1. writes[a].sent + 1 \in Nat /\ writes[a].applied + n \in Nat
      BY <1>5
    <3> QED
      BY <1>5, <3>1
  <2>4. r.sent = 1 /\ r.applied = n
    <3>1. r.sent = writes[a].sent + 1 /\ r.applied = writes[a].applied + n
      BY <1>5, <2>3
    <3> QED
      BY <1>3, <1>4, <2>2, <3>1
  <2>5. writes' = [writes EXCEPT ![a] = r]
    BY <1>3, <2>3
  <2> QED
    BY <2>1, <2>4, <2>5
<1>7. PICK j \in Jobs :
        /\ j.approval = a /\ j.stage = "persist" /\ j.outcome = outcome
        /\ j.goal = (IF outcome = "failed" THEN "failed" ELSE "healing")
        /\ jobs' = [jobs EXCEPT ![w] = j]
  <2>1. PICK goal \in {"healing", "failed"} :
          goal = (IF outcome = "failed" THEN "failed" ELSE "healing") /\ Record(w, outcome, goal)
    BY <1>3 DEF AfterPatch
  <2>2. PICK j \in Jobs :
          j = [jobs[w] EXCEPT !.stage = "persist", !.outcome = outcome, !.goal = goal]
    BY <1>1 DEF Jobs, Stages
  <2>3. j.approval = a /\ j.stage = "persist" /\ j.outcome = outcome /\ j.goal = goal
    BY <1>1, <1>2, <2>2 DEF Jobs
  <2>4. jobs' = [jobs EXCEPT ![w] = j]
    BY <2>1, <2>2 DEF Record
  <2> QED
    BY <2>1, <2>3, <2>4
<1>8. RecordFits(j)'
  BY <1>3, <1>6, <1>7, WorkflowNone DEF RecordFits, Outcomes
<1>9. JobFits(j)'
  BY <1>1, <1>4, <1>7, <1>8 DEF JobFits, Creating, Reserved, Executed, HasBudget
<1>10. \A v \in Workers \ {w} : ~Creates(v, a)
  BY <1>1, <1>2 DEF IInv, OneCreator, Creates, Creating
<1>11. \A v \in Workers \ {w} : jobs[v] # None => JobFits(jobs[v])'
  <2> SUFFICES ASSUME NEW v \in Workers \ {w}, jobs[v] # None PROVE JobFits(jobs[v])'
    OBVIOUS
  <2>1. jobs'[v] = jobs[v] /\ JobFits(jobs[v]) /\ jobs[v].approval \in Approvals
    BY <1>7 DEF IInv, JobsFit, TypeOK, Jobs
  <2>2. jobs[v].approval = a => jobs[v].stage \notin Creating
    BY <1>10 DEF Creates
  <2> QED
    BY <1>1, <1>6, <2>1, <2>2
       DEF JobFits, Reserved, Executed, HasBudget, RecordFits, Creating
<1>12. jobs' \in [Workers -> Jobs \cup {None}] /\ JobsFit' /\ OneCreator'
  BY <1>7, <1>9, <1>10, <1>11, JobsMove
<1>13. VP!IInv'
  BY <1>1, VerificationUnchanged DEF IInv
<1>14. TypeOK'
  BY <1>1, <1>6, <1>12, <1>13, VerificationTyped DEF IInv, TypeOK, Ledger!TypeOK
<1>15. LedgerFits'
  <2> SUFFICES ASSUME NEW b \in Approvals PROVE PhaseFits(b)' /\ WritesFit(b)'
    BY DEF LedgerFits
  <2>1. PhaseFits(b) /\ WritesFit(b)
    BY DEF IInv, LedgerFits
  <2>2. CASE b = a
    <3>1. phase[a].result # "executor" /\ Claimed(a)
      BY <1>4, <1>5, WorkflowNone DEF PhaseFits, Claimed, Deciders
    <3>2. budget = [approval |-> a, status |-> "consumed"]
      BY <1>4, <1>5 DEF HasBudget, Budgets
    <3> QED
      BY <1>1, <1>4, <1>5, <1>6, <2>2, <3>1, <3>2 DEF PhaseFits, WritesFit, Claimed, HasBudget
  <2>3. CASE b # a
    BY <1>1, <1>6, <2>1, <2>3 DEF PhaseFits, WritesFit, Claimed, HasBudget
  <2> QED
    BY <2>2, <2>3
<1>16. IncidentHolds'
  <2>1. \A v \in Workers : jobs'[v] = jobs[v] \/ (v = w /\ jobs'[v] = j)
    BY <1>7 DEF IInv, TypeOK
  <2>2. PilotAlone => incident = "healing"
    BY <1>1 DEF IInv, IncidentHolds, Healing
  <2> QED
    BY <1>1, <2>1, <2>2 DEF IInv, IncidentHolds, PilotAlone, Claimed
<1>17. OneCeremony' /\ VerifiesSuccess'
  BY <1>1 DEF IInv, OneCeremony, VerifiesSuccess
<1> QED
  BY <1>12, <1>13, <1>14, <1>15, <1>16, <1>17 DEF IInv

LEMMA PersistInv ==
    ASSUME IInv, NEW w \in Workers, Persist(w)
    PROVE  IInv'
<1> DEFINE outcome == jobs[w].outcome
           goal == jobs[w].goal
<1>1. /\ jobs[w] \in Jobs /\ jobs[w] # None /\ JobFits(jobs[w]) /\ jobs[w].stage = "persist"
      /\ UNCHANGED <<verificationVars, pilotVars>>
  BY AtStage DEF Persist
<1>2. PICK a \in Approvals : a = jobs[w].approval
  BY <1>1 DEF Jobs
<1>3. /\ outcome \in Outcomes \cup {"indeterminate"} /\ goal \in {"healing", "failed", None}
      /\ outcome # "failed" => goal = "healing"
      /\ phase[a].status = "running"
      /\ RecordFits(jobs[w])
  BY <1>1, <1>2 DEF JobFits, RecordFits, Jobs, Creating
<1>4. a \in Production /\ goal # None => HasBudget(a)
  BY <1>1, <1>2 DEF JobFits, Executed
<1>5. goal # None => incident = "healing" \/ ~PilotAlone
  BY <1>1 DEF IInv, IncidentHolds, Healing
<1>6. \A v \in Workers \ {w} : ~Creates(v, a)
  BY <1>1, <1>2 DEF IInv, OneCreator, Creates, Creating
<1>7. CASE /\ IF outcome = "indeterminate" THEN Ledger!Freeze(a)
              ELSE Ledger!Settle(a, outcome, "executor")
           /\ IF goal = None THEN Leave(w) ELSE Goto(w, "update_incident")
  <2>1. PICK p \in Ledger!Phases :
          /\ phase' = [phase EXCEPT ![a] = p]
          /\ p.status = outcome
          /\ p.result = (IF outcome = "indeterminate" THEN None ELSE "executor")
    <3>1. CASE outcome = "indeterminate"
      <4>1. PICK p \in Ledger!Phases : p = [status |-> "indeterminate", result |-> None]
        BY DEF Ledger!Phases
      <4> QED
        BY <1>7, <3>1, <4>1 DEF Ledger!Freeze
    <3>2. CASE outcome \in Outcomes
      <4>1. PICK p \in Ledger!Phases : p = [status |-> outcome, result |-> "executor"]
        BY <3>2 DEF Ledger!Phases, Outcomes, Ledger!Outcomes, Deciders
      <4> QED
        BY <1>7, <3>2, <4>1 DEF Ledger!Settle, Outcomes
    <3> QED
      BY <1>3, <3>1, <3>2
  <2>2. phase'[a] = p
    BY <2>1 DEF IInv, TypeOK, Ledger!TypeOK
  <2>3. PhaseFits(a)'
    BY <1>1, <1>2, <1>3, <1>4, <2>1, <2>2, WorkflowNone
       DEF PhaseFits, RecordFits, HasBudget, Outcomes, Deciders, pilotVars
  <2>4. PICK j \in Jobs :
          /\ j.approval = a /\ ~Healing(j)
          /\ jobs' = [jobs EXCEPT ![w] = j] \/ jobs' = [jobs EXCEPT ![w] = None]
          /\ JobFits(j)'
    <3>1. CASE goal = None
      <4>1. PICK j \in Jobs :
              j = [approval |-> a, stage |-> "lookup", outcome |-> None, goal |-> None]
        BY DEF Jobs, Stages
      <4>2. j.approval = a /\ j.stage = "lookup"
        BY <4>1
      <4>3. JobFits(j)' /\ ~Healing(j)
        BY <4>2 DEF JobFits, Creating, Reserved, Executed, Healing
      <4> QED
        BY <1>7, <3>1, <4>2, <4>3 DEF Leave
    <3>2. CASE goal # None
      <4>1. PICK j \in Jobs : j = [jobs[w] EXCEPT !.stage = "update_incident"]
        BY <1>1 DEF Jobs, Stages
      <4>2. /\ j.approval = a /\ j.stage = "update_incident" /\ j.outcome = outcome
            /\ j.goal = goal /\ jobs' = [jobs EXCEPT ![w] = j]
        BY <1>1, <1>2, <1>7, <3>2, <4>1 DEF Goto, Jobs
      <4>3. HasBudget(a)' <=> HasBudget(a)
        BY <1>1 DEF HasBudget, pilotVars
      <4>4. JobFits(j)' /\ ~Healing(j)
        BY <1>3, <1>4, <2>1, <2>2, <3>2, <4>2, <4>3
           DEF JobFits, Creating, Reserved, Executed, Healing
      <4> QED
        BY <4>2, <4>4
    <3> QED
      BY <3>1, <3>2
  <2>5. p.status # "unclaimed"
        /\ (p.status = "indeterminate" => incident = "healing" \/ ~PilotAlone)
    BY <1>3, <1>5, <2>1, WorkflowNone DEF Outcomes
  <2> QED
    BY <1>1, <1>3, <1>6, <2>1, <2>3, <2>4, <2>5, PhaseMoves
<1>8. CASE /\ ReturnedByExecutor(w)
           /\ jobs' = [jobs EXCEPT ![w].stage = "update_incident", ![w].outcome = None,
                                   ![w].goal = "healing"]
           /\ UNCHANGED ledgerVars
  <2>1. PICK j \in Jobs :
          j = [jobs[w] EXCEPT !.stage = "update_incident", !.outcome = None, !.goal = "healing"]
    BY <1>1 DEF Jobs, Stages
  <2>2. /\ j.approval = a /\ j.stage = "update_incident" /\ j.outcome = None
        /\ j.goal = "healing" /\ jobs' = [jobs EXCEPT ![w] = j]
    BY <1>1, <1>2, <1>8, <2>1 DEF Jobs
  <2>3. a \in Production => HasBudget(a)
    BY <1>2, <1>3, <1>4, <1>8, WorkflowNone DEF ReturnedByExecutor
  <2>4. JobFits(j) /\ ~Healing(j) /\ j.stage \notin Creating
    BY <2>2, <2>3, WorkflowNone DEF JobFits, Creating, Reserved, Executed, Healing, Outcomes
  <2> QED
    BY <1>1, <1>8, <2>2, <2>4, RequestMoves DEF pilotVars, IInv, TypeOK
<1> QED
  BY <1>1, <1>2, <1>7, <1>8 DEF Persist

LEMMA UpdateIncidentInv ==
    ASSUME IInv, NEW w \in Workers, UpdateIncident(w)
    PROVE  IInv'
<1>1. /\ jobs[w] \in Jobs /\ jobs[w] # None /\ JobFits(jobs[w])
      /\ jobs[w].stage = "update_incident"
      /\ UNCHANGED <<ledgerVars, verifications, runs, probed, pilotVars>>
  BY AtStage DEF UpdateIncident
<1>2. PICK a \in Approvals : a = jobs[w].approval
  BY <1>1 DEF Jobs
<1>3. PICK status \in {"healing", "failed"} : incident' = status /\ status = jobs[w].goal
  BY <1>1 DEF UpdateIncident, JobFits, Jobs
<1>4. status = "failed" => phase[a].status = "failed" /\ (a \in Production => HasBudget(a))
  BY <1>1, <1>2, <1>3 DEF JobFits, Executed
<1>5. CASE Leave(w)
  BY <1>1, <1>3, <1>4, <1>5, IncidentWrites DEF Leave
<1>6. CASE jobs[w].outcome = "succeeded" /\ Goto(w, "verify")
  <2>1. PICK j \in Jobs : j = [jobs[w] EXCEPT !.stage = "verify"]
    BY <1>1 DEF Jobs, Stages
  <2>2. jobs' = [jobs EXCEPT ![w] = j] /\ j.approval = a /\ j.stage = "verify"
    BY <1>1, <1>2, <1>6, <2>1 DEF Goto, Jobs
  <2>3. JobFits(j) /\ ~Healing(j) /\ j.stage \notin Creating
    BY <1>1, <1>2, <1>6, <2>2 DEF JobFits, Creating, Reserved, Executed, Healing
  <2> QED
    BY <1>1, <1>3, <1>4, <2>2, <2>3, IncidentWrites
<1> QED
  BY <1>5, <1>6 DEF UpdateIncident

LEMMA VerifyExecutionInv ==
    ASSUME IInv, NEW w \in Workers, VerifyExecution(w)
    PROVE  IInv'
<1>1. jobs[w].approval \in Approvals /\ phase[jobs[w].approval].status = "succeeded"
  BY AtStage DEF VerifyExecution, JobFits
<1> QED
  BY <1>1, VerifyMoves DEF VerifyExecution, Triggers

LEMMA VerifyReconciledInv ==
    ASSUME IInv, NEW w \in Workers, VerifyReconciled(w)
    PROVE  IInv'
<1>1. jobs[w].approval \in Approvals /\ phase[jobs[w].approval].status = "succeeded"
  BY AtStage DEF VerifyReconciled, JobFits
<1> QED
  BY <1>1, VerifyMoves DEF VerifyReconciled, Triggers

LEMMA DecideInv ==
    ASSUME IInv, NEW w \in Workers, Decide(w)
    PROVE  IInv'
<1> DEFINE outcome == jobs[w].outcome
           next == IF outcome = "failed" THEN "reload" ELSE "verify_reconciled"
<1>1. /\ jobs[w] \in Jobs /\ jobs[w] # None /\ JobFits(jobs[w])
      /\ jobs[w].stage = "reconcile" /\ outcome \in Outcomes
      /\ UNCHANGED <<verificationVars, pilotVars>>
  BY AtStage DEF Decide, JobFits
<1>2. PICK a \in Approvals : a = jobs[w].approval
  BY <1>1 DEF Jobs
<1>3. PICK j \in Jobs : j = [jobs[w] EXCEPT !.stage = next]
  BY <1>1 DEF Jobs, Stages
<1>4. /\ j.approval = a /\ j.stage = next /\ next \in {"reload", "verify_reconciled"}
      /\ Goto(w, next) => jobs' = [jobs EXCEPT ![w] = j]
      /\ ~Healing(j) /\ next \notin Creating
  BY <1>1, <1>2, <1>3 DEF Goto, Jobs, Healing, Creating
<1>5. PhaseFits(a)
  BY DEF IInv, LedgerFits
<1>6. CASE /\ Decidable(a)
           /\ phase' = [phase EXCEPT ![a] = [status |-> outcome, result |-> "operator"]]
           /\ Goto(w, next)
  <2>1. PICK p \in Ledger!Phases : p = [status |-> outcome, result |-> "operator"]
    BY <1>1 DEF Ledger!Phases, Outcomes, Ledger!Outcomes, Deciders
  <2>2. /\ phase' = [phase EXCEPT ![a] = p] /\ phase'[a] = p
        /\ p.status = outcome /\ p.result = "operator"
    BY <1>6, <2>1 DEF IInv, TypeOK, Ledger!TypeOK
  <2>3. phase[a].status = "indeterminate" /\ (a \in Production => HasBudget(a))
    BY <1>5, <1>6 DEF Decidable, PhaseFits
  <2>4. HasBudget(a)' <=> HasBudget(a)
    BY <1>1 DEF HasBudget, pilotVars
  <2>5. PhaseFits(a)'
    BY <1>1, <2>2, <2>3, <2>4 DEF PhaseFits, Outcomes
  <2>6. JobFits(j)'
    BY <1>1, <1>4, <2>2, <2>3, <2>4 DEF JobFits, Creating, Reserved, Executed, Outcomes
  <2>7. \A v \in Workers \ {w} : ~Creates(v, a)
    BY <2>3 DEF Creates, IInv, JobsFit, JobFits
  <2>8. p.status \notin {"unclaimed", "indeterminate"}
    BY <1>1, <2>2 DEF Outcomes
  <2> QED
    BY <1>1, <1>4, <1>6, <2>2, <2>3, <2>5, <2>6, <2>7, <2>8, PhaseMoves
<1>7. CASE /\ IsReconciled(a) /\ phase[a].status = outcome
           /\ Goto(w, next)
           /\ UNCHANGED ledgerVars
  <2>1. JobFits(j)
    BY <1>1, <1>4, <1>5, <1>7
       DEF JobFits, Creating, Reserved, Executed, Outcomes, IsReconciled, PhaseFits
  <2> QED
    BY <1>1, <1>4, <1>7, <2>1, RequestMoves DEF pilotVars, IInv, TypeOK
<1>8. CASE Leave(w) /\ UNCHANGED ledgerVars
  BY <1>1, <1>8, LeaveMoves
<1> QED
  BY <1>2, <1>6, <1>7, <1>8 DEF Decide

LEMMA ReloadInv ==
    ASSUME IInv, NEW w \in Workers, Reload(w)
    PROVE  IInv'
<1>1. /\ jobs[w] \in Jobs /\ jobs[w] # None /\ JobFits(jobs[w]) /\ jobs[w].stage = "reload"
      /\ UNCHANGED <<ledgerVars, verificationVars, pilotVars>>
  BY AtStage DEF Reload
<1>2. CASE Goto(w, "overwrite")
  <2>1. /\ JobFits([jobs[w] EXCEPT !.stage = "overwrite"])
        /\ ~Healing([jobs[w] EXCEPT !.stage = "overwrite"])
    BY <1>1 DEF JobFits, Creating, Reserved, Executed, Healing, Jobs
  <2> QED
    BY <1>1, <1>2, <2>1, GotoMoves DEF Creating, Stages
<1>3. CASE Leave(w)
  BY <1>1, <1>3, LeaveMoves
<1> QED
  BY <1>2, <1>3 DEF Reload

LEMMA OverwriteInv ==
    ASSUME IInv, NEW w \in Workers, Overwrite(w)
    PROVE  IInv'
<1>1. /\ jobs[w] \in Jobs /\ jobs[w] # None /\ JobFits(jobs[w]) /\ jobs[w].stage = "overwrite"
      /\ UNCHANGED <<ledgerVars, verifications, runs, probed, pilotVars>>
  BY AtStage DEF Overwrite
<1>2. PICK a \in Approvals : a = jobs[w].approval
  BY <1>1 DEF Jobs
<1>3. phase[a].status = "failed" /\ (a \in Production => HasBudget(a))
  BY <1>1, <1>2 DEF JobFits, Executed
<1>4. incident' = "failed" /\ jobs' = [jobs EXCEPT ![w] = None]
  BY DEF Overwrite, Leave
<1> QED
  BY <1>1, <1>3, <1>4, IncidentWrites

\* The switch, the checks of a checklist and its recording.
LEMMA PilotMoves ==
    ASSUME IInv, UNCHANGED <<ledgerVars, verificationVars, jobs, budget, writes>>,
           checklists' \subseteq Production, killSwitch' \in BOOLEAN,
           \/ ceremonies' = ceremonies
           \/ NoCeremony /\ \E a \in Approvals : ceremonies' = [ceremonies EXCEPT ![a] = "ready"]
    PROVE  IInv'
<1> USE DEF ledgerVars, verificationVars
<1>1. VP!IInv'
  BY VerificationUnchanged DEF IInv
<1>2. /\ ceremonies' \in [Approvals -> {"none", "ready", "activated"}]
      /\ \A a \in Approvals : ceremonies[a] = "activated" => ceremonies'[a] = "activated"
  BY DEF IInv, TypeOK, NoCeremony
<1>3. TypeOK'
  BY <1>1, <1>2, VerificationTyped DEF IInv, TypeOK, Ledger!TypeOK
<1>4. JobsFit'
  <2> SUFFICES ASSUME NEW v \in Workers, jobs[v] # None PROVE JobFits(jobs[v])'
    BY DEF JobsFit
  <2>1. JobFits(jobs[v]) /\ jobs[v].approval \in Approvals
    BY DEF IInv, JobsFit, TypeOK, Jobs
  <2> QED
    BY <1>2, <2>1 DEF JobFits, Reserved, Executed, HasBudget, RecordFits
<1>5. OneCeremony'
  BY DEF IInv, TypeOK, OneCeremony, NoCeremony
<1>6. LedgerFits'
  BY <1>2 DEF IInv, LedgerFits, PhaseFits, WritesFit, HasBudget, Claimed
<1>7. OneCreator' /\ VerifiesSuccess' /\ IncidentHolds'
  BY DEF IInv, OneCreator, Creates, VerifiesSuccess, IncidentHolds, PilotAlone, Claimed, Healing
<1> QED
  BY <1>1, <1>3, <1>4, <1>5, <1>6, <1>7 DEF IInv

LEMMA VerificationStepInv ==
    ASSUME IInv, NEW w \in Workers, VerificationStep(w)
    PROVE  IInv'
<1> USE DEF ledgerVars, pilotVars
<1>1. /\ Verifying!RunStep(w) \/ Verifying!CrashRun(w)
      /\ UNCHANGED <<ledgerVars, jobs, pilotVars>>
  BY DEF VerificationStep
<1>2. VP!IInv'
  BY <1>1, RunStepKept DEF IInv
<1>3. TypeOK'
  BY <1>1, <1>2, VerificationTyped DEF IInv, TypeOK, Ledger!TypeOK
<1>4. /\ runs[w] # None
      /\ \A v \in Workers : runs'[v] # None =>
           runs[v] # None /\ runs'[v].execution = runs[v].execution
      /\ \A a \in Approvals : verifications'[a] # None =>
           verifications[a] # None \/ a = runs[w].execution
  BY <1>1, RunStepFrame DEF IInv, TypeOK
<1>5. VerifiesSuccess'
  BY <1>1, <1>4 DEF IInv, VerifiesSuccess
<1>6. JobsFit'
  BY <1>1 DEF IInv, JobsFit, JobFits, Reserved, Executed, HasBudget, RecordFits
<1>7. IncidentHolds'
  <2> SUFFICES ASSUME PilotAlone
               PROVE  /\ \A b \in Approvals : phase[b].status # "indeterminate"
                      /\ \A v \in Workers : jobs[v] # None => ~Healing(jobs[v])
    BY <1>1 DEF IncidentHolds, PilotAlone, Claimed, Healing
  <2>1. PICK a \in Approvals : a = runs[w].execution
    BY <1>4 DEF IInv, TypeOK, Verifying!TypeOK, Verifying!Runs
  <2>2. phase[a].status = "succeeded" /\ a \in Production /\ HasBudget(a)
    BY <1>4, <2>1 DEF IInv, VerifiesSuccess, PilotAlone, Claimed, LedgerFits, PhaseFits
  <2>3. ASSUME NEW b \in Approvals, phase[b].status = "indeterminate"
        PROVE  FALSE
    <3>1. b \in Production /\ PhaseFits(b)
      BY <2>3 DEF PilotAlone, Claimed, IInv, LedgerFits
    <3> QED
      BY <2>2, <2>3, <3>1 DEF PhaseFits, HasBudget
  <2>4. ASSUME NEW v \in Workers, jobs[v] # None, Healing(jobs[v])
        PROVE  FALSE
    <3>1. JobFits(jobs[v]) /\ jobs[v].approval \in Approvals
      BY <2>4 DEF IInv, JobsFit, TypeOK, Jobs
    <3>2. phase[jobs[v].approval].status = "running" /\ Executed(jobs[v])
      BY <2>4, <3>1 DEF JobFits, Healing, Executed, Creating
    <3>3. jobs[v].approval \in Production
      BY <3>1, <3>2 DEF PilotAlone, Claimed
    <3>4. jobs[v].approval = a
      BY <2>2, <3>1, <3>2, <3>3 DEF JobFits, HasBudget
    <3> QED
      BY <2>2, <3>2, <3>4
  <2> QED
    BY <2>3, <2>4
<1>8. OneCreator' /\ OneCeremony' /\ LedgerFits'
  BY <1>1 DEF IInv, OneCreator, Creates, OneCeremony, LedgerFits, PhaseFits, WritesFit,
              HasBudget, Claimed
<1> QED
  BY <1>2, <1>3, <1>5, <1>6, <1>7, <1>8 DEF IInv

LEMMA StepInvariant ==
    ASSUME IInv, [Next]_vars
    PROVE  IInv'
<1>1. ASSUME NEW w \in Workers, NEW a \in Approvals, Resume(w, a)
      PROVE  IInv'
  BY <1>1, ResumeInv
<1>2. ASSUME NEW w \in Workers, NEW a \in Approvals, NEW outcome \in Outcomes,
             Reconcile(w, a, outcome)
      PROVE  IInv'
  BY <1>2, ReconcileInv
<1>3. ASSUME NEW w \in Workers, RequestStep(w)
      PROVE  IInv'
  BY <1>3, LookupInv, RegetInv, ClaimInv, GuardInv, ActivateInv, BindInv, ReserveInv, HealInv,
     PlainInv, PreflightInv, ConsumeInv, PatchInv, PersistInv, UpdateIncidentInv,
     VerifyExecutionInv, DecideInv, VerifyReconciledInv, ReloadInv, OverwriteInv
     DEF RequestStep
<1>4. ASSUME NEW w \in Workers, Interrupt(w)
      PROVE  IInv'
  BY <1>4, LeaveMoves DEF Interrupt
<1>5. ASSUME NEW w \in Workers, VerificationStep(w)
      PROVE  IInv'
  BY <1>5, VerificationStepInv
<1>6. ASSUME NEW a \in Approvals, CheckChecklist(a)
      PROVE  IInv'
  BY <1>6, PilotMoves DEF CheckChecklist, IInv, TypeOK
<1>7. ASSUME NEW a \in Approvals, RecordChecklist(a)
      PROVE  IInv'
  BY <1>7, PilotMoves DEF RecordChecklist, IInv, TypeOK
<1>8. CASE ToggleKillSwitch
  BY <1>8, PilotMoves DEF ToggleKillSwitch, IInv, TypeOK
<1>9. CASE UNCHANGED vars
  BY <1>9, PilotMoves DEF vars, pilotVars, IInv, TypeOK
<1> QED
  BY <1>1, <1>2, <1>3, <1>4, <1>5, <1>6, <1>7, <1>8, <1>9 DEF Next

LEMMA InvariantHolds == Spec => []IInv
BY InitInvariant, StepInvariant, PTL DEF Spec

------------------------------------------------------------------------------
\* The ledger, the incident, every request and every pilot control is well typed.
THEOREM WorkflowIsTyped == Spec => []TypeOK
<1>1. IInv => TypeOK
  BY DEF IInv
<1> QED
  BY <1>1, InvariantHolds, PTL

\* KubernetesProductionExecutor sends a real PATCH with its claim, its ceremony and its
\* consumed budget persisted.
THEOREM PatchesArePermitted == Spec => []PatchIsPermitted
<1>1. IInv => PatchIsPermitted
  BY DEF IInv, LedgerFits, WritesFit, PatchIsPermitted
<1> QED
  BY <1>1, InvariantHolds, PTL

\* However many approvals, requests, retries and interruptions, a pilot sends at most
\* one real PATCH: the budget row has room for one approval and is never given back.
THEOREM PilotsPatchOnce == Spec => []OnePatchPerPilot
<1>1. ASSUME IInv
      PROVE  OnePatchPerPilot
  <2> SUFFICES ASSUME NEW a \in Approvals, NEW b \in Approvals
               PROVE  /\ writes[a].sent <= 1
                      /\ writes[a].sent = 1 /\ writes[b].sent = 1 => a = b
    BY DEF OnePatchPerPilot
  <2>1. WritesFit(a) /\ WritesFit(b)
    BY <1>1 DEF IInv, LedgerFits
  <2>2. writes[a].sent <= 1
    BY <2>1 DEF WritesFit
  <2>3. ASSUME writes[a].sent = 1, writes[b].sent = 1
        PROVE  a = b
    <3>1. budget.approval = a /\ budget.approval = b
      BY <2>1, <2>3 DEF WritesFit
    <3> QED
      BY <3>1
  <2> QED
    BY <2>2, <2>3
<1> QED
  BY <1>1, InvariantHolds, PTL

\* What ActionRuntime records on the word of the executor is what happened to the
\* cluster, for any answer that is lost, late or refused.
THEOREM LedgersAreTruthful == Spec => []LedgerIsTruthful
<1>1. IInv => LedgerIsTruthful
  BY ProductionAssumption DEF IInv, LedgerFits, PhaseFits, LedgerIsTruthful
<1> QED
  BY <1>1, InvariantHolds, PTL

\* Resumes, replays and reconciliations verify recorded successes only, so that the
\* incident is RESOLVED on a succeeded execution with a PASSED verification.
THEOREM SuccessesAreVerified == Spec => []OnlySuccessIsVerified
<1>1. VP!IInv => Verifying!ResolvedHasEvidence
  BY DEF VP!IInv, VP!ResolvedHasEvidence, Verifying!ResolvedHasEvidence, VP!Terminal,
         Verifying!Terminal, VP!Verdicts, Verifying!Verdicts
<1>2. IInv => OnlySuccessIsVerified
  BY <1>1 DEF IInv, VerifiesSuccess, OnlySuccessIsVerified
<1> QED
  BY <1>2, InvariantHolds, PTL

\* As long as no plan outside the pilot is executed, the reconciliation API does not
\* refuse an INDETERMINATE execution because of its incident.
THEOREM DoubtsAreReconcilable == Spec => []FrozenIsReconcilable
<1>1. IInv => FrozenIsReconcilable
  BY DEF IInv, IncidentHolds, PilotAlone, FrozenIsReconcilable
<1> QED
  BY <1>1, InvariantHolds, PTL

------------------------------------------------------------------------------
(* The specifications it is composed of. *)

\* A step takes one step of the ledger, or leaves it alone.
LEMMA LedgerStep ==
    ASSUME IInv, [Next]_vars
    PROVE  [Ledger!Next]_phase
<1> USE DEF ledgerVars
<1>1. ASSUME NEW w \in Workers, jobs[w] # None
      PROVE  jobs[w].approval \in Approvals
  BY <1>1 DEF IInv, TypeOK, Jobs
<1>2. ASSUME NEW w \in Workers, Claim(w)
      PROVE  [Ledger!Next]_phase
  BY <1>1, <1>2 DEF Claim, At, Ledger!Next
<1>3. ASSUME NEW w \in Workers, Persist(w)
      PROVE  [Ledger!Next]_phase
  <2>1. jobs[w] # None /\ JobFits(jobs[w]) /\ jobs[w].outcome \in Outcomes \cup {"indeterminate", None}
    BY <1>3 DEF Persist, At, IInv, JobsFit, TypeOK, Jobs
  <2>2. jobs[w].outcome = "indeterminate" \/ jobs[w].outcome \in Outcomes
    BY <1>3, <2>1 DEF Persist, At, JobFits, RecordFits
  <2>3. CASE Ledger!Freeze(jobs[w].approval)
    BY <1>1, <2>1, <2>3 DEF Ledger!Next
  <2>4. CASE jobs[w].outcome \in Outcomes
             /\ Ledger!Settle(jobs[w].approval, jobs[w].outcome, "executor")
    BY <1>1, <2>1, <2>4 DEF Ledger!Next, Ledger!Outcomes, Outcomes, Deciders
  <2> QED
    BY <1>3, <2>2, <2>3, <2>4 DEF Persist
<1>4. ASSUME NEW w \in Workers, Decide(w)
      PROVE  [Ledger!Next]_phase
  <2>1. jobs[w] # None /\ jobs[w].outcome \in Outcomes
    BY <1>4 DEF Decide, At, IInv, JobsFit, JobFits
  <2>2. CASE /\ Decidable(jobs[w].approval)
             /\ phase' = [phase EXCEPT ![jobs[w].approval] =
                            [status |-> jobs[w].outcome, result |-> "operator"]]
    <3>1. Ledger!Resolve(jobs[w].approval, jobs[w].outcome, "operator")
      BY <2>2 DEF Ledger!Resolve, Decidable
    <3> QED
      BY <1>1, <2>1, <3>1 DEF Ledger!Next, Ledger!Outcomes, Outcomes, Deciders
  <2> QED
    BY <1>4, <2>2 DEF Decide
<1>5. ASSUME NEW w \in Workers, RequestStep(w), ~Claim(w), ~Persist(w), ~Decide(w)
      PROVE  UNCHANGED phase
  BY <1>5 DEF RequestStep, Lookup, Reget, Guard, Activate, Bind, Reserve, Heal, Plain,
     Preflight, Consume, Patch, UpdateIncident, VerifyExecution, VerifyReconciled, Reload,
     Overwrite
<1>6. ASSUME NEW w \in Workers, NEW a, NEW outcome,
             \/ Resume(w, a) \/ Reconcile(w, a, outcome) \/ Interrupt(w)
             \/ VerificationStep(w)
      PROVE  UNCHANGED phase
  BY <1>6 DEF Resume, Reconcile, Interrupt, VerificationStep
<1>7. ASSUME NEW a, CheckChecklist(a) \/ RecordChecklist(a) \/ ToggleKillSwitch
      PROVE  UNCHANGED phase
  BY <1>7 DEF CheckChecklist, RecordChecklist, ToggleKillSwitch
<1>8. CASE UNCHANGED vars
  BY <1>8 DEF vars
<1> QED
  BY <1>2, <1>3, <1>4, <1>5, <1>6, <1>7, <1>8 DEF Next

\* A step takes one step of the verification, or leaves it alone.
LEMMA VerifyingStep ==
    ASSUME IInv, [Next]_vars
    PROVE  [Verifying!Next]_verificationVars
<1> USE DEF verificationVars
<1>1. ASSUME NEW w \in Workers, jobs[w] # None
      PROVE  jobs[w].approval \in Approvals
  BY <1>1 DEF IInv, TypeOK, Jobs
<1>2. ASSUME NEW w \in Workers, Claim(w) \/ VerifyExecution(w) \/ VerifyReconciled(w)
      PROVE  [Verifying!Next]_verificationVars
  <2>1. jobs[w] # None
    BY <1>2 DEF Claim, VerifyExecution, VerifyReconciled, At
  <2>2. \/ UNCHANGED verificationVars
        \/ \E t \in Triggers : Verifying!BeginRun(w, jobs[w].approval, t)
    BY <1>2 DEF Claim, VerifyExecution, VerifyReconciled, Verify, Triggers
  <2> QED
    BY <1>1, <2>1, <2>2 DEF Verifying!Next
<1>3. ASSUME NEW w \in Workers, Heal(w) \/ UpdateIncident(w) \/ Overwrite(w)
      PROVE  [Verifying!Next]_verificationVars
  <2>1. /\ UNCHANGED <<verifications, runs, probed>>
        /\ incident' = incident \/ incident' \in {"healing", "failed"}
    <3>1. CASE UpdateIncident(w)
      <4>1. jobs[w] # None /\ JobFits(jobs[w]) /\ jobs[w].goal \in {"healing", "failed", None}
        BY <3>1 DEF UpdateIncident, At, IInv, JobsFit, TypeOK, Jobs
      <4> QED
        BY <3>1, <4>1 DEF UpdateIncident, At, JobFits
    <3> QED
      BY <1>3, <3>1 DEF Heal, Overwrite
  <2> QED
    BY <2>1 DEF Verifying!Next, Verifying!OtherAttempt
<1>4. ASSUME NEW w \in Workers, VerificationStep(w)
      PROVE  Verifying!Next
  BY <1>4 DEF VerificationStep, Verifying!Next
<1>5. ASSUME NEW w \in Workers, RequestStep(w), ~Claim(w), ~VerifyExecution(w),
             ~VerifyReconciled(w), ~Heal(w), ~UpdateIncident(w), ~Overwrite(w)
      PROVE  UNCHANGED verificationVars
  BY <1>5 DEF RequestStep, Lookup, Reget, Guard, Activate, Bind, Reserve, Plain, Preflight,
     Consume, Patch, Persist, Decide, Reload
<1>6. ASSUME NEW w \in Workers, NEW a, NEW outcome,
             Resume(w, a) \/ Reconcile(w, a, outcome) \/ Interrupt(w)
      PROVE  UNCHANGED verificationVars
  BY <1>6 DEF Resume, Reconcile, Interrupt
<1>7. ASSUME NEW a, CheckChecklist(a) \/ RecordChecklist(a) \/ ToggleKillSwitch
      PROVE  UNCHANGED verificationVars
  BY <1>7 DEF CheckChecklist, RecordChecklist, ToggleKillSwitch
<1>8. CASE UNCHANGED vars
  BY <1>8 DEF vars
<1> QED
  BY <1>2, <1>3, <1>4, <1>5, <1>6, <1>7, <1>8 DEF Next

\* So are its steps those that the proofs of Verification are about.
LEMMA VerificationTaken ==
    ASSUME [Verifying!Next]_verificationVars
    PROVE  [VP!Next]_(VP!verificationVars)
<1> USE DEF verificationVars, VP!verificationVars
<1>1. ASSUME NEW w \in Workers, NEW a \in Approvals, NEW t \in Triggers,
             Verifying!BeginRun(w, a, t)
      PROVE  VP!Next
  BY <1>1, BeginRunMatches DEF VP!Next
<1>2. ASSUME NEW w \in Workers, Verifying!RunStep(w) \/ Verifying!CrashRun(w)
      PROVE  VP!Next
  BY <1>2, RunStepMatches DEF VP!Next
<1>3. ASSUME NEW status \in {"confirmed", "healing", "failed"}, Verifying!OtherAttempt(status)
      PROVE  VP!Next
  BY <1>3 DEF VP!Next, VP!OtherAttempt, Verifying!OtherAttempt
<1> QED
  BY <1>1, <1>2, <1>3 DEF Verifying!Next

\* The ledger that resumes, reconciliations, retries and interruptions work on behaves as
\* ExecutionLifecycle: one launch per approval, one outcome, recorded by the request that
\* launched it or, when it was frozen, by an operator.
THEOREM WorkflowFollowsLedger == Spec => Ledger!Spec
<1>1. Init => Ledger!Init
  BY DEF Init
<1> QED
  BY <1>1, InvariantHolds, LedgerStep, PTL DEF Spec, Ledger!Spec

\* Resume, reconciliation and their writes of the incident are for Verification the
\* requests and the other attempts that its own module allows, and nothing else: what is
\* proved there of its steps holds in the workflow.
THEOREM WorkflowFollowsVerification == Spec => [][Verifying!Next]_verificationVars
BY InvariantHolds, VerifyingStep, PTL DEF Spec

\* No resume, reconciliation, retry or replay changes a verdict that is on record.
THEOREM VerdictsSurviveTheWorkflow == Spec => Verifying!VerdictsAreFinal
<1>1. ASSUME IInv, [Next]_vars
      PROVE  [\A x \in Approvals : Verifying!Terminal(x) =>
                verifications'[x] = verifications[x]]_verificationVars
  <2>1. \A x \in Approvals : Verifying!Terminal(x) => VP!Terminal(x)
    BY DEF Verifying!Terminal, VP!Terminal, Verifying!Verdicts, VP!Verdicts
  <2> QED
    BY <1>1, <2>1, VerifyingStep, VerificationTaken, VerificationAssumptions,
       VP!TerminalIsKept DEF IInv
<1> QED
  BY <1>1, InvariantHolds, PTL DEF Spec, Verifying!VerdictsAreFinal, verificationVars,
     Verifying!verificationVars

\* A verdict that comes late, when another request of the workflow has moved the incident
\* on from HEALING, moves nothing.
THEOREM LateVerdictsSpareTheWorkflow == Spec => Verifying!VerdictsMoveOnlyHealing
<1>1. ASSUME IInv, [Next]_vars
      PROVE  [\A w \in Workers :
                Verifying!At(w, "write") /\ runs'[w] = None /\ incident' # incident
                  => incident = "healing"]_verificationVars
  <2>1. \A w \in Workers : Verifying!At(w, "write") => VP!At(w, "write")
    BY DEF Verifying!At, VP!At
  <2>2. VP!Next \/ UNCHANGED verificationVars
    BY <1>1, VerifyingStep, VerificationTaken DEF verificationVars, VP!verificationVars
  <2> QED
    BY <2>1, <2>2, VerificationAssumptions, VP!OnlyWritesMove
<1> QED
  BY <1>1, InvariantHolds, PTL DEF Spec, Verifying!VerdictsMoveOnlyHealing, verificationVars,
     Verifying!verificationVars

==============================================================================
