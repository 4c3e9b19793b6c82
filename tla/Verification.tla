----------------------------- MODULE Verification -----------------------------
(***************************************************************************)
(* Post-action verification of one incident: VerificationCoordinator.run,  *)
(* VerificationRuntime, VerificationService and VerificationStore.         *)
(*                                                                         *)
(* A verification is claimed once per succeeded action execution.  The     *)
(* caller that created it starts it, collects evidence, persists a         *)
(* terminal verdict and only then moves the incident; a caller that finds  *)
(* it claimed returns it, and repeats the move if the verdict is there.    *)
(* The incident is shared with other remediation attempts.                 *)
(***************************************************************************)
EXTENDS Naturals

CONSTANTS
    Executions,  \* succeeded action executions of the incident
    Triggers,    \* the request: metadata of a resume, of a reconciliation
    Probes,      \* the probes of the verification profile
    Required,    \* those that decide
    Workers,
    None

ASSUME RequiredAssumption == Required \subseteq Probes

VARIABLES
    incident,       \* the status of the incident
    verifications,  \* the table: a verification or None for each execution
    runs,           \* the coordinator run of each worker, or None
    probed          \* history: collections of evidence, per execution

verificationVars == <<incident, verifications, runs, probed>>

------------------------------------------------------------------------------
\* "confirmed" stands for every status before a remediation.
IncidentStatuses == {"confirmed", "healing", "resolved", "failed"}

Verdicts == {"passed", "failed", "inconclusive"}

\* "mismatched": the collector returned no check, several, or one that differs
\* from the declared probe.
CheckResults == {"passed", "failed", "unknown", "mismatched"}

Evidence == [Probes -> CheckResults]

Verifications ==
    [trigger: Triggers, status: {"pending", "running"} \cup Verdicts,
     checks: Evidence \cup {None}]

Stages == {"admit", "claim", "start", "mark", "collect", "complete", "sync", "write"}

Runs ==
    [execution: Executions, trigger: Triggers, stage: Stages,
     checks: Evidence \cup {None}]

ASSUME VerificationNone == None \notin Verifications /\ None \notin Runs /\ None \notin Evidence

VerificationInit ==
    /\ verifications = [x \in Executions |-> None]
    /\ runs = [w \in Workers |-> None]
    /\ probed = [x \in Executions |-> 0]

------------------------------------------------------------------------------
(* The verdict: VerificationCoordinator.decide. *)

UnknownTimesOut(checks) ==
    IF \E p \in Required : checks[p] = "unknown" THEN "timed_out" ELSE "passed"

\* An explicit required failure wins over a required unknown; optional probes
\* never decide, and nothing passes when nothing is required.
Decide(checks) ==
    IF Required = {} THEN "inconclusive"
    ELSE IF \E p \in Required : checks[p] = "failed" THEN "failed"
    ELSE IF \E p \in Required : checks[p] # "passed" THEN "inconclusive"
    ELSE "passed"

\* VerificationResult.validate_terminal_state, when the verdict is assigned.
Backed(status, checks) ==
    status = "passed" =>
        Required # {} /\ \A p \in Required : checks[p] = "passed"

InconclusiveResolves(status) == IF status = "failed" THEN "failed" ELSE "resolved"

\* _incident_transition.
IncidentTransition(status) ==
    CASE status = "passed"       -> "resolved"
      [] status = "failed"       -> "failed"
      [] status = "inconclusive" -> "healing"

------------------------------------------------------------------------------
(* Steps of a run. *)

At(w, stage) == runs[w] # None /\ runs[w].stage = stage

Goto(w, stage) == runs' = [runs EXCEPT ![w].stage = stage]

Leave(w) == runs' = [runs EXCEPT ![w] = None]

\* claim() looks the execution up first: an existing verification may be replayed
\* whatever the incident's status.
BeginRun(w, x, t) ==
    /\ runs[w] = None
    /\ runs' = [runs EXCEPT ![w] =
         [execution |-> x, trigger |-> t, checks |-> None,
          stage |-> IF verifications[x] = None THEN "admit" ELSE "claim"]]
    /\ UNCHANGED <<incident, verifications, probed>>

\* A new claim needs a HEALING incident.
Admit(w) ==
    /\ At(w, "admit")
    /\ IF incident = "healing" THEN Goto(w, "claim") ELSE Leave(w)
    /\ UNCHANGED <<incident, verifications, probed>>

Terminal(x) == verifications[x] # None /\ verifications[x].status \in Verdicts

ClaimsByAnyone(x) == TRUE
ClaimsUnfinished(x) == ~Terminal(x)

Claimable(x) == verifications[x] = None

ReturnsWithoutWriting(x, t) == FALSE

\* _return_replayed of an equal claim: a terminal verification is reconciled, any
\* other is only returned.
Reconciles(x, t) == verifications[x].trigger = t /\ Terminal(x)

\* One transaction: create, replay the same request or refuse another one.  A
\* replayed terminal verification only synchronises the incident again.
Claim(w) ==
    /\ At(w, "claim")
    /\ LET x == runs[w].execution
           t == runs[w].trigger IN
        \/ /\ Claimable(x)
           /\ verifications' = [verifications EXCEPT ![x] =
                [trigger |-> t, status |-> "pending", checks |-> None]]
           /\ Goto(w, "start")
        \/ /\ ~Claimable(x)
           /\ IF Reconciles(x, t) THEN Goto(w, "sync") ELSE Leave(w)
           /\ UNCHANGED verifications
    /\ UNCHANGED <<incident, probed>>

\* start() reads the incident, then marks the verification RUNNING.
Start(w) ==
    /\ At(w, "start")
    /\ IF incident = "healing" THEN Goto(w, "mark") ELSE Leave(w)
    /\ UNCHANGED <<incident, verifications, probed>>

\* Only its creator writes a verification, so the read and the compare-and-set of
\* VerificationService.start, and of complete, are one step.
Mark(w) ==
    /\ At(w, "mark")
    /\ LET x == runs[w].execution IN
        \/ /\ verifications[x].status = "pending"
           /\ verifications' = [verifications EXCEPT ![x].status = "running"]
           /\ Goto(w, "collect")
        \/ /\ verifications[x].status # "pending"
           /\ IF verifications[x].status = "running" THEN Goto(w, "collect") ELSE Leave(w)
           /\ UNCHANGED verifications
    /\ UNCHANGED <<incident, probed>>

\* Probes observe the outside world: any result.  A collector that raises leaves
\* one required unknown check, as if every probe were unknown.
Collect(w) ==
    /\ At(w, "collect")
    /\ \E checks \in Evidence :
          runs' = [runs EXCEPT ![w].checks = checks, ![w].stage = "complete"]
    /\ probed' = [probed EXCEPT ![runs[w].execution] = @ + 1]
    /\ UNCHANGED <<incident, verifications>>

Complete(w) ==
    /\ At(w, "complete")
    /\ LET x == runs[w].execution
           checks == runs[w].checks
           verdict == Decide(checks) IN
        \/ /\ verifications[x].status = "running"
           /\ Backed(verdict, checks)
           /\ verifications' = [verifications EXCEPT ![x].status = verdict,
                                                     ![x].checks = checks]
           /\ Goto(w, "sync")
        \/ /\ ~(verifications[x].status = "running" /\ Backed(verdict, checks))
           /\ Leave(w)
           /\ UNCHANGED verifications
    /\ UNCHANGED <<incident, probed>>

\* _synchronize_incident: nothing to do, or a write that needs HEALING, or a
\* VerificationIncidentSyncError.
Synchronize(w) ==
    /\ At(w, "sync")
    /\ LET goal == IncidentTransition(verifications[runs[w].execution].status) IN
        IF goal # incident /\ incident = "healing" THEN Goto(w, "write") ELSE Leave(w)
    /\ UNCHANGED <<incident, verifications, probed>>

WritesOver(status) == TRUE

\* The compare-and-set of IncidentStore.update with expected_status = HEALING.
WritesOnlyHealing(status) == status = "healing"

WriteIncident(w) ==
    /\ At(w, "write")
    /\ incident' = IF WritesOnlyHealing(incident)
                   THEN IncidentTransition(verifications[runs[w].execution].status)
                   ELSE incident
    /\ Leave(w)
    /\ UNCHANGED <<verifications, probed>>

\* The process dies, or a store raises, between two steps.
CrashRun(w) ==
    /\ runs[w] # None
    /\ Leave(w)
    /\ UNCHANGED <<incident, verifications, probed>>

RunStep(w) ==
    \/ Admit(w)
    \/ Claim(w)
    \/ Start(w)
    \/ Mark(w)
    \/ Collect(w)
    \/ Complete(w)
    \/ Synchronize(w)
    \/ WriteIncident(w)

------------------------------------------------------------------------------
(* The verification subsystem on its own: other attempts on the same        *)
(* incident move it as ActionRuntime._update_incident does, from any status. *)

OtherAttempt(status) ==
    /\ incident # status
    /\ incident' = status
    /\ UNCHANGED <<verifications, runs, probed>>

Init == incident = "healing" /\ VerificationInit

Next ==
    \/ \E w \in Workers :
          \/ \E x \in Executions, t \in Triggers : BeginRun(w, x, t)
          \/ RunStep(w)
          \/ CrashRun(w)
    \/ \E status \in {"confirmed", "healing", "failed"} : OtherAttempt(status)

Spec == Init /\ [][Next]_verificationVars

Serves(w, x, t) == runs[w] # None /\ runs[w].execution = x /\ runs[w].trigger = t

\* Clients retry each request for ever; a run is one asyncio task that is never
\* starved; and the steps of a replay get through in the end, because interruptions
\* do not pick the same request at the same step for ever.
RecoverySpec ==
    /\ Spec
    /\ \A w \in Workers : WF_verificationVars(RunStep(w))
    /\ \A x \in Executions, t \in Triggers :
        /\ SF_verificationVars(\E w \in Workers : BeginRun(w, x, t))
        /\ SF_verificationVars(\E w \in Workers : Serves(w, x, t) /\ Claim(w))
        /\ SF_verificationVars(\E w \in Workers : Serves(w, x, t) /\ Synchronize(w))
        /\ SF_verificationVars(\E w \in Workers : Serves(w, x, t) /\ WriteIncident(w))

------------------------------------------------------------------------------
(* Properties. *)

\* The incident, every verification and every run is well typed; a verdict is one of
\* those the code knows.
TypeOK ==
    /\ incident \in IncidentStatuses
    /\ verifications \in [Executions -> Verifications \cup {None}]
    /\ runs \in [Workers -> Runs \cup {None}]
    /\ probed \in [Executions -> Nat]

\* Evidence is collected at most once for an execution, whatever is retried or
\* replayed, and before any verdict.
EvidenceCollectedOnce ==
    \A x \in Executions :
        /\ probed[x] <= 1
        /\ Terminal(x) => probed[x] = 1

\* The incident is RESOLVED only when a PASSED verification is persisted, and that
\* one rests on required probes which all passed (VerificationRuntime: "Incident
\* must never become RESOLVED before PASSED verification evidence is persisted").
ResolvedHasEvidence ==
    incident = "resolved" =>
        \E x \in Executions :
            /\ Terminal(x)
            /\ verifications[x].status = "passed"
            /\ Required # {}
            /\ \A p \in Required : verifications[x].checks[p] = "passed"

\* A verdict never changes once persisted.
VerdictsAreFinal ==
    [][\A x \in Executions : Terminal(x) => verifications'[x] = verifications[x]]_verificationVars

\* However late a verdict arrives, it resolves or fails only an incident that is
\* still HEALING at that moment: another attempt's result is never overwritten.
VerdictsMoveOnlyHealing ==
    [][\A w \in Workers :
        At(w, "write") /\ runs'[w] = None /\ incident' # incident
            => incident = "healing"]_verificationVars

\* A verdict that could not be written to the incident, because a store failed or
\* the process died, gets there when the client retries: a PASSED verification
\* does not leave its incident HEALING for ever ("call reconcile()").
VerdictReachesIncident ==
    \A x \in Executions :
        (Terminal(x) /\ verifications[x].status = "passed" /\ incident = "healing")
            ~> incident # "healing"

\* What the runbook and the crash rehearsal say of a verification that was claimed
\* and interrupted: retries bring it to a verdict, while the incident is HEALING.
ClaimedIsDecided ==
    \A x \in Executions :
        verifications[x] # None ~> (Terminal(x) \/ incident # "healing")

==============================================================================
