-------------------------- MODULE InvestigationSession -------------------------
(***************************************************************************)
(* A durable investigation session: DurableInvestigationSessionLoop, the   *)
(* driver it calls, InvestigationSessionService and its store.             *)
(*                                                                         *)
(* A session alternates reasoner steps and probe steps.  A step is claimed *)
(* durably before its external call and completed after it, so a worker    *)
(* that disappears in between leaves a claim that nobody resumes.  Several *)
(* workers may advance one session, under the same claimant (a retry) or   *)
(* another, each acting on a session it read some time ago.                *)
(***************************************************************************)
EXTENDS Naturals, Sequences, FiniteSets

CONSTANTS
    Probes,         \* the available probes of the session
    MaxIterations,  \* its limits
    MaxTools,
    Claimants,
    Workers,
    MaxCalls,       \* max_external_steps of a run
    None

ASSUME LimitsAssumption ==
    /\ MaxIterations \in Nat \ {0}
    /\ MaxTools \in Nat
    /\ MaxCalls \in Nat \ {0}
    /\ None \notin Probes

VARIABLES
    session,  \* the row of the table, or None
    runs,     \* the loop run of each worker, or None
    called    \* history: external calls, per step

investigationVars == <<session, runs, called>>

------------------------------------------------------------------------------
(* Records of session_models.py. *)

Kinds == {"reasoner", "probe"}

MaxSteps == 2 * MaxIterations

\* What a request digest binds besides the identity of the session.
States ==
    [status: {"pending", "running", "concluded", "failed"},
     iterations: Nat, tools: Nat, attempted: SUBSET Probes]

Digests == [kind: Kinds, state: States, probe: Probes \cup {None}]

StepStatuses == {"claimed", "succeeded", "failed", "indeterminate"}

\* next: the probe a succeeded reasoner step asked for.
Steps ==
    [kind: Kinds, status: StepStatuses, claimant: Claimants, digest: Digests,
     probe: Probes \cup {None}, next: Probes \cup {None}]

SessionStatuses == {"ready", "running", "paused", "completed", "failed", "indeterminate"}

Rows == [status: SessionStatuses, version: Nat, state: States, steps: Seq(Steps)]

Outcomes ==
    [status: StepStatuses \ {"claimed"}, state: States, next: Probes \cup {None}]

Stages == {"loop", "read", "claim", "swap", "call", "complete"}

\* seen: the state the driver read; once the step is claimed, the one of the claim.
Runs ==
    [claimant: Claimants, expected: Nat \cup {None}, calls: Nat,
     stage: Stages, kind: Kinds, seen: States \cup {None}, probe: Probes \cup {None},
     version: Nat, step: Nat, outcome: Outcomes \cup {None}]

ASSUME SessionNone == None \notin Rows /\ None \notin Runs /\ None \notin States /\ None \notin Outcomes

FreshState == [status |-> "pending", iterations |-> 0, tools |-> 0, attempted |-> {}]

Init ==
    /\ session = None
    /\ runs = [w \in Workers |-> None]
    /\ called = [i \in 1..MaxSteps |-> 0]

Latest(s) == s.steps[Len(s.steps)]

LatestIs(s, kind, statuses) ==
    s.steps # <<>> /\ Latest(s).kind = kind /\ Latest(s).status \in statuses

------------------------------------------------------------------------------
(* What the driver admits, of a session as it reads it. *)

Resumable(s) == s.status \in {"ready", "paused"}

\* _assert_reasoner_sequence.
ReasonerAdmitted(s) ==
    /\ Resumable(s)
    /\ s.state.iterations < MaxIterations
    /\ s.steps = <<>> \/ LatestIs(s, "probe", {"succeeded"})

\* _required_probe.
ProbeAdmitted(s) ==
    /\ s.status = "paused"
    /\ LatestIs(s, "reasoner", {"succeeded"})
    /\ LET p == Latest(s).next IN
         /\ p \in Probes
         /\ p \notin s.state.attempted
         /\ s.state.tools < MaxTools

Admitted(s, kind) == IF kind = "reasoner" THEN ReasonerAdmitted(s) ELSE ProbeAdmitted(s)

\* _apply_decision: a continuation outside the limits fails the step.
ContinuesAgain(state, p) ==
    /\ state.tools < MaxTools
    /\ state.iterations + 1 < MaxIterations

Continues(state, p) ==
    /\ p \notin state.attempted
    /\ state.tools < MaxTools
    /\ state.iterations + 1 < MaxIterations

Decided(state, status) ==
    [state EXCEPT !.iterations = @ + 1, !.status = status]

\* The reasoner stops, continues, fails or never answers; the guard may drop the
\* conclusion of a stop, which does not change the step.
ReasonerOutcomes(state) ==
    {[status |-> "succeeded", state |-> Decided(state, "concluded"), next |-> None],
     [status |-> "failed", state |-> [state EXCEPT !.status = "failed"], next |-> None],
     [status |-> "indeterminate", state |-> state, next |-> None]}
    \cup
    {[status |-> "succeeded", state |-> Decided(state, "running"), next |-> p] :
        p \in {q \in Probes : Continues(state, q)}}

\* An error, a timeout or foreign evidence is failed evidence of a succeeded step.
ProbeOutcome(state, p) ==
    [status |-> "succeeded", next |-> None,
     state |-> [state EXCEPT !.tools = @ + 1, !.attempted = @ \cup {p}]]

\* complete_investigation_step.
SessionStatus(outcome) ==
    CASE outcome.status = "indeterminate"    -> "indeterminate"
      [] outcome.state.status = "concluded"  -> "completed"
      [] outcome.state.status = "failed"     -> "failed"
      [] OTHER                               -> "paused"

------------------------------------------------------------------------------
(* The loop. *)

At(w, stage) == runs[w] # None /\ runs[w].stage = stage

Leave(w) == runs' = [runs EXCEPT ![w] = None]

Goto(w, run) == runs' = [runs EXCEPT ![w] = run]

\* One session for an incident and a run key.
CreateOrGet ==
    /\ session = None
    /\ session' = [status |-> "ready", version |-> 0, state |-> FreshState, steps |-> <<>>]
    /\ UNCHANGED <<runs, called>>

\* A caller may name the version it observed, however long ago.
Run(w, c, e) ==
    /\ runs[w] = None
    /\ session # None
    /\ Goto(w, [claimant |-> c, expected |-> e, calls |-> 0, stage |-> "loop",
                kind |-> "reasoner", seen |-> None, probe |-> None,
                version |-> 0, step |-> 0, outcome |-> None])
    /\ UNCHANGED <<session, called>>

RecoveryRequired(s) ==
    \/ s.status = "indeterminate"
    \/ s.steps # <<>> /\ Latest(s).status \in {"claimed", "indeterminate"}

ReasonerIsNext(s) == s.steps = <<>> \/ Latest(s).kind = "probe"

\* One turn of the loop reads the session and chooses the next step.
Loop(w) ==
    /\ At(w, "loop")
    /\ IF \/ session.status \in {"completed", "failed"}
          \/ RecoveryRequired(session)
          \/ runs[w].calls >= MaxCalls
       THEN Leave(w)
       ELSE Goto(w, [runs[w] EXCEPT !.stage = "read",
              !.kind = IF ReasonerIsNext(session) THEN "reasoner" ELSE "probe"])
    /\ UNCHANGED <<session, called>>

\* _assert_expected_version, for the first call of the run.
VersionExpected(run) ==
    run.expected # None /\ run.calls = 0 => session.version = run.expected

\* execute_reasoner_step, execute_probe_step: the driver reads the session itself.
\* A latest step of the same kind is replayed or refused; both end the run.
\* The time budget may be spent.
ReadStep(w) ==
    /\ At(w, "read")
    /\ LET run == runs[w] IN
        \/ /\ VersionExpected(run)
           /\ ~LatestIs(session, run.kind, StepStatuses)
           /\ Admitted(session, run.kind)
           /\ Goto(w, [run EXCEPT !.stage = "claim", !.seen = session.state,
                !.probe = IF run.kind = "probe" THEN Latest(session).next ELSE None])
        \/ Leave(w)
    /\ UNCHANGED <<session, called>>

------------------------------------------------------------------------------
(* The claim. *)

RequestDigest(run) == [kind |-> run.kind, state |-> run.seen, probe |-> run.probe]

\* _find_claim_replay, over every step.  Another claimant is a conflict.
ReplayedByLatest(s, digest) == s.steps # <<>> /\ Latest(s).digest = digest

Replayed(s, digest) == \E i \in DOMAIN s.steps : s.steps[i].digest = digest

\* call_granted: only a claim that was written is followed by its call.
CallsAnyway(run, applied, i) == [run EXCEPT !.stage = "call", !.step = i]

AfterClaim(run, applied, i) ==
    IF applied THEN [run EXCEPT !.stage = "call", !.step = i] ELSE None

StepOf(s, digest) == CHOOSE i \in DOMAIN s.steps : s.steps[i].digest = digest

\* claim_step reads the session again.
ReadClaim(w) ==
    /\ At(w, "claim")
    /\ LET run == runs[w]
           digest == RequestDigest(run) IN
        \/ /\ Replayed(session, digest)
           /\ session.steps[StepOf(session, digest)].claimant = run.claimant
           /\ Goto(w, AfterClaim(run, FALSE, StepOf(session, digest)))
        \/ /\ Replayed(session, digest)
           /\ session.steps[StepOf(session, digest)].claimant # run.claimant
           /\ Leave(w)
        \/ /\ ~Replayed(session, digest)
           /\ IF Resumable(session)
              THEN Goto(w, [run EXCEPT !.stage = "swap", !.version = session.version])
              ELSE Leave(w)
    /\ UNCHANGED <<session, called>>

Claimed(run) ==
    [kind |-> run.kind, status |-> "claimed", claimant |-> run.claimant,
     digest |-> RequestDigest(run), probe |-> run.probe, next |-> None]

UnconditionalWrite(version) == TRUE

\* The compare-and-swap of the store, in one transaction.
Swappable(version) == session.version = version

\* A lost swap reads once more: a replay or a conflict, and the run ends.
SwapClaim(w) ==
    /\ At(w, "swap")
    /\ LET run == runs[w] IN
        \/ /\ Swappable(run.version)
           /\ session' = [session EXCEPT
                !.status = "running", !.version = @ + 1, !.state.status = "running",
                !.steps = Append(@, Claimed(run))]
           /\ Goto(w, [AfterClaim(run, TRUE, Len(session.steps) + 1)
                        EXCEPT !.seen = session'.state])
        \/ /\ ~Swappable(run.version)
           /\ Leave(w)
           /\ UNCHANGED session
    /\ UNCHANGED called

------------------------------------------------------------------------------
(* The call and its completion. *)

Call(w) ==
    /\ At(w, "call")
    /\ LET run == runs[w] IN
        /\ called' = [called EXCEPT ![run.step] = @ + 1]
        /\ \E o \in IF run.kind = "reasoner" THEN ReasonerOutcomes(run.seen)
                    ELSE {ProbeOutcome(run.seen, run.probe)} :
             Goto(w, [run EXCEPT !.stage = "complete", !.outcome = o])
    /\ UNCHANGED session

\* _require_active_claim.
ActiveClaim(run) ==
    /\ run.step = Len(session.steps)
    /\ Latest(session).status = "claimed"

\* complete_step.  Only the owner of the claim changes the session meanwhile, so the
\* claim is still active, and its read and its compare-and-swap are one step.
Complete(w) ==
    /\ At(w, "complete")
    /\ ActiveClaim(runs[w])
    /\ LET run == runs[w]
           o == run.outcome IN
        /\ session' = [session EXCEPT
             !.status = SessionStatus(o), !.version = @ + 1, !.state = o.state,
             !.steps[run.step] = [@ EXCEPT !.status = o.status, !.next = o.next]]
        /\ Goto(w, [run EXCEPT !.stage = "loop", !.calls = @ + 1, !.seen = None,
             !.probe = None, !.version = 0, !.step = 0, !.outcome = None])
    /\ UNCHANGED called

\* A crash, a cancellation or an error of the store.
Interrupt(w) ==
    /\ runs[w] # None
    /\ Leave(w)
    /\ UNCHANGED <<session, called>>

Work(w) ==
    \/ Loop(w) \/ ReadStep(w) \/ ReadClaim(w) \/ SwapClaim(w) \/ Call(w) \/ Complete(w)

Observable == IF session = None THEN {} ELSE 0..session.version

Next ==
    \/ CreateOrGet
    \/ \E w \in Workers :
        \/ \E c \in Claimants, e \in Observable \cup {None} : Run(w, c, e)
        \/ Work(w)
        \/ Interrupt(w)

Spec == Init /\ [][Next]_investigationVars

------------------------------------------------------------------------------
(* Properties. *)

LatestAndState(s, status, state) ==
    s.steps # <<>> /\ Latest(s).status = status /\ s.state.status = state

\* validate_session_shape: the status of the session agrees with its latest step
\* and its state, and no earlier step is unresolved.
ShapeHolds(s) ==
    /\ \A i \in 1..Len(s.steps) - 1 : s.steps[i].status \in {"succeeded", "failed"}
    /\ s.status = "ready" => s.steps = <<>> /\ s.state.status = "pending"
    /\ s.status = "running" => LatestAndState(s, "claimed", "running")
    /\ s.status = "paused" => LatestAndState(s, "succeeded", "running")
    /\ s.status = "completed" => LatestAndState(s, "succeeded", "concluded")
    /\ s.status = "failed" => LatestAndState(s, "failed", "failed")
    /\ s.status = "indeterminate" => LatestAndState(s, "indeterminate", "running")

\* Every row and every run is well typed, and every row the workers write passes the
\* validation it meets when it is read again.
TypeOK ==
    /\ session \in Rows \cup {None}
    /\ session # None => ShapeHolds(session)
    /\ runs \in [Workers -> Runs \cup {None}]
    /\ called \in [1..MaxSteps -> Nat]

\* However workers race, retry and crash, the external call of a step is made at most
\* once, and never before the step is in the table.
OneCallPerStep ==
    \A i \in DOMAIN called : called[i] > 0 => called[i] = 1 /\ i <= Len(session.steps)

\* A claim made from a session read earlier never repeats or skips: steps alternate,
\* a probe step collects what the reasoner just asked for, no probe is collected
\* twice and both budgets count every step that was ever granted a call.
StepsWithinLimits ==
    session # None =>
        /\ \A i \in DOMAIN session.steps :
            LET step == session.steps[i] IN
            /\ step.kind = IF i % 2 = 1 THEN "reasoner" ELSE "probe"
            /\ step.kind = "probe" =>
                /\ step.probe = session.steps[i - 1].next
                /\ \A j \in 1..i - 1 : session.steps[j].probe # step.probe
        /\ Cardinality({i \in DOMAIN session.steps : session.steps[i].kind = "reasoner"}) <= MaxIterations
        /\ Cardinality({i \in DOMAIN session.steps : session.steps[i].kind = "probe"}) <= MaxTools

\* The digest a claim is recorded under is that of the state its call is made for,
\* although the driver computed it from an earlier read than the claim's.
ClaimBindsState ==
    session # None /\ session.status = "running" =>
        LET bound == Latest(session).digest.state IN
        [bound EXCEPT !.status = "running"] = session.state

\* What _apply_decision accepts, _required_probe and _assert_reasoner_sequence admit:
\* a paused session is never stuck within its limits.
PausedIsResumable ==
    session # None /\ session.status = "paused" =>
        ReasonerAdmitted(session) \/ ProbeAdmitted(session)

\* A run that names a version advances that version or nothing: a retry that arrives
\* after the step completed does not start the next one.
ExpectedVersionBinds ==
    [][\A w \in Workers :
         At(w, "swap") /\ runs[w].expected # None /\ runs[w].calls = 0 /\ session' # session =>
            At(w, "swap")' \/ session.version = runs[w].expected]_investigationVars

Owned ==
    \E w \in Workers : (At(w, "call") \/ At(w, "complete")) /\ runs[w].step = Len(session.steps)

\* A claim whose worker is gone and an indeterminate step are never resumed, and a
\* finished session never changes.
UnresolvedIsNeverResumed ==
    [][session # None /\ session.status \notin {"ready", "paused"} /\ ~Owned
        => session' = session]_investigationVars

==============================================================================
