----------------------------- MODULE PilotGoNoGo -----------------------------
(***************************************************************************)
(* The last two steps before a production pilot may be enabled: one        *)
(* durable, read-only live probe of the target with both credentials, and  *)
(* one decision, GO or NO_GO, over its record                              *)
(* (ProductionPilotGoNoGoService over ProductionPilotGoNoGoStore).         *)
(*                                                                         *)
(* Both rest on the final handoff report, which is computed again at every *)
(* use from evidence that others change.  A report stands here for its     *)
(* digest, hence for everything that goes into it: approval, pilot,        *)
(* operators, configuration and the handoff request.  A request is a       *)
(* worker; one step is the code between two awaits, and the request may be *)
(* cut off after each of them.                                             *)
(***************************************************************************)
EXTENDS ProductionRequests, Naturals

CONSTANTS
    Reports,      \* final handoff reports that pass
    ApprovalOf,   \* the approval of each report
    PilotOf,      \* its pilot
    ExecutorOf,   \* its reviewed executor
    OwnersOf,     \* its on-call, rollback and reconciliation owners
    ReviewersOf   \* those who decided the approval and reviewed the ceremony

ASSUME OperatorsAssumption ==
    /\ ExecutorOf \in [Reports -> Operators]
    /\ OwnersOf \in [Reports -> SUBSET Operators]
    /\ ReviewersOf \in [Reports -> SUBSET Operators]

VARIABLES
    current,    \* external: the reports a rehearsal of their request gives now
    expired,    \* external: those whose contract, pilot window or probe time is over
    probes,     \* the live probe of each report, or None
    decisions,  \* the decision over the probe of each report, or None
    jobs,       \* the request each worker serves, or None
    probed,     \* history: how often the target was probed for each report
    confirmed,  \* history: the last step since which each report has been current
    told        \* history: what requests asked and which record they were answered

external == <<current, expired>>
tables == <<probes, decisions>>
history == <<probed, confirmed, told>>
pilotVars == <<external, tables, jobs, history>>

Results == {"passed", "failed"}

Probes == [status: {"running"} \cup Results, key: Keys]

Decisions == [reviewer: Operators, key: Keys, decision: {"go", "no_go"}, seen: {"running"} \cup Results]

ProbeJobs ==
    [stage: {"claim", "get", "recheck", "complete"},
     report: Reports, key: Keys, result: Results \cup {None}]

DecisionJobs == [stage: {"check", "store"}, report: Reports, asked: Decisions]

DecisionReplies == [report: Reports, asked: Decisions, answer: Decisions]

Jobs == ProbeJobs \cup DecisionJobs

ASSUME PilotNone ==
    None \notin Results /\ None \notin Probes /\ None \notin Decisions /\ None \notin Jobs

PilotInit ==
    /\ current \in SUBSET Reports
    /\ expired = {}
    /\ probes = [r \in Reports |-> None]
    /\ decisions = [r \in Reports |-> None]
    /\ jobs = [w \in Workers |-> None]
    /\ probed = [r \in Reports |-> 0]
    /\ confirmed = [r \in Reports |-> "never"]
    /\ told = {}

------------------------------------------------------------------------------
(* Requests. *)

Idle(w) == jobs[w] = None

Serves(w, stage) == jobs[w] # None /\ jobs[w].stage = stage

EndJob(w) == jobs' = [jobs EXCEPT ![w] = None]

\* Rehearsed with the request of r, the handoff is that very report and passes.  The
\* code reads the evidence part by part, from several stores, and others may run in
\* between: taken as one step, each part was current at some time of the rehearsal.
Rehearses(r) == r \in current

\* A report that is current now has been so since the step.
Confirm(r, step) ==
    confirmed' = [confirmed EXCEPT ![r] = IF Rehearses(r) THEN step ELSE @]

------------------------------------------------------------------------------
(* run_live_probe. *)

\* The handoff is rehearsed, must be the report asked for, pass, and name the caller
\* as its executor; then the clock is read.
LoadHandoff(w, r, operator, key) ==
    /\ Idle(w)
    /\ Rehearses(r)
    /\ operator = ExecutorOf[r]
    /\ r \notin expired
    /\ jobs' = [jobs EXCEPT ![w] =
         [stage |-> "claim", report |-> r, key |-> key, result |-> None]]
    /\ UNCHANGED <<external, tables, history>>

ClaimedPerApproval(r, key) ==
    {s \in Reports : probes[s] # None /\
        \/ ApprovalOf[s] = ApprovalOf[r]
        \/ ExecutorOf[s] = ExecutorOf[r] /\ probes[s].key = key}

\* The rows a claim meets: those of its approval, its pilot or its key.
Claimed(r, key) ==
    {s \in Reports : probes[s] # None /\
        \/ ApprovalOf[s] = ApprovalOf[r]
        \/ PilotOf[s] = PilotOf[r]
        \/ ExecutorOf[s] = ExecutorOf[r] /\ probes[s].key = key}

\* The first claim goes on to the probe; a repeated one is told the record as it is,
\* any other that the pilot is bound.
ClaimProbe(w) ==
    /\ Serves(w, "claim")
    /\ LET r == jobs[w].report
           key == jobs[w].key IN
        IF Claimed(r, key) = {}
        THEN /\ probes' = [probes EXCEPT ![r] = [status |-> "running", key |-> key]]
             /\ jobs' = [jobs EXCEPT ![w].stage = "get"]
        ELSE EndJob(w) /\ UNCHANGED probes
    /\ UNCHANGED <<external, decisions, history>>

\* One GET with each credential: both show the target as the contract binds it, or
\* transport, authorization, size or content of an answer fail the probe.
Findings == {"consistent", "failed"}

\* What is read too late counts as failed.
Get(w) ==
    /\ Serves(w, "get")
    /\ LET r == jobs[w].report IN
        /\ \E finding \in Findings :
            IF finding = "consistent" /\ r \notin expired
            THEN jobs' = [jobs EXCEPT ![w].stage = "recheck"]
            ELSE jobs' = [jobs EXCEPT ![w].stage = "complete", ![w].result = "failed"]
        /\ probed' = [probed EXCEPT ![r] = @ + 1]
        /\ Confirm(r, "after_probe")
    /\ UNCHANGED <<external, tables, told>>

PassesUnchecked(r) == "passed"

\* What the handoff, rehearsed again, makes of a consistent target.
ResultOf(r) == IF Rehearses(r) THEN "passed" ELSE "failed"

Recheck(w) ==
    /\ Serves(w, "recheck")
    /\ jobs' = [jobs EXCEPT ![w].stage = "complete", ![w].result = ResultOf(jobs[w].report)]
    /\ UNCHANGED <<external, tables, history>>

Complete(w) ==
    /\ Serves(w, "complete")
    /\ LET r == jobs[w].report
           result == jobs[w].result IN
        IF probes[r].status = "running"
        THEN /\ probes' = [probes EXCEPT ![r].status = result]
             /\ IF result = "passed" THEN Confirm(r, "after_pass") ELSE UNCHANGED confirmed
        ELSE UNCHANGED <<probes, confirmed>>
    /\ EndJob(w)
    /\ UNCHANGED <<external, decisions, probed, told>>

------------------------------------------------------------------------------
(* decide. *)

\* The probe is read by approval and must be the record the reviewer names, so that
\* `seen` stands for its digest; executor and owners may not decide, and GO needs a
\* probe that passed and is not over.
ReadProbe(w, r, reviewer, key, decision) ==
    /\ Idle(w)
    /\ probes[r] # None
    /\ reviewer \notin {ExecutorOf[r]} \cup OwnersOf[r]
    /\ decision = "go" => probes[r].status = "passed" /\ r \notin expired
    /\ jobs' = [jobs EXCEPT ![w] =
         [stage |-> IF decision = "go" THEN "check" ELSE "store",
          report |-> r,
          asked |-> [reviewer |-> reviewer, key |-> key, decision |-> decision,
                     seen |-> probes[r].status]]]
    /\ UNCHANGED <<external, tables, history>>

MayGoUnchecked(r, reviewer) == TRUE

\* The handoff is rehearsed a third time, and names two more who may not say GO.
MayGo(r, reviewer) == Rehearses(r) /\ reviewer \notin ReviewersOf[r]

CheckGo(w) ==
    /\ Serves(w, "check")
    /\ IF MayGo(jobs[w].report, jobs[w].asked.reviewer)
       THEN jobs' = [jobs EXCEPT ![w].stage = "store"]
       ELSE EndJob(w)
    /\ UNCHANGED <<external, tables, history>>

\* The rows a decision meets: those of its probe, approval, pilot or key.
Decided(r, asked) ==
    {s \in Reports : decisions[s] # None /\
        \/ ApprovalOf[s] = ApprovalOf[r]
        \/ PilotOf[s] = PilotOf[r]
        \/ decisions[s].reviewer = asked.reviewer /\ decisions[s].key = asked.key}

SameReviewer(r, asked) ==
    Decided(r, asked) = {r} /\ decisions[r].reviewer = asked.reviewer

\* A request repeats a decision when it is the same in everything.
Repeats(r, asked) == Decided(r, asked) = {r} /\ decisions[r] = asked

\* A request that is answered gets the record: the one it made, or the one it found.
Tell(r, asked, answer) ==
    told' = told \cup {[report |-> r, asked |-> asked, answer |-> answer]}

\* The record must still be the one that was reviewed; then the decision is the
\* first, or the same again, or refused.
StoreDecision(w) ==
    /\ Serves(w, "store")
    /\ LET r == jobs[w].report
           asked == jobs[w].asked
           unchanged == probes[r].status = asked.seen IN
        \/ /\ unchanged /\ Decided(r, asked) = {}
           /\ decisions' = [decisions EXCEPT ![r] = asked]
           /\ Tell(r, asked, asked)
        \/ /\ unchanged /\ Repeats(r, asked)
           /\ Tell(r, asked, decisions[r])
           /\ UNCHANGED decisions
        \/ /\ ~unchanged \/ (Decided(r, asked) # {} /\ ~Repeats(r, asked))
           /\ UNCHANGED <<decisions, told>>
    /\ EndJob(w)
    /\ UNCHANGED <<external, probes, probed, confirmed>>

------------------------------------------------------------------------------
(* Around the requests. *)

\* The process dies, the task is cancelled, or something fails that is no failure of
\* the probe: a claimed probe stays RUNNING.
InterruptJob(w) ==
    /\ jobs[w] # None
    /\ EndJob(w)
    /\ UNCHANGED <<external, tables, history>>

\* Evidence, configuration, credentials or the kill switch change.
Change(reports) ==
    /\ current' = reports
    /\ confirmed' = [r \in Reports |->
         IF r \notin reports \/ probed[r] = 0 THEN confirmed[r]
         ELSE IF probes[r].status = "passed" THEN "after_pass" ELSE "after_probe"]
    /\ UNCHANGED <<expired, tables, jobs, probed, told>>

Expire(r) ==
    /\ expired' = expired \cup {r}
    /\ UNCHANGED <<current, tables, jobs, history>>

------------------------------------------------------------------------------
PilotNext ==
    \/ \E w \in Workers :
        \/ \E r \in Reports, operator \in Operators, key \in Keys :
            LoadHandoff(w, r, operator, key)
        \/ ClaimProbe(w) \/ Get(w) \/ Recheck(w) \/ Complete(w)
        \/ \E r \in Reports, reviewer \in Operators, key \in Keys, decision \in {"go", "no_go"} :
            ReadProbe(w, r, reviewer, key, decision)
        \/ CheckGo(w) \/ StoreDecision(w)
        \/ InterruptJob(w)
    \/ \E reports \in SUBSET Reports : Change(reports)
    \/ \E r \in Reports : Expire(r)

PilotSpec == PilotInit /\ [][PilotNext]_pilotVars

------------------------------------------------------------------------------
(* Properties. *)

\* Evidence, records, requests and history are well typed.
PilotTypeOK ==
    /\ current \subseteq Reports
    /\ expired \subseteq Reports
    /\ probes \in [Reports -> Probes \cup {None}]
    /\ decisions \in [Reports -> Decisions \cup {None}]
    /\ jobs \in [Workers -> Jobs \cup {None}]
    /\ probed \in [Reports -> Nat]
    /\ confirmed \in [Reports -> {"never", "after_probe", "after_pass"}]
    /\ told \subseteq DecisionReplies

\* Whoever asks, with whatever key, report or approval, and however often requests
\* die and are repeated, the target of a pilot is probed at most once (the runbook
\* forbids to repeat the probe by itself).
ProbedOnce ==
    \A r, s \in Reports :
        /\ probed[r] <= 1
        /\ PilotOf[r] = PilotOf[s] /\ probed[r] = 1 /\ probed[s] = 1 => r = s

\* A probe is PASSED only if its evidence was still current at some time after the
\* cluster was read, and a GO stands only on such a probe, with evidence that was
\* current again after it had passed, said by someone with no other duty in the pilot.
\* "Current" is what a rehearsal finds, so each part of the evidence for itself.
GoIsBacked ==
    \A r \in Reports :
        /\ probes[r] # None /\ probes[r].status = "passed" => confirmed[r] # "never"
        /\ decisions[r] # None /\ decisions[r].decision = "go" =>
            /\ probes[r].status = "passed"
            /\ probed[r] = 1
            /\ confirmed[r] = "after_pass"
            /\ decisions[r].reviewer \notin {ExecutorOf[r]} \cup OwnersOf[r] \cup ReviewersOf[r]

\* Every answered request was answered the decision that is on record for good, and
\* that decision is the one it asked for; all answers about one pilot are the same.
\* Reviewers race, change their minds and repeat requests whose answer was lost.
DecisionsAgree ==
    \A x, y \in told :
        /\ x.answer = decisions[x.report]
        /\ x.asked = x.answer
        /\ PilotOf[x.report] = PilotOf[y.report] => x = y

==============================================================================
