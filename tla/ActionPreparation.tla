--------------------------- MODULE ActionPreparation ---------------------------
(***************************************************************************)
(* Preparation of a production action for one incident:                    *)
(* ProductionActionPreparationService.prepare over PreflightArtifactStore  *)
(* and the approval table.                                                 *)
(*                                                                         *)
(* A preparation resolves a preflight against the cluster, stores it under *)
(* the client's idempotency key, creates an approval whose identifier is   *)
(* derived from the artifact's, and binds the two.  Three transactions on  *)
(* two databases: what a caller that dies leaves behind, the next retry of *)
(* the same request must find and finish.                                  *)
(***************************************************************************)
EXTENDS ProductionRequests

CONSTANTS
    Preflights, \* what is asked: cluster, namespace, pod, container, reason
    Views,      \* what the cluster shows of it when it is resolved
    Artifacts   \* contract identifiers, each resolved once (a bound for TLC)

VARIABLES
    artifacts,  \* the table of preflight artifacts
    approvals,  \* the approval derived from each artifact, or None
    runs,       \* the preparation of each worker, or None
    answers     \* the last result each worker returned, or None

vars == <<artifacts, approvals, runs, answers>>

------------------------------------------------------------------------------
\* An operator stands for who asks and the approval reason given.
Requests == [key: Keys, preflight: Preflights, operator: Operators]

\* The plan of an artifact: what was asked, as it was resolved.
Plans == [preflight: Preflights, view: Views]

Records == [key: Keys, plan: Plans, status: {"prepared", "approval_bound"}]

\* Its plan is never flagged approved, so it can only be rejected (see
\* ApprovalDecision).
Approvals == [plan: Plans, operator: Operators, status: {"pending", "rejected"}]

Stages == {"lookup", "resolve", "insert", "reget", "approval", "create", "bind"}

\* artifact and plan: what the run resolved, then what it works with.
Runs ==
    [request: Requests, stage: Stages, artifact: Artifacts \cup {None},
     plan: Plans \cup {None}]

Answers == [request: Requests, artifact: Artifacts]

ASSUME PreparationNone ==
    None \notin Records /\ None \notin Approvals /\ None \notin Runs /\ None \notin Answers

Init ==
    /\ artifacts = [a \in Artifacts |-> None]
    /\ approvals = [a \in Artifacts |-> None]
    /\ runs = [w \in Workers |-> None]
    /\ answers = [w \in Workers |-> None]

------------------------------------------------------------------------------
Stored == {a \in Artifacts : artifacts[a] # None}

\* The rows of an incident and an idempotency key: one at most, by the UNIQUE
\* constraint of the table.
ByKey(key) == {a \in Stored : artifacts[a].key = key}

At(w, stage) == runs[w] # None /\ runs[w].stage = stage

Goto(w, stage) == runs' = [runs EXCEPT ![w].stage = stage]

Leave(w) == runs' = [runs EXCEPT ![w] = None]

AdoptsIdentifier(w, a) ==
    runs' = [runs EXCEPT ![w].artifact = a, ![w].stage = "approval"]

Adopt(w, a) ==
    runs' = [runs EXCEPT ![w].artifact = a, ![w].plan = artifacts[a].plan,
                         ![w].stage = "approval"]

AnyKeyedRequest(a, q) == TRUE

\* require_matches_request.
MatchesRequest(a, q) == artifacts[a].plan.preflight = q.preflight

\* _same_logical_preflight, of the artifact that won and the one that lost.
SameLogicalPreflight(a, plan) == artifacts[a].plan = plan

Begin(w, q) ==
    /\ runs[w] = None
    /\ runs' = [runs EXCEPT ![w] =
         [request |-> q, stage |-> "lookup", artifact |-> None, plan |-> None]]
    /\ UNCHANGED <<artifacts, approvals, answers>>

\* A stored artifact of the key is used again, or is that of another request.
Lookup(w) ==
    /\ At(w, "lookup")
    /\ LET q == runs[w].request IN
        \/ /\ ByKey(q.key) = {}
           /\ Goto(w, "resolve")
        \/ \E a \in ByKey(q.key) :
            IF MatchesRequest(a, q) THEN Adopt(w, a) ELSE Leave(w)
    /\ UNCHANGED <<artifacts, approvals, answers>>

Fresh(a) ==
    /\ artifacts[a] = None
    /\ approvals[a] = None
    /\ \A w \in Workers : runs[w] # None => runs[w].artifact # a

\* The resolver reads the cluster and dry-runs a patch; it may refuse.
Resolve(w) ==
    /\ At(w, "resolve")
    /\ \/ \E a \in Artifacts, view \in Views :
            /\ Fresh(a)
            /\ runs' = [runs EXCEPT
                 ![w].stage = "insert", ![w].artifact = a,
                 ![w].plan = [preflight |-> runs[w].request.preflight, view |-> view]]
       \/ Leave(w)
    /\ UNCHANGED <<artifacts, approvals, answers>>

InsertableByIdentity(key) == TRUE

Insertable(key) == ByKey(key) = {}

\* insert_prepared.
Insert(w) ==
    /\ At(w, "insert")
    /\ LET run == runs[w] IN
        \/ /\ Insertable(run.request.key)
           /\ artifacts' = [artifacts EXCEPT ![run.artifact] =
                [key |-> run.request.key, plan |-> run.plan, status |-> "prepared"]]
           /\ Goto(w, "approval")
        \/ /\ ~Insertable(run.request.key)
           /\ Goto(w, "reget")
           /\ UNCHANGED artifacts
    /\ UNCHANGED <<approvals, answers>>

KeepsItsOwn(w, a) == Goto(w, "approval")

Continues(w, a) == Adopt(w, a)

\* claim_prepared, after a conflict: the run goes on with the artifact that won.
Reget(w) ==
    /\ At(w, "reget")
    /\ \E a \in ByKey(runs[w].request.key) :
        IF SameLogicalPreflight(a, runs[w].plan) /\ MatchesRequest(a, runs[w].request)
        THEN Continues(w, a)
        ELSE Leave(w)
    /\ UNCHANGED <<artifacts, approvals, answers>>

\* _require_matching_approval: plan, reason and preparing operator.
MatchingApproval(approval, run) ==
    /\ approval.plan = run.plan
    /\ approval.operator = run.request.operator

\* _ensure_approval.
ReadApproval(w) ==
    /\ At(w, "approval")
    /\ LET approval == approvals[runs[w].artifact] IN
        \/ /\ approval = None
           /\ Goto(w, "create")
        \/ /\ approval # None
           /\ IF MatchingApproval(approval, runs[w]) THEN Goto(w, "bind") ELSE Leave(w)
    /\ UNCHANGED <<artifacts, approvals, answers>>

\* The INSERT of create_approval; an approval that appeared meanwhile is read again,
\* and approvals are never deleted.
CreateApproval(w) ==
    /\ At(w, "create")
    /\ LET a == runs[w].artifact IN
        \/ /\ approvals[a] = None
           /\ approvals' = [approvals EXCEPT ![a] =
                [plan |-> runs[w].plan, operator |-> runs[w].request.operator,
                 status |-> "pending"]]
           /\ Goto(w, "bind")
        \/ /\ approvals[a] # None
           /\ Goto(w, "approval")
           /\ UNCHANGED approvals
    /\ UNCHANGED <<artifacts, answers>>

\* bind_approval, in one transaction; the approval's identifier is that of the
\* artifact, so a bound one is bound to it.
Bind(w) ==
    /\ At(w, "bind")
    /\ runs[w].artifact \in Stored
    /\ artifacts' = [artifacts EXCEPT ![runs[w].artifact].status = "approval_bound"]
    /\ answers' = [answers EXCEPT ![w] =
         [request |-> runs[w].request, artifact |-> runs[w].artifact]]
    /\ Leave(w)
    /\ UNCHANGED approvals

\* A reviewer.
Reject(a) ==
    /\ approvals[a] # None
    /\ approvals[a].status = "pending"
    /\ approvals' = [approvals EXCEPT ![a].status = "rejected"]
    /\ UNCHANGED <<artifacts, runs, answers>>

\* A crash, a cancellation or an error of a store.
Interrupt(w) ==
    /\ runs[w] # None
    /\ Leave(w)
    /\ UNCHANGED <<artifacts, approvals, answers>>

Prepare(w) ==
    \/ Lookup(w) \/ Resolve(w) \/ Insert(w) \/ Reget(w)
    \/ ReadApproval(w) \/ CreateApproval(w) \/ Bind(w)

Next ==
    \/ \E w \in Workers :
        \/ \E q \in Requests : Begin(w, q)
        \/ Prepare(w)
        \/ Interrupt(w)
    \/ \E a \in Artifacts : Reject(a)

Spec == Init /\ [][Next]_vars

------------------------------------------------------------------------------
(* Properties. *)

\* Every artifact, approval, run and answer is well typed.
TypeOK ==
    /\ artifacts \in [Artifacts -> Records \cup {None}]
    /\ approvals \in [Artifacts -> Approvals \cup {None}]
    /\ runs \in [Workers -> Runs \cup {None}]
    /\ answers \in [Workers -> Answers \cup {None}]

\* Whoever prepares under one key, and whenever, is given the same artifact, bound to
\* an approval of exactly its plan: no race or retry yields a second one to approve.
AnswersAgree ==
    \A v, w \in Workers : answers[v] # None =>
        LET a == answers[v].artifact IN
        /\ artifacts[a] # None
        /\ artifacts[a].status = "approval_bound"
        /\ approvals[a] # None
        /\ approvals[a].plan = artifacts[a].plan
        /\ answers[w] # None /\ answers[w].request.key = answers[v].request.key
             => answers[w].artifact = a

\* A client is never given the preparation of another request that used its key, nor
\* an approval that another operator asked for.
AnsweredAsAsked ==
    \A w \in Workers : answers[w] # None =>
        LET q == answers[w].request
            a == answers[w].artifact IN
        /\ artifacts[a].key = q.key
        /\ artifacts[a].plan.preflight = q.preflight
        /\ approvals[a].operator = q.operator

\* An approval exists only for a stored artifact: nobody is asked to approve the plan
\* of a preparation that lost the race for its key.
ApprovalsFollowArtifacts ==
    \A a \in Artifacts : approvals[a] # None =>
        artifacts[a] # None /\ approvals[a].plan = artifacts[a].plan

==============================================================================
