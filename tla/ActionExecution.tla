--------------------------- MODULE ActionExecution ---------------------------
(***************************************************************************)
(* The durable claim of an approved action: ActionExecutionStore (one      *)
(* SQLite table) and ActionExecutionService.                               *)
(*                                                                         *)
(* A claim is one BEGIN IMMEDIATE transaction.  Every outcome is a read,   *)
(* a decision outside any transaction and a compare-and-set on the status, *)
(* so workers (API requests of any number of processes that share the      *)
(* database) interleave between the read and the write, and may crash      *)
(* there.  A lost compare-and-set is followed by a fresh read that tells   *)
(* a replay from a conflict.                                               *)
(***************************************************************************)
EXTENDS Naturals

CONSTANTS
    ExecutionIds,   \* uuid4 identifiers; their number bounds the claims of a run
    Approvals,
    ApprovedPlans,  \* approvals whose ActionPlan carries approved = True
    Keys,           \* idempotency keys of claims
    Operators,      \* the rest of a claim: operator, incident, action, metadata
    Reconcilers,    \* the rest of a reconciliation: operator, key, reason, metadata
    Results,        \* result, error_type and error_message of an outcome
    Workers,
    None

ASSUME PlansAssumption == ApprovedPlans \subseteq Approvals

VARIABLES
    executions,     \* the table: a record or None for each identifier
    calls,          \* the outcome each worker is persisting, or None
    replies,        \* what each worker was last told
    launches,       \* history: claims answered created=True, per approval
    resolutions     \* history: reconciliations answered applied=True, per record

vars == <<executions, calls, replies, launches, resolutions>>

------------------------------------------------------------------------------
Outcomes == {"succeeded", "failed"}
Statuses == Outcomes \cup {"running", "indeterminate"}

Claims == [approval: Approvals, operator: Operators, key: Keys]

Decisions == [outcome: Outcomes, reconciler: Reconcilers, result: Results]

Executions ==
    [claim: Claims, status: Statuses, result: Results \cup {None},
     reconciliation: Decisions \cup {None}]

\* A call between its read and its answer: `updated` is the candidate record
\* built from what was read.
Calls == [id: ExecutionIds, updated: Executions, stage: {"update", "refresh"}]

ReplyKinds == {"none", "created", "replayed", "persisted", "applied", "conflict", "invalid"}

Replies ==
    [kind: ReplyKinds, id: ExecutionIds \cup {None},
     status: Statuses \cup {None}, result: Results \cup {None}]

\* None is no value of the other constants.
ASSUME NoneAssumption ==
    /\ None \notin Calls /\ None \notin Executions /\ None \notin Decisions
    /\ None \notin Statuses /\ None \notin ExecutionIds /\ None \notin Results

Init ==
    /\ executions = [id \in ExecutionIds |-> None]
    /\ calls = [w \in Workers |-> None]
    /\ replies = [w \in Workers |->
                    [kind |-> "none", id |-> None, status |-> None, result |-> None]]
    /\ launches = [a \in Approvals |-> 0]
    /\ resolutions = [id \in ExecutionIds |-> 0]

------------------------------------------------------------------------------
(* The table and the answers built from it. *)

Persisted == {id \in ExecutionIds : executions[id] # None}
ByApproval(a) == {id \in Persisted : executions[id].claim.approval = a}
ByKey(k) == {id \in Persisted : executions[id].claim.key = k}

Claimed(q) ==
    [claim |-> q, status |-> "claimed", result |-> None, reconciliation |-> None]

\* What a new claim persists.
Running(q) ==
    [claim |-> q, status |-> "running", result |-> None, reconciliation |-> None]

Answer(kind, id, record) ==
    [kind |-> kind, id |-> id, status |-> record.status, result |-> record.result]

Refusal(kind) == [kind |-> kind, id |-> None, status |-> None, result |-> None]

\* The worker is told at once: nothing is left to persist.
Reply(w, answer) ==
    /\ replies' = [replies EXCEPT ![w] = answer]
    /\ UNCHANGED <<executions, calls, launches, resolutions>>

------------------------------------------------------------------------------
(* Claims. *)

UnclaimedByKeyAlone(q) == ByKey(q.key) = {}
UnclaimedByApprovalAlone(q) == ByApproval(q.approval) = {}

\* Neither the approval nor the key is bound yet.
Unclaimed(q) == ByApproval(q.approval) = {} /\ ByKey(q.key) = {}

\* Both lookups find the same record, and it holds exactly this request.
SameClaim(q, id) ==
    /\ ByApproval(q.approval) = {id}
    /\ ByKey(q.key) = {id}
    /\ executions[id].claim = q

ClaimNew(w, q, id) ==
    /\ calls[w] = None
    /\ q.approval \in ApprovedPlans
    /\ Unclaimed(q)
    /\ executions[id] = None
    /\ executions' = [executions EXCEPT ![id] = Running(q)]
    /\ launches' = [launches EXCEPT ![q.approval] = @ + 1]
    /\ replies' = [replies EXCEPT ![w] = Answer("created", id, Running(q))]
    /\ UNCHANGED <<calls, resolutions>>

ClaimReplay(w, q, id) ==
    /\ calls[w] = None
    /\ q.approval \in ApprovedPlans
    /\ SameClaim(q, id)
    /\ Reply(w, Answer("replayed", id, executions[id]))

ClaimConflict(w, q) ==
    /\ calls[w] = None
    /\ q.approval \in ApprovedPlans
    /\ ~Unclaimed(q)
    /\ \A id \in ExecutionIds : ~SameClaim(q, id)
    /\ Reply(w, Refusal("conflict"))

\* An action nobody approved is refused before the transaction starts.
ClaimInvalid(w, q) ==
    /\ calls[w] = None
    /\ q.approval \notin ApprovedPlans
    /\ Reply(w, Refusal("invalid"))

------------------------------------------------------------------------------
(* Outcomes: the read.  Records are never deleted, so the identifiers a     *)
(* worker can name are those of persisted records.                          *)

\* The candidate is built from the snapshot just read; the write comes later.
Prepare(w, id, updated) ==
    /\ calls' = [calls EXCEPT ![w] = [id |-> id, updated |-> updated, stage |-> "update"]]
    /\ UNCHANGED <<executions, replies, launches, resolutions>>

\* Service.succeed and Service.fail, s the outcome.
Settle(w, id, s, r) ==
    /\ calls[w] = None
    /\ id \in Persisted
    /\ LET current == executions[id] IN
        \/ /\ current.status = "running"
           /\ Prepare(w, id, [current EXCEPT !.status = s, !.result = r])
        \/ /\ current.status = s /\ current.result = r
           /\ Reply(w, Answer("replayed", id, current))
        \/ /\ current.status # "running"
           /\ <<current.status, current.result>> # <<s, r>>
           /\ Reply(w, Refusal("conflict"))

MarkIndeterminate(w, id) ==
    /\ calls[w] = None
    /\ id \in Persisted
    /\ LET current == executions[id] IN
        \/ /\ current.status = "running"
           /\ Prepare(w, id, [current EXCEPT !.status = "indeterminate"])
        \/ /\ current.status = "indeterminate"
           /\ Reply(w, Answer("replayed", id, current))
        \/ /\ current.status \in Outcomes
           /\ Reply(w, Refusal("conflict"))

Reconcile(w, id, d) ==
    /\ calls[w] = None
    /\ id \in Persisted
    /\ LET current == executions[id] IN
        \/ /\ current.reconciliation = d
           /\ Reply(w, Answer("replayed", id, current))
        \/ /\ current.reconciliation # d
           /\ current.reconciliation # None \/ current.status # "indeterminate"
           /\ Reply(w, Refusal("conflict"))
        \/ /\ current.reconciliation = None
           /\ current.status = "indeterminate"
           /\ Prepare(w, id, [current EXCEPT !.status = d.outcome, !.result = d.result,
                                             !.reconciliation = d])

------------------------------------------------------------------------------
(* Outcomes: the write and what follows a lost compare-and-set. *)

ExpectedStatus(updated) ==
    IF updated.reconciliation = None THEN "running" ELSE "indeterminate"

\* _validate_transition's table.
Allowed(from, to) ==
    \/ from = "running" /\ to \in Outcomes \cup {"indeterminate"}
    \/ from = "indeterminate" /\ to \in Outcomes

WritableOnTransitionAlone(current, updated) ==
    current.claim = updated.claim /\ Allowed(current.status, updated.status)
WritableAlways(current, updated) == current.claim = updated.claim

\* The transaction of _update_sync: immutable fields, expected status, table.
Writable(current, updated) ==
    /\ current.claim = updated.claim
    /\ current.status = ExpectedStatus(updated)
    /\ Allowed(current.status, updated.status)

Update(w) ==
    /\ calls[w] # None
    /\ calls[w].stage = "update"
    /\ LET c == calls[w] IN
        \/ /\ Writable(executions[c.id], c.updated)
           /\ executions' = [executions EXCEPT ![c.id] = c.updated]
           /\ replies' = [replies EXCEPT ![w] =
                Answer(IF c.updated.reconciliation = None THEN "persisted" ELSE "applied",
                       c.id, c.updated)]
           /\ resolutions' = IF c.updated.reconciliation = None THEN resolutions
                             ELSE [resolutions EXCEPT ![c.id] = @ + 1]
           /\ calls' = [calls EXCEPT ![w] = None]
           /\ UNCHANGED launches
        \/ /\ ~Writable(executions[c.id], c.updated)
           /\ calls' = [calls EXCEPT ![w].stage = "refresh"]
           /\ UNCHANGED <<executions, replies, launches, resolutions>>

AcceptsAnyOutcome(current, updated) == current.status \in Outcomes

\* What a caller that lost the race accepts as its own outcome.
SameOutcome(current, updated) ==
    \/ /\ updated.reconciliation # None
       /\ current.reconciliation = updated.reconciliation
    \/ /\ updated.reconciliation = None
       /\ updated.status = "indeterminate"
       /\ current.status = "indeterminate"
    \/ /\ updated.reconciliation = None
       /\ updated.status \in Outcomes
       /\ current.status = updated.status
       /\ current.result = updated.result

\* The answer of an accepted call is the outcome asked for: SameOutcome says that
\* the record returned carries it.
Refresh(w) ==
    /\ calls[w] # None
    /\ calls[w].stage = "refresh"
    /\ LET c == calls[w]
           current == executions[c.id] IN
        \/ /\ SameOutcome(current, c.updated)
           /\ replies' = [replies EXCEPT ![w] = Answer("replayed", c.id, c.updated)]
        \/ /\ ~SameOutcome(current, c.updated)
           /\ replies' = [replies EXCEPT ![w] = Refusal("conflict")]
    /\ calls' = [calls EXCEPT ![w] = None]
    /\ UNCHANGED <<executions, launches, resolutions>>

\* The process dies between its read and its write: the call has no effect and
\* no answer.
Crash(w) ==
    /\ calls[w] # None
    /\ calls' = [calls EXCEPT ![w] = None]
    /\ replies' = [replies EXCEPT ![w] = Refusal("none")]
    /\ UNCHANGED <<executions, launches, resolutions>>

------------------------------------------------------------------------------
Next ==
    \E w \in Workers :
        \/ \E q \in Claims, id \in ExecutionIds : ClaimNew(w, q, id) \/ ClaimReplay(w, q, id)
        \/ \E q \in Claims : ClaimConflict(w, q) \/ ClaimInvalid(w, q)
        \/ \E id \in ExecutionIds, s \in Outcomes, r \in Results : Settle(w, id, s, r)
        \/ \E id \in ExecutionIds : MarkIndeterminate(w, id)
        \/ \E id \in ExecutionIds, d \in Decisions : Reconcile(w, id, d)
        \/ Update(w)
        \/ Refresh(w)
        \/ Crash(w)

Spec == Init /\ [][Next]_vars

------------------------------------------------------------------------------
(* Properties. *)

\* Every record, call in flight and answer is well typed.
TypeOK ==
    /\ executions \in [ExecutionIds -> Executions \cup {None}]
    /\ calls \in [Workers -> Calls \cup {None}]
    /\ replies \in [Workers -> Replies]
    /\ launches \in [Approvals -> Nat]
    /\ resolutions \in [ExecutionIds -> Nat]

\* However many workers claim, retry and crash, no two records share an approval
\* or an idempotency key (claim's "only automatic launch for an approval").
ClaimsAreUnique ==
    \A i, j \in Persisted :
        i # j => /\ executions[i].claim.approval # executions[j].claim.approval
                 /\ executions[i].claim.key # executions[j].claim.key

\* The answer created=True, the permission to call the executor, is given once
\* for an approval: exactly when its record exists.
LaunchedOnce ==
    \A a \in Approvals : launches[a] = IF ByApproval(a) = {} THEN 0 ELSE 1

\* A worker that was told its outcome is recorded was told the truth, and stays
\* right whatever the others do afterwards; this covers the answers given after
\* a lost compare-and-set.
AcknowledgedOutcomeStands ==
    \A w \in Workers :
        replies[w].status \in Outcomes =>
            /\ replies[w].id \in Persisted
            /\ executions[replies[w].id].status = replies[w].status
            /\ executions[replies[w].id].result = replies[w].result

\* One reconciliation per record is answered applied=True, and the record then
\* carries the outcome that decision names.
ReconciledOnce ==
    \A id \in ExecutionIds :
        IF id \in Persisted /\ executions[id].reconciliation # None
        THEN /\ resolutions[id] = 1
             /\ executions[id].status = executions[id].reconciliation.outcome
             /\ executions[id].result = executions[id].reconciliation.result
        ELSE resolutions[id] = 0

\* The candidate of a call in flight belongs to a persisted record, keeps its
\* claim and moves it forward; with ReconciledOnce and ClaimsAreUnique this is
\* what makes the properties above inductive.
CallsFollowRecords ==
    \A w \in Workers :
        calls[w] # None =>
            LET c == calls[w] IN
            /\ c.id \in Persisted
            /\ c.updated.claim = executions[c.id].claim
            /\ c.updated.status # "running"
            /\ c.updated.reconciliation # None =>
                 /\ c.updated.status = c.updated.reconciliation.outcome
                 /\ c.updated.result = c.updated.reconciliation.result

\* An executor's late answer never overwrites an indeterminate record: only an
\* operator's decision takes a record out of that state.
IndeterminateNeedsDecision ==
    [][\A id \in Persisted :
        executions[id].status = "indeterminate" /\ executions'[id] # executions[id]
            => executions'[id].reconciliation # None]_vars

\* A record that reached an outcome is never written again.
OutcomesAreFinal ==
    [][\A id \in Persisted :
        executions[id].status \in Outcomes => executions'[id] = executions[id]]_vars

\* Refinement: where the (only) record of an approval stands.
Phase(a) ==
    IF ByApproval(a) = {} THEN [status |-> "unclaimed", result |-> None]
    ELSE LET record == executions[CHOOSE id \in ByApproval(a) : TRUE]
         IN  [status |-> record.status, result |-> record.result]

Lifecycle == INSTANCE ExecutionLifecycle WITH phase <- [a \in Approvals |-> Phase(a)]

\* Every step of the workers is one step of the abstract lifecycle or none.
ImplementsLifecycle == Lifecycle!Spec

==============================================================================
