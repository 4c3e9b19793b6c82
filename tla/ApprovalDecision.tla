--------------------------- MODULE ApprovalDecision ---------------------------
(***************************************************************************)
(* Human decisions on approval requests: ApprovalManager over              *)
(* ApprovalStore (one SQLite table), with the guard that production        *)
(* composes in.                                                            *)
(*                                                                         *)
(* A decision reads the request, awaits the guard, changes its own copy    *)
(* and writes it back if the stored status is still PENDING.  Callers      *)
(* interleave at every await.  The copy is an ApprovalRequest, which       *)
(* recomputes the fingerprint of the whole plan, its `approved` flag       *)
(* included, on every assignment (validate_assignment): a decision that    *)
(* changes the flag is refused by the model, before the write.             *)
(***************************************************************************)
CONSTANTS
    Requests,    \* approval identifiers
    PreApproved, \* requests whose plan was created with approved = True
    Audits,      \* operator, idempotency key, reason and metadata of a decision
    Workers,
    None

ASSUME PreApprovedAssumption == PreApproved \subseteq Requests

VARIABLES
    approvals,   \* the table: a request or None for each identifier
    calls,       \* the decision each worker is carrying out, or None
    replies      \* what each worker was last told

vars == <<approvals, calls, replies>>

------------------------------------------------------------------------------
Targets == {"approved", "rejected"}

\* audit = None is an unaudited (legacy, in-process) decision.
Decisions == [target: Targets, audit: Audits]

\* plan is the `approved` flag of the ActionPlan, bound the flag its stored
\* fingerprint was computed from.
Approvals ==
    [status: {"pending"} \cup Targets, plan: BOOLEAN, bound: BOOLEAN,
     decision: Decisions \cup {None}]

\* `copy` is the request as the call read and changed it; `refused` remembers
\* that the guard raised.
Calls ==
    [id: Requests, target: Targets, audit: Audits \cup {None}, copy: Approvals,
     refused: BOOLEAN, stage: {"guard", "recheck", "update", "refresh"}]

ReplyKinds == {"none", "saved", "decided", "replayed", "conflict", "guarded", "invalid"}

Replies ==
    [kind: ReplyKinds, id: Requests \cup {None},
     target: Targets \cup {None}, audit: Audits \cup {None}]

\* None is no value of the other constants.
ASSUME NoneAssumption ==
    None \notin Calls /\ None \notin Approvals /\ None \notin Decisions
        /\ None \notin Audits /\ None \notin Requests

Said(kind) == [kind |-> kind, id |-> None, target |-> None, audit |-> None]

Told(kind, id, t, audit) == [kind |-> kind, id |-> id, target |-> t, audit |-> audit]

Init ==
    /\ approvals = [id \in Requests |-> None]
    /\ calls = [w \in Workers |-> None]
    /\ replies = [w \in Workers |-> Said("none")]

------------------------------------------------------------------------------
Saved == {id \in Requests : approvals[id] # None}

PendingWithoutPlan(id) ==
    [status |-> "pending", plan |-> None, bound |-> (id \in PreApproved),
     decision |-> None]

Pending(id) ==
    [status |-> "pending", plan |-> (id \in PreApproved),
     bound |-> (id \in PreApproved), decision |-> None]

Reply(w, answer) ==
    /\ replies' = [replies EXCEPT ![w] = answer]
    /\ UNCHANGED <<approvals, calls>>

\* create_request: an INSERT that fails when the identifier is taken, as when two
\* preparations of one artifact race.
Create(w, id) ==
    /\ calls[w] = None
    /\ \/ /\ id \notin Saved
          /\ approvals' = [approvals EXCEPT ![id] = Pending(id)]
          /\ replies' = [replies EXCEPT ![w] = Said("saved")]
          /\ UNCHANGED calls
       \/ /\ id \in Saved
          /\ Reply(w, Said("conflict"))

------------------------------------------------------------------------------
(* Replays. *)

AcceptsAnyAudit(stored, t, audit) == stored.status = t

\* _resolve_replay: a request that reached the target is returned to a caller
\* without audit data, or with exactly the stored ones.
SameDecision(stored, t, audit) ==
    /\ stored.status = t
    /\ audit # None =>
         /\ stored.decision # None
         /\ stored.decision.target = t
         /\ stored.decision.audit = audit

------------------------------------------------------------------------------
(* The decision: read, guard, change the copy. *)

Decide(w, id, t, audit) ==
    /\ calls[w] = None
    /\ id \in Saved
    /\ LET stored == approvals[id] IN
        \/ /\ SameDecision(stored, t, audit)
           /\ Reply(w, Told("replayed", id, t, audit))
        \/ /\ stored.status # "pending"
           /\ ~SameDecision(stored, t, audit)
           /\ Reply(w, Said("conflict"))
        \/ /\ stored.status = "pending"
           /\ calls' = [calls EXCEPT ![w] =
                [id |-> id, target |-> t, audit |-> audit, copy |-> stored,
                 refused |-> FALSE, stage |-> "guard"]]
           /\ UNCHANGED <<approvals, replies>>

Decided(copy, t, audit) ==
    [copy EXCEPT !.status = t, !.plan = (t = "approved"),
                 !.decision = IF audit = None THEN None
                              ELSE [target |-> t, audit |-> audit]]

NeverRevalidated(copy, t) == TRUE

\* bind_action_fingerprint, run by the assignments that follow the change of
\* action.approved.
Bindable(copy, t) == copy.bound = (t = "approved")

\* The assignments of _transition, made between two awaits.
Change(w) ==
    LET c == calls[w] IN
    \/ /\ Bindable(c.copy, c.target)
       /\ calls' = [calls EXCEPT ![w].copy = Decided(c.copy, c.target, c.audit),
                                 ![w].stage = "update"]
       /\ UNCHANGED <<approvals, replies>>
    \/ /\ ~Bindable(c.copy, c.target)
       /\ calls' = [calls EXCEPT ![w] = None]
       /\ replies' = [replies EXCEPT ![w] = Said("invalid")]
       /\ UNCHANGED approvals

\* The guard sees only approvals; a rejection is always allowed.
GuardAllows(w) ==
    /\ calls[w] # None
    /\ calls[w].stage = "guard"
    /\ Change(w)

GuardRefuses(w) ==
    /\ calls[w] # None
    /\ calls[w].stage = "guard"
    /\ calls[w].target = "approved"
    /\ calls' = [calls EXCEPT ![w].stage = "recheck", ![w].refused = TRUE]
    /\ UNCHANGED <<approvals, replies>>

\* A refused caller reads again: if someone made the same decision meanwhile it
\* goes on, with the copy it read before.
Recheck(w) ==
    /\ calls[w] # None
    /\ calls[w].stage = "recheck"
    /\ LET c == calls[w]
           stored == approvals[c.id] IN
        \/ /\ SameDecision(stored, c.target, c.audit)
           /\ Change(w)
        \/ /\ ~SameDecision(stored, c.target, c.audit)
           /\ calls' = [calls EXCEPT ![w] = None]
           /\ replies' = [replies EXCEPT ![w] =
                Said(IF stored.status = c.target THEN "conflict" ELSE "guarded")]
           /\ UNCHANGED approvals

------------------------------------------------------------------------------
(* The compare-and-set and what follows when it is lost. *)

WritableWhatever(stored) == TRUE

\* UPDATE ... WHERE id = ? AND status = 'pending'.
Writable(stored) == stored.status = "pending"

Update(w) ==
    /\ calls[w] # None
    /\ calls[w].stage = "update"
    /\ LET c == calls[w] IN
        \/ /\ Writable(approvals[c.id])
           /\ approvals' = [approvals EXCEPT ![c.id] = c.copy]
           /\ replies' = [replies EXCEPT ![w] = Told("decided", c.id, c.target, c.audit)]
           /\ calls' = [calls EXCEPT ![w] = None]
        \/ /\ ~Writable(approvals[c.id])
           /\ calls' = [calls EXCEPT ![w].stage = "refresh"]
           /\ UNCHANGED <<approvals, replies>>

Refresh(w) ==
    /\ calls[w] # None
    /\ calls[w].stage = "refresh"
    /\ LET c == calls[w] IN
        replies' = [replies EXCEPT ![w] =
            IF SameDecision(approvals[c.id], c.target, c.audit)
            THEN Told("replayed", c.id, c.target, c.audit)
            ELSE Said("conflict")]
    /\ calls' = [calls EXCEPT ![w] = None]
    /\ UNCHANGED approvals

\* The process dies, or the request task is cancelled, at an await.
Crash(w) ==
    /\ calls[w] # None
    /\ calls' = [calls EXCEPT ![w] = None]
    /\ replies' = [replies EXCEPT ![w] = Said("none")]
    /\ UNCHANGED approvals

------------------------------------------------------------------------------
Next ==
    \E w \in Workers :
        \/ \E id \in Requests : Create(w, id)
        \/ \E id \in Requests, t \in Targets, audit \in Audits \cup {None} :
              Decide(w, id, t, audit)
        \/ GuardAllows(w)
        \/ GuardRefuses(w)
        \/ Recheck(w)
        \/ Update(w)
        \/ Refresh(w)
        \/ Crash(w)

Spec == Init /\ [][Next]_vars

------------------------------------------------------------------------------
(* Properties. *)

\* Every stored request, call in flight and answer is well typed.
TypeOK ==
    /\ approvals \in [Requests -> Approvals \cup {None}]
    /\ calls \in [Workers -> Calls \cup {None}]
    /\ replies \in [Workers -> Replies]

\* The stored plan is the plan the approver was shown: its fingerprint is that of
\* the plan the request was created with, and its flag says what was decided.
ApprovedPlanIsBound ==
    \A id \in Saved :
        /\ approvals[id].bound = (id \in PreApproved)
        /\ approvals[id].plan = approvals[id].bound
        /\ approvals[id].status # "pending" =>
             approvals[id].plan = (approvals[id].status = "approved")

\* A caller told that its decision holds, at once, as a replay or after a lost
\* race, stays right for ever, audit data included: two different decisions of
\* one request are never both acknowledged.
AcknowledgedDecisionStands ==
    \A w \in Workers :
        replies[w].kind \in {"decided", "replayed"} =>
            /\ replies[w].id \in Saved
            /\ LET stored == approvals[replies[w].id] IN
               /\ stored.status = replies[w].target
               /\ replies[w].audit # None =>
                    stored.decision = [target |-> replies[w].target,
                                       audit |-> replies[w].audit]

\* A decided request is never written again.
DecisionsAreFinal ==
    [][\A id \in Saved :
        approvals[id].status # "pending" => approvals'[id] = approvals[id]]_vars

\* A caller the guard refused may be told about somebody else's decision; it
\* never writes one itself, although it goes on to the compare-and-set.
RefusedCallersNeverDecide ==
    [][\A w \in Workers :
        calls[w] # None /\ calls[w] # calls'[w] =>
            (calls[w].refused => approvals' = approvals)]_vars

\* Refinement: the stored status and audit record of a request.
Entry(id) ==
    IF id \notin Saved THEN [status |-> "absent", audit |-> None]
    ELSE [status |-> approvals[id].status,
          audit |-> IF approvals[id].decision = None THEN None
                    ELSE approvals[id].decision.audit]

entries == [id \in Requests |-> Entry(id)]

Register == INSTANCE ApprovalRegister WITH register <- entries

\* Every step of the callers is one step of the abstract register or none: whoever
\* interleaves, a request is decided once and its audit record is the decider's.
ImplementsRegister == Register!Spec

\* What the tests of the approval flow say: a pending request can be approved and
\* rejected (the model never refuses the change it makes itself).
DecisionsAreRecordable == \A w \in Workers : replies[w].kind # "invalid"

\* Inductive strengthening: a call holds the request as it was created, changed
\* by its own decision once it reached the write; a refused call only gets there
\* when the request is no longer pending.
CallsAreBound ==
    \A w \in Workers :
        calls[w] # None =>
            LET c == calls[w] IN
            /\ c.id \in Saved
            /\ c.stage \in {"guard", "recheck"} => c.copy = Pending(c.id)
            /\ c.stage \in {"update", "refresh"} =>
                 /\ Bindable(Pending(c.id), c.target)
                 /\ c.copy = Decided(Pending(c.id), c.target, c.audit)
            /\ c.refused /\ c.stage \in {"update", "refresh"} =>
                 approvals[c.id].status # "pending"
            /\ c.stage = "guard" => ~c.refused

==============================================================================
