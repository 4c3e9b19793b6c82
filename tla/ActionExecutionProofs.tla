------------------------ MODULE ActionExecutionProofs ------------------------
(***************************************************************************)
(* Proofs about ActionExecution, for any number of workers, approvals,     *)
(* keys and identifiers.                                                   *)
(***************************************************************************)
EXTENDS ActionExecution, TLAPS

LEMMA InitType == Init => TypeOK
BY NoneAssumption DEF Init, TypeOK, Replies, ReplyKinds

LEMMA ReplyType ==
    ASSUME TypeOK, NEW w \in Workers, NEW answer \in Replies, Reply(w, answer)
    PROVE  TypeOK'
BY DEF TypeOK, Reply

LEMMA RefusalType ==
    ASSUME NEW kind \in ReplyKinds
    PROVE  Refusal(kind) \in Replies
BY DEF Refusal, Replies

LEMMA AnswerType ==
    ASSUME NEW kind \in ReplyKinds, NEW id \in ExecutionIds, NEW record \in Executions
    PROVE  Answer(kind, id, record) \in Replies
BY DEF Answer, Replies, Executions

LEMMA PrepareType ==
    ASSUME TypeOK, NEW w \in Workers, NEW id \in ExecutionIds,
           NEW updated \in Executions, Prepare(w, id, updated)
    PROVE  TypeOK'
BY DEF TypeOK, Prepare, Calls

LEMMA StepType ==
    ASSUME TypeOK, [Next]_vars
    PROVE  TypeOK'
<1> USE DEF ReplyKinds
<1>1. ASSUME NEW w \in Workers, NEW q \in Claims, NEW id \in ExecutionIds, ClaimNew(w, q, id)
      PROVE  TypeOK'
  <2>1. Running(q) \in Executions
    BY <1>1 DEF Running, Executions, Statuses
  <2>2. Answer("created", id, Running(q)) \in Replies
    BY <2>1, AnswerType
  <2>3. q.approval \in Approvals
    BY <1>1 DEF Claims
  <2> QED
    BY <1>1, <2>1, <2>2, <2>3 DEF ClaimNew, TypeOK
<1>2. ASSUME NEW w \in Workers, NEW q \in Claims, NEW id \in ExecutionIds, ClaimReplay(w, q, id)
      PROVE  TypeOK'
  <2>1. executions[id] \in Executions
    BY <1>2 DEF ClaimReplay, SameClaim, ByApproval, Persisted, TypeOK
  <2> QED
    BY <1>2, <2>1, AnswerType, ReplyType DEF ClaimReplay
<1>3. ASSUME NEW w \in Workers, NEW q \in Claims, ClaimConflict(w, q) \/ ClaimInvalid(w, q)
      PROVE  TypeOK'
  BY <1>3, RefusalType, ReplyType DEF ClaimConflict, ClaimInvalid
<1>4. ASSUME NEW w \in Workers, NEW id \in ExecutionIds, NEW s \in Outcomes, NEW r \in Results,
             Settle(w, id, s, r)
      PROVE  TypeOK'
  <2>1. executions[id] \in Executions
    BY <1>4 DEF Settle, Persisted, TypeOK
  <2>2. [executions[id] EXCEPT !.status = s, !.result = r] \in Executions
    BY <2>1 DEF Executions, Statuses
  <2> QED
    BY <1>4, <2>1, <2>2, AnswerType, RefusalType, ReplyType, PrepareType DEF Settle
<1>5. ASSUME NEW w \in Workers, NEW id \in ExecutionIds, MarkIndeterminate(w, id)
      PROVE  TypeOK'
  <2>1. executions[id] \in Executions
    BY <1>5 DEF MarkIndeterminate, Persisted, TypeOK
  <2>2. [executions[id] EXCEPT !.status = "indeterminate"] \in Executions
    BY <2>1 DEF Executions, Statuses
  <2> QED
    BY <1>5, <2>1, <2>2, AnswerType, RefusalType, ReplyType, PrepareType
    DEF MarkIndeterminate
<1>6. ASSUME NEW w \in Workers, NEW id \in ExecutionIds, NEW d \in Decisions,
             Reconcile(w, id, d)
      PROVE  TypeOK'
  <2>1. executions[id] \in Executions
    BY <1>6 DEF Reconcile, Persisted, TypeOK
  <2>2. [executions[id] EXCEPT !.status = d.outcome, !.result = d.result,
                               !.reconciliation = d] \in Executions
    BY <2>1 DEF Executions, Statuses, Decisions
  <2> QED
    BY <1>6, <2>1, <2>2, AnswerType, RefusalType, ReplyType, PrepareType DEF Reconcile
<1>7. ASSUME NEW w \in Workers, Update(w)
      PROVE  TypeOK'
  <2>1. /\ calls[w] \in Calls
        /\ calls[w].id \in ExecutionIds
        /\ calls[w].updated \in Executions
    BY <1>7 DEF Update, TypeOK, Calls
  <2>2. \A kind \in ReplyKinds : Answer(kind, calls[w].id, calls[w].updated) \in Replies
    BY <2>1, AnswerType
  <2>3. CASE Writable(executions[calls[w].id], calls[w].updated)
    <3>1. executions' \in [ExecutionIds -> Executions \cup {None}]
      BY <1>7, <2>1, <2>3 DEF Update, TypeOK
    <3>2. replies' \in [Workers -> Replies]
      BY <1>7, <2>2, <2>3 DEF Update, TypeOK
    <3>3. resolutions' \in [ExecutionIds -> Nat]
      BY <1>7, <2>1, <2>3 DEF Update, TypeOK
    <3>4. calls' \in [Workers -> Calls \cup {None}] /\ launches' = launches
      BY <1>7, <2>3 DEF Update, TypeOK
    <3> QED
      BY <3>1, <3>2, <3>3, <3>4 DEF TypeOK
  <2>4. CASE ~Writable(executions[calls[w].id], calls[w].updated)
    <3>1. [calls[w] EXCEPT !.stage = "refresh"] \in Calls
      BY <2>1 DEF Calls
    <3> QED
      BY <1>7, <2>4, <3>1 DEF Update, TypeOK
  <2> QED
    BY <2>3, <2>4
<1>8. ASSUME NEW w \in Workers, Refresh(w)
      PROVE  TypeOK'
  <2>1. calls[w].id \in ExecutionIds /\ calls[w].updated \in Executions
    BY <1>8 DEF Refresh, TypeOK, Calls
  <2>2. Answer("replayed", calls[w].id, calls[w].updated) \in Replies
    BY <2>1, AnswerType
  <2> QED
    BY <1>8, <2>2, RefusalType DEF Refresh, TypeOK
<1>9. ASSUME NEW w \in Workers, Crash(w)
      PROVE  TypeOK'
  BY <1>9, RefusalType DEF Crash, TypeOK
<1>10. CASE UNCHANGED vars
  BY <1>10 DEF vars, TypeOK
<1> QED
  BY <1>1, <1>2, <1>3, <1>4, <1>5, <1>6, <1>7, <1>8, <1>9, <1>10 DEF Next

\* Every variable keeps its type: records, calls and answers are well formed.
THEOREM TypeCorrect == Spec => []TypeOK
BY InitType, StepType, PTL DEF Spec

------------------------------------------------------------------------------
(* The inductive invariant.  AcknowledgedOutcomeStands alone is not         *)
(* inductive: the answer of a lost compare-and-set is right because a       *)
(* reconciled record carries its decision's outcome (ReconciledOnce) and    *)
(* because the candidate in flight was built from a record that exists      *)
(* (CallsFollowRecords).                                                    *)

IInv ==
    /\ TypeOK
    /\ ClaimsAreUnique
    /\ LaunchedOnce
    /\ ReconciledOnce
    /\ CallsFollowRecords
    /\ AcknowledgedOutcomeStands

LEMMA InitInv == Init => IInv
<1> SUFFICES ASSUME Init PROVE IInv
  OBVIOUS
<1>1. TypeOK
  BY InitType
<1>2. Persisted = {}
  BY DEF Init, Persisted
<1>3. \A a \in Approvals : ByApproval(a) = {}
  BY <1>2 DEF ByApproval
<1>4. \A w \in Workers : replies[w].status \notin Outcomes
  BY NoneAssumption DEF Init, Outcomes, Statuses
<1> QED
  BY <1>1, <1>2, <1>3, <1>4
  DEF IInv, Init, ClaimsAreUnique, LaunchedOnce, ReconciledOnce, CallsFollowRecords,
      AcknowledgedOutcomeStands

\* An answer given at once disturbs only what its worker was told.
LEMMA ReplyInv ==
    ASSUME IInv, NEW w \in Workers, NEW answer \in Replies, Reply(w, answer),
           answer.status \in Outcomes =>
              /\ answer.id \in Persisted
              /\ executions[answer.id].status = answer.status
              /\ executions[answer.id].result = answer.result
    PROVE  IInv'
<1>1. TypeOK'
  BY ReplyType DEF IInv
<1>2. Persisted' = Persisted /\ \A a \in Approvals : ByApproval(a)' = ByApproval(a)
  BY DEF Reply, Persisted, ByApproval
<1>3. AcknowledgedOutcomeStands'
  BY <1>2 DEF Reply, IInv, TypeOK, AcknowledgedOutcomeStands
<1>4. (ClaimsAreUnique /\ LaunchedOnce /\ ReconciledOnce /\ CallsFollowRecords)'
  BY <1>2
  DEF Reply, IInv, ClaimsAreUnique, LaunchedOnce, ReconciledOnce, CallsFollowRecords
<1> QED
  BY <1>1, <1>3, <1>4 DEF IInv

\* A refusal tells nothing about any record.
LEMMA RefusalInv ==
    ASSUME IInv, NEW w \in Workers, NEW kind \in ReplyKinds, Reply(w, Refusal(kind))
    PROVE  IInv'
<1>1. Refusal(kind).status \notin Outcomes
  BY NoneAssumption DEF Refusal, Outcomes, Statuses
<1> QED
  BY <1>1, RefusalType, ReplyInv

\* Repeating what a persisted record says is always right.
LEMMA RecordAnswerInv ==
    ASSUME IInv, NEW w \in Workers, NEW kind \in ReplyKinds, NEW id \in Persisted,
           Reply(w, Answer(kind, id, executions[id]))
    PROVE  IInv'
<1>1. id \in ExecutionIds /\ executions[id] \in Executions
  BY DEF IInv, TypeOK, Persisted
<1>2. Answer(kind, id, executions[id]) \in Replies
  BY <1>1, AnswerType
<1> QED
  BY <1>2, ReplyInv DEF Answer

LEMMA PrepareInv ==
    ASSUME IInv, NEW w \in Workers, NEW id \in Persisted, NEW updated \in Executions,
           Prepare(w, id, updated),
           updated.claim = executions[id].claim,
           updated.status # "running",
           updated.reconciliation # None =>
              /\ updated.status = updated.reconciliation.outcome
              /\ updated.result = updated.reconciliation.result
    PROVE  IInv'
<1>1. TypeOK'
  BY PrepareType DEF IInv, Persisted
<1>2. Persisted' = Persisted /\ \A a \in Approvals : ByApproval(a)' = ByApproval(a)
  BY DEF Prepare, Persisted, ByApproval
<1>3. CallsFollowRecords'
  BY <1>2 DEF Prepare, IInv, TypeOK, CallsFollowRecords
<1>4. (ClaimsAreUnique /\ LaunchedOnce /\ ReconciledOnce /\ AcknowledgedOutcomeStands)'
  BY <1>2
  DEF Prepare, IInv, ClaimsAreUnique, LaunchedOnce, ReconciledOnce,
      AcknowledgedOutcomeStands
<1> QED
  BY <1>1, <1>3, <1>4 DEF IInv

\* A new claim takes an approval, a key and an identifier nobody holds.
LEMMA ClaimNewInv ==
    ASSUME IInv, NEW w \in Workers, NEW q \in Claims, NEW id \in ExecutionIds,
           ClaimNew(w, q, id)
    PROVE  IInv'
<1>0. TypeOK' /\ TypeOK
  BY StepType DEF IInv, Next
<1>1. Running(q) \in Executions /\ Running(q) # None /\ q.approval \in Approvals
  BY NoneAssumption DEF Running, Executions, Statuses, Claims
<1>2. /\ id \notin Persisted
      /\ Persisted' = Persisted \cup {id}
      /\ executions'[id] = Running(q)
      /\ \A i \in Persisted : executions'[i] = executions[i]
  BY <1>0, <1>1 DEF ClaimNew, Persisted, TypeOK
<1>3. ClaimsAreUnique'
  <2>1. \A i \in Persisted : /\ executions[i].claim.approval # q.approval
                             /\ executions[i].claim.key # q.key
    BY DEF ClaimNew, Unclaimed, ByApproval, ByKey
  <2> QED
    BY <1>2, <2>1 DEF IInv, ClaimsAreUnique, Running
<1>4. LaunchedOnce'
  <2>1. \A a \in Approvals \ {q.approval} :
           ByApproval(a)' = ByApproval(a) /\ launches'[a] = launches[a]
    BY <1>0, <1>2 DEF ClaimNew, ByApproval, Running, TypeOK
  <2>2. launches'[q.approval] = 1
    BY <1>0, <1>1 DEF ClaimNew, Unclaimed, IInv, LaunchedOnce, TypeOK
  <2>3. id \in ByApproval(q.approval)'
    BY <1>2 DEF ByApproval, Running
  <2> QED
    BY <2>1, <2>2, <2>3 DEF IInv, LaunchedOnce
<1>5. ReconciledOnce'
  <2>1. resolutions'[id] = 0 /\ resolutions' = resolutions
    BY <1>2 DEF ClaimNew, IInv, ReconciledOnce
  <2> QED
    BY <1>2, <2>1 DEF IInv, ReconciledOnce, Running
<1>6. CallsFollowRecords'
  BY <1>2 DEF ClaimNew, IInv, CallsFollowRecords
<1>7. AcknowledgedOutcomeStands'
  <2>1. replies'[w].status \notin Outcomes
    BY <1>0 DEF ClaimNew, Answer, Running, Outcomes, TypeOK
  <2>2. \A v \in Workers \ {w} : replies'[v] = replies[v]
    BY <1>0 DEF ClaimNew, TypeOK
  <2> QED
    BY <1>2, <2>1, <2>2 DEF IInv, AcknowledgedOutcomeStands
<1> QED
  BY <1>0, <1>3, <1>4, <1>5, <1>6, <1>7 DEF IInv

\* A won compare-and-set moves one record forward and keeps its claim.
LEMMA UpdateInv ==
    ASSUME IInv, NEW w \in Workers, Update(w)
    PROVE  IInv'
<1> DEFINE c == calls[w]
           current == executions[c.id]
<1>0. TypeOK' /\ TypeOK
  BY StepType DEF IInv, Next
<1>1. /\ c \in Calls /\ c.id \in ExecutionIds /\ c.updated \in Executions
      /\ c.updated # None
  BY <1>0, NoneAssumption DEF Update, TypeOK, Calls
<1>2. /\ c.id \in Persisted
      /\ c.updated.status # "running"
      /\ c.updated.reconciliation # None =>
            /\ c.updated.status = c.updated.reconciliation.outcome
            /\ c.updated.result = c.updated.reconciliation.result
  BY DEF Update, IInv, CallsFollowRecords
<1>3. CASE ~Writable(current, c.updated)
  <2>1. /\ calls' = [calls EXCEPT ![w].stage = "refresh"]
        /\ UNCHANGED <<executions, replies, launches, resolutions>>
    BY <1>3 DEF Update
  <2>2. Persisted' = Persisted /\ \A a \in Approvals : ByApproval(a)' = ByApproval(a)
    BY <2>1 DEF Persisted, ByApproval
  <2>3. calls'[w].id = c.id /\ calls'[w].updated = c.updated
    BY <1>0, <1>1, <2>1 DEF TypeOK, Calls
  <2>4. CallsFollowRecords'
    BY <1>0, <2>1, <2>2, <2>3 DEF Update, IInv, CallsFollowRecords, TypeOK
  <2> QED
    BY <1>0, <2>1, <2>2, <2>4
    DEF IInv, ClaimsAreUnique, LaunchedOnce, ReconciledOnce, AcknowledgedOutcomeStands
<1>4. CASE Writable(current, c.updated)
  <2>1. /\ executions' = [executions EXCEPT ![c.id] = c.updated]
        /\ calls' = [calls EXCEPT ![w] = None]
        /\ launches' = launches
    BY <1>4 DEF Update
  <2>2. /\ current.claim = c.updated.claim
        /\ current.status \notin Outcomes
        /\ current.status = ExpectedStatus(c.updated)
    BY <1>4 DEF Writable, ExpectedStatus, Outcomes
  <2>3. /\ Persisted' = Persisted
        /\ executions'[c.id] = c.updated
        /\ \A i \in ExecutionIds \ {c.id} : executions'[i] = executions[i]
    BY <1>0, <1>1, <1>2, <2>1 DEF Persisted, TypeOK
  <2>4. \A i \in Persisted : executions'[i].claim = executions[i].claim
    BY <2>2, <2>3 DEF Persisted
  <2>5. ClaimsAreUnique'
    BY <2>3, <2>4 DEF IInv, ClaimsAreUnique
  <2>6. LaunchedOnce'
    <3>1. \A a \in Approvals : ByApproval(a)' = ByApproval(a)
      BY <2>3, <2>4 DEF ByApproval
    <3> QED
      BY <2>1, <3>1 DEF IInv, LaunchedOnce
  <2>7. ReconciledOnce'
    <3>1. current.reconciliation = None
      <4>1. SUFFICES ASSUME current.reconciliation # None PROVE FALSE
        OBVIOUS
      <4>2. current.status = current.reconciliation.outcome
        BY <1>1, <1>2, <4>1 DEF IInv, ReconciledOnce
      <4>3. current \in Executions
        BY <1>0, <1>2 DEF TypeOK, Persisted
      <4>4. current.reconciliation \in Decisions
        BY <4>1, <4>3 DEF Executions
      <4> QED
        BY <2>2, <4>2, <4>4 DEF Decisions
    <3>2. resolutions[c.id] = 0
      BY <1>1, <3>1 DEF IInv, ReconciledOnce
    <3>3. CASE c.updated.reconciliation = None
      <4>1. resolutions' = resolutions
        BY <1>4, <3>3 DEF Update
      <4> QED
        BY <2>3, <3>2, <3>3, <4>1 DEF IInv, ReconciledOnce
    <3>4. CASE c.updated.reconciliation # None
      <4>1. resolutions' = [resolutions EXCEPT ![c.id] = @ + 1]
        BY <1>4, <3>4 DEF Update
      <4>2. /\ resolutions'[c.id] = 1
            /\ \A i \in ExecutionIds \ {c.id} : resolutions'[i] = resolutions[i]
        BY <1>0, <1>1, <3>2, <4>1 DEF TypeOK
      <4> QED
        BY <1>2, <2>3, <3>4, <4>2 DEF IInv, ReconciledOnce
    <3> QED
      BY <3>3, <3>4
  <2>8. CallsFollowRecords'
    BY <1>0, <2>1, <2>3, <2>4 DEF IInv, CallsFollowRecords, TypeOK
  <2>9. AcknowledgedOutcomeStands'
    <3>1. /\ replies'[w].id = c.id
          /\ replies'[w].status = c.updated.status
          /\ replies'[w].result = c.updated.result
      BY <1>0, <1>4 DEF Update, Answer, TypeOK
    <3>2. \A v \in Workers \ {w} : replies'[v] = replies[v]
      BY <1>0, <1>4 DEF Update, TypeOK
    <3>3. \A v \in Workers : replies[v].status \in Outcomes => replies[v].id # c.id
      BY <2>2 DEF IInv, AcknowledgedOutcomeStands
    <3> QED
      BY <1>1, <1>2, <2>3, <3>1, <3>2, <3>3
      DEF IInv, AcknowledgedOutcomeStands, Persisted
  <2> QED
    BY <1>0, <2>5, <2>6, <2>7, <2>8, <2>9 DEF IInv
<1> QED
  BY <1>3, <1>4

\* After a lost compare-and-set, an accepted call is told what the record says.
LEMMA RefreshInv ==
    ASSUME IInv, NEW w \in Workers, Refresh(w)
    PROVE  IInv'
<1> DEFINE c == calls[w]
           current == executions[c.id]
<1>0. TypeOK' /\ TypeOK
  BY StepType DEF IInv, Next
<1>1. /\ calls' = [calls EXCEPT ![w] = None]
      /\ UNCHANGED <<executions, launches, resolutions>>
      /\ Persisted' = Persisted
      /\ \A a \in Approvals : ByApproval(a)' = ByApproval(a)
  BY DEF Refresh, Persisted, ByApproval
<1>2. (ClaimsAreUnique /\ LaunchedOnce /\ ReconciledOnce)'
  BY <1>1 DEF IInv, ClaimsAreUnique, LaunchedOnce, ReconciledOnce
<1>3. CallsFollowRecords'
  BY <1>0, <1>1 DEF IInv, CallsFollowRecords, TypeOK
<1>4. \A v \in Workers \ {w} : replies'[v] = replies[v]
  BY <1>0 DEF Refresh, TypeOK
<1>5. CASE SameOutcome(current, c.updated)
  <2>1. /\ replies'[w].id = c.id
        /\ replies'[w].status = c.updated.status
        /\ replies'[w].result = c.updated.result
    BY <1>0, <1>5 DEF Refresh, Answer, TypeOK
  <2>2. /\ c.id \in Persisted
        /\ c.updated.reconciliation # None =>
              /\ c.updated.status = c.updated.reconciliation.outcome
              /\ c.updated.result = c.updated.reconciliation.result
    BY DEF Refresh, IInv, CallsFollowRecords
  <2>3. c.updated.status \in Outcomes =>
          current.status = c.updated.status /\ current.result = c.updated.result
    BY <1>5, <2>2
    DEF SameOutcome, IInv, ReconciledOnce, Outcomes, Persisted
  <2> QED
    BY <1>0, <1>1, <1>2, <1>3, <1>4, <2>1, <2>2, <2>3
    DEF IInv, AcknowledgedOutcomeStands
<1>6. CASE ~SameOutcome(current, c.updated)
  <2>1. replies'[w].status \notin Outcomes
    BY <1>0, <1>6, NoneAssumption DEF Refresh, Refusal, TypeOK, Outcomes, Statuses
  <2> QED
    BY <1>0, <1>1, <1>2, <1>3, <1>4, <2>1 DEF IInv, AcknowledgedOutcomeStands
<1> QED
  BY <1>5, <1>6

LEMMA CrashInv ==
    ASSUME IInv, NEW w \in Workers, Crash(w)
    PROVE  IInv'
<1>0. TypeOK' /\ TypeOK
  BY StepType DEF IInv, Next
<1>1. /\ calls' = [calls EXCEPT ![w] = None]
      /\ UNCHANGED <<executions, launches, resolutions>>
      /\ Persisted' = Persisted
      /\ \A a \in Approvals : ByApproval(a)' = ByApproval(a)
  BY DEF Crash, Persisted, ByApproval
<1>2. (ClaimsAreUnique /\ LaunchedOnce /\ ReconciledOnce)'
  BY <1>1 DEF IInv, ClaimsAreUnique, LaunchedOnce, ReconciledOnce
<1>3. CallsFollowRecords'
  BY <1>0, <1>1 DEF IInv, CallsFollowRecords, TypeOK
<1>4. AcknowledgedOutcomeStands'
  <2>1. replies'[w].status \notin Outcomes
    BY <1>0, NoneAssumption DEF Crash, Refusal, TypeOK, Outcomes, Statuses
  <2>2. \A v \in Workers \ {w} : replies'[v] = replies[v]
    BY <1>0 DEF Crash, TypeOK
  <2> QED
    BY <1>1, <2>1, <2>2 DEF IInv, AcknowledgedOutcomeStands
<1> QED
  BY <1>0, <1>2, <1>3, <1>4 DEF IInv

LEMMA StepInv ==
    ASSUME IInv, [Next]_vars
    PROVE  IInv'
<1> USE DEF ReplyKinds
<1>0. TypeOK
  BY DEF IInv
<1>1. ASSUME NEW w \in Workers, NEW q \in Claims, NEW id \in ExecutionIds, ClaimNew(w, q, id)
      PROVE  IInv'
  BY <1>1, ClaimNewInv
<1>2. ASSUME NEW w \in Workers, NEW q \in Claims, NEW id \in ExecutionIds, ClaimReplay(w, q, id)
      PROVE  IInv'
  <2>1. id \in Persisted
    BY <1>2 DEF ClaimReplay, SameClaim, ByApproval
  <2> QED
    BY <1>2, <2>1, RecordAnswerInv DEF ClaimReplay
<1>3. ASSUME NEW w \in Workers, NEW q \in Claims, ClaimConflict(w, q) \/ ClaimInvalid(w, q)
      PROVE  IInv'
  BY <1>3, RefusalInv DEF ClaimConflict, ClaimInvalid
<1>4. ASSUME NEW w \in Workers, NEW id \in ExecutionIds, NEW s \in Outcomes, NEW r \in Results,
             Settle(w, id, s, r)
      PROVE  IInv'
  <2> DEFINE current == executions[id]
             updated == [current EXCEPT !.status = s, !.result = r]
  <2>1. id \in Persisted /\ current \in Executions
    BY <1>0, <1>4 DEF Settle, Persisted, TypeOK
  <2>2. CASE current.status = "running" /\ Prepare(w, id, updated)
    <3>1. /\ updated \in Executions
          /\ updated.claim = current.claim
          /\ updated.status # "running"
          /\ updated.reconciliation = current.reconciliation
      BY <2>1 DEF Executions, Statuses, Outcomes
    <3>2. current.reconciliation = None
      BY <2>1, <2>2 DEF IInv, ReconciledOnce, Persisted, Executions, Decisions, Outcomes
    <3> QED
      BY <2>1, <2>2, <3>1, <3>2, PrepareInv
  <2>3. CASE Reply(w, Answer("replayed", id, current))
    BY <2>1, <2>3, RecordAnswerInv
  <2>4. CASE Reply(w, Refusal("conflict"))
    BY <2>4, RefusalInv
  <2> QED
    BY <1>4, <2>2, <2>3, <2>4 DEF Settle
<1>5. ASSUME NEW w \in Workers, NEW id \in ExecutionIds, MarkIndeterminate(w, id)
      PROVE  IInv'
  <2> DEFINE current == executions[id]
             updated == [current EXCEPT !.status = "indeterminate"]
  <2>1. id \in Persisted /\ current \in Executions
    BY <1>0, <1>5 DEF MarkIndeterminate, Persisted, TypeOK
  <2>2. CASE current.status = "running" /\ Prepare(w, id, updated)
    <3>1. /\ updated \in Executions
          /\ updated.claim = current.claim
          /\ updated.status # "running"
          /\ updated.reconciliation = current.reconciliation
      BY <2>1 DEF Executions, Statuses, Outcomes
    <3>2. current.reconciliation = None
      BY <2>1, <2>2 DEF IInv, ReconciledOnce, Persisted, Executions, Decisions, Outcomes
    <3> QED
      BY <2>1, <2>2, <3>1, <3>2, PrepareInv
  <2>3. CASE Reply(w, Answer("replayed", id, current))
    BY <2>1, <2>3, RecordAnswerInv
  <2>4. CASE Reply(w, Refusal("conflict"))
    BY <2>4, RefusalInv
  <2> QED
    BY <1>5, <2>2, <2>3, <2>4 DEF MarkIndeterminate
<1>6. ASSUME NEW w \in Workers, NEW id \in ExecutionIds, NEW d \in Decisions,
             Reconcile(w, id, d)
      PROVE  IInv'
  <2> DEFINE current == executions[id]
             updated == [current EXCEPT !.status = d.outcome, !.result = d.result,
                                        !.reconciliation = d]
  <2>1. id \in Persisted /\ current \in Executions
    BY <1>0, <1>6 DEF Reconcile, Persisted, TypeOK
  <2>2. CASE Prepare(w, id, updated)
    <3>1. /\ updated \in Executions
          /\ updated.claim = current.claim
          /\ updated.status = d.outcome
          /\ updated.status # "running"
          /\ updated.reconciliation = d
          /\ updated.result = d.result
      BY <2>1 DEF Executions, Statuses, Decisions, Outcomes
    <3> QED
      BY <2>1, <2>2, <3>1, PrepareInv
  <2>3. CASE Reply(w, Answer("replayed", id, current))
    BY <2>1, <2>3, RecordAnswerInv
  <2>4. CASE Reply(w, Refusal("conflict"))
    BY <2>4, RefusalInv
  <2> QED
    BY <1>6, <2>2, <2>3, <2>4 DEF Reconcile
<1>7. ASSUME NEW w \in Workers, Update(w) \/ Refresh(w) \/ Crash(w)
      PROVE  IInv'
  BY <1>7, UpdateInv, RefreshInv, CrashInv
<1>8. CASE UNCHANGED vars
  <2>1. Persisted' = Persisted /\ \A a \in Approvals : ByApproval(a)' = ByApproval(a)
    BY <1>8 DEF vars, Persisted, ByApproval
  <2> QED
    BY <1>8, <2>1
    DEF vars, IInv, TypeOK, ClaimsAreUnique, LaunchedOnce, ReconciledOnce,
        CallsFollowRecords, AcknowledgedOutcomeStands
<1> QED
  BY <1>1, <1>2, <1>3, <1>4, <1>5, <1>6, <1>7, <1>8 DEF Next

LEMMA InductiveInvariant == Spec => []IInv
BY InitInv, StepInv, PTL DEF Spec

\* An approval's action is launched at most once, and exactly when its record
\* exists, whatever the workers claim, retry or lose by crashing.
THEOREM AtMostOneLaunch == Spec => [](ClaimsAreUnique /\ LaunchedOnce)
BY InductiveInvariant, PTL DEF IInv

\* A worker told that its outcome is recorded stays right for ever.
THEOREM AcknowledgementsHold == Spec => []AcknowledgedOutcomeStands
BY InductiveInvariant, PTL DEF IInv

\* One decision per indeterminate record is ever answered applied=True.
THEOREM OneReconciliation == Spec => []ReconciledOnce
BY InductiveInvariant, PTL DEF IInv


\* Only a new claim and a write that is allowed change the table.
LEMMA TableChanges ==
    ASSUME TypeOK, [Next]_vars, executions' # executions
    PROVE  \/ \E w \in Workers, q \in Claims, id \in ExecutionIds : ClaimNew(w, q, id)
           \/ \E w \in Workers :
                /\ Update(w)
                /\ Writable(executions[calls[w].id], calls[w].updated)
                /\ executions' = [executions EXCEPT ![calls[w].id] = calls[w].updated]
<1>1. ASSUME NEW w \in Workers, NEW q \in Claims, NEW id \in ExecutionIds, ClaimReplay(w, q, id)
      PROVE  FALSE
  BY <1>1 DEF ClaimReplay, Reply
<1>2. ASSUME NEW w \in Workers, NEW q \in Claims, ClaimConflict(w, q) \/ ClaimInvalid(w, q)
      PROVE  FALSE
  BY <1>2 DEF ClaimConflict, ClaimInvalid, Reply
<1>3. ASSUME NEW w \in Workers, NEW id \in ExecutionIds, NEW s \in Outcomes, NEW r \in Results,
             Settle(w, id, s, r)
      PROVE  FALSE
  BY <1>3 DEF Settle, Reply, Prepare
<1>4. ASSUME NEW w \in Workers, NEW id \in ExecutionIds, MarkIndeterminate(w, id)
      PROVE  FALSE
  BY <1>4 DEF MarkIndeterminate, Reply, Prepare
<1>5. ASSUME NEW w \in Workers, NEW id \in ExecutionIds, NEW d \in Decisions, Reconcile(w, id, d)
      PROVE  FALSE
  BY <1>5 DEF Reconcile, Reply, Prepare
<1>6. ASSUME NEW w \in Workers, Refresh(w) \/ Crash(w)
      PROVE  FALSE
  BY <1>6 DEF Refresh, Crash
<1>7. ASSUME NEW w \in Workers, Update(w)
      PROVE  /\ Writable(executions[calls[w].id], calls[w].updated)
             /\ executions' = [executions EXCEPT ![calls[w].id] = calls[w].updated]
  BY <1>7 DEF Update
<1> QED
  BY <1>1, <1>2, <1>3, <1>4, <1>5, <1>6, <1>7 DEF Next, vars

\* A write moves a record that is running, or one that is indeterminate by a decision.
LEMMA WritesAreDecided ==
    ASSUME TypeOK, [Next]_vars, NEW id \in Persisted, executions'[id] # executions[id]
    PROVE  \/ executions[id].status = "running"
           \/ executions[id].status = "indeterminate" /\ executions'[id].reconciliation # None
<1>1. executions' # executions
  OBVIOUS
<1>2. CASE \E w \in Workers, q \in Claims, x \in ExecutionIds : ClaimNew(w, q, x)
  BY <1>2 DEF ClaimNew, Persisted, TypeOK
<1>3. ASSUME NEW w \in Workers, Update(w),
             Writable(executions[calls[w].id], calls[w].updated),
             executions' = [executions EXCEPT ![calls[w].id] = calls[w].updated]
      PROVE  \/ executions[id].status = "running"
             \/ executions[id].status = "indeterminate" /\ executions'[id].reconciliation # None
  <2>1. calls[w].id = id
    BY <1>3 DEF TypeOK, Persisted
  <2>2. executions'[id] = calls[w].updated
    BY <1>3, <2>1 DEF TypeOK, Persisted
  <2> QED
    BY <1>3, <2>1, <2>2 DEF Writable, ExpectedStatus
<1> QED
  BY <1>1, <1>2, <1>3, TableChanges

\* A record that reached an outcome is never written again.
THEOREM SettledStaysSettled == Spec => OutcomesAreFinal
<1>1. TypeOK /\ [Next]_vars =>
        [\A id \in Persisted :
           executions[id].status \in Outcomes => executions'[id] = executions[id]]_vars
  BY WritesAreDecided DEF Outcomes
<1> QED
  BY <1>1, TypeCorrect, PTL DEF Spec, OutcomesAreFinal

\* Only an operator's decision takes a record out of the indeterminate state.
THEOREM FrozenUntilDecided == Spec => IndeterminateNeedsDecision
<1>1. TypeOK /\ [Next]_vars =>
        [\A id \in Persisted :
           executions[id].status = "indeterminate" /\ executions'[id] # executions[id]
             => executions'[id].reconciliation # None]_vars
  BY WritesAreDecided
<1> QED
  BY <1>1, TypeCorrect, PTL DEF Spec, IndeterminateNeedsDecision

------------------------------------------------------------------------------
(* The refinement.  The lifecycle knows no result before an outcome, so the *)
(* invariant adds that the ledger has none then either, in its records and  *)
(* in the candidates in flight.                                             *)

Unsettled == {"running", "indeterminate"}

Fits(record) ==
    IF record.status \in Unsettled
    THEN record.result = None /\ record.reconciliation = None
    ELSE record.result \in Results

ResultsFit ==
    /\ \A id \in Persisted : Fits(executions[id])
    /\ \A w \in Workers : calls[w] # None => Fits(calls[w].updated)

LEMMA ResultsFitInit == Init => ResultsFit
BY DEF Init, ResultsFit, Persisted

\* An answer that leaves table and calls alone.
LEMMA ReplyFits ==
    ASSUME ResultsFit, UNCHANGED <<executions, calls>>
    PROVE  ResultsFit'
BY DEF ResultsFit, Persisted

LEMMA PrepareFits ==
    ASSUME TypeOK, ResultsFit, NEW w \in Workers, NEW id \in ExecutionIds,
           NEW updated \in Executions, Prepare(w, id, updated), Fits(updated)
    PROVE  ResultsFit'
<1>1. /\ executions' = executions
      /\ \A v \in Workers : calls'[v] = IF v = w
              THEN [id |-> id, updated |-> updated, stage |-> "update"] ELSE calls[v]
  BY DEF Prepare, TypeOK
<1>2. \A v \in Workers : calls'[v] # None => Fits(calls'[v].updated)
  <2> TAKE v \in Workers
  <2>1. CASE v = w
    BY <1>1, <2>1
  <2>2. CASE v # w
    BY <1>1, <2>2 DEF ResultsFit
  <2> QED
    BY <2>1, <2>2
<1> QED
  BY <1>1, <1>2 DEF ResultsFit, Persisted

LEMMA ResultsFitStep ==
    ASSUME IInv, ResultsFit, [Next]_vars
    PROVE  ResultsFit'
<1> USE DEF Unsettled
<1>0. TypeOK
  BY DEF IInv
<1>1. ASSUME NEW w \in Workers, NEW q \in Claims, NEW id \in ExecutionIds, ClaimNew(w, q, id)
      PROVE  ResultsFit'
  <2>1. Fits(Running(q))
    BY DEF Running, Fits
  <2>2. \A x \in ExecutionIds : executions'[x] = IF x = id THEN Running(q) ELSE executions[x]
    BY <1>0, <1>1 DEF ClaimNew, TypeOK
  <2>3. calls' = calls
    BY <1>1 DEF ClaimNew
  <2>4. \A x \in Persisted' : Fits(executions'[x])
    <3> TAKE x \in Persisted'
    <3>1. x \in ExecutionIds /\ executions'[x] # None
      BY DEF Persisted
    <3>2. CASE x = id
      BY <2>1, <2>2, <3>1, <3>2
    <3>3. CASE x # id
      BY <2>2, <3>1, <3>3 DEF ResultsFit, Persisted
    <3> QED
      BY <3>2, <3>3
  <2> QED
    BY <2>3, <2>4 DEF ResultsFit
<1>2. ASSUME NEW w \in Workers, NEW q \in Claims,
             \/ \E id \in ExecutionIds : ClaimReplay(w, q, id)
             \/ ClaimConflict(w, q) \/ ClaimInvalid(w, q)
      PROVE  ResultsFit'
  BY <1>2, ReplyFits DEF ClaimReplay, ClaimConflict, ClaimInvalid, Reply
<1>3. ASSUME NEW w \in Workers, NEW id \in ExecutionIds, NEW s \in Outcomes, NEW r \in Results,
             Settle(w, id, s, r)
      PROVE  ResultsFit'
  <2> DEFINE updated == [executions[id] EXCEPT !.status = s, !.result = r]
  <2>1. CASE Prepare(w, id, updated)
    <3>1. executions[id] \in Executions
      BY <1>0, <1>3 DEF Settle, Persisted, TypeOK
    <3>2. updated \in Executions /\ updated.status = s /\ updated.result = r
      BY <3>1 DEF Executions, Statuses
    <3>3. Fits(updated)
      BY <3>2 DEF Fits, Outcomes
    <3> QED
      BY <1>0, <2>1, <3>2, <3>3, PrepareFits
  <2>2. CASE UNCHANGED <<executions, calls>>
    BY <2>2, ReplyFits
  <2> QED
    BY <1>3, <2>1, <2>2 DEF Settle, Reply
<1>4. ASSUME NEW w \in Workers, NEW id \in ExecutionIds, MarkIndeterminate(w, id)
      PROVE  ResultsFit'
  <2> DEFINE updated == [executions[id] EXCEPT !.status = "indeterminate"]
  <2>1. CASE executions[id].status = "running" /\ Prepare(w, id, updated)
    <3>1. id \in Persisted /\ executions[id] \in Executions
      BY <1>0, <1>4 DEF MarkIndeterminate, Persisted, TypeOK
    <3>2. /\ updated \in Executions /\ updated.status = "indeterminate"
          /\ updated.result = executions[id].result
          /\ updated.reconciliation = executions[id].reconciliation
      BY <3>1 DEF Executions, Statuses
    <3>3. Fits(updated)
      BY <2>1, <3>1, <3>2 DEF ResultsFit, Fits
    <3> QED
      BY <1>0, <2>1, <3>2, <3>3, PrepareFits
  <2>2. CASE UNCHANGED <<executions, calls>>
    BY <2>2, ReplyFits
  <2> QED
    BY <1>4, <2>1, <2>2 DEF MarkIndeterminate, Reply
<1>5. ASSUME NEW w \in Workers, NEW id \in ExecutionIds, NEW d \in Decisions, Reconcile(w, id, d)
      PROVE  ResultsFit'
  <2> DEFINE updated == [executions[id] EXCEPT !.status = d.outcome, !.result = d.result,
                                               !.reconciliation = d]
  <2>1. CASE Prepare(w, id, updated)
    <3>1. executions[id] \in Executions
      BY <1>0, <1>5 DEF Reconcile, Persisted, TypeOK
    <3>2. d.outcome \in Outcomes /\ d.result \in Results
      BY DEF Decisions
    <3>3. updated \in Executions /\ updated.status = d.outcome /\ updated.result = d.result
      BY <3>1, <3>2 DEF Executions, Statuses
    <3>4. Fits(updated)
      BY <3>2, <3>3 DEF Fits, Outcomes
    <3> QED
      BY <1>0, <2>1, <3>3, <3>4, PrepareFits
  <2>2. CASE UNCHANGED <<executions, calls>>
    BY <2>2, ReplyFits
  <2> QED
    BY <1>5, <2>1, <2>2 DEF Reconcile, Reply
<1>6. ASSUME NEW w \in Workers, Update(w)
      PROVE  ResultsFit'
  <2>1. calls[w] # None /\ calls[w].id \in ExecutionIds /\ Fits(calls[w].updated)
        /\ calls[w].updated \in Executions
    BY <1>0, <1>6 DEF Update, ResultsFit, TypeOK, Calls
  <2>2. CASE /\ executions' = [executions EXCEPT ![calls[w].id] = calls[w].updated]
             /\ calls' = [calls EXCEPT ![w] = None]
    <3>1. \A x \in ExecutionIds : executions'[x] =
             IF x = calls[w].id THEN calls[w].updated ELSE executions[x]
      BY <1>0, <2>2 DEF TypeOK
    <3>2. \A x \in Persisted' : Fits(executions'[x])
      <4> TAKE x \in Persisted'
      <4>1. x \in ExecutionIds /\ executions'[x] # None
        BY DEF Persisted
      <4>2. CASE x = calls[w].id
        BY <2>1, <3>1, <4>1, <4>2
      <4>3. CASE x # calls[w].id
        BY <3>1, <4>1, <4>3 DEF ResultsFit, Persisted
      <4> QED
        BY <4>2, <4>3
    <3>3. \A v \in Workers : calls'[v] # None => calls'[v] = calls[v]
      BY <1>0, <2>2 DEF TypeOK
    <3> QED
      BY <3>2, <3>3 DEF ResultsFit
  <2>3. CASE calls' = [calls EXCEPT ![w].stage = "refresh"] /\ UNCHANGED executions
    <3>1. [calls[w] EXCEPT !.stage = "refresh"].updated = calls[w].updated
      BY <1>0, <2>1 DEF TypeOK, Calls
    <3>2. \A v \in Workers : calls'[v] # None =>
             calls[v] # None /\ calls'[v].updated = calls[v].updated
      BY <1>0, <2>1, <2>3, <3>1 DEF TypeOK
    <3> QED
      BY <2>3, <3>2 DEF ResultsFit, Persisted
  <2> QED
    BY <1>6, <2>2, <2>3 DEF Update
<1>7. ASSUME NEW w \in Workers, Refresh(w) \/ Crash(w)
      PROVE  ResultsFit'
  <2>1. calls' = [calls EXCEPT ![w] = None] /\ executions' = executions
    BY <1>7 DEF Refresh, Crash
  <2>2. \A v \in Workers : calls'[v] # None => calls'[v] = calls[v]
    BY <1>0, <2>1 DEF TypeOK
  <2> QED
    BY <2>1, <2>2 DEF ResultsFit, Persisted
<1>8. CASE UNCHANGED vars
  BY <1>8, ReplyFits DEF vars
<1> QED
  BY <1>1, <1>2, <1>3, <1>4, <1>5, <1>6, <1>7, <1>8 DEF Next

RInv == IInv /\ ResultsFit

LEMMA RefinementInvariant == Spec => []RInv
<1>1. Init => RInv
  BY InitInv, ResultsFitInit DEF RInv
<1>2. RInv /\ [Next]_vars => RInv'
  BY StepInv, ResultsFitStep DEF RInv
<1> QED
  BY <1>1, <1>2, PTL DEF Spec

\* The record of an approval is the only one of ByApproval.
LEMMA PhaseOfRecord ==
    ASSUME ClaimsAreUnique, NEW a \in Approvals, NEW id \in ByApproval(a)
    PROVE  Phase(a) = [status |-> executions[id].status, result |-> executions[id].result]
<1>1. \A x \in ByApproval(a) : x = id
  BY DEF ByApproval, ClaimsAreUnique
<1>2. (CHOOSE x \in ByApproval(a) : TRUE) = id
  BY <1>1
<1>3. ByApproval(a) # {}
  OBVIOUS
<1> QED
  BY <1>2, <1>3 DEF Phase

phases == [a \in Approvals |-> Phase(a)]

LEMMA RefinementInit == Init => Lifecycle!Init
<1> SUFFICES ASSUME Init PROVE Lifecycle!Init
  OBVIOUS
<1>1. \A a \in Approvals : ByApproval(a) = {}
  BY DEF Init, ByApproval, Persisted
<1> QED
  BY <1>1 DEF Phase, Lifecycle!Init, Lifecycle!Unclaimed

\* A claim launches its approval.
LEMMA ClaimLaunches ==
    ASSUME RInv, RInv', NEW w \in Workers, NEW q \in Claims, NEW id \in ExecutionIds,
           ClaimNew(w, q, id)
    PROVE  Lifecycle!Next
<1> DEFINE a == q.approval
<1>1. /\ a \in Approvals /\ ByApproval(a) = {}
      /\ Running(q) # None /\ Running(q).claim = q
      /\ Running(q).status = "running" /\ Running(q).result = None
  <2>1. Running(q) \in Executions
    BY DEF Running, Executions, Statuses
  <2> QED
    BY <2>1, NoneAssumption DEF ClaimNew, Unclaimed, Claims, Running
<1>2. \A x \in ExecutionIds : executions'[x] = IF x = id THEN Running(q) ELSE executions[x]
  BY DEF ClaimNew, RInv, IInv, TypeOK
<1>3. Persisted' = Persisted \cup {id} /\ id \notin Persisted
  BY <1>1, <1>2 DEF ClaimNew, Persisted
<1>4. id \in ByApproval(a)'
  BY <1>1, <1>2, <1>3 DEF ByApproval
<1>5. \A b \in Approvals : b # a => ByApproval(b)' = ByApproval(b)
  BY <1>1, <1>2, <1>3 DEF ByApproval, Persisted
<1>6. Phase(a) = [status |-> "unclaimed", result |-> None]
  BY <1>1 DEF Phase
<1>7. Phase(a)' = [status |-> "running", result |-> None]
  <2>1. ClaimsAreUnique'
    BY DEF RInv, IInv
  <2>2. \A x \in ByApproval(a)' : x = id
    BY <1>4, <2>1 DEF ByApproval, ClaimsAreUnique
  <2>3. Phase(a)' = [status |-> executions'[id].status, result |-> executions'[id].result]
    BY <1>4, <2>2 DEF Phase
  <2> QED
    BY <1>1, <1>2, <2>3
<1>8. \A b \in Approvals : b # a => Phase(b)' = Phase(b)
  <2> SUFFICES ASSUME NEW b \in Approvals, b # a PROVE Phase(b)' = Phase(b)
    OBVIOUS
  <2>1. ByApproval(b)' = ByApproval(b)
    BY <1>5
  <2>2. \A x \in ByApproval(b) : executions'[x] = executions[x]
    BY <1>2, <1>3 DEF ByApproval, Persisted
  <2> QED
    BY <2>1, <2>2 DEF Phase
<1>9. phases' = [phases EXCEPT ![a] = [status |-> "running", result |-> None]]
  BY <1>1, <1>7, <1>8 DEF phases
<1>10. Lifecycle!Launch(a)
  BY <1>1, <1>6, <1>9 DEF Lifecycle!Launch, phases
<1> QED
  BY <1>1, <1>10 DEF Lifecycle!Next

\* A write that is allowed settles, freezes or resolves the approval of its record.
LEMMA WriteMoves ==
    ASSUME RInv, RInv', NEW w \in Workers, Update(w),
           Writable(executions[calls[w].id], calls[w].updated),
           executions' = [executions EXCEPT ![calls[w].id] = calls[w].updated]
    PROVE  Lifecycle!Next
<1> DEFINE c == calls[w]
           id == c.id
           new == c.updated
<1>0. /\ id \in Persisted /\ id \in ExecutionIds /\ executions[id] \in Executions
      /\ new \in Executions /\ new # None /\ new.claim = executions[id].claim
      /\ executions[id].claim.approval \in Approvals /\ Fits(new) /\ Fits(executions[id])
  <2>1. c # None /\ c \in Calls
    BY DEF Update, RInv, IInv, TypeOK
  <2>2. id \in Persisted /\ new.claim = executions[id].claim /\ Fits(new)
    BY <2>1 DEF RInv, IInv, CallsFollowRecords, ResultsFit
  <2>3. id \in ExecutionIds /\ executions[id] \in Executions /\ Fits(executions[id])
    BY <2>2 DEF Persisted, RInv, IInv, TypeOK, ResultsFit
  <2> QED
    BY <2>1, <2>2, <2>3, NoneAssumption DEF Calls, Executions, Claims
<1>1. PICK a \in Approvals, x0 \in ExecutionIds :
        /\ x0 = id /\ a = executions[x0].claim.approval
        /\ x0 \in Persisted /\ executions[x0] \in Executions
        /\ new \in Executions /\ new # None /\ new.claim = executions[x0].claim
        /\ Fits(new) /\ Fits(executions[x0])
  BY <1>0
<1>2. \A x \in ExecutionIds : executions'[x] = IF x = x0 THEN new ELSE executions[x]
  BY <1>1 DEF RInv, IInv, TypeOK
<1> HIDE DEF new, id, c
<1>3. Persisted' = Persisted
  BY <1>1, <1>2 DEF Persisted
<1>4. \A b \in Approvals : ByApproval(b)' = ByApproval(b)
  BY <1>1, <1>2, <1>3 DEF ByApproval, Persisted
<1>5. x0 \in ByApproval(a)
  BY <1>1 DEF ByApproval
<1>6. \A x \in ByApproval(a) : x = x0
  BY <1>1, <1>5 DEF RInv, IInv, ByApproval, ClaimsAreUnique
<1>7. Phase(a) = [status |-> executions[x0].status, result |-> executions[x0].result]
  BY <1>5, <1>6 DEF Phase
<1>8. Phase(a)' = [status |-> new.status, result |-> new.result]
  <2>1. ByApproval(a)' = {x0}
    BY <1>1, <1>4, <1>5, <1>6
  <2>2. executions'[x0] = new
    BY <1>1, <1>2
  <2>3. (CHOOSE x \in {x0} : TRUE) = x0
    OBVIOUS
  <2>4. Phase(a)' = [status |-> executions'[x0].status, result |-> executions'[x0].result]
    BY <2>1, <2>3 DEF Phase
  <2> QED
    BY <2>2, <2>4
<1>9. \A b \in Approvals : b # a => Phase(b)' = Phase(b)
  <2> SUFFICES ASSUME NEW b \in Approvals, b # a PROVE Phase(b)' = Phase(b)
    OBVIOUS
  <2>1. ByApproval(b)' = ByApproval(b)
    BY <1>4
  <2>2. \A x \in ByApproval(b) : executions'[x] = executions[x]
    BY <1>1, <1>2 DEF ByApproval, Persisted
  <2> QED
    BY <2>1, <2>2 DEF Phase
<1>10. phases' = [phases EXCEPT ![a] = [status |-> new.status, result |-> new.result]]
  BY <1>1, <1>8, <1>9 DEF phases
<1>11. phases[a].status = executions[x0].status
  BY <1>1, <1>7 DEF phases
<1>12. Allowed(executions[x0].status, new.status)
  BY <1>1 DEF Writable, new, id, c
<1>13. CASE executions[x0].status = "running" /\ new.status \in Outcomes
  <2>1. new.result \in Results
    BY <1>1, <1>13 DEF Fits, Unsettled, Outcomes
  <2>2. Lifecycle!Settle(a, new.status, new.result)
    BY <1>10, <1>11, <1>13 DEF Lifecycle!Settle, phases
  <2> QED
    BY <1>1, <1>13, <2>1, <2>2 DEF Lifecycle!Next, Lifecycle!Outcomes, Outcomes
<1>14. CASE executions[x0].status = "running" /\ new.status = "indeterminate"
  <2>1. new.result = None
    BY <1>1, <1>14 DEF Fits, Unsettled
  <2>2. Lifecycle!Freeze(a)
    BY <1>10, <1>11, <1>14, <2>1 DEF Lifecycle!Freeze, phases
  <2> QED
    BY <1>1, <2>2 DEF Lifecycle!Next
<1>15. CASE executions[x0].status = "indeterminate" /\ new.status \in Outcomes
  <2>1. new.result \in Results
    BY <1>1, <1>15 DEF Fits, Unsettled, Outcomes
  <2>2. Lifecycle!Resolve(a, new.status, new.result)
    BY <1>10, <1>11, <1>15 DEF Lifecycle!Resolve, phases
  <2> QED
    BY <1>1, <1>15, <2>1, <2>2 DEF Lifecycle!Next, Lifecycle!Outcomes, Outcomes
<1> QED
  BY <1>12, <1>13, <1>14, <1>15 DEF Allowed

LEMMA RefinementStep ==
    ASSUME RInv, RInv', [Next]_vars
    PROVE  [Lifecycle!Next]_phases
<1>1. CASE executions' = executions
  <2>1. \A a \in Approvals : ByApproval(a)' = ByApproval(a)
    BY <1>1 DEF ByApproval, Persisted
  <2>2. \A a \in Approvals : Phase(a)' = Phase(a)
    BY <1>1, <2>1 DEF Phase
  <2> QED
    BY <2>2 DEF phases
<1>2. CASE executions' # executions
  BY <1>2, TableChanges, ClaimLaunches, WriteMoves DEF RInv, IInv
<1> QED
  BY <1>1, <1>2

\* The workers, their races and their crashes implement the lifecycle of an approval.
THEOREM LedgerImplementsLifecycle == Spec => ImplementsLifecycle
<1>1. RInv /\ RInv' /\ [Next]_vars => [Lifecycle!Next]_phases
  BY RefinementStep
<1>2. Spec => Lifecycle!Init /\ [][Lifecycle!Next]_phases
  BY <1>1, RefinementInit, RefinementInvariant, PTL DEF Spec
<1> QED
  BY <1>2, PTL DEF ImplementsLifecycle, Lifecycle!Spec, phases

=============================================================================
