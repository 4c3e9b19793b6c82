--------------------------- MODULE ProductionProofs ----------------------------
(***************************************************************************)
(* Proofs about the services of a production pilot: the preparation of its *)
(* action (ActionPreparation), then its live probe and go/no-go            *)
(* (PilotGoNoGo), for any number of requests, keys and operators, any      *)
(* preflights, views and artifacts, and any reports of any pilots.         *)
(***************************************************************************)
EXTENDS ActionPreparation, PilotGoNoGo, TLAPS

------------------------------------------------------------------------------
(* ActionPreparation.  The inductive invariant: a run that is about to      *)
(* insert is the only one with its artifact (FreshInserts); past its insert *)
(* a run works with a stored artifact of its key and with that artifact's   *)
(* plan (RunsFollow), so what it then writes to the approvals and answers   *)
(* is right.                                                                *)

KeysUnique ==
    \A a, b \in Artifacts :
        artifacts[a] # None /\ artifacts[b] # None /\ artifacts[a].key = artifacts[b].key
          => a = b

FreshInserts ==
    \A w \in Workers : At(w, "insert") =>
        /\ runs[w].artifact \in Artifacts
        /\ artifacts[runs[w].artifact] = None
        /\ runs[w].plan \in Plans
        /\ runs[w].plan.preflight = runs[w].request.preflight
        /\ \A v \in Workers : At(v, "insert") /\ runs[v].artifact = runs[w].artifact => v = w

Working(w) == At(w, "approval") \/ At(w, "create") \/ At(w, "bind")

RunsFollow ==
    \A w \in Workers : Working(w) =>
        /\ runs[w].artifact \in Artifacts
        /\ artifacts[runs[w].artifact] # None
        /\ artifacts[runs[w].artifact].key = runs[w].request.key
        /\ artifacts[runs[w].artifact].plan = runs[w].plan
        /\ runs[w].plan.preflight = runs[w].request.preflight

BindsFollow ==
    \A w \in Workers : At(w, "bind") =>
        /\ approvals[runs[w].artifact] # None
        /\ approvals[runs[w].artifact].operator = runs[w].request.operator

\* What a stored answer rests on, all of it.
AnswersHold ==
    \A w \in Workers : answers[w] # None =>
        LET q == answers[w].request
            a == answers[w].artifact IN
        /\ artifacts[a] # None
        /\ artifacts[a].status = "approval_bound"
        /\ artifacts[a].key = q.key
        /\ artifacts[a].plan.preflight = q.preflight
        /\ approvals[a] # None
        /\ approvals[a].operator = q.operator

PreparationInv ==
    /\ TypeOK
    /\ KeysUnique
    /\ FreshInserts
    /\ RunsFollow
    /\ BindsFollow
    /\ AnswersHold
    /\ ApprovalsFollowArtifacts

------------------------------------------------------------------------------
LEMMA PreparationInitInv == Init => PreparationInv
BY DEF Init, PreparationInv, TypeOK, KeysUnique, FreshInserts, Working, RunsFollow, BindsFollow,
       AnswersHold, ApprovalsFollowArtifacts, At

\* PreparationInv speaks of a run only through its stage: a run that ends or goes back to its
\* first steps disturbs nothing.
LEMMA QuietRun ==
    ASSUME PreparationInv, NEW w \in Workers, NEW r \in Runs \cup {None},
           runs' = [runs EXCEPT ![w] = r],
           r # None => r.stage \in {"lookup", "resolve", "reget"},
           UNCHANGED <<artifacts, approvals, answers>>
    PROVE  PreparationInv'
<1>1. TypeOK'
  BY DEF PreparationInv, TypeOK
<1>2. \A v \in Workers : v # w => runs'[v] = runs[v]
  BY DEF PreparationInv, TypeOK
<1>3. runs'[w] = r
  BY DEF PreparationInv, TypeOK
<1>4. /\ ~At(w, "insert")' /\ ~Working(w)' /\ ~At(w, "bind")'
      /\ \A v \in Workers : v # w =>
            /\ At(v, "insert")' <=> At(v, "insert")
            /\ Working(v)' <=> Working(v)
            /\ At(v, "bind")' <=> At(v, "bind")
  BY <1>2, <1>3 DEF At, Working
<1>5. FreshInserts'
  BY <1>2, <1>4 DEF PreparationInv, FreshInserts
<1>6. RunsFollow' /\ BindsFollow'
  BY <1>2, <1>4 DEF PreparationInv, RunsFollow, BindsFollow
<1>7. KeysUnique' /\ AnswersHold' /\ ApprovalsFollowArtifacts'
  BY DEF PreparationInv, KeysUnique, AnswersHold, ApprovalsFollowArtifacts
<1> QED
  BY <1>1, <1>5, <1>6, <1>7 DEF PreparationInv

LEMMA LeaveInv ==
    ASSUME PreparationInv, NEW w \in Workers, Leave(w), UNCHANGED <<artifacts, approvals, answers>>
    PROVE  PreparationInv'
BY QuietRun DEF Leave

\* A run that goes on with a stored artifact of its key and its plan, to read the
\* approval of it, to create it, or to bind one that is its own.
LEMMA FollowingRun ==
    ASSUME PreparationInv, NEW w \in Workers, NEW r \in Runs, r.stage \in {"approval", "create", "bind"},
           runs' = [runs EXCEPT ![w] = r],
           r.artifact \in Artifacts,
           artifacts[r.artifact] # None,
           artifacts[r.artifact].key = r.request.key,
           artifacts[r.artifact].plan = r.plan,
           r.plan.preflight = r.request.preflight,
           r.stage = "bind" =>
             /\ approvals[r.artifact] # None
             /\ approvals[r.artifact].operator = r.request.operator,
           UNCHANGED <<artifacts, approvals, answers>>
    PROVE  PreparationInv'
<1>1. TypeOK'
  BY DEF PreparationInv, TypeOK
<1>2. \A v \in Workers : v # w => runs'[v] = runs[v]
  BY DEF PreparationInv, TypeOK
<1>3. runs'[w] = r /\ r # None
  BY PreparationNone DEF PreparationInv, TypeOK
<1>4. /\ ~At(w, "insert")'
      /\ \A v \in Workers : v # w =>
            /\ At(v, "insert")' <=> At(v, "insert")
            /\ Working(v)' <=> Working(v)
            /\ At(v, "bind")' <=> At(v, "bind")
  BY <1>2, <1>3 DEF At, Working
<1>5. FreshInserts'
  BY <1>2, <1>4 DEF PreparationInv, FreshInserts
<1>6. RunsFollow'
  BY <1>2, <1>3, <1>4 DEF PreparationInv, RunsFollow
<1>7. BindsFollow'
  BY <1>2, <1>3, <1>4 DEF PreparationInv, BindsFollow, At
<1>8. KeysUnique' /\ AnswersHold' /\ ApprovalsFollowArtifacts'
  BY DEF PreparationInv, KeysUnique, AnswersHold, ApprovalsFollowArtifacts
<1> QED
  BY <1>1, <1>5, <1>6, <1>7, <1>8 DEF PreparationInv

\* Adopting a stored artifact of one's key that answers one's request.
LEMMA AdoptInv ==
    ASSUME PreparationInv, NEW w \in Workers, runs[w] # None, NEW a \in ByKey(runs[w].request.key),
           MatchesRequest(a, runs[w].request), Adopt(w, a),
           UNCHANGED <<artifacts, approvals, answers>>
    PROVE  PreparationInv'
<1>1. runs[w] \in Runs
  BY DEF PreparationInv, TypeOK
<1>2. /\ a \in Artifacts /\ artifacts[a] # None /\ artifacts[a].key = runs[w].request.key
      /\ artifacts[a].plan \in Plans
  BY DEF ByKey, Stored, PreparationInv, TypeOK, Records
<1> DEFINE r == [runs[w] EXCEPT !.artifact = a, !.plan = artifacts[a].plan,
                                !.stage = "approval"]
<1>3. /\ r \in Runs /\ r.stage = "approval" /\ r.artifact = a /\ r.plan = artifacts[a].plan
      /\ r.request = runs[w].request
  BY <1>1, <1>2 DEF Runs, Stages
<1>4. runs' = [runs EXCEPT ![w] = r]
  BY DEF Adopt
<1>5. r.plan.preflight = r.request.preflight
  BY <1>3 DEF MatchesRequest
<1> HIDE DEF r
<1> QED
  BY <1>2, <1>3, <1>4, <1>5, FollowingRun


\* The actions, one lemma each.
LEMMA BeginInv ==
    ASSUME PreparationInv, NEW w \in Workers, NEW q \in Requests, Begin(w, q)
    PROVE  PreparationInv'
<1> DEFINE r == [request |-> q, stage |-> "lookup", artifact |-> None, plan |-> None]
<1>1. r \in Runs /\ r.stage = "lookup"
  BY DEF Runs, Stages
<1>2. runs' = [runs EXCEPT ![w] = r]
  BY DEF Begin
<1> HIDE DEF r
<1> QED
  BY <1>1, <1>2, QuietRun DEF Begin

LEMMA LookupInv ==
    ASSUME PreparationInv, NEW w \in Workers, Lookup(w)
    PROVE  PreparationInv'
<1> DEFINE q == runs[w].request
<1>1. runs[w] # None /\ runs[w] \in Runs
  BY DEF Lookup, At, PreparationInv, TypeOK
<1>2. UNCHANGED <<artifacts, approvals, answers>>
  BY DEF Lookup
<1>3. CASE Goto(w, "resolve")
  <2>1. [runs[w] EXCEPT !.stage = "resolve"] \in Runs
    BY <1>1 DEF Runs, Stages
  <2>2. [runs[w] EXCEPT !.stage = "resolve"].stage = "resolve"
    BY <1>1 DEF Runs
  <2> QED
    BY <1>2, <1>3, <2>1, <2>2, QuietRun DEF Goto
<1>4. ASSUME NEW a \in ByKey(q.key), MatchesRequest(a, q), Adopt(w, a)
      PROVE  PreparationInv'
  BY <1>1, <1>2, <1>4, AdoptInv
<1>5. CASE Leave(w)
  BY <1>2, <1>5, LeaveInv
<1> QED
  BY <1>3, <1>4, <1>5 DEF Lookup

LEMMA ResolveInv ==
    ASSUME PreparationInv, NEW w \in Workers, Resolve(w)
    PROVE  PreparationInv'
<1>1. runs[w] # None /\ runs[w] \in Runs
  BY DEF Resolve, At, PreparationInv, TypeOK
<1>2. UNCHANGED <<artifacts, approvals, answers>>
  BY DEF Resolve
<1>3. ASSUME NEW a \in Artifacts, NEW view \in Views, Fresh(a),
             runs' = [runs EXCEPT
               ![w].stage = "insert", ![w].artifact = a,
               ![w].plan = [preflight |-> runs[w].request.preflight, view |-> view]]
      PROVE  PreparationInv'
  <2> DEFINE plan == [preflight |-> runs[w].request.preflight, view |-> view]
             r == [runs[w] EXCEPT !.stage = "insert", !.artifact = a, !.plan = plan]
  <2>1. plan \in Plans /\ plan.preflight = runs[w].request.preflight
    BY <1>1 DEF Plans, Runs, Requests
  <2> HIDE DEF plan
  <2>2. /\ r \in Runs /\ r.stage = "insert" /\ r.artifact = a /\ r.plan = plan
        /\ r.request = runs[w].request
    BY <1>1, <2>1 DEF Runs, Stages
  <2>3. runs' = [runs EXCEPT ![w] = r]
    BY <1>3 DEF plan
  <2> HIDE DEF r
  <2>4. TypeOK'
    BY <1>2, <2>2, <2>3 DEF PreparationInv, TypeOK
  <2>5. runs'[w] = r /\ \A v \in Workers : v # w => runs'[v] = runs[v]
    BY <2>3 DEF PreparationInv, TypeOK
  <2>6. /\ ~Working(w)' /\ ~At(w, "bind")'
        /\ \A v \in Workers : v # w =>
              /\ At(v, "insert")' <=> At(v, "insert")
              /\ Working(v)' <=> Working(v)
              /\ At(v, "bind")' <=> At(v, "bind")
    BY <2>2, <2>5 DEF At, Working
  <2>7. artifacts[a] = None
    BY <1>3 DEF Fresh
  <2>8. \A v \in Workers : At(v, "insert") => runs[v].artifact # a
    BY <1>3 DEF Fresh, At
  <2>9. FreshInserts'
    BY <1>2, <2>1, <2>2, <2>5, <2>6, <2>7, <2>8 DEF PreparationInv, FreshInserts
  <2>10. RunsFollow' /\ BindsFollow'
    BY <1>2, <2>5, <2>6 DEF PreparationInv, RunsFollow, BindsFollow
  <2>11. KeysUnique' /\ AnswersHold' /\ ApprovalsFollowArtifacts'
    BY <1>2 DEF PreparationInv, KeysUnique, AnswersHold, ApprovalsFollowArtifacts
  <2> QED
    BY <2>4, <2>9, <2>10, <2>11 DEF PreparationInv
<1>4. CASE Leave(w)
  BY <1>2, <1>4, LeaveInv
<1> QED
  BY <1>3, <1>4 DEF Resolve

LEMMA InsertInv ==
    ASSUME PreparationInv, NEW w \in Workers, Insert(w)
    PROVE  PreparationInv'
<1> DEFINE q == runs[w].request
           x == runs[w].artifact
           record == [key |-> q.key, plan |-> runs[w].plan, status |-> "prepared"]
<1>1. runs[w] # None /\ runs[w] \in Runs /\ q.key \in Keys /\ At(w, "insert")
  BY DEF Insert, At, PreparationInv, TypeOK, Runs, Requests
<1>2. UNCHANGED <<approvals, answers>>
  BY DEF Insert
<1>3. CASE /\ Insertable(q.key)
           /\ artifacts' = [artifacts EXCEPT ![x] = record]
           /\ Goto(w, "approval")
  <2>1. /\ x \in Artifacts /\ artifacts[x] = None
        /\ runs[w].plan \in Plans /\ runs[w].plan.preflight = q.preflight
        /\ \A v \in Workers : At(v, "insert") /\ runs[v].artifact = x => v = w
    BY <1>1 DEF PreparationInv, FreshInserts
  <2>2. record \in Records /\ record # None /\ record.key = q.key /\ record.plan = runs[w].plan
    BY <1>1, <2>1, PreparationNone DEF Records
  <2> DEFINE r == [runs[w] EXCEPT !.stage = "approval"]
  <2>3. /\ r \in Runs /\ r.stage = "approval" /\ r.artifact = x /\ r.request = q
        /\ r.plan = runs[w].plan
    BY <1>1 DEF Runs, Stages
  <2>4. runs' = [runs EXCEPT ![w] = r]
    BY <1>3 DEF Goto
  <2> HIDE DEF r, record
  <2>5. TypeOK'
    BY <1>2, <1>3, <2>1, <2>2, <2>3, <2>4 DEF PreparationInv, TypeOK
  <2>6. runs'[w] = r /\ \A v \in Workers : v # w => runs'[v] = runs[v]
    BY <2>4 DEF PreparationInv, TypeOK
  <2>7. artifacts'[x] = record /\ \A a \in Artifacts : a # x => artifacts'[a] = artifacts[a]
    BY <1>3, <2>1 DEF PreparationInv, TypeOK
  <2>8. /\ ~At(w, "insert")' /\ ~At(w, "bind")'
        /\ \A v \in Workers : v # w =>
              /\ At(v, "insert")' <=> At(v, "insert")
              /\ Working(v)' <=> Working(v)
              /\ At(v, "bind")' <=> At(v, "bind")
    BY <2>3, <2>6 DEF At, Working
  <2>9. \A a \in Artifacts : artifacts[a] # None => artifacts[a].key # q.key
    BY <1>3 DEF Insertable, ByKey, Stored
  <2>10. KeysUnique'
    BY <2>2, <2>7, <2>9 DEF PreparationInv, KeysUnique
  <2>11. FreshInserts'
    BY <2>1, <2>6, <2>7, <2>8 DEF PreparationInv, FreshInserts
  <2>12. RunsFollow'
    BY <2>1, <2>2, <2>3, <2>6, <2>7, <2>8 DEF PreparationInv, RunsFollow
  <2>13. BindsFollow'
    BY <1>2, <2>6, <2>8 DEF PreparationInv, BindsFollow
  <2>14. \A v \in Workers : answers[v] # None => answers[v].artifact \in Artifacts
    BY DEF PreparationInv, TypeOK, Answers
  <2>15. AnswersHold'
    BY <1>2, <2>1, <2>7, <2>14 DEF PreparationInv, AnswersHold
  <2>16. ApprovalsFollowArtifacts'
    BY <1>2, <2>1, <2>7 DEF PreparationInv, ApprovalsFollowArtifacts
  <2> QED
    BY <2>5, <2>10, <2>11, <2>12, <2>13, <2>15, <2>16 DEF PreparationInv
<1>4. CASE Goto(w, "reget") /\ UNCHANGED artifacts
  <2>1. [runs[w] EXCEPT !.stage = "reget"] \in Runs
    BY <1>1 DEF Runs, Stages
  <2>2. [runs[w] EXCEPT !.stage = "reget"].stage = "reget"
    BY <1>1 DEF Runs
  <2> QED
    BY <1>2, <1>4, <2>1, <2>2, QuietRun DEF Goto
<1> QED
  BY <1>3, <1>4 DEF Insert

LEMMA RegetInv ==
    ASSUME PreparationInv, NEW w \in Workers, Reget(w)
    PROVE  PreparationInv'
<1>1. runs[w] # None /\ UNCHANGED <<artifacts, approvals, answers>>
  BY DEF Reget, At
<1>2. ASSUME NEW a \in ByKey(runs[w].request.key), MatchesRequest(a, runs[w].request),
             Continues(w, a)
      PROVE  PreparationInv'
  BY <1>1, <1>2, AdoptInv DEF Continues
<1>3. CASE Leave(w)
  BY <1>1, <1>3, LeaveInv
<1> QED
  BY <1>2, <1>3 DEF Reget

\* A working run that stays with its artifact.
LEMMA StayingRun ==
    ASSUME PreparationInv, NEW w \in Workers, Working(w), NEW stage \in {"approval", "create", "bind"},
           Goto(w, stage),
           stage = "bind" =>
             /\ approvals[runs[w].artifact] # None
             /\ approvals[runs[w].artifact].operator = runs[w].request.operator,
           UNCHANGED <<artifacts, approvals, answers>>
    PROVE  PreparationInv'
<1>1. runs[w] # None /\ runs[w] \in Runs
  BY DEF Working, At, PreparationInv, TypeOK
<1> DEFINE r == [runs[w] EXCEPT !.stage = stage]
<1>2. /\ r \in Runs /\ r.stage = stage /\ r.artifact = runs[w].artifact
      /\ r.plan = runs[w].plan /\ r.request = runs[w].request
  BY <1>1 DEF Runs, Stages
<1>3. runs' = [runs EXCEPT ![w] = r]
  BY DEF Goto
<1> HIDE DEF r
<1> QED
  BY <1>2, <1>3, FollowingRun DEF PreparationInv, RunsFollow

LEMMA ReadApprovalInv ==
    ASSUME PreparationInv, NEW w \in Workers, ReadApproval(w)
    PROVE  PreparationInv'
<1>1. Working(w) /\ UNCHANGED <<artifacts, approvals, answers>>
  BY DEF ReadApproval, Working
<1>2. CASE Goto(w, "create")
  BY <1>1, <1>2, StayingRun
<1>3. CASE /\ approvals[runs[w].artifact] # None
           /\ MatchingApproval(approvals[runs[w].artifact], runs[w])
           /\ Goto(w, "bind")
  BY <1>1, <1>3, StayingRun DEF MatchingApproval
<1>4. CASE Leave(w)
  BY <1>1, <1>4, LeaveInv
<1> QED
  BY <1>2, <1>3, <1>4 DEF ReadApproval

LEMMA CreateApprovalInv ==
    ASSUME PreparationInv, NEW w \in Workers, CreateApproval(w)
    PROVE  PreparationInv'
<1> DEFINE q == runs[w].request
           x == runs[w].artifact
           approval == [plan |-> runs[w].plan, operator |-> q.operator, status |-> "pending"]
<1>1. /\ runs[w] # None /\ runs[w] \in Runs /\ q.operator \in Operators
      /\ At(w, "create") /\ Working(w)
      /\ UNCHANGED <<artifacts, answers>>
  BY DEF CreateApproval, At, Working, PreparationInv, TypeOK, Runs, Requests
<1>2. /\ x \in Artifacts /\ artifacts[x] # None /\ artifacts[x].plan = runs[w].plan
      /\ artifacts[x].plan \in Plans
      /\ artifacts[x].key = q.key /\ runs[w].plan.preflight = q.preflight
  BY <1>1 DEF PreparationInv, RunsFollow, TypeOK, Records
<1>3. CASE /\ approvals[x] = None
           /\ approvals' = [approvals EXCEPT ![x] = approval]
           /\ Goto(w, "bind")
  <2>1. /\ approval \in Approvals /\ approval # None
        /\ approval.operator = q.operator /\ approval.plan = runs[w].plan
    BY <1>1, <1>2, PreparationNone DEF Approvals
  <2> DEFINE r == [runs[w] EXCEPT !.stage = "bind"]
  <2>2. /\ r \in Runs /\ r.stage = "bind" /\ r.artifact = x /\ r.request = q
        /\ r.plan = runs[w].plan
    BY <1>1 DEF Runs, Stages
  <2>3. runs' = [runs EXCEPT ![w] = r]
    BY <1>3 DEF Goto
  <2> HIDE DEF r, approval
  <2>4. TypeOK'
    BY <1>1, <1>2, <1>3, <2>1, <2>2, <2>3 DEF PreparationInv, TypeOK
  <2>5. runs'[w] = r /\ \A v \in Workers : v # w => runs'[v] = runs[v]
    BY <2>3 DEF PreparationInv, TypeOK
  <2>6. /\ approvals'[x] = approval
        /\ \A a \in Artifacts : a # x => approvals'[a] = approvals[a]
    BY <1>2, <1>3 DEF PreparationInv, TypeOK
  <2>7. /\ ~At(w, "insert")'
        /\ \A v \in Workers : v # w =>
              /\ At(v, "insert")' <=> At(v, "insert")
              /\ Working(v)' <=> Working(v)
              /\ At(v, "bind")' <=> At(v, "bind")
    BY <2>2, <2>5 DEF At, Working
  <2>8. FreshInserts'
    BY <1>1, <2>5, <2>7 DEF PreparationInv, FreshInserts
  <2>9. RunsFollow'
    BY <1>1, <1>2, <2>2, <2>5, <2>7 DEF PreparationInv, RunsFollow
  <2>10. \A v \in Workers : At(v, "bind") => runs[v].artifact \in Artifacts
    BY DEF PreparationInv, RunsFollow, Working
  <2>11. BindsFollow'
    BY <1>3, <2>1, <2>2, <2>5, <2>6, <2>7, <2>10 DEF PreparationInv, BindsFollow
  <2>12. \A v \in Workers : answers[v] # None => answers[v].artifact \in Artifacts
    BY DEF PreparationInv, TypeOK, Answers
  <2>13. AnswersHold'
    BY <1>1, <1>3, <2>6, <2>12 DEF PreparationInv, AnswersHold
  <2>14. ApprovalsFollowArtifacts'
    BY <1>1, <1>2, <2>1, <2>6 DEF PreparationInv, ApprovalsFollowArtifacts
  <2>15. KeysUnique'
    BY <1>1 DEF PreparationInv, KeysUnique
  <2> QED
    BY <2>4, <2>8, <2>9, <2>11, <2>13, <2>14, <2>15 DEF PreparationInv
<1>4. CASE Goto(w, "approval") /\ UNCHANGED approvals
  BY <1>1, <1>4, StayingRun
<1> QED
  BY <1>3, <1>4 DEF CreateApproval

LEMMA BindInv ==
    ASSUME PreparationInv, NEW w \in Workers, Bind(w)
    PROVE  PreparationInv'
<1> DEFINE q == runs[w].request
           x == runs[w].artifact
           record == [artifacts[x] EXCEPT !.status = "approval_bound"]
           answer == [request |-> q, artifact |-> x]
<1>1. /\ runs[w] # None /\ runs[w] \in Runs /\ q \in Requests
      /\ At(w, "bind") /\ Working(w) /\ UNCHANGED approvals
  BY DEF Bind, At, Working, PreparationInv, TypeOK, Runs
<1>2. /\ x \in Artifacts /\ artifacts[x] # None /\ artifacts[x] \in Records
      /\ artifacts[x].key = q.key /\ artifacts[x].plan.preflight = q.preflight
      /\ approvals[x] # None /\ approvals[x].operator = q.operator
  BY <1>1 DEF PreparationInv, RunsFollow, BindsFollow, TypeOK
<1>3. /\ record \in Records /\ record # None /\ record.status = "approval_bound"
      /\ record.key = artifacts[x].key /\ record.plan = artifacts[x].plan
  BY <1>2, PreparationNone DEF Records
<1>4. answer \in Answers /\ answer.request = q /\ answer.artifact = x
  BY <1>1, <1>2 DEF Answers
<1>5. /\ artifacts' = [artifacts EXCEPT ![x] = record]
      /\ answers' = [answers EXCEPT ![w] = answer]
      /\ runs' = [runs EXCEPT ![w] = None]
  BY DEF Bind, Leave
<1> HIDE DEF record, answer
<1>6. TypeOK'
  BY <1>1, <1>2, <1>3, <1>4, <1>5 DEF PreparationInv, TypeOK
<1>7. runs'[w] = None /\ \A v \in Workers : v # w => runs'[v] = runs[v]
  BY <1>5 DEF PreparationInv, TypeOK
<1>8. artifacts'[x] = record /\ \A a \in Artifacts : a # x => artifacts'[a] = artifacts[a]
  BY <1>2, <1>5 DEF PreparationInv, TypeOK
<1>9. answers'[w] = answer /\ \A v \in Workers : v # w => answers'[v] = answers[v]
  BY <1>5 DEF PreparationInv, TypeOK
<1>10. /\ ~At(w, "insert")' /\ ~Working(w)' /\ ~At(w, "bind")'
       /\ \A v \in Workers : v # w =>
             /\ At(v, "insert")' <=> At(v, "insert")
             /\ Working(v)' <=> Working(v)
             /\ At(v, "bind")' <=> At(v, "bind")
  BY <1>7 DEF At, Working
<1>11. KeysUnique'
  BY <1>2, <1>3, <1>8 DEF PreparationInv, KeysUnique
<1>12. FreshInserts'
  BY <1>2, <1>7, <1>8, <1>10 DEF PreparationInv, FreshInserts
<1>13. RunsFollow'
  BY <1>2, <1>3, <1>7, <1>8, <1>10 DEF PreparationInv, RunsFollow
<1>14. BindsFollow'
  BY <1>1, <1>7, <1>10 DEF PreparationInv, BindsFollow
<1>15. \A v \in Workers : answers[v] # None => answers[v].artifact \in Artifacts
  BY DEF PreparationInv, TypeOK, Answers
<1>16. AnswersHold'
  <2>1. ASSUME NEW v \in Workers, answers'[v] # None
        PROVE  LET r == answers'[v].request
                   a == answers'[v].artifact IN
               /\ artifacts'[a] # None
               /\ artifacts'[a].status = "approval_bound"
               /\ artifacts'[a].key = r.key
               /\ artifacts'[a].plan.preflight = r.preflight
               /\ approvals'[a] # None
               /\ approvals'[a].operator = r.operator
    <3>1. CASE v = w
      BY <1>1, <1>2, <1>3, <1>4, <1>8, <1>9, <3>1
    <3>2. CASE v # w /\ answers[v].artifact = x
      BY <1>1, <1>2, <1>3, <1>8, <1>9, <2>1, <3>2 DEF PreparationInv, AnswersHold
    <3>3. CASE v # w /\ answers[v].artifact # x
      BY <1>1, <1>8, <1>9, <1>15, <2>1, <3>3 DEF PreparationInv, AnswersHold
    <3> QED
      BY <3>1, <3>2, <3>3
  <2> QED
    BY <2>1 DEF AnswersHold
<1>17. ApprovalsFollowArtifacts'
  BY <1>1, <1>2, <1>3, <1>8 DEF PreparationInv, ApprovalsFollowArtifacts
<1> QED
  BY <1>6, <1>11, <1>12, <1>13, <1>14, <1>16, <1>17 DEF PreparationInv

LEMMA RejectInv ==
    ASSUME PreparationInv, NEW x \in Artifacts, Reject(x)
    PROVE  PreparationInv'
<1> DEFINE approval == [approvals[x] EXCEPT !.status = "rejected"]
<1>1. approvals[x] # None /\ approvals[x] \in Approvals /\ UNCHANGED <<artifacts, runs, answers>>
  BY DEF Reject, PreparationInv, TypeOK
<1>2. /\ approval \in Approvals /\ approval # None
      /\ approval.plan = approvals[x].plan /\ approval.operator = approvals[x].operator
  BY <1>1, PreparationNone DEF Approvals
<1>3. approvals' = [approvals EXCEPT ![x] = approval]
  BY DEF Reject
<1> HIDE DEF approval
<1>4. TypeOK'
  BY <1>1, <1>2, <1>3 DEF PreparationInv, TypeOK
<1>5. /\ approvals'[x] = approval
      /\ \A a \in Artifacts : a # x => approvals'[a] = approvals[a]
  BY <1>3 DEF PreparationInv, TypeOK
<1>6. KeysUnique' /\ FreshInserts' /\ RunsFollow'
  BY <1>1 DEF PreparationInv, KeysUnique, FreshInserts, RunsFollow, Working, At
<1>7. \A v \in Workers : At(v, "bind") => runs[v].artifact \in Artifacts
  BY DEF PreparationInv, RunsFollow, Working
<1>8. BindsFollow'
  BY <1>1, <1>2, <1>5, <1>7 DEF PreparationInv, BindsFollow, At
<1>9. \A v \in Workers : answers[v] # None => answers[v].artifact \in Artifacts
  BY DEF PreparationInv, TypeOK, Answers
<1>10. AnswersHold'
  BY <1>1, <1>2, <1>5, <1>9 DEF PreparationInv, AnswersHold
<1>11. ApprovalsFollowArtifacts'
  BY <1>1, <1>2, <1>5 DEF PreparationInv, ApprovalsFollowArtifacts
<1> QED
  BY <1>4, <1>6, <1>8, <1>10, <1>11 DEF PreparationInv

LEMMA PreparationStepInv ==
    ASSUME PreparationInv, [Next]_vars
    PROVE  PreparationInv'
<1>1. ASSUME NEW w \in Workers, NEW q \in Requests, Begin(w, q)
      PROVE  PreparationInv'
  BY <1>1, BeginInv
<1>2. ASSUME NEW w \in Workers, Prepare(w)
      PROVE  PreparationInv'
  BY <1>2, LookupInv, ResolveInv, InsertInv, RegetInv, ReadApprovalInv, CreateApprovalInv,
     BindInv DEF Prepare
<1>3. ASSUME NEW w \in Workers, Interrupt(w)
      PROVE  PreparationInv'
  BY <1>3, LeaveInv DEF Interrupt
<1>4. ASSUME NEW a \in Artifacts, Reject(a)
      PROVE  PreparationInv'
  BY <1>4, RejectInv
<1>5. CASE UNCHANGED vars
  BY <1>5 DEF vars, PreparationInv, TypeOK, KeysUnique, FreshInserts, RunsFollow, BindsFollow,
     AnswersHold, ApprovalsFollowArtifacts, Working, At
<1> QED
  BY <1>1, <1>2, <1>3, <1>4, <1>5 DEF Next

LEMMA PreparationInvHolds == Spec => []PreparationInv
BY PreparationInitInv, PreparationStepInv, PTL DEF Spec

------------------------------------------------------------------------------
\* Whoever prepares under one key is given the same artifact, bound to an approval of
\* exactly its plan.
THEOREM PreparationsAgree == Spec => []AnswersAgree
<1>1. PreparationInv => AnswersAgree
  <2> SUFFICES ASSUME PreparationInv PROVE AnswersAgree
    OBVIOUS
  <2>1. \A w \in Workers : answers[w] # None => answers[w].artifact \in Artifacts
    BY DEF PreparationInv, TypeOK, Answers
  <2> QED
    BY <2>1 DEF PreparationInv, AnswersHold, AnswersAgree, KeysUnique, ApprovalsFollowArtifacts
<1> QED
  BY <1>1, PreparationInvHolds, PTL

\* Nobody is given the preparation of another request, or an approval that another
\* operator asked for.
THEOREM PreparationsAnswerTheRequest == Spec => []AnsweredAsAsked
<1>1. PreparationInv => AnsweredAsAsked
  BY DEF PreparationInv, AnswersHold, AnsweredAsAsked
<1> QED
  BY <1>1, PreparationInvHolds, PTL

\* An approval exists only for a stored artifact and is of that artifact's plan.
THEOREM ApprovalsAreFollowed == Spec => []ApprovalsFollowArtifacts
<1>1. PreparationInv => ApprovalsFollowArtifacts
  BY DEF PreparationInv
<1> QED
  BY <1>1, PreparationInvHolds, PTL

\* Every artifact, approval, run and answer is well typed.
THEOREM PreparationIsTyped == Spec => []TypeOK
<1>1. PreparationInv => TypeOK
  BY DEF PreparationInv
<1> QED
  BY <1>1, PreparationInvHolds, PTL

------------------------------------------------------------------------------
(* PilotGoNoGo.  The inductive invariant: the row of a probe is the claim   *)
(* of its pilot (OneProbe) and belongs to the request that wrote it until   *)
(* it is no longer RUNNING (OneProber), so what that request has done shows *)
(* in the row and the history (JobsFit, RowsFit); the row of a decision is  *)
(* the claim of all answers (OneDecision, ToldHold).                        *)

Owned == {"get", "recheck", "complete"}

Probing(w, r) == jobs[w] # None /\ jobs[w].stage \in Owned /\ jobs[w].report = r

OneProber ==
    \A v, w \in Workers, r \in Reports : Probing(v, r) /\ Probing(w, r) => v = w

Running(r) == probes[r] # None /\ probes[r].status = "running"

Passed(r) == probes[r] # None /\ probes[r].status = "passed"

MayDecide(r, asked) ==
    /\ probes[r] # None
    /\ asked.reviewer \notin {ExecutorOf[r]} \cup OwnersOf[r]
    /\ asked.decision = "go" => Passed(r)

\* A GO that may be stored, or was.
GoFits(r, asked) ==
    asked.decision = "go" =>
        /\ Passed(r)
        /\ confirmed[r] = "after_pass"
        /\ asked.reviewer \notin {ExecutorOf[r]} \cup OwnersOf[r] \cup ReviewersOf[r]

JobFits(j) ==
    LET r == j.report IN
    /\ j.stage = "get" => Running(r) /\ probed[r] = 0
    /\ j.stage \in {"recheck", "complete"} => Running(r) /\ probed[r] = 1
    /\ j.stage = "complete" =>
         j.result \in Results /\ (j.result = "passed" => confirmed[r] # "never")
    /\ j.stage \in {"check", "store"} => MayDecide(r, j.asked)
    /\ j.stage = "store" => GoFits(r, j.asked)

JobsFit == \A w \in Workers : jobs[w] # None => JobFits(jobs[w])

RowFits(r) ==
    /\ probed[r] <= 1
    /\ probed[r] = 1 => probes[r] # None
    /\ Passed(r) => probed[r] = 1 /\ confirmed[r] # "never"
    /\ Rehearses(r) /\ probed[r] = 1 => confirmed[r] # "never"
    /\ Rehearses(r) /\ Passed(r) => confirmed[r] = "after_pass"

RowsFit == \A r \in Reports : RowFits(r)

OneProbe ==
    \A r, s \in Reports :
        probes[r] # None /\ probes[s] # None /\ PilotOf[r] = PilotOf[s] => r = s

OneDecision ==
    \A r, s \in Reports :
        decisions[r] # None /\ decisions[s] # None /\ PilotOf[r] = PilotOf[s] => r = s

DecisionsFit == \A r \in Reports : decisions[r] # None => GoFits(r, decisions[r])

ToldHold == \A x \in told : x.answer = decisions[x.report] /\ x.asked = x.answer

PilotInv ==
    /\ PilotTypeOK
    /\ OneProber
    /\ JobsFit
    /\ RowsFit
    /\ OneProbe
    /\ OneDecision
    /\ DecisionsFit
    /\ ToldHold

LEMMA PilotInitInv == PilotInit => PilotInv
<1> SUFFICES ASSUME PilotInit PROVE PilotInv
  OBVIOUS
<1>1. PilotTypeOK
  BY DEF PilotInit, PilotTypeOK
<1>2. OneProber /\ JobsFit /\ OneProbe /\ OneDecision /\ DecisionsFit /\ ToldHold
  BY DEF PilotInit, OneProber, Probing, JobsFit, OneProbe, OneDecision, DecisionsFit, ToldHold
<1>3. RowsFit
  BY DEF PilotInit, RowsFit, RowFits, Passed
<1> QED
  BY <1>1, <1>2, <1>3 DEF PilotInv

\* What a job is, by its stage.
LEMMA JobTyped ==
    ASSUME PilotTypeOK, NEW w \in Workers, jobs[w] # None
    PROVE  /\ jobs[w] \in Jobs
           /\ jobs[w].report \in Reports
           /\ jobs[w].stage \notin {"check", "store"} => jobs[w] \in ProbeJobs
           /\ jobs[w].stage \in {"check", "store"} => jobs[w] \in DecisionJobs
<1>1. jobs[w] \in ProbeJobs \/ jobs[w] \in DecisionJobs
  BY DEF PilotTypeOK, Jobs
<1>2. CASE jobs[w] \in ProbeJobs
  BY <1>2 DEF ProbeJobs, Jobs
<1>3. CASE jobs[w] \in DecisionJobs
  BY <1>3 DEF DecisionJobs, Jobs
<1> QED
  BY <1>1, <1>2, <1>3

\* A step of one request that writes nothing.
LEMMA JobOnly ==
    ASSUME PilotInv, NEW w \in Workers, NEW j \in Jobs \cup {None},
           jobs' = [jobs EXCEPT ![w] = j], UNCHANGED <<external, tables, history>>,
           j # None => JobFits(j) /\ (j.stage \in Owned => Probing(w, j.report))
    PROVE  PilotInv'
<1> USE DEF external, tables, history
<1>1. PilotTypeOK'
  BY DEF PilotInv, PilotTypeOK
<1>2. jobs'[w] = j /\ \A v \in Workers : v # w => jobs'[v] = jobs[v]
  BY DEF PilotInv, PilotTypeOK
<1>3. OneProber'
  <2>1. \A v \in Workers, r \in Reports : Probing(v, r)' => Probing(v, r)
    BY <1>2 DEF Probing
  <2> QED
    BY <2>1 DEF PilotInv, OneProber
<1>4. \A i : JobFits(i) => JobFits(i)'
  BY DEF JobFits, MayDecide, GoFits, Running, Passed
<1>5. JobsFit'
  BY <1>2, <1>4 DEF PilotInv, JobsFit, JobFits, MayDecide, GoFits, Running, Passed
<1>6. RowsFit' /\ OneProbe' /\ OneDecision' /\ DecisionsFit' /\ ToldHold'
  BY DEF PilotInv, RowsFit, RowFits, Rehearses, OneProbe, OneDecision, DecisionsFit, GoFits,
         ToldHold, Passed
<1> QED
  BY <1>1, <1>3, <1>5, <1>6 DEF PilotInv

LEMMA EndJobInv ==
    ASSUME PilotInv, NEW w \in Workers, EndJob(w), UNCHANGED <<external, tables, history>>
    PROVE  PilotInv'
BY JobOnly DEF EndJob

LEMMA LoadHandoffInv ==
    ASSUME PilotInv, NEW w \in Workers, NEW r \in Reports, NEW operator \in Operators,
           NEW key \in Keys, LoadHandoff(w, r, operator, key)
    PROVE  PilotInv'
<1> DEFINE j == [stage |-> "claim", report |-> r, key |-> key, result |-> None]
<1>1. j \in Jobs
  BY DEF Jobs, ProbeJobs
<1>2. JobFits(j)
  BY DEF JobFits
<1>3. jobs' = [jobs EXCEPT ![w] = j] /\ UNCHANGED <<external, tables, history>>
  BY DEF LoadHandoff
<1>4. j.stage \notin Owned
  BY DEF Owned
<1> HIDE DEF j
<1> QED
  BY <1>1, <1>2, <1>3, <1>4, JobOnly

LEMMA ReadProbeInv ==
    ASSUME PilotInv, NEW w \in Workers, NEW r \in Reports, NEW reviewer \in Operators,
           NEW key \in Keys, NEW decision \in {"go", "no_go"},
           ReadProbe(w, r, reviewer, key, decision)
    PROVE  PilotInv'
<1> DEFINE asked == [reviewer |-> reviewer, key |-> key, decision |-> decision,
                     seen |-> probes[r].status]
           j == [stage |-> IF decision = "go" THEN "check" ELSE "store",
                 report |-> r, asked |-> asked]
<1>1. probes[r] \in Probes
  BY DEF ReadProbe, PilotInv, PilotTypeOK
<1>2. asked \in Decisions
  BY <1>1 DEF Decisions, Probes
<1>3. j \in Jobs
  BY <1>2 DEF Jobs, DecisionJobs
<1>4. MayDecide(r, asked)
  BY DEF ReadProbe, MayDecide, Passed
<1>5. JobFits(j)
  BY <1>4 DEF JobFits, GoFits
<1>6. jobs' = [jobs EXCEPT ![w] = j] /\ UNCHANGED <<external, tables, history>>
  BY DEF ReadProbe
<1>7. j.stage \notin Owned
  BY DEF Owned
<1> HIDE DEF j
<1> QED
  BY <1>3, <1>5, <1>6, <1>7, JobOnly

LEMMA RecheckInv ==
    ASSUME PilotInv, NEW w \in Workers, Recheck(w)
    PROVE  PilotInv'
<1> DEFINE r == jobs[w].report
           j == [jobs[w] EXCEPT !.stage = "complete", !.result = ResultOf(r)]
<1>1. jobs[w] \in ProbeJobs /\ r \in Reports /\ jobs[w].stage = "recheck" /\ jobs[w] # None
  BY JobTyped DEF Recheck, Serves, PilotInv
<1>2. /\ j \in Jobs /\ j.stage = "complete" /\ j.report = r
      /\ j.result = ResultOf(r) /\ ResultOf(r) \in Results
  BY <1>1 DEF Jobs, ProbeJobs, ResultOf, Results
<1>3. Running(r) /\ probed[r] = 1
  BY <1>1 DEF PilotInv, JobsFit, JobFits
<1>4. ResultOf(r) = "passed" => confirmed[r] # "never"
  BY <1>1, <1>3 DEF PilotInv, RowsFit, RowFits, ResultOf
<1>5. JobFits(j)
  BY <1>2, <1>3, <1>4 DEF JobFits
<1>6. jobs' = [jobs EXCEPT ![w] = j] /\ UNCHANGED <<external, tables, history>>
  BY DEF Recheck
<1>7. Probing(w, j.report)
  BY <1>1, <1>2 DEF Probing, Owned
<1> HIDE DEF j
<1> QED
  BY <1>2, <1>5, <1>6, <1>7, JobOnly

LEMMA CheckGoInv ==
    ASSUME PilotInv, NEW w \in Workers, CheckGo(w)
    PROVE  PilotInv'
<1> DEFINE r == jobs[w].report
           asked == jobs[w].asked
           j == [jobs[w] EXCEPT !.stage = "store"]
<1>1. jobs[w] \in DecisionJobs /\ r \in Reports /\ jobs[w].stage = "check" /\ jobs[w] # None
  BY JobTyped DEF CheckGo, Serves, PilotInv
<1>2. j \in Jobs /\ j.stage = "store" /\ j.report = r /\ j.asked = asked
  BY <1>1 DEF Jobs, DecisionJobs
<1>3. MayDecide(r, asked)
  BY <1>1 DEF PilotInv, JobsFit, JobFits
<1>4. CASE MayGo(r, asked.reviewer)
  <2>1. GoFits(r, asked)
    BY <1>1, <1>3, <1>4 DEF MayDecide, MayGo, GoFits, PilotInv, RowsFit, RowFits
  <2>2. JobFits(j)
    BY <1>2, <1>3, <2>1 DEF JobFits
  <2>3. jobs' = [jobs EXCEPT ![w] = j] /\ UNCHANGED <<external, tables, history>>
    BY <1>4 DEF CheckGo
  <2>4. j.stage \notin Owned
    BY <1>2 DEF Owned
  <2> HIDE DEF j
  <2> QED
    BY <1>2, <2>2, <2>3, <2>4, JobOnly
<1>5. CASE ~MayGo(r, asked.reviewer)
  BY <1>5, EndJobInv DEF CheckGo
<1> QED
  BY <1>4, <1>5

\* The first claim of a pilot: nobody probes a report of it, nor has anybody decided.
LEMMA ClaimProbeInv ==
    ASSUME PilotInv, NEW w \in Workers, ClaimProbe(w)
    PROVE  PilotInv'
<1> USE DEF external, tables, history
<1> DEFINE r == jobs[w].report
           key == jobs[w].key
           j == [jobs[w] EXCEPT !.stage = "get"]
<1>1. jobs[w] \in ProbeJobs /\ r \in Reports /\ key \in Keys /\ jobs[w] # None
  BY JobTyped DEF ClaimProbe, Serves, PilotInv, ProbeJobs
<1>2. CASE Claimed(r, key) # {}
  BY <1>2, EndJobInv DEF ClaimProbe
<1>3. CASE Claimed(r, key) = {}
  <2>1. /\ probes' = [probes EXCEPT ![r] = [status |-> "running", key |-> key]]
        /\ jobs' = [jobs EXCEPT ![w] = j]
        /\ UNCHANGED <<external, decisions, history>>
    BY <1>3 DEF ClaimProbe
  <2>2. j \in Jobs /\ j.stage = "get" /\ j.report = r /\ j # None
    BY <1>1, PilotNone DEF Jobs, ProbeJobs
  <2>3. /\ jobs'[w] = j /\ \A v \in Workers : v # w => jobs'[v] = jobs[v]
        /\ \A s \in Reports : s # r => probes'[s] = probes[s]
        /\ probes'[r] = [status |-> "running", key |-> key]
        /\ probes'[r] \in Probes /\ probes'[r] # None
    BY <1>1, <2>1, PilotNone DEF PilotInv, PilotTypeOK, Probes
  <2>4. \A s \in Reports : PilotOf[s] = PilotOf[r] => probes[s] = None
    BY <1>3 DEF Claimed
  <2>5. probes[r] = None /\ probed[r] = 0
    BY <1>1, <2>4 DEF PilotInv, PilotTypeOK, RowsFit, RowFits
  <2>6. PilotTypeOK'
    BY <2>1, <2>2, <2>3 DEF PilotInv, PilotTypeOK
  <2>7. \A v \in Workers : ~Probing(v, r)
    BY <2>5 DEF PilotInv, JobsFit, JobFits, Probing, Running, Owned
  <2> HIDE DEF j, r, key
  <2>8. OneProber'
    <3>1. \A v \in Workers, s \in Reports : Probing(v, s)' /\ v # w => Probing(v, s) /\ s # r
      BY <2>3, <2>7 DEF Probing
    <3>2. \A s \in Reports : Probing(w, s)' => s = r
      BY <2>2, <2>3 DEF Probing
    <3> QED
      BY <3>1, <3>2 DEF PilotInv, OneProber
  <2>9. JobsFit'
    <3> SUFFICES ASSUME NEW v \in Workers, jobs'[v] # None
                 PROVE  JobFits(jobs[v])'
      BY DEF JobsFit
    <3>1. CASE v = w
      BY <2>1, <2>2, <2>3, <2>5, <3>1 DEF JobFits, Running
    <3>2. CASE v # w
      <4>1. jobs'[v] = jobs[v] /\ JobFits(jobs[v]) /\ jobs[v].report \in Reports
        BY <2>3, <3>2, JobTyped DEF PilotInv, JobsFit
      <4>2. CASE jobs[v].report = r
        BY <2>1, <2>5, <4>1, <4>2 DEF JobFits, MayDecide, GoFits, Passed, Running
      <4>3. CASE jobs[v].report # r
        BY <2>1, <2>3, <4>1, <4>3 DEF JobFits, MayDecide, GoFits, Passed, Running
      <4> QED
        BY <4>2, <4>3
    <3> QED
      BY <3>1, <3>2
  <2>10. RowsFit'
    BY <2>1, <2>3, <2>5 DEF PilotInv, RowsFit, RowFits, Passed, Rehearses
  <2>11. OneProbe'
    BY <2>3, <2>4 DEF PilotInv, OneProbe
  <2>12. OneDecision' /\ DecisionsFit' /\ ToldHold'
    BY <2>1, <2>3, <2>5 DEF PilotInv, OneDecision, DecisionsFit, GoFits, Passed, ToldHold
  <2> QED
    BY <2>6, <2>8, <2>9, <2>10, <2>11, <2>12 DEF PilotInv
<1> QED
  BY <1>2, <1>3

\* The only probe: by the request whose claim it is.
LEMMA GetInv ==
    ASSUME PilotInv, NEW w \in Workers, Get(w)
    PROVE  PilotInv'
<1> USE DEF external, tables, history
<1> DEFINE r == jobs[w].report
<1>1. /\ jobs[w] \in ProbeJobs /\ r \in Reports /\ jobs[w] # None
      /\ jobs[w].stage = "get" /\ Running(r) /\ probed[r] = 0
  BY JobTyped DEF Get, Serves, PilotInv, JobsFit, JobFits
<1>2. PICK j \in Jobs :
        /\ jobs' = [jobs EXCEPT ![w] = j]
        /\ j.report = r /\ j # None
        /\ \/ j.stage = "recheck"
           \/ j.stage = "complete" /\ j.result = "failed"
  <2> DEFINE i == [jobs[w] EXCEPT !.stage = "recheck"]
             k == [jobs[w] EXCEPT !.stage = "complete", !.result = "failed"]
  <2>1. jobs' = [jobs EXCEPT ![w] = i] \/ jobs' = [jobs EXCEPT ![w] = k]
    BY DEF Get, Findings
  <2>2. i \in Jobs /\ i.report = r /\ i.stage = "recheck"
    BY <1>1 DEF Jobs, ProbeJobs
  <2>3. k \in Jobs /\ k.report = r /\ k.stage = "complete" /\ k.result = "failed"
    BY <1>1 DEF Jobs, ProbeJobs, Results
  <2> HIDE DEF i, k
  <2> QED
    BY <2>1, <2>2, <2>3, PilotNone
<1>3. /\ probed' = [probed EXCEPT ![r] = @ + 1]
      /\ confirmed' = [confirmed EXCEPT ![r] = IF Rehearses(r) THEN "after_probe" ELSE @]
      /\ UNCHANGED <<external, tables, told>>
  BY DEF Get, Confirm
<1> HIDE DEF r
<1>4. /\ jobs'[w] = j /\ \A v \in Workers : v # w => jobs'[v] = jobs[v]
      /\ probed'[r] = 1 /\ \A s \in Reports : s # r => probed'[s] = probed[s]
      /\ \A s \in Reports : s # r => confirmed'[s] = confirmed[s]
      /\ confirmed'[r] = IF Rehearses(r) THEN "after_probe" ELSE confirmed[r]
  BY <1>1, <1>2, <1>3 DEF PilotInv, PilotTypeOK
<1>5. PilotTypeOK'
  <2>1. probed' \in [Reports -> Nat]
    BY <1>1, <1>3 DEF PilotInv, PilotTypeOK
  <2>2. confirmed' \in [Reports -> {"never", "after_probe", "after_pass"}]
    BY <1>1, <1>3 DEF PilotInv, PilotTypeOK
  <2>3. jobs' \in [Workers -> Jobs \cup {None}]
    BY <1>2 DEF PilotInv, PilotTypeOK
  <2> QED
    BY <1>3, <2>1, <2>2, <2>3 DEF PilotInv, PilotTypeOK
<1>6. Probing(w, r)
  BY <1>1 DEF Probing, Owned, r
<1>7. OneProber'
  <2>1. \A v \in Workers, s \in Reports : Probing(v, s)' => Probing(v, s)
    BY <1>2, <1>4, <1>6 DEF Probing
  <2> QED
    BY <2>1 DEF PilotInv, OneProber
<1>8. JobsFit'
  <2> SUFFICES ASSUME NEW v \in Workers, jobs'[v] # None
               PROVE  JobFits(jobs[v])'
    BY DEF JobsFit
  <2>1. CASE v = w
    BY <1>1, <1>2, <1>3, <1>4, <2>1 DEF JobFits, Running, Results
  <2>2. CASE v # w
    <3>1. jobs'[v] = jobs[v] /\ JobFits(jobs[v]) /\ jobs[v].report \in Reports
      BY <1>4, <2>2, JobTyped DEF PilotInv, JobsFit
    <3>2. CASE jobs[v].report = r
      <4>1. jobs[v].stage \notin Owned
        BY <1>4, <1>6, <2>2, <3>1, <3>2 DEF PilotInv, OneProber, Probing
      <4>2. ~Passed(r)
        BY <1>1 DEF Running, Passed
      <4> QED
        BY <1>3, <3>1, <3>2, <4>1, <4>2
           DEF JobFits, MayDecide, GoFits, Passed, Running, Owned
    <3>3. CASE jobs[v].report # r
      BY <1>3, <1>4, <3>1, <3>3 DEF JobFits, MayDecide, GoFits, Passed, Running
    <3> QED
      BY <3>2, <3>3
  <2> QED
    BY <2>1, <2>2
<1>9. RowsFit'
  BY <1>1, <1>3, <1>4 DEF PilotInv, RowsFit, RowFits, Passed, Running, Rehearses
<1>10. OneProbe' /\ OneDecision' /\ ToldHold'
  BY <1>3 DEF PilotInv, OneProbe, OneDecision, ToldHold
<1>11. DecisionsFit'
  BY <1>1, <1>3, <1>4 DEF PilotInv, DecisionsFit, GoFits, Passed, Running
<1> QED
  BY <1>5, <1>7, <1>8, <1>9, <1>10, <1>11 DEF PilotInv

\* The outcome goes to the row only while it is RUNNING, hence by its owner.
LEMMA CompleteInv ==
    ASSUME PilotInv, NEW w \in Workers, Complete(w)
    PROVE  PilotInv'
<1> USE DEF external, tables, history
<1> DEFINE r == jobs[w].report
           result == jobs[w].result
<1>1. /\ jobs[w] \in ProbeJobs /\ r \in Reports /\ jobs[w] # None
      /\ jobs[w].stage = "complete" /\ Running(r) /\ probed[r] = 1
      /\ result \in Results /\ (result = "passed" => confirmed[r] # "never")
  BY JobTyped DEF Complete, Serves, PilotInv, JobsFit, JobFits
<1>2. /\ probes' = [probes EXCEPT ![r].status = result]
      /\ jobs' = [jobs EXCEPT ![w] = None]
      /\ UNCHANGED <<external, decisions, probed, told>>
      /\ IF result = "passed"
         THEN confirmed' = [confirmed EXCEPT ![r] = IF Rehearses(r) THEN "after_pass" ELSE @]
         ELSE UNCHANGED confirmed
  BY <1>1 DEF Complete, EndJob, Confirm, Running
<1>3. Probing(w, r)
  BY <1>1 DEF Probing, Owned
<1> HIDE DEF r, result
<1>4. /\ jobs'[w] = None /\ \A v \in Workers : v # w => jobs'[v] = jobs[v]
      /\ probes'[r] # None /\ probes'[r].status = result /\ probes'[r] \in Probes
      /\ \A s \in Reports : s # r => probes'[s] = probes[s]
  <2>1. probes[r] \in Probes /\ probes'[r] = [probes[r] EXCEPT !.status = result]
    BY <1>1, <1>2 DEF PilotInv, PilotTypeOK, Running
  <2>2. probes'[r] \in Probes /\ probes'[r].status = result
    BY <1>1, <2>1 DEF Probes
  <2> QED
    BY <1>1, <1>2, <2>2, PilotNone DEF PilotInv, PilotTypeOK
<1>5. /\ \A s \in Reports : s # r => confirmed'[s] = confirmed[s]
      /\ confirmed[r] # "never" => confirmed'[r] # "never"
      /\ result = "passed" /\ Rehearses(r) => confirmed'[r] = "after_pass"
      /\ confirmed' \in [Reports -> {"never", "after_probe", "after_pass"}]
  BY <1>1, <1>2 DEF PilotInv, PilotTypeOK
<1>6. PilotTypeOK'
  <2>1. probes' \in [Reports -> Probes \cup {None}]
    BY <1>1, <1>2, <1>4 DEF PilotInv, PilotTypeOK
  <2> QED
    BY <1>2, <1>5, <2>1 DEF PilotInv, PilotTypeOK
<1>7. OneProber'
  <2>1. \A v \in Workers, s \in Reports : Probing(v, s)' => Probing(v, s)
    BY <1>4 DEF Probing
  <2> QED
    BY <2>1 DEF PilotInv, OneProber
<1>8. JobsFit'
  <2> SUFFICES ASSUME NEW v \in Workers, jobs'[v] # None
               PROVE  JobFits(jobs[v])'
    BY DEF JobsFit
  <2>1. v # w /\ jobs'[v] = jobs[v] /\ JobFits(jobs[v]) /\ jobs[v].report \in Reports
    BY <1>4, JobTyped DEF PilotInv, JobsFit
  <2>2. CASE jobs[v].report = r
    <3>1. jobs[v].stage \notin Owned
      BY <1>3, <2>1, <2>2 DEF PilotInv, OneProber, Probing
    <3>2. ~Passed(r)
      BY <1>1 DEF Running, Passed
    <3> QED
      BY <1>4, <2>1, <2>2, <3>1, <3>2 DEF JobFits, MayDecide, GoFits, Passed, Owned
  <2>3. CASE jobs[v].report # r
    BY <1>2, <1>4, <1>5, <2>1, <2>3 DEF JobFits, MayDecide, GoFits, Passed, Running
  <2> QED
    BY <2>2, <2>3
<1>9. RowsFit'
  BY <1>1, <1>2, <1>4, <1>5 DEF PilotInv, RowsFit, RowFits, Passed, Rehearses
<1>10. OneProbe'
  BY <1>1, <1>4 DEF PilotInv, OneProbe, Running
<1>11. OneDecision' /\ ToldHold'
  BY <1>2 DEF PilotInv, OneDecision, ToldHold
<1>12. DecisionsFit'
  BY <1>1, <1>2, <1>4, <1>5 DEF PilotInv, DecisionsFit, GoFits, Passed, Running
<1> QED
  BY <1>6, <1>7, <1>8, <1>9, <1>10, <1>11, <1>12 DEF PilotInv

\* The first decision of a pilot, or that very decision again.
LEMMA StoreDecisionInv ==
    ASSUME PilotInv, NEW w \in Workers, StoreDecision(w)
    PROVE  PilotInv'
<1> USE DEF external, tables, history
<1> DEFINE r == jobs[w].report
           asked == jobs[w].asked
           y == [report |-> r, asked |-> asked, answer |-> asked]
<1>1. /\ jobs[w] \in DecisionJobs /\ r \in Reports /\ asked \in Decisions
      /\ GoFits(r, asked)
  BY JobTyped DEF StoreDecision, Serves, PilotInv, JobsFit, JobFits, DecisionJobs
<1>2. jobs' = [jobs EXCEPT ![w] = None] /\ UNCHANGED <<external, probes, probed, confirmed>>
  BY DEF StoreDecision, EndJob
<1>3. OneProber' /\ JobsFit'
  <2>1. jobs'[w] = None /\ \A v \in Workers : v # w => jobs'[v] = jobs[v]
    BY <1>2 DEF PilotInv, PilotTypeOK
  <2>2. OneProber'
    BY <2>1 DEF PilotInv, OneProber, Probing
  <2>3. JobsFit'
    BY <1>2, <2>1 DEF PilotInv, JobsFit, JobFits, MayDecide, GoFits, Running, Passed
  <2> QED
    BY <2>2, <2>3
<1>4. RowsFit' /\ OneProbe'
  BY <1>2 DEF PilotInv, RowsFit, RowFits, Passed, Rehearses, OneProbe
<1>5. /\ current' \subseteq Reports /\ expired' \subseteq Reports
      /\ probes' \in [Reports -> Probes \cup {None}]
      /\ jobs' \in [Workers -> Jobs \cup {None}]
      /\ probed' \in [Reports -> Nat]
      /\ confirmed' \in [Reports -> {"never", "after_probe", "after_pass"}]
  BY <1>2 DEF PilotInv, PilotTypeOK
<1>6. \/ /\ Decided(r, asked) = {}
         /\ decisions' = [decisions EXCEPT ![r] = asked]
         /\ told' = told \cup {y}
      \/ /\ Repeats(r, asked)
         /\ told' = told \cup {y}
         /\ UNCHANGED decisions
      \/ UNCHANGED <<decisions, told>>
  BY DEF StoreDecision, Repeats, Tell
<1>10. y \in DecisionReplies /\ y.report = r /\ y.asked = asked /\ y.answer = asked
  BY <1>1 DEF DecisionReplies
<1> HIDE DEF r, asked, y
<1>7. CASE Decided(r, asked) = {} /\ decisions' = [decisions EXCEPT ![r] = asked]
           /\ told' = told \cup {y}
  <2>1. /\ decisions'[r] = asked /\ decisions' \in [Reports -> Decisions \cup {None}]
        /\ \A s \in Reports : s # r => decisions'[s] = decisions[s]
    BY <1>1, <1>7 DEF PilotInv, PilotTypeOK
  <2>2. \A s \in Reports : PilotOf[s] = PilotOf[r] => decisions[s] = None
    BY <1>7 DEF Decided
  <2>3. PilotTypeOK'
    BY <1>1, <1>5, <1>7, <1>10, <2>1 DEF PilotInv, PilotTypeOK
  <2>4. OneDecision'
    BY <2>1, <2>2 DEF PilotInv, OneDecision
  <2>5. DecisionsFit'
    BY <1>1, <1>2, <2>1 DEF PilotInv, DecisionsFit, GoFits, Passed
  <2>6. ToldHold'
    <3> SUFFICES ASSUME NEW x \in told' PROVE x.answer = decisions'[x.report] /\ x.asked = x.answer
      BY DEF ToldHold
    <3>1. CASE x = y
      BY <1>10, <2>1, <3>1
    <3>2. CASE x \in told
      <4>1. /\ x.report \in Reports /\ x.answer \in Decisions
            /\ x.answer = decisions[x.report] /\ x.asked = x.answer
        BY <3>2 DEF PilotInv, PilotTypeOK, ToldHold, DecisionReplies
      <4>2. x.report # r
        BY <1>1, <2>2, <4>1, PilotNone
      <4> QED
        BY <2>1, <4>1, <4>2
    <3> QED
      BY <1>7, <3>1, <3>2
  <2> QED
    BY <1>3, <1>4, <2>3, <2>4, <2>5, <2>6 DEF PilotInv
<1>8. CASE Repeats(r, asked) /\ told' = told \cup {y} /\ UNCHANGED decisions
  <2>1. PilotTypeOK'
    BY <1>1, <1>5, <1>8, <1>10 DEF PilotInv, PilotTypeOK
  <2>2. OneDecision' /\ DecisionsFit'
    BY <1>2, <1>8 DEF PilotInv, OneDecision, DecisionsFit, GoFits, Passed
  <2>3. ToldHold'
    BY <1>8, <1>10 DEF PilotInv, ToldHold, Repeats
  <2> QED
    BY <1>3, <1>4, <2>1, <2>2, <2>3 DEF PilotInv
<1>9. CASE UNCHANGED <<decisions, told>>
  <2>1. PilotTypeOK' /\ OneDecision' /\ DecisionsFit' /\ ToldHold'
    BY <1>2, <1>5, <1>9
       DEF PilotInv, PilotTypeOK, OneDecision, DecisionsFit, GoFits, Passed, ToldHold
  <2> QED
    BY <1>3, <1>4, <2>1 DEF PilotInv
<1> QED
  BY <1>6, <1>7, <1>8, <1>9

\* What becomes current again confirms a probe, or what it passed, once more.
LEMMA ChangeInv ==
    ASSUME PilotInv, NEW reports \in SUBSET Reports, Change(reports)
    PROVE  PilotInv'
<1> USE DEF external, tables, history
<1>1. current' = reports /\ UNCHANGED <<expired, tables, jobs, probed, told>>
  BY DEF Change
<1>2. /\ \A r \in Reports :
           /\ confirmed'[r] \in {"never", "after_probe", "after_pass"}
           /\ r \in reports /\ probed[r] # 0 => confirmed'[r] # "never"
           /\ r \in reports /\ probed[r] # 0 /\ probes[r].status = "passed"
                => confirmed'[r] = "after_pass"
           /\ confirmed[r] # "never" => confirmed'[r] # "never"
           /\ confirmed[r] = "after_pass" /\ probes[r].status = "passed"
                => confirmed'[r] = "after_pass"
      /\ confirmed' \in [Reports -> {"never", "after_probe", "after_pass"}]
  <2>1. confirmed' = [r \in Reports |->
             IF r \notin reports \/ probed[r] = 0 THEN confirmed[r]
             ELSE IF probes[r].status = "passed" THEN "after_pass" ELSE "after_probe"]
    BY DEF Change
  <2>2. \A r \in Reports : confirmed[r] \in {"never", "after_probe", "after_pass"}
    BY DEF PilotInv, PilotTypeOK
  <2> QED
    BY <2>1, <2>2
<1>3. PilotTypeOK'
  BY <1>1, <1>2 DEF PilotInv, PilotTypeOK
<1>4. OneProber' /\ OneProbe' /\ OneDecision' /\ ToldHold'
  BY <1>1 DEF PilotInv, OneProber, Probing, OneProbe, OneDecision, ToldHold
<1>5. JobsFit'
  <2> SUFFICES ASSUME NEW v \in Workers, jobs[v] # None
               PROVE  JobFits(jobs[v])'
    BY <1>1 DEF JobsFit
  <2>1. JobFits(jobs[v]) /\ jobs[v].report \in Reports
    BY JobTyped DEF PilotInv, JobsFit
  <2> QED
    BY <1>1, <1>2, <2>1 DEF JobFits, MayDecide, GoFits, Passed, Running
<1>6. RowsFit'
  <2> SUFFICES ASSUME NEW r \in Reports PROVE RowFits(r)'
    BY DEF RowsFit
  <2>1. RowFits(r) /\ probed[r] \in Nat
    BY DEF PilotInv, PilotTypeOK, RowsFit
  <2> QED
    BY <1>1, <1>2, <2>1 DEF RowFits, Passed, Rehearses
<1>7. DecisionsFit'
  BY <1>1, <1>2 DEF PilotInv, DecisionsFit, GoFits, Passed
<1> QED
  BY <1>3, <1>4, <1>5, <1>6, <1>7 DEF PilotInv

LEMMA PilotStepInv == PilotInv /\ [PilotNext]_pilotVars => PilotInv'
<1> SUFFICES ASSUME PilotInv, [PilotNext]_pilotVars PROVE PilotInv'
  OBVIOUS
<1>1. ASSUME UNCHANGED <<current, tables, jobs, history>>, expired' \subseteq Reports
      PROVE  PilotInv'
  <2>1. PilotTypeOK'
    BY <1>1 DEF PilotInv, PilotTypeOK, tables, history
  <2>2. OneProber' /\ OneProbe' /\ OneDecision' /\ ToldHold'
    BY <1>1 DEF PilotInv, OneProber, Probing, OneProbe, OneDecision, ToldHold, tables, history
  <2>3. JobsFit'
    BY <1>1 DEF PilotInv, JobsFit, JobFits, MayDecide, GoFits, Passed, Running, tables, history
  <2>4. RowsFit' /\ DecisionsFit'
    BY <1>1 DEF PilotInv, RowsFit, RowFits, Rehearses, DecisionsFit, GoFits, Passed,
                tables, history
  <2> QED
    BY <2>1, <2>2, <2>3, <2>4 DEF PilotInv
<1>2. CASE UNCHANGED pilotVars
  BY <1>1, <1>2 DEF pilotVars, external, PilotInv, PilotTypeOK
<1>3. ASSUME NEW r \in Reports, Expire(r) PROVE PilotInv'
  BY <1>1, <1>3 DEF Expire, PilotInv, PilotTypeOK
<1>4. ASSUME NEW w \in Workers, InterruptJob(w) PROVE PilotInv'
  BY <1>4, EndJobInv DEF InterruptJob
<1> QED
  BY <1>2, <1>3, <1>4, LoadHandoffInv, ClaimProbeInv, GetInv, RecheckInv, CompleteInv,
     ReadProbeInv, CheckGoInv, StoreDecisionInv, ChangeInv DEF PilotNext

LEMMA PilotInvariantHolds == PilotSpec => []PilotInv
<1> QED
  BY PilotInitInv, PilotStepInv, PTL DEF PilotSpec

\* Evidence, probes, decisions and requests always have the types the code knows.
THEOREM PilotIsTyped == PilotSpec => []PilotTypeOK
<1>1. PilotInv => PilotTypeOK
  BY DEF PilotInv
<1> QED
  BY <1>1, PilotInvariantHolds, PTL

\* The target of a pilot is probed at most once, whoever asks and whatever dies
\* (ProductionPilotGoNoGoStore.claim_probe).
THEOREM TargetsAreProbedOnce == PilotSpec => []ProbedOnce
<1>1. PilotInv => ProbedOnce
  BY DEF PilotInv, PilotTypeOK, RowsFit, RowFits, OneProbe, ProbedOnce
<1> QED
  BY <1>1, PilotInvariantHolds, PTL

\* A GO rests on a probe that passed, on evidence that was current after it passed, and
\* on a reviewer without another duty (ProductionPilotGoNoGoService.decide).
THEOREM GoStaysBacked == PilotSpec => []GoIsBacked
<1>1. PilotInv => GoIsBacked
  BY DEF PilotInv, RowsFit, RowFits, DecisionsFit, GoFits, Passed, GoIsBacked
<1> QED
  BY <1>1, PilotInvariantHolds, PTL

\* Whoever is told the decision of a pilot is told the one on record
\* (ProductionPilotGoNoGoStore.store_decision).
THEOREM DecisionsToldAgree == PilotSpec => []DecisionsAgree
<1>1. PilotInv => DecisionsAgree
  <2> SUFFICES ASSUME PilotInv, NEW x \in told, NEW y \in told
               PROVE  /\ x.answer = decisions[x.report]
                      /\ x.asked = x.answer
                      /\ PilotOf[x.report] = PilotOf[y.report] => x = y
    BY DEF DecisionsAgree
  <2>1. /\ x.answer = decisions[x.report] /\ x.asked = x.answer
        /\ y.answer = decisions[y.report] /\ y.asked = y.answer
    BY DEF PilotInv, ToldHold
  <2>2. x \in DecisionReplies /\ y \in DecisionReplies
    BY DEF PilotInv, PilotTypeOK
  <2>3. decisions[x.report] # None /\ decisions[y.report] # None
    BY <2>1, <2>2, PilotNone DEF DecisionReplies
  <2>4. x.report = y.report /\ x.asked = y.asked /\ x.answer = y.answer => x = y
    BY <2>2 DEF DecisionReplies
  <2>5. PilotOf[x.report] = PilotOf[y.report] => x.report = y.report
    BY <2>2, <2>3 DEF PilotInv, OneDecision, DecisionReplies
  <2> QED
    BY <2>1, <2>4, <2>5
<1> QED
  BY <1>1, PilotInvariantHolds, PTL

==============================================================================
