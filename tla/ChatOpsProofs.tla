----------------------------- MODULE ChatOpsProofs -----------------------------
(***************************************************************************)
(* Proofs about ChatOps, for any number of events, chats, actors, incidents *)
(* approvals and workers.                                                   *)
(*                                                                          *)
(* The argument: what a delivery has read is out of date as soon as it is   *)
(* read, but decisions, outcomes of executions and verdicts only grow, so   *)
(* what it concludes from them stays true (Grows).  The invariant says what *)
(* a delivery may rely on at each stage (SoundJob), what its sender was     *)
(* told (SoundReply) and what has been done with which authority            *)
(* (SoundAct); that one worker at most collects evidence for an approval    *)
(* (Collectors); and that one approval of an incident at most has been      *)
(* chosen for execution (OneChosen).                                        *)
(***************************************************************************)
EXTENDS ChatOps, TLAPS

\* The stages of a delivery that has chosen an approval to execute.
Launching ==
    {"existing", "resume", "outcome", "reread", "verification", "verify", "collect",
     "report"}

SoundJob(j) ==
    LET content == sent[j.event] IN
    /\ j.stage # "open" /\ content.incident # None => j.incident = content.incident
    /\ j.stage \in {"bind", "list", "decide"} \cup Launching => Permitted(content)
    /\ j.stage = "decide" =>
         /\ j.target \in Approvals
         /\ content.intent \in {"approve", "reject"}
         /\ incidentOf[j.target] = j.incident
         /\ register[j.target].status # "absent"
    /\ j.stage \in Launching =>
         /\ j.target \in Approvals
         /\ content.intent = "remediate"
         /\ incidentOf[j.target] = j.incident
         /\ register[j.target].status = "approved"
    /\ j.settled => j.stage \in Launching /\ phase[j.target].status = "succeeded"

SoundReply(r) ==
    /\ r.kind \in {"approved", "rejected"} =>
         /\ r.target \in Approvals
         /\ register[r.target] =
              [status |-> r.kind,
               audit |-> [operator |-> sent[r.event].actor, event |-> r.event]]
    /\ r.kind = "completed" =>
         /\ r.target \in Approvals
         /\ phase[r.target].status = "succeeded"
         /\ verifications[r.target].status = "passed"

SoundAct(a) ==
    /\ register[a].status \in {"absent", "pending"} => register[a].audit = None
    /\ register[a].audit # None =>
         Authorizes(register[a].audit, a,
                    IF register[a].status = "approved" THEN {"approve"} ELSE {"reject"},
                    Approvers)
    /\ claims[a] # None =>
         /\ Authorizes(claims[a], a, {"remediate"}, Executors)
         /\ phase[a].status # "unclaimed"
    /\ phase[a].status # "unclaimed" => register[a].status = "approved"

Collects(w, a) == jobs[w] # None /\ jobs[w].stage = "collect" /\ jobs[w].target = a

Collectors ==
    \A w \in Workers, a \in Approvals :
        Collects(w, a) =>
            /\ verifications[a].status = "open"
            /\ \A v \in Workers : Collects(v, a) => v = w

Chosen(a) ==
    \/ claims[a] # None
    \/ \E w \in Workers :
         jobs[w] # None /\ jobs[w].stage \in Launching /\ jobs[w].target = a

OneChosen ==
    \A a, b \in Approvals :
        Chosen(a) /\ Chosen(b) /\ incidentOf[a] = incidentOf[b] => a = b

IInv ==
    /\ TypeOK
    /\ \A w \in Workers : jobs[w] # None => SoundJob(jobs[w])
    /\ \A w \in Workers : SoundReply(replies[w])
    /\ \A a \in Approvals : SoundAct(a)
    /\ Collectors
    /\ OneChosen

\* What a step never takes back.
Grows ==
    /\ sent' = sent
    /\ \A a \in Approvals :
        /\ register[a].status # "absent" => incidentOf'[a] = incidentOf[a]
        /\ register[a].status = "pending" => register'[a].status # "absent"
        /\ register[a].status \in {"approved", "rejected"} => register'[a] = register[a]
        /\ phase[a].status # "unclaimed" => phase'[a].status # "unclaimed"
        /\ phase[a].status = "succeeded" => phase'[a].status = "succeeded"
        /\ verifications[a].status = "passed" => verifications'[a].status = "passed"

------------------------------------------------------------------------------
LEMMA InitInvariant == Init => IInv
<1> SUFFICES ASSUME Init PROVE IInv
  OBVIOUS
<1>1. TypeOK
  BY DEF Init, TypeOK, Register!Init, Register!Absent, Register!Entries, Ledger!Init,
     Ledger!Unclaimed, Ledger!Phases, Silence, Replies, ReplyKinds, Verifications
<1>2. \A w \in Workers : jobs[w] = None /\ replies[w] = Silence
  BY DEF Init
<1>3. \A a \in Approvals : /\ register[a].status = "absent" /\ register[a].audit = None
                           /\ phase[a].status = "unclaimed" /\ claims[a] = None
  BY DEF Init, Register!Init, Register!Absent, Ledger!Init, Ledger!Unclaimed
<1>4. \A w \in Workers : SoundReply(replies[w])
  BY <1>2 DEF SoundReply, Silence
<1>5. \A a \in Approvals : SoundAct(a) /\ ~Chosen(a)
  BY <1>2, <1>3 DEF SoundAct, Chosen
<1> QED
  BY <1>1, <1>2, <1>4, <1>5 DEF IInv, Collectors, Collects, OneChosen

------------------------------------------------------------------------------
(* Types. *)

LEMMA AnswerType ==
    ASSUME TypeOK, NEW w \in Workers, jobs[w] # None, NEW kind \in ReplyKinds,
           NEW a \in Approvals \cup {None}, Answer(w, kind, a)
    PROVE  /\ jobs' \in [Workers -> Jobs \cup {None}]
           /\ replies' \in [Workers -> Replies]
<1>1. jobs[w].event \in Events
  BY DEF TypeOK, Jobs
<1> QED
  BY <1>1 DEF Answer, TypeOK, Replies

LEMMA GotoType ==
    ASSUME TypeOK, NEW w \in Workers, jobs[w] # None, NEW stage \in Stages, Goto(w, stage)
    PROVE  /\ jobs' \in [Workers -> Jobs \cup {None}]
           /\ replies' \in [Workers -> Replies]
BY DEF Goto, TypeOK, Jobs

LEMMA JobType ==
    ASSUME TypeOK, NEW w \in Workers, jobs[w] # None
    PROVE  /\ jobs[w] \in Jobs
           /\ jobs[w].event \in Events
           /\ Content(w) \in Contents
           /\ Audit(w) \in Audits
           /\ Audit(w) # None
           /\ Desired(Content(w).intent) \in {"approved", "rejected"}
BY NoneAssumption DEF TypeOK, Jobs, Content, Contents, Audit, Audits, Desired

LEMMA DecisionType ==
    ASSUME TypeOK, NEW a \in Approvals, NEW t \in {"approved", "rejected"},
           NEW audit \in Audits \cup {None}, Register!Decide(a, t, audit)
    PROVE  register' \in [Approvals -> Register!Entries]
BY DEF TypeOK, Register!Decide, Register!Entries, Register!Targets

LEMMA JobsType ==
    ASSUME TypeOK, NEW w \in Workers, NEW j \in Jobs \cup {None},
           jobs' = [jobs EXCEPT ![w] = j]
    PROVE  jobs' \in [Workers -> Jobs \cup {None}]
BY DEF TypeOK

LEMMA LedgerType ==
    ASSUME TypeOK, NEW a \in Approvals, NEW s \in {"succeeded", "failed"},
           \/ Ledger!Launch(a) \/ Ledger!Freeze(a)
           \/ Ledger!Settle(a, s, None) \/ Ledger!Resolve(a, s, None)
    PROVE  phase' \in [Approvals -> Ledger!Phases]
BY DEF TypeOK, Ledger!Launch, Ledger!Freeze, Ledger!Settle, Ledger!Resolve, Ledger!Phases,
       Ledger!Outcomes

LEMMA TypeStep == TypeOK /\ (\A w \in Workers : jobs[w] # None => SoundJob(jobs[w]))
                     /\ [Next]_vars => TypeOK'
<1> SUFFICES ASSUME TypeOK, \A w \in Workers : jobs[w] # None => SoundJob(jobs[w]),
                    [Next]_vars
             PROVE  TypeOK'
  OBVIOUS
<1> USE NoneAssumption
<1>1. ASSUME UNCHANGED vars PROVE TypeOK'
  BY <1>1 DEF vars, remediation, requested, TypeOK
<1>2. ASSUME NEW w \in Workers, NEW e \in Events, Deliver(w, e) PROVE TypeOK'
  <2>1. [event |-> e, stage |-> "open", incident |-> None, target |-> None,
         settled |-> FALSE] \in Jobs
    BY DEF Jobs, Stages
  <2>2. jobs' \in [Workers -> Jobs \cup {None}]
    BY <1>2, <2>1, JobsType DEF Deliver
  <2>3. Silence \in Replies
    BY DEF Silence, Replies, ReplyKinds
  <2> QED
    BY <1>2, <2>2, <2>3 DEF Deliver, TypeOK, remediation, requested
<1>3. ASSUME NEW w \in Workers, Open(w) PROVE TypeOK'
  <2>1. jobs[w] # None
    BY <1>3 DEF Open, At
  <2>2. PICK incident \in Incidents \cup {None} :
          incident = IncidentFor(Content(w).chat, Content(w).incident)
    BY <2>1, JobType DEF IncidentFor, Contents, TypeOK
  <2>3. CASE Decline(w)
    BY <1>3, <2>1, <2>3, AnswerType DEF Open, Decline, TypeOK, remediation, requested,
       ReplyKinds
  <2>4. CASE /\ jobs' = [jobs EXCEPT ![w].incident = incident,
                  ![w].stage = IF Content(w).intent = "ask" THEN "converse" ELSE "authorize"]
             /\ UNCHANGED replies
    <3>1. PICK s \in Stages :
            s = IF Content(w).intent = "ask" THEN "converse" ELSE "authorize"
      BY DEF Stages
    <3>2. jobs' = [jobs EXCEPT ![w] = [jobs[w] EXCEPT !.incident = incident, !.stage = s]]
      BY <2>1, <2>4, <3>1 DEF TypeOK, Jobs
    <3>3. [jobs[w] EXCEPT !.incident = incident, !.stage = s] \in Jobs
      BY <2>1, JobType DEF Jobs
    <3>4. jobs' \in [Workers -> Jobs \cup {None}]
      BY <3>2, <3>3, JobsType
    <3> QED
      BY <1>3, <2>4, <3>4 DEF Open, TypeOK, remediation, requested
  <2> QED
    BY <1>3, <2>2, <2>3, <2>4 DEF Open
<1>4. ASSUME NEW w \in Workers, Converse(w) \/ Bind(w) PROVE TypeOK'
  <2>1. jobs[w] # None /\ jobs[w].incident \in Incidents \cup {None}
    BY <1>4 DEF Converse, Bind, At, TypeOK, Jobs
  <2>2. sessions' \in [Chats -> Incidents \cup {None}]
    BY <1>4, <2>1 DEF Converse, Bind, Rebound, TypeOK
  <2>3. jobs' \in [Workers -> Jobs \cup {None}] /\ replies' \in [Workers -> Replies]
    BY <1>4, <2>1, AnswerType, GotoType DEF Converse, Bind, ReplyKinds, Stages
  <2> QED
    BY <1>4, <2>2, <2>3 DEF Converse, Bind, TypeOK, remediation, requested
<1>5. ASSUME NEW w \in Workers,
             Authorize(w) \/ ReportExisting(w) \/ FindVerification(w)
      PROVE  TypeOK'
  <2>1. jobs[w] # None /\ jobs[w].target \in Approvals \cup {None}
    BY <1>5 DEF Authorize, ReportExisting, FindVerification, At, TypeOK, Jobs
  <2>2. jobs' \in [Workers -> Jobs \cup {None}] /\ replies' \in [Workers -> Replies]
    BY <1>5, <2>1, AnswerType, GotoType
       DEF Authorize, ReportExisting, FindVerification, Report, Decline, ReplyKinds, Stages
  <2> QED
    BY <1>5, <2>2
       DEF Authorize, ReportExisting, FindVerification, TypeOK, remediation, requested
<1>6. ASSUME NEW w \in Workers, ListPending(w) \/ ListApproved(w) PROVE TypeOK'
  <2>1. jobs[w] # None /\ jobs[w] \in Jobs
    BY <1>6, JobType DEF ListPending, ListApproved, At
  <2>2. ASSUME NEW a \in Approvals, NEW s \in Stages, UNCHANGED replies,
               jobs' = [jobs EXCEPT ![w].target = a, ![w].stage = s]
        PROVE  jobs' \in [Workers -> Jobs \cup {None}] /\ replies' \in [Workers -> Replies]
    BY <2>1, <2>2 DEF TypeOK, Jobs
  <2>3. "decide" \in Stages /\ "existing" \in Stages
    BY DEF Stages
  <2>4. jobs' \in [Workers -> Jobs \cup {None}] /\ replies' \in [Workers -> Replies]
    <3>1. CASE Decline(w)
      BY <2>1, <3>1, AnswerType DEF Decline, ReplyKinds
    <3>2. CASE \E a \in Approvals : Answer(w, Desired(Content(w).intent), a)
      BY <2>1, <3>2, JobType, AnswerType DEF ReplyKinds
    <3>3. CASE \E a \in Approvals, s \in {"decide", "existing"} :
                 /\ jobs' = [jobs EXCEPT ![w].target = a, ![w].stage = s]
                 /\ UNCHANGED replies
      BY <2>2, <2>3, <3>3
    <3> QED
      BY <1>6, <3>1, <3>2, <3>3 DEF ListPending, ListApproved, Of, Candidates
  <2> QED
    BY <1>6, <2>4 DEF ListPending, ListApproved, TypeOK, remediation, requested
<1>7. ASSUME NEW w \in Workers, FindExecution(w) \/ RereadExecution(w) PROVE TypeOK'
  <2>1. jobs[w] # None /\ jobs[w] \in Jobs
    BY <1>7, JobType DEF FindExecution, RereadExecution, At
  <2>2. ASSUME NEW s \in Stages, SeeExecution(w, s)
        PROVE  jobs' \in [Workers -> Jobs \cup {None}] /\ replies' \in [Workers -> Replies]
    BY <2>1, <2>2 DEF SeeExecution, TypeOK, Jobs
  <2>3. jobs' \in [Workers -> Jobs \cup {None}] /\ replies' \in [Workers -> Replies]
    BY <1>7, <2>1, <2>2, AnswerType, GotoType
       DEF FindExecution, RereadExecution, Decline, ReplyKinds, Stages
  <2> QED
    BY <1>7, <2>3 DEF FindExecution, RereadExecution, TypeOK, remediation, requested
<1>8. ASSUME NEW w \in Workers, Decide(w) PROVE TypeOK'
  <2>1. jobs[w] # None /\ jobs[w].target \in Approvals
    BY <1>8 DEF Decide, At, SoundJob
  <2>2. jobs' \in [Workers -> Jobs \cup {None}] /\ replies' \in [Workers -> Replies]
    BY <1>8, <2>1, AnswerType, JobType DEF Decide, Decline, ReplyKinds
  <2>3. register' \in [Approvals -> Register!Entries]
    <3>1. CASE UNCHANGED register
      BY <3>1 DEF TypeOK
    <3>2. CASE Register!Decide(jobs[w].target, Desired(Content(w).intent), Audit(w))
      BY <2>1, <3>2, DecisionType, JobType
    <3> QED
      BY <1>8, <3>1, <3>2 DEF Decide
  <2> QED
    BY <1>8, <2>2, <2>3 DEF Decide, TypeOK, requested
<1>9. ASSUME NEW w \in Workers, Resume(w) \/ RecordOutcome(w) PROVE TypeOK'
  <2>1. jobs[w] # None /\ jobs[w].target \in Approvals
    BY <1>9 DEF Resume, RecordOutcome, At, SoundJob, Launching
  <2>2. jobs' \in [Workers -> Jobs \cup {None}] /\ replies' \in [Workers -> Replies]
    BY <1>9, <2>1, AnswerType, GotoType DEF Resume, RecordOutcome, Decline, ReplyKinds, Stages
  <2>3. phase' \in [Approvals -> Ledger!Phases]
    <3>1. CASE UNCHANGED phase
      BY <3>1 DEF TypeOK
    <3>2. CASE \/ Ledger!Launch(jobs[w].target) \/ Ledger!Freeze(jobs[w].target)
               \/ \E s \in {"succeeded", "failed"} : Ledger!Settle(jobs[w].target, s, None)
      BY <2>1, <3>2, LedgerType
    <3> QED
      BY <1>9, <3>1, <3>2 DEF Resume, RecordOutcome, Ledger!Outcomes
  <2>4. claims' \in [Approvals -> Audits \cup {None}]
    BY <1>9, <2>1, JobType DEF Resume, RecordOutcome, TypeOK
  <2> QED
    BY <1>9, <2>2, <2>3, <2>4 DEF Resume, RecordOutcome, TypeOK, requested
<1>10. ASSUME NEW w \in Workers, Verify(w) \/ Collect(w) PROVE TypeOK'
  <2>1. jobs[w] # None /\ jobs[w].target \in Approvals /\ jobs[w].event \in Events
    BY <1>10, JobType DEF Verify, Collect, At, SoundJob, Launching
  <2>2. jobs' \in [Workers -> Jobs \cup {None}] /\ replies' \in [Workers -> Replies]
    BY <1>10, <2>1, AnswerType, GotoType DEF Verify, Collect, Report, ReplyKinds, Stages
  <2>3. verifications' \in [Approvals -> Verifications]
    BY <1>10, <2>1 DEF Verify, Collect, TypeOK, Verifications
  <2> QED
    BY <1>10, <2>2, <2>3 DEF Verify, Collect, TypeOK, requested
<1>11. ASSUME NEW w \in Workers, Interrupt(w) PROVE TypeOK'
  <2>1. Silence \in Replies
    BY DEF Silence, Replies, ReplyKinds
  <2> QED
    BY <1>11, <2>1 DEF Interrupt, TypeOK, remediation, requested
<1>12. ASSUME NEW a \in Approvals, NEW incident \in Incidents, NEW flag \in BOOLEAN,
              Request(a, incident, flag)
       PROVE  TypeOK'
  <2>1. register' \in [Approvals -> Register!Entries]
    BY <1>12 DEF Request, Register!Create, Register!Entries, TypeOK
  <2> QED
    BY <1>12, <2>1 DEF Request, TypeOK
<1>13. ASSUME NEW a \in Approvals, NEW status \in Register!Targets,
              OperatorDecides(a, status)
       PROVE  TypeOK'
  <2>1. register' \in [Approvals -> Register!Entries]
    BY <1>13, DecisionType DEF OperatorDecides, Register!Targets
  <2> QED
    BY <1>13, <2>1 DEF OperatorDecides, TypeOK, requested
<1>14. ASSUME NEW a \in Approvals, NEW outcome \in Ledger!Outcomes,
              NEW status \in {"open", "passed", "unpassed"},
              OperatorReconciles(a, outcome, status)
       PROVE  TypeOK'
  <2>1. phase' \in [Approvals -> Ledger!Phases]
    BY <1>14, LedgerType DEF OperatorReconciles, Ledger!Outcomes
  <2>2. verifications' \in [Approvals -> Verifications]
    BY <1>14 DEF OperatorReconciles, TypeOK, Verifications
  <2> QED
    BY <1>14, <2>1, <2>2 DEF OperatorReconciles, TypeOK, requested
<1>15. ASSUME NEW c \in Chats, Forget(c) PROVE TypeOK'
  BY <1>15 DEF Forget, TypeOK, remediation, requested
<1> QED
  BY <1>1, <1>2, <1>3, <1>4, <1>5, <1>6, <1>7, <1>8, <1>9, <1>10, <1>11, <1>12, <1>13,
     <1>14, <1>15 DEF Next

------------------------------------------------------------------------------
(* What grows. *)

\* Next, one operator of its disjuncts for each thing they may change.
WorkerStep(w) ==
    \/ \E e \in Events : Deliver(w, e)
    \/ Open(w) \/ Converse(w) \/ Authorize(w) \/ Bind(w) \/ ListPending(w)
    \/ Decide(w) \/ ListApproved(w) \/ FindExecution(w) \/ Resume(w)
    \/ RecordOutcome(w) \/ RereadExecution(w) \/ ReportExisting(w)
    \/ FindVerification(w) \/ Verify(w) \/ Collect(w) \/ Interrupt(w)

OperatorStep ==
    \/ \E a \in Approvals :
        \/ \E incident \in Incidents, flag \in BOOLEAN : Request(a, incident, flag)
        \/ \E status \in Register!Targets : OperatorDecides(a, status)
        \/ \E outcome \in Ledger!Outcomes, status \in {"open", "passed", "unpassed"} :
              OperatorReconciles(a, outcome, status)
    \/ \E c \in Chats : Forget(c)

LEMMA Steps == Next <=> (\E w \in Workers : WorkerStep(w)) \/ OperatorStep
BY DEF Next, WorkerStep, OperatorStep

LEMMA LedgerGrows ==
    ASSUME TypeOK, NEW a \in Approvals, NEW s \in {"succeeded", "failed"},
           \/ Ledger!Launch(a) \/ Ledger!Freeze(a)
           \/ Ledger!Settle(a, s, None) \/ Ledger!Resolve(a, s, None),
           NEW b \in Approvals
    PROVE  /\ phase[b].status # "unclaimed" => phase'[b].status # "unclaimed"
           /\ phase[b].status = "succeeded" => phase'[b].status = "succeeded"
BY DEF TypeOK, Ledger!Launch, Ledger!Freeze, Ledger!Settle, Ledger!Resolve, Ledger!Phases

LEMMA RegisterGrows ==
    ASSUME TypeOK, NEW a \in Approvals, NEW t \in {"approved", "rejected"}, NEW audit,
           Register!Create(a) \/ Register!Decide(a, t, audit),
           NEW b \in Approvals
    PROVE  /\ register[b].status = "pending" => register'[b].status # "absent"
           /\ register[b].status \in {"approved", "rejected"} => register'[b] = register[b]
BY DEF TypeOK, Register!Create, Register!Decide, Register!Entries

LEMMA GrowsStep == IInv /\ [Next]_vars => Grows
<1> SUFFICES ASSUME IInv, [Next]_vars PROVE Grows
  OBVIOUS
<1> USE DEF IInv
<1>1. CASE UNCHANGED vars
  BY <1>1 DEF vars, remediation, requested, Grows
<1>2. ASSUME NEW w \in Workers, Decide(w) PROVE Grows
  <2>1. jobs[w] # None /\ jobs[w].target \in Approvals
    BY <1>2 DEF Decide, At, SoundJob
  <2>2. CASE UNCHANGED register
    BY <1>2, <2>2 DEF Decide, Grows, requested
  <2>3. CASE Register!Decide(jobs[w].target, Desired(Content(w).intent), Audit(w))
    BY <1>2, <2>1, <2>3, JobType, RegisterGrows DEF Decide, Grows, requested
  <2> QED
    BY <1>2, <2>2, <2>3 DEF Decide
<1>3. ASSUME NEW w \in Workers, Resume(w) \/ RecordOutcome(w) PROVE Grows
  <2>1. jobs[w] # None /\ jobs[w].target \in Approvals
    BY <1>3 DEF Resume, RecordOutcome, At, SoundJob, Launching
  <2>2. CASE UNCHANGED phase
    BY <1>3, <2>2 DEF Resume, RecordOutcome, Grows, requested
  <2>3. CASE \/ Ledger!Launch(jobs[w].target) \/ Ledger!Freeze(jobs[w].target)
             \/ \E s \in {"succeeded", "failed"} : Ledger!Settle(jobs[w].target, s, None)
    <3>1. \A b \in Approvals :
            /\ phase[b].status # "unclaimed" => phase'[b].status # "unclaimed"
            /\ phase[b].status = "succeeded" => phase'[b].status = "succeeded"
      BY <2>1, <2>3, LedgerGrows
    <3> QED
      BY <1>3, <3>1 DEF Resume, RecordOutcome, Grows, requested
  <2> QED
    BY <1>3, <2>2, <2>3 DEF Resume, RecordOutcome, Ledger!Outcomes
<1>4. ASSUME NEW w \in Workers, Verify(w) \/ Collect(w) PROVE Grows
  <2>1. jobs[w] # None /\ jobs[w].target \in Approvals
    BY <1>4 DEF Verify, Collect, At, SoundJob, Launching
  <2>2. \A a \in Approvals :
          verifications[a].status = "passed" => verifications'[a] = verifications[a]
    <3>1. CASE Verify(w)
      BY <2>1, <3>1 DEF Verify, TypeOK
    <3>2. CASE Collect(w)
      <4>1. verifications[jobs[w].target].status = "open"
        BY <2>1, <3>2 DEF Collect, At, Collectors, Collects
      <4> QED
        BY <2>1, <3>2, <4>1 DEF Collect, TypeOK
    <3> QED
      BY <1>4, <3>1, <3>2
  <2> QED
    BY <1>4, <2>2 DEF Verify, Collect, Grows, requested
<1>5. ASSUME NEW w \in Workers, WorkerStep(w), ~Decide(w), ~Resume(w), ~RecordOutcome(w),
             ~Verify(w), ~Collect(w)
      PROVE  UNCHANGED <<sent, incidentOf, register, phase, claims, verifications>>
  BY <1>5 DEF WorkerStep, Deliver, Open, Converse, Authorize, Bind, ListPending, ListApproved,
     FindExecution, RereadExecution, ReportExisting, FindVerification, Interrupt, remediation,
     requested
<1>6. ASSUME NEW a \in Approvals, NEW incident \in Incidents, NEW flag \in BOOLEAN,
             Request(a, incident, flag)
      PROVE  Grows
  <2>1. register[a].status = "absent"
    BY <1>6 DEF Request, Register!Create
  <2>2. \A b \in Approvals : register[b].status # "absent" => incidentOf'[b] = incidentOf[b]
    BY <1>6, <2>1 DEF Request, TypeOK
  <2> QED
    BY <1>6, <2>2, RegisterGrows DEF Request, Grows
<1>7. ASSUME NEW a \in Approvals, NEW status \in Register!Targets, OperatorDecides(a, status)
      PROVE  Grows
  BY <1>7, RegisterGrows DEF OperatorDecides, Grows, Register!Targets, requested
<1>8. ASSUME NEW a \in Approvals, NEW outcome \in Ledger!Outcomes,
             NEW status \in {"open", "passed", "unpassed"},
             OperatorReconciles(a, outcome, status)
      PROVE  Grows
  <2>1. \A b \in Approvals :
          verifications[b].status = "passed" => verifications'[b] = verifications[b]
    BY <1>8 DEF OperatorReconciles, TypeOK
  <2> QED
    BY <1>8, <2>1, LedgerGrows DEF OperatorReconciles, Ledger!Outcomes, Grows, requested
<1>9. ASSUME NEW c \in Chats, Forget(c) PROVE Grows
  BY <1>9 DEF Forget, Grows, remediation, requested
<1>10. CASE \E w \in Workers : WorkerStep(w)
  BY <1>2, <1>3, <1>4, <1>5, <1>10 DEF Grows
<1>11. CASE OperatorStep
  BY <1>6, <1>7, <1>8, <1>9, <1>11 DEF OperatorStep
<1> QED
  BY <1>1, <1>10, <1>11, Steps

------------------------------------------------------------------------------
(* What was concluded stays true. *)

LEMMA JobStable ==
    ASSUME TypeOK, Grows, NEW j \in Jobs, SoundJob(j) PROVE SoundJob(j)'
<1>1. \A a \in Approvals : register[a].status # "absent" => register'[a].status # "absent"
  BY DEF Grows, TypeOK, Register!Entries, Register!Targets
<1> QED
  BY <1>1 DEF SoundJob, Grows, Permitted

LEMMA ReplyStable ==
    ASSUME Grows, NEW r \in Replies, SoundReply(r) PROVE SoundReply(r)'
BY DEF SoundReply, Grows

LEMMA ActStable ==
    ASSUME TypeOK, Grows, NEW a \in Approvals, SoundAct(a),
           register'[a] = register[a], claims'[a] = claims[a],
           phase'[a].status # "unclaimed" => phase[a].status # "unclaimed"
    PROVE  SoundAct(a)'
<1>1. register[a].audit # None => register[a].status # "absent"
  BY DEF SoundAct
<1>2. claims[a] # None => register[a].status # "absent"
  BY DEF SoundAct
<1> QED
  BY <1>1, <1>2 DEF SoundAct, Grows, Authorizes

------------------------------------------------------------------------------
(* What a step of a worker leaves behind. *)

Sound(w) ==
    /\ \A v \in Workers \ {w} : jobs'[v] = jobs[v] /\ replies'[v] = replies[v]
    /\ (jobs[w] # None => SoundJob(jobs[w]))'
    /\ SoundReply(replies[w])'

LEMMA AnswerSound ==
    ASSUME TypeOK, NEW w \in Workers, NEW kind, NEW a, Answer(w, kind, a),
           NEW e, e = jobs[w].event,
           SoundReply([kind |-> kind, event |-> e, target |-> a])'
    PROVE  Sound(w)
<1>1. jobs'[w] = None /\ replies'[w] = [kind |-> kind, event |-> e, target |-> a]
  BY DEF Answer, TypeOK
<1>2. \A v \in Workers \ {w} : jobs'[v] = jobs[v] /\ replies'[v] = replies[v]
  BY DEF Answer, TypeOK
<1>3. SoundReply(replies[w])'
  BY <1>1 DEF SoundReply
<1> QED
  BY <1>1, <1>2, <1>3 DEF Sound

\* An answer that claims nothing.
LEMMA PlainAnswerSound ==
    ASSUME TypeOK, NEW w \in Workers, NEW a,
           NEW kind \in {"none", "read", "declined", "incomplete"}, Answer(w, kind, a)
    PROVE  Sound(w)
<1>1. PICK e : e = jobs[w].event
  OBVIOUS
<1>2. SoundReply([kind |-> kind, event |-> e, target |-> a])'
  BY DEF SoundReply
<1> QED
  BY <1>1, <1>2, AnswerSound

LEMMA DeclineSound == ASSUME TypeOK, NEW w \in Workers, Decline(w) PROVE Sound(w)
BY PlainAnswerSound DEF Decline

LEMMA JobSound ==
    ASSUME IInv, Grows, NEW w \in Workers, NEW j \in Jobs, SoundJob(j),
           jobs' = [jobs EXCEPT ![w] = j], UNCHANGED replies
    PROVE  Sound(w)
<1>1. SoundJob(j)'
  BY JobStable DEF IInv
<1>2. jobs'[w] = j
  BY DEF IInv, TypeOK
<1>3. (jobs[w] # None => SoundJob(jobs[w]))'
  BY <1>1, <1>2 DEF SoundJob
<1>4. PICK r \in Replies : r = replies[w]
  BY DEF IInv, TypeOK
<1>5. SoundReply(r)
  BY <1>4 DEF IInv
<1>6. SoundReply(r)'
  BY <1>5, ReplyStable
<1>7. SoundReply(replies[w])'
  BY <1>4, <1>6 DEF SoundReply
<1> QED
  BY <1>3, <1>7 DEF Sound, IInv, TypeOK

\* To another stage, where the delivery may rely on no less.
LEMMA GotoSound ==
    ASSUME IInv, Grows, NEW w \in Workers, jobs[w] # None, NEW stage \in Stages,
           Goto(w, stage),
           NEW j \in Jobs, j = [jobs[w] EXCEPT !.stage = stage], SoundJob(j)
    PROVE  Sound(w)
<1>1. jobs' = [jobs EXCEPT ![w] = j] /\ UNCHANGED replies
  BY DEF Goto, IInv, TypeOK
<1> QED
  BY <1>1, JobSound

LEMMA DeliverSound ==
    ASSUME IInv, Grows, NEW w \in Workers, NEW e \in Events, Deliver(w, e) PROVE Sound(w)
<1> DEFINE j == [event |-> e, stage |-> "open", incident |-> None, target |-> None,
                 settled |-> FALSE]
<1>1. jobs'[w] = j /\ replies'[w] = Silence
  BY DEF Deliver, IInv, TypeOK
<1>2. SoundJob(j)'
  BY DEF SoundJob, Launching
<1>3. \A v \in Workers \ {w} : jobs'[v] = jobs[v] /\ replies'[v] = replies[v]
  BY DEF Deliver, IInv, TypeOK
<1>4. SoundJob(jobs[w])'
  BY <1>1, <1>2 DEF SoundJob
<1>5. SoundReply(replies[w])'
  BY <1>1 DEF SoundReply, Silence
<1> QED
  BY <1>3, <1>4, <1>5 DEF Sound

LEMMA InterruptSound ==
    ASSUME IInv, NEW w \in Workers, Interrupt(w) PROVE Sound(w)
<1>1. jobs'[w] = None /\ replies'[w] = Silence
  BY DEF Interrupt, IInv, TypeOK
<1>2. \A v \in Workers \ {w} : jobs'[v] = jobs[v] /\ replies'[v] = replies[v]
  BY DEF Interrupt, IInv, TypeOK
<1>3. SoundReply(replies[w])'
  BY <1>1 DEF SoundReply, Silence
<1> QED
  BY <1>1, <1>2, <1>3 DEF Sound

LEMMA OpenSound ==
    ASSUME IInv, Grows, NEW w \in Workers, Open(w) PROVE Sound(w)
<1> USE DEF IInv
<1>1. jobs[w] # None /\ jobs[w] \in Jobs /\ SoundJob(jobs[w]) /\ jobs[w].stage = "open"
  BY JobType DEF Open, At
<1>2. CASE Decline(w)
  BY <1>2, DeclineSound
<1>3. CASE ~Decline(w)
  <2>1. PICK incident \in Incidents \cup {None} :
          incident = IncidentFor(Content(w).chat, Content(w).incident)
    BY <1>1, JobType DEF IncidentFor, Contents, TypeOK
  <2>2. PICK s \in Stages : s = IF Content(w).intent = "ask" THEN "converse" ELSE "authorize"
    BY DEF Stages
  <2>3. PICK j \in Jobs : j = [jobs[w] EXCEPT !.incident = incident, !.stage = s]
    BY <1>1 DEF Jobs
  <2>4. jobs' = [jobs EXCEPT ![w] = j] /\ UNCHANGED replies
    BY <1>1, <1>3, <2>1, <2>2, <2>3 DEF Open, TypeOK, Jobs
  <2>5. SoundJob(j)
    <3>1. j.event = jobs[w].event /\ j.settled = jobs[w].settled /\ j.target = jobs[w].target
          /\ j.incident = incident /\ j.stage \in {"converse", "authorize"}
      BY <1>1, <2>2, <2>3 DEF Jobs
    <3>2. sent[j.event].incident # None => incident = sent[j.event].incident
      BY <2>1, <3>1 DEF IncidentFor, Content
    <3> QED
      BY <1>1, <3>1, <3>2 DEF SoundJob, Launching
  <2> QED
    BY <2>4, <2>5, JobSound
<1> QED
  BY <1>2, <1>3

LEMMA ConverseSound ==
    ASSUME IInv, NEW w \in Workers, Converse(w) PROVE Sound(w)
BY PlainAnswerSound DEF IInv, Converse

\* Steps that only go on to a stage.
LEMMA GoOnSound ==
    ASSUME IInv, Grows, NEW w \in Workers, jobs[w] # None, NEW stage \in Stages,
           Goto(w, stage),
           \/ jobs[w].stage = "authorize" /\ stage = "bind" /\ Permitted(Content(w))
           \/ jobs[w].stage = "bind" /\ stage = "list"
           \/ jobs[w].stage \in Launching /\ stage \in Launching
    PROVE  Sound(w)
<1> USE DEF IInv
<1>1. jobs[w] \in Jobs /\ SoundJob(jobs[w])
  BY JobType
<1>2. PICK j \in Jobs : j = [jobs[w] EXCEPT !.stage = stage]
  BY <1>1 DEF Jobs
<1>3. /\ j.event = jobs[w].event /\ j.settled = jobs[w].settled /\ j.stage = stage
      /\ j.target = jobs[w].target /\ j.incident = jobs[w].incident
  BY <1>1, <1>2 DEF Jobs
<1>4. SoundJob(j)
  BY <1>1, <1>3 DEF SoundJob, Content, Launching
<1> QED
  BY <1>2, <1>4, GotoSound

LEMMA AuthoritySound ==
    ASSUME IInv, Grows, NEW w \in Workers, Authorize(w) \/ Bind(w) PROVE Sound(w)
<1>1. jobs[w] # None
  BY DEF Authorize, Bind, At
<1> QED
  BY <1>1, DeclineSound, GoOnSound DEF Authorize, Bind, At, IInv, Stages

\* An answer about a decision that was read as it stands.
LEMMA ReplaySound ==
    ASSUME IInv, Grows, NEW w \in Workers, jobs[w] # None, NEW a \in Approvals,
           NEW status \in {"approved", "rejected"}, IsReplay(w, a, status),
           Answer(w, status, a)
    PROVE  Sound(w)
<1> USE DEF IInv
<1>1. PICK e \in Events : e = jobs[w].event
  BY JobType
<1>2. register[a] = [status |-> status, audit |-> [operator |-> sent[e].actor, event |-> e]]
  BY <1>1 DEF IsReplay, Audit, Content, TypeOK, Register!Entries
<1>3. SoundReply([kind |-> status, event |-> e, target |-> a])'
  BY <1>2 DEF SoundReply, Grows
<1> QED
  BY <1>1, <1>3, AnswerSound

LEMMA ListPendingSound ==
    ASSUME IInv, Grows, NEW w \in Workers, ListPending(w) PROVE Sound(w)
<1> USE DEF IInv
<1>1. /\ jobs[w] # None /\ jobs[w] \in Jobs /\ SoundJob(jobs[w]) /\ jobs[w].stage = "list"
      /\ Content(w).intent \in {"approve", "reject"}
  BY JobType DEF ListPending, At
<1>2. CASE Decline(w)
  BY <1>2, DeclineSound
<1>3. ASSUME NEW a \in Approvals, IsReplay(w, a, Desired(Content(w).intent)),
             Answer(w, Desired(Content(w).intent), a)
      PROVE  Sound(w)
  BY <1>1, <1>3, JobType, ReplaySound
<1>4. ASSUME NEW a \in Approvals, incidentOf[a] = jobs[w].incident,
             register[a].status = "pending", UNCHANGED replies,
             jobs' = [jobs EXCEPT ![w].target = a, ![w].stage = "decide"]
      PROVE  Sound(w)
  <2>1. PICK j \in Jobs : j = [jobs[w] EXCEPT !.target = a, !.stage = "decide"]
    BY <1>1 DEF Jobs, Stages
  <2>2. jobs' = [jobs EXCEPT ![w] = j]
    BY <1>1, <1>4, <2>1 DEF TypeOK, Jobs
  <2>3. /\ j.event = jobs[w].event /\ j.settled = jobs[w].settled /\ j.stage = "decide"
        /\ j.target = a /\ j.incident = jobs[w].incident
    BY <1>1, <2>1 DEF Jobs
  <2>4. SoundJob(j)
    BY <1>1, <1>4, <2>3 DEF SoundJob, Content, Launching
  <2> QED
    BY <1>4, <2>2, <2>4, JobSound
<1> QED
  BY <1>1, <1>2, <1>3, <1>4 DEF ListPending, Of

LEMMA ListApprovedSound ==
    ASSUME IInv, Grows, NEW w \in Workers, ListApproved(w) PROVE Sound(w)
<1> USE DEF IInv
<1>1. /\ jobs[w] # None /\ jobs[w] \in Jobs /\ SoundJob(jobs[w]) /\ jobs[w].stage = "list"
      /\ Content(w).intent = "remediate"
  BY JobType DEF ListApproved, At
<1>2. CASE Decline(w)
  BY <1>2, DeclineSound
<1>3. ASSUME NEW a \in Approvals, incidentOf[a] = jobs[w].incident,
             register[a].status = "approved", UNCHANGED replies,
             jobs' = [jobs EXCEPT ![w].target = a, ![w].stage = "existing"]
      PROVE  Sound(w)
  <2>1. PICK j \in Jobs : j = [jobs[w] EXCEPT !.target = a, !.stage = "existing"]
    BY <1>1 DEF Jobs, Stages
  <2>2. jobs' = [jobs EXCEPT ![w] = j]
    BY <1>1, <1>3, <2>1 DEF TypeOK, Jobs
  <2>3. /\ j.event = jobs[w].event /\ j.settled = jobs[w].settled /\ j.stage = "existing"
        /\ j.target = a /\ j.incident = jobs[w].incident
    BY <1>1, <2>1 DEF Jobs
  <2>4. SoundJob(j)
    BY <1>1, <1>3, <2>3 DEF SoundJob, Content, Launching
  <2> QED
    BY <1>3, <2>2, <2>4, JobSound
<1> QED
  BY <1>1, <1>2, <1>3 DEF ListApproved, Candidates, Of

LEMMA DecideSound ==
    ASSUME IInv, Grows, NEW w \in Workers, Decide(w) PROVE Sound(w)
<1> USE DEF IInv
<1>1. /\ jobs[w] # None /\ jobs[w] \in Jobs /\ jobs[w].target \in Approvals
      /\ Desired(Content(w).intent) \in {"approved", "rejected"}
  BY JobType DEF Decide, At, SoundJob
<1>2. CASE Decline(w)
  BY <1>2, DeclineSound
<1>3. CASE /\ IsReplay(w, jobs[w].target, Desired(Content(w).intent))
           /\ Answer(w, Desired(Content(w).intent), jobs[w].target)
  BY <1>1, <1>3, ReplaySound
<1>4. CASE /\ Register!Decide(jobs[w].target, Desired(Content(w).intent), Audit(w))
           /\ Answer(w, Desired(Content(w).intent), jobs[w].target)
  <2>1. PICK e \in Events : e = jobs[w].event
    BY JobType, <1>1
  <2>2. register'[jobs[w].target] =
          [status |-> Desired(Content(w).intent),
           audit |-> [operator |-> sent[e].actor, event |-> e]]
    BY <1>1, <1>4, <2>1 DEF Register!Decide, TypeOK, Audit, Content
  <2>3. PICK a \in Approvals, status \in {"approved", "rejected"} :
          a = jobs[w].target /\ status = Desired(Content(w).intent)
    BY <1>1
  <2>4. SoundReply([kind |-> status, event |-> e, target |-> a])'
    BY <2>2, <2>3 DEF SoundReply, Grows
  <2> QED
    BY <1>4, <2>1, <2>3, <2>4, AnswerSound
<1> QED
  BY <1>2, <1>3, <1>4 DEF Decide

\* A read of the execution the delivery is about.
LEMMA SeeExecutionSound ==
    ASSUME IInv, Grows, NEW w \in Workers, jobs[w] # None, jobs[w].stage \in Launching,
           NEW stage \in Launching, SeeExecution(w, stage)
    PROVE  Sound(w)
<1> USE DEF IInv
<1>1. jobs[w] \in Jobs /\ SoundJob(jobs[w]) /\ jobs[w].target \in Approvals
  BY JobType DEF SoundJob
<1>2. PICK settled \in BOOLEAN : settled = (phase[jobs[w].target].status = "succeeded")
  OBVIOUS
<1>3. PICK j \in Jobs : j = [jobs[w] EXCEPT !.settled = settled, !.stage = stage]
  BY <1>1 DEF Jobs, Stages, Launching
<1>4. jobs' = [jobs EXCEPT ![w] = j] /\ UNCHANGED replies
  BY <1>1, <1>2, <1>3 DEF SeeExecution, TypeOK, Jobs
<1>5. /\ j.event = jobs[w].event /\ j.settled = settled /\ j.stage = stage
      /\ j.target = jobs[w].target /\ j.incident = jobs[w].incident
  BY <1>1, <1>3 DEF Jobs
<1>6. SoundJob(j)
  BY <1>1, <1>2, <1>5 DEF SoundJob, Launching
<1> QED
  BY <1>4, <1>6, JobSound

LEMMA ExecutionSound ==
    ASSUME IInv, Grows, NEW w \in Workers,
           FindExecution(w) \/ Resume(w) \/ RecordOutcome(w) \/ RereadExecution(w)
    PROVE  Sound(w)
<1>1. jobs[w] # None /\ jobs[w].stage \in Launching
  BY DEF FindExecution, Resume, RecordOutcome, RereadExecution, At, Launching
<1>2. CASE Decline(w)
  BY <1>2, DeclineSound DEF IInv
<1>3. CASE \E stage \in {"resume", "outcome", "reread"} : Goto(w, stage)
  BY <1>1, <1>3, GoOnSound DEF Launching, Stages
<1>4. CASE \E stage \in {"report", "verification"} : SeeExecution(w, stage)
  BY <1>1, <1>4, SeeExecutionSound DEF Launching
<1> QED
  BY <1>2, <1>3, <1>4 DEF FindExecution, Resume, RecordOutcome, RereadExecution

\* The answer about an execution, with a status the verification has and keeps.
LEMMA ReportSound ==
    ASSUME IInv, Grows, NEW w \in Workers, jobs[w] # None, jobs[w].target \in Approvals,
           NEW status, Report(w, status),
           status = "passed" => verifications'[jobs[w].target].status = "passed"
    PROVE  Sound(w)
<1> USE DEF IInv
<1>1. CASE ~Completed(w, status)
  BY <1>1, PlainAnswerSound DEF Report
<1>2. CASE Completed(w, status)
  <2>1. PICK e \in Events, a \in Approvals : e = jobs[w].event /\ a = jobs[w].target
    BY JobType
  <2>2. phase[a].status = "succeeded" /\ verifications'[a].status = "passed"
    BY <1>2, <2>1 DEF Completed, SoundJob
  <2>3. phase'[a].status = "succeeded"
    BY <2>2 DEF Grows
  <2>4. SoundReply([kind |-> "completed", event |-> e, target |-> a])'
    BY <2>2, <2>3 DEF SoundReply
  <2>5. Answer(w, "completed", a)
    BY <1>2, <2>1 DEF Report
  <2> QED
    BY <2>1, <2>4, <2>5, AnswerSound
<1> QED
  BY <1>1, <1>2

LEMMA VerificationSound ==
    ASSUME IInv, Grows, NEW w \in Workers,
           ReportExisting(w) \/ FindVerification(w) \/ Verify(w) \/ Collect(w)
    PROVE  Sound(w)
<1> USE DEF IInv
<1>1. jobs[w] # None /\ jobs[w].stage \in Launching /\ jobs[w].target \in Approvals
  BY DEF ReportExisting, FindVerification, Verify, Collect, At, Launching, SoundJob
<1>2. CASE Answer(w, "incomplete", jobs[w].target)
  BY <1>2, PlainAnswerSound
<1>3. CASE \E stage \in {"verify", "collect"} : Goto(w, stage)
  BY <1>1, <1>3, GoOnSound DEF Launching, Stages
<1>4. CASE Report(w, verifications[jobs[w].target].status)
  <2>1. verifications[jobs[w].target].status = "passed"
          => verifications'[jobs[w].target].status = "passed"
    BY <1>1 DEF Grows
  <2> QED
    BY <1>1, <1>4, <2>1, ReportSound
<1>5. ASSUME NEW status \in {"passed", "unpassed"}, Report(w, status),
             verifications' = [verifications EXCEPT ![jobs[w].target].status = status]
      PROVE  Sound(w)
  <2>1. verifications'[jobs[w].target].status = status
    BY <1>1, <1>5 DEF TypeOK, Verifications
  <2> QED
    BY <1>1, <1>5, <2>1, ReportSound
<1> QED
  BY <1>2, <1>3, <1>4, <1>5 DEF ReportExisting, FindVerification, Verify, Collect

LEMMA WorkerSound ==
    ASSUME IInv, Grows, NEW w \in Workers, WorkerStep(w) PROVE Sound(w)
BY DeliverSound, OpenSound, ConverseSound, AuthoritySound, ListPendingSound,
   ListApprovedSound, DecideSound, ExecutionSound, VerificationSound, InterruptSound
   DEF WorkerStep

\* Steps of the rest of the program leave deliveries and replies alone.
LEMMA OperatorLeaves == OperatorStep => UNCHANGED <<sent, jobs, replies, claims>>
BY DEF OperatorStep, Request, OperatorDecides, OperatorReconciles, Forget, remediation

LEMMA SoundStep ==
    ASSUME IInv, Grows, [Next]_vars
    PROVE  /\ \A w \in Workers : (jobs[w] # None => SoundJob(jobs[w]))'
           /\ \A w \in Workers : SoundReply(replies[w])'
<1> USE DEF IInv
<1>1. ASSUME NEW w \in Workers, jobs'[w] = jobs[w], replies'[w] = replies[w]
      PROVE  (jobs[w] # None => SoundJob(jobs[w]))' /\ SoundReply(replies[w])'
  <2>1. PICK j \in Jobs \cup {None}, r \in Replies : j = jobs[w] /\ r = replies[w]
    BY DEF TypeOK
  <2>2. (j # None => SoundJob(j)') /\ SoundReply(r)'
    BY <2>1, JobStable, ReplyStable
  <2> QED
    BY <1>1, <2>1, <2>2 DEF SoundJob, SoundReply
<1>2. CASE UNCHANGED vars \/ OperatorStep
  BY <1>1, <1>2, OperatorLeaves DEF vars
<1>3. ASSUME NEW w \in Workers, WorkerStep(w)
      PROVE  \A v \in Workers :
               (jobs[v] # None => SoundJob(jobs[v]))' /\ SoundReply(replies[v])'
  BY <1>1, <1>3, WorkerSound DEF Sound
<1> QED
  BY <1>2, <1>3, Steps

------------------------------------------------------------------------------
(* Acts. *)

\* A decision changes the register only.
LEMMA DecisionAct ==
    ASSUME TypeOK, Grows, NEW a \in Approvals, SoundAct(a), NEW b \in Approvals,
           NEW status \in {"approved", "rejected"}, NEW audit,
           Register!Decide(b, status, audit), UNCHANGED <<phase, claims>>,
           audit # None =>
             Authorizes(audit, b, IF status = "approved" THEN {"approve"} ELSE {"reject"},
                        Approvers)
    PROVE  SoundAct(a)'
<1>1. CASE a # b
  BY <1>1, ActStable DEF Register!Decide, TypeOK
<1>2. CASE a = b
  <2>1. register[a].status = "pending"
    BY <1>2 DEF Register!Decide
  <2>2. register'[a] = [status |-> status, audit |-> audit]
    BY <1>2 DEF Register!Decide, TypeOK
  <2>3. claims[a] = None /\ phase[a].status = "unclaimed"
    BY <2>1 DEF SoundAct
  <2>4. incidentOf'[a] = incidentOf[a] /\ sent' = sent
    BY <2>1 DEF Grows
  <2> QED
    BY <1>2, <2>2, <2>3, <2>4 DEF SoundAct, Authorizes
<1> QED
  BY <1>1, <1>2

LEMMA DecideAct ==
    ASSUME IInv, Grows, NEW w \in Workers, Decide(w), NEW a \in Approvals
    PROVE  SoundAct(a)'
<1> USE DEF IInv
<1>1. /\ jobs[w] # None /\ jobs[w].target \in Approvals /\ SoundJob(jobs[w])
      /\ jobs[w].stage = "decide" /\ Content(w).intent \in {"approve", "reject"}
      /\ UNCHANGED <<phase, claims>>
  BY DEF Decide, At, SoundJob, Content
<1>2. CASE UNCHANGED register
  BY <1>1, <1>2, ActStable
<1>3. CASE Register!Decide(jobs[w].target, Desired(Content(w).intent), Audit(w))
  <2>1. PICK b \in Approvals, status \in {"approved", "rejected"} :
          b = jobs[w].target /\ status = Desired(Content(w).intent)
    BY <1>1, JobType
  <2>2. Authorizes(Audit(w), b, IF status = "approved" THEN {"approve"} ELSE {"reject"},
                   Approvers)
    <3>1. Audit(w).event = jobs[w].event /\ Audit(w).operator = Content(w).actor
      BY DEF Audit
    <3>2. Content(w).intent \in IF status = "approved" THEN {"approve"} ELSE {"reject"}
      BY <1>1, <2>1 DEF Desired
    <3>3. Content(w).actor \in Approvers
      BY <1>1 DEF SoundJob, Content, Permitted
    <3>4. Content(w).incident \in {None, incidentOf[b]}
      BY <1>1, <2>1 DEF SoundJob, Content
    <3> QED
      BY <3>1, <3>2, <3>3, <3>4 DEF Authorizes, Content
  <2> QED
    BY <1>1, <1>3, <2>1, <2>2, DecisionAct
<1> QED
  BY <1>2, <1>3 DEF Decide

LEMMA ResumeAct ==
    ASSUME IInv, Grows, NEW w \in Workers, Resume(w), NEW a \in Approvals
    PROVE  SoundAct(a)'
<1> USE DEF IInv
<1>1. /\ jobs[w] # None /\ jobs[w].target \in Approvals /\ SoundJob(jobs[w])
      /\ jobs[w].stage = "resume" /\ UNCHANGED register
  BY DEF Resume, At, SoundJob, Launching
<1>2. CASE UNCHANGED <<phase, claims>>
  BY <1>1, <1>2, ActStable
<1>3. CASE /\ Ledger!Launch(jobs[w].target)
           /\ claims' = [claims EXCEPT ![jobs[w].target] = Audit(w)]
  <2>1. CASE a # jobs[w].target
    BY <1>1, <1>3, <2>1, ActStable DEF Ledger!Launch, TypeOK
  <2>2. CASE a = jobs[w].target
    <3>1. /\ Content(w).intent = "remediate" /\ incidentOf[a] = jobs[w].incident
          /\ register[a].status = "approved" /\ Permitted(Content(w))
      BY <1>1, <2>2 DEF SoundJob, Launching, Content
    <3>2. Authorizes(Audit(w), a, {"remediate"}, Executors)
      BY <1>1, <3>1 DEF Authorizes, Audit, Content, Permitted, SoundJob
    <3>3. claims'[a] = Audit(w) /\ phase'[a].status = "running"
      BY <1>3, <2>2 DEF Ledger!Launch, TypeOK
    <3>4. incidentOf'[a] = incidentOf[a] /\ sent' = sent /\ register'[a] = register[a]
      BY <1>1, <3>1 DEF Grows
    <3>5. PICK audit : audit = Audit(w)
      OBVIOUS
    <3>6. Authorizes(audit, a, {"remediate"}, Executors)'
      BY <3>2, <3>4, <3>5 DEF Authorizes
    <3>7. register[a].audit # None =>
            Authorizes(register[a].audit, a,
                       IF register[a].status = "approved" THEN {"approve"} ELSE {"reject"},
                       Approvers)'
      BY <3>4 DEF SoundAct, Authorizes
    <3> QED
      BY <3>1, <3>3, <3>4, <3>5, <3>6, <3>7 DEF SoundAct, Authorizes
  <2> QED
    BY <2>1, <2>2
<1> QED
  BY <1>2, <1>3 DEF Resume

LEMMA ActStep ==
    ASSUME IInv, Grows, [Next]_vars, NEW a \in Approvals PROVE SoundAct(a)'
<1> USE DEF IInv
<1>1. CASE UNCHANGED vars
  BY <1>1, ActStable DEF vars, remediation
<1>2. ASSUME NEW w \in Workers, WorkerStep(w) PROVE SoundAct(a)'
  <2>1. CASE Decide(w)
    BY <2>1, DecideAct
  <2>2. CASE Resume(w)
    BY <2>2, ResumeAct
  <2>3. CASE RecordOutcome(w)
    <3>1. jobs[w] # None /\ jobs[w].target \in Approvals
      BY <2>3 DEF RecordOutcome, At, SoundJob, Launching
    <3>2. phase'[a].status # "unclaimed" => phase[a].status # "unclaimed"
      BY <2>3, <3>1 DEF RecordOutcome, Ledger!Freeze, Ledger!Settle, TypeOK
    <3> QED
      BY <2>3, <3>2, ActStable DEF RecordOutcome
  <2>4. CASE ~Decide(w) /\ ~Resume(w) /\ ~RecordOutcome(w)
    <3>1. UNCHANGED <<register, phase, claims>>
      BY <1>2, <2>4 DEF WorkerStep, Deliver, Open, Converse, Authorize, Bind, ListPending,
         ListApproved, FindExecution, RereadExecution, ReportExisting, FindVerification,
         Verify, Collect, Interrupt, remediation, requested
    <3> QED
      BY <3>1, ActStable
  <2> QED
    BY <2>1, <2>2, <2>3, <2>4
<1>3. ASSUME NEW b \in Approvals, NEW incident \in Incidents, NEW flag \in BOOLEAN,
             Request(b, incident, flag)
      PROVE  SoundAct(a)'
  <2>1. CASE a # b
    BY <1>3, <2>1, ActStable DEF Request, Register!Create, TypeOK
  <2>2. CASE a = b
    <3>1. register[a].status = "absent" /\ claims'[a] = claims[a] /\ phase'[a] = phase[a]
      BY <1>3, <2>2 DEF Request, Register!Create
    <3>2. claims[a] = None /\ phase[a].status = "unclaimed"
      BY <3>1 DEF SoundAct
    <3>3. register'[a].audit = None
      BY <1>3, <2>2 DEF Request, Register!Create, TypeOK
    <3> QED
      BY <3>1, <3>2, <3>3 DEF SoundAct
  <2> QED
    BY <2>1, <2>2
<1>4. ASSUME NEW b \in Approvals, NEW status \in Register!Targets,
             OperatorDecides(b, status)
      PROVE  SoundAct(a)'
  BY <1>4, DecisionAct DEF OperatorDecides, Register!Targets
<1>5. ASSUME NEW b \in Approvals, NEW outcome \in Ledger!Outcomes,
             NEW status \in {"open", "passed", "unpassed"},
             OperatorReconciles(b, outcome, status)
      PROVE  SoundAct(a)'
  <2>1. phase'[a].status # "unclaimed" => phase[a].status # "unclaimed"
    BY <1>5 DEF OperatorReconciles, Ledger!Resolve, TypeOK
  <2> QED
    BY <1>5, <2>1, ActStable DEF OperatorReconciles
<1>6. ASSUME NEW c \in Chats, Forget(c) PROVE SoundAct(a)'
  BY <1>6, ActStable DEF Forget, remediation
<1>7. CASE OperatorStep
  BY <1>3, <1>4, <1>5, <1>6, <1>7 DEF OperatorStep
<1> QED
  BY <1>1, <1>2, <1>7, Steps

------------------------------------------------------------------------------
(* One collector, and one chosen approval. *)

\* What a step of worker w may do to its own job, as far as these two are concerned.
LEMMA JobMoves ==
    ASSUME IInv, NEW w \in Workers, WorkerStep(w), jobs'[w] # None
    PROVE  /\ jobs'[w].stage = "collect" =>
                 /\ Verify(w)
                 /\ verifications[jobs[w].target].status = "absent"
                 /\ verifications' =
                      [verifications EXCEPT ![jobs[w].target] =
                         [status |-> "open", event |-> jobs[w].event]]
           /\ jobs'[w].stage \in Launching =>
                 \/ ListApproved(w)
                 \/ /\ jobs[w] # None
                    /\ jobs[w].stage \in Launching
                    /\ jobs'[w].target = jobs[w].target
<1> USE DEF IInv
<1>1. CASE jobs[w] = None
  BY <1>1 DEF WorkerStep, Deliver, At, Open, Converse, Authorize, Bind, ListPending, Decide,
     ListApproved, FindExecution, Resume, RecordOutcome, RereadExecution, ReportExisting,
     FindVerification, Verify, Collect, Interrupt, TypeOK, Launching
<1>2. CASE jobs[w] # None
  <2>1. jobs[w] \in Jobs
    BY <1>2, JobType
  <2>2. ~\E e \in Events : Deliver(w, e)
    BY <1>2 DEF Deliver
  <2>3. ~Interrupt(w)
    BY DEF Interrupt, TypeOK
  <2>4. \A kind, a : ~Answer(w, kind, a)
    BY DEF Answer, TypeOK
  <2>5. ASSUME NEW stage, Goto(w, stage)
        PROVE  jobs'[w].stage = stage /\ jobs'[w].target = jobs[w].target
    BY <2>1, <2>5 DEF Goto, TypeOK, Jobs
  <2>6. ASSUME NEW stage, SeeExecution(w, stage)
        PROVE  jobs'[w].stage = stage /\ jobs'[w].target = jobs[w].target
    BY <2>1, <2>6 DEF SeeExecution, TypeOK, Jobs
  <2>7. CASE Open(w) \/ Authorize(w) \/ Bind(w)
    <3>1. jobs'[w].stage \in {"converse", "authorize", "bind", "list"}
      BY <2>1, <2>4, <2>5, <2>7 DEF Open, Authorize, Bind, Decline, TypeOK, Jobs
    <3> QED
      BY <3>1 DEF Launching
  <2>8. CASE ListPending(w)
    <3>1. jobs'[w].stage = "decide"
      BY <2>1, <2>4, <2>8 DEF ListPending, Decline, TypeOK, Jobs
    <3> QED
      BY <3>1 DEF Launching
  <2>9. CASE ListApproved(w)
    <3>1. jobs'[w].stage = "existing"
      BY <2>1, <2>4, <2>9 DEF ListApproved, Decline, TypeOK, Jobs
    <3> QED
      BY <2>9, <3>1
  <2>10. CASE Converse(w) \/ Decide(w) \/ ReportExisting(w) \/ Collect(w)
    BY <2>4, <2>10 DEF Converse, Decide, ReportExisting, Collect, Report, Decline
  <2>11. CASE FindExecution(w) \/ Resume(w) \/ RecordOutcome(w) \/ RereadExecution(w)
              \/ FindVerification(w)
    <3>1. jobs[w].stage \in Launching
      BY <2>11 DEF FindExecution, Resume, RecordOutcome, RereadExecution, FindVerification,
         At, Launching
    <3>2. jobs'[w].stage # "collect" /\ jobs'[w].target = jobs[w].target
      BY <2>4, <2>5, <2>6, <2>11 DEF FindExecution, Resume, RecordOutcome, RereadExecution,
         FindVerification, Report, Decline
    <3> QED
      BY <1>2, <3>1, <3>2
  <2>12. CASE Verify(w)
    <3>1. jobs[w].stage \in Launching
      BY <2>12 DEF Verify, At, Launching
    <3>2. /\ verifications[jobs[w].target].status = "absent"
          /\ verifications' = [verifications EXCEPT ![jobs[w].target] =
                                 [status |-> "open", event |-> jobs[w].event]]
          /\ Goto(w, "collect")
      BY <2>4, <2>12 DEF Verify, Report
    <3> QED
      BY <1>2, <2>5, <2>12, <3>1, <3>2
  <2> QED
    BY <2>2, <2>3, <2>7, <2>8, <2>9, <2>10, <2>11, <2>12 DEF WorkerStep
<1> QED
  BY <1>1, <1>2

LEMMA CollectorsStep ==
    ASSUME IInv, Grows, [Next]_vars PROVE Collectors'
<1> USE DEF IInv
<1>1. CASE UNCHANGED vars
  BY <1>1 DEF vars, remediation, Collectors, Collects
<1>2. CASE OperatorStep
  <2>1. \A b \in Approvals : verifications[b].status = "open" =>
          verifications'[b] = verifications[b]
    BY <1>2 DEF OperatorStep, Request, OperatorDecides, OperatorReconciles, Forget,
       remediation, TypeOK
  <2> QED
    BY <1>2, <2>1, OperatorLeaves DEF Collectors, Collects
<1>3. ASSUME NEW w \in Workers, WorkerStep(w) PROVE Collectors'
  <2>1. \A v \in Workers \ {w} : jobs'[v] = jobs[v]
    BY <1>3, WorkerSound DEF Sound
  <2>2. CASE jobs'[w] # None /\ jobs'[w].stage = "collect"
    <3>1. /\ jobs[w].target \in Approvals
          /\ jobs'[w].target = jobs[w].target
      BY <1>3, <2>2, JobMoves DEF Verify, ListApproved, At, Launching, SoundJob
    <3>2. /\ verifications[jobs[w].target].status = "absent"
          /\ verifications' = [verifications EXCEPT ![jobs[w].target] =
                                 [status |-> "open", event |-> jobs[w].event]]
      BY <1>3, <2>2, JobMoves
    <3>3. \A v \in Workers : ~Collects(v, jobs[w].target)
      BY <3>1, <3>2 DEF Collectors
    <3>4. \A b \in Approvals \ {jobs[w].target} : verifications'[b] = verifications[b]
      BY <3>2 DEF TypeOK
    <3>5. verifications'[jobs[w].target].status = "open"
      BY <3>1, <3>2 DEF TypeOK
    <3>6. \A v \in Workers \ {w}, b \in Approvals :
            Collects(v, b)' => Collects(v, b) /\ b # jobs[w].target
      BY <2>1, <3>3 DEF Collects
    <3>7. \A b \in Approvals : Collects(w, b)' => b = jobs[w].target
      BY <3>1 DEF Collects
    <3>8. ASSUME NEW v \in Workers, NEW b \in Approvals, Collects(v, b)'
          PROVE  /\ verifications'[b].status = "open"
                 /\ \A x \in Workers : Collects(x, b)' => x = v
      <4>1. CASE v = w
        BY <3>5, <3>6, <3>7, <3>8, <4>1
      <4>2. CASE v # w
        <5>1. Collects(v, b) /\ b # jobs[w].target
          BY <3>6, <3>8, <4>2
        <5>2. verifications'[b].status = "open"
          BY <3>4, <5>1 DEF Collectors
        <5>3. \A x \in Workers : Collects(x, b)' => Collects(x, b)
          BY <3>6, <3>7, <5>1
        <5> QED
          BY <5>1, <5>2, <5>3 DEF Collectors
      <4> QED
        BY <4>1, <4>2
    <3> QED
      BY <3>8 DEF Collectors
  <2>3. CASE ~(jobs'[w] # None /\ jobs'[w].stage = "collect")
    <3>1. \A v \in Workers, b \in Approvals : Collects(v, b)' => v # w /\ Collects(v, b)
      BY <2>1, <2>3 DEF Collects
    <3>2. ASSUME NEW v \in Workers, NEW b \in Approvals, v # w, Collects(v, b)
          PROVE  verifications'[b] = verifications[b]
      <4>1. CASE Collect(w)
        <5>1. Collects(w, jobs[w].target) /\ jobs[w].target \in Approvals
          BY <4>1 DEF Collect, At, Collects, SoundJob, Launching
        <5>2. b # jobs[w].target
          BY <3>2, <5>1 DEF Collectors
        <5> QED
          BY <4>1, <5>2 DEF Collect, TypeOK
      <4>2. CASE Verify(w)
        <5>1. verifications[b].status = "open"
          BY <3>2 DEF Collectors
        <5> QED
          BY <4>2, <5>1 DEF Verify, TypeOK
      <4>3. CASE ~Collect(w) /\ ~Verify(w)
        BY <1>3, <4>3 DEF WorkerStep, Deliver, Open, Converse, Authorize, Bind, ListPending,
           Decide, ListApproved, FindExecution, Resume, RecordOutcome, RereadExecution,
           ReportExisting, FindVerification, Interrupt, remediation, requested
      <4> QED
        BY <4>1, <4>2, <4>3
    <3> QED
      BY <3>1, <3>2 DEF Collectors
  <2> QED
    BY <2>2, <2>3
<1> QED
  BY <1>1, <1>2, <1>3, Steps

\* A chosen request is approved, so it exists and stays with its incident.
LEMMA ChosenApproved ==
    ASSUME IInv, NEW a \in Approvals, Chosen(a) PROVE register[a].status = "approved"
BY DEF IInv, Chosen, SoundAct, SoundJob

LEMMA OneChosenStable ==
    ASSUME IInv, Grows, \A a \in Approvals : Chosen(a)' => Chosen(a) PROVE OneChosen'
<1>1. \A a \in Approvals : Chosen(a) => incidentOf'[a] = incidentOf[a]
  BY ChosenApproved DEF Grows
<1> QED
  BY <1>1 DEF OneChosen, IInv

LEMMA OneChosenStep ==
    ASSUME IInv, Grows, [Next]_vars PROVE OneChosen'
<1> USE DEF IInv
<1>1. CASE UNCHANGED vars
  BY <1>1, OneChosenStable DEF vars, remediation, Chosen
<1>2. CASE OperatorStep
  BY <1>2, OneChosenStable, OperatorLeaves DEF Chosen
<1>3. ASSUME NEW w \in Workers, WorkerStep(w) PROVE OneChosen'
  <2>1. \A v \in Workers \ {w} : jobs'[v] = jobs[v]
    BY <1>3, WorkerSound DEF Sound
  <2>2. ASSUME NEW a \in Approvals, claims'[a] # None, ~ListApproved(w) PROVE Chosen(a)
    <3>1. CASE Resume(w)
      <4>1. jobs[w] # None /\ jobs[w].stage \in Launching
        BY <3>1 DEF Resume, At, Launching
      <4> QED
        BY <2>2, <3>1, <4>1 DEF Resume, Chosen, TypeOK
    <3>2. CASE ~Resume(w)
      <4>1. UNCHANGED claims
        BY <1>3, <3>2 DEF WorkerStep, Deliver, Open, Converse, Authorize, Bind, ListPending,
           Decide, ListApproved, FindExecution, RecordOutcome, RereadExecution,
           ReportExisting, FindVerification, Verify, Collect, Interrupt, remediation, requested
      <4> QED
        BY <2>2, <4>1 DEF Chosen
    <3> QED
      BY <3>1, <3>2
  <2>3. CASE ~ListApproved(w)
    <3>1. ASSUME NEW a \in Approvals, Chosen(a)' PROVE Chosen(a)
      <4>1. CASE claims'[a] # None
        BY <2>2, <2>3, <4>1
      <4>2. ASSUME NEW v \in Workers, jobs'[v] # None, jobs'[v].stage \in Launching,
                   jobs'[v].target = a
            PROVE  Chosen(a)
        BY <1>3, <2>1, <2>3, <4>2, JobMoves DEF Chosen
      <4> QED
        BY <3>1, <4>1, <4>2 DEF Chosen
    <3> QED
      BY <3>1, OneChosenStable
  <2>4. CASE ListApproved(w) /\ Decline(w)
    <3>1. jobs'[w] = None /\ UNCHANGED claims
      BY <2>4 DEF ListApproved, Decline, Answer, TypeOK, remediation
    <3> QED
      BY <2>1, <3>1, OneChosenStable DEF Chosen
  <2>5. CASE ListApproved(w) /\ ~Decline(w)
    <3>1. /\ jobs[w] # None /\ UNCHANGED <<incidentOf, claims>>
      BY <2>5 DEF ListApproved, At, remediation, requested
    <3>2. PICK c \in Approvals :
            /\ Candidates(jobs[w].incident) = {c}
            /\ jobs' = [jobs EXCEPT ![w].target = c, ![w].stage = "existing"]
      BY <2>5 DEF ListApproved, Candidates, Of
    <3>3. jobs'[w].target = c
      <4>1. jobs[w] \in Jobs
        BY <3>1, JobType
      <4> QED
        BY <3>2, <4>1 DEF TypeOK, Jobs
    <3>4. \A a \in Approvals : Chosen(a)' => Chosen(a) \/ a = c
      BY <2>1, <3>1, <3>3 DEF Chosen
    <3>5. incidentOf[c] = jobs[w].incident
      BY <3>2 DEF Candidates, Of
    <3>6. \A a \in Approvals : Chosen(a) /\ incidentOf[a] = incidentOf[c] => a = c
      BY <3>2, <3>5, ChosenApproved DEF Candidates, Of
    <3> QED
      BY <3>1, <3>4, <3>6 DEF OneChosen
  <2> QED
    BY <2>3, <2>4, <2>5
<1> QED
  BY <1>1, <1>2, <1>3, Steps

------------------------------------------------------------------------------
(* The invariant and what follows from it. *)

LEMMA NextInvariant == IInv /\ [Next]_vars => IInv'
<1> SUFFICES ASSUME IInv, [Next]_vars PROVE IInv'
  OBVIOUS
<1>1. Grows
  BY GrowsStep
<1>2. TypeOK'
  BY TypeStep DEF IInv
<1>3. (\A a \in Approvals : SoundAct(a))'
  BY <1>1, ActStep
<1> QED
  BY <1>1, <1>2, <1>3, SoundStep, CollectorsStep, OneChosenStep DEF IInv

\* The strengthening that the theorems below rest on holds in every state.
THEOREM InvariantHolds == Spec => []IInv
<1> QED
  BY InitInvariant, NextInvariant, PTL DEF Spec

\* Every event, binding, request, execution, delivery and reply is well typed.
THEOREM ChatOpsTypeOK == Spec => []TypeOK
<1>1. IInv => TypeOK
  BY DEF IInv
<1> QED
  BY <1>1, InvariantHolds, PTL

\* Whoever is told of a decision is told of one that stands and that they made, with
\* this event (write_bridge.py, _decide_approval and _exact_decision_replay).
THEOREM DecisionsToldHold == Spec => []RepliedDecisionsHold
<1>1. IInv => RepliedDecisionsHold
  BY DEF IInv, SoundReply, RepliedDecisionsHold, Register!Targets
<1> QED
  BY <1>1, InvariantHolds, PTL

\* A decision or an execution recorded for a chat event is of the kind, by a sender
\* and on an incident that the event authorizes (write_bridge.py, handle).
THEOREM ActsAreAuthorized == Spec => []ActsFollowAuthority
<1>1. IInv => ActsFollowAuthority
  BY DEF IInv, SoundAct, ActsFollowAuthority
<1> QED
  BY <1>1, InvariantHolds, PTL

\* Nothing runs for a request that no human approved (write_bridge.py, _resume_action).
THEOREM LaunchesAreApproved == Spec => []LaunchedIsApproved
<1>1. IInv => LaunchedIsApproved
  BY DEF IInv, SoundAct, LaunchedIsApproved
<1> QED
  BY <1>1, InvariantHolds, PTL

\* Repeated and concurrent events launch one remediation per incident: the refusal to
\* choose between approved requests is never got round (write_bridge.py, _resume_action).
THEOREM RemediatesOnce == Spec => []OneRemediationPerIncident
<1>1. IInv => OneRemediationPerIncident
  BY DEF IInv, OneChosen, Chosen, OneRemediationPerIncident
<1> QED
  BY <1>1, InvariantHolds, PTL

\* Success is told only of an execution that succeeded and was verified
\* (write_bridge.py, _resume_action and _existing_execution).
THEOREM SuccessIsVerified == Spec => []CompletedIsVerified
<1>1. IInv => CompletedIsVerified
  BY DEF IInv, SoundReply, CompletedIsVerified
<1> QED
  BY <1>1, InvariantHolds, PTL

------------------------------------------------------------------------------
(* The abstract specifications it is built on. *)

\* A step creates one request, records its first decision, or leaves the register alone.
LEMMA RegisterStep ==
    ASSUME IInv, [Next]_vars
    PROVE  [Register!Next]_register
<1> USE DEF IInv
<1>1. CASE UNCHANGED vars
  BY <1>1 DEF vars, remediation
<1>2. ASSUME NEW w \in Workers, Decide(w)
      PROVE  [Register!Next]_register
  <2>1. jobs[w] # None /\ jobs[w].target \in Approvals
    BY <1>2 DEF Decide, At, SoundJob
  <2>2. Desired(Content(w).intent) \in Register!Targets /\ Audit(w) \in Audits
    BY <2>1, JobType DEF Register!Targets
  <2>3. CASE Register!Decide(jobs[w].target, Desired(Content(w).intent), Audit(w))
    BY <2>1, <2>2, <2>3 DEF Register!Next
  <2> QED
    BY <1>2, <2>3 DEF Decide
<1>3. ASSUME NEW w \in Workers, WorkerStep(w), ~Decide(w)
      PROVE  UNCHANGED register
  BY <1>3 DEF WorkerStep, Deliver, Open, Converse, Authorize, Bind, ListPending, ListApproved,
     FindExecution, Resume, RecordOutcome, RereadExecution, ReportExisting, FindVerification,
     Verify, Collect, Interrupt, remediation
<1>4. ASSUME NEW a \in Approvals, NEW incident \in Incidents, NEW flag \in BOOLEAN,
             Request(a, incident, flag)
      PROVE  Register!Next
  BY <1>4 DEF Request, Register!Next
<1>5. ASSUME NEW a \in Approvals, NEW status \in Register!Targets, OperatorDecides(a, status)
      PROVE  Register!Next
  BY <1>5 DEF OperatorDecides, Register!Next
<1>6. ASSUME NEW a, NEW outcome, NEW status, OperatorReconciles(a, outcome, status)
      PROVE  UNCHANGED register
  BY <1>6 DEF OperatorReconciles
<1>7. ASSUME NEW c \in Chats, Forget(c)
      PROVE  UNCHANGED register
  BY <1>7 DEF Forget, remediation
<1>8. CASE \E w \in Workers : WorkerStep(w)
  BY <1>2, <1>3, <1>8
<1>9. CASE OperatorStep
  BY <1>4, <1>5, <1>6, <1>7, <1>9 DEF OperatorStep
<1> QED
  BY <1>1, <1>8, <1>9, Steps

\* A step launches, settles, freezes or resolves one execution, or leaves the ledger alone.
LEMMA LedgerStep ==
    ASSUME IInv, [Next]_vars
    PROVE  [Ledger!Next]_phase
<1> USE DEF IInv
<1>1. CASE UNCHANGED vars
  BY <1>1 DEF vars, remediation
<1>2. ASSUME NEW w \in Workers, Resume(w) \/ RecordOutcome(w)
      PROVE  [Ledger!Next]_phase
  <2>1. jobs[w].target \in Approvals
    BY <1>2 DEF Resume, RecordOutcome, At, SoundJob, Launching
  <2>2. \/ UNCHANGED phase
        \/ Ledger!Launch(jobs[w].target) \/ Ledger!Freeze(jobs[w].target)
        \/ \E s \in Ledger!Outcomes : Ledger!Settle(jobs[w].target, s, None)
    BY <1>2 DEF Resume, RecordOutcome
  <2> QED
    BY <2>1, <2>2 DEF Ledger!Next
<1>3. ASSUME NEW w \in Workers, WorkerStep(w), ~Resume(w), ~RecordOutcome(w)
      PROVE  UNCHANGED phase
  BY <1>3 DEF WorkerStep, Deliver, Open, Converse, Authorize, Bind, ListPending, Decide,
     ListApproved, FindExecution, RereadExecution, ReportExisting, FindVerification, Verify,
     Collect, Interrupt, remediation
<1>4. ASSUME NEW a \in Approvals, NEW outcome \in Ledger!Outcomes, NEW status,
             OperatorReconciles(a, outcome, status)
      PROVE  Ledger!Next
  BY <1>4 DEF OperatorReconciles, Ledger!Next
<1>5. ASSUME NEW a, NEW incident, NEW flag, Request(a, incident, flag)
      PROVE  UNCHANGED phase
  BY <1>5 DEF Request
<1>6. ASSUME NEW a, NEW status, OperatorDecides(a, status)
      PROVE  UNCHANGED phase
  BY <1>6 DEF OperatorDecides
<1>7. ASSUME NEW c \in Chats, Forget(c)
      PROVE  UNCHANGED phase
  BY <1>7 DEF Forget, remediation
<1>8. CASE \E w \in Workers : WorkerStep(w)
  BY <1>2, <1>3, <1>8
<1>9. CASE OperatorStep
  BY <1>4, <1>5, <1>6, <1>7, <1>9 DEF OperatorStep
<1> QED
  BY <1>1, <1>8, <1>9, Steps

\* The bridge and the operators beside it use approvals as ApprovalManager lets them,
\* which ApprovalDecision shows of the manager: whatever a text, its repetitions and the
\* API do at once, a request is decided at most once, and only when it exists.
THEOREM ChatsDecideThroughRegister == Spec => Register!Spec
<1>1. Init => Register!Init
  BY DEF Init
<1> QED
  BY <1>1, InvariantHolds, RegisterStep, PTL DEF Spec, Register!Spec

\* The bridge and the operators beside it use executions as ActionExecutionService lets
\* them, which ActionExecution shows of the service: one launch per approval, one outcome,
\* and a frozen execution decided by an operator alone.
THEOREM ChatsExecuteThroughLedger == Spec => Ledger!Spec
<1>1. Init => Ledger!Init
  BY DEF Init
<1> QED
  BY <1>1, InvariantHolds, LedgerStep, PTL DEF Spec, Ledger!Spec

==============================================================================
