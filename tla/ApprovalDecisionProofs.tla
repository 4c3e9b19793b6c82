------------------------- MODULE ApprovalDecisionProofs -------------------------
(***************************************************************************)
(* Proofs about ApprovalDecision, for any number of workers, requests and  *)
(* audit records.                                                          *)
(***************************************************************************)
EXTENDS ApprovalDecision, TLAPS

(* The inductive invariant.  A call writes the copy it read, so what it     *)
(* holds must be the request as it was created, changed by its own decision *)
(* (CallsAreBound); a refused call reaches the write only once the request  *)
(* is decided, and the write then finds it so.                              *)

PendingUndecided ==
    \A id \in Saved : approvals[id].status = "pending" => approvals[id].decision = None

Acknowledgements == {"decided", "replayed"}

AnswersNameTargets ==
    \A w \in Workers : replies[w].kind \in Acknowledgements => replies[w].target \in Targets

IInv ==
    /\ TypeOK
    /\ ApprovedPlanIsBound
    /\ PendingUndecided
    /\ AnswersNameTargets
    /\ AcknowledgedDecisionStands
    /\ CallsAreBound

------------------------------------------------------------------------------
(* What requests look like. *)

LEMMA PendingType ==
    ASSUME NEW id \in Requests
    PROVE  /\ Pending(id) \in Approvals
           /\ Pending(id).status = "pending" /\ Pending(id).decision = None
           /\ Pending(id).bound = (id \in PreApproved)
           /\ Pending(id).plan = Pending(id).bound
BY DEF Pending, Approvals

LEMMA DecidedType ==
    ASSUME NEW copy \in Approvals, NEW t \in Targets, NEW audit \in Audits \cup {None}
    PROVE  /\ Decided(copy, t, audit) \in Approvals
           /\ Decided(copy, t, audit).status = t
           /\ Decided(copy, t, audit).bound = copy.bound
           /\ Decided(copy, t, audit).plan = (t = "approved")
           /\ audit # None => Decided(copy, t, audit).decision = [target |-> t, audit |-> audit]
<1> DEFINE decision == IF audit = None THEN None ELSE [target |-> t, audit |-> audit]
           plan == (t = "approved")
<1>1. decision \in Decisions \cup {None}
  BY DEF Decisions
<1>2. plan \in BOOLEAN
  OBVIOUS
<1>3. Decided(copy, t, audit) = [copy EXCEPT !.status = t, !.plan = plan, !.decision = decision]
  BY DEF Decided
<1>4. audit # None => decision = [target |-> t, audit |-> audit]
  OBVIOUS
<1> HIDE DEF decision, plan
<1>5. /\ Decided(copy, t, audit) \in Approvals
      /\ Decided(copy, t, audit).status = t
      /\ Decided(copy, t, audit).bound = copy.bound
      /\ Decided(copy, t, audit).plan = plan
      /\ Decided(copy, t, audit).decision = decision
  BY <1>1, <1>2, <1>3 DEF Approvals
<1> QED
  BY <1>4, <1>5 DEF plan

LEMMA AnswerTypes ==
    ASSUME NEW kind \in ReplyKinds
    PROVE  /\ Said(kind) \in Replies /\ Said(kind).kind = kind
           /\ \A id \in Requests, t \in Targets, audit \in Audits \cup {None} :
                /\ Told(kind, id, t, audit) \in Replies
                /\ Told(kind, id, t, audit).id = id
                /\ Told(kind, id, t, audit).target = t
                /\ Told(kind, id, t, audit).audit = audit
BY DEF Said, Told, Replies

LEMMA InitInvariant == Init => IInv
<1> SUFFICES ASSUME Init PROVE IInv
  OBVIOUS
<1>1. Said("none") \in Replies /\ Said("none").kind = "none"
  BY AnswerTypes DEF ReplyKinds
<1>2. Saved = {}
  BY DEF Init, Saved
<1>3. \A w \in Workers : calls[w] = None /\ replies[w].kind = "none"
  BY <1>1 DEF Init
<1>4. TypeOK
  BY <1>1 DEF Init, TypeOK
<1> QED
  BY <1>2, <1>3, <1>4
  DEF IInv, ApprovedPlanIsBound, PendingUndecided, AnswersNameTargets, Acknowledgements,
      AcknowledgedDecisionStands, CallsAreBound

------------------------------------------------------------------------------
(* The two shapes of a step: one that leaves the table alone, and a write. *)

\* A call that is bound (one conjunct of CallsAreBound).
BoundCall(c) ==
    /\ c.id \in Saved
    /\ c.stage \in {"guard", "recheck"} => c.copy = Pending(c.id)
    /\ c.stage \in {"update", "refresh"} =>
         /\ Bindable(Pending(c.id), c.target)
         /\ c.copy = Decided(Pending(c.id), c.target, c.audit)
    /\ c.refused /\ c.stage \in {"update", "refresh"} => approvals[c.id].status # "pending"
    /\ c.stage = "guard" => ~c.refused

\* An answer that the table bears out (one conjunct of AcknowledgedDecisionStands).
RightAnswer(reply) ==
    reply.kind \in Acknowledgements =>
        /\ reply.id \in Saved
        /\ reply.target \in Targets
        /\ LET stored == approvals[reply.id] IN
           /\ stored.status = reply.target
           /\ reply.audit # None =>
                stored.decision = [target |-> reply.target, audit |-> reply.audit]

LEMMA TableUntouched ==
    ASSUME IInv, NEW w \in Workers, UNCHANGED approvals,
           NEW c \in Calls \cup {None}, calls' = [calls EXCEPT ![w] = c],
           c # None => BoundCall(c),
           NEW reply \in Replies, replies' = [replies EXCEPT ![w] = reply],
           RightAnswer(reply)
    PROVE  IInv'
<1>1. TypeOK'
  BY DEF IInv, TypeOK
<1>2. Saved' = Saved /\ approvals' = approvals
  BY DEF Saved
<1>3. ApprovedPlanIsBound' /\ PendingUndecided'
  BY <1>2 DEF IInv, ApprovedPlanIsBound, PendingUndecided
<1>4. /\ calls'[w] = c /\ replies'[w] = reply
      /\ \A v \in Workers : v # w => calls'[v] = calls[v] /\ replies'[v] = replies[v]
  BY DEF IInv, TypeOK
<1>5. AcknowledgedDecisionStands' /\ AnswersNameTargets'
  BY <1>2, <1>4
  DEF IInv, AcknowledgedDecisionStands, AnswersNameTargets, Acknowledgements, RightAnswer
<1>6. CallsAreBound'
  <2> SUFFICES ASSUME NEW v \in Workers, calls'[v] # None
               PROVE  BoundCall(calls'[v])
    BY <1>2 DEF CallsAreBound, BoundCall
  <2>1. CASE v = w
    BY <1>4, <2>1
  <2>2. CASE v # w
    BY <1>4, <2>2 DEF IInv, CallsAreBound, BoundCall
  <2> QED
    BY <2>1, <2>2
<1> QED
  BY <1>1, <1>3, <1>5, <1>6 DEF IInv

\* The same, when nothing is answered or no call is changed.
LEMMA CallAlone ==
    ASSUME IInv, NEW w \in Workers, UNCHANGED <<approvals, replies>>,
           NEW c \in Calls, calls' = [calls EXCEPT ![w] = c], BoundCall(c)
    PROVE  IInv'
<1>1. replies[w] \in Replies /\ RightAnswer(replies[w])
  BY DEF IInv, TypeOK, AcknowledgedDecisionStands, AnswersNameTargets, Acknowledgements,
         RightAnswer
<1>2. replies' = [replies EXCEPT ![w] = replies[w]]
  BY DEF IInv, TypeOK
<1> QED
  BY <1>1, <1>2, TableUntouched

LEMMA AnswerAlone ==
    ASSUME IInv, NEW w \in Workers, NEW answer \in Replies, Reply(w, answer),
           RightAnswer(answer)
    PROVE  IInv'
<1>1. calls[w] \in Calls \cup {None} /\ (calls[w] # None => BoundCall(calls[w]))
  BY DEF IInv, TypeOK, CallsAreBound, BoundCall
<1>2. calls' = [calls EXCEPT ![w] = calls[w]]
  BY DEF Reply, IInv, TypeOK
<1> QED
  BY <1>1, <1>2, TableUntouched DEF Reply

\* A call that ends with an answer about no request.
LEMMA EndsInvalid ==
    ASSUME IInv, NEW w \in Workers, UNCHANGED approvals,
           NEW kind \in ReplyKinds \ Acknowledgements,
           calls' = [calls EXCEPT ![w] = None],
           replies' = [replies EXCEPT ![w] = Said(kind)]
    PROVE  IInv'
<1>1. Said(kind) \in Replies /\ RightAnswer(Said(kind))
  BY AnswerTypes DEF RightAnswer, Acknowledgements
<1> QED
  BY <1>1, TableUntouched

\* A replay is answered of what is stored.
LEMMA ReplayIsRight ==
    ASSUME IInv, NEW id \in Saved, NEW t \in Targets, NEW audit \in Audits \cup {None},
           SameDecision(approvals[id], t, audit)
    PROVE  /\ Told("replayed", id, t, audit) \in Replies
           /\ RightAnswer(Told("replayed", id, t, audit))
<1>1. id \in Requests
  BY DEF Saved
<1>2. approvals[id] \in Approvals
  BY DEF IInv, TypeOK, Saved
<1>3. audit # None => approvals[id].decision = [target |-> t, audit |-> audit]
  BY <1>2 DEF SameDecision, Approvals, Decisions
<1> QED
  BY <1>1, <1>3, AnswerTypes DEF RightAnswer, ReplyKinds, SameDecision

------------------------------------------------------------------------------
(* The actions. *)

LEMMA CreateInv ==
    ASSUME IInv, NEW w \in Workers, NEW id \in Requests, Create(w, id)
    PROVE  IInv'
<1>1. CASE /\ id \notin Saved
           /\ approvals' = [approvals EXCEPT ![id] = Pending(id)]
           /\ replies' = [replies EXCEPT ![w] = Said("saved")]
           /\ UNCHANGED calls
  <2>1. /\ Pending(id) \in Approvals /\ Pending(id) # None
        /\ Pending(id).status = "pending" /\ Pending(id).decision = None
        /\ Pending(id).bound = (id \in PreApproved) /\ Pending(id).plan = Pending(id).bound
    BY PendingType, NoneAssumption
  <2>2. Said("saved") \in Replies /\ Said("saved").kind = "saved"
    BY AnswerTypes DEF ReplyKinds
  <2>3. TypeOK'
    BY <1>1, <2>1, <2>2 DEF IInv, TypeOK
  <2>4. /\ approvals'[id] = Pending(id)
        /\ \A x \in Requests : x # id => approvals'[x] = approvals[x]
    BY <1>1 DEF IInv, TypeOK
  <2>5. Saved' = Saved \cup {id} /\ Saved \subseteq Requests
    BY <2>1, <2>4 DEF Saved
  <2>6. \A x \in Saved : x # id /\ x \in Requests /\ approvals'[x] = approvals[x]
    BY <1>1, <2>4, <2>5
  <2>7. /\ replies'[w].kind = "saved"
        /\ \A v \in Workers : v # w => replies'[v] = replies[v]
    BY <1>1, <2>2 DEF IInv, TypeOK
  <2>8. ApprovedPlanIsBound' /\ PendingUndecided'
    BY <2>1, <2>4, <2>5, <2>6 DEF IInv, ApprovedPlanIsBound, PendingUndecided
  <2>9. AcknowledgedDecisionStands' /\ AnswersNameTargets'
    BY <2>5, <2>6, <2>7
    DEF IInv, AcknowledgedDecisionStands, AnswersNameTargets, Acknowledgements
  <2>10. CallsAreBound'
    BY <1>1, <2>5, <2>6 DEF IInv, CallsAreBound
  <2> QED
    BY <2>3, <2>8, <2>9, <2>10 DEF IInv
<1>2. CASE Reply(w, Said("conflict"))
  <2>1. Said("conflict") \in Replies /\ RightAnswer(Said("conflict"))
    BY AnswerTypes DEF ReplyKinds, RightAnswer, Acknowledgements
  <2> QED
    BY <1>2, <2>1, AnswerAlone
<1> QED
  BY <1>1, <1>2 DEF Create

LEMMA DecideInv ==
    ASSUME IInv, NEW w \in Workers, NEW id \in Requests, NEW t \in Targets,
           NEW audit \in Audits \cup {None}, Decide(w, id, t, audit)
    PROVE  IInv'
<1>1. id \in Saved /\ approvals[id] \in Approvals
  BY DEF Decide, IInv, TypeOK, Saved
<1>2. CASE /\ SameDecision(approvals[id], t, audit)
           /\ Reply(w, Told("replayed", id, t, audit))
  BY <1>1, <1>2, ReplayIsRight, AnswerAlone
<1>3. CASE Reply(w, Said("conflict"))
  <2>1. Said("conflict") \in Replies /\ RightAnswer(Said("conflict"))
    BY AnswerTypes DEF ReplyKinds, RightAnswer, Acknowledgements
  <2> QED
    BY <1>3, <2>1, AnswerAlone
<1> DEFINE c == [id |-> id, target |-> t, audit |-> audit, copy |-> approvals[id],
                 refused |-> FALSE, stage |-> "guard"]
<1>4. CASE /\ approvals[id].status = "pending"
           /\ calls' = [calls EXCEPT ![w] = c]
           /\ UNCHANGED <<approvals, replies>>
  <2>1. c \in Calls
    BY <1>1 DEF Calls
  <2>2. approvals[id] = Pending(id)
    <3> DEFINE a == approvals[id]
    <3>1. a.status = "pending" /\ a.bound = (id \in PreApproved) /\ a.plan = a.bound
      BY <1>1, <1>4 DEF IInv, ApprovedPlanIsBound
    <3>2. a.decision = None
      BY <1>1, <1>4 DEF IInv, PendingUndecided
    <3> HIDE DEF a
    <3> QED
      BY <1>1, <3>1, <3>2 DEF Approvals, Pending, a
  <2>3. BoundCall(c)
    BY <1>1, <2>2 DEF BoundCall
  <2> QED
    BY <1>4, <2>1, <2>3, CallAlone
<1> QED
  BY <1>2, <1>3, <1>4 DEF Decide

\* A change of the copy is a decision of the request as it was created, or refused.
LEMMA ChangeInv ==
    ASSUME IInv, NEW w \in Workers, calls[w] # None, calls[w].stage \in {"guard", "recheck"},
           calls[w].refused => approvals[calls[w].id].status # "pending",
           Change(w)
    PROVE  IInv'
<1> DEFINE c == calls[w]
           next == [c EXCEPT !.copy = Decided(c.copy, c.target, c.audit), !.stage = "update"]
<1>1. c \in Calls /\ BoundCall(c)
  BY DEF IInv, TypeOK, CallsAreBound, BoundCall
<1>2. CASE /\ Bindable(c.copy, c.target)
           /\ calls' = [calls EXCEPT ![w].copy = Decided(c.copy, c.target, c.audit),
                                     ![w].stage = "update"]
           /\ UNCHANGED <<approvals, replies>>
  <2>1. Decided(c.copy, c.target, c.audit) \in Approvals
    BY <1>1, DecidedType DEF Calls
  <2>2. /\ next \in Calls /\ next.stage = "update" /\ next.id = c.id
        /\ next.target = c.target /\ next.audit = c.audit /\ next.refused = c.refused
        /\ next.copy = Decided(c.copy, c.target, c.audit)
    BY <1>1, <2>1 DEF Calls
  <2>3. calls' = [calls EXCEPT ![w] = next]
    BY <1>2
  <2>4. c.copy = Pending(c.id) /\ c.id \in Saved
    BY <1>1 DEF BoundCall
  <2> HIDE DEF next
  <2>5. BoundCall(next)
    BY <1>2, <2>2, <2>4 DEF BoundCall
  <2> QED
    BY <1>2, <2>2, <2>3, <2>5, CallAlone
<1>3. CASE /\ calls' = [calls EXCEPT ![w] = None]
           /\ replies' = [replies EXCEPT ![w] = Said("invalid")]
           /\ UNCHANGED approvals
  BY <1>3, EndsInvalid DEF ReplyKinds, Acknowledgements
<1> QED
  BY <1>2, <1>3 DEF Change

LEMMA GuardInv ==
    ASSUME IInv, NEW w \in Workers, GuardAllows(w) \/ GuardRefuses(w)
    PROVE  IInv'
<1> DEFINE c == calls[w]
<1>1. c # None /\ c.stage = "guard" /\ c \in Calls /\ BoundCall(c)
  BY DEF GuardAllows, GuardRefuses, IInv, TypeOK, CallsAreBound, BoundCall
<1>2. CASE GuardAllows(w)
  <2>1. ~c.refused
    BY <1>1 DEF BoundCall
  <2> QED
    BY <1>1, <1>2, <2>1, ChangeInv DEF GuardAllows
<1>3. CASE GuardRefuses(w)
  <2> DEFINE next == [c EXCEPT !.stage = "recheck", !.refused = TRUE]
  <2>1. /\ next \in Calls /\ next.stage = "recheck" /\ next.id = c.id /\ next.copy = c.copy
    BY <1>1 DEF Calls
  <2>2. calls' = [calls EXCEPT ![w] = next]
    BY <1>3 DEF GuardRefuses
  <2> HIDE DEF next
  <2>3. BoundCall(next)
    BY <1>1, <2>1 DEF BoundCall
  <2> QED
    BY <1>3, <2>1, <2>2, <2>3, CallAlone DEF GuardRefuses
<1> QED
  BY <1>2, <1>3

LEMMA RecheckInv ==
    ASSUME IInv, NEW w \in Workers, Recheck(w)
    PROVE  IInv'
<1> DEFINE c == calls[w]
           stored == approvals[c.id]
<1>1. c # None /\ c.stage = "recheck" /\ c \in Calls
  BY DEF Recheck, IInv, TypeOK
<1>2. CASE SameDecision(stored, c.target, c.audit) /\ Change(w)
  <2>1. stored.status # "pending"
    BY <1>1, <1>2 DEF SameDecision, Calls, Targets
  <2> QED
    BY <1>1, <1>2, <2>1, ChangeInv
<1>3. CASE /\ calls' = [calls EXCEPT ![w] = None]
           /\ replies' = [replies EXCEPT ![w] =
                Said(IF stored.status = c.target THEN "conflict" ELSE "guarded")]
           /\ UNCHANGED approvals
  <2>1. PICK kind \in {"conflict", "guarded"} : replies' = [replies EXCEPT ![w] = Said(kind)]
    BY <1>3
  <2> QED
    BY <1>3, <2>1, EndsInvalid DEF ReplyKinds, Acknowledgements
<1> QED
  BY <1>2, <1>3 DEF Recheck

LEMMA UpdateInv ==
    ASSUME IInv, NEW w \in Workers, Update(w)
    PROVE  IInv'
<1> DEFINE c == calls[w]
           x == c.id
<1>1. c # None /\ c.stage = "update" /\ c \in Calls /\ BoundCall(c)
  BY DEF Update, IInv, TypeOK, CallsAreBound, BoundCall
<1>2. /\ x \in Requests /\ x \in Saved
      /\ c.target \in Targets /\ c.audit \in Audits \cup {None} /\ c.copy \in Approvals
      /\ Bindable(Pending(x), c.target) /\ c.copy = Decided(Pending(x), c.target, c.audit)
  BY <1>1 DEF BoundCall, Calls
<1>3. /\ c.copy # None /\ c.copy.status = c.target /\ c.copy.bound = Pending(x).bound
      /\ c.copy.plan = (c.target = "approved")
      /\ c.audit # None => c.copy.decision = [target |-> c.target, audit |-> c.audit]
  BY <1>2, DecidedType, PendingType, NoneAssumption
<1>4. CASE /\ Writable(approvals[x])
           /\ approvals' = [approvals EXCEPT ![x] = c.copy]
           /\ replies' = [replies EXCEPT ![w] = Told("decided", x, c.target, c.audit)]
           /\ calls' = [calls EXCEPT ![w] = None]
  <2> DEFINE answer == Told("decided", x, c.target, c.audit)
  <2>1. /\ answer \in Replies /\ answer.id = x /\ answer.target = c.target
        /\ answer.audit = c.audit
    BY <1>2, AnswerTypes DEF ReplyKinds
  <2> HIDE DEF answer
  <2>2. approvals[x].status = "pending"
    BY <1>4 DEF Writable
  <2>3. TypeOK'
    BY <1>2, <1>4, <2>1 DEF IInv, TypeOK, answer
  <2>4. /\ approvals'[x] = c.copy
        /\ \A y \in Requests : y # x => approvals'[y] = approvals[y]
    BY <1>2, <1>4 DEF IInv, TypeOK
  <2>5. Saved' = Saved /\ Saved \subseteq Requests
    BY <1>2, <1>3, <2>4 DEF Saved
  <2>6. /\ calls'[w] = None /\ replies'[w] = answer
        /\ \A v \in Workers : v # w => calls'[v] = calls[v] /\ replies'[v] = replies[v]
    BY <1>4 DEF IInv, TypeOK, answer
  <2>7. c.target # "pending"
    BY <1>2 DEF Targets
  <2>8. /\ c.copy.bound = (x \in PreApproved)
        /\ c.copy.plan = c.copy.bound
        /\ c.copy.plan = (c.copy.status = "approved")
    BY <1>2, <1>3, PendingType DEF Bindable
  <2>9. ApprovedPlanIsBound' /\ PendingUndecided'
    BY <1>3, <2>4, <2>5, <2>7, <2>8 DEF IInv, ApprovedPlanIsBound, PendingUndecided
  <2>10. AcknowledgedDecisionStands' /\ AnswersNameTargets'
    <3> SUFFICES ASSUME NEW v \in Workers, replies'[v].kind \in Acknowledgements
                 PROVE  /\ replies'[v].target \in Targets
                        /\ replies'[v].id \in Saved'
                        /\ approvals'[replies'[v].id].status = replies'[v].target
                        /\ replies'[v].audit # None =>
                             approvals'[replies'[v].id].decision =
                               [target |-> replies'[v].target, audit |-> replies'[v].audit]
      BY DEF AcknowledgedDecisionStands, AnswersNameTargets, Acknowledgements
    <3>1. CASE v = w
      BY <1>2, <1>3, <2>1, <2>4, <2>5, <2>6, <3>1
    <3>2. CASE v # w
      <4>1. replies'[v] = replies[v]
        BY <2>6, <3>2
      <4>2. /\ replies[v].target \in Targets /\ replies[v].id \in Saved
            /\ approvals[replies[v].id].status = replies[v].target
            /\ replies[v].audit # None =>
                 approvals[replies[v].id].decision =
                   [target |-> replies[v].target, audit |-> replies[v].audit]
        BY <4>1 DEF IInv, AcknowledgedDecisionStands, AnswersNameTargets, Acknowledgements
      <4>3. replies[v].id # x
        BY <2>2, <4>2 DEF Targets
      <4> QED
        BY <2>4, <2>5, <4>1, <4>2, <4>3
    <3> QED
      BY <3>1, <3>2
  <2>11. CallsAreBound'
    BY <1>3, <2>4, <2>5, <2>6, <2>7 DEF IInv, CallsAreBound
  <2> QED
    BY <2>3, <2>9, <2>10, <2>11 DEF IInv
<1>5. CASE calls' = [calls EXCEPT ![w].stage = "refresh"] /\ UNCHANGED <<approvals, replies>>
           /\ ~Writable(approvals[x])
  <2> DEFINE next == [c EXCEPT !.stage = "refresh"]
  <2>1. /\ next \in Calls /\ next.stage = "refresh" /\ next.id = x /\ next.copy = c.copy
        /\ next.target = c.target /\ next.audit = c.audit
    BY <1>1 DEF Calls
  <2>2. calls' = [calls EXCEPT ![w] = next]
    BY <1>5
  <2> HIDE DEF next
  <2>3. BoundCall(next)
    BY <1>2, <1>5, <2>1 DEF BoundCall, Writable
  <2> QED
    BY <1>5, <2>1, <2>2, <2>3, CallAlone
<1> QED
  BY <1>4, <1>5 DEF Update

LEMMA RefreshInv ==
    ASSUME IInv, NEW w \in Workers, Refresh(w)
    PROVE  IInv'
<1> DEFINE c == calls[w]
<1>1. /\ c # None /\ c \in Calls /\ c.id \in Saved
      /\ c.target \in Targets /\ c.audit \in Audits \cup {None}
  BY DEF Refresh, IInv, TypeOK, CallsAreBound, Calls
<1>2. calls' = [calls EXCEPT ![w] = None] /\ UNCHANGED approvals
  BY DEF Refresh
<1>3. CASE SameDecision(approvals[c.id], c.target, c.audit)
  <2>1. replies' = [replies EXCEPT ![w] = Told("replayed", c.id, c.target, c.audit)]
    BY <1>3 DEF Refresh
  <2> QED
    BY <1>1, <1>2, <1>3, <2>1, ReplayIsRight, TableUntouched
<1>4. CASE ~SameDecision(approvals[c.id], c.target, c.audit)
  BY <1>2, <1>4, EndsInvalid DEF Refresh, ReplyKinds, Acknowledgements
<1> QED
  BY <1>3, <1>4

LEMMA CrashInv ==
    ASSUME IInv, NEW w \in Workers, Crash(w)
    PROVE  IInv'
BY EndsInvalid DEF Crash, ReplyKinds, Acknowledgements

LEMMA StepInvariant ==
    ASSUME IInv, [Next]_vars
    PROVE  IInv'
<1>1. CASE UNCHANGED vars
  BY <1>1 DEF vars, IInv, TypeOK, ApprovedPlanIsBound, PendingUndecided, AnswersNameTargets,
     AcknowledgedDecisionStands, CallsAreBound, Saved
<1> QED
  BY <1>1, CreateInv, DecideInv, GuardInv, RecheckInv, UpdateInv, RefreshInv, CrashInv DEF Next

LEMMA InvariantHolds == Spec => []IInv
BY InitInvariant, StepInvariant, PTL DEF Spec

------------------------------------------------------------------------------
\* Every stored request, call in flight and answer is well typed.
THEOREM DecisionsAreTyped == Spec => []TypeOK
<1>1. IInv => TypeOK
  BY DEF IInv
<1> QED
  BY <1>1, InvariantHolds, PTL

\* The stored plan is the plan the approver was shown, flag included.
THEOREM PlansStayBound == Spec => []ApprovedPlanIsBound
<1>1. IInv => ApprovedPlanIsBound
  BY DEF IInv
<1> QED
  BY <1>1, InvariantHolds, PTL

\* A caller told that its decision holds stays right, whatever others do.
THEOREM AcknowledgementsStand == Spec => []AcknowledgedDecisionStands
<1>1. IInv => AcknowledgedDecisionStands
  BY DEF IInv
<1> QED
  BY <1>1, InvariantHolds, PTL

\* Only Create and Update write the table, one a new request, the other a pending one.
LEMMA WritesArePending ==
    ASSUME IInv, [Next]_vars, NEW id \in Saved, approvals[id].status # "pending"
    PROVE  approvals'[id] = approvals[id]
<1>1. id \in Requests
  BY DEF Saved
<1>2. ASSUME NEW w \in Workers, NEW x \in Requests, Create(w, x)
      PROVE  approvals'[id] = approvals[id]
  BY <1>1, <1>2 DEF Create, Reply, IInv, TypeOK
<1>3. ASSUME NEW w \in Workers, Update(w)
      PROVE  approvals'[id] = approvals[id]
  BY <1>1, <1>3 DEF Update, Writable, IInv, TypeOK
<1>4. ASSUME NEW w \in Workers, NEW x \in Requests, NEW t \in Targets,
             NEW audit \in Audits \cup {None}, Decide(w, x, t, audit)
      PROVE  approvals' = approvals
  BY <1>4 DEF Decide, Reply
<1>5. ASSUME NEW w \in Workers,
             \/ GuardAllows(w) \/ GuardRefuses(w) \/ Recheck(w) \/ Refresh(w) \/ Crash(w)
      PROVE  approvals' = approvals
  BY <1>5 DEF GuardAllows, GuardRefuses, Recheck, Refresh, Crash, Change
<1>6. CASE UNCHANGED vars
  BY <1>6 DEF vars
<1> QED
  BY <1>2, <1>3, <1>4, <1>5, <1>6 DEF Next

\* A decided request is never written again.
THEOREM DecisionsStayFinal == Spec => DecisionsAreFinal
<1>1. IInv /\ [Next]_vars =>
        [\A id \in Saved : approvals[id].status # "pending" => approvals'[id] = approvals[id]]_vars
  BY WritesArePending
<1> QED
  BY <1>1, InvariantHolds, PTL DEF Spec, DecisionsAreFinal

\* A step that ends or moves a refused call leaves the table alone.
LEMMA RefusedWritesNothing ==
    ASSUME IInv, Next, NEW w \in Workers, calls[w] # None, calls[w] # calls'[w],
           calls[w].refused
    PROVE  approvals' = approvals
<1>1. ASSUME NEW v \in Workers, NEW x \in Requests, Create(v, x)
      PROVE  FALSE
  BY <1>1 DEF Create, Reply
<1>2. ASSUME NEW v \in Workers, Update(v)
      PROVE  approvals' = approvals
  <2>1. CASE v = w
    <3>1. approvals[calls[w].id].status # "pending"
      BY <1>2, <2>1 DEF Update, IInv, CallsAreBound
    <3> QED
      BY <1>2, <2>1, <3>1 DEF Update, Writable
  <2>2. CASE v # w
    BY <1>2, <2>2 DEF Update, IInv, TypeOK
  <2> QED
    BY <2>1, <2>2
<1>3. ASSUME NEW v \in Workers, NEW x \in Requests, NEW t \in Targets,
             NEW audit \in Audits \cup {None}, Decide(v, x, t, audit)
      PROVE  approvals' = approvals
  BY <1>3 DEF Decide, Reply
<1>4. ASSUME NEW v \in Workers,
             \/ GuardAllows(v) \/ GuardRefuses(v) \/ Recheck(v) \/ Refresh(v) \/ Crash(v)
      PROVE  approvals' = approvals
  BY <1>4 DEF GuardAllows, GuardRefuses, Recheck, Refresh, Crash, Change
<1> QED
  BY <1>1, <1>2, <1>3, <1>4 DEF Next

\* A caller the guard refused never writes a decision.
THEOREM RefusedCallersWriteNothing == Spec => RefusedCallersNeverDecide
<1>1. IInv /\ [Next]_vars =>
        [\A w \in Workers :
           calls[w] # None /\ calls[w] # calls'[w] =>
             (calls[w].refused => approvals' = approvals)]_vars
  BY RefusedWritesNothing
<1> QED
  BY <1>1, InvariantHolds, PTL DEF Spec, RefusedCallersNeverDecide

------------------------------------------------------------------------------
(* Refinement: the table is the abstract register. *)

LEMMA InitialRegister == Init => Register!Init
BY DEF Init, Register!Init, Register!Absent, entries, Entry, Saved

\* What happens to one entry while the others stay.
LEMMA OneEntry ==
    ASSUME TypeOK, NEW id \in Requests, NEW new,
           approvals' = [approvals EXCEPT ![id] = new],
           NEW e, Entry(id)' = e
    PROVE  entries' = [entries EXCEPT ![id] = e]
<1>1. \A x \in Requests : x # id => approvals'[x] = approvals[x]
  BY DEF TypeOK
<1>2. \A x \in Requests : x # id => Entry(x)' = Entry(x)
  BY <1>1 DEF Entry, Saved
<1> QED
  BY <1>2 DEF entries

LEMMA CreateCreates ==
    ASSUME IInv, NEW w \in Workers, NEW id \in Requests, Create(w, id)
    PROVE  [Register!Next]_entries
<1>1. CASE id \in Saved
  <2>1. approvals' = approvals
    BY <1>1 DEF Create, Reply
  <2> QED
    BY <2>1 DEF entries, Entry, Saved
<1>2. CASE id \notin Saved
  <2>1. approvals' = [approvals EXCEPT ![id] = Pending(id)] /\ TypeOK
    BY <1>2 DEF Create, IInv
  <2>2. approvals'[id] = Pending(id)
    BY <2>1 DEF TypeOK
  <2>3. Pending(id) # None /\ Pending(id).status = "pending" /\ Pending(id).decision = None
    BY PendingType, NoneAssumption DEF Pending
  <2>4. Entry(id)' = [status |-> "pending", audit |-> None]
    BY <2>2, <2>3 DEF Entry, Saved
  <2>5. entries' = [entries EXCEPT ![id] = [status |-> "pending", audit |-> None]]
    BY <2>1, <2>4, OneEntry
  <2>6. entries[id].status = "absent"
    BY <1>2 DEF entries, Entry
  <2> QED
    BY <2>5, <2>6 DEF Register!Next, Register!Create
<1> QED
  BY <1>1, <1>2

LEMMA UpdateDecides ==
    ASSUME IInv, NEW w \in Workers, Update(w)
    PROVE  [Register!Next]_entries
<1>1. PICK c \in Calls : c = calls[w]
  BY DEF Update, IInv, TypeOK
<1>2. PICK id \in Requests : id = c.id
  BY DEF Calls
<1>3. id \in Saved /\ TypeOK /\ c.copy \in Approvals /\ c.copy # None /\ c.target \in Targets
  BY <1>1, <1>2, NoneAssumption DEF Update, IInv, CallsAreBound, Calls
<1>4. c.copy.decision = None \/ c.copy.decision.audit \in Audits
  BY <1>3 DEF Approvals, Decisions
<1>5. PICK audit \in Audits \cup {None} :
        audit = IF c.copy.decision = None THEN None ELSE c.copy.decision.audit
  BY <1>4
<1>6. CASE ~Writable(approvals[id])
  <2>1. approvals' = approvals
    BY <1>1, <1>2, <1>6 DEF Update
  <2> QED
    BY <2>1 DEF entries, Entry, Saved
<1>7. CASE Writable(approvals[id])
  <2>1. approvals' = [approvals EXCEPT ![id] = c.copy]
    BY <1>1, <1>2, <1>7 DEF Update
  <2>2. c.copy.status = c.target
    BY <1>1, <1>2, PendingType DEF Update, IInv, CallsAreBound, Decided, Pending
  <2>3. approvals'[id] = c.copy
    BY <1>2, <1>3, <2>1 DEF TypeOK
  <2>4. Entry(id)' = [status |-> c.target, audit |-> audit]
    BY <1>2, <1>3, <1>5, <2>2, <2>3 DEF Entry, Saved
  <2>5. entries' = [entries EXCEPT ![id] = [status |-> c.target, audit |-> audit]]
    BY <1>2, <1>3, <2>1, <2>4, OneEntry
  <2>6. entries[id].status = "pending"
    BY <1>2, <1>3, <1>7 DEF entries, Entry, Writable
  <2>7. Register!Decide(id, c.target, audit)
    BY <2>5, <2>6 DEF Register!Decide
  <2> QED
    BY <1>2, <1>3, <1>5, <2>7 DEF Register!Next, Register!Targets, Targets
<1> QED
  BY <1>6, <1>7

LEMMA RegisterStep ==
    ASSUME IInv, [Next]_vars
    PROVE  [Register!Next]_entries
<1>1. CASE approvals' = approvals
  BY <1>1 DEF entries, Entry, Saved
<1>2. ASSUME NEW w \in Workers, NEW x \in Requests, NEW t \in Targets,
             NEW audit \in Audits \cup {None}, Decide(w, x, t, audit)
      PROVE  approvals' = approvals
  BY <1>2 DEF Decide, Reply
<1>3. ASSUME NEW w \in Workers,
             \/ GuardAllows(w) \/ GuardRefuses(w) \/ Recheck(w) \/ Refresh(w) \/ Crash(w)
      PROVE  approvals' = approvals
  BY <1>3 DEF GuardAllows, GuardRefuses, Recheck, Refresh, Crash, Change
<1>4. CASE UNCHANGED vars
  BY <1>1, <1>4 DEF vars
<1> QED
  BY <1>1, <1>2, <1>3, <1>4, CreateCreates, UpdateDecides DEF Next

\* The callers, their races, guards and crashes implement the register in which a
\* request is decided once and keeps its decider's audit record.
THEOREM DecisionsImplementRegister == Spec => ImplementsRegister
BY InitialRegister, RegisterStep, InvariantHolds, PTL DEF Spec, ImplementsRegister, Register!Spec

=============================================================================
