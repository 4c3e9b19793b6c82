----------------------- MODULE InvestigationSessionProofs -----------------------
(***************************************************************************)
(* Proofs about InvestigationSession, for any number of workers, claimants *)
(* and probes and for all limits.                                          *)
(***************************************************************************)
EXTENDS InvestigationSession, SequenceTheorems, FiniteSetTheorems, TLAPS

(* The inductive invariant.  A worker holds the latest claim between its    *)
(* compare-and-swap and its completion; there is one such worker at most    *)
(* (OneHolder, HoldersOwn), because a swap that can still succeed was       *)
(* prepared on a session that could be resumed (SwapsAreFresh).             *)

Holds(w) == At(w, "call") \/ At(w, "complete")

OneHolder == \A v, w \in Workers : Holds(v) /\ Holds(w) => v = w

HoldersOwn ==
    \A w \in Workers : Holds(w) =>
        /\ session # None
        /\ session.status = "running"
        /\ runs[w].step = Len(session.steps)

NotYetCalled == \A w \in Workers :
    At(w, "call") /\ runs[w].step \in DOMAIN called => called[runs[w].step] = 0

SwapsAreFresh == \A w \in Workers : At(w, "swap") =>
    /\ session # None
    /\ runs[w].version <= session.version
    /\ runs[w].version = session.version => Resumable(session)

\* What a run carries at each stage.
RunsCarry == \A w \in Workers : runs[w] # None =>
    /\ session # None
    /\ runs[w].stage \in {"claim", "swap", "call"} =>
        /\ runs[w].seen \in States
        /\ runs[w].kind = "probe" => runs[w].probe \in Probes
    /\ runs[w].stage = "call" => runs[w].seen.status = "running"
    /\ runs[w].stage = "complete" => runs[w].outcome \in Outcomes

\* The status of an outcome and of its state agree.
Consistent(o) ==
    \/ o.status = "succeeded" /\ o.state.status \in {"running", "concluded"}
    \/ o.status = "failed" /\ o.state.status = "failed"
    \/ o.status = "indeterminate" /\ o.state.status = "running"

OutcomesConsistent ==
    \A w \in Workers : At(w, "complete") => Consistent(runs[w].outcome)

CalledOnce ==
    \A i \in DOMAIN called : called[i] > 0 =>
        called[i] = 1 /\ session # None /\ i <= Len(session.steps)

IInv ==
    /\ TypeOK
    /\ OneHolder
    /\ HoldersOwn
    /\ NotYetCalled
    /\ SwapsAreFresh
    /\ RunsCarry
    /\ OutcomesConsistent
    /\ CalledOnce

------------------------------------------------------------------------------
LEMMA InitInvariant == Init => IInv
<1> SUFFICES ASSUME Init PROVE IInv
  OBVIOUS
<1>1. TypeOK
  BY DEF Init, TypeOK
<1>2. \A w \in Workers : runs[w] = None
  BY DEF Init
<1>3. CalledOnce
  BY DEF Init, CalledOnce
<1> QED
  BY <1>1, <1>2, <1>3
  DEF IInv, OneHolder, HoldersOwn, NotYetCalled, SwapsAreFresh, RunsCarry,
      OutcomesConsistent, Holds, At

\* What a reasoner can answer is well formed and consistent.
LEMMA ReasonerOutcomesFit ==
    ASSUME NEW state \in States, state.status = "running",
           NEW o \in ReasonerOutcomes(state)
    PROVE  o \in Outcomes /\ Consistent(o)
<1>1. [state EXCEPT !.status = "failed"] \in States
  BY DEF States
<1>2. ASSUME NEW status \in {"running", "concluded"}
      PROVE  Decided(state, status) \in States /\ Decided(state, status).status = status
  <2>1. state.iterations + 1 \in Nat
    BY DEF States
  <2> DEFINE n == state.iterations + 1
  <2>2. Decided(state, status) = [state EXCEPT !.iterations = n, !.status = status]
    BY DEF Decided
  <2> HIDE DEF n
  <2>3. n \in Nat
    BY <2>1 DEF n
  <2> QED
    BY <2>2, <2>3 DEF States
<1>3. CASE o = [status |-> "succeeded", state |-> Decided(state, "concluded"), next |-> None]
  BY <1>2, <1>3 DEF Outcomes, StepStatuses, Consistent
<1>4. CASE o = [status |-> "failed", state |-> [state EXCEPT !.status = "failed"], next |-> None]
  <2>1. o.state.status = "failed"
    BY <1>4 DEF States
  <2> QED
    BY <1>1, <1>4, <2>1 DEF Outcomes, StepStatuses, Consistent
<1>5. CASE o = [status |-> "indeterminate", state |-> state, next |-> None]
  BY <1>5 DEF Outcomes, StepStatuses, Consistent
<1>6. CASE \E p \in Probes :
             o = [status |-> "succeeded", state |-> Decided(state, "running"), next |-> p]
  BY <1>2, <1>6 DEF Outcomes, StepStatuses, Consistent
<1> QED
  BY <1>3, <1>4, <1>5, <1>6 DEF ReasonerOutcomes

LEMMA ProbeOutcomeFits ==
    ASSUME NEW state \in States, state.status = "running", NEW p \in Probes
    PROVE  ProbeOutcome(state, p) \in Outcomes /\ Consistent(ProbeOutcome(state, p))
<1> DEFINE next == [state EXCEPT !.tools = @ + 1, !.attempted = @ \cup {p}]
<1>1. next \in States /\ next.status = "running"
  <2> DEFINE n == state.tools + 1
             tried == state.attempted \cup {p}
  <2>1. next = [state EXCEPT !.tools = n, !.attempted = tried]
    OBVIOUS
  <2>2. n \in Nat /\ tried \in SUBSET Probes
    BY DEF States
  <2> HIDE DEF n, tried, next
  <2> QED
    BY <2>1, <2>2 DEF States
<1>2. ProbeOutcome(state, p) = [status |-> "succeeded", next |-> None, state |-> next]
  BY DEF ProbeOutcome
<1> HIDE DEF next
<1> QED
  BY <1>1, <1>2 DEF Outcomes, StepStatuses, Consistent

\* A step of one run that touches neither the table nor the outside world, and does
\* not make the run a holder.
LEMMA QuietStep ==
    ASSUME IInv, NEW w \in Workers, NEW r \in Runs \cup {None},
           Goto(w, r), UNCHANGED <<session, called>>,
           r # None =>
             /\ session # None
             /\ r.stage \in {"loop", "read", "claim", "swap"}
             /\ r.stage \in {"claim", "swap"} =>
                  r.seen \in States /\ (r.kind = "probe" => r.probe \in Probes)
             /\ r.stage = "swap" => r.version = session.version /\ Resumable(session)
    PROVE  IInv'
<1>1. TypeOK'
  BY DEF IInv, TypeOK, Goto, ShapeHolds, LatestAndState, Latest
<1>2. \A v \in Workers : runs'[v] = IF v = w THEN r ELSE runs[v]
  BY DEF IInv, TypeOK, Goto
<1>3. \A v \in Workers : Holds(v)' => v # w /\ Holds(v)
  BY <1>2 DEF Holds, At
<1>4. OneHolder' /\ HoldersOwn' /\ OutcomesConsistent'
  BY <1>2, <1>3 DEF IInv, OneHolder, HoldersOwn, OutcomesConsistent, Holds, At
<1>5. NotYetCalled'
  BY <1>2 DEF IInv, NotYetCalled, At
<1>6. SwapsAreFresh'
  <2> SUFFICES ASSUME NEW v \in Workers, At(v, "swap")'
               PROVE  /\ session # None
                      /\ runs'[v].version <= session.version
                      /\ runs'[v].version = session.version => Resumable(session)
    BY DEF SwapsAreFresh, Resumable
  <2>1. CASE v = w
    <3>1. session \in Rows
      BY <2>1, <1>2 DEF At, IInv, TypeOK
    <3> QED
      BY <2>1, <3>1, <1>2 DEF At, Rows
  <2>2. CASE v # w
    BY <2>2, <1>2 DEF At, IInv, SwapsAreFresh
  <2> QED
    BY <2>1, <2>2
<1>7. RunsCarry'
  BY <1>2 DEF IInv, RunsCarry
<1>8. CalledOnce'
  BY DEF IInv, CalledOnce
<1> QED
  BY <1>1, <1>4, <1>5, <1>6, <1>7, <1>8 DEF IInv

LEMMA LeaveStep ==
    ASSUME IInv, NEW w \in Workers, Leave(w), UNCHANGED <<session, called>>
    PROVE  IInv'
<1>1. Goto(w, None)
  BY DEF Leave, Goto
<1> QED
  BY <1>1, QuietStep

LEMMA RunStep ==
    ASSUME IInv, NEW w \in Workers, NEW c \in Claimants,
           NEW e \in Observable \cup {None}, Run(w, c, e)
    PROVE  IInv'
<1> DEFINE r == [claimant |-> c, expected |-> e, calls |-> 0, stage |-> "loop",
                 kind |-> "reasoner", seen |-> None, probe |-> None,
                 version |-> 0, step |-> 0, outcome |-> None]
<1>1. e \in Nat \cup {None}
  <2>1. session \in Rows
    BY DEF Run, IInv, TypeOK
  <2> QED
    BY <2>1 DEF Observable, Rows
<1>2. r \in Runs
  BY <1>1 DEF Runs, Stages, Kinds
<1>3. Goto(w, r) /\ session # None /\ UNCHANGED <<session, called>>
  BY DEF Run
<1>4. r.stage = "loop"
  OBVIOUS
<1> HIDE DEF r
<1> QED
  BY <1>2, <1>3, <1>4, QuietStep

LEMMA LoopStep ==
    ASSUME IInv, NEW w \in Workers, Loop(w)
    PROVE  IInv'
<1> DEFINE kind == IF ReasonerIsNext(session) THEN "reasoner" ELSE "probe"
           r == [runs[w] EXCEPT !.stage = "read", !.kind = kind]
<1>1. runs[w] \in Runs /\ session # None
  BY DEF Loop, At, IInv, TypeOK, RunsCarry
<1>2. kind \in Kinds
  BY DEF Kinds
<1>3. Goto(w, r) \/ Leave(w)
  BY DEF Loop
<1> HIDE DEF kind
<1>4. r \in Runs /\ r.stage = "read"
  BY <1>1, <1>2 DEF Runs, Stages
<1> HIDE DEF r
<1> QED
  BY <1>1, <1>3, <1>4, QuietStep, LeaveStep DEF Loop

LEMMA ReadStepStep ==
    ASSUME IInv, NEW w \in Workers, ReadStep(w)
    PROVE  IInv'
<1>1. CASE Leave(w)
  BY <1>1, LeaveStep DEF ReadStep
<1>2. CASE ~Leave(w)
  <2> DEFINE probe == IF runs[w].kind = "probe" THEN Latest(session).next ELSE None
             r == [runs[w] EXCEPT !.stage = "claim", !.seen = session.state, !.probe = probe]
  <2>1. runs[w] \in Runs /\ session # None
    BY DEF ReadStep, At, IInv, TypeOK, RunsCarry
  <2>2. session.state \in States
    BY <2>1 DEF IInv, TypeOK, Rows
  <2>3. Admitted(session, runs[w].kind) /\ Goto(w, r)
    BY <1>2 DEF ReadStep
  <2>4. probe \in Probes \cup {None} /\ (runs[w].kind = "probe" => probe \in Probes)
    BY <2>3 DEF Admitted, ProbeAdmitted
  <2> HIDE DEF probe
  <2>5. /\ r \in Runs
        /\ r.stage = "claim"
        /\ r.seen = session.state
        /\ r.kind = runs[w].kind
        /\ r.probe = probe
    BY <2>1, <2>2, <2>4 DEF Runs, Stages
  <2> HIDE DEF r
  <2> QED
    BY <2>1, <2>2, <2>3, <2>4, <2>5, QuietStep DEF ReadStep
<1> QED
  BY <1>1, <1>2

LEMMA ReadClaimStep ==
    ASSUME IInv, NEW w \in Workers, ReadClaim(w)
    PROVE  IInv'
<1>1. CASE Leave(w)
  BY <1>1, LeaveStep DEF ReadClaim
<1>2. CASE ~Leave(w)
  <2> DEFINE r == [runs[w] EXCEPT !.stage = "swap", !.version = session.version]
  <2>1. runs[w] \in Runs /\ session # None /\ runs[w].stage = "claim"
    BY DEF ReadClaim, At, IInv, TypeOK, RunsCarry
  <2>2. session.version \in Nat
    BY <2>1 DEF IInv, TypeOK, Rows
  <2>3. Goto(w, r) /\ Resumable(session)
    BY <1>2 DEF ReadClaim, AfterClaim, Goto, Leave
  <2>4. runs[w].seen \in States /\ (runs[w].kind = "probe" => runs[w].probe \in Probes)
    BY <2>1 DEF IInv, RunsCarry, ReadClaim, At
  <2>5. /\ r \in Runs
        /\ r.stage = "swap"
        /\ r.version = session.version
        /\ r.seen = runs[w].seen
        /\ r.kind = runs[w].kind
        /\ r.probe = runs[w].probe
    BY <2>1, <2>2 DEF Runs, Stages
  <2> HIDE DEF r
  <2> QED
    BY <2>1, <2>3, <2>4, <2>5, QuietStep DEF ReadClaim
<1> QED
  BY <1>1, <1>2

\* What a swap that succeeds writes: the session could be resumed and gets a claimed step.
LEMMA SwapWrites ==
    ASSUME IInv, NEW w \in Workers, SwapClaim(w), Swappable(runs[w].version)
    PROVE  LET n == Len(session.steps) + 1
               st == [session.state EXCEPT !.status = "running"] IN
           /\ session \in Rows /\ session # None /\ Resumable(session)
           /\ runs[w] \in Runs /\ runs[w].stage = "swap"
           /\ runs[w].version = session.version
           /\ session' \in Rows /\ session' # None
           /\ session'.status = "running"
           /\ session'.version = session.version + 1
           /\ session'.state = st
           /\ session'.steps = Append(session.steps, Claimed(runs[w]))
           /\ Claimed(runs[w]) \in Steps
           /\ runs' = [runs EXCEPT ![w] =
                [runs[w] EXCEPT !.stage = "call", !.step = n, !.seen = st]]
<1> DEFINE n == Len(session.steps) + 1
           st == [session.state EXCEPT !.status = "running"]
           new == Claimed(runs[w])
           steps == Append(session.steps, new)
           v1 == session.version + 1
           r == [runs[w] EXCEPT !.stage = "call", !.step = n, !.seen = st]
<1>1. runs[w] \in Runs /\ runs[w].stage = "swap" /\ session # None
  BY DEF SwapClaim, At, IInv, TypeOK, RunsCarry
<1>2. /\ session \in Rows
      /\ session.version \in Nat
      /\ session.state \in States
      /\ session.steps \in Seq(Steps)
  BY <1>1 DEF IInv, TypeOK, Rows
<1>3. Resumable(session) /\ runs[w].version = session.version
  BY DEF SwapClaim, IInv, SwapsAreFresh, Swappable
<1>4. st \in States
  BY <1>2 DEF States
<1>5. runs[w].seen \in States /\ (runs[w].kind = "probe" => runs[w].probe \in Probes)
  BY <1>1 DEF IInv, RunsCarry, SwapClaim, At
<1>6. new \in Steps
  <2>1. RequestDigest(runs[w]) \in Digests
    BY <1>1, <1>5 DEF RequestDigest, Digests, Runs
  <2> QED
    BY <1>1, <2>1 DEF Claimed, Steps, StepStatuses, Runs
<1> HIDE DEF st, new
<1>7. steps \in Seq(Steps)
  BY <1>2, <1>6, AppendProperties
<1>8. session' = [session EXCEPT !.status = "running", !.version = v1,
                                 !.state = st, !.steps = steps]
  <2>1. session' = [session EXCEPT !.status = "running", !.version = @ + 1,
                      !.state.status = "running", !.steps = Append(@, Claimed(runs[w]))]
    BY DEF SwapClaim
  <2> QED
    BY <1>2, <2>1 DEF Rows, st, new
<1> HIDE DEF steps, v1
<1>9. v1 \in Nat
  BY <1>2 DEF v1
<1>10. /\ session' \in Rows
       /\ session'.status = "running"
       /\ session'.version = v1
       /\ session'.state = st
       /\ session'.steps = steps
  BY <1>2, <1>4, <1>7, <1>8, <1>9 DEF Rows, SessionStatuses
<1>11. session' # None
  BY <1>10, SessionNone
<1>12. Goto(w, r)
  <2>1. Goto(w, [AfterClaim(runs[w], TRUE, n) EXCEPT !.seen = session'.state])
    BY DEF SwapClaim
  <2>2. AfterClaim(runs[w], TRUE, n) = [runs[w] EXCEPT !.stage = "call", !.step = n]
    BY DEF AfterClaim
  <2>3. [[runs[w] EXCEPT !.stage = "call", !.step = n] EXCEPT !.seen = st] = r
    BY <1>1 DEF Runs
  <2> QED
    BY <1>10, <2>1, <2>2, <2>3
<1> QED
  BY <1>1, <1>2, <1>3, <1>6, <1>10, <1>11, <1>12 DEF st, new, steps, v1, Goto

\* The swap that succeeds: the session could be resumed, so nobody held it.
LEMMA SwapStep ==
    ASSUME IInv, NEW w \in Workers, SwapClaim(w)
    PROVE  IInv'
<1>1. CASE ~Swappable(runs[w].version)
  BY <1>1, LeaveStep DEF SwapClaim
<1>2. CASE Swappable(runs[w].version)
  <2> DEFINE n == Len(session.steps) + 1
             st == [session.state EXCEPT !.status = "running"]
             new == Claimed(runs[w])
             steps == Append(session.steps, new)
             v1 == session.version + 1
             r == [runs[w] EXCEPT !.stage = "call", !.step = n, !.seen = st]
  <2>1. /\ session \in Rows /\ session # None /\ Resumable(session)
        /\ runs[w] \in Runs /\ runs[w].stage = "swap"
        /\ session' \in Rows /\ session' # None
        /\ session'.status = "running"
        /\ session'.version = v1
        /\ session'.state = st
        /\ session'.steps = steps
        /\ new \in Steps
        /\ Goto(w, r)
    BY <1>2, SwapWrites DEF Goto
  <2>2. /\ session.version \in Nat
        /\ session.state \in States
        /\ session.steps \in Seq(Steps)
        /\ Len(session.steps) \in Nat
    BY <2>1, LenProperties DEF Rows
  <2>3. called' = called
    BY DEF SwapClaim
  <2>4. ~ \E v \in Workers : Holds(v)
    BY <2>1 DEF IInv, HoldersOwn, Resumable
  <2>5. st \in States /\ st.status = "running"
    BY <2>2 DEF States
  <2>6. runs[w].seen \in States /\ (runs[w].kind = "probe" => runs[w].probe \in Probes)
    BY <2>1 DEF IInv, RunsCarry, SwapClaim, At
  <2>7. new.status = "claimed"
    BY DEF Claimed
  <2> HIDE DEF st, new
  <2>8. /\ steps \in Seq(Steps)
        /\ Len(steps) = n
        /\ steps # <<>>
        /\ steps[n] = new
        /\ \A i \in 1..Len(session.steps) : steps[i] = session.steps[i]
    BY <2>1, <2>2, AppendProperties
  <2>9. v1 \in Nat /\ session.version < v1 /\ n \in Nat
    BY <2>2
  <2> HIDE DEF steps, v1
  <2>10. /\ r \in Runs
         /\ r.stage = "call"
         /\ r.step = n
         /\ r.seen = st
         /\ r.kind = runs[w].kind
         /\ r.probe = runs[w].probe
    BY <2>1, <2>5, <2>9 DEF Runs, Stages
  <2> HIDE DEF r
  <2>11. r # None
    BY <2>10, SessionNone
  <2>12. \A v \in Workers : runs'[v] = IF v = w THEN r ELSE runs[v]
    BY <2>1, <2>3 DEF IInv, TypeOK, Goto
  <2>13. \A v \in Workers : Holds(v)' => v = w
    BY <2>4, <2>12 DEF Holds, At
  <2>14. TypeOK'
    <3>1. \A i \in 1..Len(session.steps) : session.steps[i].status \in {"succeeded", "failed"}
      BY <2>2, <2>1, <2>3
      DEF IInv, TypeOK, ShapeHolds, Resumable, LatestAndState, Latest
    <3>2. ShapeHolds(session')
      BY <2>2, <2>5, <2>7, <2>8, <2>1, <3>1 DEF ShapeHolds, LatestAndState, Latest
    <3>3. runs' \in [Workers -> Runs \cup {None}]
      BY <2>1, <2>3, <2>10 DEF IInv, TypeOK, Goto
    <3> QED
      BY <2>1, <2>3, <3>2, <3>3 DEF IInv, TypeOK, ShapeHolds, LatestAndState, Latest
  <2>15. OneHolder'
    BY <2>13 DEF OneHolder
  <2>16. HoldersOwn'
    BY <2>8, <2>1, <2>10, <2>12, <2>13 DEF HoldersOwn
  <2>17. NotYetCalled'
    <3> SUFFICES ASSUME NEW v \in Workers, At(v, "call")', runs'[v].step \in DOMAIN called
                 PROVE  called[runs'[v].step] = 0
      BY <2>1, <2>3 DEF NotYetCalled
    <3>1. v = w /\ runs'[v].step = n
      BY <2>10, <2>12, <2>13 DEF Holds
    <3>2. called[n] \in Nat
      BY <3>1 DEF IInv, TypeOK
    <3>3. ~ (n <= Len(session.steps))
      BY <2>2
    <3> QED
      BY <3>1, <3>2, <3>3 DEF IInv, CalledOnce
  <2>18. SwapsAreFresh'
    <3> SUFFICES ASSUME NEW v \in Workers, At(v, "swap")'
                 PROVE  runs'[v].version <= v1 /\ runs'[v].version # v1
      BY <2>1 DEF SwapsAreFresh
    <3>1. v # w /\ At(v, "swap") /\ runs'[v] = runs[v]
      BY <2>10, <2>12 DEF At
    <3>2. runs[v].version <= session.version /\ runs[v].version \in Nat
      BY <3>1 DEF IInv, SwapsAreFresh, TypeOK, At, Runs
    <3> QED
      BY <2>2, <2>9, <3>1, <3>2
  <2>19. RunsCarry'
    BY <2>5, <2>6, <2>1, <2>10, <2>12 DEF IInv, RunsCarry
  <2>20. OutcomesConsistent'
    BY <2>10, <2>12 DEF IInv, OutcomesConsistent, At
  <2>21. CalledOnce'
    <3> SUFFICES ASSUME NEW i \in DOMAIN called, called[i] > 0
                 PROVE  called[i] = 1 /\ i <= n
      BY <2>8, <2>1, <2>3 DEF CalledOnce
    <3>1. called[i] = 1 /\ i <= Len(session.steps) /\ i \in 1..MaxSteps
      BY DEF IInv, CalledOnce, TypeOK
    <3> QED
      BY <2>2, <3>1
  <2> QED
    BY <2>14, <2>15, <2>16, <2>17, <2>18, <2>19, <2>20, <2>21 DEF IInv
<1> QED
  BY <1>1, <1>2

\* The call of the only holder, which had not called yet.
LEMMA CallStep ==
    ASSUME IInv, NEW w \in Workers, Call(w)
    PROVE  IInv'
<1> DEFINE n == runs[w].step
           seen == runs[w].seen
<1>1. /\ runs[w] \in Runs
      /\ runs[w].stage = "call"
      /\ session # None
      /\ Holds(w)
      /\ seen \in States
      /\ seen.status = "running"
      /\ runs[w].kind \in Kinds
      /\ runs[w].kind = "probe" => runs[w].probe \in Probes
  BY DEF Call, At, IInv, TypeOK, RunsCarry, Holds, Runs
<1>2. PICK o \in IF runs[w].kind = "reasoner" THEN ReasonerOutcomes(seen)
                 ELSE {ProbeOutcome(seen, runs[w].probe)} :
        Goto(w, [runs[w] EXCEPT !.stage = "complete", !.outcome = o])
  BY DEF Call
<1>3. o \in Outcomes /\ Consistent(o)
  BY <1>1, <1>2, ReasonerOutcomesFit, ProbeOutcomeFits DEF Kinds
<1> DEFINE r == [runs[w] EXCEPT !.stage = "complete", !.outcome = o]
<1>4. /\ r \in Runs
      /\ r.stage = "complete"
      /\ r.outcome = o
      /\ r.step = n
  BY <1>1, <1>3 DEF Runs, Stages
<1>5. \A v \in Workers : runs'[v] = IF v = w THEN r ELSE runs[v]
  BY <1>2 DEF IInv, TypeOK, Goto
<1>6. session' = session /\ called' = [called EXCEPT ![n] = @ + 1]
  BY DEF Call
<1>7. runs' \in [Workers -> Runs \cup {None}]
  BY <1>2, <1>4 DEF IInv, TypeOK, Goto
<1> HIDE DEF r, n, seen
<1>8. r # None
  BY <1>4, SessionNone
<1>9. \A v \in Workers : Holds(v)' <=> Holds(v)
  BY <1>1, <1>4, <1>5, <1>8 DEF Holds, At
<1>10. TypeOK'
  <2>1. called \in [1..MaxSteps -> Nat]
    BY DEF IInv, TypeOK
  <2>2. n \in 1..MaxSteps => called[n] + 1 \in Nat
    BY <2>1
  <2>3. called' \in [1..MaxSteps -> Nat]
    BY <1>6, <2>1, <2>2
  <2> QED
    BY <1>6, <1>7, <2>3 DEF IInv, TypeOK, ShapeHolds, LatestAndState, Latest
<1>11. OneHolder'
  BY <1>9 DEF IInv, OneHolder
<1>12. HoldersOwn'
  BY <1>4, <1>5, <1>6, <1>9 DEF IInv, HoldersOwn, n
<1>13. NotYetCalled'
  <2> SUFFICES ASSUME NEW v \in Workers, At(v, "call")' PROVE FALSE
    BY DEF NotYetCalled
  <2>1. Holds(v)
    BY <1>9 DEF Holds
  <2>2. v = w
    BY <1>1, <2>1 DEF IInv, OneHolder
  <2> QED
    BY <1>4, <1>5, <2>2 DEF At
<1>14. SwapsAreFresh'
  BY <1>4, <1>5, <1>6 DEF IInv, SwapsAreFresh, At, Resumable
<1>15. RunsCarry'
  BY <1>1, <1>3, <1>4, <1>5, <1>6 DEF IInv, RunsCarry
<1>16. OutcomesConsistent'
  BY <1>3, <1>4, <1>5 DEF IInv, OutcomesConsistent, At
<1>17. CalledOnce'
  <2> SUFFICES ASSUME NEW i \in DOMAIN called', called'[i] > 0
               PROVE  called'[i] = 1 /\ session' # None /\ i <= Len(session'.steps)
    BY DEF CalledOnce
  <2>1. i \in DOMAIN called /\ called[i] \in Nat /\ i \in 1..MaxSteps
    BY <1>6 DEF IInv, TypeOK
  <2>2. CASE i = n
    <3>1. called[n] = 0
      BY <1>1, <2>1, <2>2 DEF IInv, NotYetCalled, n, Call
    <3>2. n = Len(session.steps)
      BY <1>1 DEF IInv, HoldersOwn, n
    <3> QED
      BY <1>1, <1>6, <2>1, <2>2, <3>1, <3>2
  <2>3. CASE i # n
    BY <1>6, <2>1, <2>3 DEF IInv, CalledOnce
  <2> QED
    BY <2>2, <2>3
<1> QED
  BY <1>10, <1>11, <1>12, <1>13, <1>14, <1>15, <1>16, <1>17 DEF IInv

\* What a completion writes: the claimed step, which is the last one, gets its outcome.
LEMMA CompleteWrites ==
    ASSUME IInv, NEW w \in Workers, Complete(w)
    PROVE  LET n == Len(session.steps)
               o == runs[w].outcome
               step == [session.steps[n] EXCEPT !.status = o.status, !.next = o.next] IN
           /\ session \in Rows /\ session # None /\ session.status = "running"
           /\ runs[w] \in Runs /\ runs[w].stage = "complete" /\ Holds(w)
           /\ o \in Outcomes /\ Consistent(o)
           /\ n \in 1..Len(session.steps) /\ session.steps[n] \in Steps /\ step \in Steps
           /\ session' \in Rows /\ session' # None
           /\ session'.status = SessionStatus(o)
           /\ session'.version = session.version + 1
           /\ session'.state = o.state
           /\ session'.steps = [session.steps EXCEPT ![n] = step]
           /\ \E r \in Runs : r.stage = "loop" /\ runs' = [runs EXCEPT ![w] = r]
<1> DEFINE n == runs[w].step
           o == runs[w].outcome
           step == [session.steps[n] EXCEPT !.status = o.status, !.next = o.next]
           steps == [session.steps EXCEPT ![n] = step]
           v1 == session.version + 1
           calls == runs[w].calls + 1
           r == [runs[w] EXCEPT !.stage = "loop", !.calls = calls, !.seen = None,
                   !.probe = None, !.version = 0, !.step = 0, !.outcome = None]
<1>1. /\ runs[w] \in Runs
      /\ runs[w].stage = "complete"
      /\ runs[w].calls \in Nat
      /\ session # None
      /\ Holds(w)
      /\ o \in Outcomes
      /\ Consistent(o)
  BY DEF Complete, At, IInv, TypeOK, RunsCarry, OutcomesConsistent, Holds, Runs
<1>2. /\ session \in Rows
      /\ session.version \in Nat
      /\ session.steps \in Seq(Steps)
      /\ Len(session.steps) \in Nat
      /\ session.status = "running"
      /\ n = Len(session.steps)
  BY <1>1, LenProperties DEF IInv, TypeOK, Rows, HoldersOwn
<1>3. n \in 1..Len(session.steps)
  BY <1>1, <1>2, EmptySeq DEF IInv, TypeOK, ShapeHolds, LatestAndState
<1>4. session.steps[n] \in Steps
  BY <1>2, <1>3, ElementOfSeq
<1>5. step \in Steps
  BY <1>1, <1>4 DEF Steps, Outcomes
<1> HIDE DEF step
<1>6. steps \in Seq(Steps)
  BY <1>2, <1>3, <1>5, ExceptSeq
<1>7. session' = [session EXCEPT !.status = SessionStatus(o), !.version = v1,
                                 !.state = o.state, !.steps = steps]
  BY <1>2 DEF Complete, Rows, step
<1>8. v1 \in Nat /\ calls \in Nat
  BY <1>1, <1>2
<1>9. SessionStatus(o) \in SessionStatuses /\ o.state \in States
  BY <1>1 DEF SessionStatus, SessionStatuses, Outcomes
<1> HIDE DEF steps, v1
<1>10. /\ session' \in Rows
       /\ session'.status = SessionStatus(o)
       /\ session'.version = v1
       /\ session'.state = o.state
       /\ session'.steps = steps
  BY <1>2, <1>6, <1>7, <1>8, <1>9 DEF Rows
<1>11. session' # None
  BY <1>10, SessionNone
<1>12. Goto(w, r)
  BY DEF Complete
<1> HIDE DEF calls
<1>13. r \in Runs /\ r.stage = "loop"
  BY <1>1, <1>8 DEF Runs, Stages
<1> HIDE DEF r
<1> QED
  BY <1>1, <1>2, <1>3, <1>4, <1>5, <1>10, <1>11, <1>12, <1>13 DEF step, steps, v1, Goto

LEMMA CompleteStep ==
    ASSUME IInv, NEW w \in Workers, Complete(w)
    PROVE  IInv'
<1> DEFINE n == Len(session.steps)
           o == runs[w].outcome
           step == [session.steps[n] EXCEPT !.status = o.status, !.next = o.next]
           steps == [session.steps EXCEPT ![n] = step]
           v1 == session.version + 1
<1>1. /\ session \in Rows /\ session # None /\ session.status = "running"
      /\ Holds(w)
      /\ o \in Outcomes /\ Consistent(o)
      /\ n \in 1..Len(session.steps) /\ session.steps[n] \in Steps /\ step \in Steps
      /\ session' \in Rows /\ session' # None
      /\ session'.status = SessionStatus(o)
      /\ session'.version = v1
      /\ session'.state = o.state
      /\ session'.steps = steps
  BY CompleteWrites
<1>2. PICK r \in Runs : r.stage = "loop" /\ Goto(w, r)
  BY CompleteWrites DEF Goto
<1>3. /\ session.version \in Nat
      /\ session.steps \in Seq(Steps)
      /\ Len(session.steps) \in Nat
  BY <1>1, LenProperties DEF Rows
<1>4. called' = called
  BY DEF Complete
<1>5. step.status = o.status
  BY <1>1 DEF Steps
<1> HIDE DEF step
<1>6. /\ Len(steps) = Len(session.steps)
      /\ \A i \in 1..Len(session.steps) : steps[i] = IF i = n THEN step ELSE session.steps[i]
  BY <1>1, <1>3, ExceptSeq
<1>7. v1 \in Nat /\ session.version < v1
  BY <1>3
<1> HIDE DEF steps, v1, o
<1>8. \A v \in Workers : runs'[v] = IF v = w THEN r ELSE runs[v]
  BY <1>2, <1>4 DEF IInv, TypeOK, Goto
<1>9. \A v \in Workers : ~Holds(v)'
  BY <1>1, <1>2, <1>8 DEF IInv, OneHolder, Holds, At
<1>10. TypeOK'
  <2>1. \A i \in 1..Len(steps) - 1 : steps[i].status \in {"succeeded", "failed"}
    BY <1>1, <1>3, <1>6 DEF IInv, TypeOK, ShapeHolds
  <2>2. steps # <<>> /\ steps[Len(steps)].status = o.status
    BY <1>1, <1>3, <1>5, <1>6
  <2>3. ShapeHolds(session')
    BY <1>1, <2>1, <2>2
    DEF ShapeHolds, LatestAndState, Latest, Consistent, SessionStatus
  <2>4. runs' \in [Workers -> Runs \cup {None}]
    BY <1>2, <1>4 DEF IInv, TypeOK, Goto
  <2> QED
    BY <1>1, <1>2, <1>4, <2>3, <2>4 DEF IInv, TypeOK, ShapeHolds, LatestAndState, Latest
<1>11. OneHolder' /\ HoldersOwn' /\ NotYetCalled' /\ OutcomesConsistent'
  BY <1>9 DEF OneHolder, HoldersOwn, NotYetCalled, OutcomesConsistent, Holds
<1>12. SwapsAreFresh'
  <2> SUFFICES ASSUME NEW v \in Workers, At(v, "swap")'
               PROVE  runs'[v].version <= v1 /\ runs'[v].version # v1
    BY <1>1 DEF SwapsAreFresh
  <2>1. v # w /\ At(v, "swap") /\ runs'[v] = runs[v]
    BY <1>2, <1>8 DEF At
  <2>2. runs[v].version <= session.version /\ runs[v].version \in Nat
    BY <2>1 DEF IInv, SwapsAreFresh, TypeOK, At, Runs
  <2> QED
    BY <1>1, <1>3, <1>7, <2>1, <2>2
<1>13. RunsCarry'
  BY <1>1, <1>2, <1>8 DEF IInv, RunsCarry
<1>14. CalledOnce'
  BY <1>6, <1>1, <1>2, <1>4 DEF IInv, CalledOnce
<1> QED
  BY <1>10, <1>11, <1>12, <1>13, <1>14 DEF IInv

LEMMA CreateStep ==
    ASSUME IInv, CreateOrGet
    PROVE  IInv'
<1>1. \A w \in Workers : runs[w] = None
  BY DEF IInv, RunsCarry, CreateOrGet
<1>2. FreshState \in States /\ FreshState.status = "pending"
  BY DEF FreshState, States
<1>3. /\ session' = [status |-> "ready", version |-> 0, state |-> FreshState, steps |-> <<>>]
      /\ runs' = runs
      /\ called' = called
      /\ session = None
  BY DEF CreateOrGet
<1>4. /\ session' \in Rows
      /\ session'.status = "ready"
      /\ session'.state = FreshState
      /\ session'.steps = <<>>
  BY <1>2, <1>3, EmptySeq DEF Rows, SessionStatuses
<1>5. Len(session'.steps) = 0
  BY <1>4
<1>6. ShapeHolds(session')
  BY <1>2, <1>4, <1>5 DEF ShapeHolds
<1>7. TypeOK'
  BY <1>3, <1>4, <1>6 DEF IInv, TypeOK, ShapeHolds, LatestAndState, Latest
<1>8. CalledOnce'
  BY <1>3 DEF IInv, CalledOnce
<1>9. OneHolder' /\ HoldersOwn' /\ NotYetCalled' /\ SwapsAreFresh' /\ RunsCarry'
      /\ OutcomesConsistent'
  BY <1>1, <1>3
  DEF OneHolder, HoldersOwn, NotYetCalled, SwapsAreFresh, RunsCarry,
      OutcomesConsistent, Holds, At
<1> QED
  BY <1>7, <1>8, <1>9 DEF IInv

LEMMA NextInvariant ==
    ASSUME IInv, [Next]_investigationVars
    PROVE  IInv'
<1>1. CASE CreateOrGet
  BY <1>1, CreateStep
<1>2. ASSUME NEW w \in Workers, NEW c \in Claimants,
             NEW e \in Observable \cup {None}, Run(w, c, e)
      PROVE  IInv'
  BY <1>2, RunStep
<1>3. ASSUME NEW w \in Workers, Work(w)
      PROVE  IInv'
  BY <1>3, LoopStep, ReadStepStep, ReadClaimStep, SwapStep, CallStep, CompleteStep DEF Work
<1>4. ASSUME NEW w \in Workers, Interrupt(w)
      PROVE  IInv'
  BY <1>4, LeaveStep DEF Interrupt
<1>5. CASE UNCHANGED investigationVars
  BY <1>5
  DEF investigationVars, IInv, TypeOK, ShapeHolds, LatestAndState, Latest, OneHolder,
      HoldersOwn, NotYetCalled, SwapsAreFresh, RunsCarry, OutcomesConsistent,
      CalledOnce, Holds, At, Resumable
<1> QED
  BY <1>1, <1>2, <1>3, <1>4, <1>5 DEF Next

LEMMA Invariance == Spec => []IInv
BY InitInvariant, NextInvariant, PTL DEF Spec

------------------------------------------------------------------------------
\* Every row, run and count is well formed, and every row the workers write passes
\* the validation that reading it repeats (InvestigationSessionRecord).
THEOREM RowsAreValid == Spec => []TypeOK
<1>1. IInv => TypeOK
  BY DEF IInv
<1> QED
  BY <1>1, Invariance, PTL

\* The reasoner or the probe of a step is called at most once, and only for a step
\* that is in the table.
THEOREM CallsAreNotRepeated == Spec => []OneCallPerStep
<1>1. IInv => OneCallPerStep
  BY DEF IInv, CalledOnce, OneCallPerStep
<1> QED
  BY <1>1, Invariance, PTL

\* A finished session, an indeterminate step and a claim whose worker is gone stay
\* as they are.
THEOREM NothingUnresolvedIsResumed == Spec => UnresolvedIsNeverResumed
<1>1. ASSUME IInv, [Next]_investigationVars, session # None,
             session.status \notin {"ready", "paused"}, ~Owned
      PROVE  session' = session
  <2>1. CASE CreateOrGet
    BY <1>1, <2>1 DEF CreateOrGet
  <2>2. ASSUME NEW w \in Workers, SwapClaim(w)
        PROVE  session' = session
    BY <1>1, <2>2 DEF IInv, SwapsAreFresh, SwapClaim, Swappable, Resumable
  <2>3. ASSUME NEW w \in Workers, Complete(w)
        PROVE  FALSE
    BY <1>1, <2>3 DEF Complete, ActiveClaim, Owned
  <2>4. ASSUME NEW w \in Workers, NEW c \in Claimants,
               NEW e \in Observable \cup {None}, Run(w, c, e)
        PROVE  session' = session
    BY <2>4 DEF Run
  <2>5. ASSUME NEW w \in Workers,
               Loop(w) \/ ReadStep(w) \/ ReadClaim(w) \/ Call(w) \/ Interrupt(w)
        PROVE  session' = session
    BY <2>5 DEF Loop, ReadStep, ReadClaim, Call, Interrupt
  <2>6. CASE UNCHANGED investigationVars
    BY <2>6 DEF investigationVars
  <2> QED
    BY <1>1, <2>1, <2>2, <2>3, <2>4, <2>5, <2>6 DEF Next, Work
<1>2. IInv /\ [Next]_investigationVars =>
        [session # None /\ session.status \notin {"ready", "paused"} /\ ~Owned
           => session' = session]_investigationVars
  BY <1>1
<1> QED
  BY <1>2, Invariance, PTL DEF Spec, UnresolvedIsNeverResumed

------------------------------------------------------------------------------
(* What the remaining properties rest on: the whole history of the row.  A  *)
(* state that a worker read is the current one, or the step it was read for *)
(* is in the table under its digest (OnTime): every step starts from the    *)
(* state the last one left, and the state tells which step is next.         *)

ReasonerSteps(s) == {i \in DOMAIN s.steps : s.steps[i].kind = "reasoner"}

ProbeSteps(s) == {i \in DOMAIN s.steps : s.steps[i].kind = "probe"}

Alternates(s) ==
    \A i \in DOMAIN s.steps : s.steps[i].kind = IF i % 2 = 1 THEN "reasoner" ELSE "probe"

\* A probe step collects what the step before it asked for, and nothing twice.
CollectsAnew(s) == \A i \in DOMAIN s.steps :
    /\ s.steps[i].kind = "reasoner" => s.steps[i].probe = None
    /\ s.steps[i].kind = "probe" =>
        /\ s.steps[i].probe \in Probes
        /\ s.steps[i].status \in {"claimed", "succeeded"}
        /\ s.steps[i].status = "succeeded" => s.steps[i].probe \in s.state.attempted
        /\ s.steps[i].probe = s.steps[i - 1].next
        /\ \A j \in 1..i - 1 : s.steps[j].probe # s.steps[i].probe

\* The budgets count the steps, all but the claimed one.
Counts(s, reasoner, probe) ==
    /\ Cardinality(ReasonerSteps(s)) = s.state.iterations + reasoner
    /\ Cardinality(ProbeSteps(s)) = s.state.tools + probe

Budgets(s) ==
    /\ Cardinality(ReasonerSteps(s)) <= MaxIterations
    /\ Cardinality(ProbeSteps(s)) <= MaxTools
    /\ Resumable(s) => Counts(s, 0, 0)
    /\ s.status = "running" /\ Latest(s).kind = "reasoner" => Counts(s, 1, 0)
    /\ s.status = "running" /\ Latest(s).kind = "probe" => Counts(s, 0, 1)
    /\ s.status \in {"ready", "paused", "running"} => s.state.iterations < MaxIterations

\* A reasoner that continues asked for a probe that can be collected.
GoesOn(s) ==
    s.status = "paused" /\ Latest(s).kind = "reasoner" => ProbeAdmitted(s)

Binds(s) ==
    s.status = "running" => [Latest(s).digest.state EXCEPT !.status = "running"] = s.state

History(s) == Alternates(s) /\ CollectsAnew(s) /\ Budgets(s) /\ GoesOn(s) /\ Binds(s)

OnTime(s, run) ==
    \/ Replayed(s, RequestDigest(run))
    \/ /\ Admitted(s, run.kind)
       /\ run.seen = s.state
       /\ run.probe = IF run.kind = "probe" THEN Latest(s).next ELSE None
       /\ run.expected # None /\ run.calls = 0 => s.version = run.expected

\* The answers to a claimed step.
Answers(s) ==
    IF Latest(s).kind = "reasoner" THEN ReasonerOutcomes(s.state)
    ELSE {ProbeOutcome(s.state, Latest(s).probe)}

RunFits(s, run) ==
    /\ run.stage \in {"claim", "swap"} => OnTime(s, run)
    /\ run.stage = "swap" /\ run.version = s.version => ~Replayed(s, RequestDigest(run))
    /\ run.stage = "call" =>
         /\ run.seen = s.state
         /\ run.kind = Latest(s).kind
         /\ run.probe = Latest(s).probe
    /\ run.stage = "complete" => run.outcome \in Answers(s)

HInv ==
    /\ session # None => History(session)
    /\ \A w \in Workers : runs[w] # None => RunFits(session, runs[w])

------------------------------------------------------------------------------
LEMMA InitHistory == Init => HInv
BY DEF Init, HInv

\* A step of one run that leaves the row alone.
LEMMA QuietHistory ==
    ASSUME IInv, HInv, NEW w \in Workers, NEW r,
           runs' = [runs EXCEPT ![w] = r], session' = session,
           r # None => RunFits(session, r)
    PROVE  HInv'
<1>1. \A v \in Workers : runs'[v] = IF v = w THEN r ELSE runs[v]
  BY DEF IInv, TypeOK
<1>2. (session # None => History(session))'
  <2>1. session # None => History(session)
    BY DEF HInv
  <2>2. History(session') <=> History(session)
    OBVIOUS
  <2> QED
    BY <2>1, <2>2
<1>3. \A v \in Workers : runs'[v] # None => RunFits(session', runs'[v])
  BY <1>1 DEF HInv
<1> QED
  BY <1>2, <1>3 DEF HInv

LEMMA LeaveHistory ==
    ASSUME IInv, HInv, NEW w \in Workers, Leave(w), session' = session
    PROVE  HInv'
BY QuietHistory DEF Leave

LEMMA RunHistory ==
    ASSUME IInv, HInv, NEW w \in Workers, NEW c \in Claimants,
           NEW e \in Observable \cup {None}, Run(w, c, e)
    PROVE  HInv'
<1> DEFINE r == [claimant |-> c, expected |-> e, calls |-> 0, stage |-> "loop",
                 kind |-> "reasoner", seen |-> None, probe |-> None,
                 version |-> 0, step |-> 0, outcome |-> None]
<1>1. RunFits(session, r)
  BY DEF RunFits
<1>2. runs' = [runs EXCEPT ![w] = r] /\ session' = session
  BY DEF Run, Goto
<1> HIDE DEF r
<1> QED
  BY <1>1, <1>2, QuietHistory

LEMMA LoopHistory ==
    ASSUME IInv, HInv, NEW w \in Workers, Loop(w)
    PROVE  HInv'
<1> DEFINE kind == IF ReasonerIsNext(session) THEN "reasoner" ELSE "probe"
           r == [runs[w] EXCEPT !.stage = "read", !.kind = kind]
<1>1. runs[w] \in Runs
  BY DEF Loop, At, IInv, TypeOK
<1>2. Goto(w, r) \/ Leave(w)
  BY DEF Loop
<1> HIDE DEF kind
<1>3. r.stage = "read"
  BY <1>1 DEF Runs
<1> HIDE DEF r
<1> QED
  BY <1>2, <1>3, QuietHistory, LeaveHistory DEF Loop, Goto, RunFits

\* What the driver reads is current, and no longer than until the step is claimed.
LEMMA ReadStepHistory ==
    ASSUME IInv, HInv, NEW w \in Workers, ReadStep(w)
    PROVE  HInv'
<1>1. CASE Leave(w)
  BY <1>1, LeaveHistory DEF ReadStep
<1>2. CASE ~Leave(w)
  <2> DEFINE probe == IF runs[w].kind = "probe" THEN Latest(session).next ELSE None
             r == [runs[w] EXCEPT !.stage = "claim", !.seen = session.state, !.probe = probe]
  <2>1. runs[w] \in Runs
    BY DEF ReadStep, At, IInv, TypeOK
  <2>2. Admitted(session, runs[w].kind) /\ Goto(w, r) /\ VersionExpected(runs[w])
    BY <1>2 DEF ReadStep
  <2> HIDE DEF probe
  <2>3. /\ r.stage = "claim"
        /\ r.seen = session.state
        /\ r.kind = runs[w].kind
        /\ r.probe = probe
        /\ r.expected = runs[w].expected
        /\ r.calls = runs[w].calls
    BY <2>1 DEF Runs
  <2> HIDE DEF r
  <2>4. OnTime(session, r)
    BY <2>2, <2>3 DEF OnTime, VersionExpected, probe
  <2>5. RunFits(session, r)
    BY <2>3, <2>4 DEF RunFits
  <2> QED
    BY <2>2, <2>5, QuietHistory DEF ReadStep, Goto
<1> QED
  BY <1>1, <1>2

LEMMA ReadClaimHistory ==
    ASSUME IInv, HInv, NEW w \in Workers, ReadClaim(w)
    PROVE  HInv'
<1>1. CASE Leave(w)
  BY <1>1, LeaveHistory DEF ReadClaim
<1>2. CASE ~Leave(w)
  <2> DEFINE r == [runs[w] EXCEPT !.stage = "swap", !.version = session.version]
  <2>1. runs[w] \in Runs /\ runs[w].stage = "claim" /\ runs[w] # None
    BY DEF ReadClaim, At, IInv, TypeOK
  <2>2. Goto(w, r) /\ ~Replayed(session, RequestDigest(runs[w]))
    BY <1>2 DEF ReadClaim, AfterClaim, Goto, Leave
  <2>3. /\ r.stage = "swap"
        /\ r.seen = runs[w].seen
        /\ r.kind = runs[w].kind
        /\ r.probe = runs[w].probe
        /\ r.expected = runs[w].expected
        /\ r.calls = runs[w].calls
    BY <2>1 DEF Runs
  <2> HIDE DEF r
  <2>4. RequestDigest(r) = RequestDigest(runs[w])
    BY <2>3 DEF RequestDigest
  <2>5. OnTime(session, runs[w])
    BY <2>1 DEF HInv, RunFits
  <2>6. OnTime(session, r)
    BY <2>3, <2>4, <2>5 DEF OnTime
  <2>7. RunFits(session, r)
    BY <2>2, <2>3, <2>4, <2>6 DEF RunFits
  <2> QED
    BY <2>2, <2>7, QuietHistory DEF ReadClaim, Goto
<1> QED
  BY <1>1, <1>2

LEMMA CallHistory ==
    ASSUME IInv, HInv, NEW w \in Workers, Call(w)
    PROVE  HInv'
<1>1. /\ runs[w] \in Runs
      /\ runs[w] # None
      /\ runs[w].stage = "call"
      /\ runs[w].kind \in Kinds
  BY DEF Call, At, IInv, TypeOK, Runs
<1>2. PICK o \in IF runs[w].kind = "reasoner" THEN ReasonerOutcomes(runs[w].seen)
                 ELSE {ProbeOutcome(runs[w].seen, runs[w].probe)} :
        Goto(w, [runs[w] EXCEPT !.stage = "complete", !.outcome = o])
  BY DEF Call
<1>3. o \in Answers(session)
  BY <1>1, <1>2 DEF HInv, RunFits, Answers
<1> DEFINE r == [runs[w] EXCEPT !.stage = "complete", !.outcome = o]
<1>4. r.stage = "complete" /\ r.outcome = o
  BY <1>1 DEF Runs
<1>5. Goto(w, r)
  BY <1>2
<1> HIDE DEF r
<1>6. RunFits(session, r)
  BY <1>3, <1>4 DEF RunFits
<1> QED
  BY <1>5, <1>6, QuietHistory DEF Call, Goto

LEMMA Parity == \A i \in Nat : i % 2 = 1 <=> (i + 1) % 2 # 1
OBVIOUS

\* The state of a session tells which step is next.
LEMMA OneKindIsNext ==
    ASSUME NEW s, NEW k \in Kinds, NEW l \in Kinds, Admitted(s, k), Admitted(s, l)
    PROVE  k = l
<1>1. ReasonerAdmitted(s) /\ ProbeAdmitted(s) => FALSE
  BY DEF ReasonerAdmitted, ProbeAdmitted, LatestIs
<1> QED
  BY <1>1 DEF Admitted, Kinds

\* Nobody holds a session that can be resumed.
LEMMA Unattended ==
    ASSUME IInv, session # None, Resumable(session)
    PROVE  \A v \in Workers : ~Holds(v)
BY DEF IInv, HoldersOwn, Resumable

\* The step a swap appends is the next one, and a worker that read the same state finds
\* its own step in the table.
LEMMA SwapHistory ==
    ASSUME IInv, IInv', HInv, NEW w \in Workers, SwapClaim(w)
    PROVE  HInv'
<1>1. CASE ~Swappable(runs[w].version)
  BY <1>1, LeaveHistory DEF SwapClaim
<1>2. CASE Swappable(runs[w].version)
  <2> DEFINE s == session
             t == session'
             u == runs[w]
             n == Len(s.steps) + 1
             new == Claimed(u)
             st == [s.state EXCEPT !.status = "running"]
             r == [u EXCEPT !.stage = "call", !.step = n, !.seen = st]
  <2>1. /\ s \in Rows /\ s # None /\ Resumable(s)
        /\ u \in Runs /\ u # None /\ u.stage = "swap" /\ u.version = s.version
        /\ t \in Rows /\ t # None /\ t.status = "running"
        /\ t.version = s.version + 1
        /\ t.state = st
        /\ t.steps = Append(s.steps, new)
        /\ new \in Steps
        /\ runs' = [runs EXCEPT ![w] = r]
    BY <1>2, SwapWrites, SessionNone
  <2> HIDE DEF r
  <2>2. /\ s.steps \in Seq(Steps) /\ Len(s.steps) \in Nat
        /\ DOMAIN s.steps = 1..Len(s.steps)
        /\ s.version \in Nat
        /\ s.state \in States
    BY <2>1, LenProperties DEF Rows
  <2>3. /\ Len(t.steps) = n
        /\ DOMAIN t.steps = 1..n
        /\ n = Len(s.steps) + 1 /\ n \in Nat
        /\ t.steps[n] = new
        /\ Latest(t) = new
        /\ \A i \in 1..Len(s.steps) : t.steps[i] = s.steps[i]
    BY <2>1, <2>2, AppendProperties, LenProperties DEF Latest
  <2>4. /\ new.kind = u.kind
        /\ new.status = "claimed"
        /\ new.digest = RequestDigest(u)
        /\ new.digest.state = u.seen
        /\ new.probe = u.probe
        /\ u.kind \in Kinds
    BY <2>1 DEF Claimed, RequestDigest, Runs
  <2>5. /\ st \in States /\ st.status = "running"
        /\ st.iterations = s.state.iterations
        /\ st.tools = s.state.tools
        /\ st.attempted = s.state.attempted
        /\ s.state.iterations \in Nat /\ s.state.tools \in Nat
    BY <2>2 DEF States
  <2> HIDE DEF new, n, st, s, t, u
  <2>6. History(s) /\ RunFits(s, u)
    BY <2>1 DEF HInv, s, u
  <2>7. /\ Admitted(s, u.kind)
        /\ u.seen = s.state
        /\ u.probe = IF u.kind = "probe" THEN Latest(s).next ELSE None
    BY <2>1, <2>6 DEF RunFits, OnTime
  <2>8. ShapeHolds(s)
    BY <2>1 DEF IInv, TypeOK, s
  <2>9. u.kind = "reasoner" =>
          /\ s.state.iterations < MaxIterations
          /\ s.steps # <<>> => Latest(s).kind = "probe"
    <3>1. u.kind = "reasoner" => ReasonerAdmitted(s)
      BY <2>7 DEF Admitted
    <3>2. ASSUME ReasonerAdmitted(s)
          PROVE  s.state.iterations < MaxIterations
      BY <3>2 DEF ReasonerAdmitted
    <3>3. ASSUME ReasonerAdmitted(s)
          PROVE  s.steps # <<>> => Latest(s).kind = "probe"
      BY <3>3 DEF ReasonerAdmitted, LatestIs
    <3> QED
      BY <3>1, <3>2, <3>3
  <2>10. u.kind = "probe" =>
          /\ s.steps # <<>> /\ Latest(s).kind = "reasoner"
          /\ s.status = "paused"
          /\ u.probe = Latest(s).next
          /\ u.probe \in Probes
          /\ u.probe \notin s.state.attempted
          /\ s.state.tools < MaxTools
    BY <2>7 DEF Admitted, ProbeAdmitted, LatestIs
  <2>11. s.steps # <<>> <=> Len(s.steps) > 0
    BY <2>2
  <2>12. Latest(s) = s.steps[Len(s.steps)]
    BY DEF Latest
  <2>13. Alternates(t)
    <3>1. \A i \in 1..Len(s.steps) : s.steps[i].kind = IF i % 2 = 1 THEN "reasoner" ELSE "probe"
      BY <2>2, <2>6 DEF History, Alternates
    <3>2. u.kind = IF n % 2 = 1 THEN "reasoner" ELSE "probe"
      <4>1. CASE s.steps = <<>>
        <5>1. n = 1 /\ u.kind = "reasoner"
          BY <2>2, <2>3, <2>4, <2>10, <2>11, <4>1 DEF Kinds
        <5>2. 1 % 2 = 1
          OBVIOUS
        <5> QED
          BY <5>1, <5>2
      <4>2. CASE s.steps # <<>>
        <5>1. Latest(s).kind = IF Len(s.steps) % 2 = 1 THEN "reasoner" ELSE "probe"
          <6>1. Len(s.steps) \in 1..Len(s.steps)
            BY <2>2, <2>11, <4>2
          <6> QED
            BY <2>12, <3>1, <6>1
        <5>2. Len(s.steps) % 2 = 1 <=> n % 2 # 1
          BY <2>2, <2>3, Parity
        <5> QED
          BY <2>4, <2>9, <2>10, <4>2, <5>1, <5>2 DEF Kinds
      <4> QED
        BY <4>1, <4>2
    <3>3. \A i \in 1..n : t.steps[i].kind = IF i % 2 = 1 THEN "reasoner" ELSE "probe"
      <4> SUFFICES ASSUME NEW i \in 1..n
                   PROVE  t.steps[i].kind = IF i % 2 = 1 THEN "reasoner" ELSE "probe"
        OBVIOUS
      <4>1. CASE i = n
        BY <2>3, <2>4, <3>2, <4>1
      <4>2. CASE i # n
        <5>1. i \in 1..Len(s.steps)
          BY <2>2, <2>3, <4>2
        <5> QED
          BY <2>3, <3>1, <5>1
      <4> QED
        BY <4>1, <4>2
    <3> QED
      BY <2>3, <3>3 DEF Alternates
  <2>14. CollectsAnew(t)
    <3>1. \A i \in 1..Len(s.steps) :
            /\ s.steps[i].kind = "reasoner" => s.steps[i].probe = None
            /\ s.steps[i].kind = "probe" =>
                /\ s.steps[i].probe \in Probes
                /\ s.steps[i].status \in {"claimed", "succeeded"}
                /\ s.steps[i].status = "succeeded" => s.steps[i].probe \in s.state.attempted
                /\ s.steps[i].probe = s.steps[i - 1].next
                /\ \A j \in 1..i - 1 : s.steps[j].probe # s.steps[i].probe
      BY <2>2, <2>6 DEF History, CollectsAnew
    <3>2. \A i \in 1..Len(s.steps) : s.steps[i].kind = "probe" => i - 1 \in 1..Len(s.steps)
      <4>1. \A i \in 1..Len(s.steps) : s.steps[i].kind = IF i % 2 = 1 THEN "reasoner" ELSE "probe"
        BY <2>2, <2>6 DEF History, Alternates
      <4> QED
        BY <2>2, <4>1
    <3>3. u.kind = "reasoner" => u.probe = None
      BY <2>7
    <3>4. ASSUME u.kind = "probe", NEW j \in 1..Len(s.steps)
          PROVE  s.steps[j].probe # u.probe
      <4>1. s.steps[j].kind \in Kinds
        BY <2>2, <2>6 DEF History, Alternates, Kinds
      <4>2. CASE s.steps[j].kind = "reasoner"
        BY <2>10, <3>1, <3>4, <4>2, LimitsAssumption
      <4>3. CASE s.steps[j].kind = "probe"
        <5>1. j # Len(s.steps)
          BY <2>10, <2>12, <3>4, <4>3
        <5>2. s.steps[j].status \in {"succeeded", "failed"}
          BY <2>2, <2>8, <5>1 DEF ShapeHolds
        <5>3. s.steps[j].probe \in s.state.attempted
          BY <3>1, <4>3, <5>2
        <5> QED
          BY <2>10, <3>4, <5>3
      <4> QED
        BY <4>1, <4>2, <4>3 DEF Kinds
    <3> SUFFICES ASSUME NEW i \in 1..n
                 PROVE  /\ t.steps[i].kind = "reasoner" => t.steps[i].probe = None
                        /\ t.steps[i].kind = "probe" =>
                            /\ t.steps[i].probe \in Probes
                            /\ t.steps[i].status \in {"claimed", "succeeded"}
                            /\ t.steps[i].status = "succeeded" => t.steps[i].probe \in t.state.attempted
                            /\ t.steps[i].probe = t.steps[i - 1].next
                            /\ \A j \in 1..i - 1 : t.steps[j].probe # t.steps[i].probe
      BY <2>3 DEF CollectsAnew
    <3>5. CASE i # n
      <4>1. i \in 1..Len(s.steps) /\ \A j \in 1..i - 1 : j \in 1..Len(s.steps)
        BY <2>2, <2>3, <3>5
      <4> QED
        BY <2>1, <2>3, <2>5, <3>1, <3>2, <4>1
    <3>6. CASE i = n
      <4>1. i - 1 = Len(s.steps) /\ (u.kind = "probe" => i - 1 \in 1..Len(s.steps))
        BY <2>2, <2>3, <2>10, <2>11, <3>6
      <4>2. t.steps[i] = new
        BY <2>3, <3>6
      <4>3. u.kind = "probe" => u.probe = t.steps[i - 1].next
        BY <2>3, <2>10, <2>12, <4>1
      <4>4. u.kind = "probe" => \A j \in 1..i - 1 : t.steps[j].probe # u.probe
        BY <2>3, <3>4, <4>1
      <4> QED
        BY <2>4, <2>10, <3>3, <4>2, <4>3, <4>4
    <3> QED
      BY <3>5, <3>6
  <2>15. Budgets(t)
    <3>1. /\ Counts(s, 0, 0)
          /\ Cardinality(ReasonerSteps(s)) <= MaxIterations
          /\ Cardinality(ProbeSteps(s)) <= MaxTools
          /\ s.state.iterations < MaxIterations
      BY <2>1, <2>6 DEF History, Budgets, Resumable
    <3>2. /\ IsFiniteSet(ReasonerSteps(s)) /\ IsFiniteSet(ProbeSteps(s))
          /\ n \notin ReasonerSteps(s) /\ n \notin ProbeSteps(s)
      <4>1. IsFiniteSet(1..Len(s.steps))
        BY <2>2, FS_Interval
      <4>2. ReasonerSteps(s) \subseteq 1..Len(s.steps) /\ ProbeSteps(s) \subseteq 1..Len(s.steps)
        BY <2>2 DEF ReasonerSteps, ProbeSteps
      <4>3. n \notin 1..Len(s.steps)
        BY <2>2, <2>3
      <4> QED
        BY <4>1, <4>2, <4>3, FS_Subset
    <3>3. /\ Cardinality(ReasonerSteps(s) \cup {n}) = Cardinality(ReasonerSteps(s)) + 1
          /\ Cardinality(ProbeSteps(s) \cup {n}) = Cardinality(ProbeSteps(s)) + 1
      BY <3>2, FS_AddElement
    <3>4. /\ u.kind = "reasoner" =>
               ReasonerSteps(t) = ReasonerSteps(s) \cup {n} /\ ProbeSteps(t) = ProbeSteps(s)
          /\ u.kind = "probe" =>
               ProbeSteps(t) = ProbeSteps(s) \cup {n} /\ ReasonerSteps(t) = ReasonerSteps(s)
      <4>1. 1..n = (1..Len(s.steps)) \cup {n}
        BY <2>2, <2>3
      <4> QED
        BY <2>2, <2>3, <2>4, <4>1 DEF ReasonerSteps, ProbeSteps
    <3>5. /\ Cardinality(ReasonerSteps(s)) = s.state.iterations
          /\ Cardinality(ProbeSteps(s)) = s.state.tools
      BY <2>5, <3>1 DEF Counts
    <3>6. CASE u.kind = "reasoner"
      <4>1. /\ Cardinality(ReasonerSteps(t)) = t.state.iterations + 1
            /\ Cardinality(ProbeSteps(t)) = t.state.tools
        BY <2>1, <2>5, <3>3, <3>4, <3>5, <3>6
      <4>2. /\ Cardinality(ReasonerSteps(t)) <= MaxIterations
            /\ Cardinality(ProbeSteps(t)) <= MaxTools
            /\ t.state.iterations < MaxIterations
        BY <2>1, <2>5, <3>1, <3>5, <4>1, LimitsAssumption
      <4>3. Counts(t, 1, 0)
        BY <2>1, <2>5, <4>1 DEF Counts
      <4> QED
        BY <2>1, <2>3, <2>4, <3>6, <4>2, <4>3 DEF Budgets, Resumable
    <3>7. CASE u.kind = "probe"
      <4>1. /\ Cardinality(ReasonerSteps(t)) = t.state.iterations
            /\ Cardinality(ProbeSteps(t)) = t.state.tools + 1
        BY <2>1, <2>5, <3>3, <3>4, <3>5, <3>7
      <4>2. /\ Cardinality(ReasonerSteps(t)) <= MaxIterations
            /\ Cardinality(ProbeSteps(t)) <= MaxTools
            /\ t.state.iterations < MaxIterations
        BY <2>1, <2>5, <2>10, <3>1, <3>5, <3>7, <4>1, LimitsAssumption
      <4>3. Counts(t, 0, 1)
        BY <2>1, <2>5, <4>1 DEF Counts
      <4> QED
        BY <2>1, <2>3, <2>4, <3>7, <4>2, <4>3 DEF Budgets, Resumable
    <3> QED
      BY <2>4, <3>6, <3>7 DEF Kinds
  <2>16. GoesOn(t)
    BY <2>1 DEF GoesOn
  <2>17. Binds(t)
    BY <2>1, <2>3, <2>4, <2>7 DEF Binds, st
  <2>18. \A d : Replayed(s, d) \/ d = RequestDigest(u) => Replayed(t, d)
    BY <2>2, <2>3, <2>4 DEF Replayed
  <2>19. ASSUME NEW v \in Workers, runs'[v] # None
         PROVE  RunFits(t, runs'[v])
    <3>1. CASE v = w
      <4>1. runs'[v] = r
        BY <2>1, <3>1 DEF IInv, TypeOK
      <4>2. r.stage = "call" /\ r.seen = st /\ r.kind = u.kind /\ r.probe = u.probe
        BY <2>1 DEF Runs, r
      <4> QED
        BY <2>1, <2>3, <2>4, <4>1, <4>2 DEF RunFits
    <3>2. CASE v # w
      <4>1. runs'[v] = runs[v] /\ runs[v] # None /\ runs[v] \in Runs
        BY <2>1, <2>19, <3>2 DEF IInv, TypeOK
      <4>2. RunFits(s, runs[v])
        BY <4>1 DEF HInv, s
      <4>3. runs[v].stage \notin {"call", "complete"}
        BY <2>1, <4>1, Unattended DEF s, Holds, At
      <4>4. runs[v].stage \in {"claim", "swap"} => Replayed(t, RequestDigest(runs[v]))
        <5>1. ASSUME runs[v].stage \in {"claim", "swap"}, ~Replayed(s, RequestDigest(runs[v]))
              PROVE  RequestDigest(runs[v]) = RequestDigest(u)
          <6>1. /\ Admitted(s, runs[v].kind)
                /\ runs[v].seen = s.state
                /\ runs[v].probe = IF runs[v].kind = "probe" THEN Latest(s).next ELSE None
            BY <4>2, <5>1 DEF RunFits, OnTime
          <6>2. runs[v].kind = u.kind
            BY <2>4, <2>7, <4>1, <6>1, OneKindIsNext DEF Runs
          <6> QED
            BY <2>7, <6>1, <6>2 DEF RequestDigest
        <5> QED
          BY <2>18, <5>1
      <4>5. runs[v].stage = "swap" => runs[v].version # t.version
        <5>1. ASSUME runs[v].stage = "swap"
              PROVE  runs[v].version <= s.version /\ runs[v].version \in Nat
          BY <4>1, <5>1 DEF IInv, SwapsAreFresh, At, s, Runs
        <5> QED
          BY <2>1, <2>2, <5>1
      <4> QED
        BY <4>1, <4>3, <4>4, <4>5 DEF RunFits, OnTime
    <3> QED
      BY <3>1, <3>2
  <2>20. History(t)
    BY <2>13, <2>14, <2>15, <2>16, <2>17 DEF History
  <2> QED
    <3>1. History(session')
      BY <2>20 DEF t
    <3>2. \A v \in Workers : runs'[v] # None => RunFits(session', runs'[v])
      BY <2>19 DEF t
    <3>3. (History(session))'
      BY <3>1
    <3>4. (\A v \in Workers : runs[v] # None => RunFits(session, runs[v]))'
      BY <3>2
    <3> QED
      BY <3>3, <3>4 DEF HInv
<1> QED
  BY <1>1, <1>2

\* What the two kinds of answers do to the budgets and to the probes tried.
LEMMA ReasonerAnswers ==
    ASSUME NEW state \in States, NEW o \in ReasonerOutcomes(state)
    PROVE  /\ o.state.attempted = state.attempted
           /\ o.status = "succeeded" /\ o.state.status \notin {"concluded", "failed"} =>
                /\ o.state.iterations = state.iterations + 1
                /\ o.state.tools = state.tools
                /\ o.next \in Probes /\ Continues(state, o.next)
           /\ o.status = "failed" => o.state.status = "failed"
<1> DEFINE m == state.iterations + 1
<1>1. ASSUME NEW status
      PROVE  /\ Decided(state, status).attempted = state.attempted
             /\ Decided(state, status).status = status
             /\ Decided(state, status).iterations = m
             /\ Decided(state, status).tools = state.tools
  <2>1. Decided(state, status) = [state EXCEPT !.iterations = m, !.status = status]
    BY DEF Decided
  <2> HIDE DEF m
  <2> QED
    BY <2>1 DEF States
<1> HIDE DEF m
<1>2. CASE o = [status |-> "succeeded", state |-> Decided(state, "concluded"), next |-> None]
  BY <1>1, <1>2
<1>3. CASE o = [status |-> "failed", state |-> [state EXCEPT !.status = "failed"], next |-> None]
  <2>1. [state EXCEPT !.status = "failed"].attempted = state.attempted
        /\ [state EXCEPT !.status = "failed"].status = "failed"
    BY DEF States
  <2> QED
    BY <1>3, <2>1
<1>4. CASE o = [status |-> "indeterminate", state |-> state, next |-> None]
  BY <1>4
<1>5. CASE \E p \in {q \in Probes : Continues(state, q)} :
             o = [status |-> "succeeded", state |-> Decided(state, "running"), next |-> p]
  BY <1>1, <1>5 DEF m
<1> QED
  BY <1>2, <1>3, <1>4, <1>5 DEF ReasonerOutcomes

LEMMA ProbeAnswers ==
    ASSUME NEW state \in States, NEW p
    PROVE  LET o == ProbeOutcome(state, p) IN
           /\ o.status = "succeeded"
           /\ o.state.attempted = state.attempted \cup {p}
           /\ o.state.iterations = state.iterations
           /\ o.state.tools = state.tools + 1
<1> DEFINE m == state.tools + 1
           tried == state.attempted \cup {p}
           next == [state EXCEPT !.tools = m, !.attempted = tried]
<1>1. ProbeOutcome(state, p) = [status |-> "succeeded", next |-> None, state |-> next]
  BY DEF ProbeOutcome
<1> HIDE DEF m, tried
<1>2. next.attempted = tried /\ next.iterations = state.iterations /\ next.tools = m
  BY DEF States
<1> HIDE DEF next
<1> QED
  BY <1>1, <1>2 DEF m, tried

\* A completion keeps the steps and their digests; it pays for its step and leaves a
\* session that can go on, or one that is over.
LEMMA CompleteHistory ==
    ASSUME IInv, IInv', HInv, NEW w \in Workers, Complete(w)
    PROVE  HInv'
<1> DEFINE s == session
           t == session'
           o == runs[w].outcome
           n == Len(s.steps)
           step == [s.steps[n] EXCEPT !.status = o.status, !.next = o.next]
<1>1. /\ s \in Rows /\ s # None /\ s.status = "running"
      /\ runs[w] \in Runs /\ runs[w].stage = "complete" /\ Holds(w)
      /\ o \in Outcomes /\ Consistent(o)
      /\ n \in 1..Len(s.steps) /\ s.steps[n] \in Steps /\ step \in Steps
      /\ t \in Rows /\ t # None
      /\ t.status = SessionStatus(o)
      /\ t.version = s.version + 1
      /\ t.state = o.state
      /\ t.steps = [s.steps EXCEPT ![n] = step]
      /\ \E r \in Runs : r.stage = "loop" /\ runs' = [runs EXCEPT ![w] = r]
  BY CompleteWrites
<1>2. /\ s.steps \in Seq(Steps) /\ n \in Nat
      /\ DOMAIN s.steps = 1..n
      /\ s.version \in Nat
      /\ s.state \in States
      /\ s.state.iterations \in Nat /\ s.state.tools \in Nat
      /\ Latest(s) = s.steps[n]
  BY <1>1, LenProperties DEF Rows, States, Latest
<1>3. /\ step.status = o.status /\ step.next = o.next
      /\ step.kind = s.steps[n].kind
      /\ step.probe = s.steps[n].probe
      /\ step.digest = s.steps[n].digest
      /\ step.kind \in Kinds
  BY <1>1 DEF Steps
<1> HIDE DEF step
<1>4. /\ Len(t.steps) = n
      /\ DOMAIN t.steps = 1..n
      /\ t.steps[n] = step
      /\ Latest(t) = step
      /\ \A i \in 1..n : i # n => t.steps[i] = s.steps[i]
      /\ \A i \in 1..n : /\ t.steps[i].kind = s.steps[i].kind
                         /\ t.steps[i].probe = s.steps[i].probe
                         /\ t.steps[i].digest = s.steps[i].digest
  <2>1. /\ Len(t.steps) = n
        /\ \A i \in 1..n : t.steps[i] = IF i = n THEN step ELSE s.steps[i]
    BY <1>1, <1>2, ExceptSeq
  <2>2. DOMAIN t.steps = 1..n
    BY <1>1, <1>2
  <2> QED
    BY <1>1, <1>3, <2>1, <2>2 DEF Latest
<1>5. History(s) /\ o \in Answers(s)
  <2>1. runs[w] # None
    BY <1>1, SessionNone
  <2> QED
    BY <1>1, <2>1 DEF HInv, RunFits
<1>6. ShapeHolds(s)
  BY <1>1 DEF IInv, TypeOK
<1> HIDE DEF n, o, s, t
<1>7. step.kind = "reasoner" => o \in ReasonerOutcomes(s.state)
  BY <1>2, <1>3, <1>5 DEF Answers
<1>8. step.kind = "probe" => o = ProbeOutcome(s.state, step.probe)
  BY <1>2, <1>3, <1>5 DEF Answers
<1>9. step.kind = "reasoner" =>
        /\ o.state.attempted = s.state.attempted
        /\ o.status = "succeeded" /\ o.state.status \notin {"concluded", "failed"} =>
             /\ o.state.iterations = s.state.iterations + 1
             /\ o.state.tools = s.state.tools
             /\ o.next \in Probes /\ Continues(s.state, o.next)
        /\ o.status = "failed" => o.state.status = "failed"
  BY <1>2, <1>7, ReasonerAnswers
<1>10. step.kind = "probe" =>
        /\ o.status = "succeeded"
        /\ o.state.attempted = s.state.attempted \cup {step.probe}
        /\ o.state.iterations = s.state.iterations
        /\ o.state.tools = s.state.tools + 1
  BY <1>2, <1>8, ProbeAnswers
<1>11. /\ t.status \in {"paused", "completed", "failed", "indeterminate"}
       /\ t.status = "paused" =>
            o.status = "succeeded" /\ o.state.status \notin {"concluded", "failed"}
  <2>1. CASE o.status = "succeeded"
    BY <1>1, <2>1 DEF SessionStatus
  <2>2. CASE o.status = "failed"
    BY <1>1, <2>2 DEF SessionStatus, Consistent
  <2>3. CASE o.status = "indeterminate"
    BY <1>1, <2>3 DEF SessionStatus
  <2> QED
    BY <1>1, <2>1, <2>2, <2>3 DEF Consistent
<1>12. Alternates(t)
  BY <1>2, <1>4, <1>5 DEF History, Alternates
<1>13. CollectsAnew(t)
  <2>1. \A i \in 1..n :
          /\ s.steps[i].kind = "reasoner" => s.steps[i].probe = None
          /\ s.steps[i].kind = "probe" =>
              /\ s.steps[i].probe \in Probes
              /\ s.steps[i].status \in {"claimed", "succeeded"}
              /\ s.steps[i].status = "succeeded" => s.steps[i].probe \in s.state.attempted
              /\ s.steps[i].probe = s.steps[i - 1].next
              /\ \A j \in 1..i - 1 : s.steps[j].probe # s.steps[i].probe
    BY <1>2, <1>5 DEF History, CollectsAnew
  <2>2. \A i \in 1..n : s.steps[i].kind = "probe" => i - 1 \in 1..n /\ i - 1 # n
    <3>1. \A i \in 1..n : s.steps[i].kind = IF i % 2 = 1 THEN "reasoner" ELSE "probe"
      BY <1>2, <1>5 DEF History, Alternates
    <3> QED
      BY <1>2, <3>1
  <2>3. s.state.attempted \subseteq o.state.attempted
    BY <1>3, <1>9, <1>10 DEF Kinds
  <2> SUFFICES ASSUME NEW i \in 1..n
               PROVE  /\ t.steps[i].kind = "reasoner" => t.steps[i].probe = None
                      /\ t.steps[i].kind = "probe" =>
                          /\ t.steps[i].probe \in Probes
                          /\ t.steps[i].status \in {"claimed", "succeeded"}
                          /\ t.steps[i].status = "succeeded" => t.steps[i].probe \in t.state.attempted
                          /\ t.steps[i].probe = t.steps[i - 1].next
                          /\ \A j \in 1..i - 1 : t.steps[j].probe # t.steps[i].probe
    BY <1>4 DEF CollectsAnew
  <2>4. t.steps[i].kind = "probe" => t.steps[i].probe = t.steps[i - 1].next
    BY <1>4, <2>1, <2>2
  <2>5. t.steps[i].kind = "probe" =>
          \A j \in 1..i - 1 : t.steps[j].probe # t.steps[i].probe
    <3>1. \A j \in 1..i - 1 : j \in 1..n
      BY <1>2
    <3> QED
      BY <1>4, <2>1, <3>1
  <2>6. CASE i = n
    BY <1>1, <1>3, <1>4, <1>10, <2>1, <2>4, <2>5, <2>6
  <2>7. CASE i # n
    BY <1>1, <1>4, <2>1, <2>3, <2>4, <2>5, <2>7
  <2> QED
    BY <2>6, <2>7
<1>14. Budgets(t)
  <2>1. ReasonerSteps(t) = ReasonerSteps(s) /\ ProbeSteps(t) = ProbeSteps(s)
    BY <1>2, <1>4 DEF ReasonerSteps, ProbeSteps
  <2>2. /\ Cardinality(ReasonerSteps(s)) <= MaxIterations
        /\ Cardinality(ProbeSteps(s)) <= MaxTools
        /\ s.state.iterations < MaxIterations
        /\ step.kind = "reasoner" => Counts(s, 1, 0)
        /\ step.kind = "probe" => Counts(s, 0, 1)
    BY <1>1, <1>2, <1>3, <1>5 DEF History, Budgets
  <2>3. CASE t.status # "paused"
    BY <1>11, <2>1, <2>2, <2>3 DEF Budgets, Resumable
  <2>4. CASE t.status = "paused"
    <3>1. t.state.iterations < MaxIterations
      <4>1. CASE step.kind = "reasoner"
        <5>1. s.state.iterations + 1 < MaxIterations
          BY <1>9, <1>11, <2>4, <4>1 DEF Continues
        <5> QED
          BY <1>1, <1>9, <1>11, <2>4, <4>1, <5>1
      <4>2. CASE step.kind = "probe"
        BY <1>1, <1>10, <2>2, <4>2
      <4> QED
        BY <1>3, <4>1, <4>2 DEF Kinds
    <3>2. Counts(t, 0, 0)
      <4>1. CASE step.kind = "reasoner"
        <5>1. /\ Cardinality(ReasonerSteps(t)) = s.state.iterations + 1
              /\ Cardinality(ProbeSteps(t)) = s.state.tools
          BY <1>2, <2>1, <2>2, <4>1 DEF Counts
        <5> QED
          BY <1>1, <1>2, <1>9, <1>11, <2>4, <4>1, <5>1 DEF Counts
      <4>2. CASE step.kind = "probe"
        <5>1. /\ Cardinality(ReasonerSteps(t)) = s.state.iterations
              /\ Cardinality(ProbeSteps(t)) = s.state.tools + 1
          BY <1>2, <2>1, <2>2, <4>2 DEF Counts
        <5> QED
          BY <1>1, <1>2, <1>10, <4>2, <5>1 DEF Counts
      <4> QED
        BY <1>3, <4>1, <4>2 DEF Kinds
    <3> QED
      BY <2>1, <2>2, <2>4, <3>1, <3>2 DEF Budgets
  <2> QED
    BY <2>3, <2>4
<1>15. GoesOn(t)
  <2> SUFFICES ASSUME t.status = "paused", step.kind = "reasoner"
               PROVE  ProbeAdmitted(t)
    BY <1>4 DEF GoesOn
  <2>1. /\ o.status = "succeeded" /\ o.next \in Probes
        /\ o.state.attempted = s.state.attempted /\ o.state.tools = s.state.tools
        /\ o.next \notin s.state.attempted /\ s.state.tools < MaxTools
    BY <1>9, <1>11 DEF Continues
  <2>2. t.steps # <<>>
    <3>1. 1 <= n
      BY <1>1, <1>2
    <3>2. Len(<<>>) = 0
      OBVIOUS
    <3> QED
      BY <1>2, <1>4, <3>1, <3>2
  <2>3. LatestIs(t, "reasoner", {"succeeded"})
    BY <1>3, <1>4, <2>1, <2>2 DEF LatestIs
  <2> QED
    BY <1>1, <1>3, <1>4, <2>1, <2>3 DEF ProbeAdmitted
<1>16. Binds(t)
  BY <1>11 DEF Binds
<1>17. ASSUME NEW v \in Workers, runs'[v] # None
       PROVE  RunFits(t, runs'[v])
  <2>1. CASE v = w
    <3>1. runs'[v].stage = "loop"
      BY <1>1, <2>1 DEF IInv, TypeOK
    <3> QED
      BY <3>1 DEF RunFits
  <2>2. CASE v # w
    <3>1. runs'[v] = runs[v] /\ runs[v] # None /\ runs[v] \in Runs
      BY <1>1, <1>17, <2>2 DEF IInv, TypeOK
    <3>2. RunFits(s, runs[v])
      BY <3>1 DEF HInv, s
    <3>3. runs[v].stage \notin {"call", "complete"}
      BY <1>1, <2>2, <3>1 DEF IInv, OneHolder, Holds, At
    <3>4. runs[v].stage \in {"claim", "swap"} => Replayed(t, RequestDigest(runs[v]))
      <4>1. ~Admitted(s, runs[v].kind)
        BY <1>1 DEF Admitted, ReasonerAdmitted, ProbeAdmitted, Resumable
      <4>2. runs[v].stage \in {"claim", "swap"} => Replayed(s, RequestDigest(runs[v]))
        BY <3>2, <4>1 DEF RunFits, OnTime
      <4> QED
        BY <1>2, <1>4, <4>2 DEF Replayed
    <3>5. runs[v].stage = "swap" => runs[v].version # t.version
      <4>1. ASSUME runs[v].stage = "swap"
            PROVE  runs[v].version <= s.version /\ runs[v].version \in Nat
        BY <3>1, <4>1 DEF IInv, SwapsAreFresh, At, s, Runs
      <4> QED
        BY <1>1, <1>2, <4>1
    <3> QED
      BY <3>1, <3>3, <3>4, <3>5 DEF RunFits, OnTime
  <2> QED
    BY <2>1, <2>2
<1>18. History(t)
  BY <1>12, <1>13, <1>14, <1>15, <1>16 DEF History
<1> QED
  <2>1. (History(session))'
    BY <1>18 DEF t
  <2>2. (\A v \in Workers : runs[v] # None => RunFits(session, runs[v]))'
    BY <1>17 DEF t
  <2> QED
    BY <2>1, <2>2 DEF HInv

LEMMA CreateHistory ==
    ASSUME IInv, HInv, CreateOrGet
    PROVE  HInv'
<1>1. \A w \in Workers : runs'[w] = None
  BY DEF IInv, RunsCarry, CreateOrGet
<1> DEFINE t == session'
<1>2. /\ t.status = "ready" /\ t.steps = <<>>
      /\ t.state.iterations = 0 /\ t.state.tools = 0
  BY DEF CreateOrGet, FreshState
<1> HIDE DEF t
<1>3. DOMAIN t.steps = {}
  BY <1>2
<1>4. ReasonerSteps(t) = {} /\ ProbeSteps(t) = {}
  BY <1>3 DEF ReasonerSteps, ProbeSteps
<1>5. Cardinality({}) = 0
  BY FS_EmptySet
<1>6. Budgets(t)
  BY <1>2, <1>4, <1>5, LimitsAssumption DEF Budgets, Counts, Resumable
<1>7. History(t)
  BY <1>2, <1>3, <1>6 DEF History, Alternates, CollectsAnew, GoesOn, Binds
<1>8. (History(session))'
  BY <1>7 DEF t
<1> QED
  BY <1>1, <1>8 DEF HInv

LEMMA NextHistory ==
    ASSUME IInv, HInv, [Next]_investigationVars
    PROVE  HInv'
<1>1. IInv'
  BY NextInvariant
<1>2. CASE CreateOrGet
  BY <1>2, CreateHistory
<1>3. ASSUME NEW w \in Workers, NEW c \in Claimants,
             NEW e \in Observable \cup {None}, Run(w, c, e)
      PROVE  HInv'
  BY <1>3, RunHistory
<1>4. ASSUME NEW w \in Workers, Work(w)
      PROVE  HInv'
  BY <1>1, <1>4, LoopHistory, ReadStepHistory, ReadClaimHistory, SwapHistory, CallHistory,
     CompleteHistory DEF Work
<1>5. ASSUME NEW w \in Workers, Interrupt(w)
      PROVE  HInv'
  BY <1>5, LeaveHistory DEF Interrupt
<1>6. CASE UNCHANGED investigationVars
  <2>1. session' = session /\ runs' = runs
    BY <1>6 DEF investigationVars
  <2>2. (session # None => History(session))' /\
        (\A v \in Workers : runs[v] # None => RunFits(session, runs[v]))'
    BY <2>1 DEF HInv
  <2> QED
    BY <2>2 DEF HInv
<1> QED
  BY <1>2, <1>3, <1>4, <1>5, <1>6 DEF Next

LEMMA HistoryHolds == Spec => [](IInv /\ HInv)
<1>1. Init => IInv /\ HInv
  BY InitInvariant, InitHistory
<1>2. IInv /\ HInv /\ [Next]_investigationVars => IInv' /\ HInv'
  BY NextInvariant, NextHistory
<1> QED
  BY <1>1, <1>2, PTL DEF Spec

------------------------------------------------------------------------------
\* Steps alternate, a probe step collects what was just asked for and nothing twice, and
\* both budgets count every step that was granted a call (_assert_reasoner_sequence,
\* _required_probe, _find_claim_replay).
THEOREM StepsStayWithinLimits == Spec => []StepsWithinLimits
<1>1. IInv /\ HInv => StepsWithinLimits
  BY DEF HInv, History, Alternates, CollectsAnew, Budgets, ReasonerSteps, ProbeSteps,
         StepsWithinLimits
<1> QED
  BY <1>1, HistoryHolds, PTL

\* The digest of a claim is that of the state its call is made for, whatever became of
\* the row since the driver computed it (claim_step, _find_claim_replay).
THEOREM ClaimsBindTheirState == Spec => []ClaimBindsState
<1>1. IInv /\ HInv => ClaimBindsState
  BY DEF HInv, History, Binds, ClaimBindsState
<1> QED
  BY <1>1, HistoryHolds, PTL

\* A paused session can go on: _apply_decision pauses it only where the next step is
\* admitted.
THEOREM NothingPausedIsStuck == Spec => []PausedIsResumable
<1>1. IInv /\ HInv => PausedIsResumable
  <2> SUFFICES ASSUME IInv, HInv, session # None, session.status = "paused"
               PROVE  ReasonerAdmitted(session) \/ ProbeAdmitted(session)
    BY DEF PausedIsResumable
  <2>1. /\ session.steps # <<>>
        /\ Latest(session).status = "succeeded"
        /\ session \in Rows
    BY DEF IInv, TypeOK, ShapeHolds, LatestAndState
  <2>2. Latest(session).kind \in Kinds
    <3>1. session.steps \in Seq(Steps) /\ Len(session.steps) \in 1..Len(session.steps)
      BY <2>1, EmptySeq, LenProperties DEF Rows
    <3>2. session.steps[Len(session.steps)] \in Steps
      BY <3>1, ElementOfSeq
    <3> QED
      BY <3>2 DEF Latest, Steps
  <2>3. session.state.iterations < MaxIterations
    BY DEF HInv, History, Budgets
  <2>4. CASE Latest(session).kind = "reasoner"
    BY <2>4 DEF HInv, History, GoesOn
  <2>5. CASE Latest(session).kind = "probe"
    BY <2>1, <2>3, <2>5 DEF ReasonerAdmitted, Resumable, LatestIs
  <2> QED
    BY <2>2, <2>4, <2>5 DEF Kinds
<1> QED
  BY <1>1, HistoryHolds, PTL

\* A run that names a version claims a step of that version or none, although the
\* version is compared before the claim and not with it (_assert_expected_version).
THEOREM ExpectedVersionsBind == Spec => ExpectedVersionBinds
<1>1. ASSUME IInv, HInv, [Next]_investigationVars, NEW w \in Workers,
             At(w, "swap"), runs[w].expected # None, runs[w].calls = 0, session' # session
      PROVE  At(w, "swap")' \/ session.version = runs[w].expected
  <2>1. CASE \E v \in Workers : v # w /\ (Work(v) \/ Interrupt(v))
    <3>1. PICK v \in Workers : v # w /\ (Work(v) \/ Interrupt(v))
      BY <2>1
    <3>2. \E r : runs' = [runs EXCEPT ![v] = r]
      BY <3>1 DEF Work, Loop, ReadStep, ReadClaim, SwapClaim, Call, Complete, Interrupt, Goto, Leave
    <3>3. runs'[w] = runs[w]
      BY <3>1, <3>2 DEF IInv, TypeOK
    <3> QED
      BY <1>1, <3>3 DEF At
  <2>2. CASE Work(w)
    <3>1. SwapClaim(w) /\ Swappable(runs[w].version)
      BY <1>1, <2>2 DEF Work, Loop, ReadStep, ReadClaim, SwapClaim, Call, Complete, At
    <3>2. RunFits(session, runs[w]) /\ runs[w].version = session.version
      BY <1>1, <3>1 DEF HInv, At, Swappable
    <3> QED
      BY <1>1, <3>2 DEF RunFits, OnTime, At
  <2>3. CASE \E v \in Workers, c \in Claimants, e \in Observable \cup {None} : Run(v, c, e)
    BY <1>1, <2>3 DEF Run
  <2>4. CASE Interrupt(w)
    BY <1>1, <2>4 DEF Interrupt
  <2>5. CASE CreateOrGet
    BY <1>1, <2>5 DEF CreateOrGet, IInv, RunsCarry, At
  <2>6. CASE UNCHANGED investigationVars
    BY <1>1, <2>6 DEF investigationVars
  <2> QED
    BY <1>1, <2>1, <2>2, <2>3, <2>4, <2>5, <2>6 DEF Next
<1>2. IInv /\ HInv /\ [Next]_investigationVars =>
        [\A w \in Workers :
           At(w, "swap") /\ runs[w].expected # None /\ runs[w].calls = 0 /\ session' # session =>
             At(w, "swap")' \/ session.version = runs[w].expected]_investigationVars
  BY <1>1
<1> QED
  BY <1>2, HistoryHolds, PTL DEF Spec, ExpectedVersionBinds

==============================================================================
