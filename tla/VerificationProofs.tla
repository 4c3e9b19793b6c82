--------------------------- MODULE VerificationProofs ---------------------------
(***************************************************************************)
(* Proofs about Verification, for any number of workers, executions,       *)
(* triggers and probes, whichever of them are required.                    *)
(***************************************************************************)
EXTENDS Verification, TLAPS

(* The inductive invariant.  A verification that is not terminal has one    *)
(* run at most that may write it, the run that created it (OneOwner); what  *)
(* that run has done so far shows in the table (RunsFit), so probes run     *)
(* once and a stored verdict is the one its stored checks decide            *)
(* (TableFits).                                                             *)

Owned == {"start", "mark", "collect", "complete"}

Owns(w, x) == runs[w] # None /\ runs[w].stage \in Owned /\ runs[w].execution = x

OneOwner ==
    \A v, w \in Workers, x \in Executions : Owns(v, x) /\ Owns(w, x) => v = w

RunFits(r) ==
    LET x == r.execution IN
    /\ r.stage \in {"start", "mark"} =>
         verifications[x] # None /\ verifications[x].status = "pending" /\ probed[x] = 0
    /\ r.stage = "collect" =>
         verifications[x] # None /\ verifications[x].status = "running" /\ probed[x] = 0
    /\ r.stage = "complete" =>
         /\ verifications[x] # None /\ verifications[x].status = "running" /\ probed[x] = 1
         /\ r.checks \in Evidence
    /\ r.stage \in {"sync", "write"} => Terminal(x)

RunsFit == \A w \in Workers : runs[w] # None => RunFits(runs[w])

FitsAt(x) ==
    /\ probed[x] <= 1
    /\ verifications[x] = None => probed[x] = 0
    /\ Terminal(x) =>
         /\ probed[x] = 1
         /\ verifications[x].checks \in Evidence
         /\ verifications[x].status = Decide(verifications[x].checks)

TableFits == \A x \in Executions : FitsAt(x)

IInv ==
    /\ TypeOK
    /\ OneOwner
    /\ RunsFit
    /\ TableFits
    /\ ResolvedHasEvidence

------------------------------------------------------------------------------
(* The verdict. *)

\* Nothing passes without a required probe, nor with one that did not pass.
LEMMA PassedIsBacked ==
    ASSUME NEW checks \in Evidence
    PROVE  /\ Decide(checks) \in Verdicts
           /\ Backed(Decide(checks), checks)
           /\ Decide(checks) = "passed" =>
                Required # {} /\ \A p \in Required : checks[p] = "passed"
BY DEF Decide, Verdicts, Backed

LEMMA TransitionType ==
    ASSUME NEW status \in Verdicts
    PROVE  /\ IncidentTransition(status) \in IncidentStatuses
           /\ IncidentTransition(status) = "resolved" => status = "passed"
BY DEF IncidentTransition, IncidentStatuses, Verdicts

LEMMA InitInvariant == Init => IInv
<1> SUFFICES ASSUME Init PROVE IInv
  OBVIOUS
<1>1. TypeOK
  BY DEF Init, VerificationInit, TypeOK, IncidentStatuses
<1>2. OneOwner /\ RunsFit /\ ResolvedHasEvidence
  BY DEF Init, VerificationInit, OneOwner, Owns, RunsFit, ResolvedHasEvidence
<1>3. TableFits
  <2> SUFFICES ASSUME NEW x \in Executions PROVE FitsAt(x)
    BY DEF TableFits
  <2>1. verifications[x] = None /\ probed[x] = 0
    BY DEF Init, VerificationInit
  <2> QED
    BY <2>1 DEF FitsAt, Terminal
<1> QED
  BY <1>1, <1>2, <1>3 DEF IInv

------------------------------------------------------------------------------
(* The shapes of a step. *)

\* A step of one run that writes nothing.
LEMMA RunOnly ==
    ASSUME IInv, NEW w \in Workers, NEW r \in Runs \cup {None},
           runs' = [runs EXCEPT ![w] = r],
           UNCHANGED <<incident, verifications, probed>>,
           r # None => RunFits(r) /\ (r.stage \in Owned => Owns(w, r.execution))
    PROVE  IInv'
<1>1. TypeOK'
  BY DEF IInv, TypeOK
<1>2. runs'[w] = r /\ \A v \in Workers : v # w => runs'[v] = runs[v]
  BY DEF IInv, TypeOK
<1>3. \A v \in Workers, x \in Executions : Owns(v, x)' => Owns(v, x)
  BY <1>2 DEF Owns
<1>4. OneOwner'
  BY <1>3 DEF IInv, OneOwner
<1>5. RunsFit'
  <2> SUFFICES ASSUME NEW v \in Workers, runs'[v] # None
               PROVE  RunFits(runs'[v])
    BY DEF RunsFit, RunFits, Terminal
  <2>1. CASE v = w
    BY <1>2, <2>1
  <2>2. CASE v # w
    BY <1>2, <2>2 DEF IInv, RunsFit
  <2> QED
    BY <2>1, <2>2
<1>6. TableFits' /\ ResolvedHasEvidence'
  BY DEF IInv, TableFits, FitsAt, Terminal, ResolvedHasEvidence
<1> QED
  BY <1>1, <1>4, <1>5, <1>6 DEF IInv

LEMMA LeaveInv ==
    ASSUME IInv, NEW w \in Workers, Leave(w), UNCHANGED <<incident, verifications, probed>>
    PROVE  IInv'
BY RunOnly DEF Leave

LEMMA GotoInv ==
    ASSUME IInv, NEW w \in Workers, runs[w] # None, NEW stage \in Stages, Goto(w, stage),
           UNCHANGED <<incident, verifications, probed>>,
           RunFits([runs[w] EXCEPT !.stage = stage]),
           stage \in Owned => runs[w].stage \in Owned
    PROVE  IInv'
<1> DEFINE r == [runs[w] EXCEPT !.stage = stage]
<1>1. runs[w] \in Runs
  BY DEF IInv, TypeOK
<1>2. r \in Runs /\ r.stage = stage /\ r.execution = runs[w].execution
  BY <1>1 DEF Runs
<1>3. runs' = [runs EXCEPT ![w] = r]
  BY DEF Goto
<1>4. r.stage \in Owned => Owns(w, r.execution)
  BY <1>2 DEF Owns
<1> HIDE DEF r
<1> QED
  BY <1>2, <1>3, <1>4, RunOnly DEF r

\* A write of one verification by its owner, or by the run that creates it: every other
\* run of the execution is still before its claim.
LEMMA OwnerWrites ==
    ASSUME IInv, NEW w \in Workers, NEW x \in Executions, NEW r \in Runs,
           NEW row \in Verifications, NEW n \in {0, 1},
           r.execution = x,
           runs[w] # None, runs[w].execution = x,
           verifications[x] = None \/ Owns(w, x),
           runs' = [runs EXCEPT ![w] = r],
           verifications' = [verifications EXCEPT ![x] = row],
           probed' = [probed EXCEPT ![x] = n],
           UNCHANGED incident,
           r.stage \in {"start", "mark"} => row.status = "pending" /\ n = 0,
           r.stage = "collect" => row.status = "running" /\ n = 0,
           r.stage = "complete" => row.status = "running" /\ n = 1 /\ r.checks \in Evidence,
           r.stage \in {"sync", "write"} => row.status \in Verdicts,
           row.status \in Verdicts =>
             n = 1 /\ row.checks \in Evidence /\ row.status = Decide(row.checks)
    PROVE  IInv'
<1>1. TypeOK'
  BY DEF IInv, TypeOK
<1>2. /\ runs'[w] = r /\ \A v \in Workers : v # w => runs'[v] = runs[v]
      /\ verifications'[x] = row /\ probed'[x] = n
      /\ \A y \in Executions : y # x =>
            verifications'[y] = verifications[y] /\ probed'[y] = probed[y]
  BY DEF IInv, TypeOK
<1>3. ~Terminal(x)
  <2>1. CASE verifications[x] = None
    BY <2>1 DEF Terminal
  <2>2. CASE Owns(w, x)
    <3>1. RunFits(runs[w]) /\ runs[w].stage \in Owned
      BY <2>2 DEF IInv, RunsFit, Owns
    <3> QED
      BY <3>1 DEF RunFits, Owned, Terminal, Verdicts
  <2> QED
    BY <2>1, <2>2
<1>4. \A v \in Workers : v # w /\ runs[v] # None /\ runs[v].execution = x =>
         runs[v].stage \in {"admit", "claim"}
  <2> SUFFICES ASSUME NEW v \in Workers, v # w, runs[v] # None, runs[v].execution = x
               PROVE  runs[v].stage \in {"admit", "claim"}
    OBVIOUS
  <2>1. runs[v].stage \in Stages /\ RunFits(runs[v])
    BY DEF IInv, TypeOK, Runs, RunsFit
  <2>2. runs[v].stage \notin {"sync", "write"}
    BY <1>3, <2>1 DEF RunFits
  <2>3. runs[v].stage \notin Owned
    <3>1. CASE verifications[x] = None
      BY <2>1, <3>1 DEF RunFits, Owned
    <3>2. CASE Owns(w, x)
      BY <3>2 DEF IInv, OneOwner, Owns
    <3> QED
      BY <3>1, <3>2
  <2> QED
    BY <2>1, <2>2, <2>3 DEF Stages, Owned
<1>5. OneOwner'
  <2> SUFFICES ASSUME NEW u \in Workers, NEW v \in Workers, NEW y \in Executions,
                      Owns(u, y)', Owns(v, y)'
               PROVE  u = v
    BY DEF OneOwner
  <2>1. CASE y = x
    BY <1>2, <1>4, <2>1 DEF Owns, Owned
  <2>2. CASE y # x
    BY <1>2, <2>2 DEF Owns, IInv, OneOwner
  <2> QED
    BY <2>1, <2>2
<1>6. RunsFit'
  <2> SUFFICES ASSUME NEW v \in Workers, runs'[v] # None
               PROVE  RunFits(runs[v])' 
    BY DEF RunsFit
  <2>1. CASE v = w
    BY <1>2, <2>1, VerificationNone DEF RunFits, Terminal
  <2>2. CASE v # w
    <3>1. runs'[v] = runs[v] /\ runs[v] \in Runs /\ runs[v].execution \in Executions
      BY <1>2, <2>2 DEF IInv, TypeOK, Runs
    <3>2. CASE runs[v].execution = x
      BY <1>4, <2>2, <3>1, <3>2 DEF RunFits
    <3>3. CASE runs[v].execution # x
      <4>1. RunFits(runs[v])
        BY <3>1 DEF IInv, RunsFit
      <4> QED
        BY <1>2, <3>1, <3>3, <4>1 DEF RunFits, Terminal
    <3> QED
      BY <3>2, <3>3
  <2> QED
    BY <2>1, <2>2
<1>7. TableFits'
  <2> SUFFICES ASSUME NEW y \in Executions PROVE FitsAt(y)'
    BY DEF TableFits
  <2>1. CASE y = x
    BY <1>2, <2>1, VerificationNone DEF FitsAt, Terminal
  <2>2. CASE y # x
    BY <1>2, <2>2 DEF IInv, TableFits, FitsAt, Terminal
  <2> QED
    BY <2>1, <2>2
<1>8. ResolvedHasEvidence'
  BY <1>2, <1>3 DEF IInv, ResolvedHasEvidence, Terminal
<1> QED
  BY <1>1, <1>5, <1>6, <1>7, <1>8 DEF IInv

------------------------------------------------------------------------------
(* The actions. *)

LEMMA BeginRunInv ==
    ASSUME IInv, NEW w \in Workers, NEW x \in Executions, NEW t \in Triggers, BeginRun(w, x, t)
    PROVE  IInv'
<1>1. PICK stage \in {"admit", "claim"} :
        runs' = [runs EXCEPT ![w] =
          [execution |-> x, trigger |-> t, checks |-> None, stage |-> stage]]
  BY DEF BeginRun
<1> DEFINE r == [execution |-> x, trigger |-> t, checks |-> None, stage |-> stage]
<1>2. r \in Runs /\ r.stage = stage
  BY DEF Runs, Stages
<1>3. RunFits(r) /\ r.stage \notin Owned
  BY DEF RunFits, Owned
<1> HIDE DEF r
<1> QED
  BY <1>1, <1>2, <1>3, RunOnly DEF r, BeginRun

LEMMA AdmitInv ==
    ASSUME IInv, NEW w \in Workers, Admit(w)
    PROVE  IInv'
<1>1. runs[w] # None /\ runs[w] \in Runs /\ UNCHANGED <<incident, verifications, probed>>
  BY DEF Admit, At, IInv, TypeOK
<1>2. CASE Goto(w, "claim")
  <2>1. RunFits([runs[w] EXCEPT !.stage = "claim"])
    BY <1>1 DEF RunFits, Runs
  <2> QED
    BY <1>1, <1>2, <2>1, GotoInv DEF Owned, Stages
<1>3. CASE Leave(w)
  BY <1>1, <1>3, LeaveInv
<1> QED
  BY <1>2, <1>3 DEF Admit

LEMMA ClaimInv ==
    ASSUME IInv, NEW w \in Workers, Claim(w)
    PROVE  IInv'
<1> DEFINE x == runs[w].execution
           t == runs[w].trigger
<1>1. /\ runs[w] # None /\ runs[w] \in Runs /\ x \in Executions /\ t \in Triggers
      /\ UNCHANGED <<incident, probed>>
  BY DEF Claim, At, IInv, TypeOK, Runs
<1>2. CASE /\ Claimable(x)
           /\ verifications' = [verifications EXCEPT ![x] =
                [trigger |-> t, status |-> "pending", checks |-> None]]
           /\ Goto(w, "start")
  <2> DEFINE row == [trigger |-> t, status |-> "pending", checks |-> None]
             r == [runs[w] EXCEPT !.stage = "start"]
  <2>1. row \in Verifications /\ row # None /\ row.status = "pending"
    BY <1>1, VerificationNone DEF Verifications
  <2>2. r \in Runs /\ r.stage = "start" /\ r.execution = x
    BY <1>1 DEF Runs, Stages
  <2>3. verifications[x] = None /\ probed[x] = 0
    BY <1>1, <1>2 DEF Claimable, IInv, TableFits, FitsAt
  <2>4. probed' = [probed EXCEPT ![x] = 0]
    BY <1>1, <2>3 DEF IInv, TypeOK
  <2>5. verifications' = [verifications EXCEPT ![x] = row] /\ runs' = [runs EXCEPT ![w] = r]
    BY <1>2 DEF Goto
  <2> HIDE DEF row, r, x, t
  <2> QED
    BY <1>1, <2>1, <2>2, <2>3, <2>4, <2>5, OwnerWrites DEF Owned, Verdicts, x
<1>3. CASE UNCHANGED verifications /\ Reconciles(x, t) /\ Goto(w, "sync")
  <2>1. Terminal(x)
    BY <1>3 DEF Reconciles
  <2>2. RunFits([runs[w] EXCEPT !.stage = "sync"])
    BY <1>1, <2>1 DEF RunFits, Runs
  <2> QED
    BY <1>1, <1>3, <2>2, GotoInv DEF Owned, Stages
<1>4. CASE UNCHANGED verifications /\ Leave(w)
  BY <1>1, <1>4, LeaveInv
<1> QED
  BY <1>2, <1>3, <1>4 DEF Claim

LEMMA StartInv ==
    ASSUME IInv, NEW w \in Workers, Start(w)
    PROVE  IInv'
<1>1. /\ runs[w] # None /\ runs[w] \in Runs /\ runs[w].stage = "start" /\ RunFits(runs[w])
      /\ UNCHANGED <<incident, verifications, probed>>
  BY DEF Start, At, IInv, TypeOK, RunsFit
<1>2. CASE Goto(w, "mark")
  <2>1. RunFits([runs[w] EXCEPT !.stage = "mark"])
    BY <1>1 DEF RunFits, Runs
  <2> QED
    BY <1>1, <1>2, <2>1, GotoInv DEF Owned, Stages
<1>3. CASE Leave(w)
  BY <1>1, <1>3, LeaveInv
<1> QED
  BY <1>2, <1>3 DEF Start

LEMMA MarkInv ==
    ASSUME IInv, NEW w \in Workers, Mark(w)
    PROVE  IInv'
<1> DEFINE x == runs[w].execution
           row == [verifications[x] EXCEPT !.status = "running"]
           r == [runs[w] EXCEPT !.stage = "collect"]
<1>1. /\ runs[w] # None /\ runs[w] \in Runs /\ runs[w].stage = "mark" /\ RunFits(runs[w])
      /\ x \in Executions /\ UNCHANGED <<incident, probed>>
  BY DEF Mark, At, IInv, TypeOK, RunsFit, Runs
<1>2. /\ verifications[x] # None /\ verifications[x].status = "pending" /\ probed[x] = 0
      /\ verifications[x] \in Verifications
  BY <1>1 DEF RunFits, IInv, TypeOK
<1>3. verifications' = [verifications EXCEPT ![x] = row] /\ runs' = [runs EXCEPT ![w] = r]
  BY <1>2 DEF Mark, Goto
<1>4. row \in Verifications /\ row.status = "running"
  BY <1>2 DEF Verifications
<1>5. r \in Runs /\ r.stage = "collect" /\ r.execution = x /\ Owns(w, x)
  BY <1>1 DEF Runs, Stages, Owns, Owned
<1>6. probed' = [probed EXCEPT ![x] = 0]
  BY <1>1, <1>2 DEF IInv, TypeOK
<1> HIDE DEF row, r, x
<1> QED
  BY <1>1, <1>3, <1>4, <1>5, <1>6, OwnerWrites DEF Verdicts, x

LEMMA CollectInv ==
    ASSUME IInv, NEW w \in Workers, Collect(w)
    PROVE  IInv'
<1> DEFINE x == runs[w].execution
           row == verifications[x]
<1>1. /\ runs[w] # None /\ runs[w] \in Runs /\ runs[w].stage = "collect" /\ RunFits(runs[w])
      /\ x \in Executions /\ UNCHANGED <<incident, verifications>>
  BY DEF Collect, At, IInv, TypeOK, RunsFit, Runs
<1>2. row # None /\ row \in Verifications /\ row.status = "running" /\ probed[x] = 0
  BY <1>1 DEF RunFits, IInv, TypeOK
<1>3. PICK checks \in Evidence :
        runs' = [runs EXCEPT ![w].checks = checks, ![w].stage = "complete"]
  BY DEF Collect
<1> DEFINE r == [runs[w] EXCEPT !.checks = checks, !.stage = "complete"]
<1>4. /\ r \in Runs /\ r.stage = "complete" /\ r.execution = x /\ r.checks \in Evidence
      /\ Owns(w, x)
  BY <1>1 DEF Runs, Stages, Owns, Owned
<1>5. runs' = [runs EXCEPT ![w] = r]
  BY <1>3
<1>6. probed' = [probed EXCEPT ![x] = 1]
  BY <1>1, <1>2 DEF Collect, IInv, TypeOK
<1>7. verifications' = [verifications EXCEPT ![x] = row]
  BY <1>1 DEF IInv, TypeOK
<1> HIDE DEF row, r, x
<1> QED
  BY <1>1, <1>2, <1>4, <1>5, <1>6, <1>7, OwnerWrites DEF Verdicts, x

LEMMA CompleteInv ==
    ASSUME IInv, NEW w \in Workers, Complete(w)
    PROVE  IInv'
<1> DEFINE x == runs[w].execution
           checks == runs[w].checks
           verdict == Decide(checks)
           row == [verifications[x] EXCEPT !.status = verdict, !.checks = checks]
           r == [runs[w] EXCEPT !.stage = "sync"]
<1>1. /\ runs[w] # None /\ runs[w] \in Runs /\ runs[w].stage = "complete"
      /\ RunFits(runs[w]) /\ x \in Executions /\ UNCHANGED <<incident, probed>>
  BY DEF Complete, At, IInv, TypeOK, RunsFit, Runs
<1>2. /\ verifications[x] # None /\ verifications[x] \in Verifications
      /\ verifications[x].status = "running" /\ probed[x] = 1 /\ checks \in Evidence
  BY <1>1 DEF RunFits, IInv, TypeOK
<1>3. verdict \in Verdicts /\ Backed(verdict, checks)
  BY <1>2, PassedIsBacked
<1>4. verifications' = [verifications EXCEPT ![x] = row] /\ runs' = [runs EXCEPT ![w] = r]
  BY <1>2, <1>3 DEF Complete, Goto
<1> HIDE DEF verdict
<1>5. row \in Verifications /\ row.status = verdict /\ row.checks = checks
  BY <1>2, <1>3 DEF Verifications
<1>6. r \in Runs /\ r.stage = "sync" /\ r.execution = x /\ Owns(w, x)
  BY <1>1 DEF Runs, Stages, Owns, Owned
<1>7. probed' = [probed EXCEPT ![x] = 1]
  BY <1>1, <1>2 DEF IInv, TypeOK
<1>8. row.status = Decide(row.checks)
  BY <1>5 DEF verdict
<1> HIDE DEF row, r, x, checks
<1> QED
  BY <1>1, <1>2, <1>3, <1>4, <1>5, <1>6, <1>7, <1>8, OwnerWrites DEF x

LEMMA SynchronizeInv ==
    ASSUME IInv, NEW w \in Workers, Synchronize(w)
    PROVE  IInv'
<1>1. /\ runs[w] # None /\ runs[w] \in Runs /\ runs[w].stage = "sync" /\ RunFits(runs[w])
      /\ UNCHANGED <<incident, verifications, probed>>
  BY DEF Synchronize, At, IInv, TypeOK, RunsFit
<1>2. CASE Goto(w, "write")
  <2>1. RunFits([runs[w] EXCEPT !.stage = "write"])
    BY <1>1 DEF RunFits, Runs
  <2> QED
    BY <1>1, <1>2, <2>1, GotoInv DEF Owned, Stages
<1>3. CASE Leave(w)
  BY <1>1, <1>3, LeaveInv
<1> QED
  BY <1>2, <1>3 DEF Synchronize

\* A move of the incident alone, with or without the end of a run.
LEMMA IncidentMoves ==
    ASSUME IInv, incident' \in IncidentStatuses,
           UNCHANGED <<verifications, probed>>,
           runs' = runs \/ \E w \in Workers : Leave(w),
           incident' = "resolved" =>
             incident = "resolved" \/ \E x \in Executions :
               Terminal(x) /\ verifications[x].status = "passed"
    PROVE  IInv'
<1>1. runs' \in [Workers -> Runs \cup {None}] /\ \A v \in Workers : runs'[v] # None => runs'[v] = runs[v]
  BY DEF IInv, TypeOK, Leave
<1>2. TypeOK'
  BY <1>1 DEF IInv, TypeOK
<1>3. OneOwner'
  BY <1>1 DEF IInv, OneOwner, Owns
<1>4. RunsFit' /\ TableFits'
  BY <1>1 DEF IInv, RunsFit, RunFits, TableFits, FitsAt, Terminal
<1>5. ASSUME NEW x \in Executions, Terminal(x), verifications[x].status = "passed"
      PROVE  Required # {} /\ \A p \in Required : verifications[x].checks[p] = "passed"
  BY <1>5, PassedIsBacked DEF IInv, TableFits, FitsAt
<1>6. ResolvedHasEvidence'
  BY <1>5 DEF IInv, ResolvedHasEvidence, Terminal
<1> QED
  BY <1>2, <1>3, <1>4, <1>6 DEF IInv

LEMMA WriteIncidentInv ==
    ASSUME IInv, NEW w \in Workers, WriteIncident(w)
    PROVE  IInv'
<1> DEFINE x == runs[w].execution
<1>1. /\ x \in Executions /\ Terminal(x) /\ verifications[x].status \in Verdicts
      /\ Leave(w) /\ UNCHANGED <<verifications, probed>>
      /\ incident' \in {incident, IncidentTransition(verifications[x].status)}
  BY DEF WriteIncident, At, IInv, TypeOK, Runs, RunsFit, RunFits, Terminal
<1>2. /\ IncidentTransition(verifications[x].status) \in IncidentStatuses
      /\ IncidentTransition(verifications[x].status) = "resolved" =>
           verifications[x].status = "passed"
  BY <1>1, TransitionType
<1>3. incident \in IncidentStatuses
  BY DEF IInv, TypeOK
<1> QED
  BY <1>1, <1>2, <1>3, IncidentMoves

LEMMA StepInvariant ==
    ASSUME IInv, [Next]_verificationVars
    PROVE  IInv'
<1>1. ASSUME NEW w \in Workers, NEW x \in Executions, NEW t \in Triggers, BeginRun(w, x, t)
      PROVE  IInv'
  BY <1>1, BeginRunInv
<1>2. ASSUME NEW w \in Workers, RunStep(w)
      PROVE  IInv'
  BY <1>2, AdmitInv, ClaimInv, StartInv, MarkInv, CollectInv, CompleteInv, SynchronizeInv,
     WriteIncidentInv DEF RunStep
<1>3. ASSUME NEW w \in Workers, CrashRun(w)
      PROVE  IInv'
  BY <1>3, LeaveInv DEF CrashRun
<1>4. ASSUME NEW status \in {"confirmed", "healing", "failed"}, OtherAttempt(status)
      PROVE  IInv'
  BY <1>4, IncidentMoves DEF OtherAttempt, IncidentStatuses
<1>5. CASE UNCHANGED verificationVars
  BY <1>5, IncidentMoves DEF verificationVars, IInv, TypeOK
<1> QED
  BY <1>1, <1>2, <1>3, <1>4, <1>5 DEF Next

LEMMA InvariantHolds == Spec => []IInv
BY InitInvariant, StepInvariant, PTL DEF Spec

------------------------------------------------------------------------------
\* The incident, every verification and every run is well typed.
THEOREM VerificationsAreTyped == Spec => []TypeOK
<1>1. IInv => TypeOK
  BY DEF IInv
<1> QED
  BY <1>1, InvariantHolds, PTL

\* Probes run at most once for an execution, and before its verdict.
THEOREM ProbesRunOnce == Spec => []EvidenceCollectedOnce
<1>1. IInv => EvidenceCollectedOnce
  BY DEF IInv, TableFits, FitsAt, EvidenceCollectedOnce
<1> QED
  BY <1>1, InvariantHolds, PTL

\* An incident is RESOLVED only on a persisted PASSED verification whose required
\* probes all passed.
THEOREM NothingResolvesUnverified == Spec => []ResolvedHasEvidence
<1>1. IInv => ResolvedHasEvidence
  BY DEF IInv
<1> QED
  BY <1>1, InvariantHolds, PTL

LEMMA TerminalIsKept ==
    ASSUME IInv, [Next]_verificationVars, NEW x \in Executions, Terminal(x)
    PROVE  verifications'[x] = verifications[x]
<1>1. ASSUME NEW w \in Workers, Claim(w)
      PROVE  verifications'[x] = verifications[x]
  BY <1>1 DEF Claim, Claimable, Terminal, IInv, TypeOK
<1>2. ASSUME NEW w \in Workers, Mark(w)
      PROVE  verifications'[x] = verifications[x]
  BY <1>2 DEF Mark, Terminal, Verdicts, IInv, TypeOK
<1>3. ASSUME NEW w \in Workers, Complete(w)
      PROVE  verifications'[x] = verifications[x]
  BY <1>3 DEF Complete, Terminal, Verdicts, IInv, TypeOK
<1>4. ASSUME NEW w \in Workers,
             \/ Admit(w) \/ Start(w) \/ Collect(w) \/ Synchronize(w) \/ WriteIncident(w)
             \/ CrashRun(w)
             \/ \E y \in Executions, t \in Triggers : BeginRun(w, y, t)
      PROVE  verifications' = verifications
  BY <1>4 DEF Admit, Start, Collect, Synchronize, WriteIncident, CrashRun, BeginRun
<1>5. ASSUME NEW status, OtherAttempt(status)
      PROVE  verifications' = verifications
  BY <1>5 DEF OtherAttempt
<1>6. CASE UNCHANGED verificationVars
  BY <1>6 DEF verificationVars
<1> QED
  BY <1>1, <1>2, <1>3, <1>4, <1>5, <1>6 DEF Next, RunStep

\* A verdict never changes once persisted.
THEOREM VerdictsStayFinal == Spec => VerdictsAreFinal
<1>1. IInv /\ [Next]_verificationVars =>
        [\A x \in Executions :
           Terminal(x) => verifications'[x] = verifications[x]]_verificationVars
  BY TerminalIsKept
<1> QED
  BY <1>1, InvariantHolds, PTL DEF Spec, VerdictsAreFinal

LEMMA OnlyWritesMove ==
    ASSUME Next, NEW w \in Workers, At(w, "write"), runs'[w] = None, incident' # incident
    PROVE  incident = "healing"
<1>1. runs' # runs
  BY DEF At
<1>2. ASSUME NEW v \in Workers, WriteIncident(v)
      PROVE  incident = "healing"
  BY <1>2 DEF WriteIncident, WritesOnlyHealing
<1>3. ASSUME NEW v \in Workers,
             \/ Admit(v) \/ Claim(v) \/ Start(v) \/ Mark(v) \/ Collect(v) \/ Complete(v)
             \/ Synchronize(v) \/ CrashRun(v)
             \/ \E y \in Executions, t \in Triggers : BeginRun(v, y, t)
      PROVE  FALSE
  BY <1>3 DEF Admit, Claim, Start, Mark, Collect, Complete, Synchronize, CrashRun, BeginRun
<1>4. ASSUME NEW status, OtherAttempt(status)
      PROVE  FALSE
  BY <1>1, <1>4 DEF OtherAttempt
<1> QED
  BY <1>2, <1>3, <1>4 DEF Next, RunStep

\* A verdict, however late, moves only an incident that is HEALING at that moment.
THEOREM LateVerdictsMoveNothing == Spec => VerdictsMoveOnlyHealing
<1>1. [Next]_verificationVars =>
        [\A w \in Workers :
           At(w, "write") /\ runs'[w] = None /\ incident' # incident
             => incident = "healing"]_verificationVars
  BY OnlyWritesMove
<1> QED
  BY <1>1, PTL DEF Spec, VerdictsMoveOnlyHealing

=============================================================================
