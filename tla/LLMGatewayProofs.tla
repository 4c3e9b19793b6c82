--------------------------- MODULE LLMGatewayProofs ---------------------------
(***************************************************************************)
(* Proofs about LLMGateway, for any clients, callers and limits.           *)
(*                                                                         *)
(* The circuit: the breaker counts the failures since a success, and is    *)
(* closed exactly while they are too few; when it is not, its timer was    *)
(* set by the last failure of all, also by one that came while it was open *)
(* or probing.  So it is half open only after a quiet recovery timeout.    *)
(* The window: the list of the limiter starts with the oldest, and without *)
(* what has expired it is the history, whenever the limiter last looked.   *)
(***************************************************************************)
EXTENDS LLMGateway, FiniteSetTheorems, SequenceTheorems, WellFoundedInduction, TLAPS

\* Failures of calls that outlive an opening reset the timer: the two agree.
CircuitInv ==
    /\ circuit \in Circuits
    /\ streak \in 0..Threshold
    /\ quiet \in 0..Recovery
    /\ DOMAIN calls = Callers
    /\ circuit.failures = streak
    /\ (circuit.state = "closed") <=> (streak < Threshold)
    /\ circuit.state # "closed" => circuit.openedFor = quiet
    /\ circuit.state = "half_open" => quiet = Recovery

LEMMA InitCircuit == Init => CircuitInv
BY LimitsAssumption DEF Init, CircuitInv, Circuits, Closed

\* Admission changes an open circuit whose timer has run out, and nothing else.
LEMMA AllowedCircuit ==
    ASSUME CircuitInv, Admits(circuit), circuit' = Allowed(circuit),
           UNCHANGED <<streak, quiet>>, DOMAIN calls' = Callers
    PROVE  CircuitInv' /\ (streak < Threshold \/ quiet = Recovery)
<1>1. CASE circuit.state = "open"
  <2>1. circuit.openedFor = Recovery
    BY <1>1, LimitsAssumption, NoneAssumption DEF Admits, CircuitInv, Circuits
  <2>2. circuit' = [state |-> "half_open", failures |-> circuit.failures,
                    openedFor |-> circuit.openedFor]
    BY <1>1 DEF Allowed, CircuitInv, Circuits
  <2> QED
    BY <1>1, <2>1, <2>2 DEF CircuitInv, Circuits
<1>2. CASE circuit.state # "open"
  BY <1>2 DEF Allowed, CircuitInv, Circuits
<1> QED
  BY <1>1, <1>2

LEMMA ChatCircuit ==
    ASSUME CircuitInv, NEW w \in Callers, Chat(w)
    PROVE  /\ CircuitInv'
           /\ calls[w] = None /\ calls'[w] # None => streak < Threshold \/ quiet = Recovery
           /\ \A v \in Callers : v # w => calls'[v] = calls[v]
<1>1. CASE Limited(w)
  BY <1>1 DEF Limited, CircuitInv
<1>2. CASE Broken(w)
  BY <1>2 DEF Broken, Passes, CircuitInv
<1>3. CASE NotFound(w)
  BY <1>3, AllowedCircuit DEF NotFound, Passes, CircuitInv
<1>4. ASSUME NEW p \in Providers, NEW fallback \in BOOLEAN, Start(w, p, fallback)
      PROVE  /\ CircuitInv'
             /\ streak < Threshold \/ quiet = Recovery
             /\ \A v \in Callers : v # w => calls'[v] = calls[v]
  <2>1. DOMAIN calls' = Callers
    BY <1>4 DEF Start, CircuitInv
  <2> QED
    BY <1>4, <2>1, AllowedCircuit DEF Start, Passes, CircuitInv
<1> QED
  BY <1>1, <1>2, <1>3, <1>4 DEF Chat

LEMMA FailedCircuit ==
    ASSUME CircuitInv, circuit' = Failed(circuit), DOMAIN calls' = Callers,
           streak' = Minimum(streak + 1, Threshold), quiet' = 0
    PROVE  CircuitInv'
<1>1. PICK n \in 0..Threshold : n = Minimum(circuit.failures + 1, Threshold)
  BY LimitsAssumption DEF Minimum, CircuitInv, Circuits
<1>2. streak' = n /\ streak' \in 0..Threshold
  BY <1>1 DEF CircuitInv
<1>3. CASE n >= Threshold
  <2>1. circuit' = [state |-> "open", failures |-> n, openedFor |-> 0]
    BY <1>1, <1>3 DEF Failed
  <2> QED
    BY <1>2, <1>3, <2>1, LimitsAssumption DEF CircuitInv, Circuits
<1>4. CASE n < Threshold
  <2>1. circuit' = [circuit EXCEPT !.failures = n]
    BY <1>1, <1>4, LimitsAssumption DEF Failed
  <2>2. circuit.state = "closed"
    BY <1>1, <1>4, LimitsAssumption DEF Minimum, CircuitInv, Circuits
  <2> QED
    BY <1>2, <1>4, <2>1, <2>2, LimitsAssumption DEF CircuitInv, Circuits
<1> QED
  BY <1>3, <1>4, LimitsAssumption

LEMMA AttemptCircuit ==
    ASSUME CircuitInv, NEW w \in Callers, Attempt(w)
    PROVE  /\ CircuitInv'
           /\ calls[w] # None
           /\ \A v \in Callers : v # w => calls'[v] = calls[v]
<1>1. CASE Answered(w)
  BY <1>1, LimitsAssumption DEF Answered, CircuitInv, Circuits, Closed
<1>2. CASE Retried(w) \/ Rejected(w) \/ FallbackUnavailable(w)
  BY <1>2 DEF Retried, Rejected, FallbackUnavailable, CircuitInv
<1>3. CASE Unavailable(w)
  <2>1. DOMAIN calls' = Callers /\ \A v \in Callers : v # w => calls'[v] = calls[v]
    BY <1>3 DEF Unavailable, CircuitInv
  <2> QED
    BY <1>3, <2>1, FailedCircuit DEF Unavailable
<1> QED
  BY <1>1, <1>2, <1>3 DEF Attempt

LEMMA TickCircuit == ASSUME CircuitInv, Tick PROVE CircuitInv'
<1>1. CASE circuit.openedFor = None
  <2>1. circuit' = circuit
    BY <1>1 DEF Tick, CircuitInv, Circuits
  <2>2. circuit.state = "closed"
    BY <1>1, NoneAssumption DEF CircuitInv
  <2> QED
    BY <2>1, <2>2, LimitsAssumption DEF Tick, Older, CircuitInv
<1>2. CASE circuit.openedFor # None
  <2>1. circuit.openedFor \in 0..Recovery
    BY <1>2 DEF CircuitInv, Circuits
  <2>2. PICK n \in 0..Recovery : n = Older(circuit.openedFor, Recovery)
    BY <2>1, LimitsAssumption DEF Older
  <2>3. circuit' = [circuit EXCEPT !.openedFor = n]
    BY <1>2, <2>2 DEF Tick
  <2>4. circuit' \in Circuits /\ circuit'.openedFor = n
        /\ circuit'.state = circuit.state /\ circuit'.failures = circuit.failures
    BY <2>3 DEF CircuitInv, Circuits
  <2>5. quiet' = Older(quiet, Recovery) /\ quiet' \in 0..Recovery
    BY LimitsAssumption DEF Tick, Older, CircuitInv
  <2>6. circuit.state = "half_open" => quiet' = Recovery
    BY <2>5, LimitsAssumption DEF Older, CircuitInv
  <2> QED
    BY <2>2, <2>4, <2>5, <2>6 DEF Tick, CircuitInv
<1> QED
  BY <1>1, <1>2

LEMMA NextCircuit == CircuitInv /\ [Next]_vars => CircuitInv'
<1> SUFFICES ASSUME CircuitInv, [Next]_vars PROVE CircuitInv'
  OBVIOUS
<1>1. CASE UNCHANGED vars
  BY <1>1 DEF vars, CircuitInv
<1>2. CASE TroubleChanges
  BY <1>2 DEF TroubleChanges, CircuitInv
<1> QED
  BY <1>1, <1>2, ChatCircuit, AttemptCircuit, TickCircuit DEF Next

\* The circuit counts the failures since the last success, and its timer starts at the
\* last of them (CircuitBreaker.record_success, record_failure, allow_request).
THEOREM CircuitCounts == Spec => []CircuitInv
<1> QED
  BY InitCircuit, NextCircuit, PTL DEF Spec

\* The circuit is closed exactly while too few calls in a row have failed, whatever
\* calls were under way when it opened (CircuitBreaker.record_success, record_failure).
THEOREM ClosedExactly == Spec => []ClosedWhileWorking
<1>1. CircuitInv => ClosedWhileWorking
  BY DEF CircuitInv, ClosedWhileWorking
<1> QED
  BY <1>1, CircuitCounts, PTL

\* A call starts only while too few failed, or after a recovery timeout without any
\* failure (CircuitBreaker.allow_request).
THEOREM RecoveryIsQuiet == Spec => FailuresAreWaitedOut
<1> DEFINE Waits == \A w \in Callers :
              (calls[w] = None /\ calls'[w] # None) => streak < Threshold \/ quiet = Recovery
<1>1. CircuitInv /\ [Next]_vars => [Waits]_vars
  <2> SUFFICES ASSUME CircuitInv, Next, NEW w \in Callers, calls[w] = None, calls'[w] # None
               PROVE  streak < Threshold \/ quiet = Recovery
    OBVIOUS
  <2>1. CASE \E v \in Callers : Chat(v)
    BY <2>1, ChatCircuit
  <2>2. CASE \E v \in Callers : Attempt(v)
    BY <2>2, AttemptCircuit
  <2>3. CASE Tick \/ TroubleChanges
    BY <2>3 DEF Tick, TroubleChanges
  <2> QED
    BY <2>1, <2>2, <2>3 DEF Next
<1> QED
  BY <1>1, CircuitCounts, PTL DEF Spec, FailuresAreWaitedOut

------------------------------------------------------------------------------
(* The window.  A list of ages starts with the oldest, so what is dropped   *)
(* is a prefix; the list of the limiter keeps what has expired until it     *)
(* looks again, and without it is the history.                              *)

OldestFirst(ages) == \A i, j \in DOMAIN ages : i < j => ages[j] <= ages[i]

\* The first k are too old, and no other.
Expired(ages, most, k) ==
    /\ k \in 0..Len(ages)
    /\ \A i \in DOMAIN ages : ages[i] >= most <=> i <= k

LimiterInv ==
    /\ requests \in Seq(0..Window)
    /\ OldestFirst(requests)
    /\ passed = Unexpired(requests)
    /\ Len(requests) <= Limit

\* Of the oldest first, those that are too old are the first ones.
LEMMA ExpiredPrefix ==
    ASSUME NEW ages \in Seq(Nat), OldestFirst(ages), NEW most \in Nat
    PROVE  \E k \in 0..Len(ages) : Expired(ages, most, k)
<1> DEFINE n == Len(ages)
           older == {i \in DOMAIN ages : ages[i] >= most}
           k == Cardinality(older)
<1>1. n \in Nat /\ DOMAIN ages = 1..n /\ \A i \in 1..n : ages[i] \in Nat
  BY LenProperties, ElementOfSeq
<1>2. IsFiniteSet(1..n) /\ Cardinality(1..n) = n /\ older \in SUBSET (1..n)
  BY <1>1, FS_Interval
<1>3. IsFiniteSet(older) /\ k <= n /\ k \in Nat
  BY <1>2, FS_Subset, FS_CardinalityType
<1>4. ASSUME NEW m \in older PROVE m <= k
  <2>1. 1..m \subseteq older /\ m \in 1..n
    BY <1>1, <1>2 DEF OldestFirst
  <2>2. Cardinality(1..m) = m
    BY <1>1, <2>1, FS_Interval
  <2> HIDE DEF older
  <2>3. Cardinality(1..m) <= Cardinality(older)
    BY <1>3, <2>1, FS_Subset
  <2> QED
    BY <2>2, <2>3
<1>5. older \subseteq 1..k
  BY <1>1, <1>2, <1>3, <1>4
<1>6. IsFiniteSet(1..k) /\ Cardinality(1..k) = k
  BY <1>3, FS_Interval
<1> HIDE DEF older
<1>7. older = 1..k
  BY <1>5, <1>6, FS_Subset
<1> HIDE DEF k
<1>8. k \in 0..n
  BY <1>1, <1>3
<1>9. Expired(ages, most, k)
  BY <1>1, <1>7, <1>8 DEF Expired, older
<1> QED
  BY <1>8, <1>9

\* What is left.
LEMMA YoungerIs ==
    ASSUME NEW ages \in Seq(Nat), NEW most \in Nat, NEW k \in 0..Len(ages),
           Expired(ages, most, k)
    PROVE  /\ Younger(ages, most) = SubSeq(ages, k + 1, Len(ages))
           /\ Younger(ages, most) \in Seq(Nat)
           /\ Len(Younger(ages, most)) = Len(ages) - k
           /\ \A i \in 1..(Len(ages) - k) : Younger(ages, most)[i] = ages[i + k]
<1> DEFINE n == Len(ages)
           older == {i \in DOMAIN ages : ages[i] >= most}
<1>1. n \in Nat /\ DOMAIN ages = 1..n /\ \A i \in 1..n : ages[i] \in Nat
  BY LenProperties, ElementOfSeq
<1>2. older = 1..k
  BY <1>1 DEF Expired
<1>3. Cardinality(1..k) = k
  BY <1>1, FS_Interval
<1>4. Younger(ages, most) = SubSeq(ages, k + 1, n)
  BY <1>2, <1>3 DEF Younger
<1> DEFINE s == SubSeq(ages, k + 1, n)
<1>5. s \in Seq(Nat) /\ Len(s) = n - k /\ \A i \in 1..(n - k) : s[i] = ages[i + k]
  <2>1. \A i \in (k + 1)..n : ages[i] \in Nat
    BY <1>1
  <2>2. /\ s \in Seq(Nat)
        /\ Len(s) = IF k + 1 <= n THEN n - (k + 1) + 1 ELSE 0
        /\ \A i \in 1..(n - (k + 1) + 1) : s[i] = ages[(k + 1) + i - 1]
    BY <1>1, <2>1, SubSeqProperties
  <2>3. n \in Nat /\ k \in 0..n
    BY <1>1
  <2> HIDE DEF s, n
  <2>4. n - (k + 1) + 1 = n - k /\ (k + 1 > n => n - k = 0)
    BY <2>3
  <2>5. Len(s) = n - k
    BY <2>2, <2>3, <2>4
  <2>6. ASSUME NEW i \in 1..(n - k) PROVE s[i] = ages[i + k]
    <3>1. (k + 1) + i - 1 = i + k
      BY <2>3
    <3> QED
      BY <2>2, <2>4, <3>1
  <2> QED
    BY <2>2, <2>5, <2>6
<1> HIDE DEF s
<1> QED
  BY <1>4, <1>5 DEF s

\* A list without any that is too old is left as it is.
LEMMA AllYoung ==
    ASSUME NEW ages \in Seq(Nat), NEW most \in Nat,
           \A i \in 1..Len(ages) : ages[i] < most
    PROVE  Younger(ages, most) = ages
<1>1. Len(ages) \in Nat /\ DOMAIN ages = 1..Len(ages) /\ \A i \in 1..Len(ages) : ages[i] \in Nat
  BY LenProperties, ElementOfSeq
<1>2. 0 \in 0..Len(ages) /\ Expired(ages, most, 0)
  BY <1>1 DEF Expired
<1>3. Younger(ages, most) = SubSeq(ages, 0 + 1, Len(ages))
  BY <1>2, YoungerIs
<1>4. SubSeq(ages, 1, Len(ages)) = ages
  BY SubSeqFull
<1> QED
  BY <1>3, <1>4

LEMMA SeqOfElements ==
    ASSUME NEW S, NEW T, NEW s \in Seq(T), \A i \in 1..Len(s) : s[i] \in S
    PROVE  s \in Seq(S)
<1>1. Len(s) \in Nat /\ s \in [1..Len(s) -> T]
  BY LenProperties
<1>2. s \in [1..Len(s) -> S]
  BY <1>1
<1> QED
  BY <1>1, <1>2, SeqDef

LEMMA WindowTyped == Window \in Nat \ {0} /\ Limit \in Nat
BY LimitsAssumption

\* Looking again drops what has expired since, and no more.
LEMMA UnexpiredProps ==
    ASSUME LimiterInv
    PROVE  /\ passed \in Seq(0..(Window - 1))
           /\ OldestFirst(passed)
           /\ Len(passed) <= Len(requests)
           /\ Unexpired(passed) = passed
<1>1. requests \in Seq(Nat) /\ Len(requests) \in Nat
  BY WindowTyped, LenProperties, SeqMonotonic DEF LimiterInv
<1>2. PICK k \in 0..Len(requests) : Expired(requests, Window, k)
  BY <1>1, WindowTyped, ExpiredPrefix DEF LimiterInv
<1>3. /\ passed = Younger(requests, Window)
      /\ passed \in Seq(Nat)
      /\ Len(passed) = Len(requests) - k
      /\ \A i \in 1..(Len(requests) - k) : passed[i] = requests[i + k]
  BY <1>1, <1>2, WindowTyped, YoungerIs DEF LimiterInv, Unexpired
<1>4. DOMAIN passed = 1..Len(passed) /\ DOMAIN requests = 1..Len(requests)
  BY <1>1, <1>3, LenProperties
<1>5. \A i \in 1..Len(passed) : passed[i] \in 0..(Window - 1)
  <2> SUFFICES ASSUME NEW i \in 1..Len(passed) PROVE passed[i] \in 0..(Window - 1)
    OBVIOUS
  <2>1. i + k \in 1..Len(requests) /\ ~(i + k <= k) /\ passed[i] = requests[i + k]
    BY <1>1, <1>3
  <2>2. passed[i] \in Nat /\ ~(passed[i] >= Window)
    BY <1>1, <1>2, <1>4, <2>1, ElementOfSeq DEF Expired
  <2> QED
    BY <2>2, WindowTyped
<1>6. passed \in Seq(0..(Window - 1))
  BY <1>3, <1>5, SeqOfElements
<1>7. OldestFirst(passed)
  <2> SUFFICES ASSUME NEW i \in 1..Len(passed), NEW j \in 1..Len(passed), i < j
               PROVE  passed[j] <= passed[i]
    BY <1>4 DEF OldestFirst
  <2>1. /\ i + k \in 1..Len(requests) /\ j + k \in 1..Len(requests) /\ i + k < j + k
        /\ passed[i] = requests[i + k] /\ passed[j] = requests[j + k]
    BY <1>1, <1>3
  <2> QED
    BY <1>4, <2>1 DEF LimiterInv, OldestFirst
<1>8. Len(passed) <= Len(requests) /\ Len(passed) \in Nat
  BY <1>1, <1>3
<1>9. Unexpired(passed) = passed
  <2>1. \A i \in 1..Len(passed) : passed[i] < Window
    BY <1>5, WindowTyped
  <2> QED
    BY <1>3, <2>1, WindowTyped, AllYoung DEF Unexpired
<1> QED
  BY <1>6, <1>7, <1>8, <1>9

LEMMA LimiterKept ==
    ASSUME LimiterInv, UNCHANGED <<requests, passed>>
    PROVE  LimiterInv'
BY DEF LimiterInv, OldestFirst, Unexpired, Younger

\* The limiter looks again and refuses.
LEMMA LimitedLimiter ==
    ASSUME LimiterInv, NEW w \in Callers, Limited(w)
    PROVE  LimiterInv'
<1>1. requests' = passed /\ passed' = passed
  BY DEF Limited, LimiterInv
<1>2. requests' \in Seq(0..Window)
  BY <1>1, UnexpiredProps, WindowTyped, SeqMonotonic
<1>3. OldestFirst(requests')
  BY <1>1, UnexpiredProps
<1>4. passed' = Unexpired(requests')
  BY <1>1, UnexpiredProps
<1>5. Len(requests') <= Limit
  <2>1. Len(passed) \in Nat /\ Len(requests) \in Nat
    BY UnexpiredProps, LenProperties DEF LimiterInv
  <2> QED
    BY <1>1, <2>1, UnexpiredProps, WindowTyped DEF LimiterInv
<1> QED
  BY <1>2, <1>3, <1>4, <1>5 DEF LimiterInv

\* The limiter looks again and lets a request pass.
LEMMA PassesLimiter ==
    ASSUME LimiterInv, NEW w \in Callers, Passes(w)
    PROVE  LimiterInv'
<1> DEFINE s == Append(passed, 0)
           n == Len(passed)
<1>1. requests' = s /\ passed' = s /\ n < Limit
  BY DEF Passes, LimiterInv
<1>2. passed \in Seq(0..(Window - 1)) /\ OldestFirst(passed) /\ 0 \in 0..(Window - 1)
  BY UnexpiredProps, WindowTyped
<1>3. /\ s \in Seq(0..(Window - 1)) /\ Len(s) = n + 1
      /\ \A i \in 1..n : s[i] = passed[i]
      /\ s[n + 1] = 0
  BY <1>2, AppendProperties
<1>4. n \in Nat /\ DOMAIN s = 1..(n + 1) /\ DOMAIN passed = 1..n
      /\ \A i \in 1..n : passed[i] \in 0..(Window - 1)
  BY <1>2, <1>3, LenProperties, ElementOfSeq
<1>5. OldestFirst(s)
  <2> SUFFICES ASSUME NEW i \in 1..(n + 1), NEW j \in 1..(n + 1), i < j
               PROVE  s[j] <= s[i]
    BY <1>4 DEF OldestFirst
  <2>1. i \in 1..n /\ s[i] = passed[i] /\ passed[i] \in 0..(Window - 1)
    BY <1>3, <1>4
  <2>2. CASE j = n + 1
    BY <1>3, <2>1, <2>2, WindowTyped
  <2>3. CASE j # n + 1
    <3>1. j \in 1..n /\ s[j] = passed[j]
      BY <1>3, <1>4, <2>3
    <3> QED
      BY <1>2, <1>4, <2>1, <3>1 DEF OldestFirst
  <2> QED
    BY <2>2, <2>3
<1> HIDE DEF s
<1>6. s \in Seq(0..Window) /\ s \in Seq(Nat)
  BY <1>3, WindowTyped, SeqMonotonic
<1>7. Unexpired(s) = s
  <2>1. \A i \in 1..Len(s) : s[i] < Window
    BY <1>3, ElementOfSeq, WindowTyped
  <2> QED
    BY <1>6, <2>1, WindowTyped, AllYoung DEF Unexpired
<1>8. Len(s) <= Limit
  BY <1>1, <1>3, <1>4, WindowTyped
<1> QED
  BY <1>1, <1>5, <1>6, <1>7, <1>8 DEF LimiterInv, Unexpired, OldestFirst

\* The clock moves on: what expires is again a prefix, and the history loses the same.
LEMMA TickLimiter ==
    ASSUME LimiterInv, Tick
    PROVE  LimiterInv'
<1> DEFINE n == Len(requests)
           s == [i \in DOMAIN requests |-> Older(requests[i], Window)]
           q == [i \in DOMAIN passed |-> Older(passed[i], Window)]
<1>1. requests' = s /\ passed' = Younger(q, Window)
  BY DEF Tick
<1>2. /\ n \in Nat /\ DOMAIN requests = 1..n
      /\ requests \in Seq(Nat)
      /\ \A i \in 1..n : requests[i] \in 0..Window
  BY WindowTyped, LenProperties, ElementOfSeq, SeqMonotonic DEF LimiterInv
<1>3. \A a, b \in 0..Window : /\ Older(a, Window) \in 0..Window
                              /\ a <= b => Older(a, Window) <= Older(b, Window)
                              /\ a >= Window => Older(a, Window) >= Window
  BY WindowTyped DEF Older
<1>4. s \in [1..n -> 0..Window] /\ \A i \in 1..n : s[i] = Older(requests[i], Window)
  BY <1>2, <1>3
<1>5. s \in Seq(0..Window) /\ s \in Seq(Nat) /\ Len(s) = n /\ DOMAIN s = 1..n
  <2>1. s \in Seq(0..Window)
    BY <1>2, <1>4, SeqDef
  <2> QED
    BY <1>2, <1>4, <2>1, WindowTyped, LenProperties, SeqMonotonic
<1> HIDE DEF s
<1>6. OldestFirst(s)
  BY <1>2, <1>3, <1>4, <1>5 DEF LimiterInv, OldestFirst
<1>7. PICK k \in 0..n : Expired(requests, Window, k)
  BY <1>2, WindowTyped, ExpiredPrefix DEF LimiterInv
<1>8. PICK m \in 0..n : Expired(s, Window, m)
  BY <1>5, <1>6, WindowTyped, ExpiredPrefix
<1>9. /\ passed \in Seq(Nat) /\ Len(passed) = n - k
      /\ \A i \in 1..(n - k) : passed[i] = requests[i + k]
      /\ DOMAIN passed = 1..(n - k)
  BY <1>2, <1>7, WindowTyped, YoungerIs, LenProperties DEF LimiterInv, Unexpired
<1>10. \A i \in 1..n : (requests[i] >= Window <=> i <= k) /\ (s[i] >= Window <=> i <= m)
  BY <1>2, <1>5, <1>7, <1>8 DEF Expired
<1>11. Len(s) <= Limit
  BY <1>5 DEF LimiterInv
<1> HIDE DEF n
<1>12. n \in Nat /\ k \in 0..n /\ m \in 0..n /\ k <= m
  <2> SUFFICES ASSUME k > m PROVE FALSE
    BY <1>2
  <2>1. k \in 1..n
    BY <1>2
  <2>2. s[k] >= Window
    BY <1>2, <1>3, <1>4, <1>10, <2>1
  <2> QED
    BY <1>10, <2>1, <2>2
<1>13. /\ q \in Seq(Nat) /\ Len(q) = n - k
       /\ \A i \in 1..(n - k) : i + k \in 1..n /\ q[i] = s[i + k]
       /\ Expired(q, Window, m - k) /\ m - k \in 0..Len(q)
  <2>1. \A i \in 1..(n - k) : i + k \in 1..n /\ q[i] = s[i + k] /\ s[i + k] \in Nat
    <3> TAKE i \in 1..(n - k)
    <3>1. i + k \in 1..n
      BY <1>12
    <3>2. q[i] = Older(requests[i + k], Window)
      BY <1>9
    <3>3. s[i + k] = Older(requests[i + k], Window) /\ s[i + k] \in 0..Window
      BY <1>4, <3>1
    <3> QED
      BY <3>1, <3>2, <3>3
  <2>2. q \in [1..(n - k) -> Nat] /\ DOMAIN q = 1..(n - k) /\ n - k \in Nat
    <3>1. DOMAIN q = 1..(n - k) /\ q = [i \in 1..(n - k) |-> Older(passed[i], Window)]
      BY <1>9
    <3> HIDE DEF q
    <3>2. n - k \in Nat
      BY <1>12
    <3> QED
      BY <2>1, <3>1, <3>2
  <2>3. q \in Seq(Nat)
    BY <2>2, SeqDef
  <2>4. Len(q) = n - k
    BY <2>2, <2>3, LenProperties
  <2> HIDE DEF q
  <2>5. \A i \in 1..(n - k) : q[i] >= Window <=> i <= m - k
    <3> TAKE i \in 1..(n - k)
    <3>1. i + k \in 1..n /\ q[i] = s[i + k] /\ (i + k <= m <=> i <= m - k)
      BY <1>12, <2>1
    <3> QED
      BY <1>10, <3>1
  <2>6. m - k \in 0..Len(q)
    BY <1>12, <2>4
  <2> QED
    BY <2>1, <2>2, <2>3, <2>4, <2>5, <2>6 DEF Expired
<1> HIDE DEF q
<1>14. /\ Younger(q, Window) \in Seq(Nat) /\ Len(Younger(q, Window)) = n - m
       /\ \A i \in 1..(n - m) : Younger(q, Window)[i] = q[i + (m - k)]
  <2>1. /\ Younger(q, Window) \in Seq(Nat)
        /\ Len(Younger(q, Window)) = (n - k) - (m - k)
        /\ \A i \in 1..((n - k) - (m - k)) : Younger(q, Window)[i] = q[i + (m - k)]
    <3> DEFINE d == m - k
    <3>1. d \in 0..Len(q) /\ Expired(q, Window, d) /\ q \in Seq(Nat) /\ Len(q) = n - k
      BY <1>13
    <3> HIDE DEF d
    <3>2. /\ Younger(q, Window) \in Seq(Nat)
          /\ Len(Younger(q, Window)) = Len(q) - d
          /\ \A i \in 1..(Len(q) - d) : Younger(q, Window)[i] = q[i + d]
      BY <3>1, WindowTyped, YoungerIs
    <3> QED
      BY <3>1, <3>2 DEF d
  <2>2. (n - k) - (m - k) = n - m
    BY <1>12
  <2> QED
    BY <2>1, <2>2
<1>15. /\ Younger(s, Window) \in Seq(Nat) /\ Len(Younger(s, Window)) = n - m
       /\ \A i \in 1..(n - m) : Younger(s, Window)[i] = s[i + m]
  BY <1>5, <1>8, WindowTyped, YoungerIs
<1>16. \A i \in 1..(n - m) : q[i + (m - k)] = s[i + m]
  <2> SUFFICES ASSUME NEW i \in 1..(n - m) PROVE q[i + (m - k)] = s[i + m]
    OBVIOUS
  <2>1. i + (m - k) \in 1..(n - k) /\ (i + (m - k)) + k = i + m
    BY <1>12
  <2> QED
    BY <1>13, <2>1
<1>17. Younger(q, Window) = Younger(s, Window)
  BY <1>14, <1>15, <1>16, SeqEqual
<1> QED
  BY <1>1, <1>5, <1>6, <1>11, <1>17 DEF LimiterInv, Unexpired

LEMMA InitLimiter == Init => LimiterInv
<1> SUFFICES ASSUME Init PROVE LimiterInv
  OBVIOUS
<1>1. requests = <<>> /\ passed = <<>> /\ <<>> \in Seq(0..Window) /\ <<>> \in Seq(Nat)
      /\ Len(<<>>) = 0
  BY EmptySeq DEF Init
<1>2. DOMAIN requests = {}
  BY <1>1
<1>3. Unexpired(requests) = requests
  <2>1. requests \in Seq(Nat) /\ 1..Len(requests) = {}
    BY <1>1
  <2> QED
    BY <2>1, WindowTyped, AllYoung DEF Unexpired
<1> QED
  BY <1>1, <1>2, <1>3, WindowTyped DEF LimiterInv, OldestFirst

LEMMA NextLimiter == LimiterInv /\ [Next]_vars => LimiterInv'
<1> SUFFICES ASSUME LimiterInv, [Next]_vars PROVE LimiterInv'
  OBVIOUS
<1>1. CASE UNCHANGED vars \/ TroubleChanges
  BY <1>1, LimiterKept DEF vars, TroubleChanges
<1>2. ASSUME NEW w \in Callers, Chat(w) PROVE LimiterInv'
  BY <1>2, LimitedLimiter, PassesLimiter DEF Chat, Broken, NotFound, Start
<1>3. ASSUME NEW w \in Callers, Attempt(w) PROVE LimiterInv'
  BY <1>3, LimiterKept
     DEF Attempt, Answered, Retried, Rejected, Unavailable, FallbackUnavailable
<1> QED
  BY <1>1, <1>2, <1>3, TickLimiter DEF Next

LEMMA LimiterHolds == Spec => []LimiterInv
<1> QED
  BY InitLimiter, NextLimiter, PTL DEF Spec

\* No more than Limit requests pass within any window, wherever it starts
\* (RateLimiter.allow).
THEOREM WindowSlides == Spec => []WindowKept
<1>1. LimiterInv => WindowKept
  <2> SUFFICES ASSUME LimiterInv PROVE WindowKept
    OBVIOUS
  <2>1. Len(passed) \in Nat /\ Len(requests) \in Nat
    BY UnexpiredProps, LenProperties DEF LimiterInv
  <2> QED
    BY <2>1, UnexpiredProps, WindowTyped DEF LimiterInv, WindowKept
<1> QED
  BY <1>1, LimiterHolds, PTL

------------------------------------------------------------------------------
(* The calls. *)

\* The first execution of a call is on the provider it was routed to.
CallFits(call) == call.phase = "primary" => call.provider = call.primary

CallsInv ==
    /\ healthy \subseteq Names
    /\ calls \in [Callers -> Calls \cup {None}]
    /\ \A w \in Callers : calls[w] # None => CallFits(calls[w])
    /\ trouble \in BOOLEAN

LEMMA LeastElement ==
    ASSUME NEW S \in SUBSET Nat, S # {}
    PROVE  \E m \in S : \A n \in S : m <= n
<1> DEFINE R == OpToRel(<, Nat)
<1>1. IsWellFoundedOn(R, Nat)
  BY NatLessThanWellFounded, Zenon
<1>2. \A m, n \in Nat : n < m => <<n, m>> \in R
  BY Zenon DEF OpToRel
<1> HIDE DEF R
<1>3. PICK m \in S : \A n \in S : ~(<<n, m>> \in R)
  BY <1>1, WFMin
<1>4. \A n \in S : ~(n < m)
  BY <1>2, <1>3
<1> QED
  BY <1>4

\* The fallback is the first healthy client of another provider, if there is one.
LEMMA FallbackIsAnother ==
    ASSUME NEW p, FallbackOf(p) # None
    PROVE  FallbackOf(p) \in (Providers \cap healthy) \ {p}
<1> DEFINE usable == {i \in DOMAIN Clients : Clients[i] # p /\ Clients[i] \in healthy}
           first == CHOOSE i \in usable : \A j \in usable : i <= j
<1>1. usable # {} /\ FallbackOf(p) = Clients[first]
  BY DEF FallbackOf
<1>2. usable \in SUBSET Nat
  BY ClientsAssumption, LenProperties
<1> HIDE DEF usable
<1>3. \E i \in usable : \A j \in usable : i <= j
  BY <1>1, <1>2, LeastElement
<1>4. first \in usable
  BY <1>3
<1> HIDE DEF first
<1> QED
  BY <1>1, <1>4 DEF usable, Providers

LEMMA InitCalls == Init => CallsInv
BY DEF Init, CallsInv, Names

\* A caller has ended its call, begun one, or gone on with a fitting one.
LEMMA CallsKept ==
    ASSUME CallsInv, NEW w \in Callers, NEW c \in Calls \cup {None},
           c # None => CallFits(c),
           calls' = [calls EXCEPT ![w] = c], healthy' \subseteq Names, UNCHANGED trouble
    PROVE  CallsInv'
<1>1. calls' \in [Callers -> Calls \cup {None}]
  BY DEF CallsInv
<1>2. \A v \in Callers : calls'[v] # None => CallFits(calls'[v])
  BY DEF CallsInv
<1> QED
  BY <1>1, <1>2 DEF CallsInv

LEMMA StartsFit ==
    ASSUME NEW p \in Providers, NEW fallback \in BOOLEAN
    PROVE  LET c == [primary |-> p, fallback |-> fallback, phase |-> "primary",
                     provider |-> p, attempt |-> 1]
           IN  c \in Calls /\ CallFits(c)
BY LimitsAssumption DEF Calls, CallFits

LEMMA RetriesFit ==
    ASSUME NEW c \in Calls, CallFits(c), c.attempt < Attempts
    PROVE  LET d == [c EXCEPT !.attempt = @ + 1]
           IN  d \in Calls /\ CallFits(d) /\ d.provider = c.provider /\ d.phase = c.phase
               /\ d.primary = c.primary
<1> DEFINE d == [c EXCEPT !.attempt = @ + 1]
<1>1. c.attempt + 1 \in 1..Attempts
  BY LimitsAssumption DEF Calls
<1>2. /\ d.provider = c.provider /\ d.phase = c.phase /\ d.primary = c.primary
      /\ d.attempt = c.attempt + 1 /\ d.fallback = c.fallback
  BY DEF Calls
<1>3. d \in Calls
  BY <1>1 DEF Calls
<1> QED
  BY <1>2, <1>3 DEF CallFits

LEMMA MovesFit ==
    ASSUME NEW c \in Calls, NEW p \in Providers
    PROVE  /\ MovedTo(c, p) \in Calls
           /\ MovedTo(c, p).phase = "fallback"
           /\ MovedTo(c, p).provider = p
           /\ MovedTo(c, p).primary = c.primary
<1>1. 1 \in 1..Attempts
  BY LimitsAssumption
<1> QED
  BY <1>1 DEF Calls, MovedTo

LEMMA NextCalls == CallsInv /\ [Next]_vars => CallsInv'
<1> SUFFICES ASSUME CallsInv, [Next]_vars PROVE CallsInv'
  OBVIOUS
<1>1. CASE UNCHANGED vars \/ TroubleChanges \/ Tick
  BY <1>1 DEF vars, TroubleChanges, Tick, CallsInv
<1>2. ASSUME NEW w \in Callers, Chat(w) PROVE CallsInv'
  <2>1. CASE Limited(w) \/ Broken(w) \/ NotFound(w)
    BY <2>1 DEF Limited, Broken, NotFound, Passes, CallsInv
  <2>2. ASSUME NEW p \in Providers, NEW fallback \in BOOLEAN, Start(w, p, fallback)
        PROVE  CallsInv'
    <3>1. healthy' \subseteq Names /\ UNCHANGED trouble
      BY <2>2 DEF Start, Passes, CallsInv
    <3>2. \E c \in Calls : CallFits(c) /\ calls' = [calls EXCEPT ![w] = c]
      BY <2>2, StartsFit DEF Start
    <3> QED
      BY <3>1, <3>2, CallsKept
  <2> QED
    BY <1>2, <2>1, <2>2 DEF Chat
<1>3. ASSUME NEW w \in Callers, Attempt(w) PROVE CallsInv'
  <2>1. calls[w] \in Calls /\ CallFits(calls[w])
    BY <1>3 DEF Attempt, Answered, Retried, Rejected, Unavailable, FallbackUnavailable, CallsInv
  <2>2. CASE Answered(w)
    <3>1. healthy' \subseteq Names
      BY <2>1, <2>2 DEF Answered, CallsInv, Names, Calls
    <3> QED
      BY <2>2, <3>1, CallsKept DEF Answered
  <2>3. CASE Retried(w)
    <3>1. /\ calls[w].attempt < Attempts
          /\ calls' = [calls EXCEPT ![w] = [calls[w] EXCEPT !.attempt = @ + 1]]
          /\ healthy' \subseteq Names /\ UNCHANGED trouble
      BY <2>3 DEF Retried, CallsInv
    <3>2. \E c \in Calls : CallFits(c) /\ calls' = [calls EXCEPT ![w] = c]
      BY <2>1, <3>1, RetriesFit
    <3> QED
      BY <3>1, <3>2, CallsKept
  <2>4. CASE Rejected(w) \/ FallbackUnavailable(w)
    BY <2>4 DEF Rejected, FallbackUnavailable, CallsInv
  <2>5. CASE Unavailable(w)
    <3> DEFINE p == FallbackOf(calls[w].primary)
    <3>1. p # None => p \in Providers
      BY FallbackIsAnother
    <3>2. \/ calls' = [calls EXCEPT ![w] = None]
          \/ p # None /\ calls' = [calls EXCEPT ![w] = MovedTo(calls[w], p)]
      BY <2>5 DEF Unavailable
    <3>3. healthy' \subseteq Names /\ UNCHANGED trouble
      BY <2>5 DEF Unavailable, CallsInv
    <3> HIDE DEF p
    <3>4. ASSUME p # None PROVE MovedTo(calls[w], p) \in Calls /\ CallFits(MovedTo(calls[w], p))
      BY <2>1, <3>1, <3>4, MovesFit DEF CallFits
    <3> QED
      BY <3>2, <3>3, <3>4, CallsKept
  <2> QED
    BY <1>3, <2>2, <2>3, <2>4, <2>5 DEF Attempt
<1> QED
  BY <1>1, <1>2, <1>3 DEF Next

\* Limiter, circuit, calls and history always have the types the code knows, and the
\* limiter never keeps more than Limit timestamps.
THEOREM GatewayIsTyped == Spec => []TypeOK
<1>1. CircuitInv /\ LimiterInv /\ CallsInv => TypeOK
  BY UnexpiredProps DEF CircuitInv, LimiterInv, CallsInv, TypeOK
<1>2. Spec => []CallsInv
  BY InitCalls, NextCalls, PTL DEF Spec
<1> QED
  BY <1>1, <1>2, CircuitCounts, LimiterHolds, PTL

\* A call under way stays where it is, or its first execution has ended and it goes on, in the
\* second, to a healthy provider other than the one that failed it.
Stays(w) ==
    /\ calls'[w].phase = calls[w].phase
    /\ calls'[w].provider = calls[w].provider

FallsBack(w) ==
    /\ calls[w].phase = "primary" /\ calls'[w].phase = "fallback"
    /\ calls'[w].provider \in healthy \ {calls[w].provider}

MovesOnce ==
    [][\A w \in Callers :
          (calls[w] # None /\ calls'[w] # None)
              => calls'[w].primary = calls[w].primary /\ (Stays(w) \/ FallsBack(w))]_vars

\* A call has two executions at most, the second on another provider than the first and on one
\* that was healthy, whoever marks providers healthy or not meanwhile
\* (LLMGateway.chat, FallbackManager.get_fallback).
THEOREM FallsBackOnce == Spec => MovesOnce
<1> DEFINE Moves == \A w \in Callers :
              (calls[w] # None /\ calls'[w] # None)
                  => calls'[w].primary = calls[w].primary /\ (Stays(w) \/ FallsBack(w))
<1>1. CircuitInv /\ CallsInv /\ [Next]_vars => [Moves]_vars
  <2> SUFFICES ASSUME CircuitInv, CallsInv, Next, NEW w \in Callers,
                      calls[w] # None, calls'[w] # None
               PROVE  calls'[w].primary = calls[w].primary /\ (Stays(w) \/ FallsBack(w))
    OBVIOUS
  <2>1. CASE calls'[w] = calls[w]
    BY <2>1 DEF Stays
  <2>2. CASE calls'[w] # calls[w]
    <3>1. PICK v \in Callers : Attempt(v)
      <4>1. ASSUME NEW v \in Callers, Chat(v) PROVE FALSE
        <5>1. calls'[w] = calls[w]
          BY <4>1, ChatCircuit DEF Chat, Limited, Broken, NotFound, Start, Passes
        <5> QED
          BY <2>2, <5>1
      <4> QED
        BY <2>2, <4>1 DEF Next, Tick, TroubleChanges
    <3>2. v = w
      BY <2>2, <3>1, AttemptCircuit
    <3>3. calls[w] \in Calls /\ CallFits(calls[w])
      BY DEF CallsInv
    <3>4. CASE Retried(w)
      <4>1. calls[w].attempt < Attempts /\ calls'[w] = [calls[w] EXCEPT !.attempt = @ + 1]
        BY <3>4 DEF Retried, CallsInv
      <4> QED
        BY <3>3, <4>1, RetriesFit DEF Stays
    <3>5. CASE Unavailable(w)
      <4> DEFINE p == FallbackOf(calls[w].primary)
      <4>1. p # None /\ calls'[w] = MovedTo(calls[w], p) /\ OnPrimary(w)
        BY <3>5 DEF Unavailable, CallsInv
      <4>2. p \in Providers /\ p \in healthy /\ p # calls[w].primary
        BY <4>1, FallbackIsAnother
      <4> HIDE DEF p
      <4> QED
        BY <3>3, <4>1, <4>2, MovesFit DEF OnPrimary, CallFits, FallsBack
    <3> QED
      BY <3>1, <3>2, <3>4, <3>5
         DEF Attempt, Answered, Rejected, FallbackUnavailable, CallsInv
  <2> QED
    BY <2>1, <2>2
<1>2. Spec => []CallsInv
  BY InitCalls, NextCalls, PTL DEF Spec
<1> QED
  BY <1>1, <1>2, CircuitCounts, PTL DEF Spec, MovesOnce

==============================================================================
