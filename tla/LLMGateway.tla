----------------------------- MODULE LLMGateway ------------------------------
(***************************************************************************)
(* The gateway every agent calls its language model through: LLMGateway,   *)
(* RateLimiter, CircuitBreaker, LLMExecutor, ProviderHealthManager and     *)
(* FallbackManager.                                                        *)
(*                                                                         *)
(* One gateway is shared by concurrent callers.  A call passes the sliding *)
(* window and the circuit, is tried on the provider it is routed to and,   *)
(* when that provider is unavailable, on the first healthy other one.  A   *)
(* caller gives way to the others only while an attempt is under way, so   *)
(* everything between two attempts is one step.  The clock is a step that  *)
(* makes every timestamp older; a timestamp that is past the limit it is   *)
(* compared with grows no older.                                           *)
(***************************************************************************)
EXTENDS Naturals, Sequences, FiniteSets

CONSTANTS
    Clients,    \* the providers that have a client, in the order of the dict
    Routes,     \* what a request can be routed to
    NameOf,     \* the name a client of a provider reports for itself
    Callers,
    Limit,      \* requests_per_minute
    Window,     \* window_seconds
    Threshold,  \* failure_threshold
    Recovery,   \* recovery_timeout
    Attempts,   \* retry_attempts
    None

Providers == {Clients[i] : i \in DOMAIN Clients}

Names == Providers \cup {NameOf[p] : p \in Providers}

ASSUME LimitsAssumption ==
    /\ Limit \in Nat
    /\ {Window, Threshold, Recovery, Attempts} \subseteq Nat \ {0}

ASSUME ClientsAssumption ==
    /\ Clients \in Seq(Routes)
    /\ \A i, j \in DOMAIN Clients : Clients[i] = Clients[j] => i = j

VARIABLES
    requests,  \* RateLimiter.requests: the ages of the timestamps it keeps
    circuit,   \* the CircuitBreaker
    healthy,   \* the names the ProviderHealthManager holds as healthy
    calls,     \* the call each caller is making, or None
    trouble,   \* external: providers may fail and requests be misrouted
    passed,    \* history: the ages of the requests the limiter let pass
    streak,    \* history: failures since a success, as far as Threshold
    quiet      \* history: the age of the last failure, as far as Recovery

histories == <<passed, streak, quiet>>
vars == <<requests, circuit, healthy, calls, trouble, passed, streak, quiet>>

------------------------------------------------------------------------------
\* failures is only compared with Threshold and counts no further.
Circuits ==
    [state: {"closed", "open", "half_open"}, failures: 0..Threshold,
     openedFor: 0..Recovery \cup {None}]

\* phase is the execute of chat that is under way: the one in the try block, or the
\* one in its handler.
Calls ==
    [primary: Providers, fallback: BOOLEAN, phase: {"primary", "fallback"},
     provider: Providers, attempt: 1..Attempts]

ASSUME NoneAssumption == None \notin Calls /\ None \notin 0..Recovery

Closed == [state |-> "closed", failures |-> 0, openedFor |-> None]

Init ==
    /\ requests = <<>>
    /\ circuit = Closed
    /\ healthy = Providers
    /\ calls = [w \in Callers |-> None]
    /\ trouble \in BOOLEAN
    /\ passed = <<>>
    /\ streak = 0
    /\ quiet = Recovery

------------------------------------------------------------------------------
\* Timestamps are appended, so a list starts with the oldest: as many as are too old
\* go from its front.
Younger(ages, most) ==
    LET older == {i \in DOMAIN ages : ages[i] >= most}
    IN  SubSeq(ages, Cardinality(older) + 1, Len(ages))

ForgetsEarly(ages) == Younger(ages, Window - 1)

Unexpired(ages) == Younger(ages, Window)

AdmitsOneProbe(c) ==
    \/ c.state = "closed"
    \/ c.state = "open" /\ c.openedFor # None /\ c.openedFor >= Recovery

Admits(c) ==
    \/ c.state \in {"closed", "half_open"}
    \/ c.state = "open" /\ c.openedFor # None /\ c.openedFor >= Recovery

Allowed(c) == IF c.state = "open" THEN [c EXCEPT !.state = "half_open"] ELSE c

Minimum(m, n) == IF m < n THEN m ELSE n

OpensEarly(c) ==
    IF c.failures + 2 >= Threshold
    THEN [state |-> "open", failures |-> Minimum(c.failures + 1, Threshold),
          openedFor |-> 0]
    ELSE [c EXCEPT !.failures = @ + 1]

KeepsTimer(c) ==
    LET failures == Minimum(c.failures + 1, Threshold)
    IN  IF failures >= Threshold
        THEN [state |-> "open", failures |-> failures,
              openedFor |-> IF c.openedFor = None THEN 0 ELSE c.openedFor]
        ELSE [c EXCEPT !.failures = failures]

Failed(c) ==
    LET failures == Minimum(c.failures + 1, Threshold)
    IN  IF failures >= Threshold
        THEN [state |-> "open", failures |-> failures, openedFor |-> 0]
        ELSE [c EXCEPT !.failures = failures]

\* A provider with no healthy other one has no fallback.
FallbackOf(p) ==
    LET usable == {i \in DOMAIN Clients : Clients[i] # p /\ Clients[i] \in healthy}
    IN  IF usable = {} THEN None
        ELSE Clients[CHOOSE i \in usable : \A j \in usable : i <= j]

\* The call goes on with its fallback, in the handler of the first execution.
MovedTo(call, p) == [call EXCEPT !.phase = "fallback", !.provider = p, !.attempt = 1]

------------------------------------------------------------------------------
LimitedForLonger(w) ==
    /\ calls[w] = None
    /\ Len(Unexpired(requests)) >= Limit
    /\ requests' = [i \in DOMAIN Unexpired(requests) |-> 0]
    /\ UNCHANGED <<circuit, healthy, calls, trouble, passed, streak, quiet>>

(* The rate limiter refuses. *)
Limited(w) ==
    /\ calls[w] = None
    /\ Len(Unexpired(requests)) >= Limit
    /\ requests' = Unexpired(requests)
    /\ UNCHANGED <<circuit, healthy, calls, trouble, passed, streak, quiet>>

(* The rate limiter lets a request pass: it has used its slot, whatever is  *)
(* refused after it.                                                        *)
Passes(w) ==
    /\ calls[w] = None
    /\ Len(Unexpired(requests)) < Limit
    /\ requests' = Append(Unexpired(requests), 0)
    /\ passed' = Append(passed, 0)
    /\ UNCHANGED <<healthy, trouble, streak, quiet>>

(* The circuit refuses the request. *)
Broken(w) ==
    /\ Passes(w)
    /\ ~Admits(circuit)
    /\ UNCHANGED <<circuit, calls>>

(* The request is routed to a provider that has no client. *)
NotFound(w) ==
    /\ Passes(w)
    /\ trouble
    /\ Routes # Providers
    /\ Admits(circuit)
    /\ circuit' = Allowed(circuit)
    /\ UNCHANGED calls

(* The first attempt on the provider the request is routed to starts. *)
Start(w, p, fallback) ==
    /\ Passes(w)
    /\ Admits(circuit)
    /\ circuit' = Allowed(circuit)
    /\ calls' = [calls EXCEPT ![w] =
         [primary |-> p, fallback |-> fallback, phase |-> "primary",
          provider |-> p, attempt |-> 1]]

Chat(w) ==
    \/ Limited(w)
    \/ Broken(w)
    \/ NotFound(w)
    \/ \E p \in Providers, fallback \in BOOLEAN : Start(w, p, fallback)

------------------------------------------------------------------------------
OnPrimary(w) == calls[w].phase = "primary"

(* The provider answers: only an answer of the provider the request was     *)
(* routed to closes the circuit.                                            *)
Answered(w) ==
    /\ calls[w] # None
    /\ \/ /\ OnPrimary(w)
          /\ circuit' = Closed
          /\ healthy' = healthy \cup {calls[w].primary}
          /\ streak' = 0
       \/ /\ ~OnPrimary(w)
          /\ healthy' = healthy \cup {NameOf[calls[w].provider]}
          /\ UNCHANGED <<circuit, streak>>
    /\ calls' = [calls EXCEPT ![w] = None]
    /\ UNCHANGED <<requests, trouble, passed, quiet>>

RetriedAfterLast(w) ==
    /\ calls[w] # None
    /\ trouble
    /\ calls' = [calls EXCEPT ![w].attempt = IF @ < Attempts THEN @ + 1 ELSE 1]
    /\ UNCHANGED <<requests, circuit, healthy, trouble, passed, streak, quiet>>

(* A transient failure before the last attempt is followed by another. *)
Retried(w) ==
    /\ calls[w] # None
    /\ trouble
    /\ calls[w].attempt < Attempts
    /\ calls' = [calls EXCEPT ![w].attempt = @ + 1]
    /\ UNCHANGED <<requests, circuit, healthy, trouble, passed, streak, quiet>>

(* A failure that is not transient, or the cancellation of the caller, ends *)
(* the call and tells nothing of the provider.                              *)
Rejected(w) ==
    /\ calls[w] # None
    /\ trouble
    /\ calls' = [calls EXCEPT ![w] = None]
    /\ UNCHANGED <<requests, circuit, healthy, trouble, passed, streak, quiet>>

(* The last attempt on the provider the request was routed to fails. *)
Unavailable(w) ==
    LET call == calls[w] IN
    /\ call # None
    /\ trouble
    /\ call.attempt = Attempts
    /\ OnPrimary(w)
    /\ circuit' = Failed(circuit)
    /\ healthy' = healthy \ {call.primary}
    /\ calls' = [calls EXCEPT ![w] =
         IF call.fallback /\ FallbackOf(call.primary) # None
         THEN MovedTo(call, FallbackOf(call.primary))
         ELSE None]
    /\ streak' = Minimum(streak + 1, Threshold)
    /\ quiet' = 0
    /\ UNCHANGED <<requests, trouble, passed>>

(* The last attempt on the fallback fails: the failure counts nowhere. *)
FallbackUnavailable(w) ==
    /\ calls[w] # None
    /\ trouble
    /\ calls[w].attempt = Attempts
    /\ ~OnPrimary(w)
    /\ calls' = [calls EXCEPT ![w] = None]
    /\ UNCHANGED <<requests, circuit, healthy, trouble, passed, streak, quiet>>

Attempt(w) ==
    \/ Answered(w)
    \/ Retried(w)
    \/ Rejected(w)
    \/ Unavailable(w)
    \/ FallbackUnavailable(w)

------------------------------------------------------------------------------
Older(age, most) == IF age < most THEN age + 1 ELSE most

(* The monotonic clock moves on. *)
Tick ==
    /\ requests' = [i \in DOMAIN requests |-> Older(requests[i], Window)]
    /\ circuit' = [circuit EXCEPT !.openedFor =
         IF @ = None THEN None ELSE Older(@, Recovery)]
    /\ passed' = Younger([i \in DOMAIN passed |-> Older(passed[i], Window)], Window)
    /\ quiet' = Older(quiet, Recovery)
    /\ UNCHANGED <<healthy, calls, trouble, streak>>

(* External: faults of the providers and of the callers begin or are over. *)
TroubleChanges ==
    /\ trouble' = ~trouble
    /\ UNCHANGED <<requests, circuit, healthy, calls, passed, streak, quiet>>

Next ==
    \/ \E w \in Callers : Chat(w) \/ Attempt(w)
    \/ Tick
    \/ TroubleChanges

Spec == Init /\ [][Next]_vars

------------------------------------------------------------------------------
(* Every attempt ends, by its timeout if by nothing else, and time passes;  *)
(* there is always somebody who asks.                                       *)
Fairness ==
    /\ \A w \in Callers : WF_vars(Attempt(w))
    /\ WF_vars(Tick)
    /\ WF_vars(\E w \in Callers : Chat(w))

FairSpec == Spec /\ Fairness

------------------------------------------------------------------------------
(* Every list of ages, circuit, call and history is well typed. *)
TypeOK ==
    /\ requests \in Seq(0..Window) /\ Len(requests) <= Limit
    /\ circuit \in Circuits
    /\ healthy \subseteq Names
    /\ calls \in [Callers -> Calls \cup {None}]
    /\ trouble \in BOOLEAN
    /\ passed \in Seq(0..(Window - 1))
    /\ streak \in 0..Threshold
    /\ quiet \in 0..Recovery

(* The window slides: no more than Limit requests pass within any window,   *)
(* not only within those that start when the limiter last looked            *)
(* (RateLimiter.allow).                                                     *)
WindowKept == Len(passed) <= Limit

(* The circuit is closed exactly while fewer than Threshold calls in a row  *)
(* have failed, whatever calls were admitted before it opened and end after *)
(* (CircuitBreaker.record_success, record_failure).                         *)
ClosedWhileWorking == circuit.state = "closed" <=> streak < Threshold

(* A call reaches a provider only after fewer than Threshold failures in a  *)
(* row, or when nothing has failed for the recovery timeout: a failure of a *)
(* call that outlived the opening, or of a probe, starts the timeout anew   *)
(* (CircuitBreaker.allow_request before the first attempt).                 *)
FailuresAreWaitedOut ==
    [][\A w \in Callers :
          (calls[w] = None /\ calls'[w] # None)
              => streak < Threshold \/ quiet = Recovery]_vars

(* Nobody is kept from the providers for ever.  Every call ends, though its *)
(* attempts may all fail on two providers; and requests pass the limiter    *)
(* again and again, however often callers are refused and ask again: a      *)
(* refusal neither takes a slot nor renews one, and the slots of calls that *)
(* the circuit refused or that are still out expire like any other          *)
(* (RateLimiter.allow, LLMExecutor.execute, LLMGateway.chat).               *)
CallersMoveOn ==
    /\ \A w \in Callers : calls[w] # None ~> calls[w] = None
    /\ []<><<\E w \in Callers : Passes(w)>>_vars

(* Once the providers answer, the circuit closes for good: calls refused by *)
(* the circuit use up slots of the window, but never all of those that      *)
(* could close it.                                                          *)
CircuitRecovers == <>[](~trouble) => <>[](circuit.state = "closed")

==============================================================================
