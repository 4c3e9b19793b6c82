-------------------------------- MODULE ChatOps --------------------------------
(***************************************************************************)
(* Decisions taken in a chat: the Feishu channel transport, the            *)
(* conversation store and the authenticated write bridge, over the         *)
(* approval manager, the execution ledger and verification.                *)
(*                                                                         *)
(* The channel delivers an event any number of times (a retried webhook,   *)
(* or the same card button pressed again, which has the same identifier).  *)
(* Every delivery is handled from the start by a worker; workers           *)
(* interleave at each await, and a delivery may be cut off anywhere.       *)
(* Approvals and executions are those of the abstract specifications that  *)
(* ApprovalDecision and ActionExecution implement.                         *)
(***************************************************************************)
EXTENDS FiniteSets

CONSTANTS
    Events,        \* identifiers of inbound messages
    Chats,         \* conversations
    Actors,        \* senders; an actor stands for the principal it is bound to
    Approvers,     \* actors bound to a principal with APPROVAL_DECIDE
    Executors,     \* actors bound to a principal with ACTION_EXECUTE
    Incidents,
    Approvals,     \* approval requests; bound the requests created
    Workers,
    None

ASSUME RolesAssumption == Approvers \subseteq Actors /\ Executors \subseteq Actors

ASSUME ModelValues == None \notin Events \cup Actors \cup Incidents \cup Approvals

VARIABLES
    sent,          \* the content of each event, chosen at the beginning
    sessions,      \* the incident each conversation is bound to, or None
    incidentOf,    \* the incident of each approval request, or None
    preApproved,   \* the requests created with a plan that has approved = True
    register,      \* its decision: see ApprovalRegister
    phase,         \* its execution: see ExecutionLifecycle
    claims,        \* operator and idempotency key of that execution, or None
    verifications, \* the verification of that execution
    jobs,          \* the delivery each worker is handling, or None
    replies        \* the outcome each worker last sent

requested == <<incidentOf, preApproved>>
remediation == <<requested, register, phase, claims, verifications>>
vars == <<sent, sessions, remediation, jobs, replies>>

------------------------------------------------------------------------------
\* "ask" stands for every intent that is not a write.
Intents == {"approve", "reject", "remediate", "ask"}

Contents ==
    [chat: Chats, actor: Actors, intent: Intents, incident: Incidents \cup {None}]

\* operator_id and idempotency_key; the key is a hash of the conversation, the
\* message, the operation and the target.
Audits == [operator: Actors, event: Events]

Register == INSTANCE ApprovalRegister WITH Requests <- Approvals
Ledger == INSTANCE ExecutionLifecycle WITH Results <- {None}

\* `event` is the request a verification was claimed for.
Verifications ==
    [status: {"absent", "open", "passed", "unpassed"}, event: Events \cup {None}]

Stages ==
    {"open", "converse", "authorize", "bind", "list", "decide", "existing", "resume",
     "outcome", "reread", "verification", "verify", "collect", "report"}

\* `settled`: the execution was SUCCEEDED when the bridge read it.
Jobs ==
    [event: Events, stage: Stages, incident: Incidents \cup {None},
     target: Approvals \cup {None}, settled: BOOLEAN]

ASSUME NoneAssumption == None \notin Jobs /\ None \notin Audits

\* "completed" is any outcome with success = True about an execution, "incomplete"
\* one without; "declined" stands for the outcomes that found or did nothing:
\* required, refused, not found, ambiguous, conflict, failed.
ReplyKinds ==
    {"none", "read", "declined", "approved", "rejected", "completed", "incomplete"}

Replies == [kind: ReplyKinds, event: Events \cup {None}, target: Approvals \cup {None}]

Silence == [kind |-> "none", event |-> None, target |-> None]

Init ==
    /\ sent \in [Events -> Contents]
    /\ sessions = [c \in Chats |-> None]
    /\ incidentOf = [a \in Approvals |-> None]
    /\ preApproved = {}
    /\ Register!Init
    /\ Ledger!Init
    /\ claims = [a \in Approvals |-> None]
    /\ verifications = [a \in Approvals |-> [status |-> "absent", event |-> None]]
    /\ jobs = [w \in Workers |-> None]
    /\ replies = [w \in Workers |-> Silence]

------------------------------------------------------------------------------
(* Steps of a delivery. *)

At(w, stage) == jobs[w] # None /\ jobs[w].stage = stage

Goto(w, stage) == jobs' = [jobs EXCEPT ![w].stage = stage] /\ UNCHANGED replies

\* The outcome is rendered and sent; the delivery is over.
Answer(w, kind, a) ==
    /\ jobs' = [jobs EXCEPT ![w] = None]
    /\ replies' = [replies EXCEPT ![w] =
                     [kind |-> kind, event |-> jobs[w].event, target |-> a]]

Decline(w) == Answer(w, "declined", None)

Content(w) == sent[jobs[w].event]

Audit(w) == [operator |-> Content(w).actor, event |-> jobs[w].event]

------------------------------------------------------------------------------
(* The channel. *)

\* The transport normalises and attests the event, then dispatches it to the bridge.
Deliver(w, e) ==
    /\ jobs[w] = None
    /\ jobs' = [jobs EXCEPT ![w] =
         [event |-> e, stage |-> "open", incident |-> None, target |-> None,
          settled |-> FALSE]]
    /\ replies' = [replies EXCEPT ![w] = Silence]
    /\ UNCHANGED <<sent, sessions, remediation>>

------------------------------------------------------------------------------
(* Conversation and authority. *)

PrefersBinding(c, named) == IF sessions[c] # None THEN sessions[c] ELSE named

\* message.incident_id or session.incident_id
IncidentFor(c, named) == IF named # None THEN named ELSE sessions[c]

\* handle() classifies the text and reads the session.
Open(w) ==
    /\ At(w, "open")
    /\ LET content == Content(w)
           incident == IncidentFor(content.chat, content.incident) IN
        \/ /\ content.intent = "ask" \/ incident # None
           /\ jobs' = [jobs EXCEPT ![w].incident = incident,
                ![w].stage = IF content.intent = "ask" THEN "converse" ELSE "authorize"]
           /\ UNCHANGED replies
        \/ /\ content.intent # "ask" /\ incident = None
           /\ Decline(w)
    /\ UNCHANGED <<sent, sessions, remediation>>

\* SQLite keeps the incident it has when none is given.
Rebound(c, incident) ==
    sessions' = [sessions EXCEPT ![c] = IF incident = None THEN @ ELSE incident]

\* The read-only turn: the orchestrator writes back the incident it read.
Converse(w) ==
    /\ At(w, "converse")
    /\ Rebound(Content(w).chat, jobs[w].incident)
    /\ Answer(w, "read", None)
    /\ UNCHANGED <<sent, remediation>>

AnyRole(content) == content.actor \in Approvers \cup Executors

\* SecurityPolicyEngine.require for the operation of the intent.
Permitted(content) ==
    \/ content.intent \in {"approve", "reject"} /\ content.actor \in Approvers
    \/ content.intent = "remediate" /\ content.actor \in Executors

\* Verified, authenticated and authorized; or not, as when the attestation of the
\* event has expired or given way to newer ones.
Authorize(w) ==
    /\ At(w, "authorize")
    /\ \/ Permitted(Content(w)) /\ Goto(w, "bind")
       \/ Decline(w)
    /\ UNCHANGED <<sent, sessions, remediation>>

Bind(w) ==
    /\ At(w, "bind")
    /\ Rebound(Content(w).chat, jobs[w].incident)
    /\ Goto(w, "list")
    /\ UNCHANGED <<sent, remediation>>

------------------------------------------------------------------------------
(* Approvals. *)

Of(incident, status) ==
    {a \in Approvals : incidentOf[a] = incident /\ register[a].status = status}

\* the status an event asks for
Desired(intent) == IF intent = "approve" THEN "approved" ELSE "rejected"

ReplaysAnyDecision(w, a, status) == register[a].status = status

\* _exact_decision_replay: same status, operator and idempotency key.
IsReplay(w, a, status) == register[a].status = status /\ register[a].audit = Audit(w)

\* One pending request is the target; with none, the decision of this very event
\* is replayed; more than one is ambiguous.
ListPending(w) ==
    /\ At(w, "list")
    /\ Content(w).intent \in {"approve", "reject"}
    /\ LET incident == jobs[w].incident
           status == Desired(Content(w).intent)
           pending == Of(incident, "pending")
           replays == {a \in Approvals : incidentOf[a] = incident /\ IsReplay(w, a, status)} IN
        \/ \E a \in pending :
             /\ pending = {a}
             /\ jobs' = [jobs EXCEPT ![w].target = a, ![w].stage = "decide"]
             /\ UNCHANGED replies
        \/ \E a \in replays :
             /\ pending = {}
             /\ replays = {a}
             /\ Answer(w, status, a)
        \/ /\ Cardinality(pending) # 1
           /\ pending # {} \/ Cardinality(replays) # 1
           /\ Decline(w)
    /\ UNCHANGED <<sent, sessions, remediation>>

\* A plan whose flag the decision changes is refused by its own model.
Bindable(a, status) == (a \in preApproved) = (status = "approved")

\* approve() or reject(): decided, replayed, or a conflict.  The decision may also
\* be refused, or fail, with WRITE_FAILED.
Decide(w) ==
    /\ At(w, "decide")
    /\ LET a == jobs[w].target
           status == Desired(Content(w).intent) IN
        \/ /\ Bindable(a, status)
           /\ Register!Decide(a, status, Audit(w))
           /\ Answer(w, status, a)
        \/ /\ IsReplay(w, a, status)
           /\ Answer(w, status, a)
           /\ UNCHANGED register
        \/ /\ Decline(w)
           /\ UNCHANGED register
    /\ UNCHANGED <<sent, sessions, requested, phase, claims, verifications>>

------------------------------------------------------------------------------
(* Executions. *)

CandidatesUndecided(incident) ==
    {a \in Approvals : incidentOf[a] = incident /\ register[a].status # "rejected"}

CandidatesUnlaunched(incident) ==
    {a \in Of(incident, "approved") : phase[a].status = "unclaimed"}

\* status APPROVED and action.approved
Candidates(incident) == Of(incident, "approved")

ListApproved(w) ==
    /\ At(w, "list")
    /\ Content(w).intent = "remediate"
    /\ LET candidates == Candidates(jobs[w].incident) IN
        \/ \E a \in candidates :
             /\ candidates = {a}
             /\ jobs' = [jobs EXCEPT ![w].target = a, ![w].stage = "existing"]
             /\ UNCHANGED replies
        \/ /\ Cardinality(candidates) # 1
           /\ Decline(w)
    /\ UNCHANGED <<sent, sessions, remediation>>

\* What a read of the execution tells; records are never deleted.
SeeExecution(w, stage) ==
    /\ jobs' = [jobs EXCEPT ![w].settled = (phase[jobs[w].target].status = "succeeded"),
                            ![w].stage = stage]
    /\ UNCHANGED replies

\* An execution that exists is only reported; else the incident is read, and may
\* not be found.
FindExecution(w) ==
    /\ At(w, "existing")
    /\ IF phase[jobs[w].target].status # "unclaimed"
       THEN SeeExecution(w, "report")
       ELSE Goto(w, "resume") \/ Decline(w)
    /\ UNCHANGED <<sent, sessions, remediation>>

\* ActionRuntime.resume claims and launches; or finds a claim, or is blocked before
\* it; or raises.
Resume(w) ==
    /\ At(w, "resume")
    /\ \/ /\ Ledger!Launch(jobs[w].target)
          /\ claims' = [claims EXCEPT ![jobs[w].target] = Audit(w)]
          /\ Goto(w, "outcome")
       \/ /\ Goto(w, "reread") \/ Decline(w)
          /\ UNCHANGED <<phase, claims>>
    /\ UNCHANGED <<sent, sessions, requested, register, verifications>>

\* The executor's outcome, or a freeze, is recorded; if it cannot be, resume raises.
RecordOutcome(w) ==
    /\ At(w, "outcome")
    /\ \/ /\ \/ Ledger!Freeze(jobs[w].target)
             \/ \E s \in Ledger!Outcomes : Ledger!Settle(jobs[w].target, s, None)
          /\ Goto(w, "reread")
       \/ Decline(w) /\ UNCHANGED phase
    /\ UNCHANGED <<sent, sessions, requested, register, claims, verifications>>

RereadExecution(w) ==
    /\ At(w, "reread")
    /\ IF phase[jobs[w].target].status = "unclaimed"
       THEN Decline(w)
       ELSE SeeExecution(w, "verification")
    /\ UNCHANGED <<sent, sessions, remediation>>

------------------------------------------------------------------------------
(* Verification. *)

CompletedUnverified(w, status) == jobs[w].settled

\* execution succeeded and verification passed
Completed(w, status) == jobs[w].settled /\ status = "passed"

Report(w, status) ==
    Answer(w, IF Completed(w, status) THEN "completed" ELSE "incomplete", jobs[w].target)

\* _existing_execution reads the verification and answers.
ReportExisting(w) ==
    /\ At(w, "report")
    /\ Report(w, verifications[jobs[w].target].status)
    /\ UNCHANGED <<sent, sessions, remediation>>

\* After a resume, a success that nobody verifies yet is verified.
FindVerification(w) ==
    /\ At(w, "verification")
    /\ LET status == verifications[jobs[w].target].status IN
        IF jobs[w].settled /\ status = "absent"
        THEN Goto(w, "verify")
        ELSE Report(w, status)
    /\ UNCHANGED <<sent, sessions, remediation>>

\* VerificationCoordinator.run claims it; returns what it claimed before for this
\* request; or raises, for another request's claim or an incident not HEALING.
Verify(w) ==
    /\ At(w, "verify")
    /\ LET a == jobs[w].target
           v == verifications[a] IN
        \/ /\ v.status = "absent"
           /\ verifications' = [verifications EXCEPT ![a] =
                [status |-> "open", event |-> jobs[w].event]]
           /\ Goto(w, "collect")
        \/ /\ v.event = jobs[w].event
           /\ Report(w, v.status)
           /\ UNCHANGED verifications
        \/ /\ v.event # jobs[w].event
           /\ Answer(w, "incomplete", a)
           /\ UNCHANGED verifications
    /\ UNCHANGED <<sent, sessions, requested, register, phase, claims>>

\* The verdict is stored and brought to the incident; either may raise.
Collect(w) ==
    /\ At(w, "collect")
    /\ LET a == jobs[w].target IN
        \/ \E status \in {"passed", "unpassed"} :
             /\ verifications' = [verifications EXCEPT ![a].status = status]
             /\ Report(w, status) \/ Answer(w, "incomplete", a)
        \/ /\ Answer(w, "incomplete", a)
           /\ UNCHANGED verifications
    /\ UNCHANGED <<sent, sessions, requested, register, phase, claims>>

\* The process dies, a store raises, or the reply cannot be sent.
Interrupt(w) ==
    /\ jobs[w] # None
    /\ jobs' = [jobs EXCEPT ![w] = None]
    /\ replies' = [replies EXCEPT ![w] = Silence]
    /\ UNCHANGED <<sent, sessions, remediation>>

------------------------------------------------------------------------------
(* The rest of the program, through the same services. *)

Request(a, incident, flag) ==
    /\ Register!Create(a)
    /\ incidentOf' = [incidentOf EXCEPT ![a] = incident]
    /\ preApproved' = IF flag THEN preApproved \cup {a} ELSE preApproved
    /\ UNCHANGED <<sent, sessions, phase, claims, verifications, jobs, replies>>

\* An operator decides through the API.
OperatorDecides(a, status) ==
    /\ Bindable(a, status)
    /\ Register!Decide(a, status, None)
    /\ UNCHANGED <<sent, sessions, requested, phase, claims, verifications, jobs, replies>>

\* An operator reconciles a frozen execution; a success is verified for that request.
OperatorReconciles(a, outcome, status) ==
    /\ Ledger!Resolve(a, outcome, None)
    /\ verifications[a].status = "absent"
    /\ verifications' = IF outcome = "failed" THEN verifications
                        ELSE [verifications EXCEPT ![a].status = status]
    /\ UNCHANGED <<sent, sessions, requested, register, claims, jobs, replies>>

\* The conversation store keeps a bounded number of conversations.
Forget(c) ==
    /\ sessions[c] # None
    /\ sessions' = [sessions EXCEPT ![c] = None]
    /\ UNCHANGED <<sent, remediation, jobs, replies>>

Next ==
    \/ \E w \in Workers :
        \/ \E e \in Events : Deliver(w, e)
        \/ Open(w)
        \/ Converse(w)
        \/ Authorize(w)
        \/ Bind(w)
        \/ ListPending(w)
        \/ Decide(w)
        \/ ListApproved(w)
        \/ FindExecution(w)
        \/ Resume(w)
        \/ RecordOutcome(w)
        \/ RereadExecution(w)
        \/ ReportExisting(w)
        \/ FindVerification(w)
        \/ Verify(w)
        \/ Collect(w)
        \/ Interrupt(w)
    \/ \E a \in Approvals :
        \/ \E incident \in Incidents, flag \in BOOLEAN : Request(a, incident, flag)
        \/ \E status \in Register!Targets : OperatorDecides(a, status)
        \/ \E outcome \in Ledger!Outcomes, status \in {"open", "passed", "unpassed"} :
              OperatorReconciles(a, outcome, status)
    \/ \E c \in Chats : Forget(c)

Spec == Init /\ [][Next]_vars

------------------------------------------------------------------------------
(* Properties. *)

\* Every event, binding, request, execution, delivery and reply is well typed.
TypeOK ==
    /\ sent \in [Events -> Contents]
    /\ sessions \in [Chats -> Incidents \cup {None}]
    /\ incidentOf \in [Approvals -> Incidents \cup {None}]
    /\ preApproved \subseteq Approvals
    /\ register \in [Approvals -> Register!Entries]
    /\ phase \in [Approvals -> Ledger!Phases]
    /\ claims \in [Approvals -> Audits \cup {None}]
    /\ verifications \in [Approvals -> Verifications]
    /\ jobs \in [Workers -> Jobs \cup {None}]
    /\ replies \in [Workers -> Replies]

\* A sender told that a request is approved or rejected, at once or as a replay of an
\* event delivered again, was told of a decision that stands, and that this sender
\* made with this event: nobody is shown a decision of somebody else as their own.
RepliedDecisionsHold ==
    \A w \in Workers :
        replies[w].kind \in Register!Targets =>
            register[replies[w].target] =
                [status |-> replies[w].kind,
                 audit |-> [operator |-> sent[replies[w].event].actor,
                            event |-> replies[w].event]]

\* The authority of an event for what it did to a request.
Authorizes(audit, a, intents, actors) ==
    LET content == sent[audit.event] IN
    /\ content.actor = audit.operator
    /\ content.actor \in actors
    /\ content.intent \in intents
    /\ content.incident \in {None, incidentOf[a]}

\* However events, bindings and requests change between the reads of a delivery, a
\* decision or an execution recorded for a chat event is of the kind its text asks
\* for, by a sender with that permission, and on the incident it names if it names
\* one (the bridge: "authenticated and authorized", then "bind").
ActsFollowAuthority ==
    \A a \in Approvals :
        /\ register[a].audit # None =>
             Authorizes(register[a].audit, a,
                        IF register[a].status = "approved" THEN {"approve"} ELSE {"reject"},
                        Approvers)
        /\ claims[a] # None => Authorizes(claims[a], a, {"remediate"}, Executors)

\* Nothing is launched from a chat before a human approved that very request
\* ("Remediation requires one approved Approval before execution").
LaunchedIsApproved ==
    \A a \in Approvals : phase[a].status # "unclaimed" => register[a].status = "approved"

\* The chat launches one remediation per incident, however many of its requests are
\* approved and whichever events are repeated: an approval that was executed stays a
\* candidate, so a second one makes the text ambiguous ("Multiple Approval candidates
\* exist; ChatOps refuses to guess").
OneRemediationPerIncident ==
    \A a, b \in Approvals :
        claims[a] # None /\ claims[b] # None /\ incidentOf[a] = incidentOf[b] => a = b

\* A sender told of success finds an execution that succeeded and was verified,
\* though both were read at different moments and others reconcile and verify.
CompletedIsVerified ==
    \A w \in Workers :
        replies[w].kind = "completed" =>
            /\ phase[replies[w].target].status = "succeeded"
            /\ verifications[replies[w].target].status = "passed"

\* What the identity module says of a repeated webhook ("the exact same ChatOps
\* webhook replay must produce the same decision data"): one event decides one
\* request at most.
OneDecisionPerEvent ==
    \A a, b \in Approvals :
        register[a].audit # None /\ register[a].audit = register[b].audit => a = b

==============================================================================
