-------------------------- MODULE ProductionRequests ---------------------------
(***************************************************************************)
(* What the requests to the services of a production pilot have in common: *)
(* the preparation of its action (ActionPreparation) and its live probe    *)
(* and go/no-go (PilotGoNoGo).                                             *)
(***************************************************************************)

CONSTANTS
    Operators,  \* who asks
    Keys,       \* idempotency keys of clients
    Workers,    \* requests under way
    None

==============================================================================
