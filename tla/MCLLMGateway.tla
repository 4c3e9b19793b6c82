---------------------------- MODULE MCLLMGateway -----------------------------
(***************************************************************************)
(* LLMGateway with two clients: the first reports the name it is           *)
(* registered under, the second is wrapped and reports "fallback".         *)
(***************************************************************************)
EXTENDS LLMGateway, TLC

CONSTANTS p1, p2, unknown

MCClients == <<p1, p2>>

MCNameOf == (p1 :> p1) @@ (p2 :> "fallback")

==============================================================================
