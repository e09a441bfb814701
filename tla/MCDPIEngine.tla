---------------------------- MODULE MCDPIEngine ----------------------------
(***************************************************************************)
(* Small instances of DPIEngine for TLC.                                   *)
(***************************************************************************)
EXTENDS DPIEngine, TLC

CONSTANTS a, b, skip

MCFlow == {a, b}
MCHash == a :> 0 @@ b :> 1

\* Two flows on two load balancers, one with two packets around the other's,
\* and a packet the engine ignores.
MCCapture == <<a, skip, b, a>>

\* One flow, for the ways a stop can go wrong.
MCBurst == <<a, a>>
=============================================================================
