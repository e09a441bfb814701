------------------------------ MODULE MCDpiMt ------------------------------
(***************************************************************************)
(* Small instances of DpiMt for TLC.                                       *)
(***************************************************************************)
EXTENDS DpiMt, TLC

CONSTANTS a, b, skip

MCFlow == {a, b}
MCHash == a :> 0 @@ b :> 1

\* Two flows with a hash each, so that with two fast paths each has its own; one
\* has two packets around the other's; and a packet the engine ignores.
MCCapture == <<a, skip, b, a>>
=============================================================================
