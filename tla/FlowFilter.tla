----------------------------- MODULE FlowFilter -----------------------------
(***************************************************************************)
(* What a multi-threaded DPI engine promises about one capture, with no    *)
(* mention of threads and queues: every packet gets at most one verdict,   *)
(* the packets of a flow get theirs in capture order, and the output file  *)
(* is made of forwarded packets only, each at most once, those of a flow   *)
(* in capture order.  Packets of different flows may overtake one another, *)
(* and nothing is said of packets that get no verdict at all.              *)
(***************************************************************************)
EXTENDS Naturals, Sequences

CONSTANTS Packet,        \* the packets of the capture
          Precedes(_, _) \* same flow, and earlier in the capture

VARIABLES verdict,  \* "none", "forward" or "drop" for each packet
          output    \* the packets written, in order

vars == <<verdict, output>>

Written == {output[k] : k \in 1 .. Len(output)}

Init == /\ verdict = [p \in Packet |-> "none"]
        /\ output = <<>>

Decide(p, v) ==
  /\ verdict[p] = "none"
  /\ \A q \in Packet : Precedes(p, q) => verdict[q] = "none"
  /\ verdict' = [verdict EXCEPT ![p] = v]
  /\ UNCHANGED output

Emit(p) ==
  /\ verdict[p] = "forward"
  /\ p \notin Written
  /\ \A q \in Written : ~Precedes(p, q)
  /\ output' = Append(output, p)
  /\ UNCHANGED verdict

Next == \E p \in Packet : Emit(p) \/ \E v \in {"forward", "drop"} : Decide(p, v)

Spec == Init /\ [][Next]_vars
=============================================================================
