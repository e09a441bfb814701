--------------------------- MODULE DPIEngineProofs ---------------------------
(***************************************************************************)
(* Theorems about DPIEngine, for any capture, any number of files and of   *)
(* threads, any capacity of the queues and any hash function: its          *)
(* invariants, that it implements the flow filter, and how it spreads the  *)
(* flows over the fast paths.                                              *)
(*                                                                         *)
(* The inductive invariant is that of DpiMtProofs, with the reader as a    *)
(* thread of its own.  The queues stay shut down after the first file, so  *)
(* what it says about places and counters is about the first file, and     *)
(* what it says about order and types about all of them.                   *)
(***************************************************************************)
EXTENDS DPIEngine, SharedTheorems

FPOf(p) == FPFor(LBFor(p), p)

\* What the engine handles.
Sent == {p \in Packet : FlowOf(p) # NoFlow}
ForLB(l) == {p \in Sent : LBFor(p) = l}
ForFP(f) == {p \in Sent : FPOf(p) = f}
Forwarded == {p \in Sent : verdict[p] = "forward"}

LBThread == [running : BOOLEAN, pc : LBPcs, job : Packet \cup {NoPacket},
             received : Nat, dispatched : Nat]
FPThread == [running : BOOLEAN, pc : FPPcs, job : Packet \cup {NoPacket}, processed : Nat]

\* Every packet is with a thread it belongs to, and a hand is empty otherwise.
HandsOK ==
  /\ \A l \in LB : /\ lb[l].job \in IF lb[l].pc = "push" THEN ForLB(l) ELSE {NoPacket}
                   /\ Held(lbq[l]) \subseteq ForLB(l)
  /\ \A f \in FP : /\ fp[f].job \in IF fp[f].pc \in {"process", "push"} THEN ForFP(f) ELSE {NoPacket}
                   /\ Held(fpq[f]) \subseteq ForFP(f)

\* The packets in the current output file.
Written == IF file = 0 THEN {}
           ELSE {output[file][k] : k \in 1 .. Len(output[file])} \cap Packet

Pushing    == {f \in FP : fp[f].pc = "push"}
Processing == {f \in FP : fp[f].pc = "process"}

\* The places of a packet, from the verdict back to the files still to be read,
\* and from the output file back to the fast paths.
Decided == {p \in Packet : verdict[p] # "none"}
InWork  == {fp[f].job : f \in Processing}
AtFP    == UNION {Held(fpq[f]) : f \in FP}
AtLB    == {lb[l].job : l \in {m \in LB : lb[m].pc = "push"}}
ToLB    == UNION {Held(lbq[l]) : l \in LB}
Unread  == {p \in Packet : p[1] > file \/ (p[1] = file /\ p[2] >= reader.next)}
Upstream == <<Decided, InWork, AtFP, AtLB, ToLB, Unread>>

InHand == {fp[f].job : f \in Pushing}
Downstream == <<Written, Held(outq), InHand>>

\* The second packet must not follow the first: they meet at a fast path.
Bad == {xy \in Sent \X Sent : FPOf(xy[1]) = FPOf(xy[2]) /\ ~Before(xy[1], xy[2])}

OrderOK ==
  /\ Chain(Upstream, Bad) /\ Chain(Downstream, Bad)
  /\ \A l \in LB : InOrder(lbq[l].buf, Bad)
  /\ \A f \in FP : InOrder(fpq[f].buf, Bad)
  /\ InOrder(outq.buf, Bad)
  /\ file # 0 => InOrder(output[file], Bad)

\* What verdicts say.
VerdictsOK ==
  /\ Decided \subseteq Sent
  /\ Written \cup Held(outq) \cup InHand \subseteq Forwarded

\* Which threads have ended, and which queues are shut down.
AfterOut == {"joinOut", "idle"}
AfterFPs == {"stopOut"} \cup AfterOut
AfterLBs == {"stopFP", "joinFP"} \cup AfterFPs
AfterReader == {"stopLB", "joinLB"} \cup AfterLBs
Ended == {"off", "exit"}

PhasesOK ==
  /\ file = 0 => /\ stage = "idle"
                 /\ \A l \in LB : lb[l].pc = "off" /\ lbq[l] = NewQueue
                 /\ \A f \in FP : fp[f].pc = "off" /\ fpq[f] = NewQueue
                 /\ outq = NewQueue
  /\ \A f \in 1 .. MaxFiles : f > file => output[f] = <<>>
  /\ reader.pc \in {"open", "read", "push"} => stage = "reading"
  /\ reader.pc = "push" => Current \in Sent
  /\ stage \in {"stopLB", "joinLB"} => turn \in LB /\ \A l \in LB : l < turn => lb[l].pc \in Ended
  /\ stage \in {"stopFP", "joinFP"} => turn \in FP /\ \A f \in FP : f < turn => fp[f].pc \in Ended
  /\ stage \in AfterLBs => \A l \in LB : lb[l].pc \in Ended
  /\ stage \in AfterFPs => \A f \in FP : fp[f].pc \in Ended
  /\ stage = "idle" => writer \in Ended
  /\ file < 2 => /\ \A l \in LB : lbq[l].shut => stage \in AfterReader
                 /\ \A f \in FP : fpq[f].shut => stage \in AfterLBs
                 /\ outq.shut => stage \in AfterOut

\* The first file has its header before any packet is sent.
HeaderOK ==
  file = 1 =>
    /\ output[1] # <<>> => output[1][1] = Header(1) /\ reader.pc # "open"
    /\ output[1] = <<>> => reader.next = 1 /\ reader.pc \notin {"read", "push"}

\* A packet of the first file that was read and has not been dropped is in one
\* of the places.
PlacesOK ==
  file = 1 =>
    \A p \in Sent : p[1] = 1 /\ p[2] < reader.next =>
      /\ verdict[p] = "none" => p \in InWork \cup AtFP \cup AtLB \cup ToLB
      /\ verdict[p] = "forward" => p \in Written \cup Held(outq) \cup InHand

\* Every counter is what the next one has counted and what is on its way there.
CountersOK ==
  file < 2 =>
    /\ stats.total = SumOf(Arrived) + (IF reader.pc = "push" THEN 1 ELSE 0)
    /\ \A l \in LB : /\ lb[l].received = lb[l].dispatched + (IF lb[l].pc = "push" THEN 1 ELSE 0)
                     /\ lb[l].dispatched = SumOf(ArrivedFrom(l))
    /\ SumOf(Processed) = stats.forwarded + stats.dropped + Cardinality(Processing)

IInv == TypeOK /\ HandsOK /\ OrderOK /\ VerdictsOK /\ PhasesOK /\ HeaderOK /\ PlacesOK /\ CountersOK
-----------------------------------------------------------------------------
(***************************************************************************)
(* The constants.                                                          *)
(***************************************************************************)
\* Threads of both kinds are numbered from 0 on.
LEMMA Threads ==
  /\ NumLBs \in Nat \ {0} /\ FPsPerLB \in Nat \ {0} /\ NumLBs * FPsPerLB \in Nat \ {0}
  /\ LB \subseteq Nat /\ FP \subseteq Nat /\ 0 \in LB /\ 0 \in FP
  /\ IsFiniteSet(LB) /\ IsFiniteSet(FP)
<1>1. NumLBs \in Nat \ {0} /\ FPsPerLB \in Nat \ {0}
  BY EngineAssumption
<1>2. NumLBs * FPsPerLB \in Nat \ {0}
  BY <1>1
<1> QED
  BY <1>1, <1>2, FS_Interval DEF LB, FP

LEMMA Packets ==
  /\ Len(Capture) \in Nat /\ MaxFiles \in Nat /\ NoPacket \notin Packet
  /\ LBCap \in Nat /\ FPCap \in Nat /\ OutCap \in Nat
  /\ \A f : Header(f) \notin Packet
  /\ \A p \in Packet : /\ p[1] \in 1 .. MaxFiles /\ p[2] \in 1 .. Len(Capture)
                       /\ p = <<p[1], p[2]>> /\ FlowOf(p) \in Flow \cup {NoFlow}
<1>1. Len(Capture) \in Nat /\ MaxFiles \in Nat
  BY EngineAssumption, LenProperties
<1>2. ASSUME NEW p \in Packet
      PROVE  /\ p[1] \in 1 .. MaxFiles /\ p[2] \in 1 .. Len(Capture)
             /\ p = <<p[1], p[2]>> /\ FlowOf(p) \in Flow \cup {NoFlow}
  <2>1. p[1] \in 1 .. MaxFiles /\ p[2] \in 1 .. Len(Capture) /\ p = <<p[1], p[2]>>
    BY DEF Packet
  <2> QED
    BY <2>1, EngineAssumption, ElementOfSeq DEF FlowOf
<1>3. NoPacket \notin Packet /\ \A f : Header(f) \notin Packet
  BY <1>1 DEF Packet, NoPacket, Header
<1> QED
  BY <1>1, <1>2, <1>3, EngineAssumption

\* Where a packet is sent.
LEMMA Places ==
  ASSUME NEW p \in Sent
  PROVE  /\ p \in Packet /\ FlowOf(p) \in Flow /\ Hash[FlowOf(p)] \in Nat
         /\ LBFor(p) \in LB /\ FPOf(p) \in FP
         /\ \A l \in LB : FPFor(l, p) \in FP
<1>1. p \in Packet /\ FlowOf(p) \in Flow /\ Hash[FlowOf(p)] \in Nat
  BY EngineAssumption, Packets DEF Sent
<1>2. LBFor(p) \in LB
  BY <1>1, Threads, Division DEF LBFor, LB
<1>3. ASSUME NEW l \in LB PROVE FPFor(l, p) \in FP
  <2>1. Hash[FlowOf(p)] % FPsPerLB \in 0 .. FPsPerLB - 1
    BY <1>1, Threads, Division
  <2> QED
    BY <1>3, <2>1, Threads, InGroup DEF FPFor, FP, LB
<1> QED
  BY <1>1, <1>2, <1>3 DEF FPOf

\* Packets that meet at a fast path met at a load balancer.
LEMMA SameLB ==
  ASSUME NEW p \in Sent, NEW q \in Sent, FPOf(p) = FPOf(q)
  PROVE  LBFor(p) = LBFor(q)
<1>1. /\ LBFor(p) \in Nat /\ LBFor(q) \in Nat
      /\ Hash[FlowOf(p)] % FPsPerLB \in 0 .. FPsPerLB - 1
      /\ Hash[FlowOf(q)] % FPsPerLB \in 0 .. FPsPerLB - 1
  BY Places, Threads, Division
<1> QED
  BY <1>1, Threads, OneGroup DEF FPOf, FPFor

\* So do the packets of a flow.
LEMMA SameFlow ==
  ASSUME NEW p \in Sent, NEW q \in Sent, FlowOf(p) = FlowOf(q)
  PROVE  FPOf(p) = FPOf(q)
  BY DEF FPOf, FPFor, LBFor

LEMMA BadPairs ==
  ASSUME NEW x, NEW y
  PROVE  /\ <<x, y>> \in Bad =>
              x \in Sent /\ y \in Sent /\ FPOf(x) = FPOf(y) /\ ~Before(x, y)
         /\ x \in Sent /\ y \in Sent /\ FPOf(x) = FPOf(y) /\ ~Before(x, y) => <<x, y>> \in Bad
         /\ x \in Sent => <<x, x>> \in Bad
<1>1. x \in Sent => ~Before(x, x)
  BY Packets DEF Before, Sent
<1> QED
  BY <1>1 DEF Bad
-----------------------------------------------------------------------------
(***************************************************************************)
(* Types.                                                                  *)
(***************************************************************************)
\* The parts of the state, with their types.
LEMMA Types ==
  ASSUME TypeOK
  PROVE  /\ lb \in [LB -> LBThread] /\ \A l \in LB : lb[l] \in LBThread
         /\ fp \in [FP -> FPThread] /\ \A f \in FP : fp[f] \in FPThread
         /\ lbq \in [LB -> QueueOf(Packet)] /\ \A l \in LB : lbq[l] \in QueueOf(Packet)
         /\ fpq \in [FP -> QueueOf(Packet)] /\ \A f \in FP : fpq[f] \in QueueOf(Packet)
         /\ outq \in QueueOf(Packet) /\ Queue = QueueOf(Packet)
         /\ file \in Nat /\ turn \in Nat /\ reader.next \in Nat
         /\ output \in [1 .. MaxFiles -> Seq(Packet \cup {Header(f) : f \in 1 .. MaxFiles})]
<1>1. /\ lb \in [LB -> LBThread] /\ fp \in [FP -> FPThread]
      /\ lbq \in [LB -> QueueOf(Packet)] /\ fpq \in [FP -> QueueOf(Packet)]
      /\ outq \in QueueOf(Packet) /\ Queue = QueueOf(Packet)
  BY DEF TypeOK, LBThread, FPThread, Queue, QueueOf
<1>2. /\ file \in Nat /\ turn \in Nat /\ reader.next \in Nat
      /\ output \in [1 .. MaxFiles -> Seq(Packet \cup {Header(f) : f \in 1 .. MaxFiles})]
  <2>1. file \in 0 .. MaxFiles /\ turn \in Nat
    BY DEF TypeOK
  <2>2. reader.next \in 1 .. Len(Capture) + 1
    BY DEF TypeOK
  <2>3. output \in [1 .. MaxFiles -> Seq(Packet \cup {Header(f) : f \in 1 .. MaxFiles})]
    BY DEF TypeOK
  <2> QED
    BY <2>1, <2>2, <2>3, Packets
<1> QED
  BY <1>1, <1>2

\* What the threads hold.
LEMMA InHands ==
  ASSUME TypeOK, HandsOK
  PROVE  /\ \A l \in LB : lb[l].pc = "push" => lb[l].job \in ForLB(l) /\ lb[l].job \in Sent
         /\ \A f \in FP : fp[f].pc \in {"process", "push"} =>
                             fp[f].job \in ForFP(f) /\ fp[f].job \in Sent
  BY DEF HandsOK, ForLB, ForFP

\* While a thread is at work, processFile is too, and its file is open.
LEMMA Open ==
  ASSUME TypeOK, PhasesOK, stage # "idle"
  PROVE  file \in 1 .. MaxFiles /\ output[file] \in Seq(Packet \cup {Header(f) : f \in 1 .. MaxFiles})
<1>1. file \in 0 .. MaxFiles /\ file # 0
  BY DEF TypeOK, PhasesOK
<1>2. file \in 1 .. MaxFiles
  BY <1>1, Packets
<1> QED
  BY <1>2, Types

LEMMA AtWork ==
  ASSUME TypeOK, PhasesOK
  PROVE  /\ \A l \in LB : lb[l].pc \notin Ended => stage \notin AfterLBs
         /\ \A f \in FP : fp[f].pc \notin Ended => stage \notin AfterFPs
         /\ writer \notin Ended => stage # "idle"
         /\ reader.pc \in {"open", "read", "push"} => stage = "reading"
  BY DEF PhasesOK, Ended

LEMMA InitType == Init => TypeOK
<1> SUFFICES ASSUME Init PROVE TypeOK
  OBVIOUS
<1>1. /\ NewQueue \in Queue /\ Len(NewQueue.buf) = 0
  BY NewQueueFacts DEF Queue, QueueOf
<1>2. 1 \in 1 .. Len(Capture) + 1 /\ 0 <= LBCap /\ 0 <= FPCap /\ 0 <= OutCap /\ 0 \in 0 .. MaxFiles
  BY Packets
<1>3. lb \in [LB -> LBThread]
  BY DEF Init, LBThread, LBPcs
<1>4. fp \in [FP -> FPThread]
  BY DEF Init, FPThread, FPPcs
<1>5. verdict \in [Packet -> {"none", "forward", "drop"}]
  BY DEF Init
<1>6. output \in [1 .. MaxFiles -> Seq(Packet \cup {Header(f) : f \in 1 .. MaxFiles})]
  <2>1. <<>> \in Seq(Packet \cup {Header(f) : f \in 1 .. MaxFiles})
    BY EmptySeq
  <2> QED
    BY <2>1 DEF Init
<1> QED
  BY <1>1, <1>2, <1>3, <1>4, <1>5, <1>6 DEF Init, TypeOK, LBThread, FPThread

LEMMA NextType ==
  ASSUME TypeOK, HandsOK, PhasesOK, [Next]_vars
  PROVE  TypeOK'
<1> USE DEF LBThread, FPThread, LBPcs, FPPcs
<1>lb. lb \in [LB -> LBThread] /\ \A l \in LB : lb[l] \in LBThread
  BY Types
<1>fp. fp \in [FP -> FPThread] /\ \A f \in FP : fp[f] \in FPThread
  BY Types
<1>q. /\ lbq \in [LB -> QueueOf(Packet)] /\ \A l \in LB : Len(lbq[l].buf) <= LBCap
      /\ fpq \in [FP -> QueueOf(Packet)] /\ \A f \in FP : Len(fpq[f].buf) <= FPCap
      /\ outq \in QueueOf(Packet) /\ Len(outq.buf) <= OutCap /\ Queue = QueueOf(Packet)
  BY Types DEF TypeOK
<1>st. stats \in [total : Nat, forwarded : Nat, dropped : Nat]
  BY DEF TypeOK
<1>r. /\ reader \in [pc : {"off", "open", "read", "push", "done"}, next : 1 .. Len(Capture) + 1]
      /\ Len(Capture) \in Nat
  BY Packets DEF TypeOK
<1>c. LBCap \in Nat /\ FPCap \in Nat /\ OutCap \in Nat
  BY Packets
<1>1. CASE StartFile
  <2>0. file < MaxFiles /\ file' = file + 1
    BY <1>1 DEF StartFile
  <2>r. reader' = [pc |-> "open", next |-> 1]
    BY <1>1 DEF StartFile
  <2>1. lb' \in [LB -> LBThread] /\ fp' \in [FP -> FPThread]
    <3>1. lb' = [l \in LB |-> [lb[l] EXCEPT !.running = TRUE, !.pc = "check"]]
      BY <1>1 DEF StartFile
    <3>2. \A l \in LB : [lb[l] EXCEPT !.running = TRUE, !.pc = "check"] \in LBThread
      BY <1>lb
    <3>3. fp' = [f \in FP |-> [fp[f] EXCEPT !.running = TRUE, !.pc = "check"]]
      BY <1>1 DEF StartFile
    <3>4. \A f \in FP : [fp[f] EXCEPT !.running = TRUE, !.pc = "check"] \in FPThread
      BY <1>fp
    <3> HIDE DEF LBThread, FPThread
    <3> QED
      BY <3>1, <3>2, <3>3, <3>4
  <2>2. file' \in 0 .. MaxFiles
    BY <2>0, Types, Packets
  <2>3. reader' \in [pc : {"off", "open", "read", "push", "done"}, next : 1 .. Len(Capture) + 1]
    BY <2>r, <1>r
  <2> QED
    BY <1>1, <2>1, <2>2, <2>3 DEF StartFile, TypeOK, queueVars
<1>2. CASE BeginStop
  BY <1>2 DEF BeginStop, TypeOK, queueVars
<1>3. CASE StopLB
  <2>1. turn \in LB
    BY <1>3 DEF StopLB, PhasesOK
  <2>2. lb' \in [LB -> LBThread]
    BY <1>3, <1>lb, <2>1 DEF StopLB
  <2>3. lbq' \in [LB -> Queue] /\ \A l \in LB : Len(lbq'[l].buf) <= LBCap
    BY <1>3, <1>q, <2>1, <1>c, ShutAt DEF StopLB
  <2> QED
    BY <1>3, <2>2, <2>3 DEF StopLB, TypeOK
<1>4. CASE JoinLB
  <2>1. turn' \in Nat
    BY <1>4, Types DEF JoinLB
  <2> QED
    BY <1>4, <2>1 DEF JoinLB, TypeOK, queueVars
<1>5. CASE StopFP
  <2>1. turn \in FP
    BY <1>5 DEF StopFP, PhasesOK
  <2>2. fp' \in [FP -> FPThread]
    BY <1>5, <1>fp, <2>1 DEF StopFP
  <2>3. fpq' \in [FP -> Queue] /\ \A f \in FP : Len(fpq'[f].buf) <= FPCap
    BY <1>5, <1>q, <2>1, <1>c, ShutAt DEF StopFP
  <2> QED
    BY <1>5, <2>2, <2>3 DEF StopFP, TypeOK
<1>6. CASE JoinFP
  <2>1. turn' \in Nat
    BY <1>6, Types DEF JoinFP
  <2> QED
    BY <1>6, <2>1 DEF JoinFP, TypeOK, queueVars
<1>7. CASE StopOut
  BY <1>7, <1>q, ShutFacts DEF StopOut, TypeOK
<1>8. CASE FinishFile
  BY <1>8 DEF FinishFile, TypeOK, queueVars
<1>9. CASE ReaderOpen
  <2>1. reader' \in [pc : {"off", "open", "read", "push", "done"}, next : 1 .. Len(Capture) + 1]
    BY <1>9, <1>r DEF ReaderOpen
  <2>2. output' \in [1 .. MaxFiles -> Seq(Packet \cup {Header(f) : f \in 1 .. MaxFiles})]
    <3>1. file \in 1 .. MaxFiles /\ output[file] \in Seq(Packet \cup {Header(f) : f \in 1 .. MaxFiles})
      BY <1>9, AtWork, Open DEF ReaderOpen
    <3>2. Append(output[file], Header(file)) \in Seq(Packet \cup {Header(f) : f \in 1 .. MaxFiles})
      BY <3>1, AppendFacts
    <3> QED
      BY <1>9, <3>2, Types DEF ReaderOpen
  <2> QED
    BY <1>9, <2>1, <2>2 DEF ReaderOpen, TypeOK, mainVars, queueVars
<1>10. CASE ReaderSkip
  <2>1. reader.next \in 1 .. Len(Capture)
    BY <1>10, Packets DEF ReaderSkip, Current
  <2>2. reader' \in [pc : {"off", "open", "read", "push", "done"}, next : 1 .. Len(Capture) + 1]
    BY <1>10, <1>r, <2>1 DEF ReaderSkip
  <2> QED
    BY <1>10, <2>2 DEF ReaderSkip, TypeOK, mainVars, queueVars
<1>11. CASE ReaderCount
  <2>1. reader' \in [pc : {"off", "open", "read", "push", "done"}, next : 1 .. Len(Capture) + 1]
    BY <1>11, <1>r DEF ReaderCount
  <2>2. stats' \in [total : Nat, forwarded : Nat, dropped : Nat]
    BY <1>11, <1>st DEF ReaderCount
  <2> QED
    BY <1>11, <2>1, <2>2 DEF ReaderCount, TypeOK, mainVars, queueVars
<1>12. CASE ReaderPush
  <2> DEFINE x == Current
             h == LBFor(x)
  <2>1. x \in Sent /\ x \in Packet /\ h \in LB
    BY <1>12, Places DEF ReaderPush, PhasesOK
  <2>2. reader.next \in 1 .. Len(Capture)
    BY <2>1, Packets DEF Current
  <2>3. reader' \in [pc : {"off", "open", "read", "push", "done"}, next : 1 .. Len(Capture) + 1]
    BY <1>12, <1>r, <2>2 DEF ReaderPush
  <2>4. PushReturns(lbq[h], LBCap) /\ lbq' = [lbq EXCEPT ![h] = Push(@, x)]
    BY <1>12 DEF ReaderPush
  <2> HIDE DEF x, h
  <2>5. lbq' \in [LB -> Queue] /\ \A l \in LB : Len(lbq'[l].buf) <= LBCap
    BY <1>q, <1>c, <2>1, <2>4, PushAt
  <2> QED
    BY <1>12, <2>3, <2>5 DEF ReaderPush, TypeOK, mainVars
<1>13. CASE ReaderEnd
  <2>1. reader' \in [pc : {"off", "open", "read", "push", "done"}, next : 1 .. Len(Capture) + 1]
    BY <1>13, <1>r DEF ReaderEnd
  <2> QED
    BY <1>13, <2>1 DEF ReaderEnd, TypeOK, mainVars, queueVars
<1>14. ASSUME NEW l \in LB, LBCheck(l) PROVE TypeOK'
  <2>1. lb' \in [LB -> LBThread]
    BY <1>14, <1>lb DEF LBCheck
  <2> QED
    BY <1>14, <2>1 DEF LBCheck, TypeOK, mainVars, queueVars
<1>15. ASSUME NEW l \in LB, LBTimeout(l) PROVE TypeOK'
  <2>1. lb' \in [LB -> LBThread]
    BY <1>15, <1>lb DEF LBTimeout
  <2> QED
    BY <1>15, <2>1 DEF LBTimeout, TypeOK, mainVars, queueVars
<1>16. ASSUME NEW l \in LB, LBPop(l) PROVE TypeOK'
  <2>1. FrontItem(lbq[l]) \in Packet
    BY <1>16, <1>q, PopFacts DEF LBPop
  <2>2. lb' \in [LB -> LBThread]
    BY <1>16, <1>lb, <2>1 DEF LBPop
  <2>3. lbq' \in [LB -> Queue] /\ \A k \in LB : Len(lbq'[k].buf) <= LBCap
    BY <1>16, <1>q, <1>c, PopAt DEF LBPop
  <2> QED
    BY <1>16, <2>2, <2>3 DEF LBPop, TypeOK, mainVars
<1>17. ASSUME NEW l \in LB, LBPush(l) PROVE TypeOK'
  <2>1. lb[l].job \in Packet /\ FPFor(l, lb[l].job) \in FP
    BY <1>17, InHands, Places DEF LBPush
  <2>2. lb' \in [LB -> LBThread]
    BY <1>17, <1>lb DEF LBPush
  <2>3. fpq' \in [FP -> Queue] /\ \A f \in FP : Len(fpq'[f].buf) <= FPCap
    <3> DEFINE g == FPFor(l, lb[l].job)
               x == lb[l].job
    <3>1. PushReturns(fpq[g], FPCap) /\ fpq' = [fpq EXCEPT ![g] = Push(@, x)]
      BY <1>17 DEF LBPush
    <3>2. g \in FP /\ x \in Packet
      BY <2>1
    <3> HIDE DEF g, x
    <3> QED
      BY <1>q, <1>c, <3>1, <3>2, PushAt
  <2> QED
    BY <1>17, <2>2, <2>3 DEF LBPush, TypeOK, mainVars
<1>18. ASSUME NEW f \in FP, FPCheck(f) PROVE TypeOK'
  <2>1. fp' \in [FP -> FPThread]
    BY <1>18, <1>fp DEF FPCheck
  <2> QED
    BY <1>18, <2>1 DEF FPCheck, TypeOK, mainVars, queueVars
<1>19. ASSUME NEW f \in FP, FPTimeout(f) PROVE TypeOK'
  <2>1. fp' \in [FP -> FPThread]
    BY <1>19, <1>fp DEF FPTimeout
  <2> QED
    BY <1>19, <2>1 DEF FPTimeout, TypeOK, mainVars, queueVars
<1>20. ASSUME NEW f \in FP, FPPop(f) PROVE TypeOK'
  <2>1. FrontItem(fpq[f]) \in Packet
    BY <1>20, <1>q, PopFacts DEF FPPop
  <2>2. fp' \in [FP -> FPThread]
    BY <1>20, <1>fp, <2>1 DEF FPPop
  <2>3. fpq' \in [FP -> Queue] /\ \A k \in FP : Len(fpq'[k].buf) <= FPCap
    BY <1>20, <1>q, <1>c, PopAt DEF FPPop
  <2> QED
    BY <1>20, <2>2, <2>3 DEF FPPop, TypeOK, mainVars
<1>21. ASSUME NEW f \in FP, FPDrop(f) \/ FPForward(f) PROVE TypeOK'
  <2>1. fp[f].job \in Packet
    BY <1>21, InHands, Places DEF FPDrop, FPForward
  <2>2. fp' \in [FP -> FPThread]
    BY <1>21, <1>fp DEF FPDrop, FPForward
  <2>3. verdict' \in [Packet -> {"none", "forward", "drop"}]
    BY <1>21, <2>1 DEF FPDrop, FPForward, TypeOK
  <2>4. stats' \in [total : Nat, forwarded : Nat, dropped : Nat]
    BY <1>21, <1>st DEF FPDrop, FPForward
  <2>5. UNCHANGED <<stage, turn, file, running, reader, lb, writer, lbq, fpq, outq, output>>
    BY <1>21 DEF FPDrop, FPForward, mainVars, queueVars
  <2> QED
    BY <2>2, <2>3, <2>4, <2>5 DEF TypeOK
<1>22. ASSUME NEW f \in FP, FPPush(f) PROVE TypeOK'
  <2>1. fp[f].job \in Packet
    BY <1>22, InHands, Places DEF FPPush
  <2> DEFINE thread == [fp[f] EXCEPT !.pc = "check", !.job = NoPacket]
  <2>2. fp' \in [FP -> FPThread]
    <3>1. fp' = [fp EXCEPT ![f] = thread]
      BY <1>22, <1>fp DEF FPPush
    <3>2. thread \in FPThread
      BY <1>fp DEF FPThread, FPPcs
    <3> HIDE DEF thread
    <3> QED
      BY <1>fp, <3>1, <3>2
  <2>3. outq' \in Queue /\ Len(outq'.buf) <= OutCap
    BY <1>22, <1>q, <2>1, PushFacts, PushFits, <1>c DEF FPPush
  <2> QED
    BY <1>22, <2>2, <2>3 DEF FPPush, TypeOK, mainVars
<1>23. CASE WriterCheck
  BY <1>23 DEF WriterCheck, TypeOK, mainVars, queueVars
<1>24. CASE WriterTimeout
  BY <1>24 DEF WriterTimeout, TypeOK, mainVars, queueVars
<1>25. CASE WriterWrite
  <2>1. FrontItem(outq) \in Packet /\ outq' \in Queue /\ Len(outq'.buf) <= OutCap
    <3>1. HasItem(outq) /\ outq' = PopFront(outq)
      BY <1>25 DEF WriterWrite
    <3>2. Len(outq.buf) \in Nat /\ Len(outq'.buf) = Len(outq.buf) - 1
      BY <1>q, <3>1, PopFacts
    <3> QED
      BY <1>q, <1>c, <3>1, <3>2, PopFacts
  <2>2. output' \in [1 .. MaxFiles -> Seq(Packet \cup {Header(f) : f \in 1 .. MaxFiles})]
    <3>1. file \in 1 .. MaxFiles /\ output[file] \in Seq(Packet \cup {Header(f) : f \in 1 .. MaxFiles})
      BY <1>25, AtWork, Open DEF WriterWrite, Ended
    <3>2. Append(output[file], FrontItem(outq)) \in Seq(Packet \cup {Header(f) : f \in 1 .. MaxFiles})
      BY <2>1, <3>1, AppendFacts
    <3> QED
      BY <1>25, <3>2, Types DEF WriterWrite
  <2> QED
    BY <1>25, <2>1, <2>2 DEF WriterWrite, TypeOK, mainVars
<1>26. CASE UNCHANGED vars
  BY <1>26 DEF vars, mainVars, queueVars, TypeOK
<1> QED
  BY <1>1, <1>2, <1>3, <1>4, <1>5, <1>6, <1>7, <1>8, <1>9, <1>10, <1>11, <1>12, <1>13,
     <1>14, <1>15, <1>16, <1>17, <1>18, <1>19, <1>20, <1>21, <1>22, <1>23, <1>24, <1>25,
     <1>26
  DEF Next, Main, Reader, LoadBalancer, FastPath, Writer
-----------------------------------------------------------------------------
(***************************************************************************)
(* Every packet is with a thread it belongs to.                            *)
(***************************************************************************)
LEMMA NextHands ==
  ASSUME TypeOK, HandsOK, PhasesOK, [Next]_vars
  PROVE  HandsOK'
<1> USE DEF HandsOK
<1>lb. lb \in [LB -> LBThread] /\ \A l \in LB : lb[l] \in LBThread
  BY Types
<1>fp. fp \in [FP -> FPThread] /\ \A f \in FP : fp[f] \in FPThread
  BY Types
<1>q. /\ lbq \in [LB -> QueueOf(Packet)] /\ fpq \in [FP -> QueueOf(Packet)]
      /\ \A l \in LB : lbq[l] \in QueueOf(Packet)
      /\ \A f \in FP : fpq[f] \in QueueOf(Packet)
  BY Types
<1>1. CASE UNCHANGED <<lb, fp, lbq, fpq>>
  BY <1>1
<1>2. CASE StartFile
  <2>1. /\ \A l \in LB : lb[l].pc \in Ended /\ lb[l].job = NoPacket
        /\ \A f \in FP : fp[f].pc \in Ended /\ fp[f].job = NoPacket
    <3>1. /\ \A l \in LB : lb[l].pc \in Ended
          /\ \A f \in FP : fp[f].pc \in Ended
      BY <1>2 DEF StartFile, PhasesOK, AfterLBs, AfterFPs, AfterOut
    <3> QED
      BY <3>1 DEF Ended
  <2>2. /\ \A l \in LB : lb'[l].pc = "check" /\ lb'[l].job = NoPacket
        /\ \A f \in FP : fp'[f].pc = "check" /\ fp'[f].job = NoPacket
    <3>1. /\ lb' = [l \in LB |-> [lb[l] EXCEPT !.running = TRUE, !.pc = "check"]]
          /\ fp' = [f \in FP |-> [fp[f] EXCEPT !.running = TRUE, !.pc = "check"]]
      BY <1>2 DEF StartFile
    <3>2. \A l \in LB : lb'[l].pc = "check" /\ lb'[l].job = lb[l].job
      BY <1>lb, <3>1 DEF LBThread
    <3>3. \A f \in FP : fp'[f].pc = "check" /\ fp'[f].job = fp[f].job
      BY <1>fp, <3>1 DEF FPThread
    <3> QED
      BY <2>1, <3>2, <3>3
  <2>3. UNCHANGED <<lbq, fpq>>
    BY <1>2 DEF StartFile, queueVars
  <2>4. /\ \A l \in LB : lb'[l].pc # "push"
        /\ \A f \in FP : fp'[f].pc \notin {"process", "push"}
    BY <2>2
  <2> QED
    BY <2>2, <2>3, <2>4
<1>3. CASE ReaderPush
  <2> DEFINE x == Current
             h == LBFor(x)
  <2>1. x \in ForLB(h) /\ x \in Packet /\ h \in LB
    BY <1>3, Places DEF ReaderPush, PhasesOK, ForLB
  <2>2. lbq' = [lbq EXCEPT ![h] = Push(@, x)]
    BY <1>3 DEF ReaderPush
  <2> HIDE DEF x, h
  <2>3. ASSUME NEW l \in LB PROVE Held(lbq'[l]) \subseteq ForLB(l)
    <3>1. CASE l = h
      <4>1. lbq'[l] = Push(lbq[l], x) /\ x \in ForLB(l)
        BY <1>q, <2>1, <2>2, <3>1
      <4> QED
        BY <1>q, <2>1, <4>1, PushFacts
    <3>2. CASE l # h
      BY <1>q, <2>1, <2>2, <3>2
    <3> QED
      BY <3>1, <3>2
  <2> QED
    BY <1>3, <2>3 DEF ReaderPush
<1>4. CASE StopLB
  <2>1. turn \in LB
    BY <1>4 DEF StopLB, PhasesOK
  <2>2. \A l \in LB : lb'[l].pc = lb[l].pc /\ lb'[l].job = lb[l].job
    BY <1>4, <1>lb, <2>1 DEF StopLB, LBThread
  <2>3. \A l \in LB : Held(lbq'[l]) = Held(lbq[l])
    BY <1>4, <1>q, <2>1, ShutFacts DEF StopLB
  <2> QED
    BY <1>4, <2>2, <2>3 DEF StopLB
<1>5. CASE StopFP
  <2>1. turn \in FP
    BY <1>5 DEF StopFP, PhasesOK
  <2>2. \A f \in FP : fp'[f].pc = fp[f].pc /\ fp'[f].job = fp[f].job
    BY <1>5, <1>fp, <2>1 DEF StopFP, FPThread
  <2>3. \A f \in FP : Held(fpq'[f]) = Held(fpq[f])
    BY <1>5, <1>q, <2>1, ShutFacts DEF StopFP
  <2> QED
    BY <1>5, <2>2, <2>3 DEF StopFP
<1>6. ASSUME NEW l \in LB, LBCheck(l) \/ LBTimeout(l) PROVE HandsOK'
  <2>1. lb'[l].pc # "push" /\ lb'[l].job = NoPacket
    BY <1>6, <1>lb DEF LBCheck, LBTimeout, LBThread
  <2>2. \A k \in LB \ {l} : lb'[k] = lb[k]
    BY <1>6, <1>lb DEF LBCheck, LBTimeout
  <2> QED
    BY <1>6, <2>1, <2>2 DEF LBCheck, LBTimeout, queueVars
<1>7. ASSUME NEW l \in LB, LBPop(l) PROVE HandsOK'
  <2>1. /\ FrontItem(lbq[l]) \in ForLB(l)
        /\ Held(PopFront(lbq[l])) \subseteq ForLB(l)
    BY <1>7, <1>q, PopFacts DEF LBPop
  <2>2. /\ lb'[l].pc = "push" /\ lb'[l].job = FrontItem(lbq[l])
        /\ lbq'[l] = PopFront(lbq[l])
        /\ \A k \in LB \ {l} : lb'[k] = lb[k] /\ lbq'[k] = lbq[k]
    BY <1>7, <1>lb, <1>q DEF LBPop, LBThread
  <2> QED
    BY <1>7, <2>1, <2>2 DEF LBPop
<1>8. ASSUME NEW l \in LB, LBPush(l) PROVE HandsOK'
  <2> DEFINE x == lb[l].job
             g == FPFor(l, x)
  <2>1. x \in ForLB(l) /\ x \in Sent /\ x \in Packet
    BY <1>8, InHands, Places DEF LBPush
  <2>2. g \in FP /\ x \in ForFP(g)
    BY <2>1, Places DEF ForLB, ForFP, FPOf
  <2>3. /\ lb'[l].pc = "check" /\ lb'[l].job = NoPacket
        /\ \A k \in LB \ {l} : lb'[k] = lb[k]
    BY <1>8, <1>lb DEF LBPush, LBThread
  <2>4. fpq' = [fpq EXCEPT ![g] = Push(@, x)] /\ fp' = fp /\ lbq' = lbq
    BY <1>8 DEF LBPush
  <2> HIDE DEF x, g
  <2>5. ASSUME NEW f \in FP PROVE Held(fpq'[f]) \subseteq ForFP(f)
    <3>1. CASE f = g
      <4>1. fpq'[f] = Push(fpq[f], x)
        BY <1>q, <2>2, <2>4, <3>1
      <4> QED
        BY <1>q, <2>1, <2>2, <3>1, <4>1, PushFacts
    <3>2. CASE f # g
      BY <1>q, <2>2, <2>4, <3>2
    <3> QED
      BY <3>1, <3>2
  <2> QED
    BY <2>3, <2>4, <2>5
<1>9. ASSUME NEW f \in FP, FPCheck(f) \/ FPTimeout(f) \/ FPDrop(f) \/ FPPush(f) PROVE HandsOK'
  <2>1. fp'[f].pc \notin {"process", "push"} /\ fp'[f].job = NoPacket
    BY <1>9, <1>fp DEF FPCheck, FPTimeout, FPDrop, FPPush, FPThread
  <2>2. \A k \in FP \ {f} : fp'[k] = fp[k]
    BY <1>9, <1>fp DEF FPCheck, FPTimeout, FPDrop, FPPush
  <2>3. UNCHANGED <<lb, lbq, fpq>>
    BY <1>9 DEF FPCheck, FPTimeout, FPDrop, FPPush, queueVars
  <2> QED
    BY <2>1, <2>2, <2>3
<1>10. ASSUME NEW f \in FP, FPPop(f) PROVE HandsOK'
  <2>1. /\ FrontItem(fpq[f]) \in ForFP(f)
        /\ Held(PopFront(fpq[f])) \subseteq ForFP(f)
    BY <1>10, <1>q, PopFacts DEF FPPop
  <2>2. /\ fp'[f].pc = "process" /\ fp'[f].job = FrontItem(fpq[f])
        /\ fpq'[f] = PopFront(fpq[f])
        /\ \A k \in FP \ {f} : fp'[k] = fp[k] /\ fpq'[k] = fpq[k]
    BY <1>10, <1>fp, <1>q DEF FPPop, FPThread
  <2> QED
    BY <1>10, <2>1, <2>2 DEF FPPop
<1>11. ASSUME NEW f \in FP, FPForward(f) PROVE HandsOK'
  <2>1. /\ fp'[f].pc = "push" /\ fp'[f].job = fp[f].job /\ fp[f].pc = "process"
        /\ \A k \in FP \ {f} : fp'[k] = fp[k]
    BY <1>11, <1>fp DEF FPForward, FPThread
  <2> QED
    BY <1>11, <2>1 DEF FPForward, queueVars
<1> QED
  BY <1>1, <1>2, <1>3, <1>4, <1>5, <1>6, <1>7, <1>8, <1>9, <1>10, <1>11
  DEF Next, Main, Reader, LoadBalancer, FastPath, Writer, BeginStop, JoinLB, JoinFP, StopOut,
      FinishFile, ReaderOpen, ReaderSkip, ReaderCount, ReaderEnd, WriterCheck, WriterTimeout,
      WriterWrite, vars, mainVars, queueVars
-----------------------------------------------------------------------------
(***************************************************************************)
(* Order: the packets of a fast path never overtake one another.           *)
(***************************************************************************)
\* One packet moves up one place, ahead of all that stay behind.
LEMMA MoveUp ==
  ASSUME Chain(Upstream, Bad), NEW k \in 1 .. 5, NEW x \in Upstream[k + 1],
         Upstream'[k] \subseteq Upstream[k] \cup {x},
         \A i \in 1 .. 6 : i # k => Upstream'[i] \subseteq Upstream[i],
         \A y \in Upstream'[k + 1] : <<x, y>> \notin Bad
  PROVE  Chain(Upstream', Bad)
<1> DEFINE before == Upstream
           after == Upstream'
<1>1. DOMAIN before = 1 .. 6 /\ DOMAIN after = 1 .. 6
  BY DEF Upstream
<1> HIDE DEF before, after
<1>2. /\ Chain(before, Bad) /\ x \in before[k + 1]
      /\ after[k] \subseteq before[k] \cup {x}
      /\ \A i \in 1 .. 6 : i # k => after[i] \subseteq before[i]
      /\ \A y \in after[k + 1] : <<x, y>> \notin Bad
  BY DEF before, after
<1>3. Chain(after, Bad)
  <2>1. 6 \in Nat /\ k \in 1 .. 6 - 1
    OBVIOUS
  <2> QED
    BY <1>1, <1>2, <2>1, MoveInChain
<1> QED
  BY <1>3 DEF after

LEMMA MoveDown ==
  ASSUME Chain(Downstream, Bad), NEW k \in 1 .. 2, NEW x \in Downstream[k + 1],
         Downstream'[k] \subseteq Downstream[k] \cup {x},
         \A i \in 1 .. 3 : i # k => Downstream'[i] \subseteq Downstream[i],
         \A y \in Downstream'[k + 1] : <<x, y>> \notin Bad
  PROVE  Chain(Downstream', Bad)
<1> DEFINE before == Downstream
           after == Downstream'
<1>1. DOMAIN before = 1 .. 3 /\ DOMAIN after = 1 .. 3
  BY DEF Downstream
<1> HIDE DEF before, after
<1>2. /\ Chain(before, Bad) /\ x \in before[k + 1]
      /\ after[k] \subseteq before[k] \cup {x}
      /\ \A i \in 1 .. 3 : i # k => after[i] \subseteq before[i]
      /\ \A y \in after[k + 1] : <<x, y>> \notin Bad
  BY DEF before, after
<1>3. Chain(after, Bad)
  <2>1. 3 \in Nat /\ k \in 1 .. 3 - 1
    OBVIOUS
  <2> QED
    BY <1>1, <1>2, <2>1, MoveInChain
<1> QED
  BY <1>3 DEF after

\* The places, by what is in them.
LEMMA AtPlaces ==
  /\ \A x : x \in InWork <=> \E f \in FP : fp[f].pc = "process" /\ x = fp[f].job
  /\ \A x : x \in AtFP <=> \E f \in FP : x \in Held(fpq[f])
  /\ \A x : x \in AtLB <=> \E l \in LB : lb[l].pc = "push" /\ x = lb[l].job
  /\ \A x : x \in ToLB <=> \E l \in LB : x \in Held(lbq[l])
  /\ \A x : x \in InHand <=> \E f \in FP : fp[f].pc = "push" /\ x = fp[f].job
  BY DEF InWork, Processing, AtFP, AtLB, ToLB, InHand, Pushing

LEMMA AtPlacesNext ==
  /\ \A x : x \in InWork' <=> \E f \in FP : fp'[f].pc = "process" /\ x = fp'[f].job
  /\ \A x : x \in AtFP' <=> \E f \in FP : x \in Held(fpq'[f])
  /\ \A x : x \in AtLB' <=> \E l \in LB : lb'[l].pc = "push" /\ x = lb'[l].job
  /\ \A x : x \in ToLB' <=> \E l \in LB : x \in Held(lbq'[l])
  /\ \A x : x \in InHand' <=> \E f \in FP : fp'[f].pc = "push" /\ x = fp'[f].job
  BY DEF InWork, Processing, AtFP, AtLB, ToLB, InHand, Pushing


\* The places by number.
LEMMA ByNumber ==
  /\ Upstream[1] = Decided /\ Upstream[2] = InWork /\ Upstream[3] = AtFP
  /\ Upstream[4] = AtLB /\ Upstream[5] = ToLB /\ Upstream[6] = Unread
  /\ Downstream[1] = Written /\ Downstream[2] = Held(outq) /\ Downstream[3] = InHand
  /\ Upstream'[1] = Decided' /\ Upstream'[2] = InWork' /\ Upstream'[3] = AtFP'
  /\ Upstream'[4] = AtLB' /\ Upstream'[5] = ToLB' /\ Upstream'[6] = Unread'
  /\ Downstream'[1] = Written' /\ Downstream'[2] = Held(outq') /\ Downstream'[3] = InHand'
  BY DEF Upstream, Downstream

\* A step that changes none of these keeps the order.
LEMMA SameOrder ==
  ASSUME OrderOK, UNCHANGED <<file, Decided, Written, Unread, InWork, AtFP, AtLB, ToLB, InHand>>,
         \A l \in LB : lbq'[l].buf = lbq[l].buf,
         \A f \in FP : fpq'[f].buf = fpq[f].buf,
         outq'.buf = outq.buf, UNCHANGED output
  PROVE  OrderOK'
<1>1. Upstream' = Upstream
  BY DEF Upstream
<1>2. Downstream' = Downstream
  BY DEF Downstream, Held
<1> QED
  BY <1>1, <1>2 DEF OrderOK

LEMMA NextOrder ==
  ASSUME TypeOK, HandsOK, PhasesOK, OrderOK, VerdictsOK, [Next]_vars
  PROVE  OrderOK'
<1>lb. \A l \in LB : lb[l] \in LBThread
  BY Types
<1>fp. \A f \in FP : fp[f] \in FPThread
  BY Types
<1>q. /\ lbq \in [LB -> QueueOf(Packet)] /\ fpq \in [FP -> QueueOf(Packet)]
      /\ \A l \in LB : lbq[l] \in QueueOf(Packet)
      /\ \A f \in FP : fpq[f] \in QueueOf(Packet)
      /\ outq \in QueueOf(Packet)
  BY Types
<1>o. /\ Chain(Upstream, Bad) /\ Chain(Downstream, Bad)
      /\ \A l \in LB : InOrder(lbq[l].buf, Bad)
      /\ \A f \in FP : InOrder(fpq[f].buf, Bad)
      /\ InOrder(outq.buf, Bad)
      /\ file # 0 => InOrder(output[file], Bad)
  BY DEF OrderOK
<1>n. /\ UNCHANGED verdict => UNCHANGED Decided
      /\ UNCHANGED <<file, output>> => UNCHANGED Written
      /\ UNCHANGED <<file, reader>> => UNCHANGED Unread
      /\ UNCHANGED fp => UNCHANGED <<InWork, InHand>>
      /\ UNCHANGED fpq => UNCHANGED AtFP
      /\ UNCHANGED lb => UNCHANGED AtLB
      /\ UNCHANGED lbq => UNCHANGED ToLB
  BY DEF Decided, Written, Unread, InWork, InHand, Pushing, Processing, AtFP, AtLB, ToLB
<1>1. CASE UNCHANGED <<verdict, file, reader, output, lb, fp, lbq, fpq, outq>>
  BY <1>1, <1>n, SameOrder
<1>2. CASE StartFile
  <2>1. UNCHANGED <<verdict, output, lbq, fpq, outq>> /\ file' = file + 1 /\ reader'.next = 1
        /\ file < MaxFiles /\ stage = "idle"
    BY <1>2 DEF StartFile, queueVars
  <2>2. /\ \A l \in LB : lb[l].pc # "push" /\ lb'[l].pc # "push"
        /\ \A f \in FP : /\ fp[f].pc \notin {"process", "push"}
                         /\ fp'[f].pc \notin {"process", "push"}
    <3>1. /\ lb' = [l \in LB |-> [lb[l] EXCEPT !.running = TRUE, !.pc = "check"]]
          /\ fp' = [f \in FP |-> [fp[f] EXCEPT !.running = TRUE, !.pc = "check"]]
      BY <1>2 DEF StartFile
    <3>2. \A l \in LB : lb'[l].pc = "check"
      BY <1>lb, <3>1 DEF LBThread
    <3>3. \A f \in FP : fp'[f].pc = "check"
      BY <1>fp, <3>1 DEF FPThread
    <3>4. /\ \A l \in LB : lb[l].pc \in Ended
          /\ \A f \in FP : fp[f].pc \in Ended
      BY <2>1 DEF PhasesOK, AfterLBs, AfterFPs, AfterOut
    <3> QED
      BY <3>2, <3>3, <3>4 DEF Ended
  <2>3. UNCHANGED <<InWork, InHand, AtLB>>
    BY <2>2 DEF InWork, InHand, Pushing, Processing, AtLB
  <2>4. output'[file'] = <<>> /\ file' # 0
    <3>1. file + 1 \in 1 .. MaxFiles /\ file + 1 > file /\ file + 1 # 0
      BY <2>1, Types, Packets
    <3> QED
      BY <2>1, <3>1 DEF PhasesOK
  <2>5. Written' = {} /\ InOrder(output'[file'], Bad)
    <3>1. 1 .. 0 = {} /\ Len(<<>>) = 0
      OBVIOUS
    <3> QED
      BY <2>4, <3>1 DEF Written, InOrder
  <2>6. Unread' \subseteq Unread
    <3>1. ASSUME NEW p \in Packet, p[1] > file + 1 \/ (p[1] = file + 1 /\ p[2] >= 1) PROVE p[1] > file
      BY <3>1, Types, Packets
    <3> QED
      BY <2>1, <3>1 DEF Unread
  <2>7. Chain(Upstream', Bad)
    <3>1. /\ DOMAIN Upstream = DOMAIN Upstream'
          /\ \A i \in DOMAIN Upstream' : Upstream'[i] \subseteq Upstream[i]
      BY <1>n, <2>1, <2>3, <2>6 DEF Upstream
    <3> QED
      BY <1>o, <3>1, LeaveChain
  <2>8. Chain(Downstream', Bad)
    <3>1. /\ DOMAIN Downstream = DOMAIN Downstream'
          /\ \A i \in DOMAIN Downstream' : Downstream'[i] \subseteq Downstream[i]
      BY <2>1, <2>3, <2>5 DEF Downstream
    <3> QED
      BY <1>o, <3>1, LeaveChain
  <2> QED
    BY <1>o, <2>1, <2>5, <2>7, <2>8 DEF OrderOK
<1>3. CASE ReaderSkip
  <2>1. UNCHANGED <<verdict, file, output, lb, fp, lbq, fpq, outq>>
    BY <1>3 DEF ReaderSkip, mainVars, queueVars
  <2>2. Unread' \subseteq Unread
    <3>1. reader'.next = reader.next + 1
      BY <1>3 DEF ReaderSkip, TypeOK
    <3>2. ASSUME NEW p \in Packet, p[2] >= reader.next + 1 PROVE p[2] >= reader.next
      BY <3>2, Types, Packets
    <3> QED
      BY <2>1, <3>1, <3>2 DEF Unread
  <2>3. /\ DOMAIN Upstream = DOMAIN Upstream'
        /\ \A i \in DOMAIN Upstream' : Upstream'[i] \subseteq Upstream[i]
    BY <1>n, <2>1, <2>2 DEF Upstream
  <2>4. Chain(Upstream', Bad)
    BY <1>o, <2>3, LeaveChain
  <2>5. Downstream' = Downstream
    BY <1>n, <2>1 DEF Downstream
  <2> QED
    BY <1>o, <2>1, <2>4, <2>5 DEF OrderOK
<1>4. CASE ReaderPush
  <2> DEFINE x == Current
             h == LBFor(x)
  <2>1. x \in Sent /\ x \in Packet /\ h \in LB
    BY <1>4, Places DEF ReaderPush, PhasesOK
  <2>2. lbq' = [lbq EXCEPT ![h] = Push(@, x)] /\ reader'.next = reader.next + 1
    BY <1>4 DEF ReaderPush
  <2>3. UNCHANGED <<verdict, file, output, lb, fp, fpq, outq>>
    BY <1>4 DEF ReaderPush, mainVars
  <2>4. x \in Unread /\ Unread' \subseteq Unread /\ \A y \in Unread' : <<x, y>> \notin Bad
    <3>1. x[1] = file /\ x[2] = reader.next
      BY DEF Current
    <3>2. ASSUME NEW y \in Unread' PROVE y \in Unread /\ Before(x, y)
      <4>1. y \in Packet /\ (y[1] > file \/ (y[1] = file /\ y[2] >= reader.next + 1))
        BY <2>2, <2>3, <3>2 DEF Unread
      <4>2. y[1] > file \/ (y[1] = file /\ y[2] >= reader.next /\ reader.next < y[2])
        BY <4>1, Types, Packets
      <4>3. file < y[1] \/ (file = y[1] /\ reader.next < y[2])
        BY <4>1, <4>2, Types, Packets
      <4> QED
        BY <3>1, <4>1, <4>2, <4>3 DEF Unread, Before
    <3>3. x \in Unread
      BY <2>1, <3>1, Types DEF Unread
    <3> HIDE DEF x
    <3> QED
      BY <3>2, <3>3, BadPairs
  <2> HIDE DEF x, h
  <2>5. Held(lbq'[h]) \subseteq Held(lbq[h]) \cup {x}
    BY <1>q, <2>1, <2>2, PushFacts
  <2>6. \A l \in LB \ {h} : lbq'[l] = lbq[l]
    BY <1>q, <2>2
  <2>7. ToLB' \subseteq ToLB \cup {x}
    BY <2>5, <2>6, AtPlaces, AtPlacesNext
  <2>8. Chain(Upstream', Bad)
    <3>1. /\ Upstream'[5] \subseteq Upstream[5] \cup {x}
          /\ \A i \in 1 .. 6 : i # 5 => Upstream'[i] \subseteq Upstream[i]
      BY <1>n, <2>3, <2>4, <2>7, ByNumber
    <3>2. x \in Upstream[5 + 1] /\ \A y \in Upstream'[5 + 1] : <<x, y>> \notin Bad
      BY <2>4, ByNumber
    <3> QED
      BY <1>o, <3>1, <3>2, MoveUp
  <2>9. Downstream' = Downstream
    BY <1>n, <2>3 DEF Downstream
  <2>10. InOrder(lbq'[h].buf, Bad)
    <3>1. \A y \in Held(lbq[h]) : <<y, x>> \notin Bad
      <4>1. \A y \in Upstream[5], z \in Upstream[6] : <<y, z>> \notin Bad
        <5>1. 5 \in DOMAIN Upstream /\ 6 \in DOMAIN Upstream /\ 5 < 6
          BY DEF Upstream
        <5> QED
          BY <1>o, <5>1 DEF Chain
      <4> QED
        BY <2>1, <2>4, <4>1, ByNumber, AtPlaces
    <3>2. lbq'[h] = Push(lbq[h], x)
      BY <1>q, <2>1, <2>2
    <3> QED
      BY <1>q, <1>o, <2>1, <3>1, <3>2, PushOrder
  <2> QED
    BY <1>o, <2>3, <2>6, <2>8, <2>9, <2>10 DEF OrderOK
<1>5. CASE StopLB
  <2>1. UNCHANGED <<verdict, file, reader, output, fp, fpq, outq>>
    BY <1>5 DEF StopLB
  <2>2. turn \in LB
    BY <1>5 DEF StopLB, PhasesOK
  <2>3. \A l \in LB : lb'[l].pc = lb[l].pc /\ lb'[l].job = lb[l].job
    BY <1>5, <1>lb, <2>2 DEF StopLB, LBThread, TypeOK
  <2>4. \A l \in LB : lbq'[l].buf = lbq[l].buf /\ Held(lbq'[l]) = Held(lbq[l])
    BY <1>5, <1>q, <2>2, ShutFacts DEF StopLB
  <2>5. UNCHANGED <<AtLB, ToLB>>
    BY <2>3, <2>4 DEF AtLB, ToLB
  <2> QED
    BY <1>n, <2>1, <2>4, <2>5, SameOrder
<1>6. CASE StopFP
  <2>1. UNCHANGED <<verdict, file, reader, output, lb, lbq, outq>>
    BY <1>6 DEF StopFP
  <2>2. turn \in FP
    BY <1>6 DEF StopFP, PhasesOK
  <2>3. \A f \in FP : fp'[f].pc = fp[f].pc /\ fp'[f].job = fp[f].job
    BY <1>6, <1>fp, <2>2 DEF StopFP, FPThread, TypeOK
  <2>4. \A f \in FP : fpq'[f].buf = fpq[f].buf /\ Held(fpq'[f]) = Held(fpq[f])
    BY <1>6, <1>q, <2>2, ShutFacts DEF StopFP
  <2>5. UNCHANGED <<InWork, AtFP, InHand>>
    BY <2>3, <2>4 DEF InWork, Processing, AtFP, InHand, Pushing
  <2> QED
    BY <1>n, <2>1, <2>4, <2>5, SameOrder
<1>7. CASE StopOut
  <2>1. UNCHANGED <<verdict, file, reader, output, lb, fp, lbq, fpq>> /\ outq'.buf = outq.buf
    BY <1>7, <1>q, ShutFacts DEF StopOut
  <2> QED
    BY <1>n, <2>1, SameOrder
<1>8. ASSUME NEW l \in LB, LBCheck(l) \/ LBTimeout(l) PROVE OrderOK'
  <2>1. UNCHANGED <<verdict, file, reader, output, fp, lbq, fpq, outq>>
    BY <1>8 DEF LBCheck, LBTimeout, mainVars, queueVars
  <2>2. lb[l].pc # "push" /\ lb'[l].pc # "push" /\ \A k \in LB \ {l} : lb'[k] = lb[k]
    BY <1>8, <1>lb DEF LBCheck, LBTimeout, LBThread, TypeOK
  <2>3. UNCHANGED AtLB
    BY <2>2 DEF AtLB
  <2> QED
    BY <1>n, <2>1, <2>3, SameOrder
<1>9. ASSUME NEW f \in FP, FPCheck(f) \/ FPTimeout(f) PROVE OrderOK'
  <2>1. UNCHANGED <<verdict, file, reader, output, lb, lbq, fpq, outq>>
    BY <1>9 DEF FPCheck, FPTimeout, mainVars, queueVars
  <2>2. /\ fp[f].pc \notin {"process", "push"} /\ fp'[f].pc \notin {"process", "push"}
        /\ \A k \in FP \ {f} : fp'[k] = fp[k]
    BY <1>9, <1>fp DEF FPCheck, FPTimeout, FPThread, TypeOK
  <2>3. UNCHANGED <<InWork, InHand>>
    BY <2>2 DEF InWork, InHand, Pushing, Processing
  <2> QED
    BY <1>n, <2>1, <2>3, SameOrder
<1>10. ASSUME NEW l \in LB, LBPop(l) PROVE OrderOK'
  <2> DEFINE x == FrontItem(lbq[l])
  <2>1. UNCHANGED <<verdict, file, reader, output, fp, fpq, outq>>
    BY <1>10 DEF LBPop, mainVars
  <2>2. /\ lb'[l].pc = "push" /\ lb'[l].job = x /\ lbq'[l] = PopFront(lbq[l])
        /\ \A k \in LB \ {l} : lb'[k] = lb[k] /\ lbq'[k] = lbq[k]
    BY <1>10, <1>lb, <1>q DEF LBPop, LBThread, TypeOK
  <2>3. /\ HasItem(lbq[l]) /\ x \in Held(lbq[l]) /\ Held(lbq'[l]) \subseteq Held(lbq[l])
        /\ x \in ForLB(l) /\ x \in Sent
    <3>1. HasItem(lbq[l]) /\ x \in Held(lbq[l]) /\ Held(lbq'[l]) \subseteq Held(lbq[l])
      BY <1>10, <1>q, <2>2, PopFacts DEF LBPop
    <3> HIDE DEF x
    <3>2. x \in ForLB(l)
      BY <3>1 DEF HandsOK
    <3> QED
      BY <3>1, <3>2 DEF ForLB
  <2>4. /\ InOrder(lbq'[l].buf, Bad)
        /\ \A y \in Held(lbq'[l]) : <<x, y>> \notin Bad
    BY <1>q, <1>o, <2>2, <2>3, PopOrder
  <2> HIDE DEF x
  <2>5. AtLB' \subseteq AtLB \cup {x} /\ ToLB' \subseteq ToLB /\ x \in ToLB
    BY <2>2, <2>3, AtPlaces, AtPlacesNext
  <2>6. ASSUME NEW y \in ToLB' PROVE <<x, y>> \notin Bad
    <3>1. PICK k \in LB : y \in Held(lbq'[k])
      BY <2>6, AtPlacesNext
    <3>2. CASE k # l
      <4>1. y \in ForLB(k)
        BY <2>2, <3>1, <3>2 DEF HandsOK
      <4> QED
        BY <2>3, <3>2, <4>1, SameLB DEF ForLB, Bad
    <3> QED
      BY <2>4, <3>1, <3>2
  <2>7. Chain(Upstream', Bad)
    <3>1. /\ Upstream'[4] \subseteq Upstream[4] \cup {x}
          /\ \A i \in 1 .. 6 : i # 4 => Upstream'[i] \subseteq Upstream[i]
      BY <1>n, <2>1, <2>5, ByNumber
    <3>2. x \in Upstream[4 + 1] /\ \A y \in Upstream'[4 + 1] : <<x, y>> \notin Bad
      BY <2>5, <2>6, ByNumber
    <3> QED
      BY <1>o, <3>1, <3>2, MoveUp
  <2>8. Downstream' = Downstream
    BY <1>n, <2>1 DEF Downstream
  <2> QED
    BY <1>o, <2>1, <2>2, <2>4, <2>7, <2>8 DEF OrderOK
<1>11. ASSUME NEW l \in LB, LBPush(l) PROVE OrderOK'
  <2> DEFINE x == lb[l].job
             g == FPFor(l, x)
  <2>1. UNCHANGED <<verdict, file, reader, output, fp, lbq, outq>>
    BY <1>11 DEF LBPush, mainVars
  <2>2. x \in ForLB(l) /\ x \in Sent /\ x \in Packet /\ lb[l].pc = "push"
    BY <1>11, InHands, Places DEF LBPush
  <2>3. g \in FP /\ FPOf(x) = g
    BY <2>2, Places DEF ForLB, FPOf
  <2>4. /\ lb'[l].pc = "check" /\ \A k \in LB \ {l} : lb'[k] = lb[k]
        /\ fpq' = [fpq EXCEPT ![g] = Push(@, x)]
    BY <1>11, <1>lb DEF LBPush, LBThread, TypeOK
  <2> HIDE DEF x, g
  <2>5. fpq'[g] = Push(fpq[g], x) /\ \A f \in FP \ {g} : fpq'[f] = fpq[f]
    BY <1>q, <2>3, <2>4
  <2>6. Held(fpq'[g]) \subseteq Held(fpq[g]) \cup {x}
    BY <1>q, <2>2, <2>3, <2>5, PushFacts
  <2>7. AtFP' \subseteq AtFP \cup {x} /\ AtLB' \subseteq AtLB /\ x \in AtLB
    BY <2>2, <2>4, <2>5, <2>6, AtPlaces, AtPlacesNext DEF x
  <2>8. ASSUME NEW y \in AtLB' PROVE <<x, y>> \notin Bad
    <3>1. PICK k \in LB : lb'[k].pc = "push" /\ y = lb'[k].job
      BY <2>8, AtPlacesNext
    <3>2. k # l /\ y \in ForLB(k)
      BY <2>4, <3>1, InHands
    <3> QED
      BY <2>2, <3>2, SameLB DEF ForLB, Bad
  <2>9. Chain(Upstream', Bad)
    <3>1. /\ Upstream'[3] \subseteq Upstream[3] \cup {x}
          /\ \A i \in 1 .. 6 : i # 3 => Upstream'[i] \subseteq Upstream[i]
      BY <1>n, <2>1, <2>7, ByNumber
    <3>2. x \in Upstream[3 + 1] /\ \A y \in Upstream'[3 + 1] : <<x, y>> \notin Bad
      BY <2>7, <2>8, ByNumber
    <3> QED
      BY <1>o, <3>1, <3>2, MoveUp
  <2>10. Downstream' = Downstream
    BY <1>n, <2>1 DEF Downstream
  <2>11. InOrder(fpq'[g].buf, Bad)
    <3>1. \A y \in Held(fpq[g]) : <<y, x>> \notin Bad
      <4>1. \A y \in Upstream[3], z \in Upstream[4] : <<y, z>> \notin Bad
        <5>1. 3 \in DOMAIN Upstream /\ 4 \in DOMAIN Upstream /\ 3 < 4
          BY DEF Upstream
        <5> QED
          BY <1>o, <5>1 DEF Chain
      <4> QED
        BY <2>3, <2>7, <4>1, ByNumber, AtPlaces
    <3>2. fpq[g] \in QueueOf(Packet) /\ InOrder(fpq[g].buf, Bad) /\ x \in Packet
      BY <1>q, <1>o, <2>2, <2>3
    <3>3. InOrder(Push(fpq[g], x).buf, Bad)
      BY <3>1, <3>2, PushOrder
    <3> QED
      BY <2>5, <3>3
  <2> QED
    BY <1>o, <2>1, <2>5, <2>9, <2>10, <2>11 DEF OrderOK
<1>12. ASSUME NEW f \in FP, FPPop(f) PROVE OrderOK'
  <2> DEFINE x == FrontItem(fpq[f])
  <2>1. UNCHANGED <<verdict, file, reader, output, lb, lbq, outq>>
    BY <1>12 DEF FPPop, mainVars
  <2>2. /\ fp[f].pc = "pop" /\ fp'[f].pc = "process" /\ fp'[f].job = x
        /\ fpq'[f] = PopFront(fpq[f])
        /\ \A k \in FP \ {f} : fp'[k] = fp[k] /\ fpq'[k] = fpq[k]
    BY <1>12, <1>fp, <1>q DEF FPPop, FPThread, TypeOK
  <2>3. /\ HasItem(fpq[f]) /\ x \in Held(fpq[f]) /\ Held(fpq'[f]) \subseteq Held(fpq[f])
        /\ x \in ForFP(f)
    <3>1. HasItem(fpq[f]) /\ fpq[f] \in QueueOf(Packet)
      BY <1>12, <1>q DEF FPPop
    <3>2. x \in Held(fpq[f]) /\ Held(PopFront(fpq[f])) \subseteq Held(fpq[f])
      BY <3>1, PopFacts
    <3>3. Held(fpq[f]) \subseteq ForFP(f)
      BY DEF HandsOK
    <3> QED
      BY <2>2, <3>1, <3>2, <3>3
  <2>4. /\ InOrder(fpq'[f].buf, Bad)
        /\ \A y \in Held(fpq'[f]) : <<x, y>> \notin Bad
    BY <1>q, <1>o, <2>2, <2>3, PopOrder
  <2> HIDE DEF x
  <2>5. InWork' \subseteq InWork \cup {x} /\ AtFP' \subseteq AtFP /\ x \in AtFP
    BY <2>2, <2>3, AtPlaces, AtPlacesNext
  <2>6. ASSUME NEW y \in AtFP' PROVE <<x, y>> \notin Bad
    <3>1. PICK k \in FP : y \in Held(fpq'[k])
      BY <2>6, AtPlacesNext
    <3>2. CASE k # f
      <4>1. y \in ForFP(k)
        BY <2>2, <3>1, <3>2 DEF HandsOK
      <4> QED
        BY <2>3, <3>2, <4>1 DEF ForFP, Bad
    <3> QED
      BY <2>4, <3>1, <3>2
  <2>7. Chain(Upstream', Bad)
    <3>1. /\ Upstream'[2] \subseteq Upstream[2] \cup {x}
          /\ \A i \in 1 .. 6 : i # 2 => Upstream'[i] \subseteq Upstream[i]
      BY <1>n, <2>1, <2>5, ByNumber
    <3>2. x \in Upstream[2 + 1] /\ \A y \in Upstream'[2 + 1] : <<x, y>> \notin Bad
      BY <2>5, <2>6, ByNumber
    <3> QED
      BY <1>o, <3>1, <3>2, MoveUp
  <2>8. InHand' = InHand
    BY <2>2 DEF InHand, Pushing
  <2>9. Downstream' = Downstream
    BY <1>n, <2>1, <2>8 DEF Downstream
  <2> QED
    BY <1>o, <2>1, <2>2, <2>4, <2>7, <2>9 DEF OrderOK
<1>13. ASSUME NEW f \in FP, FPDrop(f) \/ FPForward(f) PROVE Chain(Upstream', Bad)
  <2> DEFINE x == fp[f].job
  <2>1. UNCHANGED <<file, reader, lb, lbq, fpq>>
    BY <1>13 DEF FPDrop, FPForward, mainVars, queueVars
  <2>2. /\ fp[f].pc = "process" /\ fp'[f].pc \in {"check", "push"}
        /\ \A k \in FP \ {f} : fp'[k] = fp[k]
        /\ \A p \in Packet \ {x} : verdict'[p] = verdict[p]
    BY <1>13, <1>fp DEF FPDrop, FPForward, FPThread, TypeOK
  <2>3. x \in ForFP(f) /\ x \in InWork
    BY <2>2, InHands, AtPlaces
  <2> HIDE DEF x
  <2>4. Decided' \subseteq Decided \cup {x} /\ InWork' \subseteq InWork
    <3>1. Decided' \subseteq Decided \cup {x}
      BY <2>2 DEF Decided
    <3> QED
      BY <2>2, <3>1, AtPlaces, AtPlacesNext
  <2>5. ASSUME NEW y \in InWork' PROVE <<x, y>> \notin Bad
    <3>1. PICK k \in FP : fp'[k].pc = "process" /\ y = fp'[k].job
      BY <2>5, AtPlacesNext
    <3>2. k # f /\ y \in ForFP(k)
      BY <2>2, <3>1, InHands
    <3> QED
      BY <2>3, <3>2 DEF ForFP, Bad
  <2>6. /\ Upstream'[1] \subseteq Upstream[1] \cup {x}
        /\ \A i \in 1 .. 6 : i # 1 => Upstream'[i] \subseteq Upstream[i]
    BY <1>n, <2>1, <2>4, ByNumber
  <2>7. x \in Upstream[1 + 1] /\ \A y \in Upstream'[1 + 1] : <<x, y>> \notin Bad
    BY <2>3, <2>5, ByNumber
  <2> QED
    BY <1>o, <2>6, <2>7, MoveUp
<1>14. ASSUME NEW f \in FP, FPDrop(f) PROVE OrderOK'
  <2>1. UNCHANGED <<file, output, lbq, fpq, outq>>
    BY <1>14 DEF FPDrop, mainVars, queueVars
  <2>2. fp[f].pc = "process" /\ fp'[f].pc = "check" /\ \A k \in FP \ {f} : fp'[k] = fp[k]
    BY <1>14, <1>fp DEF FPDrop, FPThread, TypeOK
  <2>3. InHand' = InHand
    BY <2>2 DEF InHand, Pushing
  <2>4. Downstream' = Downstream
    BY <1>n, <2>1, <2>3 DEF Downstream
  <2> QED
    BY <1>o, <1>13, <1>14, <2>1, <2>4 DEF OrderOK
<1>15. ASSUME NEW f \in FP, FPForward(f) PROVE OrderOK'
  <2> DEFINE x == fp[f].job
             before == Downstream
             after == Downstream'
  <2>1. UNCHANGED <<file, output, lbq, fpq, outq>>
    BY <1>15 DEF FPForward, mainVars, queueVars
  <2>2. /\ fp[f].pc = "process" /\ fp'[f].pc = "push" /\ fp'[f].job = x
        /\ \A k \in FP \ {f} : fp'[k] = fp[k]
    BY <1>15, <1>fp DEF FPForward, FPThread, TypeOK
  <2>3. x \in InWork
    BY <2>2, AtPlaces
  <2>4. InHand' \subseteq InHand \cup {x}
    BY <2>2, AtPlaces, AtPlacesNext
  <2> HIDE DEF x
  <2>5. ASSUME NEW y \in Written \cup Held(outq) PROVE <<y, x>> \notin Bad
    <3>1. y \in Upstream[1] /\ x \in Upstream[2]
      BY <2>3, <2>5, ByNumber DEF VerdictsOK, Forwarded, Decided, Sent
    <3>2. 1 \in DOMAIN Upstream /\ 2 \in DOMAIN Upstream /\ 1 < 2
      BY DEF Upstream
    <3> QED
      BY <1>o, <3>1, <3>2 DEF Chain
  <2>6. /\ 3 \in Nat /\ DOMAIN before = 1 .. 3 /\ DOMAIN after = 1 .. 3
        /\ before[1] = Written /\ before[2] = Held(outq) /\ before[3] = InHand
        /\ after[1] = Written /\ after[2] = Held(outq) /\ after[3] = InHand'
    BY <1>n, <2>1 DEF Downstream
  <2>7. Chain(before, Bad)
    BY <1>o
  <2> HIDE DEF before, after
  <2>8. /\ \A i \in 1 .. 3 : i # 3 => /\ after[i] \subseteq before[i]
                                      /\ \A y \in after[i] : <<y, x>> \notin Bad
        /\ after[3] \subseteq before[3] \cup {x}
    BY <2>4, <2>5, <2>6
  <2>9. Chain(after, Bad)
    BY <2>6, <2>7, <2>8, EnterChain
  <2> QED
    BY <1>o, <1>13, <1>15, <2>1, <2>9 DEF OrderOK, after
<1>16. ASSUME NEW f \in FP, FPPush(f) PROVE OrderOK'
  <2> DEFINE x == fp[f].job
  <2>1. UNCHANGED <<verdict, file, reader, output, lb, lbq, fpq>>
    BY <1>16 DEF FPPush, mainVars
  <2>2. /\ fp[f].pc = "push" /\ fp'[f].pc = "check" /\ \A k \in FP \ {f} : fp'[k] = fp[k]
        /\ outq' = Push(outq, x)
    BY <1>16, <1>fp DEF FPPush, FPThread, TypeOK
  <2>3. x \in ForFP(f) /\ x \in InHand /\ x \in Packet
    BY <2>2, InHands, AtPlaces DEF Sent
  <2>4. InHand' \subseteq InHand /\ UNCHANGED InWork
    <3>1. InHand' \subseteq InHand
      BY <2>2, AtPlaces, AtPlacesNext
    <3>2. {g \in FP : fp'[g].pc = "process"} = {g \in FP : fp[g].pc = "process"}
      BY <2>2
    <3> QED
      BY <2>2, <3>1, <3>2 DEF InWork, Processing
  <2> HIDE DEF x
  <2>5. Held(outq') \subseteq Held(outq) \cup {x}
    BY <1>q, <2>2, <2>3, PushFacts
  <2>6. ASSUME NEW y \in InHand' PROVE <<x, y>> \notin Bad
    <3>1. PICK k \in FP : fp'[k].pc = "push" /\ y = fp'[k].job
      BY <2>6, AtPlacesNext
    <3>2. k # f /\ y \in ForFP(k)
      BY <2>2, <3>1, InHands
    <3> QED
      BY <2>3, <3>2 DEF ForFP, Bad
  <2>7. Chain(Downstream', Bad)
    <3>1. /\ Downstream'[2] \subseteq Downstream[2] \cup {x}
          /\ \A i \in 1 .. 3 : i # 2 => Downstream'[i] \subseteq Downstream[i]
      BY <1>n, <2>1, <2>4, <2>5, ByNumber
    <3>2. x \in Downstream[2 + 1] /\ \A y \in Downstream'[2 + 1] : <<x, y>> \notin Bad
      BY <2>3, <2>6, ByNumber
    <3> QED
      BY <1>o, <3>1, <3>2, MoveDown
  <2>8. Upstream' = Upstream
    BY <1>n, <2>1, <2>4 DEF Upstream
  <2>9. InOrder(outq'.buf, Bad)
    <3>1. \A y \in Held(outq) : <<y, x>> \notin Bad
      <4>1. 2 \in DOMAIN Downstream /\ 3 \in DOMAIN Downstream /\ 2 < 3
        BY DEF Downstream
      <4> QED
        BY <1>o, <2>3, <4>1, ByNumber DEF Chain
    <3> QED
      BY <1>q, <1>o, <2>2, <2>3, <3>1, PushOrder
  <2> QED
    BY <1>o, <2>1, <2>7, <2>8, <2>9 DEF OrderOK
<1>17. CASE WriterWrite
  <2> DEFINE x == FrontItem(outq)
             S == Packet \cup {Header(f) : f \in 1 .. MaxFiles}
  <2>1. UNCHANGED <<verdict, file, reader, lb, fp, lbq, fpq>>
    BY <1>17 DEF WriterWrite, mainVars
  <2>2. /\ HasItem(outq) /\ outq' = PopFront(outq)
        /\ output' = [output EXCEPT ![file] = Append(@, x)]
    BY <1>17 DEF WriterWrite
  <2>3. /\ x \in Held(outq) /\ Held(outq') \subseteq Held(outq) /\ x \in Packet
    BY <1>q, <2>2, PopFacts
  <2>4. /\ InOrder(outq'.buf, Bad)
        /\ \A y \in Held(outq') : <<x, y>> \notin Bad
    BY <1>q, <1>o, <2>2, PopOrder
  <2> HIDE DEF x
  <2>5. /\ file \in 1 .. MaxFiles /\ file # 0 /\ output[file] \in Seq(S)
        /\ output'[file] = Append(output[file], x)
    BY <1>17, <2>2, AtWork, Open, Types DEF WriterWrite, Ended
  <2>6. Written' \subseteq Written \cup {x}
    <3>1. \A k \in 1 .. Len(output'[file]) :
             output'[file][k] = x \/ \E i \in 1 .. Len(output[file]) : output'[file][k] = output[file][i]
      BY <2>3, <2>5, AppendFacts
    <3> QED
      BY <2>1, <2>5, <3>1 DEF Written
  <2>7. InOrder(output'[file], Bad)
    <3>1. ASSUME NEW k \in 1 .. Len(output[file]) PROVE <<output[file][k], x>> \notin Bad
      <4>1. CASE output[file][k] \in Packet
        <5>1. output[file][k] \in Written
          BY <2>5, <4>1 DEF Written
        <5>2. 1 \in DOMAIN Downstream /\ 2 \in DOMAIN Downstream /\ 1 < 2
          BY DEF Downstream
        <5> QED
          BY <1>o, <2>3, <5>1, <5>2, ByNumber DEF Chain
      <4>2. CASE output[file][k] \notin Packet
        BY <4>2, BadPairs, Places
      <4> QED
        BY <4>1, <4>2
    <3>2. x \in S
      BY <2>3
    <3> HIDE DEF S
    <3> QED
      BY <1>o, <2>5, <3>1, <3>2, AppendOrder
  <2>8. Chain(Downstream', Bad)
    <3>1. /\ Downstream'[1] \subseteq Downstream[1] \cup {x}
          /\ \A i \in 1 .. 3 : i # 1 => Downstream'[i] \subseteq Downstream[i]
      BY <1>n, <2>1, <2>3, <2>6, ByNumber
    <3>2. x \in Downstream[1 + 1] /\ \A y \in Downstream'[1 + 1] : <<x, y>> \notin Bad
      BY <2>3, <2>4, ByNumber
    <3> QED
      BY <1>o, <3>1, <3>2, MoveDown
  <2>9. Upstream' = Upstream
    BY <1>n, <2>1 DEF Upstream
  <2> QED
    BY <1>o, <2>1, <2>4, <2>7, <2>8, <2>9 DEF OrderOK
<1>18. CASE ReaderOpen
  <2> DEFINE S == Packet \cup {Header(f) : f \in 1 .. MaxFiles}
  <2>1. UNCHANGED <<verdict, file, lb, fp, lbq, fpq, outq>> /\ reader'.next = reader.next
    BY <1>18 DEF ReaderOpen, mainVars, queueVars, TypeOK
  <2>2. UNCHANGED Unread
    BY <2>1 DEF Unread
  <2>3. CASE UNCHANGED output
    BY <1>n, <2>1, <2>2, <2>3, SameOrder
  <2>4. CASE output' = [output EXCEPT ![file] = Append(@, Header(file))]
    <3>1. /\ file \in 1 .. MaxFiles /\ file # 0 /\ output[file] \in Seq(S)
          /\ output'[file] = Append(output[file], Header(file))
          /\ Header(file) \in S /\ Header(file) \notin Packet
      BY <1>18, <2>4, AtWork, Open, Types, Packets DEF ReaderOpen
    <3>2. UNCHANGED Written
      <4> DEFINE s == output[file]
                 t == output'[file]
      <4>1. /\ Len(s) \in Nat /\ Len(t) = Len(s) + 1 /\ t[Len(s) + 1] \notin Packet
            /\ \A k \in 1 .. Len(s) : t[k] = s[k]
        BY <3>1, AppendFacts
      <4> HIDE DEF s, t
      <4>2. {t[k] : k \in 1 .. Len(t)} \cap Packet = {s[k] : k \in 1 .. Len(s)} \cap Packet
        BY <4>1
      <4> QED
        BY <2>1, <3>1, <4>2 DEF Written, s, t
    <3>3. InOrder(output'[file], Bad)
      <4>1. \A y : <<y, Header(file)>> \notin Bad
        BY <3>1, BadPairs, Places
      <4> HIDE DEF S
      <4> QED
        BY <1>o, <3>1, <4>1, AppendOrder
    <3>4. Upstream' = Upstream /\ Downstream' = Downstream
      BY <1>n, <2>1, <2>2, <3>2 DEF Upstream, Downstream
    <3> QED
      BY <1>o, <2>1, <3>3, <3>4 DEF OrderOK
  <2> QED
    BY <1>18, <2>3, <2>4 DEF ReaderOpen
<1>19. CASE ReaderCount \/ ReaderEnd
  <2>1. UNCHANGED <<verdict, file, output, lb, fp, lbq, fpq, outq>> /\ reader'.next = reader.next
    BY <1>19 DEF ReaderCount, ReaderEnd, mainVars, queueVars, TypeOK
  <2>2. UNCHANGED Unread
    BY <2>1 DEF Unread
  <2> QED
    BY <1>n, <2>1, <2>2, SameOrder
<1> QED
  BY <1>1, <1>2, <1>3, <1>4, <1>5, <1>6, <1>7, <1>8, <1>9, <1>10, <1>11, <1>12, <1>14,
     <1>15, <1>16, <1>17, <1>18, <1>19
  DEF Next, Main, Reader, LoadBalancer, FastPath, Writer, BeginStop,
      JoinLB, JoinFP, FinishFile, WriterCheck, WriterTimeout, vars, mainVars, queueVars
-----------------------------------------------------------------------------
(***************************************************************************)
(* Verdicts.                                                               *)
(***************************************************************************)
\* A packet is decided about once.
LEMMA Undecided ==
  ASSUME HandsOK, OrderOK, VerdictsOK, NEW f \in FP, fp[f].pc = "process", TypeOK
  PROVE  verdict[fp[f].job] = "none"
<1> DEFINE x == fp[f].job
<1>1. x \in Sent /\ x \in Packet /\ x \in InWork
  BY InHands, Places, AtPlaces
<1> HIDE DEF x
<1>2. x \notin Upstream[1]
  <2>1. 1 \in DOMAIN Upstream /\ 2 \in DOMAIN Upstream /\ 1 < 2 /\ Chain(Upstream, Bad)
    BY DEF Upstream, OrderOK
  <2>2. x \in Upstream[2] /\ <<x, x>> \in Bad
    BY <1>1, ByNumber, BadPairs
  <2> QED
    BY <2>1, <2>2 DEF Chain
<1> QED
  BY <1>1, <1>2, ByNumber DEF Decided, x

LEMMA NextVerdicts ==
  ASSUME TypeOK, HandsOK, PhasesOK, OrderOK, VerdictsOK, [Next]_vars
  PROVE  VerdictsOK'
<1>lb. \A l \in LB : lb[l] \in LBThread
  BY Types
<1>fp. \A f \in FP : fp[f] \in FPThread
  BY Types
<1>q. outq \in QueueOf(Packet)
  BY Types
<1>v. /\ Decided \subseteq Sent
      /\ Written \cup Held(outq) \cup InHand \subseteq Forwarded
  BY DEF VerdictsOK
<1>1. ASSUME UNCHANGED verdict,
             Written' \cup Held(outq') \cup InHand' \subseteq Written \cup Held(outq) \cup InHand
      PROVE  VerdictsOK'
  BY <1>v, <1>1 DEF VerdictsOK, Decided, Forwarded
<1>2. CASE UNCHANGED <<verdict, file, output, outq, fp>>
  <2>1. UNCHANGED <<Written, InHand>>
    BY <1>2 DEF Written, InHand, Pushing
  <2> QED
    BY <1>1, <1>2, <2>1
<1>3. CASE StartFile
  <2>1. UNCHANGED <<verdict, output, outq>> /\ file' = file + 1 /\ file < MaxFiles
    BY <1>3 DEF StartFile, queueVars
  <2>2. output'[file'] = <<>>
    <3>1. file + 1 \in 1 .. MaxFiles /\ file + 1 > file
      BY <2>1, Types, Packets
    <3> QED
      BY <2>1, <3>1 DEF PhasesOK
  <2>3. Written' = {}
    <3>1. 1 .. 0 = {} /\ Len(<<>>) = 0
      OBVIOUS
    <3> QED
      BY <2>2, <3>1 DEF Written
  <2>4. InHand' = {}
    <3>1. \A f \in FP : fp'[f].pc = "check"
      BY <1>3, <1>fp DEF StartFile, FPThread
    <3> QED
      BY <3>1 DEF InHand, Pushing
  <2> QED
    BY <1>1, <2>1, <2>3, <2>4
<1>4. CASE StopFP
  <2>1. \A f \in FP : fp'[f].pc = fp[f].pc /\ fp'[f].job = fp[f].job
    BY <1>4, <1>fp DEF StopFP, FPThread, TypeOK, PhasesOK
  <2>2. UNCHANGED <<verdict, file, output, outq>>
    BY <1>4 DEF StopFP
  <2>3. UNCHANGED <<Written, InHand>>
    BY <2>1, <2>2 DEF Written, InHand, Pushing
  <2> QED
    BY <1>1, <2>2, <2>3
<1>5. CASE StopOut
  <2>1. UNCHANGED <<verdict, file, output, fp>> /\ Held(outq') = Held(outq)
    BY <1>5, <1>q, ShutFacts DEF StopOut
  <2>2. UNCHANGED <<Written, InHand>>
    BY <2>1 DEF Written, InHand, Pushing
  <2> QED
    BY <1>1, <2>1, <2>2
<1>6. ASSUME NEW f \in FP, FPCheck(f) \/ FPTimeout(f) \/ FPPop(f) PROVE VerdictsOK'
  <2>1. /\ fp[f].pc # "push" /\ fp'[f].pc # "push"
        /\ \A k \in FP \ {f} : fp'[k] = fp[k]
    BY <1>6, <1>fp DEF FPCheck, FPTimeout, FPPop, FPThread, TypeOK
  <2>2. UNCHANGED <<verdict, file, output, outq>>
    BY <1>6 DEF FPCheck, FPTimeout, FPPop, mainVars, queueVars
  <2>3. UNCHANGED <<Written, InHand>>
    BY <2>1, <2>2 DEF Written, InHand, Pushing
  <2> QED
    BY <1>1, <2>2, <2>3
<1>7. ASSUME NEW f \in FP, FPDrop(f) PROVE VerdictsOK'
  <2> DEFINE x == fp[f].job
  <2>1. x \in ForFP(f) /\ x \in Sent /\ x \in Packet /\ FPOf(x) = f
    BY <1>7, InHands DEF FPDrop, ForFP, Sent
  <2>2. verdict[x] = "none"
    BY <1>7, Undecided DEF FPDrop
  <2>3. /\ verdict' = [verdict EXCEPT ![x] = "drop"]
        /\ UNCHANGED <<file, output, outq>>
    BY <1>7 DEF FPDrop, mainVars, queueVars
  <2>4. /\ fp[f].pc # "push" /\ fp'[f].pc # "push"
        /\ \A k \in FP \ {f} : fp'[k] = fp[k]
    BY <1>7, <1>fp DEF FPDrop, FPThread, TypeOK
  <2>5. UNCHANGED <<Written, InHand>>
    BY <2>3, <2>4 DEF Written, InHand, Pushing
  <2> HIDE DEF x
  <2>6. /\ verdict'[x] = "drop" /\ \A p \in Packet \ {x} : verdict'[p] = verdict[p]
    BY <2>1, <2>3 DEF TypeOK
  <2>7. Decided' \subseteq Sent
    BY <1>v, <2>1, <2>6 DEF Decided
  <2>8. Forwarded \subseteq Forwarded'
    BY <2>2, <2>6 DEF Forwarded, Sent
  <2> QED
    BY <1>v, <2>3, <2>5, <2>7, <2>8 DEF VerdictsOK
<1>8. ASSUME NEW f \in FP, FPForward(f) PROVE VerdictsOK'
  <2> DEFINE x == fp[f].job
  <2>1. x \in Sent /\ x \in Packet
    BY <1>8, InHands DEF FPForward, Sent
  <2>2. verdict' = [verdict EXCEPT ![x] = "forward"] /\ UNCHANGED <<file, output, outq>>
    BY <1>8 DEF FPForward, mainVars, queueVars
  <2>3. /\ fp'[f].job = x /\ \A k \in FP \ {f} : fp'[k] = fp[k]
    BY <1>8, <1>fp DEF FPForward, FPThread, TypeOK
  <2>4. InHand' \subseteq InHand \cup {x}
    BY <2>3, AtPlaces, AtPlacesNext
  <2> HIDE DEF x
  <2>5. verdict'[x] = "forward" /\ \A p \in Packet \ {x} : verdict'[p] = verdict[p]
    BY <2>1, <2>2 DEF TypeOK
  <2>6. Decided' \subseteq Sent /\ Forwarded \cup {x} \subseteq Forwarded'
    BY <1>v, <2>1, <2>5 DEF Decided, Forwarded, Sent
  <2>7. UNCHANGED Written
    BY <2>2 DEF Written
  <2>8. Written' \cup Held(outq') \cup InHand' \subseteq Forwarded'
    BY <1>v, <2>2, <2>4, <2>6, <2>7
  <2> QED
    BY <2>6, <2>8 DEF VerdictsOK
<1>9. ASSUME NEW f \in FP, FPPush(f) PROVE VerdictsOK'
  <2> DEFINE x == fp[f].job
  <2>1. UNCHANGED <<verdict, file, output>> /\ outq' = Push(outq, x)
    BY <1>9 DEF FPPush, mainVars
  <2>2. /\ fp[f].pc = "push" /\ fp'[f].pc = "check"
        /\ \A k \in FP \ {f} : fp'[k] = fp[k]
    BY <1>9, <1>fp DEF FPPush, FPThread, TypeOK
  <2>3. x \in Packet /\ x \in InHand
    BY <2>2, InHands, AtPlaces DEF Sent
  <2>4. InHand' \subseteq InHand /\ UNCHANGED Written
    BY <2>1, <2>2, AtPlaces, AtPlacesNext DEF Written
  <2> HIDE DEF x
  <2>5. Held(outq') \subseteq Held(outq) \cup {x}
    BY <1>q, <2>1, <2>3, PushFacts
  <2> QED
    BY <1>1, <2>1, <2>3, <2>4, <2>5
<1>10. CASE WriterWrite
  <2> DEFINE x == FrontItem(outq)
  <2>1. UNCHANGED <<verdict, file, fp>>
    BY <1>10 DEF WriterWrite, mainVars
  <2>2. /\ HasItem(outq) /\ outq' = PopFront(outq)
        /\ output' = [output EXCEPT ![file] = Append(@, x)]
    BY <1>10 DEF WriterWrite
  <2>3. /\ x \in Held(outq) /\ Held(outq') \subseteq Held(outq) /\ x \in Packet
    BY <1>q, <2>2, PopFacts
  <2> HIDE DEF x
  <2>4. /\ file # 0 /\ output'[file] = Append(output[file], x)
        /\ output[file] \in Seq(Packet \cup {Header(f) : f \in 1 .. MaxFiles})
    BY <1>10, <2>2, AtWork, Open, Types DEF WriterWrite, Ended
  <2>5. Written' \subseteq Written \cup {x}
    <3>1. \A k \in 1 .. Len(output'[file]) :
             output'[file][k] = x \/ \E i \in 1 .. Len(output[file]) : output'[file][k] = output[file][i]
      BY <2>3, <2>4, AppendFacts
    <3> QED
      BY <2>1, <2>4, <3>1 DEF Written
  <2>6. UNCHANGED InHand
    BY <2>1 DEF InHand, Pushing
  <2> QED
    BY <1>1, <2>1, <2>3, <2>5, <2>6
<1>11. CASE ReaderOpen
  <2>1. UNCHANGED <<verdict, file, fp, outq>>
    BY <1>11 DEF ReaderOpen, mainVars, queueVars
  <2>2. output' = output \/ output' = [output EXCEPT ![file] = Append(@, Header(file))]
    BY <1>11 DEF ReaderOpen
  <2>3. /\ file # 0 /\ file \in 1 .. MaxFiles
        /\ output[file] \in Seq(Packet \cup {Header(f) : f \in 1 .. MaxFiles})
    BY <1>11, AtWork, Open DEF ReaderOpen
  <2>4. Written' \subseteq Written
    <3>1. CASE output' = output
      BY <2>1, <3>1 DEF Written
    <3>2. CASE output' = [output EXCEPT ![file] = Append(@, Header(file))]
      <4>1. output'[file] = Append(output[file], Header(file)) /\ Header(file) \notin Packet
        BY <2>3, <3>2, Types, Packets
      <4>2. \A k \in 1 .. Len(output'[file]) : output'[file][k] \in Packet =>
               \E i \in 1 .. Len(output[file]) : output'[file][k] = output[file][i]
        BY <2>3, <4>1, AppendFacts
      <4> QED
        BY <2>1, <2>3, <4>2 DEF Written
    <3> QED
      BY <2>2, <3>1, <3>2
  <2>5. UNCHANGED InHand
    BY <2>1 DEF InHand, Pushing
  <2> QED
    BY <1>1, <2>1, <2>4, <2>5
<1> QED
  BY <1>2, <1>3, <1>4, <1>5, <1>6, <1>7, <1>8, <1>9, <1>10, <1>11
  DEF Next, Main, Reader, LoadBalancer, FastPath, Writer, BeginStop, StopLB, JoinLB, JoinFP,
      FinishFile, ReaderSkip, ReaderCount, ReaderPush, ReaderEnd, LBCheck, LBTimeout, LBPop,
      LBPush, WriterCheck, WriterTimeout, vars, mainVars, queueVars
-----------------------------------------------------------------------------
(***************************************************************************)
(* The stages of processFile, and the header.                              *)
(***************************************************************************)
LEMMA NextPhases ==
  ASSUME TypeOK, HandsOK, PhasesOK, [Next]_vars
  PROVE  PhasesOK'
<1> USE DEF PhasesOK, Ended, AfterReader, AfterLBs, AfterFPs, AfterOut
<1>lb. lb \in [LB -> LBThread] /\ \A l \in LB : lb[l] \in LBThread
  BY Types
<1>fp. fp \in [FP -> FPThread] /\ \A f \in FP : fp[f] \in FPThread
  BY Types
<1>q. /\ lbq \in [LB -> QueueOf(Packet)] /\ fpq \in [FP -> QueueOf(Packet)]
      /\ \A l \in LB : lbq[l] \in QueueOf(Packet)
      /\ \A f \in FP : fpq[f] \in QueueOf(Packet)
      /\ outq \in QueueOf(Packet)
  BY Types
<1>t. turn \in Nat /\ file \in Nat /\ MaxFiles \in Nat
  BY Types, Packets
<1>r. reader \in [pc : {"off", "open", "read", "push", "done"}, next : 1 .. Len(Capture) + 1]
  BY DEF TypeOK
<1>1. CASE StartFile
  <2>1. /\ \A l \in LB : lb'[l].pc = "check"
        /\ \A f \in FP : fp'[f].pc = "check"
    <3>1. \A l \in LB : lb'[l] = [lb[l] EXCEPT !.running = TRUE, !.pc = "check"]
      BY <1>1 DEF StartFile
    <3>2. \A f \in FP : fp'[f] = [fp[f] EXCEPT !.running = TRUE, !.pc = "check"]
      BY <1>1 DEF StartFile
    <3>3. \A l \in LB : lb'[l].pc = "check"
      BY <1>lb, <3>1 DEF LBThread
    <3>4. \A f \in FP : fp'[f].pc = "check"
      BY <1>fp, <3>2 DEF FPThread
    <3> QED
      BY <3>3, <3>4
  <2>2. /\ file' = file + 1 /\ stage = "idle" /\ stage' = "reading" /\ reader'.pc = "open"
        /\ UNCHANGED <<lbq, fpq, outq, output>>
    BY <1>1 DEF StartFile, queueVars
  <2>3. /\ file' # 0
        /\ file' < 2 => file = 0
        /\ \A f \in 1 .. MaxFiles : f > file' => f > file
    BY <1>t, <2>2
  <2>4. \A f \in 1 .. MaxFiles : f > file' => output'[f] = <<>>
    BY <2>2, <2>3
  <2>5. file' < 2 => /\ \A l \in LB : ~lbq'[l].shut
                     /\ \A f \in FP : ~fpq'[f].shut
                     /\ ~outq'.shut
    <3>1. ~NewQueue.shut
      BY NewQueueFacts
    <3>2. file' < 2 => /\ \A l \in LB : lbq[l] = NewQueue
                       /\ \A f \in FP : fpq[f] = NewQueue
                       /\ outq = NewQueue
      BY <2>3
    <3> QED
      BY <2>2, <3>1, <3>2
  <2> QED
    BY <2>2, <2>3, <2>4, <2>5
<1>2. CASE BeginStop
  BY <1>2, Threads DEF BeginStop, queueVars, Current
<1>3. CASE StopLB
  <2>1. turn \in LB /\ file' = file /\ file # 0
    BY <1>3 DEF StopLB
  <2>2. \A l \in LB : lb'[l].pc = lb[l].pc
    BY <1>3, <1>lb DEF StopLB, LBThread
  <2> QED
    BY <1>3, <2>1, <2>2 DEF StopLB, Current
<1>4. CASE JoinLB
  <2>1. /\ stage = "joinLB" /\ lb[turn].pc = "exit" /\ turn \in LB /\ file # 0
        /\ \A l \in LB : l < turn => lb[l].pc \in Ended
    BY <1>4 DEF JoinLB, Joined
  <2>2. UNCHANGED <<file, reader, lb, fp, lbq, fpq, outq, output, writer>>
    BY <1>4 DEF JoinLB, queueVars
  <2>3. CASE turn + 1 \in LB /\ turn' = turn + 1 /\ stage' = "stopLB"
    <3>1. ASSUME NEW l \in LB, l < turn + 1 PROVE l < turn \/ l = turn
      <4>1. l \in Nat /\ turn \in Nat
        BY <1>t, Threads
      <4> QED
        BY <3>1, <4>1
    <3>2. \A l \in LB : l < turn' => lb[l].pc \in Ended
      BY <2>1, <2>3, <3>1
    <3> QED
      BY <2>1, <2>2, <2>3, <3>2 DEF Current
  <2>4. CASE turn + 1 \notin LB /\ turn' = 0 /\ stage' = "stopFP"
    <3>1. \A l \in LB : l < turn \/ l = turn
      BY <1>t, <2>1, <2>4, Threads DEF LB
    <3>2. \A l \in LB : lb[l].pc \in Ended
      BY <2>1, <3>1
    <3>3. turn' \in FP /\ \A f \in FP : ~(f < turn')
      BY <2>4, Threads
    <3> QED
      BY <2>1, <2>2, <2>4, <3>2, <3>3 DEF Current
  <2> QED
    BY <1>4, <2>3, <2>4 DEF JoinLB
<1>5. CASE StopFP
  <2>1. turn \in FP /\ file' = file /\ file # 0
    BY <1>5 DEF StopFP
  <2>2. \A f \in FP : fp'[f].pc = fp[f].pc
    BY <1>5, <1>fp DEF StopFP, FPThread
  <2> QED
    BY <1>5, <2>1, <2>2 DEF StopFP, Current
<1>6. CASE JoinFP
  <2>1. /\ stage = "joinFP" /\ fp[turn].pc = "exit" /\ turn \in FP /\ file # 0
        /\ \A f \in FP : f < turn => fp[f].pc \in Ended
        /\ \A l \in LB : lb[l].pc \in Ended
    BY <1>6 DEF JoinFP, Joined
  <2>2. UNCHANGED <<file, reader, lb, fp, lbq, fpq, outq, output, writer>>
    BY <1>6 DEF JoinFP, queueVars
  <2>3. CASE turn + 1 \in FP /\ turn' = turn + 1 /\ stage' = "stopFP"
    <3>1. ASSUME NEW f \in FP, f < turn + 1 PROVE f < turn \/ f = turn
      <4>1. f \in Nat /\ turn \in Nat
        BY <1>t, Threads
      <4> QED
        BY <3>1, <4>1
    <3>2. \A f \in FP : f < turn' => fp[f].pc \in Ended
      BY <2>1, <2>3, <3>1
    <3> QED
      BY <2>1, <2>2, <2>3, <3>2 DEF Current
  <2>4. CASE turn + 1 \notin FP /\ turn' = 0 /\ stage' = "stopOut"
    <3>1. \A f \in FP : f < turn \/ f = turn
      BY <1>t, <2>1, <2>4, Threads DEF FP
    <3>2. \A f \in FP : fp[f].pc \in Ended
      BY <2>1, <3>1
    <3> QED
      BY <2>1, <2>2, <2>4, <3>2 DEF Current
  <2> QED
    BY <1>6, <2>3, <2>4 DEF JoinFP
<1>7. CASE StopOut
  BY <1>7, <1>q, ShutFacts DEF StopOut, Current
<1>8. CASE FinishFile
  BY <1>8 DEF FinishFile, Joined, queueVars, Current
<1>9. CASE ReaderOpen
  <2>1. UNCHANGED <<stage, turn, file, lb, fp, lbq, fpq, outq, writer>> /\ stage = "reading"
    BY <1>9 DEF ReaderOpen, mainVars, queueVars
  <2>2. reader'.pc \in {"read", "done"}
    BY <1>9, <1>r DEF ReaderOpen
  <2>3. \A f \in 1 .. MaxFiles : f # file => output'[f] = output[f]
    BY <1>9, Types DEF ReaderOpen
  <2>4. \A f \in 1 .. MaxFiles : f > file' => output'[f] = <<>>
    BY <1>t, <2>1, <2>3
  <2> QED
    BY <2>1, <2>2, <2>4
<1>10. CASE ReaderSkip
  BY <1>10, <1>r DEF ReaderSkip, mainVars, queueVars, Current
<1>11. CASE ReaderCount
  <2>1. UNCHANGED <<stage, turn, file, lb, fp, lbq, fpq, outq, writer, output>>
    BY <1>11 DEF ReaderCount, mainVars, queueVars
  <2>2. reader'.pc = "push" /\ reader'.next = reader.next /\ reader.pc = "read" /\ Current \in Sent
    BY <1>11, <1>r DEF ReaderCount, Sent
  <2>3. Current' \in Sent
    BY <2>1, <2>2 DEF Current
  <2> QED
    BY <2>1, <2>2, <2>3
<1>12. CASE ReaderPush
  <2> DEFINE h == LBFor(Current)
  <2>1. h \in LB /\ Current \in Packet /\ stage = "reading" /\ file # 0
    BY <1>12, Places DEF ReaderPush
  <2>2. /\ UNCHANGED <<stage, turn, file, lb, fp, fpq, outq, writer, output>>
        /\ reader'.pc = "read" /\ lbq' = [lbq EXCEPT ![h] = Push(@, Current)]
    BY <1>12 DEF ReaderPush, mainVars
  <2> HIDE DEF h
  <2>3. \A l \in LB : lbq'[l].shut = lbq[l].shut
    BY <1>q, <2>1, <2>2, PushFacts
  <2> QED
    BY <2>1, <2>2, <2>3
<1>13. CASE ReaderEnd
  BY <1>13, <1>r DEF ReaderEnd, mainVars, queueVars, Current
<1>14. ASSUME NEW l \in LB, LBCheck(l) \/ LBTimeout(l) PROVE PhasesOK'
  <2>1. UNCHANGED <<stage, turn, file, reader, fp, lbq, fpq, outq, writer, output>>
    BY <1>14 DEF LBCheck, LBTimeout, mainVars, queueVars
  <2>2. /\ lb[l].pc \in {"check", "pop"}
        /\ \A k \in LB \ {l} : lb'[k] = lb[k]
    BY <1>14, <1>lb DEF LBCheck, LBTimeout
  <2> QED
    BY <2>1, <2>2 DEF Current
<1>15. ASSUME NEW l \in LB, LBPop(l) PROVE PhasesOK'
  <2>1. UNCHANGED <<stage, turn, file, reader, fp, fpq, outq, writer, output>>
    BY <1>15 DEF LBPop, mainVars
  <2>2. /\ lb[l].pc = "pop"
        /\ \A k \in LB \ {l} : lb'[k] = lb[k] /\ lbq'[k] = lbq[k]
        /\ lbq'[l].shut = lbq[l].shut
    BY <1>15, <1>lb, <1>q, PopFacts DEF LBPop
  <2> QED
    BY <2>1, <2>2 DEF Current
<1>16. ASSUME NEW l \in LB, LBPush(l) PROVE PhasesOK'
  <2> DEFINE x == lb[l].job
             g == FPFor(l, x)
  <2>1. x \in Packet /\ g \in FP /\ lb[l].pc = "push"
    BY <1>16, InHands, Places DEF LBPush
  <2>2. /\ UNCHANGED <<stage, turn, file, reader, fp, lbq, outq, writer, output>>
        /\ fpq' = [fpq EXCEPT ![g] = Push(@, x)]
    BY <1>16 DEF LBPush, mainVars
  <2>3. \A k \in LB \ {l} : lb'[k] = lb[k]
    BY <1>16, <1>lb DEF LBPush
  <2> HIDE DEF x, g
  <2>4. \A f \in FP : fpq'[f].shut = fpq[f].shut
    BY <1>q, <2>1, <2>2, PushFacts
  <2> QED
    BY <2>1, <2>2, <2>3, <2>4 DEF Current
<1>17. ASSUME NEW f \in FP, FPCheck(f) \/ FPTimeout(f) \/ FPDrop(f) \/ FPForward(f) PROVE PhasesOK'
  <2>1. UNCHANGED <<stage, turn, file, reader, lb, lbq, fpq, outq, writer, output>>
    BY <1>17 DEF FPCheck, FPTimeout, FPDrop, FPForward, mainVars, queueVars
  <2>2. /\ fp[f].pc \in {"check", "pop", "process"}
        /\ \A k \in FP \ {f} : fp'[k] = fp[k]
    BY <1>17, <1>fp DEF FPCheck, FPTimeout, FPDrop, FPForward
  <2> QED
    BY <2>1, <2>2 DEF Current
<1>18. ASSUME NEW f \in FP, FPPop(f) PROVE PhasesOK'
  <2>1. UNCHANGED <<stage, turn, file, reader, lb, lbq, outq, writer, output>>
    BY <1>18 DEF FPPop, mainVars
  <2>2. /\ fp[f].pc = "pop"
        /\ \A k \in FP \ {f} : fp'[k] = fp[k] /\ fpq'[k] = fpq[k]
        /\ fpq'[f].shut = fpq[f].shut
    BY <1>18, <1>fp, <1>q, PopFacts DEF FPPop
  <2> QED
    BY <2>1, <2>2 DEF Current
<1>19. ASSUME NEW f \in FP, FPPush(f) PROVE PhasesOK'
  <2>1. fp[f].job \in Packet /\ fp[f].pc = "push"
    BY <1>19, InHands DEF FPPush, Sent
  <2>2. UNCHANGED <<stage, turn, file, reader, lb, lbq, fpq, writer, output>>
    BY <1>19 DEF FPPush, mainVars
  <2>3. outq'.shut = outq.shut
    BY <1>19, <1>q, <2>1, PushFacts DEF FPPush
  <2>4. \A k \in FP \ {f} : fp'[k] = fp[k]
    BY <1>19, <1>fp DEF FPPush
  <2> QED
    BY <2>1, <2>2, <2>3, <2>4 DEF Current
<1>20. CASE WriterCheck \/ WriterTimeout
  <2>1. UNCHANGED <<stage, turn, file, reader, lb, fp, lbq, fpq, outq, output>>
    BY <1>20 DEF WriterCheck, WriterTimeout, mainVars, queueVars
  <2>2. writer \in {"check", "pop"}
    BY <1>20 DEF WriterCheck, WriterTimeout
  <2> QED
    BY <2>1, <2>2 DEF Current
<1>21. CASE WriterWrite
  <2>1. UNCHANGED <<stage, turn, file, reader, lb, fp, lbq, fpq>> /\ writer = "pop"
    BY <1>21 DEF WriterWrite, mainVars
  <2>2. file # 0 /\ stage # "idle"
    BY <2>1
  <2>3. outq'.shut = outq.shut
    BY <1>21, <1>q, PopFacts DEF WriterWrite
  <2>4. \A f \in 1 .. MaxFiles : f # file => output'[f] = output[f]
    BY <1>21, Types DEF WriterWrite
  <2>5. \A f \in 1 .. MaxFiles : f > file' => output'[f] = <<>>
    BY <1>t, <2>1, <2>4
  <2> QED
    BY <2>1, <2>2, <2>3, <2>5 DEF Current
<1>22. CASE UNCHANGED vars
  BY <1>22 DEF vars, mainVars, queueVars, Current
<1> QED
  BY <1>1, <1>2, <1>3, <1>4, <1>5, <1>6, <1>7, <1>8, <1>9, <1>10, <1>11, <1>12, <1>13,
     <1>14, <1>15, <1>16, <1>17, <1>18, <1>19, <1>20, <1>21, <1>22
  DEF Next, Main, Reader, LoadBalancer, FastPath, Writer

\* An item appended is in the file with those that were there.
LEMMA WrittenGrows ==
  ASSUME TypeOK, file # 0, UNCHANGED file, NEW x,
         output' = [output EXCEPT ![file] = Append(@, x)],
         x \in Packet \cup {Header(f) : f \in 1 .. MaxFiles}
  PROVE  /\ Written \subseteq Written'
         /\ x \in Packet => x \in Written'
<1> DEFINE S == Packet \cup {Header(f) : f \in 1 .. MaxFiles}
           s == output[file]
           t == output'[file]
<1>1. file \in 1 .. MaxFiles /\ s \in Seq(S) /\ t = Append(s, x) /\ x \in S
  <2>1. file \in 0 .. MaxFiles
    BY DEF TypeOK
  <2>2. file \in 1 .. MaxFiles
    BY <2>1, Packets
  <2> QED
    BY <2>2, Types
<1>2. Written = {s[k] : k \in 1 .. Len(s)} \cap Packet
  BY DEF Written
<1>3. Written' = {t[k] : k \in 1 .. Len(t)} \cap Packet
  BY DEF Written
<1> HIDE DEF S, s, t
<1>4. /\ Len(s) \in Nat /\ Len(t) = Len(s) + 1 /\ t[Len(s) + 1] = x
      /\ \A k \in 1 .. Len(s) : t[k] = s[k]
  BY <1>1, AppendFacts
<1> QED
  BY <1>2, <1>3, <1>4

LEMMA NextHeader ==
  ASSUME TypeOK, HandsOK, OrderOK, VerdictsOK, PhasesOK, HeaderOK, [Next]_vars
  PROVE  HeaderOK'
<1>r. reader \in [pc : {"off", "open", "read", "push", "done"}, next : 1 .. Len(Capture) + 1]
  BY DEF TypeOK
<1>1. CASE UNCHANGED <<file, reader, output>>
  BY <1>1 DEF HeaderOK
<1>2. CASE StartFile
  <2>1. reader'.pc = "open" /\ reader'.next = 1 /\ file' = file + 1 /\ file < MaxFiles
        /\ UNCHANGED output
    BY <1>2 DEF StartFile
  <2>2. file' = 1 => output[1] = <<>>
    <3>1. file' = 1 => file = 0 /\ 1 \in 1 .. MaxFiles /\ 1 > file
      BY <2>1, Types, Packets
    <3> QED
      BY <3>1 DEF PhasesOK
  <2> QED
    BY <2>1, <2>2 DEF HeaderOK
<1>3. CASE ReaderOpen
  <2>1. UNCHANGED file /\ file # 0
    BY <1>3 DEF ReaderOpen, mainVars, PhasesOK
  <2>2. CASE /\ reader' = [reader EXCEPT !.pc = "read"]
             /\ output' = [output EXCEPT ![file] = Append(@, Header(file))]
    <3> SUFFICES ASSUME file = 1
                 PROVE  output'[1] # <<>> /\ output'[1][1] = Header(1)
      BY <1>r, <2>1, <2>2 DEF HeaderOK
    <3> DEFINE S == Packet \cup {Header(f) : f \in 1 .. MaxFiles}
    <3>1. /\ output[1] \in Seq(S) /\ Header(1) \in S
          /\ output'[1] = Append(output[1], Header(1))
      <4>1. 1 \in 1 .. MaxFiles
        BY Packets DEF TypeOK
      <4> QED
        BY <2>2, <4>1, Types
    <3>2. output[1] = <<>>
      BY <1>3 DEF HeaderOK, ReaderOpen
    <3> HIDE DEF S
    <3> QED
      BY <3>1, <3>2
  <2>3. CASE reader' = [reader EXCEPT !.pc = "done"] /\ UNCHANGED output
    BY <1>r, <2>1, <2>3 DEF HeaderOK
  <2> QED
    BY <1>3, <2>2, <2>3 DEF ReaderOpen
<1>4. CASE ReaderSkip \/ ReaderCount \/ ReaderPush \/ ReaderEnd
  <2>1. reader.pc \in {"read", "push"} /\ reader'.pc # "open" /\ UNCHANGED <<file, output>>
    BY <1>4, <1>r DEF ReaderSkip, ReaderCount, ReaderPush, ReaderEnd, mainVars
  <2> QED
    BY <2>1 DEF HeaderOK
<1>5. CASE WriterWrite
  <2> DEFINE S == Packet \cup {Header(f) : f \in 1 .. MaxFiles}
             x == FrontItem(outq)
  <2> SUFFICES ASSUME file = 1
               PROVE  output'[1] # <<>> /\ output'[1][1] = Header(1) /\ reader.pc # "open"
    BY <1>5 DEF WriterWrite, mainVars, HeaderOK
  <2>1. x \in Held(outq) /\ x \in Packet
    BY <1>5, Types, PopFacts DEF WriterWrite
  <2>2. /\ output[1] \in Seq(S) /\ x \in S
        /\ output'[1] = Append(output[1], x)
    <3>1. 1 \in 1 .. MaxFiles
      BY Packets DEF TypeOK
    <3> QED
      BY <1>5, <2>1, <3>1, Types DEF WriterWrite
  <2>3. output[1] # <<>>
    <3> SUFFICES ASSUME output[1] = <<>> PROVE FALSE
      OBVIOUS
    <3>1. reader.next = 1
      BY DEF HeaderOK
    <3> HIDE DEF x
    <3>2. x \in Unread
      <4>1. x[1] > 1 \/ (x[1] = 1 /\ x[2] >= 1)
        BY <2>1, Packets
      <4> QED
        BY <2>1, <3>1, <4>1 DEF Unread
    <3>3. x \in Decided /\ x \in Sent
      BY <2>1 DEF VerdictsOK, Forwarded, Decided
    <3>4. 1 \in DOMAIN Upstream /\ 6 \in DOMAIN Upstream /\ 1 < 6 /\ Chain(Upstream, Bad)
      BY DEF Upstream, OrderOK
    <3>5. x \in Upstream[1] /\ x \in Upstream[6] /\ <<x, x>> \in Bad
      BY <3>2, <3>3, ByNumber, BadPairs
    <3> QED
      BY <3>4, <3>5 DEF Chain
  <2> HIDE DEF S, x
  <2>4. output[1][1] = Header(1) /\ reader.pc # "open"
    BY <2>3 DEF HeaderOK
  <2>5. 1 \in 1 .. Len(output[1])
    BY <2>2, <2>3, EmptySeq, LenProperties
  <2> QED
    BY <2>2, <2>4, <2>5, AppendFacts
<1> QED
  BY <1>1, <1>2, <1>3, <1>4, <1>5
  DEF Next, Main, Reader, LoadBalancer, FastPath, Writer, BeginStop, StopLB, JoinLB, StopFP,
      JoinFP, StopOut, FinishFile, LBCheck, LBTimeout, LBPop, LBPush, FPCheck, FPTimeout,
      FPPop, FPDrop, FPForward, FPPush, WriterCheck, WriterTimeout, vars, mainVars, queueVars
-----------------------------------------------------------------------------
(***************************************************************************)
(* The places, seen from the packets.                                      *)
(***************************************************************************)
LEMMA NextPlaces ==
  ASSUME TypeOK, HandsOK, PhasesOK, OrderOK, VerdictsOK, PlacesOK, [Next]_vars
  PROVE  PlacesOK'
<1>lb. \A l \in LB : lb[l] \in LBThread
  BY Types
<1>fp. \A f \in FP : fp[f] \in FPThread
  BY Types
<1>q. /\ lbq \in [LB -> QueueOf(Packet)] /\ fpq \in [FP -> QueueOf(Packet)]
      /\ \A l \in LB : lbq[l] \in QueueOf(Packet)
      /\ \A f \in FP : fpq[f] \in QueueOf(Packet)
      /\ outq \in QueueOf(Packet)
  BY Types
<1>n. /\ UNCHANGED <<file, output>> => UNCHANGED Written
      /\ UNCHANGED fp => UNCHANGED <<InWork, InHand>>
      /\ UNCHANGED fpq => UNCHANGED AtFP
      /\ UNCHANGED lb => UNCHANGED AtLB
      /\ UNCHANGED lbq => UNCHANGED ToLB
  BY DEF Written, InWork, InHand, Pushing, Processing, AtFP, AtLB, ToLB
<1>1. ASSUME UNCHANGED <<file, verdict>>, reader'.next = reader.next,
             InWork \cup AtFP \cup AtLB \cup ToLB \subseteq InWork' \cup AtFP' \cup AtLB' \cup ToLB',
             Written \cup Held(outq) \cup InHand \subseteq Written' \cup Held(outq') \cup InHand'
      PROVE  PlacesOK'
  BY <1>1 DEF PlacesOK
<1>2. CASE UNCHANGED <<file, verdict, lb, fp, lbq, fpq, outq, output>>
            /\ reader'.next = reader.next
  BY <1>1, <1>2, <1>n
<1>3. CASE StartFile
  <2>1. reader'.next = 1
    BY <1>3 DEF StartFile
  <2>2. \A p \in Sent : ~(p[2] < 1)
    BY Packets DEF Sent
  <2> QED
    BY <2>1, <2>2 DEF PlacesOK
<1>4. CASE ReaderSkip
  <2>1. UNCHANGED <<file, verdict, lb, fp, lbq, fpq, outq, output>>
    BY <1>4 DEF ReaderSkip, mainVars, queueVars
  <2>2. reader'.next = reader.next + 1 /\ Current \notin Sent
    BY <1>4 DEF ReaderSkip, TypeOK, Sent
  <2>3. ASSUME NEW p \in Sent, file = 1, p[1] = 1, p[2] < reader.next + 1
        PROVE  p[2] < reader.next
    <3>1. p = <<p[1], p[2]>> /\ p[2] \in Nat /\ reader.next \in Nat
      BY Packets, Types DEF Sent
    <3>2. p[2] # reader.next
      BY <2>2, <2>3, <3>1 DEF Current
    <3> QED
      BY <2>3, <3>1, <3>2
  <2> QED
    BY <1>n, <2>1, <2>2, <2>3 DEF PlacesOK
<1>5. CASE ReaderPush
  <2> DEFINE x == Current
             h == LBFor(x)
  <2>1. x \in Sent /\ x \in Packet /\ h \in LB /\ stage = "reading"
    BY <1>5, Places DEF ReaderPush, PhasesOK
  <2>2. lbq' = [lbq EXCEPT ![h] = Push(@, x)] /\ reader'.next = reader.next + 1
    BY <1>5 DEF ReaderPush
  <2>3. UNCHANGED <<file, verdict, output, lb, fp, fpq, outq>>
    BY <1>5 DEF ReaderPush, mainVars
  <2>4. x = <<file, reader.next>>
    BY DEF Current
  <2> HIDE DEF x, h
  <2> SUFFICES ASSUME file = 1 PROVE PlacesOK'
    BY <2>3 DEF PlacesOK
  <2>5. ~lbq[h].shut
    BY <2>1 DEF PhasesOK, AfterReader, AfterLBs, AfterFPs, AfterOut
  <2>6. Held(lbq'[h]) = Held(lbq[h]) \cup {x}
    <3>1. lbq'[h] = Push(lbq[h], x)
      BY <1>q, <2>1, <2>2
    <3> QED
      BY <1>q, <2>1, <2>5, <3>1, PushFacts
  <2>7. \A l \in LB \ {h} : lbq'[l] = lbq[l]
    BY <1>q, <2>2
  <2>8. ToLB \cup {x} \subseteq ToLB'
    BY <2>1, <2>6, <2>7, AtPlaces, AtPlacesNext
  <2>9. verdict[x] = "none"
    <3>1. x \in Unread
      BY <2>1, <2>4, Types DEF Unread
    <3>2. 1 \in DOMAIN Upstream /\ 6 \in DOMAIN Upstream /\ 1 < 6 /\ Chain(Upstream, Bad)
      BY DEF Upstream, OrderOK
    <3>3. x \notin Upstream[1]
      <4>1. x \in Upstream[6] /\ <<x, x>> \in Bad
        BY <2>1, <3>1, ByNumber, BadPairs
      <4> QED
        BY <3>2, <4>1 DEF Chain
    <3> QED
      BY <2>1, <3>3, ByNumber DEF Decided
  <2>10. ASSUME NEW p \in Sent, p[1] = 1, p[2] < reader.next + 1
         PROVE  /\ verdict'[p] = "none" => p \in InWork' \cup AtFP' \cup AtLB' \cup ToLB'
                /\ verdict'[p] = "forward" => p \in Written' \cup Held(outq') \cup InHand'
    <3>1. CASE p = x
      BY <2>3, <2>8, <2>9, <3>1
    <3>2. CASE p # x
      <4>1. p = <<p[1], p[2]>> /\ p[2] \in Nat /\ reader.next \in Nat
        BY Packets, Types DEF Sent
      <4>2. p[2] # reader.next
        BY <2>4, <2>10, <3>2, <4>1
      <4>3. p[2] < reader.next
        BY <2>10, <4>1, <4>2
      <4> QED
        BY <1>n, <2>3, <2>8, <2>10, <4>3 DEF PlacesOK
    <3> QED
      BY <3>1, <3>2
  <2> QED
    BY <2>2, <2>3, <2>10 DEF PlacesOK
<1>6. CASE StopLB
  <2>1. UNCHANGED <<verdict, file, reader, output, fp, fpq, outq>>
    BY <1>6 DEF StopLB
  <2>2. turn \in LB
    BY <1>6 DEF StopLB, PhasesOK
  <2>3. \A l \in LB : lb'[l].pc = lb[l].pc /\ lb'[l].job = lb[l].job
    BY <1>6, <1>lb, <2>2 DEF StopLB, LBThread, TypeOK
  <2>4. \A l \in LB : Held(lbq'[l]) = Held(lbq[l])
    BY <1>6, <1>q, <2>2, ShutFacts DEF StopLB
  <2>5. UNCHANGED <<AtLB, ToLB>>
    BY <2>3, <2>4 DEF AtLB, ToLB
  <2> QED
    BY <1>1, <1>n, <2>1, <2>5
<1>7. CASE StopFP
  <2>1. UNCHANGED <<verdict, file, reader, output, lb, lbq, outq>>
    BY <1>7 DEF StopFP
  <2>2. turn \in FP
    BY <1>7 DEF StopFP, PhasesOK
  <2>3. \A f \in FP : fp'[f].pc = fp[f].pc /\ fp'[f].job = fp[f].job
    BY <1>7, <1>fp, <2>2 DEF StopFP, FPThread, TypeOK
  <2>4. \A f \in FP : Held(fpq'[f]) = Held(fpq[f])
    BY <1>7, <1>q, <2>2, ShutFacts DEF StopFP
  <2>5. UNCHANGED <<InWork, AtFP, InHand>>
    BY <2>3, <2>4 DEF InWork, Processing, AtFP, InHand, Pushing
  <2> QED
    BY <1>1, <1>n, <2>1, <2>5
<1>8. CASE StopOut
  <2>1. UNCHANGED <<verdict, file, reader, output, lb, fp, lbq, fpq>> /\ Held(outq') = Held(outq)
    BY <1>8, <1>q, ShutFacts DEF StopOut
  <2> QED
    BY <1>1, <1>n, <2>1
<1>9. ASSUME NEW l \in LB, LBCheck(l) \/ LBTimeout(l) PROVE PlacesOK'
  <2>1. UNCHANGED <<verdict, file, reader, output, fp, lbq, fpq, outq>>
    BY <1>9 DEF LBCheck, LBTimeout, mainVars, queueVars
  <2>2. lb[l].pc # "push" /\ lb'[l].pc # "push" /\ \A k \in LB \ {l} : lb'[k] = lb[k]
    BY <1>9, <1>lb DEF LBCheck, LBTimeout, LBThread, TypeOK
  <2>3. UNCHANGED AtLB
    BY <2>2 DEF AtLB
  <2> QED
    BY <1>1, <1>n, <2>1, <2>3
<1>10. ASSUME NEW l \in LB, LBPop(l) PROVE PlacesOK'
  <2> DEFINE x == FrontItem(lbq[l])
  <2>1. UNCHANGED <<verdict, file, reader, output, fp, fpq, outq>>
    BY <1>10 DEF LBPop, mainVars
  <2>2. /\ lb[l].pc = "pop" /\ lb'[l].pc = "push" /\ lb'[l].job = x
        /\ lbq'[l] = PopFront(lbq[l])
        /\ \A k \in LB \ {l} : lb'[k] = lb[k] /\ lbq'[k] = lbq[k]
    BY <1>10, <1>lb, <1>q DEF LBPop, LBThread, TypeOK
  <2>3. Held(lbq[l]) = Held(lbq'[l]) \cup {x}
    BY <1>10, <1>q, <2>2, PopFacts DEF LBPop
  <2> HIDE DEF x
  <2>4. AtLB \cup {x} \subseteq AtLB' /\ ToLB \subseteq ToLB' \cup {x}
    BY <2>2, <2>3, AtPlaces, AtPlacesNext
  <2> QED
    BY <1>1, <1>n, <2>1, <2>4
<1>11. ASSUME NEW l \in LB, LBPush(l) PROVE PlacesOK'
  <2> DEFINE x == lb[l].job
             g == FPFor(l, x)
  <2>1. UNCHANGED <<verdict, file, reader, output, fp, lbq, outq>>
    BY <1>11 DEF LBPush, mainVars
  <2>2. x \in Sent /\ x \in Packet /\ g \in FP /\ lb[l].pc = "push"
    BY <1>11, InHands, Places DEF LBPush
  <2>3. /\ \A k \in LB \ {l} : lb'[k] = lb[k]
        /\ fpq' = [fpq EXCEPT ![g] = Push(@, x)]
    BY <1>11, <1>lb DEF LBPush, LBThread, TypeOK
  <2> SUFFICES ASSUME file = 1 PROVE PlacesOK'
    BY <2>1 DEF PlacesOK
  <2>4. ~fpq[g].shut
    BY <2>2, AtWork DEF PhasesOK, Ended
  <2>5. \A k \in LB : k # l /\ lb[k].pc = "push" => lb'[k].pc = "push" /\ lb'[k].job = lb[k].job
    BY <2>3
  <2>6. AtLB \subseteq AtLB' \cup {x}
    BY <2>5, AtPlaces, AtPlacesNext
  <2> HIDE DEF x, g
  <2>7. fpq'[g] = Push(fpq[g], x) /\ \A f \in FP \ {g} : fpq'[f] = fpq[f]
    BY <1>q, <2>2, <2>3
  <2>8. Held(fpq'[g]) = Held(fpq[g]) \cup {x}
    BY <1>q, <2>2, <2>4, <2>7, PushFacts
  <2>9. AtFP \cup {x} \subseteq AtFP'
    BY <2>2, <2>7, <2>8, AtPlaces, AtPlacesNext
  <2> QED
    BY <1>1, <1>n, <2>1, <2>6, <2>9
<1>12. ASSUME NEW f \in FP, FPCheck(f) \/ FPTimeout(f) PROVE PlacesOK'
  <2>1. UNCHANGED <<verdict, file, reader, output, lb, lbq, fpq, outq>>
    BY <1>12 DEF FPCheck, FPTimeout, mainVars, queueVars
  <2>2. /\ fp[f].pc \notin {"process", "push"} /\ fp'[f].pc \notin {"process", "push"}
        /\ \A k \in FP \ {f} : fp'[k] = fp[k]
    BY <1>12, <1>fp DEF FPCheck, FPTimeout, FPThread, TypeOK
  <2>3. UNCHANGED <<InWork, InHand>>
    BY <2>2 DEF InWork, Processing, InHand, Pushing
  <2> QED
    BY <1>1, <1>n, <2>1, <2>3
<1>13. ASSUME NEW f \in FP, FPPop(f) PROVE PlacesOK'
  <2> DEFINE x == FrontItem(fpq[f])
  <2>1. UNCHANGED <<verdict, file, reader, output, lb, lbq, outq>>
    BY <1>13 DEF FPPop, mainVars
  <2>2. /\ fp[f].pc = "pop" /\ fp'[f].pc = "process" /\ fp'[f].job = x
        /\ fpq'[f] = PopFront(fpq[f])
        /\ \A k \in FP \ {f} : fp'[k] = fp[k] /\ fpq'[k] = fpq[k]
    BY <1>13, <1>fp, <1>q DEF FPPop, FPThread, TypeOK
  <2>3. Held(fpq[f]) = Held(fpq'[f]) \cup {x}
    BY <1>13, <1>q, <2>2, PopFacts DEF FPPop
  <2> HIDE DEF x
  <2>4. InWork \cup {x} \subseteq InWork' /\ AtFP \subseteq AtFP' \cup {x}
    BY <2>2, <2>3, AtPlaces, AtPlacesNext
  <2>5. InHand \subseteq InHand'
    BY <2>2, AtPlaces, AtPlacesNext
  <2> QED
    BY <1>1, <1>n, <2>1, <2>4, <2>5
<1>14. ASSUME NEW f \in FP, FPDrop(f) \/ FPForward(f) PROVE PlacesOK'
  <2> DEFINE x == fp[f].job
  <2>1. UNCHANGED <<file, reader, output, outq, lb, lbq, fpq>>
    BY <1>14 DEF FPDrop, FPForward, mainVars, queueVars
  <2>2. /\ fp[f].pc = "process" /\ \A k \in FP \ {f} : fp'[k] = fp[k]
        /\ \A p \in Packet \ {x} : verdict'[p] = verdict[p]
        /\ \/ verdict'[x] = "drop"
           \/ verdict'[x] = "forward" /\ fp'[f].pc = "push" /\ fp'[f].job = x
    <3>1. x \in Packet
      BY <1>14, InHands DEF FPDrop, FPForward, Sent
    <3>2. verdict' = [verdict EXCEPT ![x] = "drop"] \/ verdict' = [verdict EXCEPT ![x] = "forward"]
      BY <1>14 DEF FPDrop, FPForward
    <3>3. verdict'[x] = "drop" \/ (verdict'[x] = "forward" /\ FPForward(f))
      <4>1. CASE FPDrop(f)
        BY <3>1, <4>1 DEF FPDrop, TypeOK
      <4>2. CASE FPForward(f)
        BY <3>1, <4>2 DEF FPForward, TypeOK
      <4> QED
        BY <1>14, <4>1, <4>2
    <3>4. FPForward(f) => fp'[f].pc = "push" /\ fp'[f].job = x
      BY <1>fp DEF FPForward, FPThread, TypeOK
    <3>5. fp[f].pc = "process" /\ \A k \in FP \ {f} : fp'[k] = fp[k]
      BY <1>14, <1>fp DEF FPDrop, FPForward, TypeOK
    <3> HIDE DEF x
    <3>6. \A p \in Packet \ {x} : verdict'[p] = verdict[p]
      BY <3>1, <3>2 DEF TypeOK
    <3> QED
      BY <3>3, <3>4, <3>5, <3>6
  <2> HIDE DEF x
  <2>3. InWork \subseteq InWork' \cup {x} /\ InHand \subseteq InHand'
    BY <2>2, AtPlaces, AtPlacesNext DEF x
  <2>4. verdict'[x] = "forward" => x \in InHand'
    BY <2>2, AtPlacesNext
  <2>5. ASSUME NEW p \in Sent, file = 1, p[1] = 1, p[2] < reader.next
        PROVE  /\ verdict'[p] = "none" => p \in InWork' \cup AtFP' \cup AtLB' \cup ToLB'
               /\ verdict'[p] = "forward" => p \in Written' \cup Held(outq') \cup InHand'
    <3>1. CASE p = x
      BY <2>2, <2>4, <3>1
    <3>2. CASE p # x
      <4>1. verdict'[p] = verdict[p]
        BY <2>2, <3>2 DEF Sent
      <4> QED
        BY <1>n, <2>1, <2>3, <2>5, <3>2, <4>1 DEF PlacesOK
    <3> QED
      BY <3>1, <3>2
  <2> QED
    BY <2>1, <2>5 DEF PlacesOK
<1>15. ASSUME NEW f \in FP, FPPush(f) PROVE PlacesOK'
  <2> DEFINE x == fp[f].job
  <2>1. UNCHANGED <<verdict, file, reader, output, lb, lbq, fpq>> /\ outq' = Push(outq, x)
    BY <1>15 DEF FPPush, mainVars
  <2>2. fp[f].pc = "push" /\ \A k \in FP \ {f} : fp'[k] = fp[k]
    BY <1>15, <1>fp DEF FPPush, FPThread, TypeOK
  <2> SUFFICES ASSUME file = 1 PROVE PlacesOK'
    BY <2>1 DEF PlacesOK
  <2>3. x \in Packet /\ ~outq.shut
    BY <2>2, InHands, AtWork DEF Sent, PhasesOK, AfterOut, AfterFPs, Ended
  <2>4. InHand \subseteq InHand' \cup {x} /\ InWork \subseteq InWork'
    BY <2>2, AtPlaces, AtPlacesNext
  <2> HIDE DEF x
  <2>5. Held(outq') = Held(outq) \cup {x}
    BY <1>q, <2>1, <2>3, PushFacts
  <2> QED
    BY <1>1, <1>n, <2>1, <2>4, <2>5
<1>16. CASE WriterWrite
  <2> DEFINE x == FrontItem(outq)
  <2>1. UNCHANGED <<verdict, file, reader, lb, fp, lbq, fpq>> /\ file # 0
    BY <1>16, AtWork DEF WriterWrite, mainVars, PhasesOK, Ended
  <2>2. /\ HasItem(outq) /\ outq' = PopFront(outq)
        /\ output' = [output EXCEPT ![file] = Append(@, x)]
    BY <1>16 DEF WriterWrite
  <2>3. Held(outq) = Held(outq') \cup {x} /\ x \in Packet
    BY <1>q, <2>2, PopFacts
  <2> HIDE DEF x
  <2>4. Written \cup {x} \subseteq Written'
    BY <2>1, <2>2, <2>3, WrittenGrows
  <2> QED
    BY <1>1, <1>n, <2>1, <2>3, <2>4
<1>17. CASE ReaderOpen
  <2>1. UNCHANGED <<verdict, file, lb, fp, lbq, fpq, outq>> /\ file # 0
    BY <1>17 DEF ReaderOpen, mainVars, queueVars, PhasesOK
  <2>n. reader'.next = reader.next
    BY <1>17 DEF ReaderOpen, TypeOK
  <2>f. file \in 1 .. MaxFiles
    BY <1>17, AtWork, Open DEF ReaderOpen
  <2>2. CASE UNCHANGED output
    BY <1>2, <2>1, <2>2, <2>n
  <2>3. CASE output' = [output EXCEPT ![file] = Append(@, Header(file))]
    <3>1. Written \subseteq Written'
      BY <2>1, <2>3, <2>f, WrittenGrows
    <3> QED
      BY <1>1, <1>n, <2>1, <2>n, <3>1
  <2> QED
    BY <1>17, <2>2, <2>3 DEF ReaderOpen
<1>18. CASE ReaderCount \/ ReaderEnd
  <2>1. UNCHANGED <<verdict, file, output, lb, fp, lbq, fpq, outq>> /\ reader'.next = reader.next
    BY <1>18 DEF ReaderCount, ReaderEnd, mainVars, queueVars, TypeOK
  <2> QED
    BY <1>2, <2>1
<1>19. CASE UNCHANGED <<file, reader, verdict, lb, fp, lbq, fpq, outq, output>>
  BY <1>2, <1>19
<1> QED
  BY <1>3, <1>4, <1>5, <1>6, <1>7, <1>8, <1>9, <1>10, <1>11, <1>12, <1>13, <1>14,
     <1>15, <1>16, <1>17, <1>18, <1>19
  DEF Next, Main, Reader, LoadBalancer, FastPath, Writer, BeginStop, JoinLB, JoinFP,
      FinishFile, WriterCheck, WriterTimeout, vars, mainVars, queueVars
-----------------------------------------------------------------------------
(***************************************************************************)
(* The counters.                                                           *)
(***************************************************************************)
\* The fast paths of a load balancer.
LEMMA Groups ==
  /\ \A l \in LB : Group(l) \subseteq FP /\ IsFiniteSet(Group(l))
  /\ \A l, k \in LB : \A f \in Group(l) : f \in Group(k) => k = l
  /\ \A l \in LB, p \in Sent : FPFor(l, p) \in Group(l)
<1>1. ASSUME NEW l \in LB, NEW f \in Group(l)
      PROVE  /\ f - l * FPsPerLB \in 0 .. FPsPerLB - 1 /\ l \in Nat
             /\ f = l * FPsPerLB + (f - l * FPsPerLB)
  <2>1. l \in Nat /\ l * FPsPerLB \in Nat
    BY Threads
  <2> QED
    BY <1>1, <2>1, Threads DEF Group
<1>2. ASSUME NEW l \in LB PROVE Group(l) \subseteq FP
  <2> SUFFICES ASSUME NEW f \in Group(l) PROVE f \in FP
    OBVIOUS
  <2> DEFINE r == f - l * FPsPerLB
  <2>1. r \in 0 .. FPsPerLB - 1 /\ f = l * FPsPerLB + r /\ l \in 0 .. NumLBs - 1
    BY <1>1 DEF LB
  <2> HIDE DEF r
  <2>2. l * FPsPerLB + r \in 0 .. NumLBs * FPsPerLB - 1
    BY <2>1, Threads, InGroup
  <2> QED
    BY <2>1, <2>2 DEF FP
<1>3. ASSUME NEW l \in LB, NEW k \in LB, NEW f \in Group(l), f \in Group(k) PROVE k = l
  <2> DEFINE r == f - l * FPsPerLB
             s == f - k * FPsPerLB
  <2>1. /\ r \in 0 .. FPsPerLB - 1 /\ f = l * FPsPerLB + r /\ l \in Nat
        /\ s \in 0 .. FPsPerLB - 1 /\ f = k * FPsPerLB + s /\ k \in Nat
    BY <1>1, <1>3
  <2> HIDE DEF r, s
  <2> QED
    BY <2>1, Threads, OneGroup
<1>4. ASSUME NEW l \in LB, NEW p \in Sent PROVE FPFor(l, p) \in Group(l)
  <2>1. Hash[FlowOf(p)] % FPsPerLB \in 0 .. FPsPerLB - 1
    BY Places, Threads, Division
  <2>2. l * FPsPerLB \in Nat
    BY Threads
  <2> QED
    BY <2>1, <2>2, Threads DEF FPFor, Group
<1>5. ASSUME NEW l \in LB PROVE IsFiniteSet(Group(l))
  BY <1>2, Threads, FS_Subset
<1> QED
  BY <1>2, <1>3, <1>4, <1>5

LEMMA CountTypes ==
  ASSUME TypeOK
  PROVE  /\ Arrived \in [LB -> Nat] /\ Processed \in [FP -> Nat]
         /\ \A l \in LB : ArrivedFrom(l) \in [Group(l) -> Nat]
         /\ SumOf(Arrived) \in Nat
         /\ IsFiniteSet(Processing) /\ Cardinality(Processing) \in Nat
<1>1. /\ \A l \in LB : lb[l].received \in Nat /\ Len(lbq[l].buf) \in Nat
      /\ \A f \in FP : fp[f].processed \in Nat /\ Len(fpq[f].buf) \in Nat
  BY Types, HeldType DEF LBThread, FPThread
<1>2. Arrived \in [LB -> Nat] /\ Processed \in [FP -> Nat]
  BY <1>1 DEF Arrived, Processed
<1>3. ASSUME NEW l \in LB PROVE ArrivedFrom(l) \in [Group(l) -> Nat]
  <2>1. \A f \in Group(l) : fp[f].processed + Len(fpq[f].buf) \in Nat
    BY <1>1, Groups
  <2> QED
    BY <2>1 DEF ArrivedFrom
<1>4. SumOf(Arrived) \in Nat
  BY <1>2, Threads, SumBump
<1>5. IsFiniteSet(Processing) /\ Cardinality(Processing) \in Nat
  BY Threads, FS_Subset, FS_CardinalityType DEF Processing
<1> QED
  BY <1>2, <1>3, <1>4, <1>5

LEMMA NextCounters ==
  ASSUME TypeOK, HandsOK, PhasesOK, CountersOK, [Next]_vars
  PROVE  CountersOK'
<1>lb. lb \in [LB -> LBThread] /\ \A l \in LB : lb[l] \in LBThread
  BY Types
<1>fp. fp \in [FP -> FPThread] /\ \A f \in FP : fp[f] \in FPThread
  BY Types
<1>q. /\ lbq \in [LB -> QueueOf(Packet)] /\ fpq \in [FP -> QueueOf(Packet)]
      /\ \A l \in LB : lbq[l] \in QueueOf(Packet) /\ Len(lbq[l].buf) \in Nat
      /\ \A f \in FP : fpq[f] \in QueueOf(Packet) /\ Len(fpq[f].buf) \in Nat
  BY Types, HeldType
<1>r. reader \in [pc : {"off", "open", "read", "push", "done"}, next : 1 .. Len(Capture) + 1]
  BY DEF TypeOK
<1>st. /\ stats \in [total : Nat, forwarded : Nat, dropped : Nat]
       /\ stats.total \in Nat /\ stats.forwarded \in Nat /\ stats.dropped \in Nat
  BY DEF TypeOK
<1>c. file < 2 =>
        /\ stats.total = SumOf(Arrived) + (IF reader.pc = "push" THEN 1 ELSE 0)
        /\ \A l \in LB : /\ lb[l].received = lb[l].dispatched + (IF lb[l].pc = "push" THEN 1 ELSE 0)
                         /\ lb[l].dispatched = SumOf(ArrivedFrom(l))
        /\ SumOf(Processed) = stats.forwarded + stats.dropped + Cardinality(Processing)
  BY DEF CountersOK
\* What a step leaves alone when it moves no packet.
<1>n. /\ UNCHANGED <<lb, lbq>> => UNCHANGED Arrived
      /\ UNCHANGED fp => UNCHANGED <<Processed, Processing>>
      /\ UNCHANGED <<fp, fpq>> => \A l \in LB : ArrivedFrom(l)' = ArrivedFrom(l)
  BY DEF Arrived, Processed, Processing, ArrivedFrom
<1>1. ASSUME file' < 2 => file < 2, UNCHANGED <<stats, Arrived, Processed, Processing>>,
             reader'.pc = "push" <=> reader.pc = "push",
             \A l \in LB : /\ lb'[l].received = lb[l].received /\ lb'[l].dispatched = lb[l].dispatched
                           /\ lb'[l].pc = "push" <=> lb[l].pc = "push"
                           /\ ArrivedFrom(l)' = ArrivedFrom(l)
      PROVE  CountersOK'
  BY <1>1, <1>c DEF CountersOK
<1>2. CASE UNCHANGED <<file, stats, lb, fp, lbq, fpq>> /\ (reader'.pc = "push" <=> reader.pc = "push")
  BY <1>1, <1>2, <1>n
<1>3. CASE StartFile
  <2>1. file' = file + 1 /\ reader'.pc = "open" /\ stage = "idle" /\ UNCHANGED <<stats, lbq, fpq>>
    BY <1>3 DEF StartFile, queueVars
  <2>2. (file' < 2 => file < 2) /\ reader.pc # "push"
    BY <2>1, Types DEF PhasesOK
  <2>3. /\ \A l \in LB : lb[l].pc # "push"
        /\ \A f \in FP : fp[f].pc # "process"
    BY <2>1 DEF PhasesOK, AfterLBs, AfterFPs, AfterOut, Ended
  <2>4. \A l \in LB : /\ lb'[l].pc = "check" /\ lb'[l].received = lb[l].received
                      /\ lb'[l].dispatched = lb[l].dispatched
    BY <1>3, <1>lb DEF StartFile, LBThread
  <2>5. \A f \in FP : fp'[f].pc = "check" /\ fp'[f].processed = fp[f].processed
    BY <1>3, <1>fp DEF StartFile, FPThread
  <2>6. Arrived' = Arrived
    BY <2>1, <2>4 DEF Arrived
  <2>7. Processed' = Processed /\ Processing' = Processing
    BY <2>3, <2>5 DEF Processed, Processing
  <2>8. ASSUME NEW l \in LB PROVE ArrivedFrom(l)' = ArrivedFrom(l)
    <3>1. \A f \in Group(l) : f \in FP
      BY Groups
    <3> QED
      BY <2>1, <2>5, <3>1 DEF ArrivedFrom
  <2> QED
    BY <1>1, <2>1, <2>2, <2>3, <2>4, <2>6, <2>7, <2>8
<1>4. CASE ReaderOpen \/ ReaderSkip \/ ReaderEnd
  <2>1. UNCHANGED <<file, stats, lb, fp, lbq, fpq>>
    BY <1>4 DEF ReaderOpen, ReaderSkip, ReaderEnd, mainVars, queueVars
  <2>2. reader'.pc # "push" /\ reader.pc # "push"
    BY <1>4, <1>r DEF ReaderOpen, ReaderSkip, ReaderEnd
  <2> QED
    BY <1>2, <2>1, <2>2
<1>5. CASE ReaderCount
  <2>1. UNCHANGED <<file, lb, fp, lbq, fpq>> /\ reader.pc = "read" /\ reader'.pc = "push"
    BY <1>5, <1>r DEF ReaderCount, mainVars, queueVars
  <2>2. /\ stats'.total = stats.total + 1 /\ stats'.forwarded = stats.forwarded
        /\ stats'.dropped = stats.dropped
    BY <1>5, <1>st DEF ReaderCount
  <2>3. SumOf(Arrived) \in Nat
    BY CountTypes
  <2>4. /\ Arrived' = Arrived /\ Processed' = Processed /\ Processing' = Processing
        /\ \A l \in LB : ArrivedFrom(l)' = ArrivedFrom(l)
    BY <1>n, <2>1
  <2>5. file < 2 => stats'.total = SumOf(Arrived) + 1
    BY <1>c, <2>1, <2>2, <2>3
  <2> QED
    BY <1>c, <2>1, <2>2, <2>4, <2>5 DEF CountersOK
<1>6. CASE ReaderPush
  <2> DEFINE x == Current
             h == LBFor(x)
  <2>1. x \in Packet /\ h \in LB /\ stage = "reading" /\ reader.pc = "push"
    BY <1>6, Places DEF ReaderPush, PhasesOK
  <2>2. /\ lbq' = [lbq EXCEPT ![h] = Push(@, x)] /\ reader'.pc = "read"
        /\ UNCHANGED <<file, lb, fp, fpq, stats>>
    BY <1>6 DEF ReaderPush, mainVars
  <2> HIDE DEF x, h
  <2> SUFFICES ASSUME file < 2 PROVE CountersOK'
    BY <2>2 DEF CountersOK
  <2>3. ~lbq[h].shut
    BY <2>1 DEF PhasesOK, AfterReader, AfterLBs, AfterFPs, AfterOut
  <2>4. /\ Len(lbq'[h].buf) = Len(lbq[h].buf) + 1
        /\ \A l \in LB \ {h} : lbq'[l] = lbq[l]
    <3>1. lbq'[h] = Push(lbq[h], x)
      BY <1>q, <2>1, <2>2
    <3> QED
      BY <1>q, <2>1, <2>2, <2>3, <3>1, PushFacts
  <2>5. lb[h].received + Len(lbq'[h].buf) = (lb[h].received + Len(lbq[h].buf)) + 1
    <3> DEFINE a == Len(lbq[h].buf)
               b == lb[h].received
    <3>1. a \in Nat /\ b \in Nat /\ Len(lbq'[h].buf) = a + 1
      BY <1>lb, <1>q, <2>1, <2>4 DEF LBThread
    <3> HIDE DEF a, b
    <3>2. b + (a + 1) = (b + a) + 1
      BY <3>1
    <3> QED
      BY <3>1, <3>2 DEF a, b
  <2>6. SumOf(Arrived') = SumOf(Arrived) + 1 /\ SumOf(Arrived) \in Nat
    <3> DEFINE a == Arrived
               b == Arrived'
    <3>1. /\ a = [l \in LB |-> lb[l].received + Len(lbq[l].buf)]
          /\ b = [l \in LB |-> lb[l].received + Len(lbq'[l].buf)]
      BY <2>2 DEF Arrived
    <3>2. a \in [LB -> Nat]
      BY CountTypes
    <3> HIDE DEF a, b
    <3>3. b[h] = a[h] + 1
      BY <2>1, <2>5, <3>1
    <3>4. \A l \in LB \ {h} : b[l] = a[l]
      BY <2>4, <3>1
    <3>5. b = [l \in LB |-> b[l]]
      BY <3>1
    <3>6. SumOf(b) = SumOf(a) + 1 /\ SumOf(a) \in Nat
      BY <2>1, <3>2, <3>3, <3>4, <3>5, Threads, OneMore
    <3> QED
      BY <3>6 DEF a, b
  <2>7. stats'.total = SumOf(Arrived')
    BY <1>c, <2>1, <2>2, <2>6
  <2>8. SumOf(Arrived') \in Nat
    BY <2>6
  <2>9. stats'.total = SumOf(Arrived') + (IF reader'.pc = "push" THEN 1 ELSE 0)
    BY <2>2, <2>7, <2>8
  <2>10. /\ Processed' = Processed /\ Processing' = Processing
         /\ \A l \in LB : ArrivedFrom(l)' = ArrivedFrom(l)
    BY <1>n, <2>2
  <2> QED
    BY <1>c, <2>2, <2>9, <2>10 DEF CountersOK
<1>7. CASE StopLB
  <2>1. turn \in LB /\ UNCHANGED <<file, reader, stats, fp, fpq>>
    BY <1>7 DEF StopLB, PhasesOK
  <2>2. \A l \in LB : /\ lb'[l].pc = lb[l].pc /\ lb'[l].received = lb[l].received
                      /\ lb'[l].dispatched = lb[l].dispatched
    BY <1>7, <1>lb, <2>1 DEF StopLB, LBThread
  <2>3. \A l \in LB : lbq'[l].buf = lbq[l].buf
    BY <1>7, <1>q, <2>1, ShutFacts DEF StopLB
  <2>4. Arrived' = Arrived
    BY <2>2, <2>3 DEF Arrived
  <2> QED
    BY <1>1, <1>n, <2>1, <2>2, <2>4
<1>8. CASE StopFP
  <2>1. turn \in FP /\ UNCHANGED <<file, reader, stats, lb, lbq>>
    BY <1>8 DEF StopFP, PhasesOK
  <2>2. \A f \in FP : fp'[f].pc = fp[f].pc /\ fp'[f].processed = fp[f].processed
    BY <1>8, <1>fp, <2>1 DEF StopFP, FPThread
  <2>3. \A f \in FP : fpq'[f].buf = fpq[f].buf
    BY <1>8, <1>q, <2>1, ShutFacts DEF StopFP
  <2>4. Processed' = Processed /\ Processing' = Processing
    BY <2>2 DEF Processed, Processing
  <2>5. ASSUME NEW l \in LB PROVE ArrivedFrom(l)' = ArrivedFrom(l)
    <3>1. \A f \in Group(l) : f \in FP
      BY Groups
    <3> QED
      BY <2>2, <2>3, <3>1 DEF ArrivedFrom
  <2> QED
    BY <1>1, <1>n, <2>1, <2>4, <2>5
<1>9. ASSUME NEW l \in LB, LBCheck(l) \/ LBTimeout(l) PROVE CountersOK'
  <2>1. UNCHANGED <<file, reader, stats, fp, lbq, fpq>>
    BY <1>9 DEF LBCheck, LBTimeout, mainVars, queueVars
  <2>2. /\ lb[l].pc # "push" /\ lb'[l].pc # "push" /\ lb'[l].received = lb[l].received
        /\ lb'[l].dispatched = lb[l].dispatched
        /\ \A k \in LB \ {l} : lb'[k] = lb[k]
    BY <1>9, <1>lb DEF LBCheck, LBTimeout, LBThread
  <2>3. Arrived' = Arrived
    BY <2>1, <2>2 DEF Arrived
  <2> QED
    BY <1>1, <1>n, <2>1, <2>2, <2>3
<1>10. ASSUME NEW l \in LB, LBPop(l) PROVE CountersOK'
  <2>1. UNCHANGED <<file, reader, stats, fp, fpq>>
    BY <1>10 DEF LBPop, mainVars
  <2>2. /\ lb[l].pc = "pop" /\ lb'[l].pc = "push" /\ lb'[l].received = lb[l].received + 1
        /\ lb'[l].dispatched = lb[l].dispatched /\ lbq'[l] = PopFront(lbq[l])
        /\ \A k \in LB \ {l} : lb'[k] = lb[k] /\ lbq'[k] = lbq[k]
    BY <1>10, <1>lb, <1>q DEF LBPop, LBThread
  <2>3. Len(lbq'[l].buf) = Len(lbq[l].buf) - 1
    BY <1>10, <1>q, <2>2, PopFacts DEF LBPop
  <2>4. Arrived' = Arrived
    <3>1. lb'[l].received + Len(lbq'[l].buf) = lb[l].received + Len(lbq[l].buf)
      <4> DEFINE a == Len(lbq[l].buf)
                 b == lb[l].received
      <4>1. a \in Nat /\ b \in Nat /\ Len(lbq'[l].buf) = a - 1 /\ lb'[l].received = b + 1
        BY <1>lb, <1>q, <2>2, <2>3 DEF LBThread
      <4> HIDE DEF a, b
      <4>2. (b + 1) + (a - 1) = b + a
        BY <4>1
      <4> QED
        BY <4>1, <4>2 DEF a, b
    <3> QED
      BY <2>2, <3>1 DEF Arrived
  <2>5. file < 2 => lb'[l].received = lb'[l].dispatched + 1
    BY <1>c, <1>lb, <2>2 DEF LBThread
  <2>6. /\ Processed' = Processed /\ Processing' = Processing
        /\ \A k \in LB : ArrivedFrom(k)' = ArrivedFrom(k)
    BY <1>n, <2>1
  <2> QED
    BY <1>c, <2>1, <2>2, <2>4, <2>5, <2>6 DEF CountersOK
<1>11. ASSUME NEW l \in LB, LBPush(l) PROVE CountersOK'
  <2> DEFINE x == lb[l].job
             g == FPFor(l, x)
  <2>1. x \in Packet /\ g \in FP /\ g \in Group(l) /\ lb[l].pc = "push"
    BY <1>11, InHands, Places, Groups DEF LBPush
  <2>2. /\ UNCHANGED <<file, reader, stats, fp, lbq>>
        /\ fpq' = [fpq EXCEPT ![g] = Push(@, x)]
    BY <1>11 DEF LBPush, mainVars
  <2>3. /\ lb'[l].pc = "check" /\ lb'[l].received = lb[l].received
        /\ lb'[l].dispatched = lb[l].dispatched + 1
        /\ \A k \in LB \ {l} : lb'[k] = lb[k]
    BY <1>11, <1>lb DEF LBPush, LBThread
  <2> HIDE DEF x, g
  <2> SUFFICES ASSUME file < 2 PROVE CountersOK'
    BY <2>2 DEF CountersOK
  <2>4. ~fpq[g].shut
    BY <2>1, AtWork DEF PhasesOK, Ended
  <2>5. /\ Len(fpq'[g].buf) = Len(fpq[g].buf) + 1
        /\ \A f \in FP \ {g} : fpq'[f] = fpq[f]
    <3>1. fpq'[g] = Push(fpq[g], x)
      BY <1>q, <2>1, <2>2
    <3> QED
      BY <1>q, <2>1, <2>2, <2>4, <3>1, PushFacts
  <2>6. fp[g].processed + Len(fpq'[g].buf) = (fp[g].processed + Len(fpq[g].buf)) + 1
    <3> DEFINE a == Len(fpq[g].buf)
               b == fp[g].processed
    <3>1. a \in Nat /\ b \in Nat /\ Len(fpq'[g].buf) = a + 1
      BY <1>fp, <1>q, <2>1, <2>5 DEF FPThread
    <3> HIDE DEF a, b
    <3>2. b + (a + 1) = (b + a) + 1
      BY <3>1
    <3> QED
      BY <3>1, <3>2 DEF a, b
  <2>7. SumOf(ArrivedFrom(l)') = SumOf(ArrivedFrom(l)) + 1
    <3> DEFINE a == ArrivedFrom(l)
               b == ArrivedFrom(l)'
    <3>1. /\ a = [f \in Group(l) |-> fp[f].processed + Len(fpq[f].buf)]
          /\ b = [f \in Group(l) |-> fp[f].processed + Len(fpq'[f].buf)]
      BY <2>2 DEF ArrivedFrom, Group
    <3>2. a \in [Group(l) -> Nat] /\ IsFiniteSet(Group(l)) /\ \A f \in Group(l) : f \in FP
      BY CountTypes, Groups
    <3> HIDE DEF a, b
    <3>3. b[g] = a[g] + 1
      BY <2>1, <2>6, <3>1
    <3>4. \A f \in Group(l) \ {g} : b[f] = a[f]
      BY <2>5, <3>1, <3>2
    <3>5. b = [f \in Group(l) |-> b[f]]
      BY <3>1
    <3>6. SumOf(b) = SumOf(a) + 1
      BY <2>1, <3>2, <3>3, <3>4, <3>5, OneMore
    <3> QED
      BY <3>6 DEF a, b
  <2>8. ASSUME NEW k \in LB \ {l} PROVE ArrivedFrom(k)' = ArrivedFrom(k)
    <3>1. \A f \in Group(k) : f \in FP /\ f # g
      BY <2>1, Groups
    <3> QED
      BY <2>2, <2>5, <3>1 DEF ArrivedFrom
  <2>9. lb'[l].received = lb'[l].dispatched /\ lb'[l].dispatched = SumOf(ArrivedFrom(l)')
    BY <1>c, <2>1, <2>3, <2>7
  <2>10. Arrived' = Arrived
    BY <2>2, <2>3 DEF Arrived
  <2>11. Processed' = Processed /\ Processing' = Processing
    BY <1>n, <2>2
  <2>12. ASSUME NEW k \in LB
         PROVE  /\ lb'[k].received = lb'[k].dispatched + (IF lb'[k].pc = "push" THEN 1 ELSE 0)
                /\ lb'[k].dispatched = SumOf(ArrivedFrom(k)')
    <3>1. CASE k = l
      <4>1. lb'[l].dispatched \in Nat
        BY <1>lb, <2>3 DEF LBThread
      <4> QED
        BY <2>3, <2>9, <3>1, <4>1
    <3>2. CASE k # l
      BY <1>c, <2>3, <2>8, <3>2
    <3> QED
      BY <3>1, <3>2
  <2> QED
    BY <1>c, <2>2, <2>10, <2>11, <2>12 DEF CountersOK
<1>12. ASSUME NEW f \in FP, FPCheck(f) \/ FPTimeout(f) \/ FPPush(f) PROVE CountersOK'
  <2>1. UNCHANGED <<file, reader, stats, lb, lbq, fpq>>
    BY <1>12 DEF FPCheck, FPTimeout, FPPush, mainVars, queueVars
  <2>2. /\ fp[f].pc # "process" /\ fp'[f].pc # "process" /\ fp'[f].processed = fp[f].processed
        /\ \A k \in FP \ {f} : fp'[k] = fp[k]
    BY <1>12, <1>fp DEF FPCheck, FPTimeout, FPPush, FPThread
  <2>3. Processed' = Processed /\ Processing' = Processing
    BY <2>2 DEF Processed, Processing
  <2>4. ASSUME NEW l \in LB PROVE ArrivedFrom(l)' = ArrivedFrom(l)
    <3>1. \A k \in Group(l) : k \in FP
      BY Groups
    <3> QED
      BY <2>1, <2>2, <3>1 DEF ArrivedFrom
  <2> QED
    BY <1>1, <1>n, <2>1, <2>3, <2>4
<1>13. ASSUME NEW f \in FP, FPPop(f) PROVE CountersOK'
  <2>1. UNCHANGED <<file, reader, stats, lb, lbq>>
    BY <1>13 DEF FPPop, mainVars
  <2>2. /\ fp[f].pc = "pop" /\ fp'[f].pc = "process" /\ fp'[f].processed = fp[f].processed + 1
        /\ fpq'[f] = PopFront(fpq[f])
        /\ \A k \in FP \ {f} : fp'[k] = fp[k] /\ fpq'[k] = fpq[k]
    BY <1>13, <1>fp, <1>q DEF FPPop, FPThread
  <2>3. Len(fpq'[f].buf) = Len(fpq[f].buf) - 1
    BY <1>13, <1>q, <2>2, PopFacts DEF FPPop
  <2>4. ASSUME NEW l \in LB PROVE ArrivedFrom(l)' = ArrivedFrom(l)
    <3>1. fp'[f].processed + Len(fpq'[f].buf) = fp[f].processed + Len(fpq[f].buf)
      <4> DEFINE a == Len(fpq[f].buf)
                 b == fp[f].processed
      <4>1. a \in Nat /\ b \in Nat /\ Len(fpq'[f].buf) = a - 1 /\ fp'[f].processed = b + 1
        BY <1>fp, <1>q, <2>2, <2>3 DEF FPThread
      <4> HIDE DEF a, b
      <4>2. (b + 1) + (a - 1) = b + a
        BY <4>1
      <4> QED
        BY <4>1, <4>2 DEF a, b
    <3>2. \A k \in Group(l) : k \in FP
      BY Groups
    <3> QED
      BY <2>2, <3>1, <3>2 DEF ArrivedFrom
  <2>5. Processed' = [Processed EXCEPT ![f] = @ + 1]
    BY <2>2 DEF Processed
  <2>6. Processing' = Processing \cup {f} /\ f \notin Processing
    BY <2>2 DEF Processing
  <2>7. SumOf(Processed') = SumOf(Processed) + 1
    BY <2>5, CountTypes, Threads, SumBump
  <2>8. Cardinality(Processing') = Cardinality(Processing) + 1 /\ Cardinality(Processing) \in Nat
    BY <2>6, CountTypes, FS_AddElement
  <2>9. file < 2 => SumOf(Processed') = stats.forwarded + stats.dropped + Cardinality(Processing')
    BY <1>c, <1>st, <2>7, <2>8
  <2> QED
    BY <1>c, <1>n, <2>1, <2>4, <2>9 DEF CountersOK
<1>14. ASSUME NEW f \in FP, FPDrop(f) \/ FPForward(f) PROVE CountersOK'
  <2>1. UNCHANGED <<file, reader, lb, lbq, fpq>>
    BY <1>14 DEF FPDrop, FPForward, mainVars, queueVars
  <2>2. /\ fp[f].pc = "process" /\ fp'[f].pc # "process" /\ fp'[f].processed = fp[f].processed
        /\ \A k \in FP \ {f} : fp'[k] = fp[k]
    BY <1>14, <1>fp DEF FPDrop, FPForward, FPThread
  <2>3. /\ stats'.total = stats.total
        /\ \/ stats'.forwarded = stats.forwarded + 1 /\ stats'.dropped = stats.dropped
           \/ stats'.forwarded = stats.forwarded /\ stats'.dropped = stats.dropped + 1
    BY <1>14, <1>st DEF FPDrop, FPForward
  <2>4. ASSUME NEW l \in LB PROVE ArrivedFrom(l)' = ArrivedFrom(l)
    <3>1. \A k \in Group(l) : k \in FP
      BY Groups
    <3> QED
      BY <2>1, <2>2, <3>1 DEF ArrivedFrom
  <2>5. Processed' = Processed
    BY <2>2 DEF Processed
  <2>6. Processing' = Processing \ {f} /\ f \in Processing
    BY <2>2 DEF Processing
  <2>7. Cardinality(Processing') = Cardinality(Processing) - 1 /\ Cardinality(Processing) \in Nat
    BY <2>6, CountTypes, FS_RemoveElement
  <2>8. file < 2 => SumOf(Processed) = stats'.forwarded + stats'.dropped + Cardinality(Processing')
    BY <1>c, <1>st, <2>3, <2>7
  <2> QED
    BY <1>c, <1>n, <2>1, <2>3, <2>4, <2>5, <2>8 DEF CountersOK
<1> QED
  BY <1>2, <1>3, <1>4, <1>5, <1>6, <1>7, <1>8, <1>9, <1>10, <1>11, <1>12, <1>13, <1>14
  DEF Next, Main, Reader, LoadBalancer, FastPath, Writer, BeginStop, JoinLB, JoinFP, StopOut,
      FinishFile, WriterCheck, WriterTimeout, WriterWrite, vars, mainVars, queueVars
-----------------------------------------------------------------------------
(***************************************************************************)
(* The invariant and the theorems that follow from it.                     *)
(***************************************************************************)
LEMMA InitIInv == Init => IInv
<1> SUFFICES ASSUME Init PROVE IInv
  OBVIOUS
<1>1. TypeOK
  BY InitType
<1>2. HandsOK
  BY NewQueueFacts DEF Init, HandsOK
<1>3. /\ Decided = {} /\ InWork = {} /\ AtFP = {} /\ AtLB = {} /\ ToLB = {} /\ InHand = {}
      /\ Written = {} /\ Held(outq) = {}
  <2>1. Decided = {} /\ InWork = {} /\ AtLB = {} /\ InHand = {} /\ Written = {}
    BY DEF Init, Decided, InWork, Processing, AtLB, InHand, Pushing, Written
  <2>2. AtFP = {} /\ ToLB = {} /\ Held(outq) = {}
    BY NewQueueFacts DEF Init, AtFP, ToLB
  <2> QED
    BY <2>1, <2>2
<1>4. OrderOK
  <2>1. Chain(Upstream, Bad)
    <3>1. DOMAIN Upstream = 1 .. 6 /\ \A i \in 1 .. 5 : Upstream[i] = {}
      BY <1>3 DEF Upstream
    <3>2. \A i, j \in 1 .. 6 : i < j => i \in 1 .. 5
      OBVIOUS
    <3> QED
      BY <3>1, <3>2 DEF Chain
  <2>2. Chain(Downstream, Bad)
    <3>1. DOMAIN Downstream = 1 .. 3 /\ \A i \in 1 .. 3 : Downstream[i] = {}
      BY <1>3 DEF Downstream
    <3> QED
      BY <3>1 DEF Chain
  <2>3. InOrder(NewQueue.buf, Bad)
    BY NewQueueFacts DEF InOrder
  <2> QED
    BY <2>1, <2>2, <2>3 DEF Init, OrderOK
<1>5. VerdictsOK
  BY <1>3 DEF VerdictsOK
<1>6. PhasesOK
  BY NewQueueFacts DEF Init, PhasesOK, AfterReader, AfterLBs, AfterFPs, AfterOut, Ended
<1>7. HeaderOK
  BY DEF Init, HeaderOK
<1>8. PlacesOK
  BY DEF Init, PlacesOK
<1>9. CountersOK
  <2>1. SumOf(Arrived) = 0
    <3>1. \A l \in LB : lb[l].received = 0 /\ Len(lbq[l].buf) = 0
      BY NewQueueFacts DEF Init
    <3>2. DOMAIN Arrived = LB /\ \A l \in LB : Arrived[l] = 0
      BY <3>1 DEF Arrived
    <3> QED
      BY <3>2, SumZero
  <2>2. ASSUME NEW l \in LB PROVE SumOf(ArrivedFrom(l)) = 0
    <3>1. \A f \in Group(l) : f \in FP
      BY Groups
    <3>2. \A f \in FP : fp[f].processed = 0 /\ Len(fpq[f].buf) = 0
      BY NewQueueFacts DEF Init
    <3>3. DOMAIN ArrivedFrom(l) = Group(l) /\ \A f \in Group(l) : ArrivedFrom(l)[f] = 0
      BY <3>1, <3>2 DEF ArrivedFrom
    <3> QED
      BY <3>3, SumZero
  <2>3. SumOf(Processed) = 0
    <3>1. DOMAIN Processed = FP /\ \A f \in FP : Processed[f] = 0
      BY DEF Init, Processed
    <3> QED
      BY <3>1, SumZero
  <2>4. Cardinality(Processing) = 0
    <3>1. Processing = {}
      BY DEF Init, Processing
    <3> QED
      BY <3>1, FS_EmptySet
  <2>5. /\ stats = [total |-> 0, forwarded |-> 0, dropped |-> 0] /\ reader.pc # "push"
        /\ \A l \in LB : lb[l].received = 0 /\ lb[l].dispatched = 0 /\ lb[l].pc # "push"
    BY DEF Init
  <2> QED
    BY <2>1, <2>2, <2>3, <2>4, <2>5 DEF CountersOK
<1> QED
  BY <1>1, <1>2, <1>4, <1>5, <1>6, <1>7, <1>8, <1>9 DEF IInv

LEMMA NextIInv ==
  ASSUME IInv, [Next]_vars
  PROVE  IInv'
  BY NextType, NextHands, NextOrder, NextVerdicts, NextPhases, NextHeader, NextPlaces, NextCounters
  DEF IInv

LEMMA Invariant == Spec => []IInv
  BY InitIInv, NextIInv, PTL DEF Spec

\* The variables of the engine have their types, and no queue ever holds more
\* than its capacity, in every step of all its threads.
THEOREM TypeCorrect == Spec => []TypeOK
<1>1. IInv => TypeOK
  BY DEF IInv
<1> QED
  BY <1>1, Invariant, PTL

LEMMA PlacesKept == IInv => NothingDiscarded
<1> SUFFICES ASSUME IInv, NEW p \in Sent, file = 1, p[1] = 1, p[2] < reader.next
             PROVE  /\ verdict[p] = "none" =>
                         \/ \E l \in LB : InSeq(lbq[l].buf, p) \/ lb[l].job = p
                         \/ \E f \in FP : InSeq(fpq[f].buf, p) \/ fp[f].job = p
                    /\ verdict[p] = "forward" =>
                         \/ \E f \in FP : fp[f].job = p
                         \/ InSeq(outq.buf, p) \/ InSeq(output[file], p)
  BY DEF NothingDiscarded, Sent, Read
<1>1. \A q : p \in Held(q) => InSeq(q.buf, p)
  BY DEF Held, InSeq
<1>2. p \in Written => InSeq(output[file], p)
  BY DEF Written, InSeq
<1>3. /\ verdict[p] = "none" => p \in InWork \cup AtFP \cup AtLB \cup ToLB
      /\ verdict[p] = "forward" => p \in Written \cup Held(outq) \cup InHand
  BY DEF IInv, PlacesOK
<1> QED
  BY <1>1, <1>2, <1>3, AtPlaces

\* No packet of the first file disappears: stop shuts a queue down, and a push
\* into it returns without pushing, only when the threads that push into it have
\* been joined.
THEOREM Lossless == Spec => []NothingDiscarded
  BY PlacesKept, Invariant, PTL

\* The output file of the engine's first call begins with its header, although
\* the reader thread writes the header and the output thread the packets.  It
\* does not hold of a second call, which finds packets in the queues.
THEOREM HeaderWrittenFirst == Spec => [](file < 2 => HeaderFirst)
<1>1. IInv => (file < 2 => HeaderFirst)
  <2> SUFFICES ASSUME IInv, file < 2, NEW f \in 1 .. MaxFiles, output[f] # <<>>
               PROVE  output[f][1] = Header(f)
    BY DEF HeaderFirst
  <2>1. ~(f > file)
    BY DEF IInv, PhasesOK
  <2>2. f = 1 /\ file = 1
    BY <2>1, Types DEF IInv
  <2> QED
    BY <2>2 DEF IInv, HeaderOK
<1> QED
  BY <1>1, Invariant, PTL

\* When the first processFile has returned, every counter of the reader, the load
\* balancers and the fast paths accounts for the one after it and for what the
\* timeouts left in the queue between them, although each is kept by a thread of
\* its own and they are never read together while the threads run.
THEOREM CountersAddUp == Spec => []CountersAgree
<1>1. IInv => CountersAgree
  <2> SUFFICES ASSUME IInv, stage = "idle", file < 2
               PROVE  /\ stats.total = SumOf(Arrived)
                      /\ \A l \in LB : /\ lb[l].received = lb[l].dispatched
                                        /\ lb[l].dispatched = SumOf(ArrivedFrom(l))
                      /\ SumOf(Processed) = stats.forwarded + stats.dropped
    BY DEF CountersAgree
  <2>1. /\ reader.pc # "push"
        /\ \A l \in LB : lb[l].pc # "push"
        /\ \A f \in FP : fp[f].pc # "process"
    BY DEF IInv, PhasesOK, AfterLBs, AfterFPs, AfterOut, Ended
  <2>2. Cardinality(Processing) = 0
    <3>1. Processing = {}
      BY <2>1 DEF Processing
    <3> QED
      BY <3>1, FS_EmptySet
  <2>3. /\ stats.forwarded \in Nat /\ stats.dropped \in Nat
        /\ \A l \in LB : lb[l].dispatched \in Nat
    BY Types DEF IInv, TypeOK, LBThread
  <2>4. SumOf(Arrived) \in Nat
    BY CountTypes DEF IInv
  <2> QED
    BY <2>1, <2>2, <2>3, <2>4 DEF IInv, CountersOK
<1> QED
  BY <1>1, Invariant, PTL
-----------------------------------------------------------------------------
(***************************************************************************)
(* The order of what is on its way to a fast path.                         *)
(***************************************************************************)
\* What the chains say, place by place.
LEMMA Apart ==
  ASSUME OrderOK, VerdictsOK
  PROVE  /\ \A x \in Decided, y \in InWork \cup AtFP \cup AtLB \cup ToLB : <<x, y>> \notin Bad
         /\ \A x \in InWork, y \in AtFP \cup AtLB \cup ToLB : <<x, y>> \notin Bad
         /\ \A x \in AtFP, y \in AtLB \cup ToLB : <<x, y>> \notin Bad
         /\ \A x \in AtLB, y \in ToLB : <<x, y>> \notin Bad
         /\ \A x \in Written, y \in Held(outq) \cup InHand : <<x, y>> \notin Bad
         /\ \A x \in Held(outq), y \in InHand : <<x, y>> \notin Bad
         /\ Written \cup Held(outq) \cup InHand \subseteq Decided
<1>1. ASSUME NEW i \in 1 .. 6, NEW j \in 1 .. 6, i < j
      PROVE  \A x \in Upstream[i], y \in Upstream[j] : <<x, y>> \notin Bad
  <2>1. DOMAIN Upstream = 1 .. 6
    BY DEF Upstream
  <2> QED
    BY <1>1, <2>1 DEF OrderOK, Chain
<1>2. ASSUME NEW i \in 1 .. 3, NEW j \in 1 .. 3, i < j
      PROVE  \A x \in Downstream[i], y \in Downstream[j] : <<x, y>> \notin Bad
  <2>1. DOMAIN Downstream = 1 .. 3
    BY DEF Downstream
  <2> QED
    BY <1>2, <2>1 DEF OrderOK, Chain
<1>3. \A x \in Decided, y \in InWork \cup AtFP \cup AtLB \cup ToLB : <<x, y>> \notin Bad
  <2>1. ASSUME NEW j \in {2, 3, 4, 5}
        PROVE  \A x \in Upstream[1], y \in Upstream[j] : <<x, y>> \notin Bad
    <3>1. 1 \in 1 .. 6 /\ j \in 1 .. 6 /\ 1 < j
      OBVIOUS
    <3> QED
      BY <1>1, <3>1
  <2>2. \A j \in {2, 3, 4, 5} : \A x \in Decided, y \in Upstream[j] : <<x, y>> \notin Bad
    BY <2>1, ByNumber
  <2> QED
    BY <2>2, ByNumber
<1>4. /\ \A x \in InWork, y \in AtFP \cup AtLB \cup ToLB : <<x, y>> \notin Bad
      /\ \A x \in AtFP, y \in AtLB \cup ToLB : <<x, y>> \notin Bad
      /\ \A x \in AtLB, y \in ToLB : <<x, y>> \notin Bad
  BY <1>1, ByNumber
<1>5. /\ \A x \in Written, y \in Held(outq) \cup InHand : <<x, y>> \notin Bad
      /\ \A x \in Held(outq), y \in InHand : <<x, y>> \notin Bad
  BY <1>2, ByNumber
<1>6. Written \cup Held(outq) \cup InHand \subseteq Decided
  BY DEF VerdictsOK, Forwarded, Decided, Sent
<1> QED
  BY <1>3, <1>4, <1>5, <1>6

LEMMA PathInOrder ==
  ASSUME IInv, NEW l \in LB, NEW f \in FP
  PROVE  InOrder(Path(l, f), Bad)
<1> DEFINE S == Packet \cup {Header(k) : k \in 1 .. MaxFiles} \cup {NoPacket}
           s1 == IF file = 0 THEN <<>> ELSE output[file]
           s2 == outq.buf
           s3 == <<fp[f].job>>
           s4 == fpq[f].buf
           s5 == <<lb[l].job>>
           s6 == lbq[l].buf
<1>1. Path(l, f) = ((((s1 \o s2) \o s3) \o s4) \o s5) \o s6
  BY DEF Path
<1>2. /\ s1 \in Seq(S) /\ s2 \in Seq(S) /\ s3 \in Seq(S) /\ s4 \in Seq(S)
      /\ s5 \in Seq(S) /\ s6 \in Seq(S)
  <2>1. s1 \in Seq(S)
    <3>1. CASE file = 0
      BY <3>1
    <3>2. CASE file # 0
      <4>1. file \in 1 .. MaxFiles
        BY <3>2, Packets DEF IInv, TypeOK
      <4>2. output[file] \in Seq(Packet \cup {Header(k) : k \in 1 .. MaxFiles})
        BY <4>1, Types DEF IInv
      <4> QED
        BY <3>2, <4>2
    <3> QED
      BY <3>1, <3>2
  <2>2. s2 \in Seq(Packet) /\ s4 \in Seq(Packet) /\ s6 \in Seq(Packet)
    BY Types DEF IInv, QueueOf
  <2>3. fp[f].job \in S /\ lb[l].job \in S
    BY Types DEF IInv, LBThread, FPThread
  <2> HIDE DEF s2, s4, s6
  <2>4. s2 \in Seq(S) /\ s4 \in Seq(S) /\ s6 \in Seq(S)
    <3>1. \A t \in Seq(Packet) : t \in Seq(S)
      OBVIOUS
    <3> QED
      BY <2>2, <3>1
  <2>5. s3 \in Seq(S) /\ s5 \in Seq(S)
    <3> HIDE DEF S
    <3> QED
      BY <2>3
  <2> QED
    BY <2>1, <2>4, <2>5
<1>3. InOrder(s1, Bad) /\ InOrder(s2, Bad) /\ InOrder(s4, Bad) /\ InOrder(s6, Bad)
  <2>1. InOrder(<<>>, Bad)
    BY DEF InOrder
  <2> QED
    BY <2>1 DEF IInv, OrderOK
<1>4. InOrder(s3, Bad) /\ InOrder(s5, Bad) /\ Items(s3) = {fp[f].job} /\ Items(s5) = {lb[l].job}
  <2>1. fp[f].job \in S /\ lb[l].job \in S
    BY Types DEF IInv, LBThread, FPThread
  <2> HIDE DEF S
  <2> QED
    BY <2>1, SingleOrder
\* Where the packets of each part are.
<1>5. /\ Items(s1) \cap Sent \subseteq Written
      /\ Items(s2) = Held(outq)
      /\ Items(s3) \cap Sent \subseteq InHand \cup InWork
      /\ Items(s4) \subseteq AtFP
      /\ Items(s5) \cap Sent \subseteq AtLB
      /\ Items(s6) \subseteq ToLB
  <2>1. Items(s1) \cap Sent \subseteq Written
    BY DEF Items, Written, Sent
  <2>2. Items(s2) = Held(outq) /\ Items(s4) \subseteq AtFP /\ Items(s6) \subseteq ToLB
    BY AtPlaces DEF Items, Held
  <2>3. NoPacket \notin Sent
    BY Packets DEF Sent
  <2>4. Items(s3) \cap Sent \subseteq InHand \cup InWork
    <3>1. fp[f].pc \notin {"process", "push"} => fp[f].job = NoPacket
      BY DEF IInv, HandsOK
    <3> QED
      BY <1>4, <2>3, <3>1, AtPlaces
  <2>5. Items(s5) \cap Sent \subseteq AtLB
    <3>1. lb[l].pc # "push" => lb[l].job = NoPacket
      BY DEF IInv, HandsOK
    <3> QED
      BY <1>4, <2>3, <3>1, AtPlaces
  <2> QED
    BY <2>1, <2>2, <2>4, <2>5
<1>6. \A x, y : <<x, y>> \in Bad => x \in Sent /\ y \in Sent
  BY BadPairs
<1>7. OrderOK /\ VerdictsOK
  BY DEF IInv
<1> HIDE DEF S, s1, s2, s3, s4, s5, s6
<1>8. /\ \A x \in Items(s1), y \in Items(s2) : <<x, y>> \notin Bad
      /\ \A x \in Items(s1) \cup Items(s2), y \in Items(s3) : <<x, y>> \notin Bad
  BY <1>5, <1>6, <1>7, Apart
<1>9. \A x \in Items(s1) \cup Items(s2) \cup Items(s3), y \in Items(s4) : <<x, y>> \notin Bad
  BY <1>5, <1>6, <1>7, Apart
<1>10. \A x \in Items(s1) \cup Items(s2) \cup Items(s3) \cup Items(s4), y \in Items(s5) : <<x, y>> \notin Bad
  BY <1>5, <1>6, <1>7, Apart
<1>11. \A x \in Items(s1) \cup Items(s2) \cup Items(s3) \cup Items(s4) \cup Items(s5), y \in Items(s6) :
         <<x, y>> \notin Bad
  BY <1>5, <1>6, <1>7, Apart
<1> DEFINE t2 == s1 \o s2
           t3 == t2 \o s3
           t4 == t3 \o s4
           t5 == t4 \o s5
<1>12. t2 \in Seq(S) /\ InOrder(t2, Bad) /\ Items(t2) = Items(s1) \cup Items(s2)
  BY <1>2, <1>3, <1>8, JoinOrder
<1> HIDE DEF t2
<1>13. t3 \in Seq(S) /\ InOrder(t3, Bad) /\ Items(t3) = Items(s1) \cup Items(s2) \cup Items(s3)
  <2>1. \A x \in Items(t2), y \in Items(s3) : <<x, y>> \notin Bad
    BY <1>8, <1>12
  <2>2. /\ t3 \in Seq(S) /\ InOrder(t3, Bad)
        /\ Items(t3) = Items(t2) \cup Items(s3)
    BY <1>2, <1>4, <1>12, <2>1, JoinOrder
  <2> QED
    BY <1>12, <2>2
<1> HIDE DEF t3
<1>14. t4 \in Seq(S) /\ InOrder(t4, Bad)
       /\ Items(t4) = Items(s1) \cup Items(s2) \cup Items(s3) \cup Items(s4)
  <2>1. \A x \in Items(t3), y \in Items(s4) : <<x, y>> \notin Bad
    BY <1>9, <1>13
  <2>2. /\ t4 \in Seq(S) /\ InOrder(t4, Bad)
        /\ Items(t4) = Items(t3) \cup Items(s4)
    <3>1. t3 \in Seq(S) /\ s4 \in Seq(S) /\ InOrder(t3, Bad) /\ InOrder(s4, Bad)
      BY <1>2, <1>3, <1>13
    <3> QED
      BY <2>1, <3>1, JoinOrder
  <2> QED
    BY <1>13, <2>2
<1> HIDE DEF t4
<1>15. t5 \in Seq(S) /\ InOrder(t5, Bad)
       /\ Items(t5) = Items(s1) \cup Items(s2) \cup Items(s3) \cup Items(s4) \cup Items(s5)
  <2>1. \A x \in Items(t4), y \in Items(s5) : <<x, y>> \notin Bad
    BY <1>10, <1>14
  <2>2. /\ t5 \in Seq(S) /\ InOrder(t5, Bad)
        /\ Items(t5) = Items(t4) \cup Items(s5)
    BY <1>2, <1>4, <1>14, <2>1, JoinOrder
  <2> QED
    BY <1>14, <2>2
<1> HIDE DEF t5
<1>16. InOrder(t5 \o s6, Bad)
  <2>1. \A x \in Items(t5), y \in Items(s6) : <<x, y>> \notin Bad
    BY <1>11, <1>15
  <2> QED
    BY <1>2, <1>3, <1>15, <2>1, JoinOrder
<1> QED
  BY <1>1, <1>16 DEF t2, t3, t4, t5

\* The packets of a flow never overtake one another anywhere between the reader
\* and the output file, and none is duplicated, in any number of files: they go
\* through the same queues, each with one thread that takes from it, and every
\* thread passes a packet on before it takes the next.
THEOREM FlowsInOrder == Spec => []FlowOrder
<1>1. IInv => FlowOrder
  <2> DEFINE l(fl) == Hash[fl] % NumLBs
             f(fl) == l(fl) * FPsPerLB + (Hash[fl] % FPsPerLB)
             s(fl) == Path(l(fl), f(fl))
  <2> SUFFICES ASSUME IInv, NEW fl \in Flow, NEW i \in 1 .. Len(s(fl)), NEW j \in 1 .. Len(s(fl)),
                      i < j, IsOf(s(fl)[i], fl), IsOf(s(fl)[j], fl)
               PROVE  Before(s(fl)[i], s(fl)[j])
    BY DEF FlowOrder
  <2> DEFINE x == s(fl)[i]
             y == s(fl)[j]
  <2>1. x \in Sent /\ y \in Sent /\ FlowOf(x) = fl /\ FlowOf(y) = fl
    BY EngineAssumption DEF IsOf, Sent
  <2>2. l(fl) = LBFor(x) /\ f(fl) = FPOf(x)
    BY <2>1 DEF LBFor, FPOf, FPFor
  <2>3. l(fl) \in LB /\ f(fl) \in FP
    BY <2>1, <2>2, Places
  <2>4. <<x, y>> \notin Bad
    <3>1. InOrder(s(fl), Bad)
      BY <2>3, PathInOrder
    <3> QED
      BY <3>1 DEF InOrder
  <2> HIDE DEF x, y
  <2>5. Before(x, y)
    BY <2>1, <2>4, SameFlow, BadPairs
  <2> QED
    BY <2>5 DEF x, y
<1> QED
  BY <1>1, Invariant, PTL
-----------------------------------------------------------------------------
(***************************************************************************)
(* The flow filter.  A verdict is the filter's Decide, a packet written is *)
(* its Emit, every other step leaves it alone.                             *)
(***************************************************************************)
\* An engine that is called once, while processFile is at work.
LEMMA FirstFile ==
  ASSUME MaxFiles = 1, IInv, stage # "idle"
  PROVE  file = 1 /\ output[1] \in Seq(Packet \cup {Header(1)})
<1>1. file \in 1 .. MaxFiles /\ output[file] \in Seq(Packet \cup {Header(f) : f \in 1 .. MaxFiles})
  BY Open DEF IInv
<1>2. 1 .. MaxFiles = {1} /\ {Header(f) : f \in 1 .. MaxFiles} = {Header(1)}
  OBVIOUS
<1> QED
  BY <1>1, <1>2

LEMMA WrittenByFilter ==
  ASSUME MaxFiles = 1, IInv, stage # "idle", output[1] # <<>>
  PROVE  Filter!Written \subseteq Written \cup {Header(1)}
<1> DEFINE s == output[1]
<1>1. /\ s \in Seq(Packet \cup {Header(1)}) /\ s # <<>> /\ file = 1
  BY FirstFile
<1>2. /\ Len(s) \in Nat \ {0} /\ Len(Tail(s)) = Len(s) - 1
      /\ \A k \in 1 .. Len(s) - 1 : Tail(s)[k] = s[k + 1]
  BY <1>1, TailFacts
<1>3. Filter!Written = {Tail(s)[k] : k \in 1 .. Len(Tail(s))}
  BY <1>1 DEF Filter!Written
<1>4. Written = {s[k] : k \in 1 .. Len(s)} \cap Packet
  BY <1>1 DEF Written
<1> HIDE DEF s
<1>5. ASSUME NEW k \in 1 .. Len(s) - 1
      PROVE  s[k + 1] \in Written \cup {Header(1)}
  <2>1. k + 1 \in 1 .. Len(s)
    BY <1>2
  <2>2. s[k + 1] \in Packet \cup {Header(1)}
    BY <1>1, <2>1, ElementOfSeq
  <2> QED
    BY <1>4, <2>1, <2>2
<1> QED
  BY <1>2, <1>3, <1>5

\* A decision is a decision of the filter.
LEMMA DecideStep ==
  ASSUME MaxFiles = 1, IInv, NEW f \in FP, FPDrop(f) \/ FPForward(f)
  PROVE  Filter!Next
<1> DEFINE x == fp[f].job
<1>1. fp[f].pc = "process" /\ UNCHANGED output
  BY DEF FPDrop, FPForward
<1>2. x \in Sent /\ x \in Packet /\ x \in InWork /\ verdict[x] = "none"
  BY <1>1, InHands, Undecided, AtPlaces DEF IInv, Sent
<1>3. PICK v \in {"forward", "drop"} : verdict' = [verdict EXCEPT ![x] = v]
  BY DEF FPDrop, FPForward
<1>4. ASSUME NEW q \in Packet, Precedes(x, q) PROVE verdict[q] = "none"
  <2> SUFFICES ASSUME verdict[q] # "none" PROVE FALSE
    OBVIOUS
  <2>1. q \in Decided /\ q \in Sent
    BY DEF IInv, VerdictsOK, Decided
  <2>2. <<q, x>> \notin Bad
    BY <1>2, <2>1, Apart DEF IInv
  <2>3. Before(q, x)
    BY <1>2, <1>4, <2>1, <2>2, SameFlow, BadPairs DEF Precedes
  <2>4. q[1] = 1 /\ x[1] = 1 /\ x[2] < q[2] /\ x[2] \in Nat /\ q[2] \in Nat
    BY <1>2, <1>4, <2>1, Packets DEF Precedes
  <2> QED
    BY <2>3, <2>4 DEF Before
<1> HIDE DEF x
<1>5. Filter!Decide(x, v)
  BY <1>1, <1>2, <1>3, <1>4 DEF Filter!Decide
<1> QED
  BY <1>2, <1>3, <1>5 DEF Filter!Next

\* Writing a packet emits it.
LEMMA EmitStep ==
  ASSUME MaxFiles = 1, IInv, WriterWrite
  PROVE  Filter!Next
<1> DEFINE x == FrontItem(outq)
           s == output[1]
<1>1. /\ HasItem(outq) /\ writer = "pop" /\ UNCHANGED verdict
      /\ output' = [output EXCEPT ![file] = Append(@, x)]
  BY DEF WriterWrite
<1>2. stage # "idle" /\ file = 1 /\ s \in Seq(Packet \cup {Header(1)})
  <2>1. stage # "idle"
    BY <1>1, AtWork DEF IInv, Ended
  <2> QED
    BY <2>1, FirstFile
<1>3. output'[1] = Append(s, x)
  <2>1. 1 \in 1 .. MaxFiles
    OBVIOUS
  <2> QED
    BY <1>1, <1>2, <2>1, Types DEF IInv
<1>4. x \in Held(outq) /\ x \in Packet
  BY <1>1, Types, PopFacts DEF IInv
<1>5. verdict[x] = "forward" /\ x \in Sent
  BY <1>4 DEF IInv, VerdictsOK, Forwarded
<1>6. x \notin Written
  BY <1>4, <1>5, Apart, BadPairs DEF IInv
<1>7. s # <<>>
  <2> SUFFICES ASSUME s = <<>> PROVE FALSE
    OBVIOUS
  <2>1. reader.next = 1
    BY <1>2 DEF IInv, HeaderOK
  <2> HIDE DEF x
  <2>2. x \in Unread
    <3>1. x[1] > 1 \/ (x[1] = 1 /\ x[2] >= 1)
      BY <1>4, Packets
    <3> QED
      BY <1>2, <1>4, <2>1, <3>1 DEF Unread
  <2>3. x \in Decided
    BY <1>4, <1>5 DEF Decided
  <2>4. 1 \in DOMAIN Upstream /\ 6 \in DOMAIN Upstream /\ 1 < 6 /\ Chain(Upstream, Bad)
    BY DEF Upstream, IInv, OrderOK
  <2>5. x \in Upstream[1] /\ x \in Upstream[6] /\ <<x, x>> \in Bad
    BY <1>5, <2>2, <2>3, ByNumber, BadPairs
  <2> QED
    BY <2>4, <2>5 DEF Chain
<1> HIDE DEF x
<1>8. ASSUME NEW q \in Filter!Written PROVE x # q /\ ~Precedes(x, q)
  <2>1. q \in Written \cup {Header(1)}
    BY <1>2, <1>7, <1>8, WrittenByFilter
  <2>2. CASE q = Header(1)
    <3>1. q[2] = 0 /\ x # q /\ x[2] \in Nat
      BY <1>4, <2>2, Packets DEF Header
    <3> QED
      BY <3>1 DEF Precedes
  <2>3. CASE q \in Written
    <3>1. q \in Sent /\ q \in Packet /\ x # q
      BY <1>6, <2>3 DEF IInv, VerdictsOK, Forwarded, Sent
    <3>2. <<q, x>> \notin Bad
      BY <1>4, <2>3, Apart DEF IInv
    <3> SUFFICES ASSUME Precedes(x, q) PROVE FALSE
      BY <3>1
    <3>3. Before(q, x)
      BY <1>5, <3>1, <3>2, SameFlow, BadPairs DEF Precedes
    <3>4. x[1] = 1 /\ q[1] = 1 /\ x[2] < q[2] /\ x[2] \in Nat /\ q[2] \in Nat
      BY <1>4, <3>1, Packets DEF Precedes
    <3> QED
      BY <3>3, <3>4 DEF Before
  <2> QED
    BY <2>1, <2>2, <2>3
<1>9. output'[1] # <<>> /\ Tail(output'[1]) = Append(Tail(s), x)
  <2> HIDE DEF s
  <2>1. x \in Packet \cup {Header(1)}
    BY <1>4
  <2> QED
    BY <1>2, <1>3, <1>7, <2>1
<1>10. Filter!Emit(x)
  BY <1>1, <1>5, <1>7, <1>8, <1>9 DEF Filter!Emit
<1> QED
  BY <1>4, <1>10 DEF Filter!Next

\* The engine implements the flow filter for its first file, for every number of
\* threads, capacity and hash function: no thread schedule lets a packet have two
\* verdicts, lets packets of a flow overtake each other or writes a packet that
\* was not forwarded, or one twice.
THEOREM Implements ==
  ASSUME MaxFiles = 1
  PROVE  Spec => ImplementsFlowFilter
<1>1. Init => Filter!Init
  <2>1. 1 \in 1 .. MaxFiles
    OBVIOUS
  <2> QED
    BY <2>1 DEF Init, Filter!Init
<1>2. ASSUME IInv, [Next]_vars PROVE [Filter!Next]_Filter!vars
  <2>1. CASE UNCHANGED <<verdict, output>>
    BY <2>1 DEF Filter!vars
  <2>2. CASE ReaderOpen
    <3>1. file = 1 /\ output[1] = <<>> /\ UNCHANGED verdict
      BY <1>2, <2>2, FirstFile DEF IInv, ReaderOpen, PhasesOK, HeaderOK
    <3>2. output'[1] = <<>> \/ Tail(output'[1]) = <<>>
      <4>1. CASE UNCHANGED output
        BY <3>1, <4>1
      <4>2. CASE output' = [output EXCEPT ![file] = Append(@, Header(file))]
        <5>1. output'[1] = Append(output[1], Header(1))
          <6>1. 1 \in 1 .. MaxFiles
            OBVIOUS
          <6> QED
            BY <1>2, <3>1, <4>2, <6>1, Types DEF IInv
        <5>2. Tail(Append(<<>>, Header(1))) = <<>>
          OBVIOUS
        <5> QED
          BY <3>1, <5>1, <5>2
      <4> QED
        BY <2>2, <4>1, <4>2 DEF ReaderOpen
    <3> QED
      BY <3>1, <3>2 DEF Filter!vars
  <2>3. ASSUME NEW f \in FP, FPDrop(f) \/ FPForward(f) PROVE Filter!Next
    BY <1>2, <2>3, DecideStep
  <2>4. CASE WriterWrite
    BY <1>2, <2>4, EmitStep
  <2> QED
    BY <1>2, <2>1, <2>2, <2>3, <2>4
    DEF Next, Main, Reader, LoadBalancer, FastPath, Writer, StartFile, BeginStop, StopLB, JoinLB,
        StopFP, JoinFP, StopOut, FinishFile, ReaderSkip, ReaderCount, ReaderPush, ReaderEnd,
        LBCheck, LBTimeout, LBPop, LBPush, FPCheck, FPTimeout, FPPop, FPPush,
        WriterCheck, WriterTimeout, vars, mainVars, queueVars
<1> QED
  BY <1>1, <1>2, Invariant, PTL DEF Spec, ImplementsFlowFilter, Filter!Spec
-----------------------------------------------------------------------------
(***************************************************************************)
(* How the flows are spread over the fast paths; DpiMt spreads them in the *)
(* same way.                                                               *)
(***************************************************************************)
\* Reducing modulo a multiple of d first does not change the remainder by d.
LEMMA RemainderOfRemainder ==
  ASSUME NEW h \in Nat, NEW d \in Nat \ {0}, NEW k \in Nat \ {0}
  PROVE  (h % (d * k)) % d = h % d
<1> DEFINE n == d * k
           r == h % n
<1>1. n \in Nat \ {0}
  OBVIOUS
<1> HIDE DEF n
<1>2. h \div n \in Nat /\ r \in Nat /\ h = n * (h \div n) + r
  BY <1>1, Division
<1> HIDE DEF r
<1>3. r \div d \in Nat /\ r % d \in 0 .. d - 1 /\ r = d * (r \div d) + (r % d)
  BY <1>2, Division
<1>4. h \div d \in Nat /\ h % d \in 0 .. d - 1 /\ h = d * (h \div d) + (h % d)
  BY Division
<1>5. ASSUME NEW q \in Nat PROVE n * q = d * (k * q)
  BY <1>5 DEF n
<1>6. d * (k * (h \div n) + r \div d) = d * (k * (h \div n)) + d * (r \div d)
  BY <1>2, <1>3
<1>7. d * (k * (h \div n) + r \div d) + (r % d) = d * (h \div d) + (h % d)
  BY <1>2, <1>3, <1>4, <1>5, <1>6
<1>8. r % d = h % d
  <2>1. k * (h \div n) + r \div d \in Int /\ h \div d \in Int
    BY <1>2, <1>3, <1>4
  <2> DEFINE a == k * (h \div n) + r \div d
             b == h \div d
  <2>2. /\ a \in Int /\ b \in Int /\ r % d \in 0 .. d - 1 /\ h % d \in 0 .. d - 1
        /\ d * a + (r % d) = d * b + (h % d)
    BY <2>1, <1>3, <1>4, <1>7
  <2> HIDE DEF a, b
  <2> QED
    BY <2>2, RemainderUnique
<1> QED
  BY <1>8 DEF n, r

\* The fast path that a packet goes to, counted from its load balancer's first.
Share(p) == FPFor(LBFor(p), p) - LBFor(p) * FPsPerLB

\* Load balancer and fast path are chosen by the same hash (getLBForPacket and
\* selectFP): whatever divides the number of load balancers and the number of
\* fast paths per load balancer, their indices leave the same remainder by it.
\* With a common divisor d, only one in d of the fast paths can get packets.
THEOREM SpreadTogether ==
  ASSUME NEW d \in Nat \ {0}, NEW j \in Nat, NEW k \in Nat,
         NumLBs = d * j, FPsPerLB = d * k,
         NEW p \in Packet, FlowOf(p) \in Flow
  PROVE  LBFor(p) % d = Share(p) % d
<1> DEFINE h == Hash[FlowOf(p)]
<1>1. h \in Nat /\ j \in Nat \ {0} /\ k \in Nat \ {0}
  BY EngineAssumption
<1>2. LBFor(p) = h % (d * j) /\ LBFor(p) \in Nat
  BY <1>1, EngineAssumption DEF LBFor
<1>3. FPFor(LBFor(p), p) = LBFor(p) * FPsPerLB + (h % (d * k))
  BY DEF FPFor
<1>4. h % (d * k) \in Nat /\ LBFor(p) * FPsPerLB \in Nat
  BY <1>1, <1>2, EngineAssumption
<1>5. Share(p) = h % (d * k)
  BY <1>3, <1>4 DEF Share
<1> HIDE DEF h
<1>6. (h % (d * j)) % d = h % d
  BY <1>1, RemainderOfRemainder
<1>7. (h % (d * k)) % d = h % d
  BY <1>1, RemainderOfRemainder
<1> QED
  BY <1>2, <1>5, <1>6, <1>7, Zenon

\* With as many fast paths per load balancer as load balancers, as in the
\* default configuration (2 and 2), every load balancer feeds a single one of its
\* fast paths and the others never get a packet.
THEOREM OneFastPathEach ==
  ASSUME NumLBs = FPsPerLB, NEW p \in Packet, FlowOf(p) \in Flow
  PROVE  FPFor(LBFor(p), p) = LBFor(p) * FPsPerLB + LBFor(p)
BY DEF FPFor, LBFor
=============================================================================
