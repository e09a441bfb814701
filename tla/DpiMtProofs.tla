----------------------------- MODULE DpiMtProofs -----------------------------
(***************************************************************************)
(* Theorems about DpiMt, for any capture, any number of threads, any       *)
(* capacity of the queues and any hash function: its invariants, and that  *)
(* it implements the flow filter.                                          *)
(*                                                                         *)
(* The inductive invariant says where every packet is, that the packets of *)
(* one fast path are in capture order over all places (OrderOK), and which *)
(* threads have ended at which stage of process (PhasesOK).                *)
(***************************************************************************)
EXTENDS DpiMt, SharedTheorems

FPOf(p) == FPFor(LBFor(p), p)

\* What the engine handles.
Sent == {p \in Packet : FlowOf(p) # NoFlow}
ForLB(l) == {p \in Sent : LBFor(p) = l}
ForFP(f) == {p \in Sent : FPOf(p) = f}
Forwarded == {p \in Sent : verdict[p] = "forward"}

\* Every packet is with a thread it belongs to, and a hand is empty otherwise.
HandsOK ==
  /\ \A l \in LB : /\ lb[l].job \in IF lb[l].pc = "push" THEN ForLB(l) ELSE {NoPacket}
                   /\ Held(lbq[l]) \subseteq ForLB(l)
  /\ \A f \in FP : /\ fp[f].job \in IF fp[f].pc \in {"process", "push"} THEN ForFP(f) ELSE {NoPacket}
                   /\ Held(fpq[f]) \subseteq ForFP(f)

\* The packets in the output file.
Written == {output[k] : k \in 2 .. Len(output)}

Pushing == {f \in FP : fp[f].pc = "push"}

\* The places of a packet, from the verdict back to the file that is read, and
\* from the output file back to the fast paths.
Decided == {p \in Packet : verdict[p] # "none"}
InWork  == {fp[f].job : f \in {g \in FP : fp[g].pc = "process"}}
AtFP    == UNION {Held(fpq[f]) : f \in FP}
AtLB    == {lb[l].job : l \in {m \in LB : lb[m].pc = "push"}}
ToLB    == UNION {Held(lbq[l]) : l \in LB}
Unread  == next .. Len(Capture)
Upstream == <<Decided, InWork, AtFP, AtLB, ToLB, Unread>>

InHand == {fp[f].job : f \in Pushing}
Downstream == <<Written, Held(outq), InHand>>

\* The second packet must not follow the first: they meet at a fast path.
Bad == {xy \in Sent \X Sent : FPOf(xy[1]) = FPOf(xy[2]) /\ ~(xy[1] < xy[2])}

OrderOK ==
  /\ Chain(Upstream, Bad) /\ Chain(Downstream, Bad)
  /\ \A l \in LB : InOrder(lbq[l].buf, Bad)
  /\ \A f \in FP : InOrder(fpq[f].buf, Bad)
  /\ InOrder(outq.buf, Bad)

\* What verdicts say.
VerdictsOK ==
  /\ Decided \subseteq Sent
  /\ Written \cup Held(outq) \cup InHand \subseteq Forwarded
  /\ \A p \in Packet : verdict[p] = "drop" => FlowOf(p) \in blocked[FPOf(p)]

\* Which threads have ended, and which queues are shut down.
BeforeStart == {"start", "failed"}
AfterOut == {"joinOut", "done"}
AfterFPs == {"stopOut", "shutOut"} \cup AfterOut
AfterLBs == {"stopFP", "joinFP"} \cup AfterFPs
AfterInput == {"stopLB", "joinLB"} \cup AfterLBs

PhasesOK ==
  /\ stage \in BeforeStart =>
       /\ \A l \in LB : lb[l].pc = "off" /\ lbq[l] = NewQueue
       /\ \A f \in FP : fp[f].pc = "off" /\ fpq[f] = NewQueue
       /\ writer = "off" /\ outq = NewQueue /\ output = <<>> /\ stats.forwarded = 0
       /\ turn = 0 /\ next = 1
  /\ stage \in {"read", "dispatch"} => turn = 0
  /\ stage = "dispatch" => next \in Sent
  /\ stage \in {"stopLB", "joinLB"} => turn \in LB /\ \A l \in LB : l < turn => lb[l].pc = "exit"
  /\ stage \in {"stopFP", "joinFP"} => turn \in FP /\ \A f \in FP : f < turn => fp[f].pc = "exit"
  /\ stage \in AfterLBs => \A l \in LB : lb[l].pc = "exit"
  /\ stage \in AfterFPs => \A f \in FP : fp[f].pc = "exit"
  /\ \A l \in LB : lbq[l].shut => stage \in AfterInput
  /\ \A f \in FP : fpq[f].shut => stage \in AfterLBs
  /\ outq.shut => stage \in AfterOut
  /\ ~outputRunning => stage \in BeforeStart \cup {"shutOut"} \cup AfterOut
  /\ writer = "exit" => stage \in {"shutOut"} \cup AfterOut /\ ~HasItem(outq)
  /\ stage = "done" => writer = "exit"

\* The forwarded packets are in the file, in the queue or in a hand.
CountOK ==
  stage \notin BeforeStart =>
    /\ output # <<>>
    /\ Len(output) + Len(outq.buf) + Cardinality(Pushing) = 1 + stats.forwarded

\* A packet that was read and has not been dropped is in one of the places.
PlacesOK ==
  \A p \in Sent : p < next =>
    /\ verdict[p] = "none" => p \in InWork \cup AtFP \cup AtLB \cup ToLB
    /\ verdict[p] = "forward" => p \in Written \cup Held(outq) \cup InHand

IInv == TypeOK /\ HandsOK /\ OrderOK /\ VerdictsOK /\ PhasesOK /\ CountOK /\ PlacesOK
        /\ BlockSticks

-----------------------------------------------------------------------------
(***************************************************************************)
(* The constants.                                                          *)
(***************************************************************************)
\* Threads of both kinds are numbered from 0 on.
LEMMA Threads ==
  /\ NumLBs \in Nat \ {0} /\ FPsPerLB \in Nat \ {0} /\ NumLBs * FPsPerLB \in Nat \ {0}
  /\ LB \subseteq Nat /\ FP \subseteq Nat /\ 0 \in LB /\ 0 \in FP
  /\ IsFiniteSet(LB) /\ IsFiniteSet(FP)
<1>1. NumLBs \in Nat \ {0} /\ FPsPerLB \in Nat \ {0}
  BY MtAssumption
<1>2. NumLBs * FPsPerLB \in Nat \ {0}
  BY <1>1
<1> QED
  BY <1>1, <1>2, FS_Interval DEF LB, FP

LEMMA Packets ==
  /\ Len(Capture) \in Nat /\ Packet \subseteq Nat /\ NoPacket \notin Packet
  /\ Header \notin Packet /\ Cap \in Nat
  /\ \A p \in Packet : FlowOf(p) \in Flow \cup {NoFlow}
  BY MtAssumption, LenProperties, ElementOfSeq DEF Packet, NoPacket, Header, FlowOf

\* Where a packet is sent.
LEMMA Places ==
  ASSUME NEW p \in Sent
  PROVE  /\ p \in Packet /\ FlowOf(p) \in Flow /\ Hash[FlowOf(p)] \in Nat
         /\ LBFor(p) \in LB /\ FPOf(p) \in FP
         /\ \A l \in LB : FPFor(l, p) \in FP
<1>1. p \in Packet /\ FlowOf(p) \in Flow /\ Hash[FlowOf(p)] \in Nat
  BY MtAssumption, Packets DEF Sent
<1>2. LBFor(p) \in LB
  BY <1>1, Threads, Division DEF LBFor, LB
<1>3. ASSUME NEW l \in LB PROVE FPFor(l, p) \in FP
  <2>1. Hash[FlowOf(p)] % FPsPerLB \in 0 .. FPsPerLB - 1
    BY <1>1, Threads, Division
  <2> QED
    BY <1>3, <2>1, Threads, InGroup DEF FPFor, FP, LB
<1> QED
  BY <1>1, <1>2, <1>3 DEF FPOf

\* Packets that meet at a fast path met at a load balancer.
LEMMA SameLB ==
  ASSUME NEW p \in Sent, NEW q \in Sent, FPOf(p) = FPOf(q)
  PROVE  LBFor(p) = LBFor(q)
<1>1. /\ LBFor(p) \in Nat /\ LBFor(q) \in Nat
      /\ Hash[FlowOf(p)] % FPsPerLB \in 0 .. FPsPerLB - 1
      /\ Hash[FlowOf(q)] % FPsPerLB \in 0 .. FPsPerLB - 1
  BY Places, Threads, Division
<1> QED
  BY <1>1, Threads, OneGroup DEF FPOf, FPFor

\* So do the packets of a flow.
LEMMA SameFlow ==
  ASSUME NEW p \in Sent, NEW q \in Sent, FlowOf(p) = FlowOf(q)
  PROVE  FPOf(p) = FPOf(q)
  BY DEF FPOf, FPFor, LBFor
-----------------------------------------------------------------------------
(***************************************************************************)
(* Types.                                                                  *)
(***************************************************************************)
LEMMA QueueTypes ==
  ASSUME TypeOK
  PROVE  /\ \A l \in LB : lbq[l] \in QueueOf(Packet)
         /\ \A f \in FP : fpq[f] \in QueueOf(Packet)
         /\ outq \in QueueOf(Packet)
  BY DEF TypeOK, Queue, QueueOf

LBThread == [running : BOOLEAN, pc : {"off", "check", "pop", "push", "exit"},
             job : Packet \cup {NoPacket}]
FPThread == [running : BOOLEAN, pc : {"off", "check", "pop", "process", "push", "exit"},
             job : Packet \cup {NoPacket}]

\* What the threads hold.
LEMMA InHands ==
  ASSUME TypeOK, HandsOK
  PROVE  /\ \A l \in LB : lb[l].pc = "push" => lb[l].job \in ForLB(l) /\ lb[l].job \in Sent
         /\ \A f \in FP : fp[f].pc \in {"process", "push"} =>
                             fp[f].job \in ForFP(f) /\ fp[f].job \in Sent
  BY DEF HandsOK, ForLB, ForFP

LEMMA InitType == Init => TypeOK
<1> SUFFICES ASSUME Init PROVE TypeOK
  OBVIOUS
<1>1. /\ NewQueue \in Queue /\ Len(NewQueue.buf) = 0
  BY NewQueueFacts DEF Queue, QueueOf
<1>2. 1 \in 1 .. Len(Capture) + 1 /\ 0 <= Cap
  BY Packets
<1>3. lb \in [LB -> [running : BOOLEAN, pc : {"off", "check", "pop", "push", "exit"},
                    job : Packet \cup {NoPacket}]]
  BY DEF Init
<1>4. fp \in [FP -> [running : BOOLEAN,
                    pc : {"off", "check", "pop", "process", "push", "exit"},
                    job : Packet \cup {NoPacket}]]
  BY DEF Init
<1>5. blocked \in [FP -> SUBSET Flow] /\ verdict \in [Packet -> {"none", "forward", "drop"}]
  BY DEF Init
<1>6. output \in Seq(Packet \cup {Header})
  BY EmptySeq DEF Init
<1> QED
  BY <1>1, <1>2, <1>3, <1>4, <1>5, <1>6 DEF Init, TypeOK

LEMMA NextType ==
  ASSUME TypeOK, HandsOK, PhasesOK, [Next]_vars
  PROVE  TypeOK'
<1> USE DEF LBThread, FPThread
<1>lb. lb \in [LB -> LBThread] /\ \A l \in LB : lb[l] \in LBThread
  BY DEF TypeOK
<1>fp. fp \in [FP -> FPThread] /\ \A f \in FP : fp[f] \in FPThread
  BY DEF TypeOK
<1>q. /\ lbq \in [LB -> QueueOf(Packet)] /\ \A l \in LB : Len(lbq[l].buf) <= Cap
      /\ fpq \in [FP -> QueueOf(Packet)] /\ \A f \in FP : Len(fpq[f].buf) <= Cap
      /\ outq \in QueueOf(Packet) /\ Len(outq.buf) <= Cap /\ Queue = QueueOf(Packet)
  BY DEF TypeOK, Queue, QueueOf
<1>st. stats \in [total : Nat, forwarded : Nat, dropped : Nat]
  BY DEF TypeOK
<1>c. Cap \in Nat
  BY Packets
<1>1. CASE FailOpen
  BY <1>1 DEF FailOpen, TypeOK, mainVars, queueVars
<1>2. CASE StartAll
  <2>1. lb' \in [LB -> LBThread] /\ fp' \in [FP -> FPThread]
    BY <1>2, <1>lb, <1>fp DEF StartAll
  <2>2. output' \in Seq(Packet \cup {Header})
    <3>1. <<Header>> \in Seq(Packet \cup {Header})
      OBVIOUS
    <3> QED
      BY <1>2, <3>1 DEF StartAll
  <2> QED
    BY <1>2, <2>1, <2>2 DEF StartAll, TypeOK, queueVars
<1>3. CASE ReadSkip
  <2>1. next' \in 1 .. Len(Capture) + 1
    BY <1>3, Packets DEF ReadSkip, Packet
  <2> QED
    BY <1>3, <2>1 DEF ReadSkip, TypeOK, queueVars
<1>4. CASE ReadCount
  <2>1. stats' \in [total : Nat, forwarded : Nat, dropped : Nat]
    BY <1>4, <1>st DEF ReadCount
  <2> QED
    BY <1>4, <2>1 DEF ReadCount, TypeOK, queueVars
<1>5. CASE Dispatch
  <2>1. next \in Sent /\ next \in Packet /\ LBFor(next) \in LB
    BY <1>5, Places DEF Dispatch, PhasesOK
  <2>2. next' \in 1 .. Len(Capture) + 1
    BY <1>5, <2>1, Packets DEF Dispatch, Packet
  <2>3. lbq' \in [LB -> Queue] /\ \A l \in LB : Len(lbq'[l].buf) <= Cap
    <3>1. /\ PushReturns(lbq[LBFor(next)], Cap)
          /\ lbq' = [lbq EXCEPT ![LBFor(next)] = Push(@, next)]
      BY <1>5 DEF Dispatch
    <3> QED
      BY <1>q, <1>c, <2>1, <3>1, PushAt
  <2> QED
    BY <1>5, <2>2, <2>3 DEF Dispatch, TypeOK
<1>6. CASE EndOfInput
  BY <1>6 DEF EndOfInput, TypeOK, queueVars
<1>7. CASE StopLB
  <2>1. turn \in LB
    BY <1>7 DEF StopLB, PhasesOK
  <2>2. lb' \in [LB -> LBThread]
    BY <1>7, <1>lb, <2>1 DEF StopLB
  <2>3. lbq' \in [LB -> Queue] /\ \A l \in LB : Len(lbq'[l].buf) <= Cap
    BY <1>7, <1>q, <2>1, <1>c, ShutAt DEF StopLB
  <2> QED
    BY <1>7, <2>2, <2>3 DEF StopLB, TypeOK
<1>8. CASE JoinLB
  BY <1>8 DEF JoinLB, TypeOK, queueVars
<1>9. CASE StopFP
  <2>1. turn \in FP
    BY <1>9 DEF StopFP, PhasesOK
  <2>2. fp' \in [FP -> FPThread]
    BY <1>9, <1>fp, <2>1 DEF StopFP
  <2>3. fpq' \in [FP -> Queue] /\ \A f \in FP : Len(fpq'[f].buf) <= Cap
    BY <1>9, <1>q, <2>1, <1>c, ShutAt DEF StopFP
  <2> QED
    BY <1>9, <2>2, <2>3 DEF StopFP, TypeOK
<1>10. CASE JoinFP
  BY <1>10 DEF JoinFP, TypeOK, queueVars
<1>11. CASE StopOut
  BY <1>11 DEF StopOut, TypeOK, queueVars
<1>12. CASE ShutOut
  BY <1>12, <1>q, ShutFacts DEF ShutOut, TypeOK
<1>13. CASE Finish
  BY <1>13 DEF Finish, TypeOK, queueVars
<1>14. ASSUME NEW l \in LB, LBCheck(l) PROVE TypeOK'
  <2>1. lb' \in [LB -> LBThread]
    BY <1>14, <1>lb DEF LBCheck
  <2> QED
    BY <1>14, <2>1 DEF LBCheck, TypeOK, mainVars, queueVars
<1>15. ASSUME NEW l \in LB, LBTimeout(l) PROVE TypeOK'
  <2>1. lb' \in [LB -> LBThread]
    BY <1>15, <1>lb DEF LBTimeout
  <2> QED
    BY <1>15, <2>1 DEF LBTimeout, TypeOK, mainVars, queueVars
<1>16. ASSUME NEW l \in LB, LBPop(l) PROVE TypeOK'
  <2>1. FrontItem(lbq[l]) \in Packet
    BY <1>16, <1>q, PopFacts DEF LBPop
  <2>2. lb' \in [LB -> LBThread]
    BY <1>16, <1>lb, <2>1 DEF LBPop
  <2>3. lbq' \in [LB -> Queue] /\ \A k \in LB : Len(lbq'[k].buf) <= Cap
    BY <1>16, <1>q, <1>c, PopAt DEF LBPop
  <2> QED
    BY <1>16, <2>2, <2>3 DEF LBPop, TypeOK, mainVars
<1>17. ASSUME NEW l \in LB, LBPush(l) PROVE TypeOK'
  <2>1. lb[l].job \in Packet /\ FPFor(l, lb[l].job) \in FP
    BY <1>17, InHands, Places DEF LBPush
  <2>2. lb' \in [LB -> LBThread]
    BY <1>17, <1>lb DEF LBPush
  <2>3. fpq' \in [FP -> Queue] /\ \A f \in FP : Len(fpq'[f].buf) <= Cap
    <3> DEFINE g == FPFor(l, lb[l].job)
               x == lb[l].job
    <3>1. PushReturns(fpq[g], Cap) /\ fpq' = [fpq EXCEPT ![g] = Push(@, x)]
      BY <1>17 DEF LBPush
    <3>2. g \in FP /\ x \in Packet
      BY <2>1
    <3> HIDE DEF g, x
    <3> QED
      BY <1>q, <1>c, <3>1, <3>2, PushAt
  <2> QED
    BY <1>17, <2>2, <2>3 DEF LBPush, TypeOK, mainVars
<1>18. ASSUME NEW f \in FP, FPCheck(f) PROVE TypeOK'
  <2>1. fp' \in [FP -> FPThread]
    BY <1>18, <1>fp DEF FPCheck
  <2> QED
    BY <1>18, <2>1 DEF FPCheck, TypeOK, mainVars, queueVars
<1>19. ASSUME NEW f \in FP, FPTimeout(f) PROVE TypeOK'
  <2>1. fp' \in [FP -> FPThread]
    BY <1>19, <1>fp DEF FPTimeout
  <2> QED
    BY <1>19, <2>1 DEF FPTimeout, TypeOK, mainVars, queueVars
<1>20. ASSUME NEW f \in FP, FPPop(f) PROVE TypeOK'
  <2>1. FrontItem(fpq[f]) \in Packet
    BY <1>20, <1>q, PopFacts DEF FPPop
  <2>2. fp' \in [FP -> FPThread]
    BY <1>20, <1>fp, <2>1 DEF FPPop
  <2>3. fpq' \in [FP -> Queue] /\ \A k \in FP : Len(fpq'[k].buf) <= Cap
    BY <1>20, <1>q, <1>c, PopAt DEF FPPop
  <2> QED
    BY <1>20, <2>2, <2>3 DEF FPPop, TypeOK, mainVars
<1>21. ASSUME NEW f \in FP, FPDrop(f) PROVE TypeOK'
  <2>1. fp[f].job \in Packet /\ FlowOf(fp[f].job) \in Flow
    BY <1>21, InHands, Places DEF FPDrop
  <2>2. fp' \in [FP -> FPThread]
    BY <1>21, <1>fp DEF FPDrop
  <2>3. /\ blocked' \in [FP -> SUBSET Flow]
        /\ verdict' \in [Packet -> {"none", "forward", "drop"}]
    BY <1>21, <2>1 DEF FPDrop, TypeOK
  <2>4. stats' \in [total : Nat, forwarded : Nat, dropped : Nat]
    BY <1>21, <1>st DEF FPDrop
  <2> QED
    BY <1>21, <2>2, <2>3, <2>4 DEF FPDrop, TypeOK, mainVars, queueVars
<1>22. ASSUME NEW f \in FP, FPForward(f) PROVE TypeOK'
  <2>1. fp[f].job \in Packet
    BY <1>22, InHands, Places DEF FPForward
  <2>2. fp' \in [FP -> FPThread]
    BY <1>22, <1>fp DEF FPForward
  <2>3. verdict' \in [Packet -> {"none", "forward", "drop"}]
    BY <1>22, <2>1 DEF FPForward, TypeOK
  <2>4. stats' \in [total : Nat, forwarded : Nat, dropped : Nat]
    BY <1>22, <1>st DEF FPForward
  <2> QED
    BY <1>22, <2>2, <2>3, <2>4 DEF FPForward, TypeOK, mainVars, queueVars
<1>23. ASSUME NEW f \in FP, FPPush(f) PROVE TypeOK'
  <2>1. fp[f].job \in Packet
    BY <1>23, InHands, Places DEF FPPush
  <2>2. fp' \in [FP -> FPThread]
    BY <1>23, <1>fp DEF FPPush
  <2>3. outq' \in Queue /\ Len(outq'.buf) <= Cap
    BY <1>23, <1>q, <2>1, PushFacts, PushFits, <1>c DEF FPPush
  <2> QED
    BY <1>23, <2>2, <2>3 DEF FPPush, TypeOK, mainVars
<1>24. CASE WriterCheck
  BY <1>24 DEF WriterCheck, TypeOK, mainVars, queueVars
<1>25. CASE WriterTimeout
  BY <1>25 DEF WriterTimeout, TypeOK, mainVars, queueVars
<1>26. CASE WriterWrite
  <2>1. FrontItem(outq) \in Packet /\ outq' \in Queue /\ Len(outq'.buf) <= Cap
    <3>1. HasItem(outq) /\ outq' = PopFront(outq)
      BY <1>26 DEF WriterWrite
    <3>2. Len(outq.buf) \in Nat /\ Len(outq'.buf) = Len(outq.buf) - 1
      BY <1>q, <3>1, PopFacts
    <3> QED
      BY <1>q, <1>c, <3>1, <3>2, PopFacts
  <2>2. output' \in Seq(Packet \cup {Header})
    BY <1>26, <2>1, AppendFacts DEF WriterWrite, TypeOK
  <2> QED
    BY <1>26, <2>1, <2>2 DEF WriterWrite, TypeOK, mainVars
<1>27. CASE UNCHANGED vars
  BY <1>27 DEF vars, mainVars, queueVars, TypeOK
<1> QED
  BY <1>1, <1>2, <1>3, <1>4, <1>5, <1>6, <1>7, <1>8, <1>9, <1>10, <1>11, <1>12, <1>13,
     <1>14, <1>15, <1>16, <1>17, <1>18, <1>19, <1>20, <1>21, <1>22, <1>23, <1>24, <1>25,
     <1>26, <1>27
  DEF Next, Main, LoadBalancer, FastPath, Writer
-----------------------------------------------------------------------------
(***************************************************************************)
(* Every packet is with a thread it belongs to.                            *)
(***************************************************************************)
LEMMA NextHands ==
  ASSUME TypeOK, HandsOK, PhasesOK, [Next]_vars
  PROVE  HandsOK'
<1> USE DEF HandsOK
<1>lb. lb \in [LB -> LBThread] /\ \A l \in LB : lb[l] \in LBThread
  BY DEF TypeOK, LBThread
<1>fp. fp \in [FP -> FPThread] /\ \A f \in FP : fp[f] \in FPThread
  BY DEF TypeOK, FPThread
<1>q. /\ lbq \in [LB -> QueueOf(Packet)] /\ fpq \in [FP -> QueueOf(Packet)]
      /\ \A l \in LB : lbq[l] \in QueueOf(Packet)
      /\ \A f \in FP : fpq[f] \in QueueOf(Packet)
  BY DEF TypeOK, Queue, QueueOf
<1>1. CASE UNCHANGED <<lb, fp, lbq, fpq>>
  BY <1>1
<1>2. CASE StartAll
  <2>1. /\ \A l \in LB : lb[l].pc = "off" /\ lb[l].job = NoPacket
        /\ \A f \in FP : fp[f].pc = "off" /\ fp[f].job = NoPacket
    BY <1>2 DEF StartAll, PhasesOK, BeforeStart
  <2>2. /\ \A l \in LB : lb'[l].pc = "check" /\ lb'[l].job = NoPacket
        /\ \A f \in FP : fp'[f].pc = "check" /\ fp'[f].job = NoPacket
    BY <1>2, <1>lb, <1>fp, <2>1 DEF StartAll, LBThread, FPThread
  <2>3. UNCHANGED <<lbq, fpq>>
    BY <1>2 DEF StartAll, queueVars
  <2>4. /\ \A l \in LB : lb'[l].pc # "push"
        /\ \A f \in FP : fp'[f].pc \notin {"process", "push"}
    BY <2>2
  <2> QED
    BY <2>2, <2>3, <2>4
<1>3. CASE Dispatch
  <2>1. next \in Sent /\ next \in Packet /\ LBFor(next) \in LB
    BY <1>3, Places DEF Dispatch, PhasesOK
  <2>2. lbq' = [lbq EXCEPT ![LBFor(next)] = Push(@, next)]
    BY <1>3 DEF Dispatch
  <2>3. ASSUME NEW l \in LB PROVE Held(lbq'[l]) \subseteq ForLB(l)
    <3>1. CASE l = LBFor(next)
      <4>1. lbq'[l] = Push(lbq[l], next) /\ next \in ForLB(l)
        BY <1>q, <2>1, <2>2, <3>1 DEF ForLB
      <4> QED
        BY <1>q, <2>1, <4>1, PushFacts
    <3>2. CASE l # LBFor(next)
      BY <1>q, <2>1, <2>2, <3>2
    <3> QED
      BY <3>1, <3>2
  <2> QED
    BY <1>3, <2>3 DEF Dispatch
<1>4. CASE StopLB
  <2>1. turn \in LB
    BY <1>4 DEF StopLB, PhasesOK
  <2>2. \A l \in LB : lb'[l].pc = lb[l].pc /\ lb'[l].job = lb[l].job
    BY <1>4, <1>lb, <2>1 DEF StopLB, LBThread
  <2>3. \A l \in LB : Held(lbq'[l]) = Held(lbq[l])
    BY <1>4, <1>q, <2>1, ShutFacts DEF StopLB
  <2> QED
    BY <1>4, <2>2, <2>3 DEF StopLB
<1>5. CASE StopFP
  <2>1. turn \in FP
    BY <1>5 DEF StopFP, PhasesOK
  <2>2. \A f \in FP : fp'[f].pc = fp[f].pc /\ fp'[f].job = fp[f].job
    BY <1>5, <1>fp, <2>1 DEF StopFP, FPThread
  <2>3. \A f \in FP : Held(fpq'[f]) = Held(fpq[f])
    BY <1>5, <1>q, <2>1, ShutFacts DEF StopFP
  <2> QED
    BY <1>5, <2>2, <2>3 DEF StopFP
<1>6. ASSUME NEW l \in LB, LBCheck(l) \/ LBTimeout(l) PROVE HandsOK'
  <2>1. lb'[l].pc # "push" /\ lb'[l].job = NoPacket
    BY <1>6, <1>lb DEF LBCheck, LBTimeout, LBThread
  <2>2. \A k \in LB \ {l} : lb'[k] = lb[k]
    BY <1>6, <1>lb DEF LBCheck, LBTimeout
  <2> QED
    BY <1>6, <2>1, <2>2 DEF LBCheck, LBTimeout, queueVars
<1>7. ASSUME NEW l \in LB, LBPop(l) PROVE HandsOK'
  <2>1. /\ FrontItem(lbq[l]) \in ForLB(l)
        /\ Held(PopFront(lbq[l])) \subseteq ForLB(l)
    BY <1>7, <1>q, PopFacts DEF LBPop
  <2>2. /\ lb'[l].pc = "push" /\ lb'[l].job = FrontItem(lbq[l])
        /\ lbq'[l] = PopFront(lbq[l])
        /\ \A k \in LB \ {l} : lb'[k] = lb[k] /\ lbq'[k] = lbq[k]
    BY <1>7, <1>lb, <1>q DEF LBPop, LBThread
  <2> QED
    BY <1>7, <2>1, <2>2 DEF LBPop
<1>8. ASSUME NEW l \in LB, LBPush(l) PROVE HandsOK'
  <2> DEFINE x == lb[l].job
             g == FPFor(l, x)
  <2>1. x \in ForLB(l) /\ x \in Sent /\ x \in Packet
    BY <1>8, InHands, Places DEF LBPush
  <2>2. g \in FP /\ x \in ForFP(g)
    BY <2>1, Places DEF ForLB, ForFP, FPOf
  <2>3. /\ lb'[l].pc = "check" /\ lb'[l].job = NoPacket
        /\ \A k \in LB \ {l} : lb'[k] = lb[k]
    BY <1>8, <1>lb DEF LBPush, LBThread
  <2>4. fpq' = [fpq EXCEPT ![g] = Push(@, x)] /\ fp' = fp /\ lbq' = lbq
    BY <1>8 DEF LBPush
  <2> HIDE DEF x, g
  <2>5. ASSUME NEW f \in FP PROVE Held(fpq'[f]) \subseteq ForFP(f)
    <3>1. CASE f = g
      <4>1. fpq'[f] = Push(fpq[f], x)
        BY <1>q, <2>2, <2>4, <3>1
      <4> QED
        BY <1>q, <2>1, <2>2, <3>1, <4>1, PushFacts
    <3>2. CASE f # g
      BY <1>q, <2>2, <2>4, <3>2
    <3> QED
      BY <3>1, <3>2
  <2> QED
    BY <2>3, <2>4, <2>5
<1>9. ASSUME NEW f \in FP, FPCheck(f) \/ FPTimeout(f) \/ FPDrop(f) \/ FPPush(f) PROVE HandsOK'
  <2>1. fp'[f].pc \notin {"process", "push"} /\ fp'[f].job = NoPacket
    BY <1>9, <1>fp DEF FPCheck, FPTimeout, FPDrop, FPPush, FPThread
  <2>2. \A k \in FP \ {f} : fp'[k] = fp[k]
    BY <1>9, <1>fp DEF FPCheck, FPTimeout, FPDrop, FPPush
  <2>3. UNCHANGED <<lb, lbq, fpq>>
    BY <1>9 DEF FPCheck, FPTimeout, FPDrop, FPPush, queueVars
  <2> QED
    BY <2>1, <2>2, <2>3
<1>10. ASSUME NEW f \in FP, FPPop(f) PROVE HandsOK'
  <2>1. /\ FrontItem(fpq[f]) \in ForFP(f)
        /\ Held(PopFront(fpq[f])) \subseteq ForFP(f)
    BY <1>10, <1>q, PopFacts DEF FPPop
  <2>2. /\ fp'[f].pc = "process" /\ fp'[f].job = FrontItem(fpq[f])
        /\ fpq'[f] = PopFront(fpq[f])
        /\ \A k \in FP \ {f} : fp'[k] = fp[k] /\ fpq'[k] = fpq[k]
    BY <1>10, <1>fp, <1>q DEF FPPop, FPThread
  <2> QED
    BY <1>10, <2>1, <2>2 DEF FPPop
<1>11. ASSUME NEW f \in FP, FPForward(f) PROVE HandsOK'
  <2>1. /\ fp'[f].pc = "push" /\ fp'[f].job = fp[f].job /\ fp[f].pc = "process"
        /\ \A k \in FP \ {f} : fp'[k] = fp[k]
    BY <1>11, <1>fp DEF FPForward, FPThread
  <2> QED
    BY <1>11, <2>1 DEF FPForward, queueVars
<1> QED
  BY <1>1, <1>2, <1>3, <1>4, <1>5, <1>6, <1>7, <1>8, <1>9, <1>10, <1>11
  DEF Next, Main, LoadBalancer, FastPath, Writer, FailOpen, ReadSkip, ReadCount,
      EndOfInput, JoinLB, JoinFP, StopOut, ShutOut, Finish, WriterCheck, WriterTimeout,
      WriterWrite, vars, mainVars, queueVars
-----------------------------------------------------------------------------
(***************************************************************************)
(* Order: the packets of a fast path never overtake one another.           *)
(***************************************************************************)
\* One packet moves up one place, ahead of all that stay behind.
LEMMA MoveUp ==
  ASSUME Chain(Upstream, Bad), NEW k \in 1 .. 5, NEW x \in Upstream[k + 1],
         Upstream'[k] \subseteq Upstream[k] \cup {x},
         \A i \in 1 .. 6 : i # k => Upstream'[i] \subseteq Upstream[i],
         \A y \in Upstream'[k + 1] : <<x, y>> \notin Bad
  PROVE  Chain(Upstream', Bad)
<1> DEFINE before == Upstream
           after == Upstream'
<1>1. DOMAIN before = 1 .. 6 /\ DOMAIN after = 1 .. 6
  BY DEF Upstream
<1> HIDE DEF before, after
<1>2. /\ Chain(before, Bad) /\ x \in before[k + 1]
      /\ after[k] \subseteq before[k] \cup {x}
      /\ \A i \in 1 .. 6 : i # k => after[i] \subseteq before[i]
      /\ \A y \in after[k + 1] : <<x, y>> \notin Bad
  BY DEF before, after
<1>3. Chain(after, Bad)
  <2>1. 6 \in Nat /\ k \in 1 .. 6 - 1
    OBVIOUS
  <2> QED
    BY <1>1, <1>2, <2>1, MoveInChain
<1> QED
  BY <1>3 DEF after

LEMMA MoveDown ==
  ASSUME Chain(Downstream, Bad), NEW k \in 1 .. 2, NEW x \in Downstream[k + 1],
         Downstream'[k] \subseteq Downstream[k] \cup {x},
         \A i \in 1 .. 3 : i # k => Downstream'[i] \subseteq Downstream[i],
         \A y \in Downstream'[k + 1] : <<x, y>> \notin Bad
  PROVE  Chain(Downstream', Bad)
<1> DEFINE before == Downstream
           after == Downstream'
<1>1. DOMAIN before = 1 .. 3 /\ DOMAIN after = 1 .. 3
  BY DEF Downstream
<1> HIDE DEF before, after
<1>2. /\ Chain(before, Bad) /\ x \in before[k + 1]
      /\ after[k] \subseteq before[k] \cup {x}
      /\ \A i \in 1 .. 3 : i # k => after[i] \subseteq before[i]
      /\ \A y \in after[k + 1] : <<x, y>> \notin Bad
  BY DEF before, after
<1>3. Chain(after, Bad)
  <2>1. 3 \in Nat /\ k \in 1 .. 3 - 1
    OBVIOUS
  <2> QED
    BY <1>1, <1>2, <2>1, MoveInChain
<1> QED
  BY <1>3 DEF after

\* The places, by what is in them.
LEMMA AtPlaces ==
  /\ \A x : x \in InWork <=> \E f \in FP : fp[f].pc = "process" /\ x = fp[f].job
  /\ \A x : x \in AtFP <=> \E f \in FP : x \in Held(fpq[f])
  /\ \A x : x \in AtLB <=> \E l \in LB : lb[l].pc = "push" /\ x = lb[l].job
  /\ \A x : x \in ToLB <=> \E l \in LB : x \in Held(lbq[l])
  /\ \A x : x \in InHand <=> \E f \in FP : fp[f].pc = "push" /\ x = fp[f].job
  BY DEF InWork, AtFP, AtLB, ToLB, InHand, Pushing

LEMMA AtPlacesNext ==
  /\ \A x : x \in InWork' <=> \E f \in FP : fp'[f].pc = "process" /\ x = fp'[f].job
  /\ \A x : x \in AtFP' <=> \E f \in FP : x \in Held(fpq'[f])
  /\ \A x : x \in AtLB' <=> \E l \in LB : lb'[l].pc = "push" /\ x = lb'[l].job
  /\ \A x : x \in ToLB' <=> \E l \in LB : x \in Held(lbq'[l])
  /\ \A x : x \in InHand' <=> \E f \in FP : fp'[f].pc = "push" /\ x = fp'[f].job
  BY DEF InWork, AtFP, AtLB, ToLB, InHand, Pushing

LEMMA BadPairs ==
  ASSUME NEW x \in Packet, NEW y
  PROVE  /\ <<x, y>> \in Bad => x \in Sent /\ y \in Sent /\ FPOf(x) = FPOf(y) /\ ~(x < y)
         /\ x \in Sent => <<x, x>> \in Bad
  BY Packets DEF Bad, Sent

\* The places by number.
LEMMA ByNumber ==
  /\ Upstream[1] = Decided /\ Upstream[2] = InWork /\ Upstream[3] = AtFP
  /\ Upstream[4] = AtLB /\ Upstream[5] = ToLB /\ Upstream[6] = Unread
  /\ Downstream[1] = Written /\ Downstream[2] = Held(outq) /\ Downstream[3] = InHand
  /\ Upstream'[1] = Decided' /\ Upstream'[2] = InWork' /\ Upstream'[3] = AtFP'
  /\ Upstream'[4] = AtLB' /\ Upstream'[5] = ToLB' /\ Upstream'[6] = Unread'
  /\ Downstream'[1] = Written' /\ Downstream'[2] = Held(outq') /\ Downstream'[3] = InHand'
  BY DEF Upstream, Downstream

\* A step that changes none of these keeps the order.
LEMMA SameOrder ==
  ASSUME OrderOK, UNCHANGED <<Decided, Written, Unread, InWork, AtFP, AtLB, ToLB, InHand>>,
         \A l \in LB : lbq'[l].buf = lbq[l].buf,
         \A f \in FP : fpq'[f].buf = fpq[f].buf,
         outq'.buf = outq.buf
  PROVE  OrderOK'
<1>1. Upstream' = Upstream
  BY DEF Upstream
<1>2. Downstream' = Downstream
  BY DEF Downstream, Held
<1> QED
  BY <1>1, <1>2 DEF OrderOK

LEMMA NextOrder ==
  ASSUME TypeOK, HandsOK, PhasesOK, OrderOK, VerdictsOK, [Next]_vars
  PROVE  OrderOK'
<1>lb. \A l \in LB : lb[l] \in LBThread
  BY DEF TypeOK, LBThread
<1>fp. \A f \in FP : fp[f] \in FPThread
  BY DEF TypeOK, FPThread
<1>q. /\ lbq \in [LB -> QueueOf(Packet)] /\ fpq \in [FP -> QueueOf(Packet)]
      /\ \A l \in LB : lbq[l] \in QueueOf(Packet)
      /\ \A f \in FP : fpq[f] \in QueueOf(Packet)
      /\ outq \in QueueOf(Packet)
  BY DEF TypeOK, Queue, QueueOf
<1>o. /\ Chain(Upstream, Bad) /\ Chain(Downstream, Bad)
      /\ \A l \in LB : InOrder(lbq[l].buf, Bad)
      /\ \A f \in FP : InOrder(fpq[f].buf, Bad)
      /\ InOrder(outq.buf, Bad)
  BY DEF OrderOK
<1>n. /\ UNCHANGED verdict => UNCHANGED Decided
      /\ UNCHANGED output => UNCHANGED Written
      /\ UNCHANGED next => UNCHANGED Unread
      /\ UNCHANGED fp => UNCHANGED <<InWork, InHand>>
      /\ UNCHANGED fpq => UNCHANGED AtFP
      /\ UNCHANGED lb => UNCHANGED AtLB
      /\ UNCHANGED lbq => UNCHANGED ToLB
  BY DEF Decided, Written, Unread, InWork, InHand, Pushing, AtFP, AtLB, ToLB
<1>1. CASE UNCHANGED <<verdict, output, next, lb, fp, lbq, fpq, outq>>
  BY <1>1, <1>n, SameOrder
<1>2. CASE StartAll
  <2>1. UNCHANGED <<verdict, next, lbq, fpq, outq>>
    BY <1>2 DEF StartAll, queueVars
  <2>2. /\ \A l \in LB : lb[l].pc = "off" /\ lb'[l].pc = "check"
        /\ \A f \in FP : fp[f].pc = "off" /\ fp'[f].pc = "check"
        /\ output = <<>>
    BY <1>2, <1>lb, <1>fp DEF StartAll, PhasesOK, BeforeStart, LBThread, FPThread
  <2>3. UNCHANGED <<InWork, InHand, AtLB>>
    BY <2>2 DEF InWork, InHand, Pushing, AtLB
  <2>4. UNCHANGED Written
    <3>1. Len(output) = 0 /\ output' = <<Header>> /\ Len(<<Header>>) = 1
      BY <1>2, <2>2 DEF StartAll
    <3>2. 2 .. 0 = {} /\ 2 .. 1 = {}
      OBVIOUS
    <3> QED
      BY <3>1, <3>2 DEF Written
  <2> QED
    BY <1>n, <2>1, <2>3, <2>4, SameOrder
<1>3. CASE ReadSkip
  <2>1. UNCHANGED <<verdict, output, lb, fp, lbq, fpq, outq>>
    BY <1>3 DEF ReadSkip, queueVars
  <2>2. Unread' \subseteq Unread
    BY <1>3, Packets DEF ReadSkip, Unread, Packet
  <2>3. /\ DOMAIN Upstream = DOMAIN Upstream'
        /\ \A i \in DOMAIN Upstream' : Upstream'[i] \subseteq Upstream[i]
    BY <1>n, <2>1, <2>2 DEF Upstream
  <2>4. Chain(Upstream', Bad)
    BY <1>o, <2>3, LeaveChain
  <2>5. Downstream' = Downstream
    BY <1>n, <2>1 DEF Downstream
  <2> QED
    BY <1>o, <2>1, <2>4, <2>5 DEF OrderOK
<1>4. CASE Dispatch
  <2>1. next \in Sent /\ next \in Packet /\ LBFor(next) \in LB
    BY <1>4, Places DEF Dispatch, PhasesOK
  <2>2. lbq' = [lbq EXCEPT ![LBFor(next)] = Push(@, next)] /\ next' = next + 1
    BY <1>4 DEF Dispatch
  <2>3. UNCHANGED <<verdict, output, lb, fp, fpq, outq>>
    BY <1>4 DEF Dispatch
  <2>4. next \in Unread /\ Unread' \subseteq Unread /\ \A y \in Unread' : <<next, y>> \notin Bad
    BY <2>1, <2>2, Packets DEF Unread, Packet, Bad
  <2>5. Held(lbq'[LBFor(next)]) \subseteq Held(lbq[LBFor(next)]) \cup {next}
    BY <1>q, <2>1, <2>2, PushFacts
  <2>6. \A l \in LB \ {LBFor(next)} : lbq'[l] = lbq[l]
    BY <1>q, <2>2
  <2>7. ToLB' \subseteq ToLB \cup {next}
    BY <2>5, <2>6, AtPlaces, AtPlacesNext
  <2>8. Chain(Upstream', Bad)
    <3>1. /\ Upstream'[5] \subseteq Upstream[5] \cup {next}
          /\ \A i \in 1 .. 6 : i # 5 => Upstream'[i] \subseteq Upstream[i]
      BY <1>n, <2>3, <2>4, <2>7, ByNumber
    <3>2. next \in Upstream[5 + 1] /\ \A y \in Upstream'[5 + 1] : <<next, y>> \notin Bad
      BY <2>4, ByNumber
    <3> QED
      BY <1>o, <3>1, <3>2, MoveUp
  <2>9. Downstream' = Downstream
    BY <1>n, <2>3 DEF Downstream
  <2>10. InOrder(lbq'[LBFor(next)].buf, Bad)
    <3>1. \A y \in Held(lbq[LBFor(next)]) : <<y, next>> \notin Bad
      <4>1. \A y \in Upstream[5], z \in Upstream[6] : <<y, z>> \notin Bad
        <5>1. 5 \in DOMAIN Upstream /\ 6 \in DOMAIN Upstream /\ 5 < 6
          BY DEF Upstream
        <5> QED
          BY <1>o, <5>1 DEF Chain
      <4> QED
        BY <2>1, <2>4, <4>1, ByNumber, AtPlaces
    <3>2. lbq'[LBFor(next)] = Push(lbq[LBFor(next)], next)
      BY <1>q, <2>1, <2>2
    <3> QED
      BY <1>q, <1>o, <2>1, <3>1, <3>2, PushOrder
  <2> QED
    BY <1>o, <2>3, <2>6, <2>8, <2>9, <2>10 DEF OrderOK
<1>5. CASE StopLB
  <2>1. UNCHANGED <<verdict, output, next, fp, fpq, outq>>
    BY <1>5 DEF StopLB
  <2>2. turn \in LB
    BY <1>5 DEF StopLB, PhasesOK
  <2>3. \A l \in LB : lb'[l].pc = lb[l].pc /\ lb'[l].job = lb[l].job
    BY <1>5, <1>lb, <2>2 DEF StopLB, LBThread, TypeOK
  <2>4. \A l \in LB : lbq'[l].buf = lbq[l].buf /\ Held(lbq'[l]) = Held(lbq[l])
    BY <1>5, <1>q, <2>2, ShutFacts DEF StopLB
  <2>5. UNCHANGED <<AtLB, ToLB>>
    BY <2>3, <2>4 DEF AtLB, ToLB
  <2> QED
    BY <1>n, <2>1, <2>4, <2>5, SameOrder
<1>6. CASE StopFP
  <2>1. UNCHANGED <<verdict, output, next, lb, lbq, outq>>
    BY <1>6 DEF StopFP
  <2>2. turn \in FP
    BY <1>6 DEF StopFP, PhasesOK
  <2>3. \A f \in FP : fp'[f].pc = fp[f].pc /\ fp'[f].job = fp[f].job
    BY <1>6, <1>fp, <2>2 DEF StopFP, FPThread, TypeOK
  <2>4. \A f \in FP : fpq'[f].buf = fpq[f].buf /\ Held(fpq'[f]) = Held(fpq[f])
    BY <1>6, <1>q, <2>2, ShutFacts DEF StopFP
  <2>5. UNCHANGED <<InWork, AtFP, InHand>>
    BY <2>3, <2>4 DEF InWork, AtFP, InHand, Pushing
  <2> QED
    BY <1>n, <2>1, <2>4, <2>5, SameOrder
<1>7. CASE ShutOut
  <2>1. UNCHANGED <<verdict, output, next, lb, fp, lbq, fpq>> /\ outq'.buf = outq.buf
    BY <1>7, <1>q, ShutFacts DEF ShutOut
  <2> QED
    BY <1>n, <2>1, SameOrder
<1>8. ASSUME NEW l \in LB, LBCheck(l) \/ LBTimeout(l) PROVE OrderOK'
  <2>1. UNCHANGED <<verdict, output, next, fp, lbq, fpq, outq>>
    BY <1>8 DEF LBCheck, LBTimeout, mainVars, queueVars
  <2>2. lb[l].pc # "push" /\ lb'[l].pc # "push" /\ \A k \in LB \ {l} : lb'[k] = lb[k]
    BY <1>8, <1>lb DEF LBCheck, LBTimeout, LBThread, TypeOK
  <2>3. UNCHANGED AtLB
    BY <2>2 DEF AtLB
  <2> QED
    BY <1>n, <2>1, <2>3, SameOrder
<1>9. ASSUME NEW f \in FP, FPCheck(f) \/ FPTimeout(f) PROVE OrderOK'
  <2>1. UNCHANGED <<verdict, output, next, lb, lbq, fpq, outq>>
    BY <1>9 DEF FPCheck, FPTimeout, mainVars, queueVars
  <2>2. /\ fp[f].pc \notin {"process", "push"} /\ fp'[f].pc \notin {"process", "push"}
        /\ \A k \in FP \ {f} : fp'[k] = fp[k]
    BY <1>9, <1>fp DEF FPCheck, FPTimeout, FPThread, TypeOK
  <2>3. UNCHANGED <<InWork, InHand>>
    BY <2>2 DEF InWork, InHand, Pushing
  <2> QED
    BY <1>n, <2>1, <2>3, SameOrder
<1>10. ASSUME NEW l \in LB, LBPop(l) PROVE OrderOK'
  <2> DEFINE x == FrontItem(lbq[l])
  <2>1. UNCHANGED <<verdict, output, next, fp, fpq, outq>>
    BY <1>10 DEF LBPop, mainVars
  <2>2. /\ lb'[l].pc = "push" /\ lb'[l].job = x /\ lbq'[l] = PopFront(lbq[l])
        /\ \A k \in LB \ {l} : lb'[k] = lb[k] /\ lbq'[k] = lbq[k]
    BY <1>10, <1>lb, <1>q DEF LBPop, LBThread, TypeOK
  <2>3. /\ HasItem(lbq[l]) /\ x \in Held(lbq[l]) /\ Held(lbq'[l]) \subseteq Held(lbq[l])
        /\ x \in ForLB(l) /\ x \in Sent
    <3>1. HasItem(lbq[l]) /\ x \in Held(lbq[l]) /\ Held(lbq'[l]) \subseteq Held(lbq[l])
      BY <1>10, <1>q, <2>2, PopFacts DEF LBPop
    <3> HIDE DEF x
    <3>2. x \in ForLB(l)
      BY <3>1 DEF HandsOK
    <3> QED
      BY <3>1, <3>2 DEF ForLB
  <2>4. /\ InOrder(lbq'[l].buf, Bad)
        /\ \A y \in Held(lbq'[l]) : <<x, y>> \notin Bad
    BY <1>q, <1>o, <2>2, <2>3, PopOrder
  <2> HIDE DEF x
  <2>5. AtLB' \subseteq AtLB \cup {x} /\ ToLB' \subseteq ToLB /\ x \in ToLB
    BY <2>2, <2>3, AtPlaces, AtPlacesNext
  <2>6. ASSUME NEW y \in ToLB' PROVE <<x, y>> \notin Bad
    <3>1. PICK k \in LB : y \in Held(lbq'[k])
      BY <2>6, AtPlacesNext
    <3>2. CASE k # l
      <4>1. y \in ForLB(k)
        BY <2>2, <3>1, <3>2 DEF HandsOK
      <4> QED
        BY <2>3, <3>2, <4>1, SameLB DEF ForLB, Bad
    <3> QED
      BY <2>4, <3>1, <3>2
  <2>7. Chain(Upstream', Bad)
    <3>1. /\ Upstream'[4] \subseteq Upstream[4] \cup {x}
          /\ \A i \in 1 .. 6 : i # 4 => Upstream'[i] \subseteq Upstream[i]
      BY <1>n, <2>1, <2>5, ByNumber
    <3>2. x \in Upstream[4 + 1] /\ \A y \in Upstream'[4 + 1] : <<x, y>> \notin Bad
      BY <2>5, <2>6, ByNumber
    <3> QED
      BY <1>o, <3>1, <3>2, MoveUp
  <2>8. Downstream' = Downstream
    BY <1>n, <2>1 DEF Downstream
  <2> QED
    BY <1>o, <2>1, <2>2, <2>4, <2>7, <2>8 DEF OrderOK
<1>11. ASSUME NEW l \in LB, LBPush(l) PROVE OrderOK'
  <2> DEFINE x == lb[l].job
             g == FPFor(l, x)
  <2>1. UNCHANGED <<verdict, output, next, fp, lbq, outq>>
    BY <1>11 DEF LBPush, mainVars
  <2>2. x \in ForLB(l) /\ x \in Sent /\ x \in Packet /\ lb[l].pc = "push"
    BY <1>11, InHands, Places DEF LBPush
  <2>3. g \in FP /\ FPOf(x) = g
    BY <2>2, Places DEF ForLB, FPOf
  <2>4. /\ lb'[l].pc = "check" /\ \A k \in LB \ {l} : lb'[k] = lb[k]
        /\ fpq' = [fpq EXCEPT ![g] = Push(@, x)]
    BY <1>11, <1>lb DEF LBPush, LBThread, TypeOK
  <2> HIDE DEF x, g
  <2>5. fpq'[g] = Push(fpq[g], x) /\ \A f \in FP \ {g} : fpq'[f] = fpq[f]
    BY <1>q, <2>3, <2>4
  <2>6. Held(fpq'[g]) \subseteq Held(fpq[g]) \cup {x}
    BY <1>q, <2>2, <2>3, <2>5, PushFacts
  <2>7. AtFP' \subseteq AtFP \cup {x} /\ AtLB' \subseteq AtLB /\ x \in AtLB
    BY <2>2, <2>4, <2>5, <2>6, AtPlaces, AtPlacesNext DEF x
  <2>8. ASSUME NEW y \in AtLB' PROVE <<x, y>> \notin Bad
    <3>1. PICK k \in LB : lb'[k].pc = "push" /\ y = lb'[k].job
      BY <2>8, AtPlacesNext
    <3>2. k # l /\ y \in ForLB(k)
      BY <2>4, <3>1, InHands
    <3> QED
      BY <2>2, <3>2, SameLB DEF ForLB, Bad
  <2>9. Chain(Upstream', Bad)
    <3>1. /\ Upstream'[3] \subseteq Upstream[3] \cup {x}
          /\ \A i \in 1 .. 6 : i # 3 => Upstream'[i] \subseteq Upstream[i]
      BY <1>n, <2>1, <2>7, ByNumber
    <3>2. x \in Upstream[3 + 1] /\ \A y \in Upstream'[3 + 1] : <<x, y>> \notin Bad
      BY <2>7, <2>8, ByNumber
    <3> QED
      BY <1>o, <3>1, <3>2, MoveUp
  <2>10. Downstream' = Downstream
    BY <1>n, <2>1 DEF Downstream
  <2>11. InOrder(fpq'[g].buf, Bad)
    <3>1. \A y \in Held(fpq[g]) : <<y, x>> \notin Bad
      <4>1. \A y \in Upstream[3], z \in Upstream[4] : <<y, z>> \notin Bad
        <5>1. 3 \in DOMAIN Upstream /\ 4 \in DOMAIN Upstream /\ 3 < 4
          BY DEF Upstream
        <5> QED
          BY <1>o, <5>1 DEF Chain
      <4> QED
        BY <2>3, <2>7, <4>1, ByNumber, AtPlaces
    <3> QED
      BY <1>q, <1>o, <2>2, <2>3, <2>5, <3>1, PushOrder
  <2> QED
    BY <1>o, <2>1, <2>5, <2>9, <2>10, <2>11 DEF OrderOK
<1>12. ASSUME NEW f \in FP, FPPop(f) PROVE OrderOK'
  <2> DEFINE x == FrontItem(fpq[f])
  <2>1. UNCHANGED <<verdict, output, next, lb, lbq, outq>>
    BY <1>12 DEF FPPop, mainVars
  <2>2. /\ fp[f].pc = "pop" /\ fp'[f].pc = "process" /\ fp'[f].job = x
        /\ fpq'[f] = PopFront(fpq[f])
        /\ \A k \in FP \ {f} : fp'[k] = fp[k] /\ fpq'[k] = fpq[k]
    BY <1>12, <1>fp, <1>q DEF FPPop, FPThread, TypeOK
  <2>3. /\ HasItem(fpq[f]) /\ x \in Held(fpq[f]) /\ Held(fpq'[f]) \subseteq Held(fpq[f])
        /\ x \in ForFP(f)
    BY <1>12, <1>q, <2>2, PopFacts DEF FPPop, HandsOK
  <2>4. /\ InOrder(fpq'[f].buf, Bad)
        /\ \A y \in Held(fpq'[f]) : <<x, y>> \notin Bad
    BY <1>q, <1>o, <2>2, <2>3, PopOrder
  <2> HIDE DEF x
  <2>5. InWork' \subseteq InWork \cup {x} /\ AtFP' \subseteq AtFP /\ x \in AtFP
    BY <2>2, <2>3, AtPlaces, AtPlacesNext
  <2>6. ASSUME NEW y \in AtFP' PROVE <<x, y>> \notin Bad
    <3>1. PICK k \in FP : y \in Held(fpq'[k])
      BY <2>6, AtPlacesNext
    <3>2. CASE k # f
      <4>1. y \in ForFP(k)
        BY <2>2, <3>1, <3>2 DEF HandsOK
      <4> QED
        BY <2>3, <3>2, <4>1 DEF ForFP, Bad
    <3> QED
      BY <2>4, <3>1, <3>2
  <2>7. Chain(Upstream', Bad)
    <3>1. /\ Upstream'[2] \subseteq Upstream[2] \cup {x}
          /\ \A i \in 1 .. 6 : i # 2 => Upstream'[i] \subseteq Upstream[i]
      BY <1>n, <2>1, <2>5, ByNumber
    <3>2. x \in Upstream[2 + 1] /\ \A y \in Upstream'[2 + 1] : <<x, y>> \notin Bad
      BY <2>5, <2>6, ByNumber
    <3> QED
      BY <1>o, <3>1, <3>2, MoveUp
  <2>8. InHand' = InHand
    BY <2>2 DEF InHand, Pushing
  <2>9. Downstream' = Downstream
    BY <1>n, <2>1, <2>8 DEF Downstream
  <2> QED
    BY <1>o, <2>1, <2>2, <2>4, <2>7, <2>9 DEF OrderOK
<1>13. ASSUME NEW f \in FP, FPDrop(f) \/ FPForward(f) PROVE Chain(Upstream', Bad)
  <2> DEFINE x == fp[f].job
  <2>1. UNCHANGED <<next, lb, lbq, fpq>>
    BY <1>13 DEF FPDrop, FPForward, mainVars, queueVars
  <2>2. /\ fp[f].pc = "process" /\ fp'[f].pc \in {"check", "push"}
        /\ \A k \in FP \ {f} : fp'[k] = fp[k]
        /\ \A p \in Packet \ {x} : verdict'[p] = verdict[p]
    BY <1>13, <1>fp DEF FPDrop, FPForward, FPThread, TypeOK
  <2>3. x \in ForFP(f) /\ x \in InWork
    BY <2>2, InHands, AtPlaces
  <2> HIDE DEF x
  <2>4. Decided' \subseteq Decided \cup {x} /\ InWork' \subseteq InWork
    <3>1. Decided' \subseteq Decided \cup {x}
      BY <2>2 DEF Decided
    <3> QED
      BY <2>2, <3>1, AtPlaces, AtPlacesNext
  <2>5. ASSUME NEW y \in InWork' PROVE <<x, y>> \notin Bad
    <3>1. PICK k \in FP : fp'[k].pc = "process" /\ y = fp'[k].job
      BY <2>5, AtPlacesNext
    <3>2. k # f /\ y \in ForFP(k)
      BY <2>2, <3>1, InHands
    <3> QED
      BY <2>3, <3>2 DEF ForFP, Bad
  <2>6. /\ Upstream'[1] \subseteq Upstream[1] \cup {x}
        /\ \A i \in 1 .. 6 : i # 1 => Upstream'[i] \subseteq Upstream[i]
    BY <1>n, <2>1, <2>4, ByNumber
  <2>7. x \in Upstream[1 + 1] /\ \A y \in Upstream'[1 + 1] : <<x, y>> \notin Bad
    BY <2>3, <2>5, ByNumber
  <2> QED
    BY <1>o, <2>6, <2>7, MoveUp
<1>14. ASSUME NEW f \in FP, FPDrop(f) PROVE OrderOK'
  <2>1. UNCHANGED <<output, lbq, fpq, outq>>
    BY <1>14 DEF FPDrop, mainVars, queueVars
  <2>2. fp[f].pc = "process" /\ fp'[f].pc = "check" /\ \A k \in FP \ {f} : fp'[k] = fp[k]
    BY <1>14, <1>fp DEF FPDrop, FPThread, TypeOK
  <2>3. InHand' = InHand
    BY <2>2 DEF InHand, Pushing
  <2>4. Downstream' = Downstream
    BY <1>n, <2>1, <2>3 DEF Downstream
  <2> QED
    BY <1>o, <1>13, <1>14, <2>1, <2>4 DEF OrderOK
<1>15. ASSUME NEW f \in FP, FPForward(f) PROVE OrderOK'
  <2> DEFINE x == fp[f].job
             before == Downstream
             after == Downstream'
  <2>1. UNCHANGED <<output, lbq, fpq, outq>>
    BY <1>15 DEF FPForward, mainVars, queueVars
  <2>2. /\ fp[f].pc = "process" /\ fp'[f].pc = "push" /\ fp'[f].job = x
        /\ \A k \in FP \ {f} : fp'[k] = fp[k]
    BY <1>15, <1>fp DEF FPForward, FPThread, TypeOK
  <2>3. x \in InWork
    BY <2>2, AtPlaces
  <2>4. InHand' \subseteq InHand \cup {x}
    BY <2>2, AtPlaces, AtPlacesNext
  <2> HIDE DEF x
  <2>5. ASSUME NEW y \in Written \cup Held(outq) PROVE <<y, x>> \notin Bad
    <3>1. y \in Upstream[1] /\ x \in Upstream[2]
      BY <2>3, <2>5, ByNumber DEF VerdictsOK, Forwarded, Decided, Sent
    <3>2. 1 \in DOMAIN Upstream /\ 2 \in DOMAIN Upstream /\ 1 < 2
      BY DEF Upstream
    <3> QED
      BY <1>o, <3>1, <3>2 DEF Chain
  <2>6. /\ 3 \in Nat /\ DOMAIN before = 1 .. 3 /\ DOMAIN after = 1 .. 3
        /\ before[1] = Written /\ before[2] = Held(outq) /\ before[3] = InHand
        /\ after[1] = Written /\ after[2] = Held(outq) /\ after[3] = InHand'
    BY <1>n, <2>1 DEF Downstream
  <2>7. Chain(before, Bad)
    BY <1>o
  <2> HIDE DEF before, after
  <2>8. /\ \A i \in 1 .. 3 : i # 3 => /\ after[i] \subseteq before[i]
                                      /\ \A y \in after[i] : <<y, x>> \notin Bad
        /\ after[3] \subseteq before[3] \cup {x}
    BY <2>4, <2>5, <2>6
  <2>9. Chain(after, Bad)
    BY <2>6, <2>7, <2>8, EnterChain
  <2> QED
    BY <1>o, <1>13, <1>15, <2>1, <2>9 DEF OrderOK, after
<1>16. ASSUME NEW f \in FP, FPPush(f) PROVE OrderOK'
  <2> DEFINE x == fp[f].job
  <2>1. UNCHANGED <<verdict, output, next, lb, lbq, fpq>>
    BY <1>16 DEF FPPush, mainVars
  <2>2. /\ fp[f].pc = "push" /\ fp'[f].pc = "check" /\ \A k \in FP \ {f} : fp'[k] = fp[k]
        /\ outq' = Push(outq, x)
    BY <1>16, <1>fp DEF FPPush, FPThread, TypeOK
  <2>3. x \in ForFP(f) /\ x \in InHand /\ x \in Packet
    BY <2>2, InHands, AtPlaces DEF Sent
  <2>4. InHand' \subseteq InHand /\ UNCHANGED InWork
    <3>1. InHand' \subseteq InHand
      BY <2>2, AtPlaces, AtPlacesNext
    <3>2. {g \in FP : fp'[g].pc = "process"} = {g \in FP : fp[g].pc = "process"}
      BY <2>2
    <3> QED
      BY <2>2, <3>1, <3>2 DEF InWork
  <2> HIDE DEF x
  <2>5. Held(outq') \subseteq Held(outq) \cup {x}
    BY <1>q, <2>2, <2>3, PushFacts
  <2>6. ASSUME NEW y \in InHand' PROVE <<x, y>> \notin Bad
    <3>1. PICK k \in FP : fp'[k].pc = "push" /\ y = fp'[k].job
      BY <2>6, AtPlacesNext
    <3>2. k # f /\ y \in ForFP(k)
      BY <2>2, <3>1, InHands
    <3> QED
      BY <2>3, <3>2 DEF ForFP, Bad
  <2>7. Chain(Downstream', Bad)
    <3>1. /\ Downstream'[2] \subseteq Downstream[2] \cup {x}
          /\ \A i \in 1 .. 3 : i # 2 => Downstream'[i] \subseteq Downstream[i]
      BY <1>n, <2>1, <2>4, <2>5, ByNumber
    <3>2. x \in Downstream[2 + 1] /\ \A y \in Downstream'[2 + 1] : <<x, y>> \notin Bad
      BY <2>3, <2>6, ByNumber
    <3> QED
      BY <1>o, <3>1, <3>2, MoveDown
  <2>8. Upstream' = Upstream
    BY <1>n, <2>1, <2>4 DEF Upstream
  <2>9. InOrder(outq'.buf, Bad)
    <3>1. \A y \in Held(outq) : <<y, x>> \notin Bad
      <4>1. 2 \in DOMAIN Downstream /\ 3 \in DOMAIN Downstream /\ 2 < 3
        BY DEF Downstream
      <4> QED
        BY <1>o, <2>3, <4>1, ByNumber DEF Chain
    <3> QED
      BY <1>q, <1>o, <2>2, <2>3, <3>1, PushOrder
  <2> QED
    BY <1>o, <2>1, <2>7, <2>8, <2>9 DEF OrderOK
<1>17. CASE WriterWrite
  <2> DEFINE x == FrontItem(outq)
  <2>1. UNCHANGED <<verdict, next, lb, fp, lbq, fpq>>
    BY <1>17 DEF WriterWrite, mainVars
  <2>2. HasItem(outq) /\ outq' = PopFront(outq) /\ output' = Append(output, x)
    BY <1>17 DEF WriterWrite
  <2>3. /\ x \in Held(outq) /\ Held(outq') \subseteq Held(outq) /\ x \in Packet
    BY <1>q, <2>2, PopFacts
  <2>4. /\ InOrder(outq'.buf, Bad)
        /\ \A y \in Held(outq') : <<x, y>> \notin Bad
    BY <1>q, <1>o, <2>2, PopOrder
  <2> HIDE DEF x
  <2>5. Written' \subseteq Written \cup {x}
    BY <2>2, <2>3, AppendFacts DEF Written, TypeOK
  <2>6. Chain(Downstream', Bad)
    <3>1. /\ Downstream'[1] \subseteq Downstream[1] \cup {x}
          /\ \A i \in 1 .. 3 : i # 1 => Downstream'[i] \subseteq Downstream[i]
      BY <1>n, <2>1, <2>3, <2>5, ByNumber
    <3>2. x \in Downstream[1 + 1] /\ \A y \in Downstream'[1 + 1] : <<x, y>> \notin Bad
      BY <2>3, <2>4, ByNumber
    <3> QED
      BY <1>o, <3>1, <3>2, MoveDown
  <2>7. Upstream' = Upstream
    BY <1>n, <2>1 DEF Upstream
  <2> QED
    BY <1>o, <2>1, <2>4, <2>6, <2>7 DEF OrderOK
<1> QED
  BY <1>1, <1>2, <1>3, <1>4, <1>5, <1>6, <1>7, <1>8, <1>9, <1>10, <1>11, <1>12, <1>14,
     <1>15, <1>16, <1>17
  DEF Next, Main, LoadBalancer, FastPath, Writer, FailOpen, ReadCount, EndOfInput,
      JoinLB, JoinFP, StopOut, Finish, WriterCheck, WriterTimeout,
      vars, mainVars, queueVars
-----------------------------------------------------------------------------
(***************************************************************************)
(* Verdicts.                                                               *)
(***************************************************************************)
\* A packet is decided about once.
LEMMA Undecided ==
  ASSUME HandsOK, OrderOK, VerdictsOK, NEW f \in FP, fp[f].pc = "process", TypeOK
  PROVE  verdict[fp[f].job] = "none"
<1> DEFINE x == fp[f].job
<1>1. x \in Sent /\ x \in Packet /\ x \in InWork
  BY InHands, Places, AtPlaces
<1> HIDE DEF x
<1>2. x \notin Upstream[1]
  <2>1. 1 \in DOMAIN Upstream /\ 2 \in DOMAIN Upstream /\ 1 < 2 /\ Chain(Upstream, Bad)
    BY DEF Upstream, OrderOK
  <2>2. x \in Upstream[2] /\ <<x, x>> \in Bad
    BY <1>1, ByNumber, BadPairs
  <2> QED
    BY <2>1, <2>2 DEF Chain
<1> QED
  BY <1>1, <1>2, ByNumber DEF Decided, x

LEMMA NextVerdicts ==
  ASSUME TypeOK, HandsOK, PhasesOK, OrderOK, VerdictsOK, [Next]_vars
  PROVE  VerdictsOK'
<1>lb. \A l \in LB : lb[l] \in LBThread
  BY DEF TypeOK, LBThread
<1>fp. \A f \in FP : fp[f] \in FPThread
  BY DEF TypeOK, FPThread
<1>q. outq \in QueueOf(Packet)
  BY DEF TypeOK, Queue, QueueOf
<1>v. /\ Decided \subseteq Sent
      /\ Written \cup Held(outq) \cup InHand \subseteq Forwarded
      /\ \A p \in Packet : verdict[p] = "drop" => FlowOf(p) \in blocked[FPOf(p)]
  BY DEF VerdictsOK
<1>1. ASSUME UNCHANGED <<verdict, blocked>>,
             Written' \cup Held(outq') \cup InHand' \subseteq Written \cup Held(outq) \cup InHand
      PROVE  VerdictsOK'
  BY <1>v, <1>1 DEF VerdictsOK, Decided, Forwarded
<1>2. CASE UNCHANGED <<verdict, blocked, output, outq, fp>>
  <2>1. UNCHANGED <<Written, InHand>>
    BY <1>2 DEF Written, InHand, Pushing
  <2> QED
    BY <1>1, <1>2, <2>1
<1>3. CASE StartAll
  <2>1. Written' = {}
    <3>1. output' = <<Header>> /\ Len(<<Header>>) = 1
      BY <1>3 DEF StartAll
    <3>2. 2 .. 1 = {}
      OBVIOUS
    <3> QED
      BY <3>1, <3>2 DEF Written
  <2>2. InHand' = {}
    BY <1>3, <1>fp DEF StartAll, FPThread, InHand, Pushing
  <2>3. UNCHANGED <<verdict, blocked, outq>>
    BY <1>3 DEF StartAll, queueVars
  <2> QED
    BY <1>1, <2>1, <2>2, <2>3
<1>4. CASE StopFP
  <2>1. \A f \in FP : fp'[f].pc = fp[f].pc /\ fp'[f].job = fp[f].job
    BY <1>4, <1>fp DEF StopFP, FPThread, TypeOK, PhasesOK
  <2>2. UNCHANGED <<verdict, blocked, output, outq>>
    BY <1>4 DEF StopFP
  <2>3. UNCHANGED <<Written, InHand>>
    BY <2>1, <2>2 DEF Written, InHand, Pushing
  <2> QED
    BY <1>1, <2>2, <2>3
<1>5. CASE ShutOut
  <2>1. UNCHANGED <<verdict, blocked, output, fp>> /\ Held(outq') = Held(outq)
    BY <1>5, <1>q, ShutFacts DEF ShutOut
  <2>2. UNCHANGED <<Written, InHand>>
    BY <2>1 DEF Written, InHand, Pushing
  <2> QED
    BY <1>1, <2>1, <2>2
<1>6. ASSUME NEW f \in FP, FPCheck(f) \/ FPTimeout(f) \/ FPPop(f) PROVE VerdictsOK'
  <2>1. /\ fp[f].pc # "push" /\ fp'[f].pc # "push"
        /\ \A k \in FP \ {f} : fp'[k] = fp[k]
    BY <1>6, <1>fp DEF FPCheck, FPTimeout, FPPop, FPThread, TypeOK
  <2>2. UNCHANGED <<verdict, blocked, output, outq>>
    BY <1>6 DEF FPCheck, FPTimeout, FPPop, queueVars
  <2>3. UNCHANGED <<Written, InHand>>
    BY <2>1, <2>2 DEF Written, InHand, Pushing
  <2> QED
    BY <1>1, <2>2, <2>3
<1>7. ASSUME NEW f \in FP, FPDrop(f) PROVE VerdictsOK'
  <2> DEFINE x == fp[f].job
  <2>1. x \in ForFP(f) /\ x \in Sent /\ x \in Packet /\ FPOf(x) = f
    BY <1>7, InHands DEF FPDrop, ForFP, Sent
  <2>2. verdict[x] = "none"
    BY <1>7, Undecided DEF FPDrop
  <2>3. /\ verdict' = [verdict EXCEPT ![x] = "drop"]
        /\ blocked' = [blocked EXCEPT ![f] = @ \cup {FlowOf(x)}]
        /\ UNCHANGED <<output, outq>>
    BY <1>7 DEF FPDrop, queueVars
  <2>4. /\ fp[f].pc # "push" /\ fp'[f].pc # "push"
        /\ \A k \in FP \ {f} : fp'[k] = fp[k]
    BY <1>7, <1>fp DEF FPDrop, FPThread, TypeOK
  <2>5. UNCHANGED <<Written, InHand>>
    BY <2>3, <2>4 DEF Written, InHand, Pushing
  <2> HIDE DEF x
  <2>6. /\ verdict'[x] = "drop" /\ \A p \in Packet \ {x} : verdict'[p] = verdict[p]
        /\ blocked'[f] = blocked[f] \cup {FlowOf(x)}
        /\ \A k \in FP \ {f} : blocked'[k] = blocked[k]
    BY <2>1, <2>3 DEF TypeOK
  <2>7. Decided' \subseteq Sent
    BY <1>v, <2>1, <2>6 DEF Decided
  <2>8. Forwarded \subseteq Forwarded'
    BY <2>2, <2>6 DEF Forwarded, Sent
  <2>9. ASSUME NEW p \in Packet, verdict'[p] = "drop" PROVE FlowOf(p) \in blocked'[FPOf(p)]
    <3>1. CASE p = x
      BY <2>1, <2>6, <3>1
    <3>2. CASE p # x
      <4>1. FlowOf(p) \in blocked[FPOf(p)] /\ p \in Sent
        BY <1>v, <2>6, <2>9, <3>2 DEF Decided
      <4> QED
        BY <2>6, <4>1, Places
    <3> QED
      BY <3>1, <3>2
  <2> QED
    BY <1>v, <2>3, <2>5, <2>7, <2>8, <2>9 DEF VerdictsOK
<1>8. ASSUME NEW f \in FP, FPForward(f) PROVE VerdictsOK'
  <2> DEFINE x == fp[f].job
  <2>1. x \in Sent /\ x \in Packet
    BY <1>8, InHands DEF FPForward, Sent
  <2>2. verdict' = [verdict EXCEPT ![x] = "forward"] /\ UNCHANGED <<blocked, output, outq>>
    BY <1>8 DEF FPForward, queueVars
  <2>3. /\ fp'[f].job = x /\ \A k \in FP \ {f} : fp'[k] = fp[k]
    BY <1>8, <1>fp DEF FPForward, FPThread, TypeOK
  <2>4. InHand' \subseteq InHand \cup {x}
    BY <2>3, AtPlaces, AtPlacesNext
  <2> HIDE DEF x
  <2>5. verdict'[x] = "forward" /\ \A p \in Packet \ {x} : verdict'[p] = verdict[p]
    BY <2>1, <2>2 DEF TypeOK
  <2>6. Decided' \subseteq Sent /\ Forwarded \cup {x} \subseteq Forwarded'
    BY <1>v, <2>1, <2>5 DEF Decided, Forwarded, Sent
  <2>7. UNCHANGED Written
    BY <2>2 DEF Written
  <2>8. Written' \cup Held(outq') \cup InHand' \subseteq Forwarded'
    BY <1>v, <2>2, <2>4, <2>6, <2>7
  <2>9. \A p \in Packet : verdict'[p] = "drop" => FlowOf(p) \in blocked'[FPOf(p)]
    BY <1>v, <2>2, <2>5
  <2> QED
    BY <2>6, <2>8, <2>9 DEF VerdictsOK
<1>9. ASSUME NEW f \in FP, FPPush(f) PROVE VerdictsOK'
  <2> DEFINE x == fp[f].job
  <2>1. UNCHANGED <<verdict, blocked, output>> /\ outq' = Push(outq, x)
    BY <1>9 DEF FPPush
  <2>2. /\ fp[f].pc = "push" /\ fp'[f].pc = "check"
        /\ \A k \in FP \ {f} : fp'[k] = fp[k]
    BY <1>9, <1>fp DEF FPPush, FPThread, TypeOK
  <2>3. x \in Packet /\ x \in InHand
    BY <2>2, InHands, AtPlaces DEF Sent
  <2>4. InHand' \subseteq InHand /\ UNCHANGED Written
    BY <2>1, <2>2, AtPlaces, AtPlacesNext DEF Written
  <2> HIDE DEF x
  <2>5. Held(outq') \subseteq Held(outq) \cup {x}
    BY <1>q, <2>1, <2>3, PushFacts
  <2> QED
    BY <1>1, <2>1, <2>3, <2>4, <2>5
<1>10. CASE WriterWrite
  <2> DEFINE x == FrontItem(outq)
  <2>1. UNCHANGED <<verdict, blocked, fp>>
    BY <1>10 DEF WriterWrite
  <2>2. HasItem(outq) /\ outq' = PopFront(outq) /\ output' = Append(output, x)
    BY <1>10 DEF WriterWrite
  <2>3. /\ x \in Held(outq) /\ Held(outq') \subseteq Held(outq) /\ x \in Packet
    BY <1>q, <2>2, PopFacts
  <2> HIDE DEF x
  <2>4. Written' \subseteq Written \cup {x}
    BY <2>2, <2>3, AppendFacts DEF Written, TypeOK
  <2>5. UNCHANGED InHand
    BY <2>1 DEF InHand, Pushing
  <2> QED
    BY <1>1, <2>1, <2>3, <2>4, <2>5
<1> QED
  BY <1>2, <1>3, <1>4, <1>5, <1>6, <1>7, <1>8, <1>9, <1>10
  DEF Next, Main, LoadBalancer, FastPath, Writer, FailOpen, ReadSkip, ReadCount, Dispatch,
      EndOfInput, StopLB, JoinLB, JoinFP, StopOut, Finish, LBCheck, LBTimeout, LBPop, LBPush,
      WriterCheck, WriterTimeout, vars, mainVars, queueVars
-----------------------------------------------------------------------------
(***************************************************************************)
(* The places, seen from the packets.                                      *)
(***************************************************************************)
LEMMA NextPlaces ==
  ASSUME TypeOK, HandsOK, PhasesOK, OrderOK, VerdictsOK, CountOK, PlacesOK, [Next]_vars
  PROVE  PlacesOK'
<1>lb. \A l \in LB : lb[l] \in LBThread
  BY DEF TypeOK, LBThread
<1>fp. \A f \in FP : fp[f] \in FPThread
  BY DEF TypeOK, FPThread
<1>q. /\ lbq \in [LB -> QueueOf(Packet)] /\ fpq \in [FP -> QueueOf(Packet)]
      /\ \A l \in LB : lbq[l] \in QueueOf(Packet)
      /\ \A f \in FP : fpq[f] \in QueueOf(Packet)
      /\ outq \in QueueOf(Packet)
  BY DEF TypeOK, Queue, QueueOf
<1>n. /\ UNCHANGED output => UNCHANGED Written
      /\ UNCHANGED fp => UNCHANGED <<InWork, InHand>>
      /\ UNCHANGED fpq => UNCHANGED AtFP
      /\ UNCHANGED lb => UNCHANGED AtLB
      /\ UNCHANGED lbq => UNCHANGED ToLB
  BY DEF Written, InWork, InHand, Pushing, AtFP, AtLB, ToLB
<1>1. ASSUME UNCHANGED <<next, verdict>>,
             InWork \cup AtFP \cup AtLB \cup ToLB \subseteq InWork' \cup AtFP' \cup AtLB' \cup ToLB',
             Written \cup Held(outq) \cup InHand \subseteq Written' \cup Held(outq') \cup InHand'
      PROVE  PlacesOK'
  BY <1>1 DEF PlacesOK
<1>2. CASE UNCHANGED <<next, verdict, lb, fp, lbq, fpq, outq, output>>
  BY <1>1, <1>2, <1>n
<1>3. CASE StartAll
  <2>1. next' = 1
    BY <1>3 DEF StartAll, PhasesOK, BeforeStart
  <2> QED
    BY <2>1, Packets DEF PlacesOK, Sent, Packet
<1>4. CASE ReadSkip
  <2>1. UNCHANGED <<verdict, lb, fp, lbq, fpq, outq, output>>
    BY <1>4 DEF ReadSkip, queueVars
  <2>2. \A p \in Sent : p < next' => p < next
    BY <1>4, Packets DEF ReadSkip, Sent
  <2> QED
    BY <1>n, <2>1, <2>2 DEF PlacesOK
<1>5. CASE Dispatch
  <2>1. next \in Sent /\ next \in Packet /\ LBFor(next) \in LB
    BY <1>5, Places DEF Dispatch, PhasesOK
  <2>2. lbq' = [lbq EXCEPT ![LBFor(next)] = Push(@, next)] /\ next' = next + 1
    BY <1>5 DEF Dispatch
  <2>3. UNCHANGED <<verdict, output, lb, fp, fpq, outq>>
    BY <1>5 DEF Dispatch
  <2>4. ~lbq[LBFor(next)].shut
    BY <1>5, <2>1 DEF Dispatch, PhasesOK, AfterInput, AfterLBs, AfterFPs, AfterOut
  <2>5. Held(lbq'[LBFor(next)]) = Held(lbq[LBFor(next)]) \cup {next}
    BY <1>q, <2>1, <2>2, <2>4, PushFacts
  <2>6. \A l \in LB \ {LBFor(next)} : lbq'[l] = lbq[l]
    BY <1>q, <2>2
  <2>7. ToLB \cup {next} \subseteq ToLB'
    BY <2>1, <2>5, <2>6, AtPlaces, AtPlacesNext
  <2>8. verdict[next] = "none"
    <3>1. next \in Unread
      BY <2>1, Packets DEF Unread, Packet
    <3>2. 1 \in DOMAIN Upstream /\ 6 \in DOMAIN Upstream /\ 1 < 6 /\ Chain(Upstream, Bad)
      BY DEF Upstream, OrderOK
    <3>3. next \notin Upstream[1]
      <4>1. next \in Upstream[6] /\ <<next, next>> \in Bad
        BY <2>1, <3>1, ByNumber, BadPairs
      <4> QED
        BY <3>2, <4>1 DEF Chain
    <3> QED
      BY <2>1, <3>3, ByNumber DEF Decided
  <2>9. ASSUME NEW p \in Sent, p < next'
        PROVE  /\ verdict'[p] = "none" => p \in InWork' \cup AtFP' \cup AtLB' \cup ToLB'
               /\ verdict'[p] = "forward" => p \in Written' \cup Held(outq') \cup InHand'
    <3>1. CASE p = next
      BY <2>3, <2>7, <2>8, <3>1
    <3>2. CASE p # next
      <4>1. p < next
        BY <2>1, <2>2, <2>9, <3>2, Packets DEF Sent
      <4> QED
        BY <1>n, <2>3, <2>7, <4>1 DEF PlacesOK
    <3> QED
      BY <3>1, <3>2
  <2> QED
    BY <2>9 DEF PlacesOK
<1>6. CASE StopLB
  <2>1. UNCHANGED <<verdict, output, next, fp, fpq, outq>>
    BY <1>6 DEF StopLB
  <2>2. turn \in LB
    BY <1>6 DEF StopLB, PhasesOK
  <2>3. \A l \in LB : lb'[l].pc = lb[l].pc /\ lb'[l].job = lb[l].job
    BY <1>6, <1>lb, <2>2 DEF StopLB, LBThread, TypeOK
  <2>4. \A l \in LB : Held(lbq'[l]) = Held(lbq[l])
    BY <1>6, <1>q, <2>2, ShutFacts DEF StopLB
  <2>5. UNCHANGED <<AtLB, ToLB>>
    BY <2>3, <2>4 DEF AtLB, ToLB
  <2> QED
    BY <1>1, <1>n, <2>1, <2>5
<1>7. CASE StopFP
  <2>1. UNCHANGED <<verdict, output, next, lb, lbq, outq>>
    BY <1>7 DEF StopFP
  <2>2. turn \in FP
    BY <1>7 DEF StopFP, PhasesOK
  <2>3. \A f \in FP : fp'[f].pc = fp[f].pc /\ fp'[f].job = fp[f].job
    BY <1>7, <1>fp, <2>2 DEF StopFP, FPThread, TypeOK
  <2>4. \A f \in FP : Held(fpq'[f]) = Held(fpq[f])
    BY <1>7, <1>q, <2>2, ShutFacts DEF StopFP
  <2>5. UNCHANGED <<InWork, AtFP, InHand>>
    BY <2>3, <2>4 DEF InWork, AtFP, InHand, Pushing
  <2> QED
    BY <1>1, <1>n, <2>1, <2>5
<1>8. CASE ShutOut
  <2>1. UNCHANGED <<verdict, output, next, lb, fp, lbq, fpq>> /\ Held(outq') = Held(outq)
    BY <1>8, <1>q, ShutFacts DEF ShutOut
  <2> QED
    BY <1>1, <1>n, <2>1
<1>9. ASSUME NEW l \in LB, LBCheck(l) \/ LBTimeout(l) PROVE PlacesOK'
  <2>1. UNCHANGED <<verdict, output, next, fp, lbq, fpq, outq>>
    BY <1>9 DEF LBCheck, LBTimeout, mainVars, queueVars
  <2>2. lb[l].pc # "push" /\ lb'[l].pc # "push" /\ \A k \in LB \ {l} : lb'[k] = lb[k]
    BY <1>9, <1>lb DEF LBCheck, LBTimeout, LBThread, TypeOK
  <2>3. UNCHANGED AtLB
    BY <2>2 DEF AtLB
  <2> QED
    BY <1>1, <1>n, <2>1, <2>3
<1>10. ASSUME NEW l \in LB, LBPop(l) PROVE PlacesOK'
  <2> DEFINE x == FrontItem(lbq[l])
  <2>1. UNCHANGED <<verdict, output, next, fp, fpq, outq>>
    BY <1>10 DEF LBPop, mainVars
  <2>2. /\ lb[l].pc = "pop" /\ lb'[l].pc = "push" /\ lb'[l].job = x
        /\ lbq'[l] = PopFront(lbq[l])
        /\ \A k \in LB \ {l} : lb'[k] = lb[k] /\ lbq'[k] = lbq[k]
    BY <1>10, <1>lb, <1>q DEF LBPop, LBThread, TypeOK
  <2>3. Held(lbq[l]) = Held(lbq'[l]) \cup {x}
    BY <1>10, <1>q, <2>2, PopFacts DEF LBPop
  <2> HIDE DEF x
  <2>4. AtLB \cup {x} \subseteq AtLB' /\ ToLB \subseteq ToLB' \cup {x}
    BY <2>2, <2>3, AtPlaces, AtPlacesNext
  <2> QED
    BY <1>1, <1>n, <2>1, <2>4
<1>11. ASSUME NEW l \in LB, LBPush(l) PROVE PlacesOK'
  <2> DEFINE x == lb[l].job
             g == FPFor(l, x)
  <2>1. UNCHANGED <<verdict, output, next, fp, lbq, outq>>
    BY <1>11 DEF LBPush, mainVars
  <2>2. x \in Sent /\ x \in Packet /\ g \in FP /\ lb[l].pc = "push"
    BY <1>11, InHands, Places DEF LBPush
  <2>3. /\ \A k \in LB \ {l} : lb'[k] = lb[k]
        /\ fpq' = [fpq EXCEPT ![g] = Push(@, x)]
    BY <1>11, <1>lb DEF LBPush, LBThread, TypeOK
  <2>4. ~fpq[g].shut
    BY <2>2 DEF PhasesOK
  <2>5. \A k \in LB : k # l /\ lb[k].pc = "push" => lb'[k].pc = "push" /\ lb'[k].job = lb[k].job
    BY <2>3
  <2>6. AtLB \subseteq AtLB' \cup {x}
    BY <2>5, AtPlaces, AtPlacesNext
  <2> HIDE DEF x, g
  <2>7. fpq'[g] = Push(fpq[g], x) /\ \A f \in FP \ {g} : fpq'[f] = fpq[f]
    BY <1>q, <2>2, <2>3
  <2>8. Held(fpq'[g]) = Held(fpq[g]) \cup {x}
    BY <1>q, <2>2, <2>4, <2>7, PushFacts
  <2>9. AtFP \cup {x} \subseteq AtFP'
    BY <2>2, <2>7, <2>8, AtPlaces, AtPlacesNext
  <2> QED
    BY <1>1, <1>n, <2>1, <2>6, <2>9
<1>12. ASSUME NEW f \in FP, FPCheck(f) \/ FPTimeout(f) PROVE PlacesOK'
  <2>1. UNCHANGED <<verdict, output, next, lb, lbq, fpq, outq>>
    BY <1>12 DEF FPCheck, FPTimeout, mainVars, queueVars
  <2>2. /\ fp[f].pc \notin {"process", "push"} /\ fp'[f].pc \notin {"process", "push"}
        /\ \A k \in FP \ {f} : fp'[k] = fp[k]
    BY <1>12, <1>fp DEF FPCheck, FPTimeout, FPThread, TypeOK
  <2>3. UNCHANGED <<InWork, InHand>>
    BY <2>2 DEF InWork, InHand, Pushing
  <2> QED
    BY <1>1, <1>n, <2>1, <2>3
<1>13. ASSUME NEW f \in FP, FPPop(f) PROVE PlacesOK'
  <2> DEFINE x == FrontItem(fpq[f])
  <2>1. UNCHANGED <<verdict, output, next, lb, lbq, outq>>
    BY <1>13 DEF FPPop, mainVars
  <2>2. /\ fp[f].pc = "pop" /\ fp'[f].pc = "process" /\ fp'[f].job = x
        /\ fpq'[f] = PopFront(fpq[f])
        /\ \A k \in FP \ {f} : fp'[k] = fp[k] /\ fpq'[k] = fpq[k]
    BY <1>13, <1>fp, <1>q DEF FPPop, FPThread, TypeOK
  <2>3. Held(fpq[f]) = Held(fpq'[f]) \cup {x}
    BY <1>13, <1>q, <2>2, PopFacts DEF FPPop
  <2> HIDE DEF x
  <2>4. InWork \cup {x} \subseteq InWork' /\ AtFP \subseteq AtFP' \cup {x}
    BY <2>2, <2>3, AtPlaces, AtPlacesNext
  <2>5. InHand \subseteq InHand'
    BY <2>2, AtPlaces, AtPlacesNext
  <2> QED
    BY <1>1, <1>n, <2>1, <2>4, <2>5
<1>14. ASSUME NEW f \in FP, FPDrop(f) \/ FPForward(f) PROVE PlacesOK'
  <2> DEFINE x == fp[f].job
  <2>1. UNCHANGED <<next, output, outq, lb, lbq, fpq>>
    BY <1>14 DEF FPDrop, FPForward, mainVars, queueVars
  <2>2. /\ fp[f].pc = "process" /\ \A k \in FP \ {f} : fp'[k] = fp[k]
        /\ \A p \in Packet \ {x} : verdict'[p] = verdict[p]
        /\ \/ verdict'[x] = "drop"
           \/ verdict'[x] = "forward" /\ fp'[f].pc = "push" /\ fp'[f].job = x
    <3>1. x \in Packet
      BY <1>14, InHands DEF FPDrop, FPForward, Sent
    <3>2. verdict' = [verdict EXCEPT ![x] = "drop"] \/ verdict' = [verdict EXCEPT ![x] = "forward"]
      BY <1>14 DEF FPDrop, FPForward
    <3>3. verdict'[x] = "drop" \/ (verdict'[x] = "forward" /\ FPForward(f))
      <4>1. CASE FPDrop(f)
        BY <3>1, <4>1 DEF FPDrop, TypeOK
      <4>2. CASE FPForward(f)
        BY <3>1, <4>2 DEF FPForward, TypeOK
      <4> QED
        BY <1>14, <4>1, <4>2
    <3>4. FPForward(f) => fp'[f].pc = "push" /\ fp'[f].job = x
      BY <1>fp DEF FPForward, FPThread, TypeOK
    <3>5. fp[f].pc = "process" /\ \A k \in FP \ {f} : fp'[k] = fp[k]
      BY <1>14, <1>fp DEF FPDrop, FPForward, TypeOK
    <3> HIDE DEF x
    <3>6. \A p \in Packet \ {x} : verdict'[p] = verdict[p]
      BY <3>1, <3>2 DEF TypeOK
    <3> QED
      BY <3>3, <3>4, <3>5, <3>6
  <2> HIDE DEF x
  <2>3. InWork \subseteq InWork' \cup {x} /\ InHand \subseteq InHand'
    BY <2>2, AtPlaces, AtPlacesNext DEF x
  <2>4. verdict'[x] = "forward" => x \in InHand'
    BY <2>2, AtPlacesNext
  <2>5. ASSUME NEW p \in Sent, p < next'
        PROVE  /\ verdict'[p] = "none" => p \in InWork' \cup AtFP' \cup AtLB' \cup ToLB'
               /\ verdict'[p] = "forward" => p \in Written' \cup Held(outq') \cup InHand'
    <3>1. CASE p = x
      BY <2>2, <2>4, <3>1
    <3>2. CASE p # x
      <4>1. p < next /\ verdict'[p] = verdict[p]
        BY <2>1, <2>2, <2>5, <3>2 DEF Sent
      <4> QED
        BY <1>n, <2>1, <2>3, <3>2, <4>1 DEF PlacesOK
    <3> QED
      BY <3>1, <3>2
  <2> QED
    BY <2>5 DEF PlacesOK
<1>15. ASSUME NEW f \in FP, FPPush(f) PROVE PlacesOK'
  <2> DEFINE x == fp[f].job
  <2>1. UNCHANGED <<verdict, output, next, lb, lbq, fpq>> /\ outq' = Push(outq, x)
    BY <1>15 DEF FPPush, mainVars
  <2>2. fp[f].pc = "push" /\ \A k \in FP \ {f} : fp'[k] = fp[k]
    BY <1>15, <1>fp DEF FPPush, FPThread, TypeOK
  <2>3. x \in Packet /\ ~outq.shut
    BY <2>2, InHands DEF Sent, PhasesOK, AfterOut, AfterFPs
  <2>4. InHand \subseteq InHand' \cup {x} /\ InWork \subseteq InWork'
    BY <2>2, AtPlaces, AtPlacesNext
  <2> HIDE DEF x
  <2>5. Held(outq') = Held(outq) \cup {x}
    BY <1>q, <2>1, <2>3, PushFacts
  <2> QED
    BY <1>1, <1>n, <2>1, <2>4, <2>5
<1>16. CASE WriterWrite
  <2> DEFINE x == FrontItem(outq)
  <2>1. UNCHANGED <<verdict, next, lb, fp, lbq, fpq>>
    BY <1>16 DEF WriterWrite, mainVars
  <2>2. HasItem(outq) /\ outq' = PopFront(outq) /\ output' = Append(output, x)
    BY <1>16 DEF WriterWrite
  <2>3. Held(outq) = Held(outq') \cup {x} /\ x \in Packet
    BY <1>q, <2>2, PopFacts
  <2>4. output \in Seq(Packet \cup {Header}) /\ output # <<>> /\ Len(output) \in Nat \ {0}
    <3>1. stage \notin BeforeStart
      BY <1>16 DEF WriterWrite, PhasesOK
    <3> QED
      BY <3>1, TailFacts DEF CountOK, TypeOK
  <2> HIDE DEF x
  <2>5. Written \cup {x} \subseteq Written'
    BY <2>2, <2>3, <2>4, AppendFacts DEF Written
  <2> QED
    BY <1>1, <1>n, <2>1, <2>3, <2>5
<1> QED
  BY <1>2, <1>3, <1>4, <1>5, <1>6, <1>7, <1>8, <1>9, <1>10, <1>11, <1>12, <1>13, <1>14,
     <1>15, <1>16
  DEF Next, Main, LoadBalancer, FastPath, Writer, FailOpen, ReadCount, EndOfInput,
      JoinLB, JoinFP, StopOut, Finish, WriterCheck, WriterTimeout,
      vars, mainVars, queueVars
-----------------------------------------------------------------------------
(***************************************************************************)
(* The stages of process, and the count of what is forwarded.              *)
(***************************************************************************)
LEMMA NextPhases ==
  ASSUME TypeOK, HandsOK, PhasesOK, [Next]_vars
  PROVE  PhasesOK'
<1> USE DEF PhasesOK, BeforeStart, AfterInput, AfterLBs, AfterFPs, AfterOut
<1>lb. lb \in [LB -> LBThread] /\ \A l \in LB : lb[l] \in LBThread
  BY DEF TypeOK, LBThread
<1>fp. fp \in [FP -> FPThread] /\ \A f \in FP : fp[f] \in FPThread
  BY DEF TypeOK, FPThread
<1>q. /\ lbq \in [LB -> QueueOf(Packet)] /\ fpq \in [FP -> QueueOf(Packet)]
      /\ \A l \in LB : lbq[l] \in QueueOf(Packet)
      /\ \A f \in FP : fpq[f] \in QueueOf(Packet)
      /\ outq \in QueueOf(Packet)
  BY DEF TypeOK, Queue, QueueOf
<1>t. turn \in Nat /\ outputRunning \in BOOLEAN
  BY DEF TypeOK
<1>1. CASE FailOpen
  BY <1>1 DEF FailOpen, queueVars
<1>2. CASE StartAll
  BY <1>2, <1>lb, <1>fp, NewQueueFacts DEF StartAll, queueVars, LBThread, FPThread
<1>3. CASE ReadSkip
  BY <1>3 DEF ReadSkip, queueVars
<1>4. CASE ReadCount
  BY <1>4 DEF ReadCount, queueVars, Sent
<1>5. CASE Dispatch
  <2>1. next \in Packet /\ LBFor(next) \in LB
    BY <1>5, Places DEF Dispatch
  <2>2. \A l \in LB : lbq'[l].shut = lbq[l].shut
    BY <1>5, <1>q, <2>1, PushFacts DEF Dispatch
  <2> QED
    BY <1>5, <2>2 DEF Dispatch
<1>6. CASE EndOfInput
  BY <1>6, Threads DEF EndOfInput, queueVars
<1>7. CASE StopLB
  BY <1>7, <1>lb DEF StopLB, LBThread
<1>8. CASE JoinLB
  BY <1>8, <1>t, Threads DEF JoinLB, Joined, queueVars, LB
<1>9. CASE StopFP
  BY <1>9, <1>fp DEF StopFP, FPThread
<1>10. CASE JoinFP
  BY <1>10, <1>t, Threads DEF JoinFP, Joined, queueVars, FP
<1>11. CASE StopOut
  BY <1>11 DEF StopOut, queueVars
<1>12. CASE ShutOut
  BY <1>12, <1>q, ShutFacts DEF ShutOut, HasItem
<1>13. CASE Finish
  BY <1>13 DEF Finish, Joined, queueVars
<1>14. ASSUME NEW l \in LB, LBCheck(l) \/ LBTimeout(l) PROVE PhasesOK'
  BY <1>14, <1>lb DEF LBCheck, LBTimeout, mainVars, queueVars, LBThread
<1>15. ASSUME NEW l \in LB, LBPop(l) PROVE PhasesOK'
  <2>1. /\ lb[l].pc = "pop" /\ lb'[l].pc = "push"
        /\ \A k \in LB \ {l} : lb'[k] = lb[k]
    BY <1>15, <1>lb DEF LBPop, LBThread
  <2>2. \A k \in LB : lbq'[k].shut = lbq[k].shut
    BY <1>15, <1>q, PopFacts DEF LBPop
  <2>3. UNCHANGED <<mainVars, fp, writer, fpq, outq, stats, output>>
    BY <1>15 DEF LBPop
  <2>4. stage \notin AfterLBs /\ stage \notin BeforeStart
    BY <2>1
  <2> QED
    BY <2>1, <2>2, <2>3, <2>4 DEF mainVars
<1>16. ASSUME NEW l \in LB, LBPush(l) PROVE PhasesOK'
  <2>1. /\ lb[l].pc = "push" /\ lb'[l].pc = "check"
        /\ \A k \in LB \ {l} : lb'[k] = lb[k]
    BY <1>16, <1>lb DEF LBPush, LBThread
  <2>2. lb[l].job \in Packet /\ FPFor(l, lb[l].job) \in FP
    BY <2>1, InHands, Places
  <2>3. \A f \in FP : fpq'[f].shut = fpq[f].shut
    BY <1>16, <1>q, <2>2, PushFacts DEF LBPush
  <2>4. UNCHANGED <<mainVars, fp, writer, lbq, outq, stats, output>>
    BY <1>16 DEF LBPush
  <2>5. stage \notin AfterLBs /\ stage \notin BeforeStart
    BY <2>1
  <2> QED
    BY <2>1, <2>3, <2>4, <2>5 DEF mainVars
<1>17. ASSUME NEW f \in FP, FPCheck(f) \/ FPTimeout(f) \/ FPDrop(f) PROVE PhasesOK'
  BY <1>17, <1>fp DEF FPCheck, FPTimeout, FPDrop, mainVars, queueVars, FPThread
<1>18. ASSUME NEW f \in FP, FPPop(f) PROVE PhasesOK'
  BY <1>18, <1>fp, <1>q, PopFacts DEF FPPop, mainVars, FPThread
<1>19. ASSUME NEW f \in FP, FPForward(f) PROVE PhasesOK'
  BY <1>19, <1>fp DEF FPForward, mainVars, queueVars, FPThread
<1>20. ASSUME NEW f \in FP, FPPush(f) PROVE PhasesOK'
  <2>1. fp[f].job \in Packet /\ fp[f].pc = "push"
    BY <1>20, InHands DEF FPPush, Sent
  <2>2. outq'.shut = outq.shut
    BY <1>20, <1>q, <2>1, PushFacts DEF FPPush
  <2>3. stage \notin AfterFPs /\ stage \notin BeforeStart /\ writer # "exit"
    BY <2>1
  <2>4. \A k \in FP \ {f} : fp'[k] = fp[k]
    BY <1>20, <1>fp DEF FPPush
  <2> QED
    BY <1>20, <2>1, <2>2, <2>3, <2>4 DEF FPPush, mainVars
<1>21. CASE WriterCheck \/ WriterTimeout
  BY <1>21 DEF WriterCheck, WriterTimeout, mainVars, queueVars
<1>22. CASE WriterWrite
  BY <1>22, <1>q, PopFacts DEF WriterWrite, mainVars
<1>23. CASE UNCHANGED vars
  BY <1>23 DEF vars, mainVars, queueVars
<1> QED
  BY <1>1, <1>2, <1>3, <1>4, <1>5, <1>6, <1>7, <1>8, <1>9, <1>10, <1>11, <1>12, <1>13,
     <1>14, <1>15, <1>16, <1>17, <1>18, <1>19, <1>20, <1>21, <1>22, <1>23
  DEF Next, Main, LoadBalancer, FastPath, Writer

LEMMA NextCount ==
  ASSUME TypeOK, HandsOK, PhasesOK, CountOK, [Next]_vars
  PROVE  CountOK'
<1>fp. \A f \in FP : fp[f] \in FPThread
  BY DEF TypeOK, FPThread
<1>q. outq \in QueueOf(Packet) /\ Len(outq.buf) \in Nat
  BY HeldType DEF TypeOK, Queue, QueueOf
<1>o. output \in Seq(Packet \cup {Header}) /\ Len(output) \in Nat /\ stats.forwarded \in Nat
  BY LenProperties DEF TypeOK
<1>c. IsFiniteSet(Pushing) /\ Cardinality(Pushing) \in Nat
  BY Threads, FS_Subset, FS_CardinalityType DEF Pushing
<1>n. stage \notin BeforeStart =>
        /\ output # <<>>
        /\ Len(output) + Len(outq.buf) + Cardinality(Pushing) = 1 + stats.forwarded
  BY DEF CountOK
<1>1. ASSUME UNCHANGED <<output, Pushing>>, stats'.forwarded = stats.forwarded,
             stage \in BeforeStart => stage' \in BeforeStart,
             Len(outq'.buf) = Len(outq.buf)
      PROVE  CountOK'
  BY <1>1 DEF CountOK
<1>2. CASE UNCHANGED <<output, fp, stats, outq>> /\ (stage \in BeforeStart => stage' \in BeforeStart)
  BY <1>1, <1>2 DEF Pushing
<1>3. CASE StartAll
  <2>1. output' = <<Header>> /\ outq' = NewQueue /\ stats'.forwarded = 0
    BY <1>3 DEF StartAll, PhasesOK, BeforeStart, queueVars
  <2>2. Pushing' = {}
    BY <1>3, <1>fp DEF StartAll, FPThread, Pushing
  <2>3. Len(outq'.buf) = 0 /\ Cardinality(Pushing') = 0 /\ Len(output') = 1
    BY <2>1, <2>2, NewQueueFacts, FS_EmptySet
  <2> QED
    BY <2>1, <2>3 DEF CountOK
<1>4. CASE ReadCount
  <2>1. stats'.forwarded = stats.forwarded /\ UNCHANGED <<output, fp, outq>> /\ stage \notin BeforeStart
    BY <1>4 DEF ReadCount, TypeOK, queueVars, BeforeStart
  <2> QED
    BY <1>1, <2>1 DEF Pushing
<1>5. CASE StopFP
  <2>1. \A f \in FP : fp'[f].pc = fp[f].pc
    BY <1>5, <1>fp DEF StopFP, FPThread, TypeOK, PhasesOK
  <2>2. UNCHANGED <<output, stats, outq>> /\ stage \notin BeforeStart
    BY <1>5 DEF StopFP, BeforeStart
  <2>3. Pushing' = Pushing
    BY <2>1 DEF Pushing
  <2> QED
    BY <1>1, <2>2, <2>3
<1>6. CASE ShutOut
  <2>1. UNCHANGED <<output, stats, fp>> /\ outq'.buf = outq.buf /\ stage \notin BeforeStart
    BY <1>6, <1>q, ShutFacts DEF ShutOut, BeforeStart
  <2> QED
    BY <1>1, <2>1 DEF Pushing
<1>7. ASSUME NEW f \in FP, FPCheck(f) \/ FPTimeout(f) \/ FPPop(f) \/ FPDrop(f) PROVE CountOK'
  <2>1. /\ fp[f].pc # "push" /\ fp'[f].pc # "push"
        /\ \A k \in FP \ {f} : fp'[k] = fp[k]
    BY <1>7, <1>fp DEF FPCheck, FPTimeout, FPPop, FPDrop, FPThread, TypeOK
  <2>2. UNCHANGED <<stage, output, outq>> /\ stats'.forwarded = stats.forwarded
    BY <1>7 DEF FPCheck, FPTimeout, FPPop, FPDrop, mainVars, queueVars, TypeOK
  <2>3. Pushing' = Pushing
    BY <2>1 DEF Pushing
  <2> QED
    BY <1>1, <2>2, <2>3
<1>8. ASSUME NEW f \in FP, FPForward(f) PROVE CountOK'
  <2>1. /\ fp[f].pc = "process" /\ fp'[f].pc = "push"
        /\ \A k \in FP \ {f} : fp'[k] = fp[k]
    BY <1>8, <1>fp DEF FPForward, FPThread, TypeOK
  <2>2. UNCHANGED <<stage, output, outq>> /\ stats'.forwarded = stats.forwarded + 1
    BY <1>8 DEF FPForward, mainVars, queueVars, TypeOK
  <2>3. Pushing' = Pushing \cup {f} /\ f \notin Pushing
    BY <2>1 DEF Pushing
  <2>4. Cardinality(Pushing') = Cardinality(Pushing) + 1
    BY <1>c, <2>3, FS_AddElement
  <2>5. stage \notin BeforeStart =>
          /\ output' # <<>>
          /\ Len(output') + Len(outq'.buf) + Cardinality(Pushing') = 1 + stats'.forwarded
    <3> DEFINE a == Len(output)
               b == Len(outq.buf)
               c == Cardinality(Pushing)
               n == stats.forwarded
    <3>1. /\ Len(output') = a /\ Len(outq'.buf) = b /\ Cardinality(Pushing') = c + 1
          /\ stats'.forwarded = n + 1 /\ output' = output
      BY <2>2, <2>4
    <3>2. a \in Nat /\ b \in Nat /\ c \in Nat /\ n \in Nat
      BY <1>c, <1>q, <1>o
    <3>3. stage \notin BeforeStart => output # <<>> /\ a + b + c = 1 + n
      BY <1>n
    <3> HIDE DEF a, b, c, n
    <3>4. a + b + c = 1 + n => a + b + (c + 1) = 1 + (n + 1)
      BY <3>2
    <3> QED
      BY <3>1, <3>3, <3>4
  <2> QED
    BY <2>2, <2>5 DEF CountOK
<1>9. ASSUME NEW f \in FP, FPPush(f) PROVE CountOK'
  <2>1. /\ fp[f].pc = "push" /\ fp'[f].pc = "check"
        /\ \A k \in FP \ {f} : fp'[k] = fp[k]
    BY <1>9, <1>fp DEF FPPush, FPThread, TypeOK
  <2>2. UNCHANGED <<stage, output, stats>> /\ outq' = Push(outq, fp[f].job)
    BY <1>9 DEF FPPush, mainVars
  <2>3. fp[f].job \in Packet /\ ~outq.shut
    BY <2>1, InHands DEF Sent, PhasesOK, AfterOut, AfterFPs
  <2>4. Len(outq'.buf) = Len(outq.buf) + 1
    BY <1>q, <2>2, <2>3, PushFacts
  <2>5. Pushing' = Pushing \ {f} /\ f \in Pushing
    BY <2>1 DEF Pushing
  <2>6. Cardinality(Pushing') = Cardinality(Pushing) - 1
    BY <1>c, <2>5, FS_RemoveElement
  <2>7. stage \notin BeforeStart =>
          Len(output') + Len(outq'.buf) + Cardinality(Pushing') = 1 + stats'.forwarded
    <3> DEFINE a == Len(output)
               b == Len(outq.buf)
               c == Cardinality(Pushing)
    <3>1. /\ Len(output') = a /\ Len(outq'.buf) = b + 1 /\ Cardinality(Pushing') = c - 1
          /\ stats'.forwarded = stats.forwarded
      BY <2>2, <2>4, <2>6
    <3>2. a \in Nat /\ b \in Nat /\ c \in Nat
      BY <1>c, <1>q, <1>o
    <3>3. stage \notin BeforeStart => a + b + c = 1 + stats.forwarded
      BY <1>n
    <3> HIDE DEF a, b, c
    <3>4. a + (b + 1) + (c - 1) = a + b + c
      BY <3>2
    <3> QED
      BY <3>1, <3>3, <3>4
  <2>8. stage' = stage /\ output' = output
    BY <2>2
  <2> QED
    BY <2>7, <2>8 DEF CountOK
<1>10. CASE WriterWrite
  <2>1. UNCHANGED <<stage, fp, stats>> /\ HasItem(outq) /\ outq' = PopFront(outq)
        /\ output' = Append(output, FrontItem(outq))
    BY <1>10 DEF WriterWrite, mainVars
  <2>2. Len(outq'.buf) = Len(outq.buf) - 1 /\ FrontItem(outq) \in Packet
    BY <1>q, <2>1, PopFacts
  <2>3. Len(output') = Len(output) + 1 /\ Pushing' = Pushing
    BY <1>o, <2>1, <2>2, AppendFacts DEF Pushing
  <2>4. output' # <<>>
    BY <1>o, <2>3
  <2>5. stage \notin BeforeStart =>
          Len(output') + Len(outq'.buf) + Cardinality(Pushing') = 1 + stats'.forwarded
    <3>1. stats'.forwarded = stats.forwarded /\ Cardinality(Pushing') = Cardinality(Pushing)
      BY <2>1, <2>3
    <3>2. Len(output') = Len(output) + 1 /\ Len(outq'.buf) = Len(outq.buf) - 1
      BY <2>2, <2>3
    <3>3. /\ Len(output) \in Nat /\ Len(outq.buf) \in Nat
          /\ Cardinality(Pushing) \in Nat /\ stats.forwarded \in Nat
      BY <1>c, <1>q, <1>o
    <3> DEFINE a == Len(output)
               b == Len(outq.buf)
    <3>4. Len(output') + Len(outq'.buf) = (a + 1) + (b - 1)
      BY <3>2
    <3>5. a \in Nat /\ b \in Nat
      BY <3>3
    <3>6. stage \notin BeforeStart => a + b + Cardinality(Pushing) = 1 + stats.forwarded
      BY <1>n
    <3> HIDE DEF a, b
    <3>7. (a + 1) + (b - 1) = a + b
      BY <3>5
    <3> QED
      BY <3>1, <3>4, <3>6, <3>7
  <2> QED
    BY <2>1, <2>4, <2>5 DEF CountOK
<1> QED
  BY <1>2, <1>3, <1>4, <1>5, <1>6, <1>7, <1>8, <1>9, <1>10
  DEF Next, Main, LoadBalancer, FastPath, Writer, FailOpen, ReadSkip, Dispatch,
      EndOfInput, StopLB, JoinLB, JoinFP, StopOut, Finish, LBCheck, LBTimeout, LBPop, LBPush,
      WriterCheck, WriterTimeout, vars, mainVars, queueVars, BeforeStart

LEMMA NextSticks ==
  ASSUME TypeOK, HandsOK, OrderOK, VerdictsOK, BlockSticks, [Next]_vars
  PROVE  BlockSticks'
<1>1. CASE UNCHANGED verdict
  BY <1>1 DEF BlockSticks
<1>2. ASSUME NEW f \in FP, FPDrop(f) \/ FPForward(f) PROVE BlockSticks'
  <2> DEFINE x == fp[f].job
  <2>1. x \in ForFP(f) /\ x \in Sent /\ x \in Packet /\ FPOf(x) = f /\ x \in InWork
    BY <1>2, InHands, AtPlaces DEF FPDrop, FPForward, ForFP, Sent
  <2>2. \A p \in Packet \ {x} : verdict'[p] = verdict[p]
    <3>1. verdict' = [verdict EXCEPT ![x] = "drop"] \/ verdict' = [verdict EXCEPT ![x] = "forward"]
      BY <1>2 DEF FPDrop, FPForward
    <3> HIDE DEF x
    <3> QED
      BY <2>1, <3>1 DEF TypeOK
  <2>3. verdict'[x] = "forward" => FlowOf(x) \notin blocked[f]
    BY <1>2, <2>1 DEF FPDrop, FPForward, Blocked, TypeOK
  <2> HIDE DEF x
  <2> SUFFICES ASSUME NEW p \in Packet, NEW q \in Packet, p < q, FlowOf(p) = FlowOf(q),
                      verdict'[p] = "drop"
               PROVE  verdict'[q] # "forward"
    BY DEF BlockSticks
  <2>4. CASE p # x /\ q # x
    BY <2>2, <2>4 DEF BlockSticks
  <2>5. CASE p # x /\ q = x
    <3>1. FlowOf(p) \in blocked[FPOf(p)] /\ p \in Sent
      BY <2>2, <2>5 DEF VerdictsOK, Decided
    <3>2. FPOf(p) = f
      BY <2>1, <2>5, <3>1, SameFlow
    <3> QED
      BY <2>3, <2>5, <3>1, <3>2
  <2>6. CASE p = x /\ q # x
    <3> SUFFICES ASSUME verdict'[q] = "forward" PROVE FALSE
      OBVIOUS
    <3>1. q \in Decided /\ q \in Sent
      BY <2>2, <2>6 DEF VerdictsOK, Decided
    <3>2. <<q, x>> \notin Bad
      <4>1. 1 \in DOMAIN Upstream /\ 2 \in DOMAIN Upstream /\ 1 < 2 /\ Chain(Upstream, Bad)
        BY DEF Upstream, OrderOK
      <4> QED
        BY <2>1, <3>1, <4>1, ByNumber DEF Chain
    <3>3. FPOf(q) = FPOf(x)
      BY <2>1, <2>6, <3>1, SameFlow
    <3>4. x < q /\ x \in Nat /\ q \in Nat
      BY <2>6, Packets
    <3> QED
      BY <2>1, <3>1, <3>2, <3>3, <3>4 DEF Bad
  <2>7. p # q
    BY Packets
  <2> QED
    BY <2>4, <2>5, <2>6, <2>7
<1> QED
  BY <1>1, <1>2
  DEF Next, Main, LoadBalancer, FastPath, Writer, FailOpen, StartAll, ReadSkip, ReadCount,
      Dispatch, EndOfInput, StopLB, JoinLB, StopFP, JoinFP, StopOut, ShutOut, Finish,
      LBCheck, LBTimeout, LBPop, LBPush, FPCheck, FPTimeout, FPPop, FPPush,
      WriterCheck, WriterTimeout, WriterWrite, vars, mainVars, queueVars
-----------------------------------------------------------------------------
(***************************************************************************)
(* The theorems.                                                           *)
(***************************************************************************)
LEMMA InitIInv == Init => IInv
<1> SUFFICES ASSUME Init PROVE IInv
  OBVIOUS
<1>1. TypeOK
  BY InitType
<1>2. HandsOK
  BY NewQueueFacts DEF Init, HandsOK
<1>3. /\ Decided = {} /\ InWork = {} /\ AtFP = {} /\ AtLB = {} /\ ToLB = {} /\ InHand = {}
      /\ Written = {} /\ Held(outq) = {}
  <2>1. Decided = {} /\ InWork = {} /\ AtLB = {} /\ InHand = {}
    BY DEF Init, Decided, InWork, AtLB, InHand, Pushing
  <2>2. AtFP = {} /\ ToLB = {} /\ Held(outq) = {}
    BY NewQueueFacts DEF Init, AtFP, ToLB
  <2>3. Written = {}
    <3>1. 2 .. 0 = {} /\ Len(<<>>) = 0
      OBVIOUS
    <3> QED
      BY <3>1 DEF Init, Written
  <2> QED
    BY <2>1, <2>2, <2>3
<1>4. OrderOK
  <2>1. Chain(Upstream, Bad)
    <3>1. DOMAIN Upstream = 1 .. 6 /\ \A i \in 1 .. 5 : Upstream[i] = {}
      BY <1>3 DEF Upstream
    <3>2. \A i, j \in 1 .. 6 : i < j => i \in 1 .. 5
      OBVIOUS
    <3> QED
      BY <3>1, <3>2 DEF Chain
  <2>2. Chain(Downstream, Bad)
    <3>1. DOMAIN Downstream = 1 .. 3 /\ \A i \in 1 .. 3 : Downstream[i] = {}
      BY <1>3 DEF Downstream
    <3> QED
      BY <3>1 DEF Chain
  <2>3. InOrder(NewQueue.buf, Bad)
    BY NewQueueFacts DEF InOrder
  <2> QED
    BY <2>1, <2>2, <2>3 DEF Init, OrderOK
<1>5. VerdictsOK
  BY <1>3 DEF Init, VerdictsOK
<1>6. PhasesOK
  BY NewQueueFacts DEF Init, PhasesOK, BeforeStart, AfterInput, AfterLBs, AfterFPs, AfterOut
<1>7. CountOK
  BY DEF Init, CountOK, BeforeStart
<1>8. PlacesOK
  BY Packets DEF Init, PlacesOK, Sent, Packet
<1>9. BlockSticks
  BY DEF Init, BlockSticks
<1> QED
  BY <1>1, <1>2, <1>4, <1>5, <1>6, <1>7, <1>8, <1>9 DEF IInv

LEMMA NextIInv ==
  ASSUME IInv, [Next]_vars
  PROVE  IInv'
  BY NextType, NextHands, NextOrder, NextVerdicts, NextPhases, NextCount, NextPlaces, NextSticks
  DEF IInv

LEMMA Invariant == Spec => []IInv
  BY InitIInv, NextIInv, PTL DEF Spec

\* The variables of the engine have their types, and no queue ever holds more
\* than its capacity, in every step of all its threads.
THEOREM TypeCorrect == Spec => []TypeOK
<1>1. IInv => TypeOK
  BY DEF IInv
<1> QED
  BY <1>1, Invariant, PTL

LEMMA PlacesKept == IInv => NothingDiscarded
<1> SUFFICES ASSUME IInv, NEW p \in Sent, p < next
             PROVE  /\ verdict[p] = "none" =>
                         \/ \E l \in LB : InSeq(lbq[l].buf, p) \/ lb[l].job = p
                         \/ \E f \in FP : InSeq(fpq[f].buf, p) \/ fp[f].job = p
                    /\ verdict[p] = "forward" =>
                         \/ \E f \in FP : fp[f].job = p
                         \/ InSeq(outq.buf, p) \/ InSeq(output, p)
  BY DEF NothingDiscarded, Sent
<1>1. \A q : p \in Held(q) => InSeq(q.buf, p)
  BY DEF Held, InSeq
<1>2. p \in Written => InSeq(output, p)
  <2>1. Len(output) \in Nat
    BY LenProperties DEF IInv, TypeOK
  <2> QED
    BY <2>1 DEF Written, InSeq
<1>3. /\ verdict[p] = "none" => p \in InWork \cup AtFP \cup AtLB \cup ToLB
      /\ verdict[p] = "forward" => p \in Written \cup Held(outq) \cup InHand
  BY DEF IInv, PlacesOK
<1> QED
  BY <1>1, <1>2, <1>3, AtPlaces

\* No packet is lost: a packet that was dispatched is always on its way, dropped
\* or in the output file, although stop shuts every queue down; and when process
\* returns, the file holds all forwarded packets and as many as are counted.
THEOREM Lossless == Spec => []NothingLost
<1>1. IInv => ForwardedIsWritten
  <2> SUFFICES ASSUME IInv, stage = "done" PROVE ForwardedIsWritten
    BY DEF ForwardedIsWritten
  <2>1. /\ \A f \in FP : fp[f].pc = "exit"
        /\ writer = "exit" /\ ~HasItem(outq)
    BY DEF IInv, PhasesOK, AfterFPs, AfterOut
  <2>2. Pushing = {} /\ InHand = {}
    BY <2>1 DEF Pushing, InHand
  <2>3. Held(outq) = {} /\ Len(outq.buf) = 0 /\ Len(output) \in Nat
    BY <2>1, QueueTypes, HeldType, LenProperties DEF IInv, TypeOK
  <2>4. Len(output) = 1 + stats.forwarded
    BY <2>2, <2>3, FS_EmptySet DEF IInv, CountOK, BeforeStart
  <2>5. ASSUME NEW p \in Packet, verdict[p] = "forward" PROVE InSeq(output, p)
    <3>1. p \in Sent /\ p \in Upstream[1]
      BY <2>5, ByNumber DEF IInv, VerdictsOK, Decided
    <3>2. p < next
      <4>1. p \notin Upstream[6]
        <5>1. 1 \in DOMAIN Upstream /\ 6 \in DOMAIN Upstream /\ 1 < 6 /\ Chain(Upstream, Bad)
          BY DEF Upstream, IInv, OrderOK
        <5>2. <<p, p>> \in Bad
          BY <3>1, BadPairs
        <5> QED
          BY <3>1, <5>1, <5>2 DEF Chain
      <4>2. next \in Nat /\ p \in Nat /\ p <= Len(Capture)
        BY Packets DEF IInv, TypeOK, Packet
      <4> QED
        BY <4>1, <4>2, Packets, ByNumber DEF Unread
    <3>3. p \in Written
      BY <2>2, <2>3, <2>5, <3>1, <3>2 DEF IInv, PlacesOK
    <3> QED
      BY <2>3, <3>3 DEF Written, InSeq
  <2> QED
    BY <2>4, <2>5 DEF ForwardedIsWritten
<1>2. IInv => NothingLost
  BY <1>1, PlacesKept DEF NothingLost
<1> QED
  BY <1>2, Invariant, PTL

\* Once a packet of a flow has been dropped, no later packet of the flow is
\* forwarded, with one flag per flow and fast path and no lock: all packets of
\* a flow meet at one fast path, in the order of the capture.
THEOREM BlockedStays == Spec => []BlockSticks
<1>1. IInv => BlockSticks
  BY DEF IInv
<1> QED
  BY <1>1, Invariant, PTL
-----------------------------------------------------------------------------
(***************************************************************************)
(* The flow filter.  A verdict is the filter's Decide, a packet written is *)
(* its Emit, every other step leaves it alone.                             *)
(***************************************************************************)
LEMMA WrittenByFilter ==
  ASSUME TypeOK
  PROVE  Filter!Written = Written
<1>1. output \in Seq(Packet \cup {Header})
  BY DEF TypeOK
<1>2. CASE output = <<>>
  <2>1. 2 .. 0 = {} /\ 1 .. 0 = {} /\ Len(<<>>) = 0
    OBVIOUS
  <2> QED
    BY <1>2, <2>1 DEF Filter!Written, Written
<1>3. CASE output # <<>>
  <2>1. /\ Len(output) \in Nat \ {0} /\ Len(Tail(output)) = Len(output) - 1
        /\ \A k \in 1 .. Len(output) - 1 : Tail(output)[k] = output[k + 1]
    BY <1>1, <1>3, TailFacts
  <2>2. Filter!Written = {Tail(output)[k] : k \in 1 .. Len(Tail(output))}
    BY <1>3 DEF Filter!Written
  <2>3. \A k \in 2 .. Len(output) : k - 1 \in 1 .. Len(output) - 1 /\ Tail(output)[k - 1] = output[k]
    BY <2>1
  <2>4. \A k \in 1 .. Len(output) - 1 : k + 1 \in 2 .. Len(output)
    BY <2>1
  <2>5. Filter!Written \subseteq Written
    BY <2>1, <2>2, <2>4 DEF Written
  <2>6. Written \subseteq Filter!Written
    BY <2>1, <2>2, <2>3 DEF Written
  <2> QED
    BY <2>5, <2>6
<1> QED
  BY <1>2, <1>3

\* A decision is a decision of the filter.
LEMMA DecideStep ==
  ASSUME IInv, NEW f \in FP, FPDrop(f) \/ FPForward(f)
  PROVE  Filter!Next
<1> DEFINE x == fp[f].job
<1>1. fp[f].pc = "process" /\ UNCHANGED output
  BY DEF FPDrop, FPForward
<1>2. x \in Sent /\ x \in Packet /\ x \in InWork /\ verdict[x] = "none"
  BY <1>1, InHands, Undecided, AtPlaces DEF IInv, Sent
<1>3. PICK v \in {"forward", "drop"} : verdict' = [verdict EXCEPT ![x] = v]
  BY DEF FPDrop, FPForward
<1>4. ASSUME NEW q \in Packet, Precedes(x, q) PROVE verdict[q] = "none"
  <2> SUFFICES ASSUME verdict[q] # "none" PROVE FALSE
    OBVIOUS
  <2>1. q \in Decided /\ q \in Sent
    BY DEF IInv, VerdictsOK, Decided
  <2>2. <<q, x>> \notin Bad
    <3>1. 1 \in DOMAIN Upstream /\ 2 \in DOMAIN Upstream /\ 1 < 2 /\ Chain(Upstream, Bad)
      BY DEF Upstream, IInv, OrderOK
    <3> QED
      BY <1>2, <2>1, <3>1, ByNumber DEF Chain
  <2>3. FPOf(q) = FPOf(x) /\ x < q /\ x \in Nat /\ q \in Nat
    BY <1>2, <1>4, <2>1, SameFlow, Packets DEF Precedes
  <2> QED
    BY <1>2, <2>1, <2>2, <2>3 DEF Bad
<1> HIDE DEF x
<1>5. Filter!Decide(x, v)
  BY <1>1, <1>2, <1>3, <1>4 DEF Filter!Decide
<1> QED
  BY <1>2, <1>3, <1>5 DEF Filter!Next

\* Writing a packet emits it.
LEMMA EmitStep ==
  ASSUME IInv, WriterWrite
  PROVE  Filter!Next
<1> DEFINE x == FrontItem(outq)
<1>1. HasItem(outq) /\ output' = Append(output, x) /\ UNCHANGED verdict
  BY DEF WriterWrite
<1>2. x \in Held(outq) /\ x \in Packet
  BY <1>1, QueueTypes, PopFacts DEF IInv
<1> HIDE DEF x
<1>3. verdict[x] = "forward" /\ x \in Sent
  BY <1>2 DEF IInv, VerdictsOK, Forwarded
<1>4. \A y \in Written : <<y, x>> \notin Bad
  <2>1. 1 \in DOMAIN Downstream /\ 2 \in DOMAIN Downstream /\ 1 < 2 /\ Chain(Downstream, Bad)
    BY DEF Downstream, IInv, OrderOK
  <2> QED
    BY <1>2, <2>1, ByNumber DEF Chain
<1>5. x \notin Written
  BY <1>2, <1>3, <1>4, BadPairs
<1>6. ASSUME NEW q \in Written PROVE ~Precedes(x, q)
  <2>1. q \in Sent /\ q \in Packet
    BY <1>6 DEF IInv, VerdictsOK, Forwarded, Sent
  <2>2. FlowOf(x) = FlowOf(q) => FPOf(q) = FPOf(x)
    BY <1>3, <2>1, SameFlow
  <2>3. x \in Nat /\ q \in Nat
    BY <1>2, <2>1, Packets
  <2>4. <<q, x>> \notin Bad
    BY <1>4, <1>6
  <2> QED
    BY <1>3, <2>1, <2>2, <2>3, <2>4 DEF Bad, Precedes
<1>7. /\ output \in Seq(Packet \cup {Header}) /\ output # <<>> /\ output' # <<>>
      /\ Tail(output') = Append(Tail(output), x)
  <2>1. output \in Seq(Packet \cup {Header}) /\ output # <<>>
    BY DEF IInv, TypeOK, CountOK, PhasesOK, WriterWrite
  <2> QED
    BY <1>1, <1>2, <2>1
<1>8. Filter!Emit(x)
  BY <1>1, <1>3, <1>5, <1>6, <1>7, WrittenByFilter DEF Filter!Emit, IInv
<1> QED
  BY <1>2, <1>8 DEF Filter!Next

\* The engine implements the flow filter, for every number of threads, capacity
\* and hash function: no thread schedule lets a packet have two verdicts, lets
\* packets of a flow overtake each other or writes one that was not forwarded.
THEOREM Implements == Spec => ImplementsFlowFilter
<1>1. Init => Filter!Init
  BY DEF Init, Filter!Init
<1>2. ASSUME IInv, [Next]_vars PROVE [Filter!Next]_Filter!vars
  <2>1. CASE UNCHANGED <<verdict, output>>
    BY <2>1 DEF Filter!vars
  <2>2. CASE StartAll
    <3>1. output = <<>> /\ output' = <<Header>> /\ UNCHANGED verdict
      BY <1>2, <2>2 DEF IInv, PhasesOK, BeforeStart, StartAll
    <3>2. Tail(<<Header>>) = <<>>
      OBVIOUS
    <3> QED
      BY <3>1, <3>2 DEF Filter!vars
  <2>3. ASSUME NEW f \in FP, FPDrop(f) \/ FPForward(f) PROVE Filter!Next
    BY <1>2, <2>3, DecideStep
  <2>4. CASE WriterWrite
    BY <1>2, <2>4, EmitStep
  <2> QED
    BY <1>2, <2>1, <2>2, <2>3, <2>4
    DEF Next, Main, LoadBalancer, FastPath, Writer, FailOpen, ReadSkip, ReadCount,
        Dispatch, EndOfInput, StopLB, JoinLB, StopFP, JoinFP, StopOut, ShutOut, Finish,
        LBCheck, LBTimeout, LBPop, LBPush, FPCheck, FPTimeout, FPPop, FPPush,
        WriterCheck, WriterTimeout, vars, mainVars, queueVars
<1> QED
  BY <1>1, <1>2, Invariant, PTL DEF Spec, ImplementsFlowFilter, Filter!Spec
=============================================================================
