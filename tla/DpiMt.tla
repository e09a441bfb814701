-------------------------------- MODULE DpiMt --------------------------------
(***************************************************************************)
(* The engine of src/dpi_mt.cpp (DPI ENGINE v2.0): process reads the       *)
(* capture and dispatches packets in the main thread; load balancers, fast *)
(* paths and an output writer run beside it.  It stops the writer last,    *)
(* after every thread that feeds it.                                       *)
(*                                                                         *)
(* A fast path keeps a flag per flow that stays set once the rules have    *)
(* matched; whether they match is left open for each packet.  The sleep    *)
(* before the stop is modelled by what it guarantees, which is nothing.    *)
(***************************************************************************)
EXTENDS Integers, Sequences, FiniteSets, QueueOps

CONSTANTS NumLBs,    \* config_.num_lbs
          FPsPerLB,  \* config_.fps_per_lb
          Cap,       \* max_size_ of every TSQueue
          Flow,      \* five-tuples
          NoFlow,    \* a packet that does not parse or is not TCP or UDP
          Hash,      \* FiveTupleHash
          Capture    \* the input file: the flow of each packet

ASSUME MtAssumption ==
  /\ NumLBs \in Nat \ {0} /\ FPsPerLB \in Nat \ {0} /\ Cap \in Nat
  /\ NoFlow \notin Flow
  /\ Hash \in [Flow -> Nat]
  /\ Capture \in Seq(Flow \cup {NoFlow})

LB == 0 .. NumLBs - 1
FP == 0 .. NumLBs * FPsPerLB - 1

\* Packets are numbered from 1; 0 stands for the header of the output file
\* there, and for an empty hand elsewhere.
Packet   == 1 .. Len(Capture)
Header   == 0
NoPacket == 0
FlowOf(p) == Capture[p]

\* Variant: a load balancer deals its packets out by their position.
FPInTurn(l, p) == (l * FPsPerLB) + (p % FPsPerLB)

LBFor(p) == Hash[FlowOf(p)] % NumLBs
FPFor(l, p) == (l * FPsPerLB) + (Hash[FlowOf(p)] % FPsPerLB)

VARIABLES stage,    \* where process is
          turn,     \* the load balancer or fast path being stopped
          next,     \* the packet to be read
          lb, fp,   \* [running, pc, job] of each thread
          writer,   \* the output thread
          outputRunning,   \* output_running
          lbq, fpq, outq,  \* the queues
          blocked,  \* per fast path, the flows its flows_ says are blocked
          stats,    \* Stats: [total, forwarded, dropped]
          verdict,  \* history: what was decided about each packet
          output    \* what the output file holds

queueVars == <<lbq, fpq, outq>>
mainVars  == <<stage, turn, next, outputRunning>>
vars == <<mainVars, lb, fp, writer, queueVars, blocked, stats, verdict, output>>

Init ==
  /\ stage = "start" /\ turn = 0 /\ next = 1 /\ outputRunning = FALSE
  /\ lb = [l \in LB |-> [running |-> FALSE, pc |-> "off", job |-> NoPacket]]
  /\ fp = [f \in FP |-> [running |-> FALSE, pc |-> "off", job |-> NoPacket]]
  /\ writer = "off"
  /\ lbq = [l \in LB |-> NewQueue]
  /\ fpq = [f \in FP |-> NewQueue]
  /\ outq = NewQueue
  /\ blocked = [f \in FP |-> {}]
  /\ stats = [total |-> 0, forwarded |-> 0, dropped |-> 0]
  /\ verdict = [p \in Packet |-> "none"]
  /\ output = <<>>
-----------------------------------------------------------------------------
(***************************************************************************)
(* process, in the main thread.                                            *)
(***************************************************************************)
\* Variant: the thread is not waited for.
Detached(pc) == TRUE

\* thread_.join() returns once the thread's run has.
Joined(pc) == pc = "exit"

\* One of the files cannot be opened: process returns false.
FailOpen ==
  /\ stage = "start"
  /\ stage' = "failed"
  /\ UNCHANGED <<turn, next, outputRunning, lb, fp, writer, queueVars, blocked,
                 stats, verdict, output>>

\* The header is written before any thread is started.
StartAll ==
  /\ stage = "start"
  /\ stage' = "read" /\ outputRunning' = TRUE
  /\ output' = <<Header>>
  /\ lb' = [l \in LB |-> [lb[l] EXCEPT !.running = TRUE, !.pc = "check"]]
  /\ fp' = [f \in FP |-> [fp[f] EXCEPT !.running = TRUE, !.pc = "check"]]
  /\ writer' = "check"
  /\ UNCHANGED <<turn, next, queueVars, blocked, stats, verdict>>

ReadSkip ==
  /\ stage = "read" /\ next \in Packet /\ FlowOf(next) = NoFlow
  /\ next' = next + 1
  /\ UNCHANGED <<stage, turn, outputRunning, lb, fp, writer, queueVars, blocked,
                 stats, verdict, output>>

ReadCount ==
  /\ stage = "read" /\ next \in Packet /\ FlowOf(next) # NoFlow
  /\ stats' = [stats EXCEPT !.total = @ + 1]
  /\ stage' = "dispatch"
  /\ UNCHANGED <<turn, next, outputRunning, lb, fp, writer, queueVars, blocked,
                 verdict, output>>

Dispatch ==
  /\ stage = "dispatch"
  /\ PushReturns(lbq[LBFor(next)], Cap)
  /\ lbq' = [lbq EXCEPT ![LBFor(next)] = Push(@, next)]
  /\ next' = next + 1
  /\ stage' = "read"
  /\ UNCHANGED <<turn, outputRunning, lb, fp, writer, fpq, outq, blocked,
                 stats, verdict, output>>

\* The end of the input, and the sleep.
EndOfInput ==
  /\ stage = "read" /\ next \notin Packet
  /\ stage' = "stopLB"
  /\ UNCHANGED <<turn, next, outputRunning, lb, fp, writer, queueVars, blocked,
                 stats, verdict, output>>

StopLB ==
  /\ stage = "stopLB"
  /\ lb' = [lb EXCEPT ![turn].running = FALSE]
  /\ lbq' = [lbq EXCEPT ![turn] = Shut(@)]
  /\ stage' = "joinLB"
  /\ UNCHANGED <<turn, next, outputRunning, fp, writer, fpq, outq, blocked,
                 stats, verdict, output>>

JoinLB ==
  /\ stage = "joinLB" /\ Joined(lb[turn].pc)
  /\ \/ turn + 1 \in LB /\ turn' = turn + 1 /\ stage' = "stopLB"
     \/ turn + 1 \notin LB /\ turn' = 0 /\ stage' = "stopFP"
  /\ UNCHANGED <<next, outputRunning, lb, fp, writer, queueVars, blocked,
                 stats, verdict, output>>

StopFP ==
  /\ stage = "stopFP"
  /\ fp' = [fp EXCEPT ![turn].running = FALSE]
  /\ fpq' = [fpq EXCEPT ![turn] = Shut(@)]
  /\ stage' = "joinFP"
  /\ UNCHANGED <<turn, next, outputRunning, lb, writer, lbq, outq, blocked,
                 stats, verdict, output>>

JoinFP ==
  /\ stage = "joinFP" /\ Joined(fp[turn].pc)
  /\ \/ turn + 1 \in FP /\ turn' = turn + 1 /\ stage' = "stopFP"
     \/ turn + 1 \notin FP /\ turn' = 0 /\ stage' = "stopOut"
  /\ UNCHANGED <<next, outputRunning, lb, fp, writer, queueVars, blocked,
                 stats, verdict, output>>

\* output_running is cleared, and only then the queue shut down.
StopOut ==
  /\ stage = "stopOut"
  /\ outputRunning' = FALSE
  /\ stage' = "shutOut"
  /\ UNCHANGED <<turn, next, lb, fp, writer, queueVars, blocked, stats, verdict, output>>

ShutOut ==
  /\ stage = "shutOut"
  /\ outq' = Shut(outq)
  /\ stage' = "joinOut"
  /\ UNCHANGED <<turn, next, outputRunning, lb, fp, writer, lbq, fpq, blocked,
                 stats, verdict, output>>

\* The file is closed, the report printed, process returns true.
Finish ==
  /\ stage = "joinOut" /\ Joined(writer)
  /\ stage' = "done"
  /\ UNCHANGED <<turn, next, outputRunning, lb, fp, writer, queueVars, blocked,
                 stats, verdict, output>>

Main == \/ FailOpen \/ StartAll \/ ReadSkip \/ ReadCount \/ Dispatch \/ EndOfInput
        \/ StopLB \/ JoinLB \/ StopFP \/ JoinFP \/ StopOut \/ ShutOut \/ Finish
-----------------------------------------------------------------------------
(***************************************************************************)
(* LoadBalancer::run.                                                      *)
(***************************************************************************)
LBCheck(l) ==
  /\ lb[l].pc = "check"
  /\ lb' = [lb EXCEPT ![l].pc = IF lb[l].running THEN "pop" ELSE "exit"]
  /\ UNCHANGED <<mainVars, fp, writer, queueVars, blocked, stats, verdict, output>>

LBTimeout(l) ==
  /\ lb[l].pc = "pop" /\ ~HasItem(lbq[l])
  /\ lb' = [lb EXCEPT ![l].pc = "check"]
  /\ UNCHANGED <<mainVars, fp, writer, queueVars, blocked, stats, verdict, output>>

LBPop(l) ==
  /\ lb[l].pc = "pop" /\ HasItem(lbq[l])
  /\ lb' = [lb EXCEPT ![l].pc = "push", ![l].job = FrontItem(lbq[l])]
  /\ lbq' = [lbq EXCEPT ![l] = PopFront(@)]
  /\ UNCHANGED <<mainVars, fp, writer, fpq, outq, blocked, stats, verdict, output>>

LBPush(l) ==
  LET f == FPFor(l, lb[l].job) IN
  /\ lb[l].pc = "push"
  /\ PushReturns(fpq[f], Cap)
  /\ fpq' = [fpq EXCEPT ![f] = Push(@, lb[l].job)]
  /\ lb' = [lb EXCEPT ![l].pc = "check", ![l].job = NoPacket]
  /\ UNCHANGED <<mainVars, fp, writer, lbq, outq, blocked, stats, verdict, output>>

LoadBalancer(l) == LBCheck(l) \/ LBTimeout(l) \/ LBPop(l) \/ LBPush(l)
-----------------------------------------------------------------------------
(***************************************************************************)
(* FastPath::run.                                                          *)
(***************************************************************************)
FPCheck(f) ==
  /\ fp[f].pc = "check"
  /\ fp' = [fp EXCEPT ![f].pc = IF fp[f].running THEN "pop" ELSE "exit"]
  /\ UNCHANGED <<mainVars, lb, writer, queueVars, blocked, stats, verdict, output>>

FPTimeout(f) ==
  /\ fp[f].pc = "pop" /\ ~HasItem(fpq[f])
  /\ fp' = [fp EXCEPT ![f].pc = "check"]
  /\ UNCHANGED <<mainVars, lb, writer, queueVars, blocked, stats, verdict, output>>

FPPop(f) ==
  /\ fp[f].pc = "pop" /\ HasItem(fpq[f])
  /\ fp' = [fp EXCEPT ![f].pc = "process", ![f].job = FrontItem(fpq[f])]
  /\ fpq' = [fpq EXCEPT ![f] = PopFront(@)]
  /\ UNCHANGED <<mainVars, lb, writer, lbq, outq, blocked, stats, verdict, output>>

\* Variant: the flag of an earlier packet is not looked at.
Forgotten(f, p) == FALSE

\* flow.blocked
Blocked(f, p) == FlowOf(p) \in blocked[f]

\* The flow is blocked already, or the rules match it now.
FPDrop(f) ==
  LET p == fp[f].job IN
  /\ fp[f].pc = "process"
  /\ blocked' = [blocked EXCEPT ![f] = @ \cup {FlowOf(p)}]
  /\ verdict' = [verdict EXCEPT ![p] = "drop"]
  /\ stats' = [stats EXCEPT !.dropped = @ + 1]
  /\ fp' = [fp EXCEPT ![f].pc = "check", ![f].job = NoPacket]
  /\ UNCHANGED <<mainVars, lb, writer, queueVars, output>>

FPForward(f) ==
  LET p == fp[f].job IN
  /\ fp[f].pc = "process"
  /\ ~Blocked(f, p)
  /\ verdict' = [verdict EXCEPT ![p] = "forward"]
  /\ stats' = [stats EXCEPT !.forwarded = @ + 1]
  /\ fp' = [fp EXCEPT ![f].pc = "push"]
  /\ UNCHANGED <<mainVars, lb, writer, queueVars, blocked, output>>

FPPush(f) ==
  /\ fp[f].pc = "push"
  /\ PushReturns(outq, Cap)
  /\ outq' = Push(outq, fp[f].job)
  /\ fp' = [fp EXCEPT ![f].pc = "check", ![f].job = NoPacket]
  /\ UNCHANGED <<mainVars, lb, writer, lbq, fpq, blocked, stats, verdict, output>>

FastPath(f) == \/ FPCheck(f) \/ FPTimeout(f) \/ FPPop(f)
               \/ FPDrop(f) \/ FPForward(f) \/ FPPush(f)
-----------------------------------------------------------------------------
(***************************************************************************)
(* The output thread.                                                      *)
(***************************************************************************)
\* Variant: the writer stops with the flag, whatever is left in the queue.
WriterCheckFlag ==
  /\ writer = "check"
  /\ writer' = IF outputRunning THEN "pop" ELSE "exit"
  /\ UNCHANGED <<mainVars, lb, fp, queueVars, blocked, stats, verdict, output>>

\* Variant: the writer stops when the queue is empty for a moment.
WriterCheckEmpty ==
  /\ writer = "check"
  /\ writer' = IF HasItem(outq) THEN "pop" ELSE "exit"
  /\ UNCHANGED <<mainVars, lb, fp, queueVars, blocked, stats, verdict, output>>

WriterCheck ==
  /\ writer = "check"
  /\ writer' = IF outputRunning \/ HasItem(outq) THEN "pop" ELSE "exit"
  /\ UNCHANGED <<mainVars, lb, fp, queueVars, blocked, stats, verdict, output>>

WriterTimeout ==
  /\ writer = "pop" /\ ~HasItem(outq)
  /\ writer' = "check"
  /\ UNCHANGED <<mainVars, lb, fp, queueVars, blocked, stats, verdict, output>>

WriterWrite ==
  /\ writer = "pop" /\ HasItem(outq)
  /\ output' = Append(output, FrontItem(outq))
  /\ outq' = PopFront(outq)
  /\ writer' = "check"
  /\ UNCHANGED <<mainVars, lb, fp, lbq, fpq, blocked, stats, verdict>>

Writer == WriterCheck \/ WriterTimeout \/ WriterWrite

Next == \/ Main
        \/ \E l \in LB : LoadBalancer(l)
        \/ \E f \in FP : FastPath(f)
        \/ Writer

Spec == Init /\ [][Next]_vars

\* Every thread that can take a step does so some time.
FairSpec == /\ Spec
            /\ WF_vars(Main) /\ WF_vars(Writer)
            /\ \A l \in LB : WF_vars(LoadBalancer(l))
            /\ \A f \in FP : WF_vars(FastPath(f))
-----------------------------------------------------------------------------
Queue == [buf : Seq(Packet), shut : BOOLEAN]

\* The variables have their types, and no queue outgrows its capacity.
TypeOK ==
  /\ stage \in {"start", "failed", "read", "dispatch", "stopLB", "joinLB", "stopFP",
                "joinFP", "stopOut", "shutOut", "joinOut", "done"}
  /\ turn \in Nat /\ next \in 1 .. Len(Capture) + 1 /\ outputRunning \in BOOLEAN
  /\ lb \in [LB -> [running : BOOLEAN, pc : {"off", "check", "pop", "push", "exit"},
                    job : Packet \cup {NoPacket}]]
  /\ fp \in [FP -> [running : BOOLEAN,
                    pc : {"off", "check", "pop", "process", "push", "exit"},
                    job : Packet \cup {NoPacket}]]
  /\ writer \in {"off", "check", "pop", "exit"}
  /\ lbq \in [LB -> Queue] /\ \A l \in LB : Len(lbq[l].buf) <= Cap
  /\ fpq \in [FP -> Queue] /\ \A f \in FP : Len(fpq[f].buf) <= Cap
  /\ outq \in Queue /\ Len(outq.buf) <= Cap
  /\ blocked \in [FP -> SUBSET Flow]
  /\ stats \in [total : Nat, forwarded : Nat, dropped : Nat]
  /\ verdict \in [Packet -> {"none", "forward", "drop"}]
  /\ output \in Seq(Packet \cup {Header})

InSeq(s, p) == \E k \in 1 .. Len(s) : s[k] = p
\* A packet that has been dispatched is still on its way, or dropped, or in
\* the output file: no queue is shut down while somebody pushes into it.
NothingDiscarded ==
  \A p \in {q \in Packet : q < next /\ FlowOf(q) # NoFlow} :
    CASE verdict[p] = "none" ->
           \/ \E l \in LB : InSeq(lbq[l].buf, p) \/ lb[l].job = p
           \/ \E f \in FP : InSeq(fpq[f].buf, p) \/ fp[f].job = p
      [] verdict[p] = "forward" ->
           \/ \E f \in FP : fp[f].job = p
           \/ InSeq(outq.buf, p) \/ InSeq(output, p)
      [] OTHER -> TRUE

\* A blocked flow stays blocked: after a drop, no later packet of the flow is
\* forwarded.  The flag belongs to one fast path, so this needs that all
\* packets of the flow get to that one, in order.
BlockSticks ==
  \A p, q \in Packet :
    p < q /\ FlowOf(p) = FlowOf(q) /\ verdict[p] = "drop" => verdict[q] # "forward"

\* When process has returned, the output file holds what was forwarded, all of
\* it, and the report's count of forwarded packets is the file's.
ForwardedIsWritten ==
  stage = "done" =>
    /\ \A p \in Packet : verdict[p] = "forward" => InSeq(output, p)
    /\ Len(output) = 1 + stats.forwarded

\* What is handed over on the way through the engine arrives, up to the file.
NothingLost == NothingDiscarded /\ ForwardedIsWritten

\* The sleep has let the queues drain: when process has returned, every packet
\* it has read was decided about.
EveryPacketDecided ==
  stage = "done" =>
    \A p \in Packet : FlowOf(p) # NoFlow => verdict[p] # "none"

\* process returns: neither full queues nor the order of the joins can make
\* the threads wait for one another for ever.
ProcessReturns == <>(stage \in {"done", "failed"})

(***************************************************************************)
(* The engine implements the flow filter, whose output has no header.      *)
(***************************************************************************)
Precedes(p, q) == FlowOf(p) = FlowOf(q) /\ p < q
Filter == INSTANCE FlowFilter WITH
            output <- IF output = <<>> THEN <<>> ELSE Tail(output)

ImplementsFlowFilter == Filter!Spec
=============================================================================
