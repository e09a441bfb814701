------------------------------ MODULE DPIEngine ------------------------------
(***************************************************************************)
(* The threads of DPI::DPIEngine (src/dpi_engine.cpp, src/load_balancer.cpp*)
(* and the thread part of src/fast_path.cpp): processFile in the main      *)
(* thread, the PCAP reader, the load balancers, the fast paths and the     *)
(* output writer, connected by bounded queues.                             *)
(*                                                                         *)
(* What a fast path decides about a packet is left open here: either       *)
(* action, for any packet.  The sleeps in processFile are modelled by what *)
(* they guarantee, which is nothing: the main thread may go on with the    *)
(* others at any point of their work.                                      *)
(***************************************************************************)
EXTENDS Integers, Sequences, FiniteSets, QueueOps, Sums

CONSTANTS NumLBs,     \* config.num_load_balancers
          FPsPerLB,   \* config.fps_per_lb
          LBCap,      \* capacity of a load balancer's input queue
          FPCap,      \* capacity of a fast path's input queue
          OutCap,     \* capacity of output_queue_ (10000; config.queue_size is not used)
          Flow,       \* five-tuples
          NoFlow,     \* a packet that does not parse or is not TCP or UDP
          Hash,       \* FiveTupleHash
          Capture,    \* the input file: the flow of each packet
          MaxFiles    \* bound: calls of processFile on the engine

ASSUME EngineAssumption ==
  /\ NumLBs \in Nat \ {0} /\ FPsPerLB \in Nat \ {0}
  /\ LBCap \in Nat /\ FPCap \in Nat /\ OutCap \in Nat
  /\ NoFlow \notin Flow
  /\ Hash \in [Flow -> Nat]
  /\ Capture \in Seq(Flow \cup {NoFlow})
  /\ MaxFiles \in Nat

LB == 0 .. NumLBs - 1
FP == 0 .. NumLBs * FPsPerLB - 1

\* The i-th packet of the f-th file; <<f, 0>> is that file's PCAP header.
Packet    == (1 .. MaxFiles) \X (1 .. Len(Capture))
Header(f) == <<f, 0>>
NoPacket  == <<0, 0>>
FlowOf(p) == Capture[p[2]]

\* Variant: packets are spread by their position in the capture.
LBInTurn(p) == p[2] % NumLBs

\* getLBForPacket and selectFP: the same hash, twice.
LBFor(p) == Hash[FlowOf(p)] % NumLBs
FPFor(l, p) == (l * FPsPerLB) + (Hash[FlowOf(p)] % FPsPerLB)

VARIABLES stage,    \* where processFile is
          turn,     \* the load balancer or fast path being stopped
          file,     \* calls of processFile so far
          running,  \* DPIEngine::running_
          reader,   \* [pc, next]: the reader thread and its position
          lb,       \* [running, pc, job, received, dispatched] per load balancer
          fp,       \* [running, pc, job, processed] per fast path
          writer,   \* the output thread
          lbq, fpq, outq,  \* the queues
          stats,    \* DPIStats: [total, forwarded, dropped]
          verdict,  \* history: what was decided about each packet
          output    \* what each output file holds

mainVars   == <<stage, turn, file, running>>
queueVars  == <<lbq, fpq, outq>>
vars == <<mainVars, reader, lb, fp, writer, queueVars, stats, verdict, output>>

Init ==
  /\ stage = "idle" /\ turn = 0 /\ file = 0 /\ running = FALSE
  /\ reader = [pc |-> "off", next |-> 1]
  /\ lb = [l \in LB |-> [running |-> FALSE, pc |-> "off", job |-> NoPacket,
                         received |-> 0, dispatched |-> 0]]
  /\ fp = [f \in FP |-> [running |-> FALSE, pc |-> "off", job |-> NoPacket,
                         processed |-> 0]]
  /\ writer = "off"
  /\ lbq = [l \in LB |-> NewQueue]
  /\ fpq = [f \in FP |-> NewQueue]
  /\ outq = NewQueue
  /\ stats = [total |-> 0, forwarded |-> 0, dropped |-> 0]
  /\ verdict = [p \in Packet |-> "none"]
  /\ output = [f \in 1 .. MaxFiles |-> <<>>]
-----------------------------------------------------------------------------
(***************************************************************************)
(* The main thread: processFile, start, waitForCompletion and stop.        *)
(***************************************************************************)
\* Variant: the thread is not waited for.
Detached(pc) == TRUE

\* thread_.join() returns once the thread's run has.
Joined(pc) == pc = "exit"

\* Open the output file and start all threads.  The queues are those of the
\* engine: one that was shut down by an earlier stop stays shut down.  When
\* the output file cannot be opened processFile returns with nothing changed.
StartFile ==
  /\ stage = "idle" /\ file < MaxFiles
  /\ stage' = "reading" /\ file' = file + 1 /\ running' = TRUE
  /\ reader' = [pc |-> "open", next |-> 1]
  /\ lb' = [l \in LB |-> [lb[l] EXCEPT !.running = TRUE, !.pc = "check"]]
  /\ fp' = [f \in FP |-> [fp[f] EXCEPT !.running = TRUE, !.pc = "check"]]
  /\ writer' = "check"
  /\ UNCHANGED <<turn, queueVars, stats, verdict, output>>

\* The reader is joined, the sleeps are over, stop is called.
BeginStop ==
  /\ stage = "reading" /\ reader.pc = "done"
  /\ running' = FALSE
  /\ stage' = "stopLB" /\ turn' = 0
  /\ UNCHANGED <<file, reader, lb, fp, writer, queueVars, stats, verdict, output>>

StopLB ==
  /\ stage = "stopLB"
  /\ lb' = [lb EXCEPT ![turn].running = FALSE]
  /\ lbq' = [lbq EXCEPT ![turn] = Shut(@)]
  /\ stage' = "joinLB"
  /\ UNCHANGED <<turn, file, running, reader, fp, writer, fpq, outq, stats, verdict, output>>

JoinLB ==
  /\ stage = "joinLB" /\ Joined(lb[turn].pc)
  /\ \/ turn + 1 \in LB /\ turn' = turn + 1 /\ stage' = "stopLB"
     \/ turn + 1 \notin LB /\ turn' = 0 /\ stage' = "stopFP"
  /\ UNCHANGED <<file, running, reader, lb, fp, writer, queueVars, stats, verdict, output>>

StopFP ==
  /\ stage = "stopFP"
  /\ fp' = [fp EXCEPT ![turn].running = FALSE]
  /\ fpq' = [fpq EXCEPT ![turn] = Shut(@)]
  /\ stage' = "joinFP"
  /\ UNCHANGED <<turn, file, running, reader, lb, writer, lbq, outq, stats, verdict, output>>

JoinFP ==
  /\ stage = "joinFP" /\ Joined(fp[turn].pc)
  /\ \/ turn + 1 \in FP /\ turn' = turn + 1 /\ stage' = "stopFP"
     \/ turn + 1 \notin FP /\ turn' = 0 /\ stage' = "stopOut"
  /\ UNCHANGED <<file, running, reader, lb, fp, writer, queueVars, stats, verdict, output>>

StopOut ==
  /\ stage = "stopOut"
  /\ outq' = Shut(outq)
  /\ stage' = "joinOut"
  /\ UNCHANGED <<turn, file, running, reader, lb, fp, writer, lbq, fpq, stats, verdict, output>>

\* The output file is closed and processFile returns.
FinishFile ==
  /\ stage = "joinOut" /\ Joined(writer)
  /\ stage' = "idle"
  /\ UNCHANGED <<turn, file, running, reader, lb, fp, writer, queueVars, stats, verdict, output>>

Main == \/ StartFile \/ BeginStop \/ StopLB \/ JoinLB
        \/ StopFP \/ JoinFP \/ StopOut \/ FinishFile
-----------------------------------------------------------------------------
(***************************************************************************)
(* The reader thread.                                                      *)
(***************************************************************************)
Current == <<file, reader.next>>

\* Variant: nobody writes the PCAP header.
ReaderOpenBare ==
  /\ reader.pc = "open"
  /\ reader' = [reader EXCEPT !.pc = "read"]
  /\ UNCHANGED <<mainVars, lb, fp, writer, queueVars, stats, verdict, output>>

ReaderOpen ==
  /\ reader.pc = "open"
  /\ \/ /\ reader' = [reader EXCEPT !.pc = "read"]
        /\ output' = [output EXCEPT ![file] = Append(@, Header(file))]
     \/ /\ reader' = [reader EXCEPT !.pc = "done"]   \* the input cannot be opened
        /\ UNCHANGED output
  /\ UNCHANGED <<mainVars, lb, fp, writer, queueVars, stats, verdict>>

ReaderSkip ==
  /\ reader.pc = "read" /\ Current \in Packet /\ FlowOf(Current) = NoFlow
  /\ reader' = [reader EXCEPT !.next = @ + 1]
  /\ UNCHANGED <<mainVars, lb, fp, writer, queueVars, stats, verdict, output>>

ReaderCount ==
  /\ reader.pc = "read" /\ Current \in Packet /\ FlowOf(Current) # NoFlow
  /\ reader' = [reader EXCEPT !.pc = "push"]
  /\ stats' = [stats EXCEPT !.total = @ + 1]
  /\ UNCHANGED <<mainVars, lb, fp, writer, queueVars, verdict, output>>

ReaderPush ==
  /\ reader.pc = "push"
  /\ PushReturns(lbq[LBFor(Current)], LBCap)
  /\ lbq' = [lbq EXCEPT ![LBFor(Current)] = Push(@, Current)]
  /\ reader' = [pc |-> "read", next |-> reader.next + 1]
  /\ UNCHANGED <<mainVars, lb, fp, writer, fpq, outq, stats, verdict, output>>

ReaderEnd ==
  /\ reader.pc = "read" /\ Current \notin Packet
  /\ reader' = [reader EXCEPT !.pc = "done"]
  /\ UNCHANGED <<mainVars, lb, fp, writer, queueVars, stats, verdict, output>>

Reader == ReaderOpen \/ ReaderSkip \/ ReaderCount \/ ReaderPush \/ ReaderEnd
-----------------------------------------------------------------------------
(***************************************************************************)
(* LoadBalancer::run.                                                      *)
(***************************************************************************)
LBCheck(l) ==
  /\ lb[l].pc = "check"
  /\ lb' = [lb EXCEPT ![l].pc = IF lb[l].running THEN "pop" ELSE "exit"]
  /\ UNCHANGED <<mainVars, reader, fp, writer, queueVars, stats, verdict, output>>

\* Variant: a timeout ends the loop.
LBGivesUp(l) ==
  /\ lb[l].pc = "pop" /\ ~HasItem(lbq[l])
  /\ lb' = [lb EXCEPT ![l].pc = "exit"]
  /\ UNCHANGED <<mainVars, reader, fp, writer, queueVars, stats, verdict, output>>

LBTimeout(l) ==
  /\ lb[l].pc = "pop" /\ ~HasItem(lbq[l])
  /\ lb' = [lb EXCEPT ![l].pc = "check"]
  /\ UNCHANGED <<mainVars, reader, fp, writer, queueVars, stats, verdict, output>>

LBPop(l) ==
  /\ lb[l].pc = "pop" /\ HasItem(lbq[l])
  /\ lb' = [lb EXCEPT ![l].pc = "push", ![l].job = FrontItem(lbq[l]),
                      ![l].received = @ + 1]
  /\ lbq' = [lbq EXCEPT ![l] = PopFront(@)]
  /\ UNCHANGED <<mainVars, reader, fp, writer, fpq, outq, stats, verdict, output>>

LBPush(l) ==
  LET f == FPFor(l, lb[l].job) IN
  /\ lb[l].pc = "push"
  /\ PushReturns(fpq[f], FPCap)
  /\ fpq' = [fpq EXCEPT ![f] = Push(@, lb[l].job)]
  /\ lb' = [lb EXCEPT ![l].pc = "check", ![l].job = NoPacket,
                      ![l].dispatched = @ + 1]
  /\ UNCHANGED <<mainVars, reader, fp, writer, lbq, outq, stats, verdict, output>>

LoadBalancer(l) == LBCheck(l) \/ LBTimeout(l) \/ LBPop(l) \/ LBPush(l)
-----------------------------------------------------------------------------
(***************************************************************************)
(* FastPathProcessor::run with DPIEngine::handleOutput, its callback.      *)
(***************************************************************************)
FPCheck(f) ==
  /\ fp[f].pc = "check"
  /\ fp' = [fp EXCEPT ![f].pc = IF fp[f].running THEN "pop" ELSE "exit"]
  /\ UNCHANGED <<mainVars, reader, lb, writer, queueVars, stats, verdict, output>>

FPTimeout(f) ==
  /\ fp[f].pc = "pop" /\ ~HasItem(fpq[f])
  /\ fp' = [fp EXCEPT ![f].pc = "check"]
  /\ UNCHANGED <<mainVars, reader, lb, writer, queueVars, stats, verdict, output>>

FPPop(f) ==
  /\ fp[f].pc = "pop" /\ HasItem(fpq[f])
  /\ fp' = [fp EXCEPT ![f].pc = "process", ![f].job = FrontItem(fpq[f]),
                      ![f].processed = @ + 1]
  /\ fpq' = [fpq EXCEPT ![f] = PopFront(@)]
  /\ UNCHANGED <<mainVars, reader, lb, writer, lbq, outq, stats, verdict, output>>

FPDrop(f) ==
  /\ fp[f].pc = "process"
  /\ verdict' = [verdict EXCEPT ![fp[f].job] = "drop"]
  /\ stats' = [stats EXCEPT !.dropped = @ + 1]
  /\ fp' = [fp EXCEPT ![f].pc = "check", ![f].job = NoPacket]
  /\ UNCHANGED <<mainVars, reader, lb, writer, queueVars, output>>

FPForward(f) ==
  /\ fp[f].pc = "process"
  /\ verdict' = [verdict EXCEPT ![fp[f].job] = "forward"]
  /\ stats' = [stats EXCEPT !.forwarded = @ + 1]
  /\ fp' = [fp EXCEPT ![f].pc = "push"]
  /\ UNCHANGED <<mainVars, reader, lb, writer, queueVars, output>>

FPPush(f) ==
  /\ fp[f].pc = "push"
  /\ PushReturns(outq, OutCap)
  /\ outq' = Push(outq, fp[f].job)
  /\ fp' = [fp EXCEPT ![f].pc = "check", ![f].job = NoPacket]
  /\ UNCHANGED <<mainVars, reader, lb, writer, lbq, fpq, stats, verdict, output>>

FastPath(f) == \/ FPCheck(f) \/ FPTimeout(f) \/ FPPop(f)
               \/ FPDrop(f) \/ FPForward(f) \/ FPPush(f)
-----------------------------------------------------------------------------
(***************************************************************************)
(* outputThreadFunc.                                                       *)
(***************************************************************************)
WriterCheck ==
  /\ writer = "check"
  /\ writer' = IF running \/ HasItem(outq) THEN "pop" ELSE "exit"
  /\ UNCHANGED <<mainVars, reader, lb, fp, queueVars, stats, verdict, output>>

WriterTimeout ==
  /\ writer = "pop" /\ ~HasItem(outq)
  /\ writer' = "check"
  /\ UNCHANGED <<mainVars, reader, lb, fp, queueVars, stats, verdict, output>>

WriterWrite ==
  /\ writer = "pop" /\ HasItem(outq)
  /\ output' = [output EXCEPT ![file] = Append(@, FrontItem(outq))]
  /\ outq' = PopFront(outq)
  /\ writer' = "check"
  /\ UNCHANGED <<mainVars, reader, lb, fp, lbq, fpq, stats, verdict>>

Writer == WriterCheck \/ WriterTimeout \/ WriterWrite

Next == \/ Main
        \/ Reader
        \/ \E l \in LB : LoadBalancer(l)
        \/ \E f \in FP : FastPath(f)
        \/ Writer

Spec == Init /\ [][Next]_vars

(***************************************************************************)
(* Every thread that can take a step does so some time.                    *)
(***************************************************************************)
FairSpec == /\ Spec
            /\ WF_vars(Main) /\ WF_vars(Reader) /\ WF_vars(Writer)
            /\ \A l \in LB : WF_vars(LoadBalancer(l))
            /\ \A f \in FP : WF_vars(FastPath(f))
-----------------------------------------------------------------------------
LBPcs == {"off", "check", "pop", "push", "exit"}
FPPcs == {"off", "check", "pop", "process", "push", "exit"}
Queue == [buf : Seq(Packet), shut : BOOLEAN]

\* The variables have their types, and no queue outgrows its capacity.
TypeOK ==
  /\ stage \in {"idle", "reading", "stopLB", "joinLB", "stopFP", "joinFP",
                "stopOut", "joinOut"}
  /\ turn \in Nat /\ file \in 0 .. MaxFiles /\ running \in BOOLEAN
  /\ reader \in [pc : {"off", "open", "read", "push", "done"},
                 next : 1 .. Len(Capture) + 1]
  /\ lb \in [LB -> [running : BOOLEAN, pc : LBPcs, job : Packet \cup {NoPacket},
                    received : Nat, dispatched : Nat]]
  /\ fp \in [FP -> [running : BOOLEAN, pc : FPPcs, job : Packet \cup {NoPacket},
                    processed : Nat]]
  /\ writer \in {"off", "check", "pop", "exit"}
  /\ lbq \in [LB -> Queue] /\ \A l \in LB : Len(lbq[l].buf) <= LBCap
  /\ fpq \in [FP -> Queue] /\ \A f \in FP : Len(fpq[f].buf) <= FPCap
  /\ outq \in Queue /\ Len(outq.buf) <= OutCap
  /\ stats \in [total : Nat, forwarded : Nat, dropped : Nat]
  /\ verdict \in [Packet -> {"none", "forward", "drop"}]
  /\ output \in [1 .. MaxFiles -> Seq(Packet \cup {Header(f) : f \in 1 .. MaxFiles})]

InSeq(s, p) == \E k \in 1 .. Len(s) : s[k] = p

\* What is on its way to fast path f through load balancer l for the current
\* file, the oldest first, with headers and idle hands.
Path(l, f) ==
  (IF file = 0 THEN <<>> ELSE output[file]) \o outq.buf
  \o <<fp[f].job>> \o fpq[f].buf \o <<lb[l].job>> \o lbq[l].buf

IsOf(p, fl) == p \in Packet /\ FlowOf(p) = fl
Before(p, q) == p[1] < q[1] \/ (p[1] = q[1] /\ p[2] < q[2])

\* The packets of a flow never overtake one another and none is duplicated,
\* anywhere between the reader and the output file, however the threads run:
\* "Consistent hashing ensures same flow always goes to same FP".
FlowOrder ==
  \A fl \in Flow :
    LET l == Hash[fl] % NumLBs
        s == Path(l, (l * FPsPerLB) + (Hash[fl] % FPsPerLB))
    IN  \A i, j \in 1 .. Len(s) :
          i < j /\ IsOf(s[i], fl) /\ IsOf(s[j], fl) => Before(s[i], s[j])

\* The packets of the first file that the reader has sent.
Read == {p \in Packet : p[1] = 1 /\ file = 1 /\ p[2] < reader.next /\ FlowOf(p) # NoFlow}

\* No packet disappears in a queue that has been shut down: stop shuts each
\* queue down only when those who push into it have been joined.  A packet the
\* reader has sent is still on its way, or dropped, or in the output file.
\* This is about the engine's first file; its queues stay shut down for others.
NothingDiscarded ==
  \A p \in Read :
    CASE verdict[p] = "none" ->
           \/ \E l \in LB : InSeq(lbq[l].buf, p) \/ lb[l].job = p
           \/ \E f \in FP : InSeq(fpq[f].buf, p) \/ fp[f].job = p
      [] verdict[p] = "forward" ->
           \/ \E f \in FP : fp[f].job = p
           \/ InSeq(outq.buf, p) \/ InSeq(output[file], p)
      [] OTHER -> TRUE

\* The output file is a PCAP file: its header, written by the reader thread,
\* precedes every packet, written by the output thread.
HeaderFirst ==
  \A f \in 1 .. MaxFiles : output[f] # <<>> => output[f][1] = Header(f)

\* Once processFile has returned for a file, the counters along the pipeline
\* add up to the packets that the sleeps and the timeouts have left behind in
\* the queues: no thread was between a pop and the push that follows.
Group(l) == (l * FPsPerLB) .. (l * FPsPerLB) + FPsPerLB - 1

Arrived        == [l \in LB |-> lb[l].received + Len(lbq[l].buf)]
ArrivedFrom(l) == [f \in Group(l) |-> fp[f].processed + Len(fpq[f].buf)]
Processed      == [f \in FP |-> fp[f].processed]

CountersAgree ==
  stage = "idle" /\ file < 2 =>
    /\ stats.total = SumOf(Arrived)
    /\ \A l \in LB : /\ lb[l].received = lb[l].dispatched
                      /\ lb[l].dispatched = SumOf(ArrivedFrom(l))
    /\ SumOf(Processed) = stats.forwarded + stats.dropped

\* What waitForCompletion promises: it waits for the queues, so that every packet
\* that was read has a verdict when processFile returns.
EveryPacketDecided == stage = "idle" => \A p \in Read : verdict[p] # "none"

\* The reader gets to the end of the input: full queues hold it up, never for
\* good, since every queue has a thread that empties it.
ReaderFinishes == stage = "reading" ~> reader.pc = "done"

\* stop, and with it processFile, returns.
StopReturns == stage # "idle" ~> stage = "idle"

(***************************************************************************)
(* The engine implements the flow filter, whose output has no header, for  *)
(* its first file.                                                         *)
(***************************************************************************)
Precedes(p, q) == FlowOf(p) = FlowOf(q) /\ p[2] < q[2]
Filter == INSTANCE FlowFilter WITH
            output <- IF MaxFiles = 0 \/ output[1] = <<>> THEN <<>>
                      ELSE Tail(output[1])

ImplementsFlowFilter == Filter!Spec
=============================================================================
