---------------------------- MODULE WorkingEngine ----------------------------
(***************************************************************************)
(* The single-threaded engine, src/main_working.cpp, from file to file:    *)
(* PcapFile, PacketParser and Extractors composed with its flow table, its *)
(* rules and its output.                                                   *)
(*                                                                         *)
(* A capture is [swapped, snaplen, frames, end]: written by a machine of   *)
(* the other byte order or not, what it holds, and whether it ends with    *)
(* its last packet ("whole"), within it ("data") or within its header      *)
(* ("header").                                                             *)
(***************************************************************************)
EXTENDS PcapFile, PacketParser, Extractors

CONSTANTS Capture,     \* the captures
          AppOf,       \* sniToAppType, for each name but the empty one
          RuleChoices  \* the rules: [ips, apps, domains], domains the names in
                       \* which the text of some rule occurs

Frame == UNION {ToSet(c.frames) : c \in Capture}
Name  == DOMAIN AppOf \cup {NoName}

\* What is left of a cut name is a name, and has an application.
ASSUME NameAssumption ==
  /\ LabelSize \in Nat \ {0} /\ Absent \notin Name
  /\ \A n \in DOMAIN AppOf : /\ n \in Seq(STRING) /\ n # NoName /\ AppOf[n] # "UNKNOWN"
                             /\ \A k \in 1 .. Len(n) : SubSeq(n, 1, k) \in DOMAIN AppOf

ASSUME CaptureAssumption ==
  \A c \in Capture :
    /\ c.swapped \in BOOLEAN /\ Fits32(c.snaplen)
    /\ c.frames \in Seq(Frame) /\ c.end \in {"whole", "data", "header"}
    /\ c.end # "whole" => c.frames # <<>>
    /\ c.end = "data" => c.frames[Len(c.frames)].len > 0

\* A method is recognized with the blank behind it, in the first four bytes.
ASSUME FrameAssumption ==
  \A f \in Frame :
    /\ f \in [len : Nat, type : STRING, version : Nat, ihl : Nat, proto : STRING, src : {f.src},
              dst : {f.dst}, sport : Nat, dport : Nat, flags : SUBSET {"SYN", "ACK", "FIN", "RST"},
              doff : Nat, body : {f.body}]
    /\ Fits32(f.len)
    /\ f.body.kind = "tls" =>
         f.body \in [kind : {"tls"}, record : Nat, client : BOOLEAN, sid : Nat, ciphers : Nat,
                     comp : Nat, total : Nat,
                     exts : Seq([server : BOOLEAN, size : Nat, list : Nat, host : BOOLEAN,
                                 name : Name])]
    /\ f.body.kind = "http" =>
         /\ f.body \in [kind : {"http"}, method : BOOLEAN,
                        lines : Seq([lead : Nat, host : BOOLEAN, name : Name, tail : Nat])]
         /\ f.body.method /\ f.body.lines # <<>> => f.body.lines[1].lead >= 4
    /\ f.body.kind = "dns" =>
         f.body \in [kind : {"dns"}, response : BOOLEAN, questions : Nat, name : Name]

\* The file of a capture.
FileHeader(c) ==
  LET w(word) == maybeSwap(c.swapped, word)
  IN  << w(Magic), w(<<2, 0>>), w(<<4, 0>>), Word(0), Word(0), w(Word(c.snaplen)), w(Word(1)) >>

\* A packet as the file has it: a byte short when the file ends within it.
Filed(c, k) ==
  IF c.end = "data" /\ k = Len(c.frames) THEN [c.frames[k] EXCEPT !.len = @ - 1] ELSE c.frames[k]

Record(c, k) ==
  LET w(n) == maybeSwap(c.swapped, Word(n))
  IN  << w(k), w(0), w(c.frames[k].len), w(c.frames[k].len), Filed(c, k) >>

Records(c) ==
  [i \in 1 .. 5 * Len(c.frames) |-> Record(c, (i - 1) \div 5 + 1)[((i - 1) % 5) + 1]]

FileOf(c) ==
  FileHeader(c) \o
    IF c.end = "header" THEN SubSeq(Records(c), 1, 5 * Len(c.frames) - 2) ELSE Records(c)

VARIABLES capture,  \* the input
          rules,    \* the rules
          phase,    \* "open", "read", "done", or "failed" when a file does not open
          reader,   \* the PcapReader
          flows,    \* the flow table
          stats,    \* total, forwarded and dropped packets
          output,   \* the output file
          seen,     \* history: the packets read
          passed    \* history: those forwarded

workingVars == <<capture, rules, phase, reader, flows, stats, output, seen, passed>>

NewFlow == [app |-> "UNKNOWN", sni |-> NoName, packets |-> 0, blocked |-> FALSE]

WorkingInit ==
  /\ capture \in Capture /\ rules \in RuleChoices
  /\ phase = "open" /\ reader = <<>>
  /\ flows = <<>>
  /\ stats = [total |-> 0, forwarded |-> 0, dropped |-> 0]
  /\ output = <<>> /\ seen = <<>> /\ passed = <<>>
-----------------------------------------------------------------------------
(***************************************************************************)
(* What a packet does to its flow.                                         *)
(***************************************************************************)
Tuple(f) == [src |-> f.src, dst |-> f.dst, sport |-> f.sport, dport |-> f.dport,
             proto |-> f.proto]

NameToApp(name) == IF name = NoName THEN "UNKNOWN" ELSE AppOf[name]

Named(flow, name) == [flow EXCEPT !.sni = name, !.app = NameToApp(name)]

TrySNI(flow, f) ==
  LET p    == WorkingPayload(f)
      name == extractSNI(p.body, p.length)
  IN  IF /\ flow.app \in {"UNKNOWN", "HTTPS"} /\ flow.sni = NoName
         /\ hasTCP(f) /\ f.dport = 443 /\ p.length > 5 /\ name # Absent
      THEN Named(flow, name) ELSE flow

TryHost(flow, f) ==
  LET p    == WorkingPayload(f)
      name == extractHost(p.body, p.length)
  IN  IF /\ flow.app \in {"UNKNOWN", "HTTP"} /\ flow.sni = NoName
         /\ hasTCP(f) /\ f.dport = 80 /\ name # Absent
      THEN Named(flow, name) ELSE flow

PortApp(f) ==
  IF 53 \in {f.sport, f.dport} THEN "DNS"
  ELSE IF f.dport = 443 THEN "HTTPS" ELSE IF f.dport = 80 THEN "HTTP" ELSE "UNKNOWN"

ByPort(flow, f) ==
  [flow EXCEPT !.app = IF @ = "UNKNOWN" THEN PortApp(f) ELSE @]

classify(flow, f) == ByPort(TryHost(TrySNI(flow, f), f), f)

isBlocked(src, flow) ==
  src \in rules.ips \/ flow.app \in rules.apps \/ flow.sni \in rules.domains

FlowIn(table, t, new) == IF t \in DOMAIN table THEN table[t] ELSE new

Store(table, t, flow) == [u \in DOMAIN table \cup {t} |-> IF u = t THEN flow ELSE table[u]]
-----------------------------------------------------------------------------
OpenFails ==
  /\ phase = "open" /\ phase' = "failed"
  /\ UNCHANGED <<capture, rules, reader, flows, stats, output, seen, passed>>

Open ==
  /\ phase = "open" /\ Opens(FileOf(capture))
  /\ phase' = "read"
  /\ reader' = open(FileOf(capture))
  /\ output' = CopiedHeader(reader')
  /\ UNCHANGED <<capture, rules, flows, stats, seen, passed>>

Take ==
  /\ phase = "read" /\ HasNext(reader)
  /\ reader' = Advance(reader)
  /\ seen' = Append(seen, NextPacket(reader).data)
  /\ UNCHANGED <<capture, rules, phase>>

\* Variant: they are left out of the total, as in the other engines.
SkipUncounted(p) ==
  /\ ~parse(p.data) \/ ~(hasTCP(p.data) \/ hasUDP(p.data))
  /\ UNCHANGED <<stats, flows, output, passed>>

\* Packets that do not parse, or hold neither TCP nor UDP.
SkipPacket(p) ==
  /\ ~parse(p.data) \/ ~(hasTCP(p.data) \/ hasUDP(p.data))
  /\ stats' = [stats EXCEPT !.total = @ + 1]
  /\ UNCHANGED <<flows, output, passed>>

ProcessPacket(p) ==
  /\ parse(p.data) /\ (hasTCP(p.data) \/ hasUDP(p.data))
  /\ LET t       == Tuple(p.data)
         old     == FlowIn(flows, t, NewFlow)
         flow    == classify([old EXCEPT !.packets = @ + 1], p.data)
         blocked == flow.blocked \/ isBlocked(t.src, flow)
     IN  /\ flows' = Store(flows, t, [flow EXCEPT !.blocked = blocked])
         /\ IF blocked
            THEN /\ stats' = [stats EXCEPT !.total = @ + 1, !.dropped = @ + 1]
                 /\ UNCHANGED <<output, passed>>
            ELSE /\ stats' = [stats EXCEPT !.total = @ + 1, !.forwarded = @ + 1]
                 /\ output' = WriteRecord(output, p)
                 /\ passed' = Append(passed, p)

Finish ==
  /\ phase = "read" /\ ~HasNext(reader)
  /\ phase' = "done"
  /\ UNCHANGED <<capture, rules, reader, flows, stats, output, seen, passed>>
-----------------------------------------------------------------------------
Flow == {Tuple(f) : f \in Frame}

\* The variables have their types, the packets of the flows are those that have
\* got a verdict, and the output holds its header and the forwarded packets.
TypeOK ==
  /\ capture \in Capture /\ rules \in RuleChoices
  /\ phase \in {"open", "read", "done", "failed"}
  /\ DOMAIN flows \subseteq Flow
  /\ \A t \in DOMAIN flows : /\ flows[t].sni \in Name /\ flows[t].packets \in Nat \ {0}
                             /\ flows[t].app = "UNKNOWN" => flows[t].sni = NoName
  /\ stats.total = Len(seen) /\ stats.forwarded = Len(passed)
  /\ stats.forwarded + stats.dropped
       = SumOf([t \in DOMAIN flows |-> flows[t].packets])
  /\ phase \in {"read", "done"} =>
       Len(output) = HeaderSize + (RecordSize + 1) * Len(passed)

\* Reading stops at the first packet that is cut or longer than the snaplen, and
\* not before, whichever machine has written the capture; everything before has
\* been read as it is.
Complete(c) == IF c.end = "whole" THEN Len(c.frames) ELSE Len(c.frames) - 1

Readable(c) ==
  LET fits(k) == c.frames[k].len <= c.snaplen /\ c.frames[k].len <= 65535
  IN  CHOOSE n \in 0 .. Complete(c) :
        (\A k \in 1 .. n : fits(k)) /\ (n = Complete(c) \/ ~fits(n + 1))

ReadsRecords ==
  /\ IsPrefix(seen, SubSeq(capture.frames, 1, Readable(capture)))
  /\ phase = "done" => Len(seen) = Readable(capture)

\* The output, read again by the same program, gives the packets that were
\* forwarded, with their times, when the input was written by a machine of the
\* same byte order, and with the magic number that analyze writes whoever wrote
\* the input.
OutputReread ==
  phase = "done" =>
    /\ ReadAll(NativeHeader(output)) = passed
    /\ ~reader.swap => ReadAll(output) = passed

\* What the programs promise of their output: it is a capture of the packets that
\* were forwarded, whoever wrote the input.
OutputReadable == phase = "done" => ReadAll(output) = passed

\* What the reader promises: it returns false only when there are no more packets.
EveryPacketRead == phase = "done" => Len(seen) = Complete(capture)
=============================================================================
