------------------------------ MODULE Analyzer ------------------------------
(***************************************************************************)
(* main() and analyze() of src/main.cpp, the program that is built and     *)
(* shipped: the rules are read from files and from the command line, then  *)
(* there is one pass over the packets of a capture, with a table of flows, *)
(* detection of applications and domains, blocking rules, the filtered     *)
(* PCAP and the counters of the report.                                    *)
(*                                                                         *)
(* The user gives rules as [files, cli].  A file is [opens, lines], a line *)
(*   form    "blank" (or a comment), "section", "pair" or "value"          *)
(*   key     of a section or a pair                                        *)
(*   value   of a pair or a value                                          *)
(* and cli is the sequence of pairs [key, value] of the command line, in   *)
(* any order: rules of different kinds do not touch each other.            *)
(*                                                                         *)
(* A packet is a record                                                    *)
(*   kind    "bad" (does not parse), "tcp", "udp", "icmp", "ip" (another   *)
(*           protocol over IPv4) or "eth" (not IPv4)                       *)
(*   tuple   [src, dst, sport, dport, proto], the five-tuple               *)
(*   payload [kind, name]: kind "none", "hello" (a TLS ClientHello), "http"*)
(*           (an HTTP request), "dns" (a DNS query) or "other"; name is    *)
(*           the domain the extractors find in it, Absent or NoName        *)
(* Byte counts, timestamps and indicators are left out.                    *)
(***************************************************************************)
EXTENDS RuleSet, Sums

CONSTANTS Packet,      \* the packets that may occur in a capture
          Domain,      \* names, the empty one not among them
          AppOf,       \* sniToAppType, for each name
          UserRules,   \* the rules the user may have given
          MaxChoices,  \* the values of --max-packets
          CaptureBound, \* bound: the length of a capture
          Absent,      \* no name is found
          NoName       \* an empty one is found; also, nothing detected yet

Generic == {"UNKNOWN", "HTTP", "HTTPS", "TLS", "QUIC", "DNS"}
App     == Generic \cup {AppOf[d] : d \in Domain}
isSpecificApp(app) == app \notin Generic

Transport == {"tcp", "udp"}
Flow == {p.tuple : p \in {q \in Packet : q.kind \in Transport}}

\* What a user may write, and what parser and extractors may find.
Line       == [form : {"blank", "section", "pair", "value"}, key : STRING, value : Text]
File       == [opens : BOOLEAN, lines : Seq(Line)]
CliRule    == [key : STRING, value : Text]
PacketKind == {"bad", "tcp", "udp", "icmp", "ip", "eth"}
Names      == Domain \cup {Absent, NoName}

ASSUME AnalyzerAssumption ==
  /\ NoName \notin Domain /\ Absent \notin Domain /\ Absent # NoName
  /\ Domain \subseteq Text /\ NoName \in Text /\ Pieces[NoName] = <<>>
  /\ \A d \in Domain : AppOf[d] # "UNKNOWN"
  /\ App \cup {"TWITTER"} \subseteq DOMAIN AppAlias
  /\ UserRules \subseteq [files : Seq(File), cli : Seq(CliRule)]
  /\ MaxChoices \subseteq Nat
  /\ \A p \in Packet : p.kind \in PacketKind /\ p.payload.name \in Names
  /\ IsFiniteSet(Flow)
  /\ CaptureBound \in Nat
-----------------------------------------------------------------------------
(***************************************************************************)
(* classifyPacket: what one TCP or UDP packet tells about its application. *)
(***************************************************************************)
NameToApp(d) == IF d = NoName THEN "UNKNOWN" ELSE AppOf[d]

NoMethod == "none"
Method   == {NoMethod, "TLS_SNI", "HTTP_Host", "DNS_query",
             "Port_53", "UDP_443", "Port_443", "Port_80"}

Detection(app, domain, method) == [app |-> app, domain |-> domain, method |-> method]

classifyPacket(p) ==
  LET ports   == {p.tuple.sport, p.tuple.dport}
      named   == p.payload.name # Absent
      sni     == p.kind = "tcp" /\ p.payload.kind = "hello" /\ named
      host    == p.kind = "tcp" /\ p.payload.kind = "http" /\ named
      hostApp == NameToApp(p.payload.name)
      dns     == 53 \in ports /\ p.payload.kind # "none"
      quic    == p.kind = "udp" /\ 443 \in ports
  IN  CASE sni -> Detection(NameToApp(p.payload.name), p.payload.name, "TLS_SNI")
        [] host -> Detection(IF hostApp = "HTTPS" THEN "HTTP" ELSE hostApp,
                             p.payload.name, "HTTP_Host")
        [] dns /\ ~sni /\ ~host ->
             IF p.payload.kind = "dns" /\ named
             THEN Detection("DNS", p.payload.name, "DNS_query")
             ELSE Detection("DNS", NoName, "Port_53")
        [] quic /\ ~dns -> Detection("QUIC", NoName, "UDP_443")
        [] ~sni /\ ~host /\ ~dns /\ ~quic ->
             IF 443 \in ports THEN Detection("HTTPS", NoName, "Port_443")
             ELSE IF 80 \in ports THEN Detection("HTTP", NoName, "Port_80")
             ELSE Detection("UNKNOWN", NoName, NoMethod)

(***************************************************************************)
(* updateFlowClassification: the first domain and the first method stay;   *)
(* the application may still change.                                       *)
(***************************************************************************)
Replaces(new, old) ==
  /\ new # "UNKNOWN"
  /\ \/ old = "UNKNOWN"
     \/ ~isSpecificApp(old) /\ isSpecificApp(new)
     \/ old \in {"HTTP", "HTTPS"} /\ new # old

\* Variant: the last domain stays.
updateWithLastDomain(flow, d) ==
  [flow EXCEPT !.domain = IF d.domain # NoName THEN d.domain ELSE @,
               !.method = IF @ = NoMethod THEN d.method ELSE @,
               !.app = IF Replaces(d.app, @) THEN d.app ELSE @]

updateFlowClassification(flow, d) ==
  [flow EXCEPT !.domain = IF @ = NoName THEN d.domain ELSE @,
               !.method = IF @ = NoMethod THEN d.method ELSE @,
               !.app = IF Replaces(d.app, @) THEN d.app ELSE @]

(***************************************************************************)
(* RuleSet::match: the first rule that matches, in the order source IP,    *)
(* destination IP, port, application, domain.                              *)
(***************************************************************************)
NoReason == <<"none">>

match(rules, p, flow) ==
  IF p.tuple.src \in rules.ips THEN <<"source_IP", p.tuple.src>>
  ELSE IF p.tuple.dst \in rules.ips THEN <<"destination_IP", p.tuple.dst>>
  ELSE IF p.tuple.dport \in rules.ports THEN <<"destination_port", p.tuple.dport>>
  ELSE IF flow.app \in rules.apps THEN <<"application", flow.app>>
  ELSE IF flow.domain # NoName
          /\ \E pattern \in rules.domains : domainMatchesPattern(flow.domain, pattern)
  THEN <<"domain", flow.domain>>
  ELSE NoReason
-----------------------------------------------------------------------------
VARIABLES phase,    \* "rules", "open", "read", "report" or "done"
          given,    \* the rules as the user gave them
          loading,  \* [file, line, section]: the line of a rule file, or after
                    \* the last file the rule of the command line, to be read
          rules,    \* the rules in force
          options,  \* [max, pcap]: --max-packets, and whether a PCAP is written
          capture,  \* history: the packets read and not refused by --max-packets
          flows,    \* the flow table; a record with packets = 0 is not in it
          summary,  \* AnalysisSummary
          pcap,     \* the filtered PCAP: packet numbers, 0 for the header
          status    \* what analyze returned

vars == <<phase, given, loading, rules, options, capture, flows, summary, pcap, status>>

NoSection == "none"

FirstLine(file) == [file |-> file, line |-> 1, section |-> NoSection]

NewFlow == [packets |-> 0, forwarded |-> 0, dropped |-> 0, app |-> "UNKNOWN",
            domain |-> NoName, method |-> NoMethod, blocked |-> FALSE, reason |-> NoReason]

Init ==
  /\ phase = "rules"
  /\ given \in UserRules
  /\ loading = FirstLine(1)
  /\ rules = EmptyRules
  /\ options \in [max : MaxChoices, pcap : BOOLEAN]
  /\ capture = <<>>
  /\ flows = [t \in Flow |-> NewFlow]
  /\ summary = [seen |-> 0, parsed |-> 0, errors |-> 0, ipv4 |-> 0, tcp |-> 0, udp |-> 0,
                icmp |-> 0, other |-> 0, forwarded |-> 0, dropped |-> 0]
  /\ pcap = <<>>
  /\ status = "running"

(***************************************************************************)
(* main: loadRuleFile for each file, then applyCliRules.                   *)
(***************************************************************************)
data == <<given, options, capture, flows, summary, pcap>>

Loading  == phase = "rules" /\ loading.file <= Len(given.files)
Current  == given.files[loading.file]
InFile   == Loading /\ Current.opens /\ loading.line <= Len(Current.lines)
RuleLine == Current.lines[loading.line]
Advance  == loading' = [loading EXCEPT !.line = @ + 1]

RuleError == phase' = "done" /\ status' = "failed" /\ UNCHANGED <<loading, rules, data>>

AddRule(key, value) ==
  IF Accepts(key, value)
  THEN rules' = Add(rules, key, value) /\ Advance /\ UNCHANGED <<phase, status, data>>
  ELSE RuleError

FileMissing == Loading /\ ~Current.opens /\ RuleError

BlankLine ==
  /\ InFile /\ RuleLine.form = "blank"
  /\ Advance
  /\ UNCHANGED <<phase, rules, status, data>>

SectionLine ==
  /\ InFile /\ RuleLine.form = "section"
  /\ loading' = [loading EXCEPT !.line = @ + 1, !.section = RuleLine.key]
  /\ UNCHANGED <<phase, rules, status, data>>

\* A line with a value only has the key of its section.
AddLine ==
  /\ InFile /\ RuleLine.form \in {"pair", "value"}
  /\ AddRule(IF RuleLine.form = "pair" THEN RuleLine.key ELSE loading.section, RuleLine.value)

NextFile ==
  /\ Loading /\ Current.opens /\ loading.line > Len(Current.lines)
  /\ loading' = FirstLine(loading.file + 1)
  /\ UNCHANGED <<phase, rules, status, data>>

InOptions == phase = "rules" /\ loading.file > Len(given.files)

ApplyCliRule ==
  /\ InOptions /\ loading.line <= Len(given.cli)
  /\ AddRule(given.cli[loading.line].key, given.cli[loading.line].value)

RulesLoaded ==
  /\ InOptions /\ loading.line > Len(given.cli)
  /\ phase' = "open"
  /\ UNCHANGED <<loading, rules, status, data>>

LoadRules ==
  FileMissing \/ BlankLine \/ SectionLine \/ AddLine \/ NextFile \/ ApplyCliRule \/ RulesLoaded

(***************************************************************************)
(* analyze.                                                                *)
(***************************************************************************)
\* The input is not a PCAP file, or the output cannot be created.
OpenFails ==
  /\ phase = "open"
  /\ phase' = "done" /\ status' = "failed"
  /\ UNCHANGED <<given, loading, rules, options, capture, flows, summary, pcap>>

Open ==
  /\ phase = "open"
  /\ phase' = "read"
  /\ pcap' = IF options.pcap THEN <<0>> ELSE <<>>
  /\ UNCHANGED <<given, loading, rules, options, capture, flows, summary, status>>

\* Variant: the packet that is one too many is counted.
LimitPassed == options.max > 0 /\ summary.seen > options.max

LimitReached == options.max > 0 /\ summary.seen >= options.max

\* Variant: a dropped packet is written to the PCAP like any other.
AccountAndWrite(p, drop, counts) ==
  /\ capture' = Append(capture, p)
  /\ summary' = IF drop THEN [counts EXCEPT !.dropped = @ + 1]
                        ELSE [counts EXCEPT !.forwarded = @ + 1]
  /\ pcap' = IF options.pcap THEN Append(pcap, counts.seen) ELSE pcap
  /\ UNCHANGED <<phase, given, loading, rules, options, status>>

\* The part of an iteration of the loop that depends on the verdict only.
Account(p, drop, counts) ==
  /\ capture' = Append(capture, p)
  /\ summary' = IF drop THEN [counts EXCEPT !.dropped = @ + 1]
                        ELSE [counts EXCEPT !.forwarded = @ + 1]
  /\ pcap' = IF ~drop /\ options.pcap THEN Append(pcap, counts.seen) ELSE pcap
  /\ UNCHANGED <<phase, given, loading, rules, options, status>>

Seen == [summary EXCEPT !.seen = @ + 1]

\* Variant: packets without a transport are not counted by kind.
ParsedTransport(p) ==
  [Seen EXCEPT
     !.parsed = @ + 1,
     !.tcp   = IF p.kind = "tcp" THEN @ + 1 ELSE @,
     !.udp   = IF p.kind = "udp" THEN @ + 1 ELSE @]

Parsed(p) ==
  [Seen EXCEPT
     !.parsed = @ + 1,
     !.ipv4  = IF p.kind # "eth" THEN @ + 1 ELSE @,
     !.tcp   = IF p.kind = "tcp" THEN @ + 1 ELSE @,
     !.udp   = IF p.kind = "udp" THEN @ + 1 ELSE @,
     !.icmp  = IF p.kind = "icmp" THEN @ + 1 ELSE @,
     !.other = IF p.kind \in {"ip", "eth"} THEN @ + 1 ELSE @]

\* A packet that does not parse is passed on.
BadPacket(p) ==
  /\ p.kind = "bad"
  /\ Account(p, FALSE, [Seen EXCEPT !.errors = @ + 1])
  /\ UNCHANGED flows

\* So is one without TCP or UDP.
OtherPacket(p) ==
  /\ p.kind \in {"icmp", "ip", "eth"}
  /\ Account(p, FALSE, Parsed(p))
  /\ UNCHANGED flows

\* Variant: the reason is recorded and the flag forgotten.
InspectForgets(flow, p) ==
  LET seen   == [updateFlowClassification(flow, classifyPacket(p)) EXCEPT !.packets = @ + 1]
  IN  IF seen.blocked THEN seen ELSE [seen EXCEPT !.reason = match(rules, p, seen)]

\* Variant: the rules see the flow as it was before the packet.
InspectStale(flow, p) ==
  LET seen   == [updateFlowClassification(flow, classifyPacket(p)) EXCEPT !.packets = @ + 1]
      reason == match(rules, p, flow)
  IN  IF seen.blocked \/ reason = NoReason
      THEN seen
      ELSE [seen EXCEPT !.blocked = TRUE, !.reason = reason]

\* Variant: the rules are looked at again for every packet.
InspectAgain(flow, p) ==
  LET seen   == [updateFlowClassification(flow, classifyPacket(p)) EXCEPT !.packets = @ + 1]
      reason == match(rules, p, seen)
  IN  [seen EXCEPT !.blocked = reason # NoReason, !.reason = reason]

\* The flow's record after one of its packets, but for the forward and drop
\* counts.
Inspect(flow, p) ==
  LET seen   == [updateFlowClassification(flow, classifyPacket(p)) EXCEPT !.packets = @ + 1]
      reason == match(rules, p, seen)
  IN  IF seen.blocked \/ reason = NoReason
      THEN seen
      ELSE [seen EXCEPT !.blocked = TRUE, !.reason = reason]

FlowPacket(p) ==
  /\ p.kind \in Transport
  /\ LET flow == Inspect(flows[p.tuple], p) IN
       /\ flows' = [flows EXCEPT ![p.tuple] =
                      IF flow.blocked THEN [flow EXCEPT !.dropped = @ + 1]
                                      ELSE [flow EXCEPT !.forwarded = @ + 1]]
       /\ Account(p, flow.blocked, Parsed(p))

ReadPacket ==
  /\ phase = "read" /\ ~LimitReached /\ Len(capture) < CaptureBound
  /\ \E p \in Packet : BadPacket(p) \/ OtherPacket(p) \/ FlowPacket(p)

\* The capture ends here, or the packet read is the one too many.
EndOfInput ==
  /\ phase = "read"
  /\ phase' = "report"
  /\ UNCHANGED <<given, loading, rules, options, capture, flows, summary, pcap, status>>

\* The reports are written one after the other; a failure of one does not keep
\* the others from being written, and makes analyze return false.
Report ==
  /\ phase = "report"
  /\ phase' = "done"
  /\ status' \in {"ok", "failed"}
  /\ UNCHANGED <<given, loading, rules, options, capture, flows, summary, pcap>>

Next == LoadRules \/ Open \/ OpenFails \/ ReadPacket \/ EndOfInput \/ Report

Spec == Init /\ [][Next]_vars
-----------------------------------------------------------------------------
Reason ==
  {NoReason} \cup ({"source_IP"} \X {t.src : t \in Flow})
    \cup ({"destination_IP"} \X {t.dst : t \in Flow})
    \cup ({"destination_port"} \X {t.dport : t \in Flow})
    \cup ({"application"} \X App) \cup ({"domain"} \X Domain)

FlowRecord == [packets : Nat, forwarded : Nat, dropped : Nat, app : App,
               domain : Domain \cup {NoName}, method : Method,
               blocked : BOOLEAN, reason : Reason]

Rules == [ips : SUBSET Address, ports : SUBSET PortNumber,
          apps : SUBSET DOMAIN AppAlias, domains : SUBSET Text]

Summary == [seen : Nat, parsed : Nat, errors : Nat, ipv4 : Nat, tcp : Nat, udp : Nat,
            icmp : Nat, other : Nat, forwarded : Nat, dropped : Nat]

\* The variables have their types, and a flow has a reason if it is blocked.
TypeOK ==
  /\ phase \in {"rules", "open", "read", "report", "done"}
  /\ given \in UserRules
  /\ loading \in [file : 1 .. Len(given.files) + 1, line : Nat \ {0},
                 section : {NoSection} \cup STRING]
  /\ rules \in Rules
  /\ options \in [max : MaxChoices, pcap : BOOLEAN]
  /\ capture \in Seq(Packet)
  /\ flows \in [Flow -> FlowRecord]
  /\ \A t \in Flow : (flows[t].reason # NoReason) = flows[t].blocked
  /\ summary \in Summary
  /\ pcap \in Seq(Nat)
  /\ status \in {"running", "ok", "failed"}

\* The packets of flow t among the first n.
Mine(t, n) == {k \in 1 .. n : capture[k].kind \in Transport /\ capture[k].tuple = t}
All(t)     == Mine(t, Len(capture))
Found(k)   == classifyPacket(capture[k])

FirstOf(K) == CHOOSE k \in K : \A j \in K : k <= j

\* What flow t is known by after n packets: the first domain detected in it,
\* and the first specific application, if any.
Named(t, n)    == {k \in Mine(t, n) : Found(k).domain # NoName}
Specific(t, n) == {k \in Mine(t, n) : isSpecificApp(Found(k).app)}

FirstDomain(t, n) == IF Named(t, n) = {} THEN NoName ELSE Found(FirstOf(Named(t, n))).domain

\* A flow's record depends on its own packets only, whatever comes in between:
\* its domain is the first one detected in it, its application the first
\* specific one, and as long as there is none, a generic one detected in it.
FlowsMatchHistory ==
  \A t \in Flow :
    /\ flows[t].packets = Cardinality(All(t))
    /\ flows[t].domain = FirstDomain(t, Len(capture))
    /\ IF Specific(t, Len(capture)) # {}
       THEN flows[t].app = Found(FirstOf(Specific(t, Len(capture)))).app
       ELSE flows[t].app \in {"UNKNOWN"} \cup {Found(k).app : k \in All(t)}

(***************************************************************************)
(* The rules as their author means them, without reading them in order.    *)
(***************************************************************************)
SectionAt(lines, i) ==
  LET above == {j \in 1 .. i - 1 : lines[j].form = "section"}
  IN  IF above = {} THEN NoSection ELSE lines[Max(above)].key

GivenIn(lines) ==
  {<<IF lines[i].form = "pair" THEN lines[i].key ELSE SectionAt(lines, i), lines[i].value>> :
     i \in {j \in DOMAIN lines : lines[j].form \in {"pair", "value"}}}

Given == (UNION {GivenIn(file.lines) : file \in ToSet(given.files)})
           \cup {<<c.key, c.value>> : c \in ToSet(given.cli)}

Valued(keys) == {g[2] : g \in {h \in Given : h[1] \in keys}}

\* A pattern stands for the names that have its core somewhere in them: at the
\* start, unless a star or "*." comes before it or there is no star at all, and
\* at the end, unless a star follows.  A star with nothing else left is itself
\* the core.
Stands(pattern, domain) ==
  LET d     == Pieces[domain]
      p     == Pieces[pattern]
      size  == Len(p)
      sub   == size > 2 /\ p[1] = Star /\ p[2] = Dot
      lead  == ~sub /\ size > 1 /\ p[1] = Star
      first == IF sub THEN 3 ELSE IF lead THEN 2 ELSE 1
      trail == ~sub /\ size > first /\ p[size] = Star
      core  == SubSeq(p, first, IF trail THEN size - 1 ELSE size)
  IN  /\ core # <<>>
      /\ \E i \in 0 .. Len(d) : \E j \in i .. Len(d) :
           /\ SubSeq(d, i + 1, j) = core
           /\ i = 0 \/ lead \/ (~trail /\ d[i] = Dot)
           /\ j = Len(d) \/ trail

DomainMeant(domain) == \E pattern \in Valued(DomainKey) : Stands(pattern, domain)
PortMeant(port) == \E v \in Valued(PortKey) : v \in DOMAIN Number /\ Number[v] = port
AppMeant(app) ==
  \/ AppAlias[app] \in Valued(AppKey)
  \/ app = "TWITTER" /\ Valued(AppKey) \cap {"x", "twitter"} # {}

\* The specific application flow t is known by after n packets, and whether one
\* of the user's rules is about the flow then.
AppKnown(t, n) ==
  IF Specific(t, n) = {} THEN "UNKNOWN" ELSE Found(FirstOf(Specific(t, n))).app

RuledOut(t, n) ==
  \/ {t.src, t.dst} \cap Valued(IPKey) # {}
  \/ PortMeant(t.dport)
  \/ isSpecificApp(AppKnown(t, n)) /\ AppMeant(AppKnown(t, n))
  \/ DomainMeant(FirstDomain(t, n))

\* No packet is looked at before every rule the user has given, in whatever file,
\* has been accepted; and once the k-th packet has made a rule apply to a flow,
\* neither it nor a later packet of the flow is forwarded: the application and
\* the domain are looked at after the packet has updated them.
NothingForwardedAfterMatch ==
  /\ capture # <<>> => \A g \in Given : Accepts(g[1], g[2])
  /\ \A t \in Flow : \A k \in All(t) :
       RuledOut(t, k) => flows[t].forwarded <= Cardinality(Mine(t, k - 1))

\* A flow is blocked for a reason the reader of the report can check: a rule
\* that the user has given, about an address or port of the flow, about its
\* domain, or about an application that one of its packets was taken for.
BlockedForAReason ==
  \A t \in Flow : flows[t].blocked =>
    LET r == flows[t].reason IN
      \/ r[1] = "source_IP" /\ r[2] = t.src /\ t.src \in Valued(IPKey)
      \/ r[1] = "destination_IP" /\ r[2] = t.dst /\ t.dst \in Valued(IPKey)
      \/ r[1] = "destination_port" /\ r[2] = t.dport /\ PortMeant(t.dport)
      \/ r[1] = "application" /\ AppMeant(r[2]) /\ \E k \in All(t) : Found(k).app = r[2]
      \/ r[1] = "domain" /\ r[2] = flows[t].domain /\ DomainMeant(r[2])

InPcap(k) == \E i \in 1 .. Len(pcap) : pcap[i] = k

\* The filtered PCAP is the capture without the packets the report counts as
\* dropped: its header, then the forwarded packets in capture order; of a flow,
\* as many as the flow's record says, and none after a dropped one.
PcapMatchesReport ==
  options.pcap /\ phase \in {"read", "report"} =>
    /\ pcap[1] = 0
    /\ \A i, j \in 1 .. Len(pcap) : i < j => pcap[i] < pcap[j]
    /\ Len(pcap) = 1 + summary.forwarded
    /\ \A t \in Flow :
         /\ Cardinality({k \in All(t) : InPcap(k)}) = flows[t].forwarded
         /\ \A j, k \in All(t) : j < k /\ InPcap(k) => InPcap(j)

\* The counters of the report add up, over the capture and over the flows, and
\* account for no packet beyond --max-packets: the one more that is read before
\* the limit is noticed is in no count and in no flow.
TotalsAgree ==
  /\ options.max > 0 => summary.seen <= options.max
  /\ summary.seen = Len(capture)
  /\ summary.seen = summary.forwarded + summary.dropped
  /\ summary.seen = summary.parsed + summary.errors
  /\ summary.parsed = summary.tcp + summary.udp + summary.icmp + summary.other
  /\ summary.tcp + summary.udp = SumOf([t \in Flow |-> flows[t].packets])
  /\ summary.dropped = SumOf([t \in Flow |-> flows[t].dropped])
  /\ \A t \in Flow : flows[t].packets = flows[t].forwarded + flows[t].dropped

\* A step never unblocks a flow, changes the reason, or forwards one more of
\* its packets.
BlockedForGood ==
  [][\A t \in Flow : flows[t].blocked =>
       /\ flows'[t].blocked
       /\ flows'[t].reason = flows[t].reason
       /\ flows'[t].forwarded = flows[t].forwarded]_vars

\* What the documentation says of a domain rule, of any domain detected.
DomainRuleObeyed ==
  \A k \in 1 .. Len(capture) :
    capture[k].kind \in Transport /\ DomainMeant(Found(k).domain) => ~InPcap(k)

\* What the documentation says of an IP rule: a packet from or to the address is
\* dropped, whatever protocol it carries.
IPRuleObeyed ==
  \A k \in 1 .. Len(capture) :
    /\ capture[k].kind \in Transport \cup {"icmp", "ip"}
    /\ {capture[k].tuple.src, capture[k].tuple.dst} \cap Valued(IPKey) # {}
    => ~InPcap(k)
=============================================================================
