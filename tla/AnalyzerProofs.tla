---------------------------- MODULE AnalyzerProofs ----------------------------
(***************************************************************************)
(* Theorems about Analyzer, for any rules, any capture and any options:    *)
(* its types, the rules in force, what a record of a flow depends on, when *)
(* and why a flow is blocked and what follows from it, the counters of the *)
(* report and the filtered PCAP; and about RuleSet, what a pattern stands  *)
(* for.                                                                    *)
(***************************************************************************)
EXTENDS Analyzer, SharedTheorems, WellFoundedInduction

LEMMA Appending ==
  ASSUME NEW S, NEW s \in Seq(S), NEW x \in S
  PROVE  /\ Append(s, x) \in Seq(S)
         /\ Len(Append(s, x)) = Len(s) + 1
         /\ Len(s) \in Nat
         /\ \A k \in 1 .. Len(s) : Append(s, x)[k] = s[k]
         /\ Append(s, x)[Len(s) + 1] = x
  BY AppendProperties, LenProperties
-----------------------------------------------------------------------------
(***************************************************************************)
(* Types.                                                                  *)
(***************************************************************************)
\* What a packet tells is an application, a name and a method.
LEMMA Detecting ==
  ASSUME NEW p \in Packet
  PROVE  /\ classifyPacket(p).app \in App
         /\ classifyPacket(p).domain \in Domain \cup {NoName}
         /\ classifyPacket(p).method \in Method
<1> DEFINE name == p.payload.name
<1>1. name \in Domain \cup {Absent, NoName}
  BY AnalyzerAssumption DEF Names
<1>2. name # Absent => name \in Domain \cup {NoName} /\ NameToApp(name) \in App
  BY <1>1 DEF NameToApp, App, Generic
<1>3. {"UNKNOWN", "HTTP", "HTTPS", "DNS", "QUIC"} \subseteq App /\ NoName \in Domain \cup {NoName}
  BY DEF App, Generic
<1>4. \A app \in App, d \in Domain \cup {NoName}, m \in Method :
        /\ Detection(app, d, m).app = app
        /\ Detection(app, d, m).domain = d
        /\ Detection(app, d, m).method = m
  BY DEF Detection
<1> HIDE DEF name
<1> DEFINE Good(r) == r.app \in App /\ r.domain \in Domain \cup {NoName} /\ r.method \in Method
<1>5. \A app \in App, d \in Domain \cup {NoName}, m \in Method : Good(Detection(app, d, m))
  BY <1>4
<1> HIDE DEF Good
<1> DEFINE ports == {p.tuple.sport, p.tuple.dport}
           sni   == p.kind = "tcp" /\ p.payload.kind = "hello" /\ name # Absent
           host  == p.kind = "tcp" /\ p.payload.kind = "http" /\ name # Absent
           dns   == 53 \in ports /\ p.payload.kind # "none"
           quic  == p.kind = "udp" /\ 443 \in ports
           app   == NameToApp(name)
           web   == IF app = "HTTPS" THEN "HTTP" ELSE app
           whole == dns /\ p.payload.kind = "dns" /\ name # Absent
           port  == IF 443 \in ports THEN Detection("HTTPS", NoName, "Port_443")
                    ELSE IF 80 \in ports THEN Detection("HTTP", NoName, "Port_80")
                    ELSE Detection("UNKNOWN", NoName, NoMethod)
<1>6. Method = {NoMethod, "TLS_SNI", "HTTP_Host", "DNS_query", "Port_53", "UDP_443", "Port_443", "Port_80"}
  BY DEF Method
<1>7. ~(sni /\ host) /\ ~(sni /\ quic) /\ ~(host /\ quic)
  OBVIOUS
<1>8. classifyPacket(p) =
        IF sni THEN Detection(app, name, "TLS_SNI")
        ELSE IF host THEN Detection(web, name, "HTTP_Host")
        ELSE IF whole THEN Detection("DNS", name, "DNS_query")
        ELSE IF dns THEN Detection("DNS", NoName, "Port_53")
        ELSE IF quic THEN Detection("QUIC", NoName, "UDP_443")
        ELSE port
  <2> DEFINE other == ~sni /\ ~host /\ ~dns /\ ~quic
             named == IF p.payload.kind = "dns" /\ name # Absent
                      THEN Detection("DNS", name, "DNS_query")
                      ELSE Detection("DNS", NoName, "Port_53")
  <2>1. classifyPacket(p) =
          CASE sni -> Detection(app, name, "TLS_SNI")
            [] host -> Detection(web, name, "HTTP_Host")
            [] dns /\ ~sni /\ ~host -> named
            [] quic /\ ~dns -> Detection("QUIC", NoName, "UDP_443")
            [] other -> port
    BY DEF classifyPacket, name
  <2>2. dns => named = IF whole THEN Detection("DNS", name, "DNS_query")
                       ELSE Detection("DNS", NoName, "Port_53")
    OBVIOUS
  <2>3. whole => dns
    OBVIOUS
  <2> HIDE DEF sni, host, dns, quic, named, port, whole, app, web
  <2>4. CASE sni
    BY <1>7, <2>1, <2>4
  <2>5. CASE host
    BY <1>7, <2>1, <2>5
  <2>6. CASE ~sni /\ ~host /\ dns
    BY <1>7, <2>1, <2>2, <2>6
  <2>7. CASE ~sni /\ ~host /\ ~dns /\ quic
    BY <1>7, <2>1, <2>3, <2>7
  <2>8. CASE other
    BY <1>7, <2>1, <2>3, <2>8
  <2> QED
    BY <2>4, <2>5, <2>6, <2>7, <2>8
<1>9. app \in App \/ name = Absent
  BY <1>2
<1>10. web \in App \/ name = Absent
  BY <1>3, <1>9
<1> HIDE DEF app, web
<1>11. Good(port)
  BY <1>3, <1>5, <1>6
<1> HIDE DEF port
<1>12. sni => Good(Detection(app, name, "TLS_SNI"))
  BY <1>2, <1>5, <1>6, <1>9
<1>13. host => Good(Detection(web, name, "HTTP_Host"))
  BY <1>2, <1>5, <1>6, <1>10
<1>14. whole => Good(Detection("DNS", name, "DNS_query"))
  BY <1>2, <1>3, <1>5, <1>6
<1>15. Good(Detection("DNS", NoName, "Port_53")) /\ Good(Detection("QUIC", NoName, "UDP_443"))
  BY <1>3, <1>5, <1>6
<1> HIDE DEF sni, host, whole, dns, quic
<1>16. Good(classifyPacket(p))
  BY <1>8, <1>11, <1>12, <1>13, <1>14, <1>15
<1> QED
  BY <1>16 DEF Good

\* Why a rule matches.
LEMMA Matching ==
  ASSUME NEW p \in Packet, p.kind \in Transport, NEW flow,
         flow.app \in App, flow.domain \in Domain \cup {NoName}
  PROVE  match(rules, p, flow) \in Reason
<1>1. p.tuple \in Flow
  BY DEF Flow
<1>2. /\ p.tuple.src \in {t.src : t \in Flow} /\ p.tuple.dst \in {t.dst : t \in Flow}
      /\ p.tuple.dport \in {t.dport : t \in Flow}
  BY <1>1
<1> QED
  BY <1>2 DEF match, Reason

\* The record of a flow after one of its packets.
LEMMA Updating ==
  ASSUME NEW flow \in FlowRecord, NEW p \in Packet
  PROVE  LET seen == [updateFlowClassification(flow, classifyPacket(p)) EXCEPT !.packets = @ + 1] IN
         /\ seen \in FlowRecord
         /\ seen.packets = flow.packets + 1
         /\ seen.forwarded = flow.forwarded /\ seen.dropped = flow.dropped
         /\ seen.blocked = flow.blocked /\ seen.reason = flow.reason
         /\ seen.domain = IF flow.domain = NoName THEN classifyPacket(p).domain ELSE flow.domain
         /\ seen.app = IF Replaces(classifyPacket(p).app, flow.app)
                       THEN classifyPacket(p).app ELSE flow.app
<1> DEFINE d == classifyPacket(p)
           seen == [updateFlowClassification(flow, d) EXCEPT !.packets = @ + 1]
<1>1. d.app \in App /\ d.domain \in Domain \cup {NoName} /\ d.method \in Method
  BY Detecting
<1> HIDE DEF d
<1> DEFINE domain == IF flow.domain = NoName THEN d.domain ELSE flow.domain
           method == IF flow.method = NoMethod THEN d.method ELSE flow.method
           app == IF Replaces(d.app, flow.app) THEN d.app ELSE flow.app
           up == updateFlowClassification(flow, d)
<1>2. up = [flow EXCEPT !.domain = domain, !.method = method, !.app = app]
  BY DEF updateFlowClassification
<1>3. domain \in Domain \cup {NoName} /\ method \in Method /\ app \in App
  BY <1>1 DEF FlowRecord
<1> HIDE DEF domain, method, app, up
<1>4. /\ up \in FlowRecord
      /\ up.packets = flow.packets
      /\ up.forwarded = flow.forwarded /\ up.dropped = flow.dropped
      /\ up.blocked = flow.blocked /\ up.reason = flow.reason
      /\ up.domain = domain /\ up.app = app
  BY <1>2, <1>3 DEF FlowRecord
<1>5. seen = [up EXCEPT !.packets = @ + 1]
  BY DEF up
<1> HIDE DEF seen
<1>6. /\ seen \in FlowRecord
      /\ seen.packets = flow.packets + 1
      /\ seen.forwarded = flow.forwarded /\ seen.dropped = flow.dropped
      /\ seen.blocked = flow.blocked /\ seen.reason = flow.reason
      /\ seen.domain = domain /\ seen.app = app
  BY <1>4, <1>5 DEF FlowRecord
<1> QED
  BY <1>6 DEF domain, app, seen, d

LEMMA Inspecting ==
  ASSUME NEW flow \in FlowRecord, NEW p \in Packet, p.kind \in Transport,
         (flow.reason # NoReason) = flow.blocked
  PROVE  /\ Inspect(flow, p) \in FlowRecord
         /\ Inspect(flow, p).packets = flow.packets + 1
         /\ Inspect(flow, p).forwarded = flow.forwarded
         /\ Inspect(flow, p).dropped = flow.dropped
         /\ (Inspect(flow, p).reason # NoReason) = Inspect(flow, p).blocked
         /\ flow.blocked => /\ Inspect(flow, p).blocked
                            /\ Inspect(flow, p).reason = flow.reason
         /\ Inspect(flow, p).domain =
              IF flow.domain = NoName THEN classifyPacket(p).domain ELSE flow.domain
         /\ Inspect(flow, p).app = IF Replaces(classifyPacket(p).app, flow.app)
                                   THEN classifyPacket(p).app ELSE flow.app
<1> DEFINE seen == [updateFlowClassification(flow, classifyPacket(p)) EXCEPT !.packets = @ + 1]
           reason == match(rules, p, seen)
<1>1. /\ seen \in FlowRecord
      /\ seen.packets = flow.packets + 1
      /\ seen.forwarded = flow.forwarded /\ seen.dropped = flow.dropped
      /\ seen.blocked = flow.blocked /\ seen.reason = flow.reason
      /\ seen.domain = IF flow.domain = NoName THEN classifyPacket(p).domain ELSE flow.domain
      /\ seen.app = IF Replaces(classifyPacket(p).app, flow.app)
                    THEN classifyPacket(p).app ELSE flow.app
  BY Updating
<1>2. Inspect(flow, p) = IF seen.blocked \/ reason = NoReason
                         THEN seen
                         ELSE [seen EXCEPT !.blocked = TRUE, !.reason = reason]
  BY DEF Inspect
<1> HIDE DEF seen
<1>3. reason \in Reason
  BY <1>1, Matching DEF FlowRecord
<1> HIDE DEF reason
<1>4. CASE seen.blocked \/ reason = NoReason
  BY <1>1, <1>2, <1>4
<1>5. CASE ~(seen.blocked \/ reason = NoReason)
  <2>1. Inspect(flow, p) = [seen EXCEPT !.blocked = TRUE, !.reason = reason]
    BY <1>2, <1>5
  <2>2. /\ Inspect(flow, p) \in FlowRecord
        /\ Inspect(flow, p).packets = seen.packets
        /\ Inspect(flow, p).forwarded = seen.forwarded
        /\ Inspect(flow, p).dropped = seen.dropped
        /\ Inspect(flow, p).domain = seen.domain
        /\ Inspect(flow, p).app = seen.app
        /\ Inspect(flow, p).blocked = TRUE /\ Inspect(flow, p).reason = reason
    BY <1>1, <1>3, <2>1 DEF FlowRecord
  <2> QED
    BY <1>1, <1>5, <2>2
<1> QED
  BY <1>4, <1>5

\* What a rule that is accepted adds.
LEMMA Adding ==
  ASSUME rules \in Rules, NEW key, NEW value \in Text, Accepts(key, value)
  PROVE  Add(rules, key, value) \in Rules
<1> DEFINE ips     == IF key \in IPKey THEN rules.ips \cup {value} ELSE rules.ips
           apps    == IF key \in AppKey THEN rules.apps \cup {appFromString(value)} ELSE rules.apps
           domains == IF key \in DomainKey THEN rules.domains \cup {value} ELSE rules.domains
           ports   == IF key \in PortKey THEN rules.ports \cup {Number[value]} ELSE rules.ports
<1>1. Add(rules, key, value) =
        [rules EXCEPT !.ips = ips, !.apps = apps, !.domains = domains, !.ports = ports]
  BY DEF Add
<1>2. /\ rules.ips \subseteq Address /\ rules.ports \subseteq PortNumber
      /\ rules.apps \subseteq DOMAIN AppAlias /\ rules.domains \subseteq Text
  BY DEF Rules
<1>3. appFromString(value) \in DOMAIN AppAlias
  <2>1. "TWITTER" \in DOMAIN AppAlias /\ "UNKNOWN" \in DOMAIN AppAlias
    BY AnalyzerAssumption DEF App, Generic
  <2> QED
    BY <2>1 DEF appFromString
<1>4. key \in IPKey => value \in Address
  BY DEF Accepts, IPKey, AppKey, DomainKey, PortKey
<1>5. key \in PortKey => Number[value] \in PortNumber
  BY DEF Accepts, IPKey, AppKey, DomainKey, PortKey
<1>6. /\ ips \in SUBSET Address /\ ports \in SUBSET PortNumber
      /\ apps \in SUBSET DOMAIN AppAlias /\ domains \in SUBSET Text
  BY <1>2, <1>3, <1>4, <1>5
<1> HIDE DEF ips, apps, domains, ports
<1> QED
  BY <1>1, <1>6 DEF Rules

\* The rule that a line or an option stands for.
LEMMA Written ==
  ASSUME given \in UserRules
  PROVE  /\ Len(given.files) \in Nat /\ Len(given.cli) \in Nat
         /\ \A i \in 1 .. Len(given.files) :
              /\ Len(given.files[i].lines) \in Nat
              /\ \A j \in 1 .. Len(given.files[i].lines) : given.files[i].lines[j] \in Line
         /\ \A i \in 1 .. Len(given.cli) : given.cli[i] \in CliRule
<1>1. given.files \in Seq(File) /\ given.cli \in Seq(CliRule)
  BY AnalyzerAssumption
<1>2. /\ Len(given.files) \in Nat /\ \A i \in 1 .. Len(given.files) : given.files[i] \in File
      /\ Len(given.cli) \in Nat /\ \A i \in 1 .. Len(given.cli) : given.cli[i] \in CliRule
  BY <1>1, LenProperties, ElementOfSeq
<1>3. \A file \in File : /\ Len(file.lines) \in Nat
                         /\ \A j \in 1 .. Len(file.lines) : file.lines[j] \in Line
  BY LenProperties, ElementOfSeq DEF File
<1> QED
  BY <1>2, <1>3

LEMMA TypeInit == Init => TypeOK
<1> SUFFICES ASSUME Init PROVE TypeOK
  OBVIOUS
<1>1. loading \in [file : 1 .. Len(given.files) + 1, line : Nat \ {0},
                   section : {NoSection} \cup STRING]
  <2>1. Len(given.files) \in Nat
    BY Written DEF Init
  <2> QED
    BY <2>1 DEF Init, FirstLine
<1>2. rules \in Rules
  BY DEF Init, EmptyRules, Rules
<1>3. NewFlow \in FlowRecord /\ NewFlow.reason = NoReason /\ NewFlow.blocked = FALSE
  BY DEF NewFlow, FlowRecord, App, Generic, Method, Reason
<1>4. flows \in [Flow -> FlowRecord] /\ \A t \in Flow : (flows[t].reason # NoReason) = flows[t].blocked
  BY <1>3 DEF Init
<1>5. summary \in Summary
  BY DEF Init, Summary
<1>6. capture \in Seq(Packet) /\ pcap \in Seq(Nat)
  BY EmptySeq DEF Init
<1> QED
  BY <1>1, <1>2, <1>4, <1>5, <1>6 DEF Init, TypeOK

\* What an iteration of the loop writes.
LEMMA Accounting ==
  ASSUME TypeOK, NEW p \in Packet, NEW drop \in BOOLEAN, NEW counts \in Summary,
         Account(p, drop, counts)
  PROVE  /\ capture' \in Seq(Packet) /\ summary' \in Summary /\ pcap' \in Seq(Nat)
         /\ UNCHANGED <<phase, given, loading, rules, options, status>>
<1>1. capture' \in Seq(Packet)
  BY Appending DEF Account, TypeOK
<1>2. summary' \in Summary
  <2>1. [counts EXCEPT !.dropped = @ + 1] \in Summary
    BY DEF Summary
  <2>2. [counts EXCEPT !.forwarded = @ + 1] \in Summary
    BY DEF Summary
  <2> QED
    BY <2>1, <2>2 DEF Account
<1>3. pcap' \in Seq(Nat)
  <2>1. counts.seen \in Nat
    BY DEF Summary
  <2> QED
    BY <2>1, Appending DEF Account, TypeOK
<1> QED
  BY <1>1, <1>2, <1>3 DEF Account

LEMMA Counting ==
  ASSUME TypeOK, NEW p \in Packet
  PROVE  /\ [Seen EXCEPT !.errors = @ + 1] \in Summary
         /\ Parsed(p) \in Summary
<1>1. summary \in Summary
  BY DEF TypeOK
<1>2. Seen \in Summary
  BY <1>1 DEF Seen, Summary
<1>3. [Seen EXCEPT !.errors = @ + 1] \in Summary
  <2> HIDE DEF Seen
  <2> QED
    BY <1>2 DEF Summary
<1>4. Parsed(p) \in Summary
  <2> DEFINE s == Seen
             parsed == s.parsed + 1
             ipv4  == IF p.kind # "eth" THEN s.ipv4 + 1 ELSE s.ipv4
             tcp   == IF p.kind = "tcp" THEN s.tcp + 1 ELSE s.tcp
             udp   == IF p.kind = "udp" THEN s.udp + 1 ELSE s.udp
             icmp  == IF p.kind = "icmp" THEN s.icmp + 1 ELSE s.icmp
             other == IF p.kind \in {"ip", "eth"} THEN s.other + 1 ELSE s.other
  <2>1. Parsed(p) = [s EXCEPT !.parsed = parsed, !.ipv4 = ipv4, !.tcp = tcp, !.udp = udp,
                              !.icmp = icmp, !.other = other]
    BY DEF Parsed
  <2>2. s \in Summary
    BY <1>2
  <2> HIDE DEF s
  <2>3. parsed \in Nat /\ ipv4 \in Nat /\ tcp \in Nat /\ udp \in Nat /\ icmp \in Nat /\ other \in Nat
    BY <2>2 DEF Summary
  <2> HIDE DEF parsed, ipv4, tcp, udp, icmp, other
  <2> DEFINE s1 == [s EXCEPT !.parsed = parsed, !.ipv4 = ipv4]
             s2 == [s1 EXCEPT !.tcp = tcp, !.udp = udp]
             s3 == [s2 EXCEPT !.icmp = icmp, !.other = other]
  <2>4. Parsed(p) = s3
    BY <2>1
  <2>5. s1 \in Summary
    BY <2>2, <2>3 DEF Summary
  <2> HIDE DEF s1
  <2>6. s2 \in Summary
    BY <2>3, <2>5 DEF Summary
  <2> HIDE DEF s2
  <2>7. s3 \in Summary
    BY <2>3, <2>6 DEF Summary
  <2> QED
    BY <2>4, <2>7
<1> QED
  BY <1>3, <1>4

LEMMA Bumping ==
  ASSUME NEW flow \in FlowRecord
  PROVE  /\ [flow EXCEPT !.dropped = @ + 1] \in FlowRecord
         /\ [flow EXCEPT !.forwarded = @ + 1] \in FlowRecord
         /\ flow.blocked \in BOOLEAN
  BY DEF FlowRecord

\* What a packet of a flow does to the table of flows.
LEMMA Tabling ==
  ASSUME TypeOK, NEW p \in Packet, FlowPacket(p)
  PROVE  /\ p.tuple \in Flow
         /\ Inspect(flows[p.tuple], p) \in FlowRecord
         /\ Inspect(flows[p.tuple], p).blocked \in BOOLEAN
         /\ flows' \in [Flow -> FlowRecord]
         /\ \A t \in Flow : (flows'[t].reason # NoReason) = flows'[t].blocked
         /\ \A t \in Flow \ {p.tuple} : flows'[t] = flows[t]
         /\ LET flow == flows[p.tuple]
                new  == flows'[p.tuple]
                seen == Inspect(flow, p)
            IN  /\ new.packets = flow.packets + 1
                /\ new.app = seen.app /\ new.domain = seen.domain
                /\ new.blocked = seen.blocked /\ new.reason = seen.reason
                /\ flow.blocked => new.blocked /\ new.reason = flow.reason
                /\ ~new.blocked => new.forwarded = flow.forwarded + 1 /\ new.dropped = flow.dropped
                /\ new.blocked => new.forwarded = flow.forwarded /\ new.dropped = flow.dropped + 1
         /\ Account(p, flows'[p.tuple].blocked, Parsed(p))
<1> DEFINE t == p.tuple
           old == flows[t]
           flow == Inspect(old, p)
           new == IF flow.blocked THEN [flow EXCEPT !.dropped = @ + 1]
                                  ELSE [flow EXCEPT !.forwarded = @ + 1]
<1>1. /\ p.kind \in Transport /\ flows' = [flows EXCEPT ![t] = new]
      /\ Account(p, flow.blocked, Parsed(p))
  BY DEF FlowPacket
<1>2. t \in Flow
  BY <1>1 DEF Flow
<1>3. /\ flows \in [Flow -> FlowRecord] /\ old \in FlowRecord
      /\ (old.reason # NoReason) = old.blocked
  BY <1>2 DEF TypeOK
<1> HIDE DEF old
<1>4. /\ flow \in FlowRecord /\ (flow.reason # NoReason) = flow.blocked
      /\ flow.packets = old.packets + 1
      /\ flow.forwarded = old.forwarded /\ flow.dropped = old.dropped
      /\ old.blocked => flow.blocked /\ flow.reason = old.reason
  BY <1>1, <1>3, Inspecting
<1> HIDE DEF t, flow
<1>5. new \in FlowRecord /\ flow.blocked \in BOOLEAN
  BY <1>4, Bumping
<1>6. CASE flow.blocked
  <2>1. new = [flow EXCEPT !.dropped = @ + 1]
    BY <1>6
  <2> HIDE DEF new
  <2>2. /\ new.packets = flow.packets /\ new.forwarded = flow.forwarded
        /\ new.dropped = flow.dropped + 1
        /\ new.app = flow.app /\ new.domain = flow.domain
        /\ new.blocked = flow.blocked /\ new.reason = flow.reason
    BY <1>4, <2>1 DEF FlowRecord
  <2>3. flows'[t] = new /\ \A s \in Flow \ {t} : flows'[s] = flows[s]
    BY <1>1, <1>2, <1>3
  <2>4. flows' \in [Flow -> FlowRecord]
    BY <1>1, <1>3, <1>5
  <2>5. \A s \in Flow : (flows'[s].reason # NoReason) = flows'[s].blocked
    <3>1. \A s \in Flow : (flows[s].reason # NoReason) = flows[s].blocked
      BY DEF TypeOK
    <3>2. (new.reason # NoReason) = new.blocked
      BY <1>4, <2>2
    <3> QED
      BY <2>3, <3>1, <3>2
  <2> QED
    BY <1>1, <1>2, <1>4, <1>5, <1>6, <2>2, <2>3, <2>4, <2>5 DEF t, flow, old
<1>7. CASE ~flow.blocked
  <2>1. new = [flow EXCEPT !.forwarded = @ + 1]
    BY <1>7
  <2> HIDE DEF new
  <2>2. /\ new.packets = flow.packets /\ new.dropped = flow.dropped
        /\ new.forwarded = flow.forwarded + 1
        /\ new.app = flow.app /\ new.domain = flow.domain
        /\ new.blocked = flow.blocked /\ new.reason = flow.reason
    BY <1>4, <2>1 DEF FlowRecord
  <2>3. flows'[t] = new /\ \A s \in Flow \ {t} : flows'[s] = flows[s]
    BY <1>1, <1>2, <1>3
  <2>4. flows' \in [Flow -> FlowRecord]
    BY <1>1, <1>3, <1>5
  <2>5. \A s \in Flow : (flows'[s].reason # NoReason) = flows'[s].blocked
    <3>1. \A s \in Flow : (flows[s].reason # NoReason) = flows[s].blocked
      BY DEF TypeOK
    <3>2. (new.reason # NoReason) = new.blocked
      BY <1>4, <2>2
    <3> QED
      BY <2>3, <3>1, <3>2
  <2> QED
    BY <1>1, <1>2, <1>4, <1>5, <1>7, <2>2, <2>3, <2>4, <2>5 DEF t, flow, old
<1> QED
  BY <1>6, <1>7

LEMMA TypeStep == TypeOK /\ [Next]_vars => TypeOK'
<1> SUFFICES ASSUME TypeOK, [Next]_vars PROVE TypeOK'
  OBVIOUS
<1> USE DEF TypeOK
<1> DEFINE Position == [file : 1 .. Len(given.files) + 1, line : Nat \ {0},
                        section : {NoSection} \cup STRING]
<1>l. /\ loading.file \in 1 .. Len(given.files) + 1 /\ loading.line \in Nat \ {0}
      /\ loading.section \in {NoSection} \cup STRING /\ Len(given.files) \in Nat
  BY Written
<1>a. [loading EXCEPT !.line = @ + 1] \in Position
  BY <1>l
<1>f. InFile => RuleLine \in Line
  BY <1>l, Written DEF InFile, Loading, RuleLine, Current
<1>1. ASSUME NEW key, NEW value \in Text, AddRule(key, value) PROVE TypeOK'
  BY <1>1, <1>a, Adding DEF AddRule, Advance, RuleError, data
<1>2. CASE FileMissing
  BY <1>2 DEF FileMissing, RuleError, data
<1>3. CASE BlankLine
  BY <1>3, <1>a DEF BlankLine, Advance, data
<1>4. CASE SectionLine
  <2>1. RuleLine.key \in STRING
    BY <1>4, <1>f DEF SectionLine, Line
  <2> DEFINE key == RuleLine.key
  <2>2. loading' = [loading EXCEPT !.line = @ + 1, !.section = key]
    BY <1>4 DEF SectionLine
  <2> HIDE DEF key
  <2>3. key \in STRING
    BY <2>1 DEF key
  <2>4. loading' \in Position
    <3>1. loading \in Position /\ loading.line + 1 \in Nat \ {0} /\ key \in {NoSection} \cup STRING
      BY <1>l, <2>3
    <3> QED
      BY <2>2, <3>1
  <2> QED
    BY <1>4, <2>4 DEF SectionLine, data
<1>5. CASE AddLine
  <2>1. RuleLine.value \in Text
    BY <1>5, <1>f DEF AddLine, Line
  <2> QED
    BY <1>1, <1>5, <2>1 DEF AddLine
<1>6. CASE NextFile
  <2>1. loading.file + 1 \in 1 .. Len(given.files) + 1
    BY <1>6, <1>l DEF NextFile, Loading
  <2>2. loading' \in Position
    BY <1>6, <2>1 DEF NextFile, FirstLine
  <2> QED
    BY <1>6, <2>2 DEF NextFile, data
<1>7. CASE ApplyCliRule
  <2>1. given.cli[loading.line] \in CliRule
    BY <1>7, <1>l, Written DEF ApplyCliRule
  <2>2. given.cli[loading.line].value \in Text
    BY <2>1 DEF CliRule
  <2> QED
    BY <1>1, <1>7, <2>2 DEF ApplyCliRule
<1>8. CASE RulesLoaded
  BY <1>8 DEF RulesLoaded, data
<1>9. CASE Open
  <2>1. pcap' \in Seq(Nat)
    BY <1>9 DEF Open
  <2> QED
    BY <1>9, <2>1 DEF Open
<1>10. CASE OpenFails
  BY <1>10 DEF OpenFails
<1>11. ASSUME NEW p \in Packet, BadPacket(p) PROVE TypeOK'
  <2>1. Account(p, FALSE, [Seen EXCEPT !.errors = @ + 1]) /\ UNCHANGED flows
    BY <1>11 DEF BadPacket
  <2> QED
    BY <2>1, Counting, Accounting
<1>12. ASSUME NEW p \in Packet, OtherPacket(p) PROVE TypeOK'
  <2>1. Account(p, FALSE, Parsed(p)) /\ UNCHANGED flows
    BY <1>12 DEF OtherPacket
  <2> QED
    BY <2>1, Counting, Accounting
<1>13. ASSUME NEW p \in Packet, FlowPacket(p) PROVE TypeOK'
  <2>1. flows'[p.tuple].blocked \in BOOLEAN
    BY <1>13, Tabling
  <2> QED
    BY <1>13, <2>1, Tabling, Counting, Accounting
<1>14. CASE EndOfInput
  BY <1>14 DEF EndOfInput
<1>15. CASE Report
  BY <1>15 DEF Report
<1>16. CASE UNCHANGED vars
  BY <1>16 DEF vars
<1> QED
  BY <1>2, <1>3, <1>4, <1>5, <1>6, <1>7, <1>8, <1>9, <1>10, <1>11, <1>12, <1>13,
     <1>14, <1>15, <1>16
  DEF Next, LoadRules, ReadPacket

\* Every variable keeps its type; in particular the rules in force are addresses,
\* known applications, port numbers and patterns, whatever the user gave, and a
\* flow has a reason if and only if it is blocked.
THEOREM TypeCorrect == Spec => []TypeOK
  BY TypeInit, TypeStep, PTL DEF Spec

-----------------------------------------------------------------------------
(***************************************************************************)
(* Steps.  All but the loop of analyze leaves the flows alone.             *)
(***************************************************************************)
ReadsPacket(p) == BadPacket(p) \/ OtherPacket(p) \/ FlowPacket(p)

LEMMA Steps ==
  ASSUME TypeOK, [Next]_vars
  PROVE  \/ /\ UNCHANGED <<capture, flows, summary, options, given>>
            /\ phase' \in {"read", "report"} =>
                 \/ phase = "open" /\ phase' = "read" /\ pcap' = IF options.pcap THEN <<0>> ELSE <<>>
                 \/ phase \in {"read", "report"} /\ pcap' = pcap
            /\ phase' \in {"rules", "open"} => phase \in {"rules", "open"}
         \/ /\ phase = "read" /\ ~LimitReached /\ UNCHANGED <<phase, options, given, rules>>
            /\ \E p \in Packet : ReadsPacket(p)
<1>1. ASSUME LoadRules
      PROVE  /\ UNCHANGED <<capture, flows, summary, options, given>>
             /\ phase' \in {"rules", "open", "done"} /\ phase = "rules"
  BY <1>1 DEF TypeOK, LoadRules, FileMissing, BlankLine, SectionLine, AddLine, NextFile, ApplyCliRule,
     RulesLoaded, AddRule, RuleError, Loading, InFile, InOptions, data
<1>2. CASE Open
  BY <1>2 DEF Open
<1>3. CASE OpenFails
  BY <1>3 DEF OpenFails
<1>4. CASE ReadPacket
  BY <1>4 DEF ReadPacket, ReadsPacket, BadPacket, OtherPacket, FlowPacket, Account
<1>5. CASE EndOfInput
  BY <1>5 DEF EndOfInput
<1>6. CASE Report
  BY <1>6 DEF Report
<1>7. CASE UNCHANGED vars
  BY <1>7 DEF vars, TypeOK
<1> QED
  BY <1>1, <1>2, <1>3, <1>4, <1>5, <1>6, <1>7 DEF Next

\* What a packet does to the counters, to the capture and to the PCAP.
LEMMA Reading ==
  ASSUME TypeOK, NEW p \in Packet, ReadsPacket(p)
  PROVE  /\ Len(capture) \in Nat /\ summary \in Summary
         /\ capture' = Append(capture, p)
         /\ summary'.seen = summary.seen + 1
         /\ p.kind \in Transport => FlowPacket(p) /\ flows'[p.tuple].blocked \in BOOLEAN
         /\ p.kind \notin Transport => UNCHANGED flows
         /\ LET drop == p.kind \in Transport /\ flows'[p.tuple].blocked IN
            /\ summary'.forwarded = IF drop THEN summary.forwarded ELSE summary.forwarded + 1
            /\ summary'.dropped = IF drop THEN summary.dropped + 1 ELSE summary.dropped
            /\ pcap' = IF ~drop /\ options.pcap THEN Append(pcap, summary'.seen) ELSE pcap
<1>s. summary \in Summary /\ Len(capture) \in Nat
  BY LenProperties DEF TypeOK
<1>p. /\ [Seen EXCEPT !.errors = @ + 1] \in Summary /\ Parsed(p) \in Summary
      /\ [Seen EXCEPT !.errors = @ + 1].seen = summary.seen + 1
      /\ [Seen EXCEPT !.errors = @ + 1].forwarded = summary.forwarded
      /\ [Seen EXCEPT !.errors = @ + 1].dropped = summary.dropped
      /\ Parsed(p).seen = summary.seen + 1
      /\ Parsed(p).forwarded = summary.forwarded
      /\ Parsed(p).dropped = summary.dropped
  <2>1. /\ Seen \in Summary /\ Seen.seen = summary.seen + 1
        /\ Seen.forwarded = summary.forwarded /\ Seen.dropped = summary.dropped
    <3>1. summary.seen \in Nat
      BY <1>s DEF Summary
    <3>2. summary.seen + 1 \in Nat
      BY <3>1
    <3> DEFINE n == summary.seen + 1
    <3>3. n \in Nat /\ Seen = [summary EXCEPT !.seen = n]
      BY <3>2 DEF Seen
    <3> HIDE DEF n
    <3>4. Seen \in Summary
      BY <1>s, <3>3 DEF Summary
    <3>5. Seen.seen = n /\ Seen.forwarded = summary.forwarded /\ Seen.dropped = summary.dropped
      BY <1>s, <3>3 DEF Summary
    <3> QED
      BY <3>4, <3>5 DEF n
  <2>2. /\ [Seen EXCEPT !.errors = @ + 1].seen = Seen.seen
        /\ [Seen EXCEPT !.errors = @ + 1].forwarded = Seen.forwarded
        /\ [Seen EXCEPT !.errors = @ + 1].dropped = Seen.dropped
    BY <2>1 DEF Summary
  <2>3. /\ Parsed(p).seen = Seen.seen
        /\ Parsed(p).forwarded = Seen.forwarded
        /\ Parsed(p).dropped = Seen.dropped
    BY <2>1 DEF Parsed, Summary
  <2> QED
    BY <2>1, <2>2, <2>3, Counting
<1>1. ASSUME NEW drop \in BOOLEAN, NEW counts \in Summary, Account(p, drop, counts),
             counts.seen = summary.seen + 1, counts.forwarded = summary.forwarded,
             counts.dropped = summary.dropped
      PROVE  /\ capture' = Append(capture, p)
             /\ summary'.seen = summary.seen + 1
             /\ summary'.forwarded = IF drop THEN summary.forwarded ELSE summary.forwarded + 1
             /\ summary'.dropped = IF drop THEN summary.dropped + 1 ELSE summary.dropped
             /\ pcap' = IF ~drop /\ options.pcap THEN Append(pcap, summary'.seen) ELSE pcap
  BY <1>1 DEF Account, Summary
<1>2. CASE BadPacket(p)
  <2>1. /\ p.kind \notin Transport /\ UNCHANGED flows
        /\ Account(p, FALSE, [Seen EXCEPT !.errors = @ + 1])
    BY <1>2 DEF BadPacket, Transport
  <2> QED
    BY <1>1, <1>p, <1>s, <2>1
<1>3. CASE OtherPacket(p)
  <2>1. /\ p.kind \notin Transport /\ UNCHANGED flows /\ Account(p, FALSE, Parsed(p))
    BY <1>3 DEF OtherPacket, Transport
  <2> QED
    BY <1>1, <1>p, <1>s, <2>1
<1>4. CASE FlowPacket(p)
  <2>1. /\ p.kind \in Transport /\ flows'[p.tuple].blocked \in BOOLEAN
        /\ Account(p, flows'[p.tuple].blocked, Parsed(p))
    BY <1>4, Tabling DEF FlowPacket
  <2> QED
    BY <1>1, <1>4, <1>p, <1>s, <2>1
<1> QED
  BY <1>2, <1>3, <1>4 DEF ReadsPacket
-----------------------------------------------------------------------------
(***************************************************************************)
(* Blocked flows.                                                          *)
(***************************************************************************)
LEMMA BlockedStep ==
  ASSUME TypeOK, [Next]_vars, NEW t \in Flow, flows[t].blocked
  PROVE  /\ flows'[t].blocked
         /\ flows'[t].reason = flows[t].reason
         /\ flows'[t].forwarded = flows[t].forwarded
<1>1. CASE UNCHANGED flows
  BY <1>1
<1>2. ASSUME NEW p \in Packet, FlowPacket(p)
      PROVE  /\ flows'[t].blocked
             /\ flows'[t].reason = flows[t].reason
             /\ flows'[t].forwarded = flows[t].forwarded
  <2>1. CASE t = p.tuple
    BY <1>2, <2>1, Tabling
  <2>2. CASE t # p.tuple
    BY <1>2, <2>2, Tabling
  <2> QED
    BY <2>1, <2>2
<1> QED
  BY <1>1, <1>2, Steps, Reading

\* Once a rule has made analyze block a flow, the flow stays blocked, for the
\* same reason, and none of its packets is forwarded any more.
THEOREM BlockedStays == Spec => BlockedForGood
<1>1. TypeOK /\ [Next]_vars =>
        [\A t \in Flow : flows[t].blocked =>
           /\ flows'[t].blocked
           /\ flows'[t].reason = flows[t].reason
           /\ flows'[t].forwarded = flows[t].forwarded]_vars
  BY BlockedStep
<1> QED
  BY <1>1, TypeCorrect, PTL DEF Spec, BlockedForGood
-----------------------------------------------------------------------------
(***************************************************************************)
(* Counters.                                                               *)
(***************************************************************************)
\* How a packet that is not a bad one is counted.
LEMMA CountedAs ==
  ASSUME summary \in Summary, NEW p \in Packet, p.kind # "bad"
  PROVE  LET c == Parsed(p) IN
         /\ c.parsed = summary.parsed + 1 /\ c.errors = summary.errors
         /\ p.kind \in Transport => /\ c.tcp + c.udp = summary.tcp + summary.udp + 1
                                    /\ c.icmp = summary.icmp /\ c.other = summary.other
         /\ p.kind \notin Transport => /\ c.tcp = summary.tcp /\ c.udp = summary.udp
                                       /\ c.icmp + c.other = summary.icmp + summary.other + 1
<1> DEFINE c == Parsed(p)
<1>1. p.kind \in {"tcp", "udp", "icmp", "ip", "eth"}
  BY AnalyzerAssumption DEF PacketKind
<1>2. /\ summary.tcp \in Nat /\ summary.udp \in Nat /\ summary.icmp \in Nat /\ summary.other \in Nat
      /\ summary.parsed \in Nat
  BY DEF Summary
<1>3. /\ c.parsed = summary.parsed + 1 /\ c.errors = summary.errors
      /\ c.tcp = IF p.kind = "tcp" THEN summary.tcp + 1 ELSE summary.tcp
      /\ c.udp = IF p.kind = "udp" THEN summary.udp + 1 ELSE summary.udp
      /\ c.icmp = IF p.kind = "icmp" THEN summary.icmp + 1 ELSE summary.icmp
      /\ c.other = IF p.kind \in {"ip", "eth"} THEN summary.other + 1 ELSE summary.other
  BY DEF Parsed, Seen, Summary
<1> HIDE DEF c
<1>4. p.kind \in Transport => /\ c.tcp + c.udp = summary.tcp + summary.udp + 1
                             /\ c.icmp = summary.icmp /\ c.other = summary.other
  BY <1>1, <1>2, <1>3 DEF Transport
<1>5. p.kind \notin Transport => /\ c.tcp = summary.tcp /\ c.udp = summary.udp
                                /\ c.icmp + c.other = summary.icmp + summary.other + 1
  BY <1>1, <1>2, <1>3 DEF Transport
<1> QED
  BY <1>3, <1>4, <1>5 DEF c

LEMMA TotalsInit == Init => TotalsAgree
<1> SUFFICES ASSUME Init PROVE TotalsAgree
  OBVIOUS
<1>1. /\ SumOf([t \in Flow |-> flows[t].packets]) = 0
      /\ SumOf([t \in Flow |-> flows[t].dropped]) = 0
      /\ \A t \in Flow : flows[t].packets = 0 /\ flows[t].forwarded = 0 /\ flows[t].dropped = 0
  <2> DEFINE a == [t \in Flow |-> flows[t].packets]
             b == [t \in Flow |-> flows[t].dropped]
  <2>1. \A t \in Flow : flows[t].packets = 0 /\ flows[t].forwarded = 0 /\ flows[t].dropped = 0
    BY DEF Init, NewFlow
  <2>2. DOMAIN a = Flow /\ DOMAIN b = Flow /\ \A t \in Flow : a[t] = 0 /\ b[t] = 0
    BY <2>1
  <2> HIDE DEF a, b
  <2>3. SumOf(a) = 0 /\ SumOf(b) = 0
    BY <2>2, SumZero
  <2> QED
    BY <2>1, <2>3 DEF a, b
<1>2. Len(capture) = 0
  BY EmptySeq DEF Init
<1>3. options.max \in Nat
  BY AnalyzerAssumption DEF Init
<1> QED
  BY <1>1, <1>2, <1>3 DEF Init, TotalsAgree

LEMMA TotalsStep == TypeOK /\ TotalsAgree /\ [Next]_vars => TotalsAgree'
<1> SUFFICES ASSUME TypeOK, TotalsAgree, [Next]_vars PROVE TotalsAgree'
  OBVIOUS
<1>1. CASE UNCHANGED <<capture, flows, summary, options>>
  BY <1>1 DEF TotalsAgree
<1>2. ASSUME NEW p \in Packet, ReadsPacket(p), ~LimitReached, UNCHANGED options
      PROVE  TotalsAgree'
  <2> DEFINE packets == [t \in Flow |-> flows[t].packets]
             dropped == [t \in Flow |-> flows[t].dropped]
             drop    == p.kind \in Transport /\ flows'[p.tuple].blocked
  <2>1. /\ packets \in [Flow -> Nat] /\ dropped \in [Flow -> Nat] /\ IsFiniteSet(Flow)
        /\ \A t \in Flow : /\ flows[t].packets \in Nat /\ flows[t].dropped \in Nat
                            /\ flows[t].forwarded \in Nat
    BY AnalyzerAssumption DEF TypeOK, FlowRecord
  <2>2. /\ DOMAIN packets = Flow /\ DOMAIN dropped = Flow
        /\ DOMAIN packets' = Flow /\ DOMAIN dropped' = Flow
        /\ packets' = [t \in Flow |-> packets'[t]] /\ dropped' = [t \in Flow |-> dropped'[t]]
        /\ \A t \in Flow : /\ packets[t] = flows[t].packets /\ dropped[t] = flows[t].dropped
                            /\ packets'[t] = flows'[t].packets /\ dropped'[t] = flows'[t].dropped
    OBVIOUS
  <2>3. /\ summary.seen = Len(capture)
        /\ summary.seen = summary.forwarded + summary.dropped
        /\ summary.seen = summary.parsed + summary.errors
        /\ summary.parsed = summary.tcp + summary.udp + summary.icmp + summary.other
        /\ summary.tcp + summary.udp = SumOf(packets)
        /\ summary.dropped = SumOf(dropped)
        /\ \A t \in Flow : flows[t].packets = flows[t].forwarded + flows[t].dropped
    BY DEF TotalsAgree
  <2>0. options'.max > 0 => summary'.seen <= options'.max
    <3>1. summary'.seen = summary.seen + 1 /\ summary.seen \in Nat /\ options.max \in Nat
      BY <1>2, Reading, AnalyzerAssumption DEF TypeOK, Summary
    <3> QED
      BY <1>2, <3>1 DEF LimitReached
  <2> SUFFICES /\ summary'.seen = Len(capture')
               /\ summary'.seen = summary'.forwarded + summary'.dropped
               /\ summary'.seen = summary'.parsed + summary'.errors
               /\ summary'.parsed = summary'.tcp + summary'.udp + summary'.icmp + summary'.other
               /\ summary'.tcp + summary'.udp = SumOf(packets')
               /\ summary'.dropped = SumOf(dropped')
               /\ \A t \in Flow : flows'[t].packets = flows'[t].forwarded + flows'[t].dropped
    BY <2>0 DEF TotalsAgree
  <2> HIDE DEF packets, dropped
  <2>4. Len(capture') = Len(capture) + 1 /\ Len(capture) \in Nat /\ summary'.seen = summary.seen + 1
    BY <1>2, Reading, Appending DEF TypeOK
  <2>5. /\ summary'.forwarded = IF drop THEN summary.forwarded ELSE summary.forwarded + 1
        /\ summary'.dropped = IF drop THEN summary.dropped + 1 ELSE summary.dropped
        /\ p.kind \in Transport => flows'[p.tuple].blocked \in BOOLEAN
    BY <1>2, Reading
  <2>6. /\ summary.forwarded \in Nat /\ summary.dropped \in Nat /\ summary.parsed \in Nat
        /\ summary.errors \in Nat /\ summary.tcp \in Nat /\ summary.udp \in Nat
        /\ summary.icmp \in Nat /\ summary.other \in Nat /\ summary \in Summary
        /\ summary.seen \in Nat
    BY DEF TypeOK, Summary
  <2>7. summary'.seen = summary'.forwarded + summary'.dropped
    <3> HIDE DEF drop
    <3> DEFINE fwd == summary.forwarded
               dropped0 == summary.dropped
    <3>1. fwd \in Nat /\ dropped0 \in Nat /\ summary.seen = fwd + dropped0
      BY <2>3, <2>6
    <3>2. \/ summary'.forwarded = fwd + 1 /\ summary'.dropped = dropped0
          \/ summary'.forwarded = fwd /\ summary'.dropped = dropped0 + 1
      BY <2>5
    <3>3. summary'.seen = summary.seen + 1
      BY <2>4
    <3> HIDE DEF fwd, dropped0
    <3> QED
      BY <3>1, <3>2, <3>3
  <2>8. CASE p.kind = "bad"
    <3>1. /\ UNCHANGED flows
          /\ summary' = [[Seen EXCEPT !.errors = @ + 1] EXCEPT !.forwarded = @ + 1]
      BY <1>2, <2>8 DEF ReadsPacket, BadPacket, OtherPacket, FlowPacket, Transport, Account
    <3>2. /\ summary'.errors = summary.errors + 1 /\ summary'.parsed = summary.parsed
          /\ summary'.tcp = summary.tcp /\ summary'.udp = summary.udp
          /\ summary'.icmp = summary.icmp /\ summary'.other = summary.other
          /\ summary'.dropped = summary.dropped
      BY <2>6, <3>1 DEF Seen, Summary
    <3>3. SumOf(packets') = SumOf(packets) /\ SumOf(dropped') = SumOf(dropped)
      BY <3>1 DEF packets, dropped
    <3>4. \A t \in Flow : flows'[t].packets = flows'[t].forwarded + flows'[t].dropped
      BY <2>3, <3>1
    <3>5. summary'.seen = summary'.parsed + summary'.errors
      BY <2>3, <2>4, <2>6, <3>2
    <3>6. summary'.parsed = summary'.tcp + summary'.udp + summary'.icmp + summary'.other
      BY <2>3, <3>2
    <3>7. summary'.tcp + summary'.udp = SumOf(packets') /\ summary'.dropped = SumOf(dropped')
      BY <2>3, <3>2, <3>3
    <3> QED
      BY <2>3, <2>4, <2>7, <3>4, <3>5, <3>6, <3>7
  <2>9. ASSUME p.kind # "bad"
        PROVE  /\ summary'.parsed = Parsed(p).parsed /\ summary'.errors = Parsed(p).errors
               /\ summary'.tcp = Parsed(p).tcp /\ summary'.udp = Parsed(p).udp
               /\ summary'.icmp = Parsed(p).icmp /\ summary'.other = Parsed(p).other
               /\ summary'.parsed \in Nat /\ summary'.errors \in Nat /\ summary'.tcp \in Nat
               /\ summary'.udp \in Nat /\ summary'.icmp \in Nat /\ summary'.other \in Nat
    <3>1. Parsed(p) \in Summary
      BY Counting
    <3>2. PICK c \in BOOLEAN : Account(p, c, Parsed(p))
      BY <1>2, <2>9, Tabling DEF ReadsPacket, BadPacket, OtherPacket
    <3>3. \/ summary' = [Parsed(p) EXCEPT !.dropped = @ + 1]
          \/ summary' = [Parsed(p) EXCEPT !.forwarded = @ + 1]
      BY <3>2 DEF Account
    <3> QED
      BY <3>1, <3>3 DEF Summary
  <2>10. CASE p.kind \notin Transport /\ p.kind # "bad"
    <3>1. UNCHANGED flows
      BY <1>2, <2>10, Reading
    <3>2. SumOf(packets') = SumOf(packets) /\ SumOf(dropped') = SumOf(dropped)
      BY <3>1 DEF packets, dropped
    <3>3. \A t \in Flow : flows'[t].packets = flows'[t].forwarded + flows'[t].dropped
      BY <2>3, <3>1
    <3>4. /\ summary'.parsed = summary.parsed + 1 /\ summary'.errors = summary.errors
          /\ summary'.tcp = summary.tcp /\ summary'.udp = summary.udp
          /\ summary'.icmp + summary'.other = summary.icmp + summary.other + 1
      BY <2>6, <2>9, <2>10, CountedAs
    <3>5. summary'.icmp \in Nat /\ summary'.other \in Nat /\ summary'.dropped = summary.dropped
      BY <2>5, <2>9, <2>10
    <3>6. summary'.seen = summary'.parsed + summary'.errors
      <4>1. summary.seen = summary.parsed + summary.errors /\ summary'.seen = summary.seen + 1
        BY <2>3, <2>4
      <4>2. (summary.parsed + summary.errors) + 1 = (summary.parsed + 1) + summary.errors
        BY <2>6
      <4> QED
        BY <3>4, <4>1, <4>2
    <3>7. summary'.parsed = summary'.tcp + summary'.udp + summary'.icmp + summary'.other
      <4>1. summary.parsed = (summary.tcp + summary.udp) + (summary.icmp + summary.other)
        BY <2>3, <2>6
      <4>2. summary'.parsed = (summary'.tcp + summary'.udp) + (summary'.icmp + summary'.other)
        BY <2>6, <3>4, <4>1
      <4>3. summary'.tcp \in Nat /\ summary'.udp \in Nat
        BY <2>6, <3>4
      <4> QED
        BY <3>5, <4>2, <4>3
    <3>8. summary'.tcp + summary'.udp = SumOf(packets') /\ summary'.dropped = SumOf(dropped')
      BY <2>3, <3>2, <3>4, <3>5
    <3> QED
      BY <2>3, <2>4, <2>7, <3>3, <3>6, <3>7, <3>8
  <2>11. CASE p.kind \in Transport
    <3> DEFINE u == p.tuple
    <3>1. p.kind # "bad" /\ FlowPacket(p)
      BY <1>2, <2>11, Reading DEF Transport
    <3>2. /\ u \in Flow /\ \A t \in Flow \ {u} : flows'[t] = flows[t]
          /\ flows'[u].packets = flows[u].packets + 1
          /\ ~flows'[u].blocked => /\ flows'[u].forwarded = flows[u].forwarded + 1
                                   /\ flows'[u].dropped = flows[u].dropped
          /\ flows'[u].blocked => /\ flows'[u].forwarded = flows[u].forwarded
                                  /\ flows'[u].dropped = flows[u].dropped + 1
      BY <3>1, Tabling
    <3>3. drop = flows'[u].blocked
      BY <2>5, <2>11
    <3> HIDE DEF u, drop
    <3>4. SumOf(packets') = SumOf(packets) + 1 /\ SumOf(packets) \in Nat
      <4>1. packets'[u] = packets[u] + 1 /\ \A t \in Flow \ {u} : packets'[t] = packets[t]
        BY <2>2, <3>2
      <4>2. /\ packets \in [Flow -> Nat] /\ IsFiniteSet(Flow) /\ u \in Flow
            /\ packets' = [t \in Flow |-> packets'[t]]
        BY <2>1, <2>2, <3>2
      <4> DEFINE a == packets
                 b == packets'
      <4>3. /\ a \in [Flow -> Nat] /\ IsFiniteSet(Flow) /\ u \in Flow
            /\ b = [t \in Flow |-> b[t]]
            /\ b[u] = a[u] + 1 /\ \A t \in Flow \ {u} : b[t] = a[t]
        BY <4>1, <4>2
      <4> HIDE DEF a, b
      <4>4. SumOf(b) = SumOf(a) + 1 /\ SumOf(a) \in Nat
        BY <4>3, OneMore
      <4> QED
        BY <4>4 DEF a, b
    <3>5. SumOf(dropped') = (IF drop THEN SumOf(dropped) + 1 ELSE SumOf(dropped))
      <4> DEFINE a == dropped
                 b == dropped'
      <4>1. /\ a \in [Flow -> Nat] /\ IsFiniteSet(Flow) /\ u \in Flow
            /\ b = [t \in Flow |-> b[t]] /\ DOMAIN a = Flow /\ DOMAIN b = Flow
            /\ \A t \in Flow \ {u} : b[t] = a[t]
        BY <2>1, <2>2, <3>2
      <4>2. b[u] = IF drop THEN a[u] + 1 ELSE a[u]
        BY <2>2, <3>2, <3>3
      <4> HIDE DEF a, b
      <4>3. CASE drop
        <5>1. SumOf(b) = SumOf(a) + 1
          BY <4>1, <4>2, <4>3, OneMore
        <5> QED
          BY <4>3, <5>1 DEF a, b
      <4>4. CASE ~drop
        <5>1. \A t \in Flow : b[t] = a[t]
          BY <4>1, <4>2, <4>4
        <5>2. SumOf(b) = SumOf(a)
          BY <4>1, <5>1, SameSum
        <5> QED
          BY <4>4, <5>2 DEF a, b
      <4> QED
        BY <4>3, <4>4
    <3>6. \A t \in Flow : flows'[t].packets = flows'[t].forwarded + flows'[t].dropped
      <4>1. flows'[u].packets = flows'[u].forwarded + flows'[u].dropped
        BY <2>1, <2>3, <3>2
      <4> QED
        BY <2>3, <3>2, <4>1
    <3>7. /\ summary'.parsed = summary.parsed + 1 /\ summary'.errors = summary.errors
          /\ summary'.tcp + summary'.udp = summary.tcp + summary.udp + 1
          /\ summary'.icmp = summary.icmp /\ summary'.other = summary.other
      BY <2>6, <2>9, <2>11, <3>1, CountedAs
    <3>8. summary'.tcp \in Nat /\ summary'.udp \in Nat
      BY <2>9, <3>1
    <3>9. summary'.dropped = SumOf(dropped')
      BY <2>3, <2>5, <3>5
    <3>10. summary'.seen = summary'.parsed + summary'.errors
      BY <2>3, <2>4, <2>6, <3>7
    <3>11. summary'.parsed = summary'.tcp + summary'.udp + summary'.icmp + summary'.other
      BY <2>3, <2>6, <3>7, <3>8
    <3>12. summary'.tcp + summary'.udp = SumOf(packets')
      BY <2>3, <3>4, <3>7
    <3> QED
      BY <2>3, <2>4, <2>7, <3>6, <3>9, <3>10, <3>11, <3>12
  <2> QED
    BY <2>8, <2>10, <2>11
<1> QED
  BY <1>1, <1>2, Steps

\* The counters of the report add up at any time, whatever the capture: every
\* packet is forwarded or dropped, parsed or an error, counted once by kind, the
\* flows' own counts come to the same totals, and no more are counted than
\* --max-packets allows.
THEOREM TotalsAddUp == Spec => []TotalsAgree
  BY TotalsInit, TotalsStep, TypeCorrect, PTL DEF Spec

-----------------------------------------------------------------------------
(***************************************************************************)
(* The packets of a flow.                                                  *)
(***************************************************************************)
\* A nonempty set of numbers has a first one.
LEMMA First ==
  ASSUME NEW K \in SUBSET Nat, K # {}
  PROVE  FirstOf(K) \in K /\ \A j \in K : FirstOf(K) <= j
<1> DEFINE R == {ss \in Nat \X Nat : ss[1] < ss[2]}
<1>1. IsWellFoundedOn(R, Nat)
  BY NatLessThanWellFounded, Zenon DEF OpToRel
<1>2. PICK n \in K : \A m \in K : ~(<<m, n>> \in R)
  <2> HIDE DEF R
  <2> QED
    BY <1>1, WFMin
<1>3. \A m \in K : n <= m
  <2> SUFFICES ASSUME NEW m \in K, m < n PROVE FALSE
    OBVIOUS
  <2> DEFINE pair == <<m, n>>
  <2>1. pair \in Nat \X Nat /\ pair[1] = m /\ pair[2] = n
    OBVIOUS
  <2> HIDE DEF pair
  <2>2. pair \in R
    BY <2>1
  <2> QED
    BY <1>2, <2>2 DEF pair
<1>4. \E k \in K : \A j \in K : k <= j
  BY <1>3
<1> QED
  BY <1>4 DEF FirstOf

LEMMA FirstIs ==
  ASSUME NEW K \in SUBSET Nat, NEW k \in K, \A j \in K : k <= j
  PROVE  FirstOf(K) = k
<1>1. FirstOf(K) \in K /\ FirstOf(K) <= k
  BY First
<1>2. k <= FirstOf(K) /\ k \in Nat /\ FirstOf(K) \in Nat
  BY <1>1
<1> QED
  BY <1>1, <1>2

\* It stays the first one when a later one is added.
LEMMA FirstStays ==
  ASSUME NEW K \in SUBSET Nat, K # {}, NEW n \in Nat, \A j \in K : j < n
  PROVE  FirstOf(K \cup {n}) = FirstOf(K)
<1> DEFINE k == FirstOf(K)
<1>1. k \in K /\ \A j \in K : k <= j
  BY First
<1> HIDE DEF k
<1>2. k <= n
  BY <1>1
<1>3. FirstOf(K \cup {n}) = k
  BY <1>1, <1>2, FirstIs
<1> QED
  BY <1>3 DEF k

LEMMA OnlyFirst == \A n \in Nat : FirstOf({n}) = n
  BY FirstIs

\* The packets of a flow when one more is read.
LEMMA Recording ==
  ASSUME TypeOK, NEW p \in Packet, capture' = Append(capture, p), NEW n, n = Len(capture) + 1
  PROVE  /\ Len(capture) \in Nat /\ n \in Nat \ {0} /\ Len(capture') = n
         /\ \A k \in 1 .. Len(capture) : capture'[k] = capture[k] /\ Found(k)' = Found(k)
         /\ capture'[n] = p /\ Found(n)' = classifyPacket(p)
         /\ \A t : /\ All(t) \subseteq 1 .. Len(capture) /\ n \notin All(t)
                   /\ \A m \in 0 .. Len(capture) : Mine(t, m)' = Mine(t, m)
                   /\ Mine(t, n)' = All(t)'
                   /\ All(t)' = All(t) \cup {k \in {n} : p.kind \in Transport /\ p.tuple = t}
<1>1. /\ Len(capture) \in Nat /\ n \in Nat \ {0} /\ Len(capture') = n
      /\ \A k \in 1 .. Len(capture) : capture'[k] = capture[k]
      /\ capture'[n] = p
  BY Appending DEF TypeOK
<1>2. /\ \A k \in 1 .. Len(capture) : Found(k)' = Found(k)
      /\ Found(n)' = classifyPacket(p)
  BY <1>1 DEF Found
<1>3. \A t : \A m \in 0 .. Len(capture) : Mine(t, m)' = Mine(t, m)
  BY <1>1 DEF Mine
<1>4. \A t : All(t) = {k \in 1 .. Len(capture) : capture[k].kind \in Transport /\ capture[k].tuple = t}
  BY DEF All, Mine
<1>5. \A t : All(t)' = {k \in 1 .. n : capture'[k].kind \in Transport /\ capture'[k].tuple = t}
  BY <1>1 DEF All, Mine
<1>6. \A t : Mine(t, n)' = {k \in 1 .. n : capture'[k].kind \in Transport /\ capture'[k].tuple = t}
  BY DEF Mine
<1>7. 1 .. n = 1 .. Len(capture) \cup {n} /\ n \notin 1 .. Len(capture)
  BY <1>1
<1>8. \A t : All(t)' = All(t) \cup {k \in {n} : p.kind \in Transport /\ p.tuple = t}
  BY <1>1, <1>4, <1>5, <1>7
<1>9. \A t : All(t) \subseteq 1 .. Len(capture) /\ n \notin All(t)
  BY <1>4, <1>7
<1> QED
  BY <1>1, <1>2, <1>3, <1>5, <1>6, <1>8, <1>9

LEMMA Finite ==
  ASSUME TypeOK
  PROVE  \A t : /\ IsFiniteSet(All(t)) /\ Cardinality(All(t)) \in Nat
                /\ All(t) \subseteq 1 .. Len(capture) /\ Len(capture) \in Nat
<1>1. Len(capture) \in Nat
  BY LenProperties DEF TypeOK
<1>2. IsFiniteSet(1 .. Len(capture))
  BY <1>1, FS_Interval
<1> SUFFICES ASSUME NEW t
             PROVE  /\ IsFiniteSet(All(t)) /\ Cardinality(All(t)) \in Nat
                    /\ All(t) \subseteq 1 .. Len(capture)
  BY <1>1
<1>3. All(t) \subseteq 1 .. Len(capture)
  BY DEF All, Mine
<1> QED
  BY <1>2, <1>3, FS_Subset, FS_CardinalityType

-----------------------------------------------------------------------------
(***************************************************************************)
(* What a flow is known by.                                                *)
(***************************************************************************)
\* The telling packets of a flow when one more packet is read.
LEMMA Telling ==
  ASSUME TypeOK, NEW p \in Packet, capture' = Append(capture, p), NEW n, n = Len(capture) + 1,
         NEW t, NEW mine, mine = (p.kind \in Transport /\ p.tuple = t)
  PROVE  /\ \A m \in 0 .. Len(capture) :
              /\ Named(t, m)' = Named(t, m) /\ Named(t, m) \subseteq 1 .. m
              /\ Specific(t, m)' = Specific(t, m) /\ Specific(t, m) \subseteq 1 .. m
              /\ \A k \in 1 .. m : Found(k)' = Found(k)
         /\ Named(t, n)' = Named(t, Len(capture))
              \cup {k \in {n} : mine /\ classifyPacket(p).domain # NoName}
         /\ Specific(t, n)' = Specific(t, Len(capture))
              \cup {k \in {n} : mine /\ isSpecificApp(classifyPacket(p).app)}
         /\ Found(n)' = classifyPacket(p)
<1> DEFINE len == Len(capture)
           d   == classifyPacket(p)
<1>1. /\ len \in Nat /\ \A k \in 1 .. len : Found(k)' = Found(k)
      /\ Found(n)' = d
      /\ \A m \in 0 .. len : Mine(t, m)' = Mine(t, m)
      /\ Mine(t, n)' = All(t) \cup {k \in {n} : mine}
      /\ All(t) = Mine(t, len) /\ All(t) \subseteq 1 .. len
  <2>1. /\ len \in Nat /\ \A k \in 1 .. len : Found(k)' = Found(k)
        /\ Found(n)' = d
        /\ \A m \in 0 .. len : Mine(t, m)' = Mine(t, m)
        /\ Mine(t, n)' = All(t)'
        /\ All(t)' = All(t) \cup {k \in {n} : p.kind \in Transport /\ p.tuple = t}
        /\ All(t) \subseteq 1 .. len
    BY Recording
  <2>2. All(t) = Mine(t, len)
    BY DEF All
  <2> QED
    BY <2>1, <2>2
<1>2. \A m \in 0 .. len : Mine(t, m) \subseteq 1 .. m
  BY DEF Mine
<1>3. Named(t, n)' = {k \in Mine(t, n)' : Found(k)'.domain # NoName}
  BY DEF Named
<1>4. Specific(t, n)' = {k \in Mine(t, n)' : isSpecificApp(Found(k)'.app)}
  BY DEF Specific, isSpecificApp
<1>5. \A m \in 0 .. len :
        /\ Named(t, m)' = {k \in Mine(t, m)' : Found(k)'.domain # NoName}
        /\ Specific(t, m)' = {k \in Mine(t, m)' : isSpecificApp(Found(k)'.app)}
        /\ Named(t, m) = {k \in Mine(t, m) : Found(k).domain # NoName}
        /\ Specific(t, m) = {k \in Mine(t, m) : isSpecificApp(Found(k).app)}
  BY DEF Named, Specific, isSpecificApp
<1> HIDE DEF len, d
<1>6. \A m \in 0 .. len : \A k \in 1 .. m : Found(k)' = Found(k)
  <2> SUFFICES ASSUME NEW m \in 0 .. len, NEW k \in 1 .. m PROVE Found(k)' = Found(k)
    OBVIOUS
  <2>1. k \in 1 .. len
    BY <1>1
  <2> QED
    BY <1>1, <2>1
<1>7. ASSUME NEW m \in 0 .. len
      PROVE  Named(t, m)' = Named(t, m) /\ Specific(t, m)' = Specific(t, m)
  <2>1. Mine(t, m)' = Mine(t, m) /\ \A k \in Mine(t, m) : Found(k)' = Found(k)
    BY <1>1, <1>2, <1>6
  <2>2. /\ Named(t, m)' = {k \in Mine(t, m) : Found(k)'.domain # NoName}
        /\ Specific(t, m)' = {k \in Mine(t, m) : isSpecificApp(Found(k)'.app)}
    BY <1>5, <2>1
  <2> QED
    BY <1>5, <2>1, <2>2
<1>8. len \in 0 .. len
  BY <1>1
<1>9. Named(t, n)' = Named(t, len) \cup {k \in {n} : mine /\ d.domain # NoName}
  BY <1>1, <1>3, <1>5, <1>6, <1>8
<1>10. Specific(t, n)' = Specific(t, len) \cup {k \in {n} : mine /\ isSpecificApp(d.app)}
  BY <1>1, <1>4, <1>5, <1>6, <1>8
<1> QED
  BY <1>1, <1>2, <1>5, <1>6, <1>7, <1>9, <1>10 DEF len, d

\* A flow with telling packets has a name that tells.
LEMMA HasName ==
  ASSUME NEW t, NEW m \in Nat
  PROVE  /\ Named(t, m) \subseteq 1 .. m
         /\ FirstDomain(t, m) # NoName <=> Named(t, m) # {}
         /\ Specific(t, m) \subseteq 1 .. m
         /\ Specific(t, m) # {} => isSpecificApp(Found(FirstOf(Specific(t, m))).app)
<1>1. Named(t, m) \subseteq 1 .. m /\ Specific(t, m) \subseteq 1 .. m
  BY DEF Named, Specific, Mine
<1>2. Named(t, m) # {} => FirstOf(Named(t, m)) \in Named(t, m)
  <2>1. Named(t, m) \in SUBSET Nat
    BY <1>1
  <2> QED
    BY <2>1, First
<1>3. Specific(t, m) # {} => FirstOf(Specific(t, m)) \in Specific(t, m)
  <2>1. Specific(t, m) \in SUBSET Nat
    BY <1>1
  <2> QED
    BY <2>1, First
<1>4. \A k \in Named(t, m) : Found(k).domain # NoName
  BY DEF Named
<1>5. \A k \in Specific(t, m) : isSpecificApp(Found(k).app)
  BY DEF Specific
<1> QED
  BY <1>1, <1>2, <1>3, <1>4, <1>5 DEF FirstDomain

\* The first one of them when one more packet is read.
LEMMA Naming ==
  ASSUME TypeOK, NEW p \in Packet, capture' = Append(capture, p), NEW n, n = Len(capture) + 1,
         NEW t, NEW mine, mine = (p.kind \in Transport /\ p.tuple = t)
  PROVE  /\ \A m \in 0 .. Len(capture) :
              /\ FirstDomain(t, m)' = FirstDomain(t, m)
              /\ Specific(t, m) # {} =>
                   Found(FirstOf(Specific(t, m)))' = Found(FirstOf(Specific(t, m)))
         /\ FirstDomain(t, n)' =
              IF FirstDomain(t, Len(capture)) = NoName /\ mine THEN classifyPacket(p).domain
              ELSE FirstDomain(t, Len(capture))
         /\ Specific(t, Len(capture)) # {} =>
              /\ Specific(t, n)' # {}
              /\ Found(FirstOf(Specific(t, n)))' = Found(FirstOf(Specific(t, Len(capture))))
         /\ Specific(t, Len(capture)) = {} =>
              IF mine /\ isSpecificApp(classifyPacket(p).app)
              THEN Specific(t, n)' # {} /\ Found(FirstOf(Specific(t, n)))' = classifyPacket(p)
              ELSE Specific(t, n)' = {}
<1> DEFINE len == Len(capture)
           d   == classifyPacket(p)
           A   == Named(t, len)
           B   == Specific(t, len)
<1>0. len \in Nat /\ n \in Nat /\ n = len + 1 /\ len \in 0 .. len
  BY LenProperties DEF TypeOK
<1>1. /\ \A m \in 0 .. len :
              /\ Named(t, m)' = Named(t, m) /\ Named(t, m) \subseteq 1 .. m
              /\ Specific(t, m)' = Specific(t, m) /\ Specific(t, m) \subseteq 1 .. m
              /\ \A k \in 1 .. m : Found(k)' = Found(k)
      /\ Named(t, n)' = A \cup {k \in {n} : mine /\ d.domain # NoName}
      /\ Specific(t, n)' = B \cup {k \in {n} : mine /\ isSpecificApp(d.app)}
      /\ Found(n)' = d
  BY Telling
<1>2. /\ FirstDomain(t, len) = IF A = {} THEN NoName ELSE Found(FirstOf(A)).domain
      /\ FirstDomain(t, len) # NoName <=> A # {}
  BY <1>0, HasName DEF FirstDomain
<1>3. \A m \in 0 .. len :
        /\ Named(t, m) # {} => FirstOf(Named(t, m)) \in 1 .. m
        /\ Specific(t, m) # {} => FirstOf(Specific(t, m)) \in 1 .. m
  <2> SUFFICES ASSUME NEW m \in 0 .. len
               PROVE  /\ Named(t, m) # {} => FirstOf(Named(t, m)) \in 1 .. m
                      /\ Specific(t, m) # {} => FirstOf(Specific(t, m)) \in 1 .. m
    OBVIOUS
  <2>1. /\ Named(t, m) \in SUBSET Nat /\ Named(t, m) \subseteq 1 .. m
        /\ Specific(t, m) \in SUBSET Nat /\ Specific(t, m) \subseteq 1 .. m
    BY <1>1
  <2> QED
    BY <2>1, First
<1>4. ASSUME NEW m \in 0 .. len, Specific(t, m) # {}
      PROVE  Found(FirstOf(Specific(t, m)))' = Found(FirstOf(Specific(t, m)))
  <2>1. PICK k \in 1 .. m : k = FirstOf(Specific(t, m))
    BY <1>3, <1>4
  <2>2. k = FirstOf(Specific(t, m)')
    BY <1>1, <2>1
  <2>3. FirstOf(Specific(t, m))' = FirstOf(Specific(t, m)')
    BY DEF FirstOf
  <2>4. FirstOf(Specific(t, m))' = k
    BY <2>2, <2>3
  <2>5. Found(FirstOf(Specific(t, m)))' = Found(k)'
    BY <2>4 DEF Found
  <2> QED
    BY <1>1, <2>1, <2>5
<1>5. ASSUME NEW m \in 0 .. len
      PROVE  FirstDomain(t, m)' = FirstDomain(t, m)
  <2>1. CASE Named(t, m) = {}
    <3>1. Named(t, m)' = {}
      BY <1>1, <2>1
    <3> QED
      BY <2>1, <3>1 DEF FirstDomain
  <2>2. CASE Named(t, m) # {}
    <3>1. PICK k \in 1 .. m : k = FirstOf(Named(t, m))
      BY <1>3, <2>2
    <3>2. FirstOf(Named(t, m))' = FirstOf(Named(t, m)')
      BY DEF FirstOf
    <3>3. FirstOf(Named(t, m))' = k /\ Named(t, m)' # {}
      BY <1>1, <2>2, <3>1, <3>2
    <3>4. FirstDomain(t, m)' = Found(k)'.domain
      BY <3>3 DEF FirstDomain, Found
    <3>5. FirstDomain(t, m) = Found(k).domain
      BY <2>2, <3>1 DEF FirstDomain
    <3> QED
      BY <1>1, <3>4, <3>5
  <2> QED
    BY <2>1, <2>2
<1>6. A \in SUBSET Nat /\ B \in SUBSET Nat /\ (\A j \in A : j < n) /\ (\A j \in B : j < n)
  <2>1. A \subseteq 1 .. len /\ B \subseteq 1 .. len
    BY <1>0, <1>1
  <2> HIDE DEF A, B, len
  <2> QED
    BY <1>0, <2>1
<1>7. FirstDomain(t, n)' = IF FirstDomain(t, len) = NoName /\ mine THEN d.domain ELSE FirstDomain(t, len)
  <2>1. CASE A # {}
    <3>1. PICK k \in 1 .. len : k = FirstOf(A)
      BY <1>0, <1>3, <2>1
    <3>2. FirstOf(Named(t, n)') = k /\ Named(t, n)' # {}
      <4>1. Named(t, n)' = A \/ Named(t, n)' = A \cup {n}
        BY <1>1
      <4>2. FirstOf(A \cup {n}) = FirstOf(A)
        BY <1>0, <1>6, <2>1, FirstStays
      <4> QED
        BY <2>1, <3>1, <4>1, <4>2
    <3>3. FirstOf(Named(t, n))' = FirstOf(Named(t, n)')
      BY DEF FirstOf
    <3>4. FirstDomain(t, n)' = Found(k)'.domain
      BY <3>2, <3>3 DEF FirstDomain, Found
    <3>5. FirstDomain(t, len) = Found(k).domain /\ FirstDomain(t, len) # NoName
      BY <1>2, <2>1, <3>1
    <3>6. Found(k)' = Found(k)
      BY <1>0, <1>1
    <3> QED
      BY <3>4, <3>5, <3>6
  <2>2. CASE A = {} /\ mine /\ d.domain # NoName
    <3>1. Named(t, n)' = {n}
      BY <1>1, <2>2
    <3>2. FirstOf(Named(t, n))' = FirstOf(Named(t, n)')
      BY DEF FirstOf
    <3>3. FirstOf(Named(t, n))' = n
      BY <1>0, <3>1, <3>2, OnlyFirst
    <3>4. FirstDomain(t, n)' = Found(n)'.domain
      BY <3>1, <3>3 DEF FirstDomain, Found
    <3> QED
      BY <1>1, <1>2, <2>2, <3>4
  <2>3. CASE A = {} /\ ~(mine /\ d.domain # NoName)
    <3>1. Named(t, n)' = {}
      BY <1>1, <2>3
    <3>2. FirstDomain(t, n)' = NoName
      BY <3>1 DEF FirstDomain
    <3> QED
      BY <1>2, <2>3, <3>2
  <2> QED
    BY <2>1, <2>2, <2>3
<1>8. ASSUME B # {}
      PROVE  Specific(t, n)' # {} /\ Found(FirstOf(Specific(t, n)))' = Found(FirstOf(B))
  <2>1. PICK k \in 1 .. len : k = FirstOf(B)
    BY <1>0, <1>3, <1>8
  <2>2. FirstOf(Specific(t, n)') = k /\ Specific(t, n)' # {}
    <3>1. Specific(t, n)' = B \/ Specific(t, n)' = B \cup {n}
      BY <1>1
    <3>2. FirstOf(B \cup {n}) = FirstOf(B)
      BY <1>0, <1>6, <1>8, FirstStays
    <3> QED
      BY <1>8, <2>1, <3>1, <3>2
  <2>3. FirstOf(Specific(t, n))' = FirstOf(Specific(t, n)')
    BY DEF FirstOf
  <2>4. Found(FirstOf(Specific(t, n)))' = Found(k)'
    BY <2>2, <2>3 DEF Found
  <2>5. Found(k)' = Found(k)
    BY <1>0, <1>1
  <2> QED
    BY <2>1, <2>2, <2>4, <2>5
<1>9. ASSUME B = {}, mine, isSpecificApp(d.app)
      PROVE  Specific(t, n)' # {} /\ Found(FirstOf(Specific(t, n)))' = d
  <2>1. Specific(t, n)' = {n}
    BY <1>1, <1>9
  <2>2. FirstOf(Specific(t, n))' = FirstOf(Specific(t, n)')
    BY DEF FirstOf
  <2>3. FirstOf(Specific(t, n))' = n
    BY <1>0, <2>1, <2>2, OnlyFirst
  <2>4. Found(FirstOf(Specific(t, n)))' = Found(n)'
    BY <2>3 DEF Found
  <2> QED
    BY <1>1, <2>1, <2>4
<1>10. ASSUME B = {}, ~(mine /\ isSpecificApp(d.app))
       PROVE  Specific(t, n)' = {}
  BY <1>1, <1>10
<1> QED
  BY <1>4, <1>5, <1>7, <1>8, <1>9, <1>10

\* The record of a flow has what its packets tell.
LEMMA HistoryInit == Init => FlowsMatchHistory
<1> SUFFICES ASSUME Init PROVE FlowsMatchHistory
  OBVIOUS
<1>1. capture = <<>> /\ Len(capture) = 0
  BY EmptySeq DEF Init
<1>2. \A t, n : n = 0 => Mine(t, n) = {}
  BY DEF Mine
<1>3. \A t : /\ All(t) = {} /\ Named(t, Len(capture)) = {} /\ Specific(t, Len(capture)) = {}
             /\ FirstDomain(t, Len(capture)) = NoName
  BY <1>1, <1>2 DEF All, Named, Specific, FirstDomain
<1>4. \A t \in Flow : flows[t].packets = 0 /\ flows[t].domain = NoName /\ flows[t].app = "UNKNOWN"
  BY DEF Init, NewFlow
<1> QED
  BY <1>3, <1>4, FS_EmptySet DEF FlowsMatchHistory

LEMMA HistoryStep == TypeOK /\ FlowsMatchHistory /\ [Next]_vars => FlowsMatchHistory'
<1> SUFFICES ASSUME TypeOK, FlowsMatchHistory, [Next]_vars PROVE FlowsMatchHistory'
  OBVIOUS
<1>1. CASE UNCHANGED <<capture, flows>>
  <2>1. /\ \A k : Found(k)' = Found(k)
        /\ \A t : /\ All(t)' = All(t)
                  /\ Named(t, Len(capture))' = Named(t, Len(capture))
                  /\ Specific(t, Len(capture))' = Specific(t, Len(capture))
    BY <1>1 DEF Found, All, Mine, Named, Specific
  <2>2. \A t : /\ FirstDomain(t, Len(capture))' = FirstDomain(t, Len(capture))
              /\ Found(FirstOf(Specific(t, Len(capture))))' = Found(FirstOf(Specific(t, Len(capture))))
    <3> SUFFICES ASSUME NEW t
                 PROVE  /\ FirstDomain(t, Len(capture))' = FirstDomain(t, Len(capture))
                        /\ Found(FirstOf(Specific(t, Len(capture))))' =
                             Found(FirstOf(Specific(t, Len(capture))))
      OBVIOUS
    <3> DEFINE A == Named(t, Len(capture))
               B == Specific(t, Len(capture))
    <3>1. FirstOf(A)' = FirstOf(A') /\ FirstOf(B)' = FirstOf(B')
      BY DEF FirstOf
    <3>2. A' = A /\ B' = B
      BY <2>1
    <3>3. FirstOf(A)' = FirstOf(A) /\ FirstOf(B)' = FirstOf(B)
      BY <3>1, <3>2
    <3>4. FirstDomain(t, Len(capture)) = IF A = {} THEN NoName ELSE Found(FirstOf(A)).domain
      BY DEF FirstDomain
    <3>5. FirstDomain(t, Len(capture))' = IF A' = {} THEN NoName ELSE Found(FirstOf(A))'.domain
      BY DEF FirstDomain
    <3> HIDE DEF A, B
    <3>6. Found(FirstOf(A))' = Found(FirstOf(A)) /\ Found(FirstOf(B))' = Found(FirstOf(B))
      BY <1>1, <3>3 DEF Found
    <3> QED
      BY <3>2, <3>4, <3>5, <3>6 DEF B
  <2> QED
    BY <1>1, <2>1, <2>2 DEF FlowsMatchHistory
<1>2. ASSUME NEW p \in Packet, ReadsPacket(p) PROVE FlowsMatchHistory'
  <2> DEFINE len == Len(capture)
             d == classifyPacket(p)
  <2>1. capture' = Append(capture, p)
    BY <1>2, Reading
  <2>2. PICK n : n = len + 1
    OBVIOUS
  <2>3. Len(capture') = n /\ len \in Nat /\ len \in 0 .. len
    BY <2>1, <2>2, Recording
  <2> SUFFICES ASSUME NEW t \in Flow
               PROVE  /\ flows'[t].packets = Cardinality(All(t)')
                      /\ flows'[t].domain = FirstDomain(t, n)'
                      /\ IF Specific(t, n)' # {}
                         THEN flows'[t].app = Found(FirstOf(Specific(t, n)))'.app
                         ELSE flows'[t].app \in {"UNKNOWN"} \cup {Found(k)'.app : k \in All(t)'}
    <3>1. \A t : /\ FirstDomain(t, Len(capture))' = FirstDomain(t, n)'
                 /\ Specific(t, Len(capture))' = Specific(t, n)'
                 /\ Found(FirstOf(Specific(t, Len(capture))))' = Found(FirstOf(Specific(t, n)))'
      BY <2>3 DEF FirstDomain, Specific, Named, Mine, Found, FirstOf
    <3> QED
      BY <3>1 DEF FlowsMatchHistory
  <2> DEFINE mine == p.kind \in Transport /\ p.tuple = t
             A    == All(t)
             B    == Specific(t, len)
  <2>4. /\ flows[t].packets = Cardinality(A)
        /\ flows[t].domain = FirstDomain(t, len)
        /\ B # {} => flows[t].app = Found(FirstOf(B)).app
        /\ B = {} => flows[t].app \in {"UNKNOWN"} \cup {Found(k).app : k \in A}
    BY DEF FlowsMatchHistory
  <2>5. /\ FirstDomain(t, n)' = IF FirstDomain(t, len) = NoName /\ mine THEN d.domain
                                ELSE FirstDomain(t, len)
        /\ B # {} => /\ Specific(t, n)' # {}
                     /\ Found(FirstOf(Specific(t, n)))' = Found(FirstOf(B))
        /\ B = {} => IF mine /\ isSpecificApp(d.app)
                     THEN Specific(t, n)' # {} /\ Found(FirstOf(Specific(t, n)))' = d
                     ELSE Specific(t, n)' = {}
    BY <2>1, <2>2, Naming
  <2>6. /\ A \subseteq 1 .. len /\ n \notin A /\ IsFiniteSet(A) /\ Cardinality(A) \in Nat
        /\ All(t)' = A \cup {k \in {n} : mine}
        /\ \A k \in A : Found(k)' = Found(k)
        /\ Found(n)' = d
    BY <2>1, <2>2, Recording, Finite
  <2>7. \A k \in A : Found(k).app \in App
    <3>1. \A k \in 1 .. len : capture[k] \in Packet
      BY ElementOfSeq DEF TypeOK
    <3> QED
      BY <2>6, <3>1, Detecting DEF Found
  <2>8. B = {} => \A k \in A : ~isSpecificApp(Found(k).app)
    BY DEF Specific, All
  <2>9. B # {} => isSpecificApp(Found(FirstOf(B)).app)
    BY <2>3, HasName
  <2> HIDE DEF A, B, d, len
  <2>10. CASE ~mine
    <3>1. flows'[t] = flows[t]
      BY <1>2, <2>10, Reading, Tabling
    <3>2. All(t)' = A
      BY <2>6, <2>10
    <3>3. IF B # {} THEN /\ Specific(t, n)' # {}
                         /\ Found(FirstOf(Specific(t, n)))' = Found(FirstOf(B))
          ELSE Specific(t, n)' = {}
      BY <2>5, <2>10
    <3>4. FirstDomain(t, n)' = FirstDomain(t, len)
      BY <2>5, <2>10
    <3>5. {Found(k)'.app : k \in All(t)'} = {Found(k).app : k \in A}
      BY <2>6, <3>2
    <3> QED
      BY <2>4, <3>1, <3>2, <3>3, <3>4, <3>5
  <2>11. CASE mine
    <3>1. FlowPacket(p) /\ p.tuple = t
      BY <1>2, <2>11, Reading
    <3> DEFINE old == flows[t]
               new == flows'[t]
    <3>2. /\ new.packets = old.packets + 1
          /\ new.domain = IF old.domain = NoName THEN d.domain ELSE old.domain
          /\ new.app = IF Replaces(d.app, old.app) THEN d.app ELSE old.app
      <4>1. /\ new.packets = old.packets + 1
            /\ new.app = Inspect(old, p).app /\ new.domain = Inspect(old, p).domain
        BY <3>1, Tabling
      <4>2. old \in FlowRecord /\ (old.reason # NoReason) = old.blocked
        BY DEF TypeOK
      <4> HIDE DEF old, new
      <4> QED
        BY <2>11, <4>1, <4>2, Inspecting DEF d
    <3>3. old.packets \in Nat
      BY DEF TypeOK, FlowRecord
    <3>4. All(t)' = A \cup {n} /\ Cardinality(All(t)') = Cardinality(A) + 1
      <4>1. All(t)' = A \cup {n}
        BY <2>6, <2>11
      <4> QED
        BY <2>6, <4>1, FS_AddElement
    <3>5. new.packets = Cardinality(All(t)')
      BY <2>4, <3>2, <3>4
    <3>6. new.domain = FirstDomain(t, n)'
      BY <2>4, <2>5, <2>11, <3>2
    <3>7. {Found(k)'.app : k \in All(t)'} = {Found(k).app : k \in A} \cup {d.app}
      BY <2>6, <3>4
    <3>8. CASE B # {}
      <4>1. isSpecificApp(old.app)
        BY <2>4, <2>9, <3>8
      <4>2. new.app = old.app
        BY <3>2, <4>1 DEF Replaces, isSpecificApp, Generic
      <4> QED
        BY <2>4, <2>5, <3>5, <3>6, <3>8, <4>2
    <3>9. CASE B = {} /\ isSpecificApp(d.app)
      <4>1. ~isSpecificApp(old.app)
        BY <2>4, <2>8, <3>9 DEF isSpecificApp, Generic
      <4>2. new.app = d.app
        BY <3>2, <3>9, <4>1 DEF Replaces, isSpecificApp, Generic
      <4> QED
        BY <2>5, <2>11, <3>5, <3>6, <3>9, <4>2
    <3>10. CASE B = {} /\ ~isSpecificApp(d.app)
      <4>1. new.app \in {"UNKNOWN"} \cup {Found(k).app : k \in A} \cup {d.app}
        BY <2>4, <3>2, <3>10
      <4>2. Specific(t, n)' = {}
        BY <2>5, <3>10
      <4> QED
        BY <3>5, <3>6, <3>7, <4>1, <4>2
    <3> QED
      BY <3>8, <3>9, <3>10
  <2> QED
    BY <2>10, <2>11
<1> QED
  BY <1>1, <1>2, Steps

\* At any time the record of a flow says of it what its own packets say, whatever
\* packets came between them: how many there were, the first domain detected in
\* one of them, and the first specific application, or a generic one that one of
\* them was taken for.
THEOREM HistoryKept == Spec => []FlowsMatchHistory
  BY HistoryInit, HistoryStep, TypeCorrect, PTL DEF Spec

-----------------------------------------------------------------------------
(***************************************************************************)
(* The filtered PCAP.                                                      *)
(***************************************************************************)
\* Nothing has been counted before the first packet is read.
Fresh ==
  phase \in {"rules", "open"} =>
    /\ capture = <<>> /\ summary.forwarded = 0
    /\ \A t \in Flow : flows[t].forwarded = 0

\* What PcapMatchesReport says while packets are read; besides, the packets in
\* the PCAP have been read, and all of a flow that is not blocked are in it.
Passed(t) == {k \in All(t) : InPcap(k)}

PcapOK ==
  /\ Len(pcap) > 0 /\ pcap[1] = 0
  /\ \A i, j \in 1 .. Len(pcap) : i < j => pcap[i] < pcap[j]
  /\ \A i \in 1 .. Len(pcap) : pcap[i] <= Len(capture)
  /\ Len(pcap) = 1 + summary.forwarded
  /\ \A t \in Flow :
       /\ Cardinality(Passed(t)) = flows[t].forwarded
       /\ \A j, k \in All(t) : j < k /\ InPcap(k) => InPcap(j)
       /\ ~flows[t].blocked => Passed(t) = All(t)

PcapInv == Fresh /\ (options.pcap /\ phase \in {"read", "report"} => PcapOK)

LEMMA PcapInit == Init => PcapInv
  BY DEF Init, PcapInv, Fresh, NewFlow

\* A packet written to the PCAP.
LEMMA Writing ==
  ASSUME NEW s \in Seq(Nat), NEW len \in Nat, NEW n, n = len + 1, Len(s) > 0, s[1] = 0,
         \A i, j \in 1 .. Len(s) : i < j => s[i] < s[j],
         \A i \in 1 .. Len(s) : s[i] <= len,
         NEW u, u = Append(s, n)
  PROVE  /\ Len(u) = Len(s) + 1 /\ u[1] = 0
         /\ \A i, j \in 1 .. Len(u) : i < j => u[i] < u[j]
         /\ \A i \in 1 .. Len(u) : u[i] <= n
         /\ \A k : (\E i \in 1 .. Len(u) : u[i] = k) <=> (\E i \in 1 .. Len(s) : s[i] = k) \/ k = n
<1> DEFINE m == Len(s)
<1>1. /\ m \in Nat /\ n \in Nat /\ Len(u) = m + 1 /\ u[m + 1] = n
      /\ \A i \in 1 .. m : u[i] = s[i] /\ s[i] \in Nat
  <2>1. m \in Nat /\ n \in Nat /\ \A i \in 1 .. m : s[i] \in Nat
    BY LenProperties, ElementOfSeq
  <2> QED
    BY <2>1, Appending
<1>2. /\ \A i, j \in 1 .. m : i < j => s[i] < s[j]
      /\ \A i \in 1 .. m : s[i] <= len
      /\ m > 0
  OBVIOUS
<1>3. u[1] = 0
  BY <1>1, <1>2
<1> HIDE DEF m
<1>4. \A i \in 1 .. m + 1 : i \in 1 .. m \/ i = m + 1
  BY <1>1
<1>5. \A i, j \in 1 .. m + 1 : i < j => i \in 1 .. m
  BY <1>1
<1>6. ASSUME NEW i \in 1 .. m + 1, NEW j \in 1 .. m + 1, i < j PROVE u[i] < u[j]
  <2>1. i \in 1 .. m /\ u[i] = s[i] /\ s[i] \in Nat /\ s[i] <= len
    BY <1>1, <1>2, <1>5, <1>6
  <2>2. CASE j = m + 1
    BY <1>1, <2>1, <2>2
  <2>3. CASE j \in 1 .. m
    BY <1>1, <1>2, <1>6, <2>1, <2>3
  <2> QED
    BY <1>4, <2>2, <2>3
<1>7. ASSUME NEW i \in 1 .. m + 1 PROVE u[i] <= n
  <2>1. CASE i = m + 1
    BY <1>1, <2>1
  <2>2. CASE i \in 1 .. m
    BY <1>1, <1>2, <2>2
  <2> QED
    BY <1>4, <2>1, <2>2
<1>8. \A k : (\E i \in 1 .. m + 1 : u[i] = k) <=> (\E i \in 1 .. m : s[i] = k) \/ k = n
  <2>1. m + 1 \in 1 .. m + 1 /\ \A i \in 1 .. m : i \in 1 .. m + 1
    BY <1>1
  <2> QED
    BY <1>1, <1>4, <2>1
<1> QED
  BY <1>1, <1>3, <1>6, <1>7, <1>8 DEF m

LEMMA PcapStep ==
  TypeOK /\ TotalsAgree /\ PcapInv /\ [Next]_vars => PcapInv'
<1> SUFFICES ASSUME TypeOK, TotalsAgree, PcapInv, [Next]_vars PROVE PcapInv'
  OBVIOUS
<1>t. Len(capture) \in Nat /\ pcap \in Seq(Nat) /\ summary.seen = Len(capture)
  BY LenProperties DEF TypeOK, TotalsAgree
<1>1. ASSUME UNCHANGED <<capture, flows, summary, options, given>>,
             phase' \in {"rules", "open"} => phase \in {"rules", "open"}
      PROVE  Fresh'
  BY <1>1 DEF PcapInv, Fresh
<1>2. ASSUME UNCHANGED <<capture, flows, summary, options, given>>,
             phase = "open", phase' = "read", options.pcap, pcap' = << 0 >>
      PROVE  PcapOK'
  <2>1. Len(pcap') = 1 /\ pcap'[1] = 0 /\ \A i \in 1 .. Len(pcap') : i = 1
    BY <1>2
  <2>2. capture' = <<>> /\ Len(capture') = 0 /\ summary'.forwarded = 0
    BY <1>2, EmptySeq DEF PcapInv, Fresh
  <2>3. \A t : All(t)' = {}
    BY <2>2 DEF All, Mine
  <2>4. \A t : Passed(t)' = {}
    BY <2>3 DEF Passed
  <2>5. \A t \in Flow : flows'[t].forwarded = 0
    BY <1>2 DEF PcapInv, Fresh
  <2>6. \A i, j \in 1 .. Len(pcap') : i < j => pcap'[i] < pcap'[j]
    BY <2>1
  <2>7. \A i \in 1 .. Len(pcap') : pcap'[i] <= Len(capture')
    BY <2>1, <2>2
  <2>8. Len(pcap') > 0 /\ pcap'[1] = 0 /\ Len(pcap') = 1 + summary'.forwarded
    BY <2>1, <2>2
  <2> QED
    BY <2>3, <2>4, <2>5, <2>6, <2>7, <2>8, FS_EmptySet DEF PcapOK
<1>3. ASSUME UNCHANGED <<capture, flows, summary, pcap>>, PcapOK
      PROVE  PcapOK'
  <2>1. /\ \A k : InPcap(k)' = InPcap(k)
        /\ \A t : All(t)' = All(t)
    BY <1>3 DEF InPcap, All, Mine
  <2>2. \A t : Passed(t)' = Passed(t)
    BY <2>1 DEF Passed
  <2> QED
    BY <1>3, <2>1, <2>2 DEF PcapOK
<1>4. ASSUME NEW p \in Packet, ReadsPacket(p), PcapOK, options.pcap
      PROVE  PcapOK'
  <2> DEFINE len  == Len(capture)
             tcp  == p.kind \in Transport
             drop == tcp /\ flows'[p.tuple].blocked
  <2>1. PICK n : n = len + 1
    OBVIOUS
  <2>2. /\ capture' = Append(capture, p)
        /\ tcp => FlowPacket(p) /\ flows'[p.tuple].blocked \in BOOLEAN
        /\ ~tcp => UNCHANGED flows
        /\ summary'.forwarded = IF drop THEN summary.forwarded ELSE summary.forwarded + 1
        /\ pcap' = IF ~drop THEN Append(pcap, n) ELSE pcap
    BY <1>4, <1>t, <2>1, Reading
  <2>3. /\ Len(capture') = n
        /\ \A k \in 1 .. len : capture'[k] = capture[k]
        /\ capture'[n] = p
        /\ \A t : /\ All(t) \subseteq 1 .. len /\ n \notin All(t)
                  /\ All(t)' = All(t) \cup {k \in {n} : tcp /\ p.tuple = t}
    BY <2>1, <2>2, Recording
  <2>4. /\ Len(pcap) > 0 /\ pcap[1] = 0
        /\ \A i, j \in 1 .. Len(pcap) : i < j => pcap[i] < pcap[j]
        /\ \A i \in 1 .. Len(pcap) : pcap[i] <= len
        /\ Len(pcap) = 1 + summary.forwarded
    BY <1>4 DEF PcapOK
  <2>5. /\ Len(pcap') = (IF drop THEN Len(pcap) ELSE Len(pcap) + 1) /\ pcap'[1] = 0
        /\ \A i, j \in 1 .. Len(pcap') : i < j => pcap'[i] < pcap'[j]
        /\ \A i \in 1 .. Len(pcap') : pcap'[i] <= n
        /\ \A k : InPcap(k)' <=> InPcap(k) \/ (~drop /\ k = n)
    <3>1. CASE drop
      <4>1. pcap' = pcap
        BY <2>2, <3>1
      <4>2. \A k : InPcap(k)' <=> InPcap(k)
        BY <4>1 DEF InPcap
      <4>3. \A i \in 1 .. Len(pcap) : pcap[i] <= n
        <5>1. \A i \in 1 .. Len(pcap) : pcap[i] \in Nat /\ pcap[i] <= len
          BY <1>t, <2>4, ElementOfSeq
        <5> HIDE DEF len
        <5> QED
          BY <1>t, <2>1, <5>1 DEF len
      <4> HIDE DEF drop, len
      <4> QED
        BY <2>4, <3>1, <4>1, <4>2, <4>3
    <3>2. CASE ~drop
      <4> DEFINE u == Append(pcap, n)
      <4>1. /\ Len(u) = Len(pcap) + 1 /\ u[1] = 0
            /\ \A i, j \in 1 .. Len(u) : i < j => u[i] < u[j]
            /\ \A i \in 1 .. Len(u) : u[i] <= n
            /\ \A k : (\E i \in 1 .. Len(u) : u[i] = k) <=> (\E i \in 1 .. Len(pcap) : pcap[i] = k) \/ k = n
        <5>1. /\ pcap \in Seq(Nat) /\ len \in Nat /\ n = len + 1 /\ Len(pcap) > 0 /\ pcap[1] = 0
              /\ \A i, j \in 1 .. Len(pcap) : i < j => pcap[i] < pcap[j]
              /\ \A i \in 1 .. Len(pcap) : pcap[i] <= len
          BY <1>t, <2>1, <2>4
        <5>2. u = Append(pcap, n)
          OBVIOUS
        <5> HIDE DEF len, u
        <5> QED
          BY <5>1, <5>2, Writing
      <4>2. pcap' = u
        BY <2>2, <3>2
      <4> HIDE DEF u, drop, len
      <4>3. \A k : InPcap(k)' <=> InPcap(k) \/ k = n
        BY <4>1, <4>2 DEF InPcap
      <4> QED
        BY <3>2, <4>1, <4>2, <4>3
    <3> QED
      BY <3>1, <3>2
  <2>6. Len(pcap) \in Nat /\ summary.forwarded \in Nat
    BY <1>t, LenProperties DEF TypeOK, Summary
  <2>7. Len(pcap') > 0 /\ Len(pcap') = 1 + summary'.forwarded
    BY <2>2, <2>4, <2>5, <2>6
  <2>9. \A k : InPcap(k) => k <= len
    BY <2>4 DEF InPcap
  <2>10. ASSUME NEW t \in Flow
         PROVE  /\ Cardinality(Passed(t)') = flows'[t].forwarded
                /\ \A j, k \in All(t)' : j < k /\ InPcap(k)' => InPcap(j)'
                /\ ~flows'[t].blocked => Passed(t)' = All(t)'
    <3> DEFINE A == All(t)
               P == Passed(t)
               mine == tcp /\ p.tuple = t
    <3>1. /\ Cardinality(P) = flows[t].forwarded
          /\ \A j, k \in A : j < k /\ InPcap(k) => InPcap(j)
          /\ ~flows[t].blocked => P = A
      BY <1>4 DEF PcapOK
    <3>2. /\ A \subseteq 1 .. len /\ n \notin A /\ All(t)' = A \cup {k \in {n} : mine}
          /\ IsFiniteSet(A) /\ P = {k \in A : InPcap(k)}
          /\ Passed(t)' = {k \in All(t)' : InPcap(k)'}
      BY <2>3, Finite DEF Passed
    <3>3. IsFiniteSet(P) /\ Cardinality(P) \in Nat
      BY <3>2, FS_Subset, FS_CardinalityType
    <3>4. n \in Nat /\ len \in Nat /\ n = len + 1 /\ \A k \in A : k < n /\ k \in Nat
      BY <1>t, <2>1, <3>2
    <3>5. ~InPcap(n)
      <4> HIDE DEF len
      <4> QED
        BY <2>9, <3>4
    <3>6. mine => drop = flows'[t].blocked /\ flows'[t].blocked \in BOOLEAN
      BY <2>2
    <3>7. ~mine => flows'[t] = flows[t]
      BY <2>2, Tabling
    <3>8. mine => /\ ~drop => flows'[t].forwarded = flows[t].forwarded + 1 /\ ~flows[t].blocked
                  /\ drop => flows'[t].forwarded = flows[t].forwarded
      BY <2>2, <3>6, Tabling
    <3> HIDE DEF A, P, mine, drop, len
    <3>9. CASE ~mine
      <4>1. All(t)' = A
        BY <3>2, <3>9
      <4>2. \A k \in A : InPcap(k)' <=> InPcap(k)
        BY <2>5, <3>2
      <4>3. Passed(t)' = P
        BY <3>2, <4>1, <4>2
      <4> QED
        BY <3>1, <3>7, <3>9, <4>1, <4>2, <4>3
    <3>10. CASE mine /\ drop
      <4>1. All(t)' = A \cup {n} /\ \A k : InPcap(k)' <=> InPcap(k)
        BY <2>5, <3>2, <3>10
      <4>2. Passed(t)' = P
        BY <3>2, <3>5, <4>1
      <4>3. \A j, k \in A \cup {n} : j < k /\ InPcap(k) => InPcap(j)
        <5> SUFFICES ASSUME NEW j \in A \cup {n}, NEW k \in A \cup {n}, j < k, InPcap(k)
                     PROVE  InPcap(j)
          OBVIOUS
        <5>1. k \in A
          BY <3>5
        <5>2. j \in A
          BY <3>4, <5>1
        <5> QED
          BY <3>1, <5>1, <5>2
      <4>4. flows'[t].blocked
        BY <3>6, <3>10
      <4>5. \A j, k \in All(t)' : j < k /\ InPcap(k)' => InPcap(j)'
        BY <4>1, <4>3
      <4> QED
        BY <3>1, <3>8, <3>10, <4>2, <4>4, <4>5
    <3>11. CASE mine /\ ~drop
      <4>1. All(t)' = A \cup {n} /\ \A k : InPcap(k)' <=> InPcap(k) \/ k = n
        BY <2>5, <3>2, <3>11
      <4>2. P = A
        BY <3>1, <3>8, <3>11
      <4>3. \A k \in A \cup {n} : InPcap(k)'
        BY <3>2, <4>1, <4>2
      <4>4. Passed(t)' = A \cup {n}
        BY <3>2, <4>1, <4>3
      <4>5. Cardinality(A \cup {n}) = Cardinality(A) + 1
        BY <3>2, FS_AddElement
      <4>6. \A j, k \in All(t)' : j < k /\ InPcap(k)' => InPcap(j)'
        BY <4>1, <4>3
      <4> QED
        BY <3>1, <3>8, <3>11, <4>1, <4>2, <4>4, <4>5, <4>6
    <3> QED
      BY <3>9, <3>10, <3>11
  <2> HIDE DEF drop, tcp
  <2> QED
    BY <2>3, <2>5, <2>7, <2>10 DEF PcapOK
<1>5. CASE \E p \in Packet : ReadsPacket(p) /\ UNCHANGED <<phase, options>> /\ phase = "read"
  <2>1. Fresh'
    BY <1>5 DEF Fresh
  <2>2. options.pcap => PcapOK'
    BY <1>4, <1>5 DEF PcapInv
  <2> QED
    BY <1>5, <2>1, <2>2 DEF PcapInv
<1>6. CASE /\ UNCHANGED <<capture, flows, summary, options, given>>
           /\ phase' \in {"read", "report"} =>
                \/ phase = "open" /\ phase' = "read" /\ pcap' = IF options.pcap THEN <<0>> ELSE <<>>
                \/ phase \in {"read", "report"} /\ pcap' = pcap
           /\ phase' \in {"rules", "open"} => phase \in {"rules", "open"}
  <2>1. Fresh'
    BY <1>1, <1>6
  <2>2. ASSUME options'.pcap, phase' \in {"read", "report"} PROVE PcapOK'
    BY <1>2, <1>3, <1>6, <2>2 DEF PcapInv
  <2> QED
    BY <2>1, <2>2 DEF PcapInv
<1> QED
  BY <1>5, <1>6, Steps

\* The filtered PCAP is the capture without what the report counts as dropped:
\* the header, then in capture order as many packets as the summary counts as
\* forwarded and, of each flow, as many as its record does, those before the
\* first one dropped.
THEOREM PcapAsReported == Spec => []PcapMatchesReport
<1>1. PcapInv => PcapMatchesReport
  BY DEF PcapInv, PcapOK, PcapMatchesReport, Passed
<1> QED
  BY <1>1, PcapInit, PcapStep, TypeCorrect, TotalsAddUp, PTL DEF Spec

-----------------------------------------------------------------------------
(***************************************************************************)
(* Patterns.                                                               *)
(***************************************************************************)
\* c stands in d after the first i elements.
At(c, d, i) == i + Len(c) <= Len(d) /\ \A k \in 1 .. Len(c) : d[i + k] = c[k]

LEMMA Slice ==
  ASSUME NEW S, NEW c \in Seq(S), NEW d \in Seq(S),
         NEW i \in 0 .. Len(d), NEW j \in i .. Len(d)
  PROVE  SubSeq(d, i + 1, j) = c <=> j = i + Len(c) /\ At(c, d, i)
<1>1. /\ Len(c) \in Nat /\ Len(d) \in Nat /\ i \in Nat /\ j \in Nat /\ i <= j /\ j <= Len(d)
      /\ c = [k \in 1 .. Len(c) |-> c[k]]
  BY LenProperties
<1>2. \A k \in i + 1 .. j : d[k] \in S
  BY <1>1, ElementOfSeq
<1> DEFINE s == SubSeq(d, i + 1, j)
           m == Len(c)
<1>3. s \in Seq(S) /\ Len(s) = j - i /\ \A k \in 1 .. j - i : s[k] = d[i + k]
  <2>1. /\ s \in Seq(S) /\ Len(s) = IF i + 1 <= j THEN j - (i + 1) + 1 ELSE 0
        /\ \A k \in 1 .. j - (i + 1) + 1 : s[k] = d[i + 1 + k - 1]
    BY <1>1, <1>2, SubSeqProperties
  <2> DEFINE r == j - i
  <2>2. j - (i + 1) + 1 = r /\ r \in Nat /\ (i + 1 <= j <=> r # 0)
    BY <1>1
  <2>3. \A k \in 1 .. r : i + 1 + k - 1 = i + k
    BY <1>1
  <2> HIDE DEF s, r
  <2>4. s \in Seq(S) /\ Len(s) = r /\ \A k \in 1 .. r : s[k] = d[i + 1 + k - 1]
    BY <2>1, <2>2
  <2>5. \A k \in 1 .. r : s[k] = d[i + k]
    BY <2>3, <2>4
  <2> QED
    BY <2>4, <2>5 DEF r
<1> HIDE DEF s
<1>4. s = c => j = i + m /\ At(c, d, i)
  BY <1>1, <1>3 DEF At
<1>5. ASSUME j = i + m, At(c, d, i) PROVE s = c
  <2>1. Len(s) = Len(c) /\ \A k \in 1 .. Len(s) : s[k] = c[k]
    BY <1>1, <1>3, <1>5 DEF At
  <2> QED
    BY <1>3, <2>1, SeqEqual
<1> QED
  BY <1>4, <1>5 DEF s, m

LEMMA Ends ==
  ASSUME NEW S, NEW c \in Seq(S), NEW d \in Seq(S)
  PROVE  /\ IsPrefix(c, d) <=> At(c, d, 0)
         /\ IsSuffix(c, d) <=> Len(c) <= Len(d) /\ At(c, d, Len(d) - Len(c))
         /\ Within(c, d) <=> \E i \in 0 .. Len(d) : At(c, d, i)
<1>1. Len(c) \in Nat /\ Len(d) \in Nat
  BY LenProperties
<1>2. IsPrefix(c, d) <=> At(c, d, 0)
  <2>1. SubSeq(c, 1, Len(c)) = c
    BY SubSeqFull
  <2>2. ASSUME Len(c) <= Len(d) PROVE SubSeq(d, 1, Len(c)) = c <=> At(c, d, 0)
    <3>1. 0 \in 0 .. Len(d) /\ Len(c) \in 0 .. Len(d) /\ 0 + 1 = 1 /\ 0 + Len(c) = Len(c)
      BY <1>1, <2>2
    <3> QED
      BY <3>1, Slice
  <2>3. At(c, d, 0) => Len(c) <= Len(d)
    BY <1>1 DEF At
  <2>4. IsPrefix(c, d) <=> Len(c) <= Len(d) /\ c = SubSeq(d, 1, Len(c))
    BY <2>1 DEF IsPrefix
  <2> QED
    BY <2>2, <2>3, <2>4
<1>3. IsSuffix(c, d) <=> Len(c) <= Len(d) /\ At(c, d, Len(d) - Len(c))
  <2> DEFINE rc == Reverse(c)
             rd == Reverse(d)
             m  == Len(c)
             n  == Len(d)
  <2>1. /\ rc \in Seq(S) /\ Len(rc) = m /\ \A k \in 1 .. m : rc[k] = c[m - k + 1]
        /\ rd \in Seq(S) /\ Len(rd) = n /\ \A k \in 1 .. n : rd[k] = d[n - k + 1]
    <3>1. ASSUME NEW s \in Seq(S)
          PROVE  /\ Reverse(s) \in Seq(S) /\ Len(Reverse(s)) = Len(s)
                 /\ \A k \in 1 .. Len(s) : Reverse(s)[k] = s[Len(s) - k + 1]
      <4>1. Len(s) \in Nat /\ \A k \in 1 .. Len(s) : s[k] \in S
        BY LenProperties, ElementOfSeq
      <4>2. \A k \in 1 .. Len(s) : Len(s) - k + 1 \in 1 .. Len(s)
        BY <4>1
      <4> QED
        BY <4>1, <4>2 DEF Reverse
    <3> QED
      BY <3>1
  <2>2. IsPrefix(rc, rd) <=> At(rc, rd, 0)
    <3>1. SubSeq(rc, 1, m) = rc
      BY <2>1, SubSeqFull
    <3>2. ASSUME m <= n PROVE SubSeq(rd, 1, m) = rc <=> At(rc, rd, 0)
      <4>1. 0 \in 0 .. n /\ m \in 0 .. n /\ 0 + 1 = 1 /\ 0 + m = m
        BY <1>1, <3>2
      <4> HIDE DEF rc, rd
      <4> QED
        BY <2>1, <4>1, Slice
    <3> HIDE DEF rc, rd
    <3> QED
      BY <1>1, <2>1, <3>1, <3>2 DEF IsPrefix, At
  <2> HIDE DEF rc, rd, m, n
  <2>3. m \in Nat /\ n \in Nat
    BY <1>1 DEF m, n
  <2>4. ASSUME m <= n
        PROVE  (\A k \in 1 .. m : rd[k] = rc[k]) <=> (\A k \in 1 .. m : d[n - m + k] = c[k])
    <3>1. \A k \in 1 .. m : m - k + 1 \in 1 .. m /\ k \in 1 .. n
      BY <2>3, <2>4
    <3>2. \A k \in 1 .. m : rd[k] = d[n - k + 1] /\ rc[k] = c[m - k + 1]
      BY <2>1, <3>1
    <3>3. \A k \in 1 .. m : n - k + 1 = n - m + (m - k + 1) /\ m - (m - k + 1) + 1 = k
      BY <2>3
    <3>4. ASSUME \A k \in 1 .. m : rd[k] = rc[k], NEW k \in 1 .. m PROVE d[n - m + k] = c[k]
      <4> DEFINE h == m - k + 1
      <4>1. h \in 1 .. m /\ n - h + 1 = n - m + k /\ m - h + 1 = k
        BY <2>3, <3>1
      <4> HIDE DEF h
      <4> QED
        BY <3>2, <3>4, <4>1
    <3>5. ASSUME \A k \in 1 .. m : d[n - m + k] = c[k], NEW k \in 1 .. m PROVE rd[k] = rc[k]
      <4> DEFINE h == m - k + 1
      <4>1. h \in 1 .. m /\ n - k + 1 = n - m + h
        BY <2>3, <3>1
      <4>2. rd[k] = d[n - k + 1] /\ rc[k] = c[h]
        BY <3>2
      <4> HIDE DEF h
      <4> QED
        BY <3>5, <4>1, <4>2
    <3> QED
      BY <3>4, <3>5
  <2>5. At(rc, rd, 0) <=> m <= n /\ \A k \in 1 .. m : rd[k] = rc[k]
    <3>1. At(rc, rd, 0) <=> 0 + m <= n /\ \A k \in 1 .. m : rd[0 + k] = rc[k]
      BY <2>1 DEF At
    <3>2. 0 + m = m /\ \A k \in 1 .. m : 0 + k = k
      BY <2>3
    <3> QED
      BY <3>1, <3>2
  <2>6. ASSUME m <= n PROVE At(c, d, n - m) <=> \A k \in 1 .. m : d[n - m + k] = c[k]
    <3>1. n - m + m <= n
      BY <2>3
    <3> QED
      BY <3>1 DEF At, m, n
  <2>7. IsSuffix(c, d) <=> IsPrefix(rc, rd)
    BY DEF IsSuffix, rc, rd
  <2> QED
    BY <2>2, <2>4, <2>5, <2>6, <2>7 DEF m, n
<1>4. Within(c, d) <=> \E i \in 0 .. Len(d) : At(c, d, i)
  <2>1. \A i \in 0 .. Len(d) - Len(c) : SubSeq(d, i + 1, i + Len(c)) = c <=> At(c, d, i)
    <3> SUFFICES ASSUME NEW i \in 0 .. Len(d) - Len(c)
                 PROVE  SubSeq(d, i + 1, i + Len(c)) = c <=> At(c, d, i)
      OBVIOUS
    <3>1. i \in 0 .. Len(d) /\ i + Len(c) \in i .. Len(d)
      BY <1>1
    <3> QED
      BY <3>1, Slice
  <2>2. \A i \in 0 .. Len(d) : At(c, d, i) => i \in 0 .. Len(d) - Len(c)
    BY <1>1 DEF At
  <2>3. \A i \in 0 .. Len(d) - Len(c) : i \in 0 .. Len(d)
    BY <1>1
  <2> QED
    BY <2>1, <2>2, <2>3 DEF Within
<1> QED
  BY <1>2, <1>3, <1>4

LEMMA SingleProperties ==
  ASSUME NEW S, NEW x \in S
  PROVE  <<x>> \in Seq(S) /\ Len(<<x>>) = 1 /\ <<x>>[1] = x
  OBVIOUS

\* The base of a domain: the domain itself, or what follows one of its dots.
LEMMA Based ==
  ASSUME NEW S, NEW c \in Seq(S), NEW d \in Seq(S), Dot \in S
  PROVE  Subdomain(d, c) <=> \E i \in 0 .. Len(d) :
                               /\ At(c, d, i) /\ i + Len(c) = Len(d)
                               /\ i = 0 \/ d[i] = Dot
<1> DEFINE b == <<Dot>> \o c
           m == Len(c)
           n == Len(d)
<1>1. m \in Nat /\ n \in Nat
  BY LenProperties
<1>2. b \in Seq(S) /\ Len(b) = m + 1 /\ b[1] = Dot /\ \A k \in 1 .. m : b[k + 1] = c[k]
  <2>1. <<Dot>> \in Seq(S) /\ Len(<<Dot>>) = 1 /\ <<Dot>>[1] = Dot
    BY SingleProperties
  <2>2. /\ b \in Seq(S) /\ Len(b) = 1 + m
        /\ \A k \in 1 .. 1 + m : b[k] = IF k <= 1 THEN <<Dot>>[k] ELSE c[k - 1]
    BY <2>1, ConcatProperties
  <2> HIDE DEF b
  <2>3. b[1] = Dot
    <3>1. 1 \in 1 .. 1 + m /\ 1 <= 1
      BY <1>1
    <3> QED
      BY <2>1, <2>2, <3>1
  <2>4. ASSUME NEW k \in 1 .. m PROVE b[k + 1] = c[k]
    <3>1. k + 1 \in 1 .. 1 + m /\ ~(k + 1 <= 1) /\ k + 1 - 1 = k
      BY <1>1
    <3> QED
      BY <2>2, <3>1
  <2> QED
    BY <1>1, <2>2, <2>3, <2>4
<1> HIDE DEF b
<1>3. d = c <=> m = n /\ At(c, d, 0)
  <2>1. SubSeq(d, 0 + 1, n) = d
    BY SubSeqFull
  <2>2. 0 \in 0 .. n /\ n \in 0 .. n
    BY <1>1
  <2>3. d = c <=> n = 0 + m /\ At(c, d, 0)
    BY <2>1, <2>2, Slice
  <2> QED
    BY <1>1, <2>3
<1>4. IsSuffix(b, d) <=> m < n /\ d[n - m] = Dot /\ At(c, d, n - m)
  <2>1. IsSuffix(b, d) <=> m + 1 <= n /\ At(b, d, n - (m + 1))
    BY <1>2, Ends
  <2>2. ASSUME m < n PROVE At(b, d, n - (m + 1)) <=> d[n - m] = Dot /\ At(c, d, n - m)
    <3> DEFINE i == n - (m + 1)
    <3>1. i \in Nat /\ i + 1 = n - m /\ i + (m + 1) <= n /\ n - m + m <= n
      BY <1>1, <2>2
    <3> HIDE DEF i
    <3>2. At(b, d, i) <=> \A k \in 1 .. m + 1 : d[i + k] = b[k]
      BY <1>2, <3>1 DEF At
    <3>3. At(c, d, n - m) <=> \A k \in 1 .. m : d[i + 1 + k] = c[k]
      BY <3>1 DEF At
    <3>4. ASSUME At(b, d, i) PROVE d[n - m] = Dot /\ At(c, d, n - m)
      <4>1. 1 \in 1 .. m + 1 /\ \A k \in 1 .. m : k + 1 \in 1 .. m + 1 /\ i + (k + 1) = i + 1 + k
        BY <1>1, <3>1
      <4> QED
        BY <1>2, <3>1, <3>2, <3>3, <3>4, <4>1
    <3>5. ASSUME d[n - m] = Dot, At(c, d, n - m) PROVE At(b, d, i)
      <4> SUFFICES ASSUME NEW k \in 1 .. m + 1 PROVE d[i + k] = b[k]
        BY <3>2
      <4>1. CASE k = 1
        BY <1>2, <3>1, <3>5, <4>1
      <4>2. CASE k # 1
        <5> DEFINE h == k - 1
        <5>1. h \in 1 .. m /\ k = h + 1 /\ i + k = i + 1 + h
          BY <1>1, <3>1, <4>2
        <5> HIDE DEF h
        <5> QED
          BY <1>2, <3>3, <3>5, <5>1
      <4> QED
        BY <4>1, <4>2
    <3> QED
      BY <3>4, <3>5 DEF i
  <2>3. m + 1 <= n <=> m < n
    BY <1>1
  <2> QED
    BY <2>1, <2>2, <2>3
<1>5. Subdomain(d, c) <=> d = c \/ IsSuffix(b, d)
  BY DEF Subdomain, b
<1>6. ASSUME NEW i \in 0 .. n, i + m = n PROVE i = n - m /\ (i = 0 <=> m = n) /\ (i # 0 <=> m < n)
  BY <1>1, <1>6
<1>7. (\E i \in 0 .. n : At(c, d, i) /\ i + m = n /\ (i = 0 \/ d[i] = Dot))
        => (m = n /\ At(c, d, 0)) \/ (m < n /\ d[n - m] = Dot /\ At(c, d, n - m))
  BY <1>6
<1>8. m = n /\ At(c, d, 0) => \E i \in 0 .. n : At(c, d, i) /\ i + m = n /\ (i = 0 \/ d[i] = Dot)
  <2>1. m = n => 0 \in 0 .. n /\ 0 + m = n
    BY <1>1
  <2> QED
    BY <2>1
<1>9. m < n /\ d[n - m] = Dot /\ At(c, d, n - m)
        => \E i \in 0 .. n : At(c, d, i) /\ i + m = n /\ (i = 0 \/ d[i] = Dot)
  <2>1. m < n => n - m \in 0 .. n /\ n - m + m = n
    BY <1>1
  <2> QED
    BY <2>1
<1> QED
  BY <1>3, <1>4, <1>5, <1>7, <1>8, <1>9

LEMMA InPieces ==
  ASSUME NEW text \in Text
  PROVE  Pieces[text] \in Seq(STRING \cup {Dot})
<1> DEFINE s == Pieces[text]
<1>1. s \in Seq(STRING)
  BY RuleSetAssumption
<1> HIDE DEF s
<1>2. Len(s) \in Nat /\ s = [k \in 1 .. Len(s) |-> s[k]] /\ \A k \in 1 .. Len(s) : s[k] \in STRING
  BY <1>1, LenProperties, ElementOfSeq
<1>3. s \in Seq(STRING \cup {Dot})
  BY <1>2
<1> QED
  BY <1>3 DEF s

\* The five forms that domainMatchesPattern tries one after the other, with the
\* lengths they are tried with, find exactly the domains a pattern stands for.
THEOREM PatternsMean ==
  ASSUME NEW domain \in Text, NEW pattern \in Text
  PROVE  domainMatchesPattern(domain, pattern) <=> Stands(pattern, domain)
<1> DEFINE S     == STRING \cup {Dot}
           d     == Pieces[domain]
           p     == Pieces[pattern]
           size  == Len(p)
           n     == Len(d)
           star  == p[1] = Star
           ends  == p[size] = Star
           sub   == size > 2 /\ p[1] = Star /\ p[2] = Dot
           lead  == ~sub /\ size > 1 /\ p[1] = Star
           first == IF sub THEN 3 ELSE IF lead THEN 2 ELSE 1
           trail == ~sub /\ size > first /\ p[size] = Star
           last  == IF trail THEN size - 1 ELSE size
           core  == SubSeq(p, first, last)
           Fits(i) == /\ i = 0 \/ lead \/ (~trail /\ d[i] = Dot)
                      /\ i + Len(core) = n \/ trail
<1>1. d \in Seq(S) /\ p \in Seq(S) /\ Dot \in S
  BY InPieces
<1>2. size \in Nat /\ n \in Nat /\ (p # <<>> <=> size > 0) /\ (d # <<>> <=> n > 0)
  BY <1>1, LenProperties, EmptySeq
<1> DEFINE mid   == star /\ ends /\ size > 2 /\ ~sub
           matches == domainMatchesPattern(domain, pattern)
<1>3. matches <=>
        /\ d # <<>> /\ p # <<>>
        /\ CASE sub -> Subdomain(d, SubSeq(p, 3, size))
             [] mid -> Within(SubSeq(p, 2, size - 1), d)
             [] star /\ size > 1 /\ ~sub /\ ~mid -> IsSuffix(SubSeq(p, 2, size), d)
             [] ends /\ ~star -> IsPrefix(SubSeq(p, 1, size - 1), d)
             [] OTHER -> Subdomain(d, p)
  BY DEF domainMatchesPattern
<1>4. Stands(pattern, domain) <=>
        /\ core # <<>>
        /\ \E i \in 0 .. n : \E j \in i .. n :
             /\ SubSeq(d, i + 1, j) = core
             /\ i = 0 \/ lead \/ (~trail /\ d[i] = Dot)
             /\ j = n \/ trail
  BY DEF Stands
<1> HIDE DEF S, d, p, size, n, matches
<1>5. /\ 1 <= first /\ first \in Nat /\ last \in Nat /\ last <= size
      /\ size > 0 => first <= last
      /\ size = 0 => last < first
  BY <1>2
<1> HIDE DEF first, last
<1>6. core \in Seq(S) /\ Len(core) \in Nat /\ Len(core) = IF size > 0 THEN last - first + 1 ELSE 0
  <2>1. \A k \in first .. last : p[k] \in S
    <3>1. \A k \in first .. last : k \in 1 .. size
      BY <1>2, <1>5
    <3> QED
      BY <1>1, <3>1, ElementOfSeq DEF size
  <2>2. core \in Seq(S) /\ Len(core) = IF first <= last THEN last - first + 1 ELSE 0
    BY <1>5, <2>1, SubSeqProperties
  <2> HIDE DEF core
  <2> QED
    BY <1>2, <1>5, <2>2
<1> HIDE DEF core
<1>7. core # <<>> <=> size > 0
  BY <1>2, <1>5, <1>6, EmptySeq
<1>8. size > 0 => Len(core) > 0
  BY <1>2, <1>5, <1>6
<1> HIDE DEF sub, lead, trail, star, ends, mid
<1>9. Stands(pattern, domain) <=> size > 0 /\ \E i \in 0 .. n : At(core, d, i) /\ Fits(i)
  <2>1. \A i \in 0 .. n : \A j \in i .. n :
          SubSeq(d, i + 1, j) = core <=> j = i + Len(core) /\ At(core, d, i)
    BY <1>1, <1>6, Slice DEF n
  <2>2. \A i \in 0 .. n : At(core, d, i) => i + Len(core) \in i .. n
    BY <1>2, <1>6 DEF At, n
  <2> QED
    BY <1>4, <1>7, <2>1, <2>2
<1>10. \A i \in 0 .. n : At(core, d, i) /\ size > 0 => d # <<>>
  BY <1>2, <1>6, <1>8 DEF At, n
<1> DEFINE fits == \E i \in 0 .. n : At(core, d, i) /\ Fits(i)
<1> SUFFICES ASSUME size > 0, d # <<>>
             PROVE  matches <=> fits
  BY <1>2, <1>3, <1>9, <1>10 DEF matches
<1>11. /\ p # <<>>
       /\ sub => star /\ ~mid /\ ~lead /\ ~trail /\ first = 3 /\ last = size
       /\ mid => star /\ ends /\ ~sub /\ lead /\ trail /\ first = 2 /\ last = size - 1
       /\ star /\ size > 1 /\ ~sub /\ ~mid => lead /\ ~trail /\ first = 2 /\ last = size
       /\ ends /\ ~star => ~sub /\ ~mid /\ ~lead /\ trail /\ first = 1 /\ last = size - 1
       /\ ~sub /\ ~mid /\ ~(star /\ size > 1) /\ ~(ends /\ ~star) =>
            ~lead /\ ~trail /\ first = 1 /\ last = size
  BY <1>2 DEF sub, lead, trail, star, ends, mid, first, last
<1>12. /\ IsPrefix(core, d) <=> At(core, d, 0)
       /\ IsSuffix(core, d) <=> Len(core) <= n /\ At(core, d, n - Len(core))
       /\ Within(core, d) <=> \E i \in 0 .. n : At(core, d, i)
       /\ Subdomain(d, core) <=> \E i \in 0 .. n : /\ At(core, d, i) /\ i + Len(core) = n
                                                   /\ i = 0 \/ d[i] = Dot
  BY <1>1, <1>6, Ends, Based DEF n
<1>13. CASE sub
  <2>1. core = SubSeq(p, 3, size)
    BY <1>11, <1>13 DEF core
  <2>2. matches <=> Subdomain(d, core)
    BY <1>3, <1>11, <1>13, <2>1
  <2> QED
    BY <1>11, <1>12, <1>13, <2>2
<1>14. CASE mid
  <2>1. core = SubSeq(p, 2, size - 1)
    BY <1>11, <1>14 DEF core
  <2>2. matches <=> Within(core, d)
    BY <1>3, <1>11, <1>14, <2>1
  <2> QED
    BY <1>11, <1>12, <1>14, <2>2
<1>15. CASE star /\ size > 1 /\ ~sub /\ ~mid
  <2>1. core = SubSeq(p, 2, size)
    BY <1>11, <1>15 DEF core
  <2>2. matches <=> IsSuffix(core, d)
    BY <1>3, <1>11, <1>15, <2>1
  <2>3. fits <=> \E i \in 0 .. n : At(core, d, i) /\ i + Len(core) = n
    BY <1>11, <1>15
  <2>4. (\E i \in 0 .. n : At(core, d, i) /\ i + Len(core) = n)
          <=> Len(core) <= n /\ At(core, d, n - Len(core))
    <3> DEFINE m == Len(core)
    <3>1. m \in Nat
      BY <1>6
    <3> HIDE DEF m
    <3>2. \A i \in 0 .. n : i + m = n => i = n - m /\ m <= n
      BY <1>2, <3>1
    <3>3. m <= n => n - m \in 0 .. n /\ n - m + m = n
      BY <1>2, <3>1
    <3>4. (\E i \in 0 .. n : At(core, d, i) /\ i + m = n) <=> m <= n /\ At(core, d, n - m)
      BY <3>2, <3>3
    <3> QED
      BY <3>4 DEF m
  <2> QED
    BY <1>12, <2>2, <2>3, <2>4
<1>16. CASE ends /\ ~star
  <2>1. core = SubSeq(p, 1, size - 1)
    BY <1>11, <1>16 DEF core
  <2>2. matches <=> IsPrefix(core, d)
    BY <1>3, <1>11, <1>16, <2>1
  <2>3. 0 \in 0 .. n
    BY <1>2
  <2>4. fits <=> At(core, d, 0)
    BY <1>11, <1>16, <2>3
  <2> QED
    BY <1>12, <2>2, <2>4
<1>17. CASE ~sub /\ ~mid /\ ~(star /\ size > 1) /\ ~(ends /\ ~star)
  <2>1. core = p
    <3>1. core = SubSeq(p, 1, size)
      BY <1>11, <1>17 DEF core
    <3> QED
      BY <1>1, <3>1, SubSeqFull DEF size
  <2>2. matches <=> Subdomain(d, core)
    BY <1>3, <1>11, <1>17, <2>1
  <2> QED
    BY <1>11, <1>12, <1>17, <2>2
<1> QED
  BY <1>13, <1>14, <1>15, <1>16, <1>17

-----------------------------------------------------------------------------
(***************************************************************************)
(* Loading the rules.                                                      *)
(***************************************************************************)
IsRule(line) == line.form \in {"pair", "value"}

\* The rule on line i, and those on the lines before line m.
RuleOn(lines, i) ==
  <<IF lines[i].form = "pair" THEN lines[i].key ELSE SectionAt(lines, i), lines[i].value>>
RulesBefore(lines, m) ==
  {RuleOn(lines, i) : i \in {j \in 1 .. Len(lines) : j < m /\ IsRule(lines[j])}}

Choice(c) == <<c.key, c.value>>

\* What has been taken from the user when line l of file f is next: the files
\* before f, and the lines or, after the last file, the options before l.
FilesBefore(f) ==
  UNION {GivenIn(given.files[i].lines) : i \in {j \in 1 .. Len(given.files) : j < f}}
OptionsBefore(l) == {Choice(given.cli[i]) : i \in {j \in 1 .. Len(given.cli) : j < l}}

TakenAt(f, l) ==
  FilesBefore(f) \cup IF f <= Len(given.files) THEN RulesBefore(given.files[f].lines, l)
                      ELSE OptionsBefore(l)

Taken == TakenAt(loading.file, loading.line)

\* The rules in force when the rules of T have been added.
ValuesIn(T, keys) == {g[2] : g \in {h \in T : h[1] \in keys}}

RulesOf(T) == [ips     |-> ValuesIn(T, IPKey),
               ports   |-> {Number[v] : v \in ValuesIn(T, PortKey)},
               apps    |-> {appFromString(v) : v \in ValuesIn(T, AppKey)},
               domains |-> ValuesIn(T, DomainKey)]

\* What loading keeps: the section is that of the line to be read, the rules in
\* force are those taken, all of them accepted, and no packet is read before
\* there is nothing left to take.
LoadInv ==
  /\ loading.file <= Len(given.files) =>
       loading.section = SectionAt(Current.lines, loading.line)
  /\ rules = RulesOf(Taken)
  /\ \A g \in Taken : Accepts(g[1], g[2]) /\ g[2] \in Text
  /\ phase \in {"open", "read", "report"} \/ capture # <<>> =>
       loading.file > Len(given.files) /\ loading.line > Len(given.cli)

LEMMA OneMoreRule ==
  ASSUME NEW T, NEW key, NEW value
  PROVE  RulesOf(T \cup {<<key, value>>}) = Add(RulesOf(T), key, value)
<1> DEFINE g == <<key, value>>
           U == T \cup {g}
           r == RulesOf(T)
<1>1. g[1] = key /\ g[2] = value
  OBVIOUS
<1> HIDE DEF g
<1>2. \A K : ValuesIn(U, K) = IF key \in K THEN ValuesIn(T, K) \cup {value} ELSE ValuesIn(T, K)
  <2> SUFFICES ASSUME NEW K
               PROVE  ValuesIn(U, K) =
                        IF key \in K THEN ValuesIn(T, K) \cup {value} ELSE ValuesIn(T, K)
    OBVIOUS
  <2>1. CASE key \in K
    <3>1. {k \in U : k[1] \in K} = {k \in T : k[1] \in K} \cup {g}
      BY <1>1, <2>1
    <3> QED
      BY <1>1, <2>1, <3>1 DEF ValuesIn
  <2>2. CASE key \notin K
    <3>1. {k \in U : k[1] \in K} = {k \in T : k[1] \in K}
      BY <1>1, <2>2
    <3> QED
      BY <2>2, <3>1 DEF ValuesIn
  <2> QED
    BY <2>1, <2>2
<1> HIDE DEF U
<1>3. r = [ips     |-> ValuesIn(T, IPKey),
           ports   |-> {Number[v] : v \in ValuesIn(T, PortKey)},
           apps    |-> {appFromString(v) : v \in ValuesIn(T, AppKey)},
           domains |-> ValuesIn(T, DomainKey)]
  BY DEF RulesOf
<1>4. /\ ValuesIn(U, IPKey) = IF key \in IPKey THEN r.ips \cup {value} ELSE r.ips
      /\ ValuesIn(U, DomainKey) = IF key \in DomainKey THEN r.domains \cup {value} ELSE r.domains
  BY <1>2, <1>3
<1>5. {appFromString(v) : v \in ValuesIn(U, AppKey)} =
        IF key \in AppKey THEN r.apps \cup {appFromString(value)} ELSE r.apps
  <2>1. r.apps = {appFromString(v) : v \in ValuesIn(T, AppKey)}
    BY <1>3
  <2>2. CASE key \in AppKey
    <3>1. ValuesIn(U, AppKey) = ValuesIn(T, AppKey) \cup {value}
      BY <1>2, <2>2
    <3> QED
      BY <2>1, <2>2, <3>1
  <2>3. CASE key \notin AppKey
    BY <1>2, <2>1, <2>3
  <2> QED
    BY <2>2, <2>3
<1>6. {Number[v] : v \in ValuesIn(U, PortKey)} =
        IF key \in PortKey THEN r.ports \cup {Number[value]} ELSE r.ports
  <2>1. r.ports = {Number[v] : v \in ValuesIn(T, PortKey)}
    BY <1>3
  <2>2. CASE key \in PortKey
    <3>1. ValuesIn(U, PortKey) = ValuesIn(T, PortKey) \cup {value}
      BY <1>2, <2>2
    <3> QED
      BY <2>1, <2>2, <3>1
  <2>3. CASE key \notin PortKey
    BY <1>2, <2>1, <2>3
  <2> QED
    BY <2>2, <2>3
<1> DEFINE ips     == IF key \in IPKey THEN r.ips \cup {value} ELSE r.ips
           apps    == IF key \in AppKey THEN r.apps \cup {appFromString(value)} ELSE r.apps
           domains == IF key \in DomainKey THEN r.domains \cup {value} ELSE r.domains
           ports   == IF key \in PortKey THEN r.ports \cup {Number[value]} ELSE r.ports
<1>7. Add(r, key, value) = [r EXCEPT !.ips = ips, !.apps = apps, !.domains = domains, !.ports = ports]
  BY DEF Add
<1>8. RulesOf(U) = [ips |-> ips, ports |-> ports, apps |-> apps, domains |-> domains]
  BY <1>4, <1>5, <1>6 DEF RulesOf
<1> HIDE DEF ips, apps, domains, ports, r
<1>9. Add(r, key, value) = [ips |-> ips, ports |-> ports, apps |-> apps, domains |-> domains]
  BY <1>3, <1>7
<1> QED
  BY <1>8, <1>9 DEF U, g, r

\* The section of the next line.
LEMMA NextSection ==
  ASSUME NEW lines, NEW l \in Nat \ {0}
  PROVE  /\ SectionAt(lines, 1) = NoSection
         /\ SectionAt(lines, l + 1) =
              IF lines[l].form = "section" THEN lines[l].key ELSE SectionAt(lines, l)
<1> DEFINE Above(i) == {j \in 1 .. i - 1 : lines[j].form = "section"}
<1>1. \A i : SectionAt(lines, i) = IF Above(i) = {} THEN NoSection ELSE lines[Max(Above(i))].key
  BY DEF SectionAt
<1>2. Above(1) = {}
  OBVIOUS
<1>3. Above(l + 1) = Above(l) \cup {j \in {l} : lines[j].form = "section"}
  <2>1. 1 .. l + 1 - 1 = 1 .. l - 1 \cup {l}
    OBVIOUS
  <2> QED
    BY <2>1
<1>4. \A j \in Above(l) : j < l /\ j \in Nat
  OBVIOUS
<1> HIDE DEF Above
<1>5. CASE lines[l].form = "section"
  <2>1. Above(l + 1) = Above(l) \cup {l}
    BY <1>3, <1>5
  <2>2. \A j \in Above(l + 1) : l >= j
    BY <1>4, <2>1
  <2>3. \A x \in Above(l + 1) : (\A y \in Above(l + 1) : x >= y) => x = l
    <3> SUFFICES ASSUME NEW x \in Above(l + 1), x >= l PROVE x = l
      BY <2>1
    <3> QED
      BY <1>4, <2>1
  <2>4. l \in Above(l + 1)
    BY <2>1
  <2>5. Max(Above(l + 1)) = l
    BY <2>2, <2>3, <2>4 DEF Max
  <2> QED
    BY <1>1, <1>2, <1>5, <2>4, <2>5
<1>6. CASE lines[l].form # "section"
  <2>1. Above(l + 1) = Above(l)
    BY <1>3, <1>6
  <2> QED
    BY <1>1, <1>2, <1>6, <2>1
<1> QED
  BY <1>5, <1>6

\* What is taken with one line more, with the next file, and with one option more.
LEMMA LineTaken ==
  ASSUME given \in UserRules, NEW f \in 1 .. Len(given.files),
         NEW lines, lines = given.files[f].lines, NEW l \in 1 .. Len(lines)
  PROVE  /\ IsRule(lines[l]) => TakenAt(f, l + 1) = TakenAt(f, l) \cup {RuleOn(lines, l)}
         /\ ~IsRule(lines[l]) => TakenAt(f, l + 1) = TakenAt(f, l)
<1>1. Len(given.files) \in Nat /\ Len(lines) \in Nat
  BY Written
<1>2. /\ IsRule(lines[l]) => RulesBefore(lines, l + 1) = RulesBefore(lines, l) \cup {RuleOn(lines, l)}
      /\ ~IsRule(lines[l]) => RulesBefore(lines, l + 1) = RulesBefore(lines, l)
  <2>1. {j \in 1 .. Len(lines) : j < l + 1 /\ IsRule(lines[j])} =
          {j \in 1 .. Len(lines) : j < l /\ IsRule(lines[j])} \cup {j \in {l} : IsRule(lines[j])}
    BY <1>1
  <2> QED
    BY <2>1 DEF RulesBefore
<1>3. f <= Len(given.files)
  BY <1>1
<1> QED
  BY <1>2, <1>3 DEF TakenAt

LEMMA AllLines ==
  ASSUME NEW lines, Len(lines) \in Nat, lines \in Seq(Line), NEW m \in Nat
  PROVE  /\ RulesBefore(lines, m) \subseteq GivenIn(lines)
         /\ m > Len(lines) => RulesBefore(lines, m) = GivenIn(lines)
         /\ RulesBefore(lines, 1) = {}
<1>1. DOMAIN lines = 1 .. Len(lines)
  OBVIOUS
<1>2. GivenIn(lines) = {RuleOn(lines, i) : i \in {j \in 1 .. Len(lines) : IsRule(lines[j])}}
  BY <1>1 DEF GivenIn, RuleOn, IsRule
<1>3. /\ {j \in 1 .. Len(lines) : j < m /\ IsRule(lines[j])} \subseteq
           {j \in 1 .. Len(lines) : IsRule(lines[j])}
      /\ m > Len(lines) => {j \in 1 .. Len(lines) : j < m /\ IsRule(lines[j])} =
                             {j \in 1 .. Len(lines) : IsRule(lines[j])}
      /\ {j \in 1 .. Len(lines) : j < 1 /\ IsRule(lines[j])} = {}
  OBVIOUS
<1> QED
  BY <1>2, <1>3 DEF RulesBefore

LEMMA FileTaken ==
  ASSUME given \in UserRules, NEW f \in 1 .. Len(given.files), NEW l \in Nat,
         l > Len(given.files[f].lines)
  PROVE  TakenAt(f + 1, 1) = TakenAt(f, l)
<1> DEFINE n == Len(given.files)
<1>1. n \in Nat /\ \A i \in 1 .. n : /\ given.files[i].lines \in Seq(Line)
                                     /\ Len(given.files[i].lines) \in Nat
  <2>1. given.files \in Seq(File)
    BY AnalyzerAssumption
  <2>2. n \in Nat /\ \A i \in 1 .. n : given.files[i] \in File
    BY <2>1, LenProperties, ElementOfSeq
  <2>3. \A file \in File : file.lines \in Seq(Line)
    BY DEF File
  <2> QED
    BY <2>2, <2>3, Written
<1>2. FilesBefore(f + 1) = FilesBefore(f) \cup GivenIn(given.files[f].lines)
  <2>1. {j \in 1 .. n : j < f + 1} = {j \in 1 .. n : j < f} \cup {f}
    BY <1>1
  <2> QED
    BY <2>1 DEF FilesBefore
<1>3. TakenAt(f, l) = FilesBefore(f) \cup GivenIn(given.files[f].lines)
  <2>1. RulesBefore(given.files[f].lines, l) = GivenIn(given.files[f].lines)
    BY <1>1, AllLines
  <2>2. f <= n
    BY <1>1
  <2> QED
    BY <2>1, <2>2 DEF TakenAt
<1>4. TakenAt(f + 1, 1) = FilesBefore(f + 1)
  <2>1. CASE f + 1 <= n
    <3>1. f + 1 \in 1 .. n
      BY <1>1, <2>1
    <3>2. RulesBefore(given.files[f + 1].lines, 1) = {}
      BY <1>1, <3>1, AllLines
    <3> QED
      BY <2>1, <3>2 DEF TakenAt
  <2>2. CASE ~(f + 1 <= n)
    <3>1. OptionsBefore(1) = {}
      BY Written DEF OptionsBefore
    <3> QED
      BY <2>2, <3>1 DEF TakenAt
  <2> QED
    BY <2>1, <2>2
<1> QED
  BY <1>2, <1>3, <1>4

LEMMA OptionTaken ==
  ASSUME given \in UserRules, NEW f \in Nat, f > Len(given.files), NEW l \in 1 .. Len(given.cli)
  PROVE  TakenAt(f, l + 1) = TakenAt(f, l) \cup {Choice(given.cli[l])}
<1>1. Len(given.files) \in Nat /\ Len(given.cli) \in Nat
  BY Written
<1>2. {j \in 1 .. Len(given.cli) : j < l + 1} = {j \in 1 .. Len(given.cli) : j < l} \cup {l}
  BY <1>1
<1>3. ~(f <= Len(given.files))
  BY <1>1
<1>4. OptionsBefore(l + 1) = OptionsBefore(l) \cup {Choice(given.cli[l])}
  BY <1>2 DEF OptionsBefore
<1> QED
  BY <1>3, <1>4 DEF TakenAt

LEMMA AllTaken ==
  ASSUME given \in UserRules, NEW f \in Nat \ {0}, NEW l \in Nat
  PROVE  /\ TakenAt(f, l) \subseteq Given
         /\ f > Len(given.files) /\ l > Len(given.cli) => TakenAt(f, l) = Given
<1> DEFINE n == Len(given.files)
           m == Len(given.cli)
           fromFiles == UNION {GivenIn(given.files[i].lines) : i \in 1 .. n}
           fromCli   == {Choice(given.cli[i]) : i \in 1 .. m}
<1>1. given.files \in Seq(File) /\ given.cli \in Seq(CliRule)
  BY AnalyzerAssumption
<1>2. n \in Nat /\ m \in Nat /\ DOMAIN given.files = 1 .. n /\ DOMAIN given.cli = 1 .. m
  BY <1>1
<1>3. \A i \in 1 .. n : given.files[i].lines \in Seq(Line) /\ Len(given.files[i].lines) \in Nat
  <2>1. \A i \in 1 .. n : given.files[i] \in File
    BY <1>1, ElementOfSeq
  <2>2. \A file \in File : file.lines \in Seq(Line)
    BY DEF File
  <2> QED
    BY <2>1, <2>2, Written
<1>4. Given = fromFiles \cup fromCli
  <2>1. /\ ToSet(given.files) = {given.files[i] : i \in 1 .. n}
        /\ ToSet(given.cli) = {given.cli[i] : i \in 1 .. m}
    BY <1>2 DEF ToSet
  <2>2. {<<c.key, c.value>> : c \in ToSet(given.cli)} = fromCli
    BY <2>1 DEF Choice
  <2>3. {GivenIn(file.lines) : file \in ToSet(given.files)} = {GivenIn(given.files[i].lines) : i \in 1 .. n}
    BY <2>1
  <2> DEFINE files == UNION {GivenIn(file.lines) : file \in ToSet(given.files)}
             cli   == {<<c.key, c.value>> : c \in ToSet(given.cli)}
  <2>4. Given = files \cup cli
    BY DEF Given
  <2>5. files = fromFiles
    BY <2>3
  <2> HIDE DEF fromFiles, fromCli, files
  <2> QED
    BY <2>2, <2>4, <2>5
<1>5. \A i \in 1 .. n : RulesBefore(given.files[i].lines, l) \subseteq GivenIn(given.files[i].lines)
  BY <1>3, AllLines
<1>6. FilesBefore(f) \subseteq fromFiles /\ OptionsBefore(l) \subseteq fromCli
  BY DEF FilesBefore, OptionsBefore
<1>7. CASE f <= n
  <2>1. f \in 1 .. n /\ ~(f > n)
    BY <1>2, <1>7
  <2>2. RulesBefore(given.files[f].lines, l) \subseteq fromFiles
    BY <1>5, <2>1
  <2>3. TakenAt(f, l) = FilesBefore(f) \cup RulesBefore(given.files[f].lines, l)
    BY <1>7 DEF TakenAt
  <2> HIDE DEF fromFiles, fromCli
  <2> QED
    BY <1>4, <1>6, <2>1, <2>2, <2>3
<1>8. CASE ~(f <= n)
  <2>1. {j \in 1 .. n : j < f} = 1 .. n
    BY <1>2, <1>8
  <2>2. FilesBefore(f) = fromFiles
    BY <2>1 DEF FilesBefore
  <2>3. TakenAt(f, l) = FilesBefore(f) \cup OptionsBefore(l)
    BY <1>8 DEF TakenAt
  <2>4. l > m => {j \in 1 .. m : j < l} = 1 .. m
    BY <1>2
  <2>5. l > m => OptionsBefore(l) = fromCli
    BY <2>4 DEF OptionsBefore
  <2> HIDE DEF fromFiles, fromCli
  <2> QED
    BY <1>4, <1>6, <2>2, <2>3, <2>5
<1> QED
  BY <1>7, <1>8

LEMMA Retaking ==
  ASSUME UNCHANGED given
  PROVE  /\ \A i, m : TakenAt(i, m)' = TakenAt(i, m)
         /\ Given' = Given
<1>1. /\ \A i : FilesBefore(i)' = FilesBefore(i)
      /\ \A i : OptionsBefore(i)' = OptionsBefore(i)
      /\ Given' = Given
  BY DEF FilesBefore, OptionsBefore, Given, GivenIn, Choice
<1>2. \A i, m : RulesBefore(given.files[i].lines, m)' = RulesBefore(given.files[i].lines, m)
  BY DEF RulesBefore, RuleOn, IsRule, SectionAt
<1> QED
  BY <1>1, <1>2 DEF TakenAt

LEMMA LoadInit == Init => LoadInv
<1> SUFFICES ASSUME Init PROVE LoadInv
  OBVIOUS
<1>1. /\ loading.file = 1 /\ loading.line = 1 /\ loading.section = NoSection
      /\ given \in UserRules /\ rules = EmptyRules /\ phase = "rules" /\ capture = <<>>
  BY DEF Init, FirstLine
<1>2. Len(given.files) \in Nat /\ Len(given.cli) \in Nat
  BY <1>1, Written
<1>3. Taken = {}
  <2>1. FilesBefore(1) = {} /\ OptionsBefore(1) = {}
    BY <1>2 DEF FilesBefore, OptionsBefore
  <2>2. \A lines : RulesBefore(lines, 1) = {}
    BY DEF RulesBefore
  <2> QED
    BY <1>1, <2>1, <2>2 DEF Taken, TakenAt
<1>4. RulesOf({}) = EmptyRules
  <2>1. \A K : ValuesIn({}, K) = {}
    BY DEF ValuesIn
  <2> QED
    BY <2>1 DEF RulesOf, EmptyRules
<1>5. loading.section = SectionAt(Current.lines, loading.line)
  BY <1>1, NextSection
<1> QED
  BY <1>1, <1>3, <1>4, <1>5 DEF LoadInv

LEMMA LoadStep == TypeOK /\ LoadInv /\ [Next]_vars => LoadInv'
<1> SUFFICES ASSUME TypeOK, LoadInv, [Next]_vars PROVE LoadInv'
  OBVIOUS
<1>f. PICK f : f = loading.file
  OBVIOUS
<1>l. PICK l : l = loading.line
  OBVIOUS
<1>t. /\ given \in UserRules /\ f \in 1 .. Len(given.files) + 1 /\ l \in Nat \ {0}
      /\ Len(given.files) \in Nat /\ Len(given.cli) \in Nat
      /\ loading \in [file : 1 .. Len(given.files) + 1, line : Nat \ {0},
                      section : {NoSection} \cup STRING]
  BY <1>f, <1>l, Written DEF TypeOK
<1>i. /\ f <= Len(given.files) => loading.section = SectionAt(given.files[f].lines, l)
      /\ rules = RulesOf(TakenAt(f, l))
      /\ \A g \in TakenAt(f, l) : Accepts(g[1], g[2]) /\ g[2] \in Text
      /\ phase \in {"open", "read", "report"} \/ capture # <<>> =>
           f > Len(given.files) /\ l > Len(given.cli)
  BY <1>f, <1>l DEF LoadInv, Taken, Current
<1>s. ASSUME UNCHANGED given, NEW m, NEW k, loading'.file = m, loading'.line = k,
             m <= Len(given.files) => loading'.section = SectionAt(given.files[m].lines, k),
             rules' = RulesOf(TakenAt(m, k)),
             \A g \in TakenAt(m, k) : Accepts(g[1], g[2]) /\ g[2] \in Text,
             phase' \in {"open", "read", "report"} \/ capture' # <<>> =>
               m > Len(given.files) /\ k > Len(given.cli)
      PROVE  LoadInv'
  <2>1. Taken' = TakenAt(m, k)
    BY <1>s, Retaking DEF Taken
  <2>2. /\ RulesOf(Taken)' = RulesOf(Taken')
        /\ \A g : Accepts(g[1], g[2])' = Accepts(g[1], g[2])
        /\ SectionAt(Current.lines, loading.line)' = SectionAt(Current'.lines, loading'.line)
    BY DEF RulesOf, ValuesIn, SectionAt, Accepts, appFromString
  <2>3. Current' = given.files[m]
    BY <1>s DEF Current
  <2> QED
    BY <1>s, <2>1, <2>2, <2>3 DEF LoadInv
<1> HIDE DEF LoadInv
<1>1. CASE UNCHANGED <<given, loading, rules>> /\ (phase' \in {"open", "read", "report"} \/ capture' # <<>> =>
                                                     phase \in {"open", "read", "report"} \/ capture # <<>>)
  BY <1>f, <1>l, <1>i, <1>s, <1>1
<1>2. CASE RuleError /\ phase = "rules"
  BY <1>1, <1>2 DEF RuleError, data
<1>3. ASSUME NEW key, NEW value \in Text, AddRule(key, value), phase = "rules",
             TakenAt(f, l + 1) = TakenAt(f, l) \cup {<<key, value>>},
             f <= Len(given.files) => SectionAt(given.files[f].lines, l + 1) = loading.section
      PROVE  LoadInv'
  <2>1. CASE ~Accepts(key, value)
    BY <1>2, <1>3, <2>1 DEF AddRule
  <2>2. CASE Accepts(key, value)
    <3>1. /\ rules' = Add(rules, key, value) /\ phase' = "rules" /\ capture' = capture
          /\ UNCHANGED given /\ loading' = [loading EXCEPT !.line = @ + 1]
      BY <1>3, <2>2 DEF AddRule, Advance, data
    <3>2. loading'.file = f /\ loading'.line = l + 1 /\ loading'.section = loading.section
      BY <1>f, <1>l, <1>t, <3>1
    <3>3. rules' = RulesOf(TakenAt(f, l + 1))
      BY <1>i, <1>3, <3>1, OneMoreRule
    <3>4. \A g \in TakenAt(f, l + 1) : Accepts(g[1], g[2]) /\ g[2] \in Text
      <4> DEFINE new == <<key, value>>
      <4>1. new[1] = key /\ new[2] = value
        OBVIOUS
      <4>2. TakenAt(f, l + 1) = TakenAt(f, l) \cup {new}
        BY <1>3
      <4> HIDE DEF new
      <4> QED
        BY <1>i, <1>3, <2>2, <4>1, <4>2
    <3>5. phase' \in {"open", "read", "report"} \/ capture' # <<>> =>
            f > Len(given.files) /\ l + 1 > Len(given.cli)
      <4>1. l > Len(given.cli) => l + 1 > Len(given.cli)
        BY <1>t
      <4> QED
        BY <1>i, <3>1, <4>1
    <3> QED
      BY <1>s, <1>3, <3>1, <3>2, <3>3, <3>4, <3>5
  <2> QED
    BY <2>1, <2>2
<1>4. ASSUME InFile
      PROVE  /\ f \in 1 .. Len(given.files) /\ l \in 1 .. Len(given.files[f].lines)
             /\ RuleLine = given.files[f].lines[l] /\ RuleLine \in Line /\ phase = "rules"
             /\ \A i : i = f => f <= Len(given.files)
  <2>1. /\ phase = "rules" /\ f <= Len(given.files) /\ l <= Len(given.files[f].lines)
        /\ RuleLine = given.files[f].lines[l]
    BY <1>f, <1>l, <1>4 DEF InFile, Loading, Current, RuleLine
  <2>2. f \in 1 .. Len(given.files)
    BY <1>t, <2>1
  <2>3. Len(given.files[f].lines) \in Nat
    BY <1>t, <2>2, Written
  <2>4. l \in 1 .. Len(given.files[f].lines)
    BY <1>t, <2>1, <2>3
  <2> QED
    BY <1>t, <2>1, <2>2, <2>4, Written
<1>5. ASSUME InFile PROVE
        /\ IsRule(RuleLine) => TakenAt(f, l + 1) = TakenAt(f, l) \cup {RuleOn(given.files[f].lines, l)}
        /\ ~IsRule(RuleLine) => TakenAt(f, l + 1) = TakenAt(f, l)
        /\ SectionAt(given.files[f].lines, l + 1) =
             IF RuleLine.form = "section" THEN RuleLine.key ELSE loading.section
  <2> DEFINE lines == given.files[f].lines
  <2>1. lines = given.files[f].lines /\ f \in 1 .. Len(given.files) /\ l \in 1 .. Len(lines)
        /\ RuleLine = lines[l] /\ l \in Nat \ {0}
    BY <1>t, <1>4, <1>5
  <2> HIDE DEF lines
  <2>2. /\ IsRule(lines[l]) => TakenAt(f, l + 1) = TakenAt(f, l) \cup {RuleOn(lines, l)}
        /\ ~IsRule(lines[l]) => TakenAt(f, l + 1) = TakenAt(f, l)
    <3>1. /\ given \in UserRules /\ f \in 1 .. Len(given.files)
          /\ lines = given.files[f].lines /\ l \in 1 .. Len(lines)
      BY <1>t, <2>1
    <3> QED
      BY <3>1, LineTaken
  <2>3. SectionAt(lines, l + 1) = IF lines[l].form = "section" THEN lines[l].key ELSE SectionAt(lines, l)
    BY <2>1, NextSection
  <2>4. loading.section = SectionAt(lines, l)
    BY <1>i, <1>t, <2>1
  <2> QED
    BY <2>1, <2>2, <2>3, <2>4
<1>6. CASE AddLine
  <2> DEFINE lines == given.files[f].lines
             key   == IF RuleLine.form = "pair" THEN RuleLine.key ELSE loading.section
  <2>1. InFile /\ IsRule(RuleLine) /\ AddRule(key, RuleLine.value) /\ RuleLine.form # "section"
    BY <1>6 DEF AddLine, IsRule
  <2>2. RuleLine.value \in Text
    BY <1>4, <2>1 DEF Line
  <2>3. RuleOn(lines, l) = <<key, RuleLine.value>>
    BY <1>4, <1>i, <1>t, <2>1 DEF RuleOn
  <2> HIDE DEF key, lines
  <2>4. TakenAt(f, l + 1) = TakenAt(f, l) \cup {<<key, RuleLine.value>>}
    BY <1>5, <2>1, <2>3 DEF lines
  <2>5. f <= Len(given.files) => SectionAt(given.files[f].lines, l + 1) = loading.section
    BY <1>5, <2>1
  <2> QED
    BY <1>3, <1>4, <2>1, <2>2, <2>4, <2>5
<1>7. CASE BlankLine \/ SectionLine
  <2>1. /\ InFile /\ ~IsRule(RuleLine) /\ phase = "rules" /\ phase' = "rules"
        /\ UNCHANGED <<rules, given, capture>>
        /\ loading'.file = f /\ loading'.line = l + 1
        /\ loading'.section = IF RuleLine.form = "section" THEN RuleLine.key ELSE loading.section
    BY <1>t, <1>f, <1>l, <1>7 DEF BlankLine, SectionLine, Advance, IsRule, data, InFile, Loading
  <2>2. TakenAt(f, l + 1) = TakenAt(f, l) /\ loading'.section = SectionAt(given.files[f].lines, l + 1)
    BY <1>5, <2>1
  <2>3. phase' \in {"open", "read", "report"} \/ capture' # <<>> =>
          f > Len(given.files) /\ l + 1 > Len(given.cli)
    <3>1. l > Len(given.cli) => l + 1 > Len(given.cli)
      BY <1>t
    <3> QED
      BY <1>i, <2>1, <3>1
  <2> QED
    BY <1>i, <1>s, <2>1, <2>2, <2>3
<1>8. CASE NextFile
  <2>1. /\ phase = "rules" /\ phase' = "rules" /\ UNCHANGED <<rules, given, capture>>
        /\ f <= Len(given.files) /\ l > Len(given.files[f].lines)
        /\ loading'.file = f + 1 /\ loading'.line = 1 /\ loading'.section = NoSection
    BY <1>f, <1>l, <1>8 DEF NextFile, Loading, Current, FirstLine, data
  <2>2. f \in 1 .. Len(given.files) /\ l \in Nat
    BY <1>t, <2>1
  <2>3. TakenAt(f + 1, 1) = TakenAt(f, l)
    BY <1>t, <2>1, <2>2, FileTaken
  <2>4. NoSection = SectionAt(given.files[f + 1].lines, 1)
    BY NextSection
  <2>5. capture = <<>>
    BY <1>i, <1>t, <2>1
  <2> QED
    BY <1>i, <1>s, <2>1, <2>3, <2>4, <2>5
<1>9. CASE ApplyCliRule
  <2> DEFINE c == given.cli[l]
  <2>1. /\ phase = "rules" /\ f > Len(given.files) /\ l <= Len(given.cli) /\ AddRule(c.key, c.value)
    BY <1>f, <1>l, <1>9 DEF ApplyCliRule, InOptions
  <2>2. l \in 1 .. Len(given.cli) /\ f \in Nat /\ ~(f <= Len(given.files))
    BY <1>t, <2>1
  <2>3. c \in CliRule
    BY <1>t, <2>2, Written
  <2>4. c.value \in Text
    BY <2>3 DEF CliRule
  <2>5. TakenAt(f, l + 1) = TakenAt(f, l) \cup {<<c.key, c.value>>}
    BY <1>t, <2>1, <2>2, OptionTaken DEF Choice
  <2> HIDE DEF c
  <2> QED
    BY <1>3, <2>1, <2>2, <2>4, <2>5
<1>10. CASE RulesLoaded
  <2>1. /\ phase = "rules" /\ f > Len(given.files) /\ l > Len(given.cli)
        /\ UNCHANGED <<loading, rules, given, capture>>
    BY <1>f, <1>l, <1>10 DEF RulesLoaded, InOptions, data
  <2>2. ~(f <= Len(given.files))
    BY <1>t, <2>1
  <2> QED
    BY <1>f, <1>l, <1>i, <1>s, <2>1, <2>2
<1>11. CASE FileMissing
  BY <1>2, <1>11 DEF FileMissing, Loading
<1>12. CASE Open \/ OpenFails \/ EndOfInput \/ Report \/ UNCHANGED vars
  <2>1. UNCHANGED <<given, loading, rules, capture>>
    BY <1>12 DEF Open, OpenFails, EndOfInput, Report, vars
  <2>2. phase' \in {"open", "read", "report"} => phase \in {"open", "read", "report"}
    BY <1>12 DEF Open, OpenFails, EndOfInput, Report, vars
  <2> QED
    BY <1>1, <2>1, <2>2
<1>13. CASE ReadPacket
  <2>1. UNCHANGED <<given, loading, rules>> /\ phase = "read"
    BY <1>13 DEF ReadPacket, BadPacket, OtherPacket, FlowPacket, Account
  <2> QED
    BY <1>1, <2>1
<1> QED
  BY <1>6, <1>7, <1>8, <1>9, <1>10, <1>11, <1>12, <1>13 DEF Next, LoadRules

-----------------------------------------------------------------------------
(***************************************************************************)
(* The rules in force are those the user means.                            *)
(***************************************************************************)
LEMMA InForce ==
  ASSUME TypeOK, LoadInv, phase \in {"open", "read", "report"} \/ capture # <<>>
  PROVE  /\ \A g \in Given : Accepts(g[1], g[2]) /\ g[2] \in Text
         /\ rules.ips = Valued(IPKey) /\ rules.domains = Valued(DomainKey)
         /\ rules.ports = {Number[v] : v \in Valued(PortKey)}
         /\ rules.apps = {appFromString(v) : v \in Valued(AppKey)}
<1>1. loading.file > Len(given.files) /\ loading.line > Len(given.cli)
  BY DEF LoadInv
<1>2. given \in UserRules /\ loading.file \in Nat \ {0} /\ loading.line \in Nat
  <2>1. given \in UserRules /\ Len(given.files) \in Nat
    BY Written DEF TypeOK
  <2> QED
    BY <2>1 DEF TypeOK
<1>3. Taken = Given
  BY <1>1, <1>2, AllTaken DEF Taken
<1>4. rules = RulesOf(Given) /\ \A g \in Given : Accepts(g[1], g[2]) /\ g[2] \in Text
  BY <1>3 DEF LoadInv
<1>5. \A K : Valued(K) = ValuesIn(Given, K)
  BY DEF Valued, ValuesIn
<1> QED
  BY <1>4, <1>5 DEF RulesOf

\* One of the applications an alias stands for.
LEMMA Aliases ==
  ASSUME NEW app \in DOMAIN AppAlias, NEW V,
         \A v \in V : appFromString(v) # "UNKNOWN" \/ v = "unknown"
  PROVE  app \in {appFromString(v) : v \in V} <=>
           \/ AppAlias[app] \in V
           \/ app = "TWITTER" /\ V \cap {"x", "twitter"} # {}
<1> DEFINE Aliased(v) == {a \in DOMAIN AppAlias : AppAlias[a] = v}
<1>1. ASSUME NEW v \in V, appFromString(v) = app
      PROVE  \/ AppAlias[app] \in V
             \/ app = "TWITTER" /\ V \cap {"x", "twitter"} # {}
  <2>1. CASE v \in {"twitter", "x"}
    BY <1>1, <2>1 DEF appFromString
  <2>2. CASE v \notin {"twitter", "x"} /\ \E a \in DOMAIN AppAlias : AppAlias[a] = v
    BY <1>1, <2>2 DEF appFromString
  <2>3. CASE v \notin {"twitter", "x"} /\ ~\E a \in DOMAIN AppAlias : AppAlias[a] = v
    <3>1. app = "UNKNOWN" /\ v = "unknown"
      BY <1>1, <2>3 DEF appFromString
    <3> QED
      BY <2>3, <3>1, RuleSetAssumption
  <2> QED
    BY <2>1, <2>2, <2>3
<1>2. ASSUME AppAlias[app] \in V PROVE appFromString(AppAlias[app]) = app
  <2>1. AppAlias[app] \notin {"twitter", "x"}
    BY RuleSetAssumption
  <2>2. \A a \in DOMAIN AppAlias : AppAlias[a] = AppAlias[app] => a = app
    BY RuleSetAssumption
  <2> QED
    BY <2>1, <2>2 DEF appFromString
<1>3. appFromString("x") = "TWITTER" /\ appFromString("twitter") = "TWITTER"
  BY DEF appFromString
<1> QED
  BY <1>1, <1>2, <1>3

LEMMA Keys == /\ IPKey \cap PortKey = {} /\ AppKey \cap PortKey = {} /\ DomainKey \cap PortKey = {}
              /\ IPKey \cap AppKey = {} /\ DomainKey \cap AppKey = {}
  BY DEF IPKey, AppKey, DomainKey, PortKey

LEMMA Meaning ==
  ASSUME TypeOK, LoadInv, phase \in {"open", "read", "report"} \/ capture # <<>>
  PROVE  /\ rules.ips = Valued(IPKey)
         /\ \A port : port \in rules.ports <=> PortMeant(port)
         /\ \A app \in DOMAIN AppAlias : app \in rules.apps <=> AppMeant(app)
         /\ \A d \in Text :
              (\E pattern \in rules.domains : domainMatchesPattern(d, pattern)) <=> DomainMeant(d)
<1>1. /\ \A g \in Given : Accepts(g[1], g[2]) /\ g[2] \in Text
      /\ rules.ips = Valued(IPKey) /\ rules.domains = Valued(DomainKey)
      /\ rules.ports = {Number[v] : v \in Valued(PortKey)}
      /\ rules.apps = {appFromString(v) : v \in Valued(AppKey)}
  BY InForce
<1>2. \A K : \A v \in Valued(K) : \E key \in K : Accepts(key, v) /\ v \in Text
  BY <1>1 DEF Valued
<1>3. \A v \in Valued(PortKey) : v \in DOMAIN Number
  BY <1>2, Keys DEF Accepts
<1>4. \A v \in Valued(AppKey) : appFromString(v) # "UNKNOWN" \/ v = "unknown"
  BY <1>2, Keys DEF Accepts
<1>5. \A port : port \in rules.ports <=> PortMeant(port)
  BY <1>1, <1>3 DEF PortMeant
<1>6. \A app \in DOMAIN AppAlias : app \in rules.apps <=> AppMeant(app)
  BY <1>1, <1>4, Aliases DEF AppMeant
<1>7. \A d \in Text :
        (\E pattern \in rules.domains : domainMatchesPattern(d, pattern)) <=> DomainMeant(d)
  BY <1>1, <1>2, PatternsMean DEF DomainMeant
<1> QED
  BY <1>1, <1>5, <1>6, <1>7

-----------------------------------------------------------------------------
(***************************************************************************)
(* Why a flow is blocked.                                                  *)
(***************************************************************************)
\* Nothing detected yet: no pattern stands for that.
LEMMA NoDomain == ~DomainMeant(NoName)
<1>1. ASSUME NEW pattern, Stands(pattern, NoName) PROVE FALSE
  <2> DEFINE p     == Pieces[pattern]
             size  == Len(p)
             sub   == size > 2 /\ p[1] = Star /\ p[2] = Dot
             lead  == ~sub /\ size > 1 /\ p[1] = Star
             first == IF sub THEN 3 ELSE IF lead THEN 2 ELSE 1
             trail == ~sub /\ size > first /\ p[size] = Star
             core  == SubSeq(p, first, IF trail THEN size - 1 ELSE size)
  <2>1. Pieces[NoName] = <<>>
    BY AnalyzerAssumption
  <2> HIDE DEF core
  <2>2. /\ core # <<>>
        /\ \E i \in 0 .. Len(Pieces[NoName]) : \E j \in i .. Len(Pieces[NoName]) :
             SubSeq(Pieces[NoName], i + 1, j) = core
    BY <1>1 DEF Stands, core
  <2>3. Len(Pieces[NoName]) = 0
    BY <2>1, EmptySeq
  <2>4. SubSeq(Pieces[NoName], 1, 0) = core
    BY <2>2, <2>3
  <2>5. SubSeq(<<>>, 1, 0) = <<>>
    OBVIOUS
  <2> QED
    BY <2>1, <2>2, <2>4, <2>5
<1> QED
  BY <1>1 DEF DomainMeant

\* What the packet of a flow does to a flow that is not blocked: it stays so if no
\* rule of the user is about its addresses, its port, or what it is known by now;
\* or else the reason is one of these.
LEMMA Verdict ==
  ASSUME TypeOK, LoadInv, phase = "read", NEW p \in Packet, FlowPacket(p),
         NEW t, t = p.tuple, NEW new, new = flows'[t]
  PROVE  /\ ~new.blocked =>
              /\ t.src \notin Valued(IPKey) /\ t.dst \notin Valued(IPKey)
              /\ ~PortMeant(t.dport)
              /\ ~AppMeant(new.app)
              /\ ~DomainMeant(new.domain)
         /\ new.blocked /\ ~flows[t].blocked =>
              \/ new.reason = <<"source_IP", t.src>> /\ t.src \in Valued(IPKey)
              \/ new.reason = <<"destination_IP", t.dst>> /\ t.dst \in Valued(IPKey)
              \/ new.reason = <<"destination_port", t.dport>> /\ PortMeant(t.dport)
              \/ new.reason = <<"application", new.app>> /\ AppMeant(new.app)
              \/ new.reason = <<"domain", new.domain>> /\ DomainMeant(new.domain)
<1> DEFINE old  == flows[t]
           seen == [updateFlowClassification(old, classifyPacket(p)) EXCEPT !.packets = @ + 1]
           why  == match(rules, p, seen)
           insp == Inspect(old, p)
<1>1. /\ t \in Flow /\ p.kind \in Transport
      /\ new.app = insp.app /\ new.domain = insp.domain
      /\ new.blocked = insp.blocked /\ new.reason = insp.reason
  <2>1. /\ p.tuple \in Flow
        /\ flows'[p.tuple].app = Inspect(flows[p.tuple], p).app
        /\ flows'[p.tuple].domain = Inspect(flows[p.tuple], p).domain
        /\ flows'[p.tuple].blocked = Inspect(flows[p.tuple], p).blocked
        /\ flows'[p.tuple].reason = Inspect(flows[p.tuple], p).reason
    BY Tabling
  <2>2. p.kind \in Transport
    BY DEF FlowPacket
  <2> QED
    BY <2>1, <2>2
<1>2. old \in FlowRecord
  BY <1>1 DEF TypeOK
<1>3. seen \in FlowRecord /\ seen.blocked = old.blocked /\ seen.reason = old.reason
  <2> HIDE DEF old
  <2> QED
    BY <1>2, Updating
<1>4. insp = IF seen.blocked \/ why = NoReason THEN seen
             ELSE [seen EXCEPT !.blocked = TRUE, !.reason = why]
  BY DEF Inspect
<1> HIDE DEF old, seen, why, insp
<1>5. /\ insp.app = seen.app /\ insp.domain = seen.domain
      /\ seen.blocked \/ why = NoReason => insp.blocked = seen.blocked
      /\ ~seen.blocked /\ why # NoReason => insp.blocked = TRUE /\ insp.reason = why
  BY <1>3, <1>4 DEF FlowRecord
<1>6. seen.app \in DOMAIN AppAlias /\ seen.domain \in Domain \cup {NoName} /\ seen.blocked \in BOOLEAN
  BY <1>3, AnalyzerAssumption DEF FlowRecord
<1>7. /\ rules.ips = Valued(IPKey)
      /\ t.dport \in rules.ports <=> PortMeant(t.dport)
      /\ seen.app \in rules.apps <=> AppMeant(seen.app)
      /\ seen.domain # NoName =>
           ((\E pattern \in rules.domains : domainMatchesPattern(seen.domain, pattern))
              <=> DomainMeant(seen.domain))
  BY <1>6, Meaning, AnalyzerAssumption
<1>8. ~DomainMeant(NoName)
  BY NoDomain
<1> DEFINE Matches == seen.domain # NoName
                      /\ \E pattern \in rules.domains : domainMatchesPattern(seen.domain, pattern)
<1>9. Matches <=> DomainMeant(seen.domain)
  BY <1>6, <1>7, <1>8
<1>10. why = IF t.src \in rules.ips THEN <<"source_IP", t.src>>
             ELSE IF t.dst \in rules.ips THEN <<"destination_IP", t.dst>>
             ELSE IF t.dport \in rules.ports THEN <<"destination_port", t.dport>>
             ELSE IF seen.app \in rules.apps THEN <<"application", seen.app>>
             ELSE IF Matches THEN <<"domain", seen.domain>>
             ELSE NoReason
  BY DEF why, match
<1> HIDE DEF Matches
<1>11. CASE t.src \in Valued(IPKey)
  <2>1. why = <<"source_IP", t.src>> /\ why # NoReason
    BY <1>7, <1>10, <1>11 DEF NoReason
  <2> QED
    BY <1>1, <1>3, <1>5, <1>6, <1>11, <2>1 DEF old
<1>12. CASE t.src \notin Valued(IPKey) /\ t.dst \in Valued(IPKey)
  <2>1. why = <<"destination_IP", t.dst>> /\ why # NoReason
    BY <1>7, <1>10, <1>12 DEF NoReason
  <2> QED
    BY <1>1, <1>3, <1>5, <1>6, <1>12, <2>1 DEF old
<1> DEFINE Elsewhere == t.src \notin Valued(IPKey) /\ t.dst \notin Valued(IPKey)
<1>13. CASE Elsewhere /\ PortMeant(t.dport)
  <2>1. why = <<"destination_port", t.dport>> /\ why # NoReason
    BY <1>7, <1>10, <1>13 DEF NoReason
  <2> QED
    BY <1>1, <1>3, <1>5, <1>6, <1>13, <2>1 DEF old
<1>14. CASE Elsewhere /\ ~PortMeant(t.dport) /\ AppMeant(seen.app)
  <2>1. why = <<"application", seen.app>> /\ why # NoReason
    BY <1>7, <1>10, <1>14 DEF NoReason
  <2> QED
    BY <1>1, <1>3, <1>5, <1>6, <1>14, <2>1 DEF old
<1>15. CASE Elsewhere /\ ~PortMeant(t.dport) /\ ~AppMeant(seen.app) /\ DomainMeant(seen.domain)
  <2>1. why = <<"domain", seen.domain>> /\ why # NoReason
    BY <1>7, <1>9, <1>10, <1>15 DEF NoReason
  <2> QED
    BY <1>1, <1>3, <1>5, <1>6, <1>15, <2>1 DEF old
<1>16. CASE Elsewhere /\ ~PortMeant(t.dport) /\ ~AppMeant(seen.app) /\ ~DomainMeant(seen.domain)
  <2>1. why = NoReason
    BY <1>7, <1>9, <1>10, <1>16
  <2> QED
    BY <1>1, <1>3, <1>5, <1>6, <1>16, <2>1 DEF old
<1> QED
  BY <1>11, <1>12, <1>13, <1>14, <1>15, <1>16

\* What was meant does not change.
LEMMA SameMeaning ==
  ASSUME UNCHANGED given
  PROVE  /\ \A K : Valued(K)' = Valued(K)
         /\ \A x : PortMeant(x)' <=> PortMeant(x)
         /\ \A x : AppMeant(x)' <=> AppMeant(x)
         /\ \A x : DomainMeant(x)' <=> DomainMeant(x)
<1>1. Given' = Given
  BY Retaking
<1>2. \A K : Valued(K)' = Valued(K)
  BY <1>1 DEF Valued
<1> QED
  BY <1>2 DEF PortMeant, AppMeant, DomainMeant

LEMMA ReasonInit == Init => BlockedForAReason
  BY DEF Init, NewFlow, BlockedForAReason

LEMMA ReasonStep ==
  TypeOK /\ LoadInv /\ FlowsMatchHistory /\ BlockedForAReason /\ [Next]_vars => BlockedForAReason'
<1> SUFFICES ASSUME TypeOK, LoadInv, FlowsMatchHistory, BlockedForAReason, [Next]_vars
             PROVE  BlockedForAReason'
  OBVIOUS
<1>g. UNCHANGED given
  BY Steps
<1>s. /\ \A K : Valued(K)' = Valued(K)
      /\ \A x : PortMeant(x)' <=> PortMeant(x)
      /\ \A x : AppMeant(x)' <=> AppMeant(x)
      /\ \A x : DomainMeant(x)' <=> DomainMeant(x)
  BY <1>g, SameMeaning
<1> DEFINE Because(t, r, domain) ==
             \/ r[1] = "source_IP" /\ r[2] = t.src /\ t.src \in Valued(IPKey)
             \/ r[1] = "destination_IP" /\ r[2] = t.dst /\ t.dst \in Valued(IPKey)
             \/ r[1] = "destination_port" /\ r[2] = t.dport /\ PortMeant(t.dport)
             \/ r[1] = "application" /\ AppMeant(r[2]) /\ \E k \in All(t) : Found(k).app = r[2]
             \/ r[1] = "domain" /\ r[2] = domain /\ DomainMeant(r[2])
           BecauseNow(t, r, domain) ==
             \/ r[1] = "source_IP" /\ r[2] = t.src /\ t.src \in Valued(IPKey)
             \/ r[1] = "destination_IP" /\ r[2] = t.dst /\ t.dst \in Valued(IPKey)
             \/ r[1] = "destination_port" /\ r[2] = t.dport /\ PortMeant(t.dport)
             \/ r[1] = "application" /\ AppMeant(r[2]) /\ \E k \in All(t)' : Found(k)'.app = r[2]
             \/ r[1] = "domain" /\ r[2] = domain /\ DomainMeant(r[2])
<1>b. \A t \in Flow : flows[t].blocked => Because(t, flows[t].reason, flows[t].domain)
  BY DEF BlockedForAReason
<1>c. ASSUME \A t \in Flow : flows'[t].blocked =>
               BecauseNow(t, flows'[t].reason, flows'[t].domain)
      PROVE  BlockedForAReason'
  <2> SUFFICES ASSUME NEW t \in Flow, flows'[t].blocked
               PROVE  LET r == flows'[t].reason IN
                      \/ r[1] = "source_IP" /\ r[2] = t.src /\ t.src \in Valued(IPKey)'
                      \/ r[1] = "destination_IP" /\ r[2] = t.dst /\ t.dst \in Valued(IPKey)'
                      \/ r[1] = "destination_port" /\ r[2] = t.dport /\ PortMeant(t.dport)'
                      \/ r[1] = "application" /\ AppMeant(flows[t].reason[2])' /\ \E k \in All(t)' : Found(k)'.app = r[2]
                      \/ r[1] = "domain" /\ r[2] = flows'[t].domain /\ DomainMeant(flows[t].reason[2])'
    BY DEF BlockedForAReason
  <2>1. PICK r : r = flows'[t].reason
    OBVIOUS
  <2>2. AppMeant(flows[t].reason[2])' <=> AppMeant(r[2])'
    BY <2>1 DEF AppMeant
  <2>3. DomainMeant(flows[t].reason[2])' <=> DomainMeant(r[2])'
    BY <2>1 DEF DomainMeant
  <2>4. BecauseNow(t, r, flows'[t].domain)
    BY <1>c, <2>1
  <2> QED
    BY <1>s, <2>1, <2>2, <2>3, <2>4
<1>1. CASE UNCHANGED <<capture, flows>>
  <2>1. \A t : All(t)' = All(t)
    BY <1>1 DEF All, Mine
  <2>2. \A k : Found(k)' = Found(k)
    BY <1>1 DEF Found
  <2>3. \A t, r, domain : Because(t, r, domain) => BecauseNow(t, r, domain)
    BY <2>1, <2>2
  <2> HIDE DEF Because, BecauseNow
  <2> QED
    BY <1>1, <1>b, <1>c, <2>3
<1>2. ASSUME NEW p \in Packet, ReadsPacket(p), phase = "read" PROVE BlockedForAReason'
  <2> DEFINE d == classifyPacket(p)
  <2>1. capture' = Append(capture, p)
    BY <1>2, Reading
  <2>2. PICK n : n = Len(capture) + 1
    OBVIOUS
  <2>3. \A t : /\ All(t) \subseteq 1 .. Len(capture)
               /\ All(t)' = All(t) \cup {k \in {n} : p.kind \in Transport /\ p.tuple = t}
    BY <2>1, <2>2, Recording
  <2>4. Found(n)' = d /\ \A k \in 1 .. Len(capture) : Found(k)' = Found(k)
    BY <2>1, <2>2, Recording
  <2> HIDE DEF d
  <2>5. \A t, r, domain : Because(t, r, domain) => BecauseNow(t, r, domain)
    BY <2>3, <2>4
  <2> SUFFICES ASSUME NEW t \in Flow, flows'[t].blocked
               PROVE  BecauseNow(t, flows'[t].reason, flows'[t].domain)
    BY <1>c
  <2> DEFINE mine == p.kind \in Transport /\ p.tuple = t
             old  == flows[t]
             new  == flows'[t]
  <2>6. old.blocked => Because(t, old.reason, old.domain)
    BY <1>b
  <2> HIDE DEF Because, BecauseNow
  <2>7. CASE ~mine
    <3>1. new = old
      BY <1>2, <2>7, Reading, Tabling
    <3> QED
      BY <2>5, <2>6, <3>1
  <2>8. CASE mine
    <3>1. FlowPacket(p) /\ p.tuple = t
      BY <1>2, <2>8, Reading
    <3>2. /\ new.domain = IF old.domain = NoName THEN d.domain ELSE old.domain
          /\ new.app = IF Replaces(d.app, old.app) THEN d.app ELSE old.app
          /\ old.reason \in Reason
      <4>1. new.app = Inspect(old, p).app /\ new.domain = Inspect(old, p).domain
        BY <3>1, Tabling
      <4>2. old \in FlowRecord /\ (old.reason # NoReason) = old.blocked
        BY DEF TypeOK
      <4>3. old.reason \in Reason
        BY <4>2 DEF FlowRecord
      <4> HIDE DEF old, new
      <4> QED
        BY <2>8, <4>1, <4>2, <4>3, Inspecting DEF d
    <3>3. CASE old.blocked
      <4>1. new.reason = old.reason
        BY <3>1, <3>3, Tabling
      <4>2. PICK r : r = old.reason
        OBVIOUS
      <4>3. Because(t, r, old.domain)
        BY <2>6, <3>3, <4>2
      <4>4. r[1] = "domain" => r[2] \in Domain
        BY <3>2, <4>2 DEF Reason, NoReason
      <4> HIDE DEF old, new
      <4>5. r[1] = "domain" => r[2] # old.domain \/ old.domain = new.domain
        BY <3>2, <4>4, AnalyzerAssumption
      <4>6. Because(t, r, new.domain)
        BY <4>3, <4>5 DEF Because
      <4> QED
        BY <2>5, <4>1, <4>2, <4>6 DEF new
    <3>4. CASE ~old.blocked
      <4>1. \/ new.reason = <<"source_IP", t.src>> /\ t.src \in Valued(IPKey)
            \/ new.reason = <<"destination_IP", t.dst>> /\ t.dst \in Valued(IPKey)
            \/ new.reason = <<"destination_port", t.dport>> /\ PortMeant(t.dport)
            \/ new.reason = <<"application", new.app>> /\ AppMeant(new.app)
            \/ new.reason = <<"domain", new.domain>> /\ DomainMeant(new.domain)
        BY <1>2, <3>1, <3>4, Verdict
      <4>2. \E k \in All(t)' : Found(k)'.app = new.app
        <5>1. n \in All(t)' /\ Found(n)'.app = d.app
          BY <2>3, <2>4, <2>8
        <5>2. IF Specific(t, Len(capture)) # {}
              THEN old.app = Found(FirstOf(Specific(t, Len(capture)))).app
              ELSE old.app \in {"UNKNOWN"} \cup {Found(k).app : k \in All(t)}
          BY DEF FlowsMatchHistory
        <5>3. Specific(t, Len(capture)) # {} => FirstOf(Specific(t, Len(capture))) \in All(t)
          <6> DEFINE B == Specific(t, Len(capture))
          <6>1. B \in SUBSET Nat /\ B \subseteq All(t)
            BY <2>3 DEF Specific, All
          <6> HIDE DEF B
          <6>2. B # {} => FirstOf(B) \in B
            BY <6>1, First
          <6> QED
            BY <6>1, <6>2 DEF B
        <5>4. old.app = "UNKNOWN" \/ \E k \in All(t) : Found(k).app = old.app
          BY <5>2, <5>3
        <5> HIDE DEF old, new
        <5>5. CASE new.app = d.app
          BY <5>1, <5>5
        <5>6. CASE new.app # d.app
          <6>1. new.app = old.app /\ ~Replaces(d.app, old.app)
            BY <3>2, <5>6
          <6>2. old.app # "UNKNOWN"
            BY <5>6, <6>1 DEF Replaces
          <6> QED
            BY <2>3, <2>4, <5>4, <6>1, <6>2
        <5> QED
          BY <5>5, <5>6
      <4>3. PICK r : r = new.reason
        OBVIOUS
      <4> HIDE DEF new
      <4>4. CASE r = <<"source_IP", t.src>> /\ t.src \in Valued(IPKey)
        BY <4>3, <4>4 DEF BecauseNow, new
      <4>5. CASE r = <<"destination_IP", t.dst>> /\ t.dst \in Valued(IPKey)
        BY <4>3, <4>5 DEF BecauseNow, new
      <4>6. CASE r = <<"destination_port", t.dport>> /\ PortMeant(t.dport)
        BY <4>3, <4>6 DEF BecauseNow, new
      <4>7. CASE r = <<"application", new.app>> /\ AppMeant(new.app)
        BY <4>2, <4>3, <4>7 DEF BecauseNow, new
      <4>8. CASE r = <<"domain", new.domain>> /\ DomainMeant(new.domain)
        BY <4>3, <4>8 DEF BecauseNow, new
      <4> QED
        BY <4>1, <4>3, <4>4, <4>5, <4>6, <4>7, <4>8
    <3> QED
      BY <3>3, <3>4
  <2> QED
    BY <2>7, <2>8
<1> QED
  BY <1>1, <1>2, Steps

\* The rules in force are those the user gave: nothing is read before all of them
\* are accepted, and none is added or lost.
THEOREM RulesAsGiven == Spec => []LoadInv
  BY LoadInit, LoadStep, TypeCorrect, PTL DEF Spec

\* A flow is only ever blocked for a reason that can be checked against the rules
\* the user gave and against the capture, and the report states that reason.
THEOREM BlockedWithReason == Spec => []BlockedForAReason
  BY ReasonInit, ReasonStep, TypeCorrect, RulesAsGiven, HistoryKept, PTL DEF Spec
-----------------------------------------------------------------------------
(***************************************************************************)
(* Nothing of a flow is forwarded once a rule applies to it.               *)
(***************************************************************************)
\* Besides, the flow is blocked.
MatchInv ==
  \A t \in Flow : \A k \in All(t) :
    RuledOut(t, k) => /\ flows[t].blocked
                      /\ flows[t].forwarded <= Cardinality(Mine(t, k - 1))

LEMMA MatchInit == Init => MatchInv
<1> SUFFICES ASSUME Init PROVE MatchInv
  OBVIOUS
<1>1. Len(capture) = 0
  BY EmptySeq DEF Init
<1>2. \A t : All(t) = {}
  BY <1>1 DEF All, Mine
<1> QED
  BY <1>2 DEF MatchInv

\* Whether a rule was about a flow after a packet does not change later.
LEMMA RuledSame ==
  ASSUME UNCHANGED given, NEW t, NEW m,
         Specific(t, m)' = Specific(t, m), FirstDomain(t, m)' = FirstDomain(t, m),
         Specific(t, m) # {} =>
           Found(FirstOf(Specific(t, m)))' = Found(FirstOf(Specific(t, m)))
  PROVE  RuledOut(t, m)' <=> RuledOut(t, m)
<1>1. /\ \A K : Valued(K)' = Valued(K)
      /\ \A x : PortMeant(x)' <=> PortMeant(x)
      /\ \A x : AppMeant(x)' <=> AppMeant(x)
      /\ \A x : DomainMeant(x)' <=> DomainMeant(x)
  BY SameMeaning
<1>2. AppKnown(t, m)' = AppKnown(t, m)
  BY DEF AppKnown
<1>3. PICK a : a = AppKnown(t, m)
  OBVIOUS
<1>4. PICK f : f = FirstDomain(t, m)
  OBVIOUS
<1>5. RuledOut(t, m) <=> \/ {t.src, t.dst} \cap Valued(IPKey) # {}
                         \/ PortMeant(t.dport)
                         \/ isSpecificApp(a) /\ AppMeant(a)
                         \/ DomainMeant(f)
  BY <1>3, <1>4 DEF RuledOut
<1>6. AppKnown(t, m)' = a /\ FirstDomain(t, m)' = f
  BY <1>2, <1>3, <1>4
<1>7. RuledOut(t, m)' <=> \/ {t.src, t.dst} \cap Valued(IPKey)' # {}
                          \/ PortMeant(t.dport)'
                          \/ isSpecificApp(a) /\ AppMeant(a)'
                          \/ DomainMeant(f)'
  BY <1>6 DEF RuledOut, AppMeant, DomainMeant
<1> QED
  BY <1>1, <1>5, <1>7

LEMMA MatchStep ==
  TypeOK /\ LoadInv /\ TotalsAgree /\ FlowsMatchHistory /\ FlowsMatchHistory' /\ MatchInv /\ [Next]_vars
    => MatchInv'
<1> SUFFICES ASSUME TypeOK, LoadInv, TotalsAgree, FlowsMatchHistory, FlowsMatchHistory', MatchInv,
                    [Next]_vars
             PROVE  MatchInv'
  OBVIOUS
<1>g. UNCHANGED given
  BY Steps
<1>l. Len(capture) \in Nat
  BY LenProperties DEF TypeOK
<1>1. CASE UNCHANGED <<capture, flows>>
  <2>1. \A t, m : /\ Mine(t, m)' = Mine(t, m) /\ Named(t, m)' = Named(t, m)
                  /\ Specific(t, m)' = Specific(t, m)
    BY <1>1 DEF Mine, Named, Specific, Found
  <2>2. \A t : All(t)' = All(t)
    BY <1>1 DEF All, Mine
  <2>3. ASSUME NEW t, NEW m PROVE RuledOut(t, m)' <=> RuledOut(t, m)
    <3> DEFINE A == Named(t, m)
               B == Specific(t, m)
    <3>1. FirstOf(A)' = FirstOf(A') /\ FirstOf(B)' = FirstOf(B')
      BY DEF FirstOf
    <3>2. A' = A /\ B' = B
      BY <2>1
    <3>3. FirstOf(A)' = FirstOf(A) /\ FirstOf(B)' = FirstOf(B)
      BY <3>1, <3>2
    <3>4. FirstDomain(t, m) = IF A = {} THEN NoName ELSE Found(FirstOf(A)).domain
      BY DEF FirstDomain
    <3>5. FirstDomain(t, m)' = IF A' = {} THEN NoName ELSE Found(FirstOf(A))'.domain
      BY DEF FirstDomain
    <3> HIDE DEF A, B
    <3>6. Found(FirstOf(A))' = Found(FirstOf(A)) /\ Found(FirstOf(B))' = Found(FirstOf(B))
      BY <1>1, <3>3 DEF Found
    <3>7. FirstDomain(t, m)' = FirstDomain(t, m)
      BY <3>2, <3>4, <3>5, <3>6
    <3>8. /\ Specific(t, m)' = Specific(t, m)
          /\ Found(FirstOf(Specific(t, m)))' = Found(FirstOf(Specific(t, m)))
      BY <3>2, <3>6 DEF B
    <3> QED
      BY <1>g, <3>7, <3>8, RuledSame
  <2>4. ASSUME NEW t \in Flow, NEW k \in All(t), RuledOut(t, k)
        PROVE  /\ flows[t].blocked /\ flows[t].forwarded <= Cardinality(Mine(t, k - 1))
    BY <2>4 DEF MatchInv
  <2> QED
    BY <1>1, <2>1, <2>2, <2>3, <2>4 DEF MatchInv
<1>2. ASSUME NEW p \in Packet, ReadsPacket(p), phase = "read" PROVE MatchInv'
  <2> DEFINE len == Len(capture)
  <2>1. capture' = Append(capture, p)
    BY <1>2, Reading
  <2>2. PICK n : n = len + 1
    OBVIOUS
  <2>3. /\ Len(capture') = n /\ n \in Nat \ {0} /\ len \in 0 .. len /\ n - 1 = len
        /\ \A k \in 1 .. len : k - 1 \in 0 .. len /\ k \in 0 .. len
    BY <1>l, <2>1, <2>2, Recording
  <2> SUFFICES ASSUME NEW t \in Flow, NEW k \in All(t)', RuledOut(t, k)'
               PROVE  /\ flows'[t].blocked
                      /\ flows'[t].forwarded <= Cardinality(Mine(t, k - 1)')
    BY DEF MatchInv
  <2> DEFINE mine == p.kind \in Transport /\ p.tuple = t
  <2>4. /\ \A m \in 0 .. len : Mine(t, m)' = Mine(t, m)
        /\ All(t) \subseteq 1 .. len
        /\ All(t)' = All(t) \cup {j \in {n} : mine}
    BY <2>1, <2>2, Recording
  <2>5. CASE k \in All(t)
    <3>1. k \in 1 .. len
      BY <2>4, <2>5
    <3>2. RuledOut(t, k)
      <4>1. /\ Specific(t, k)' = Specific(t, k) /\ FirstDomain(t, k)' = FirstDomain(t, k)
            /\ Specific(t, k) # {} =>
                 Found(FirstOf(Specific(t, k)))' = Found(FirstOf(Specific(t, k)))
        BY <2>1, <2>2, <2>3, <3>1, Telling, Naming
      <4> QED
        BY <1>g, <4>1, RuledSame
    <3>3. flows[t].blocked /\ flows[t].forwarded <= Cardinality(Mine(t, k - 1))
      BY <2>5, <3>2 DEF MatchInv
    <3>4. flows'[t].blocked /\ flows'[t].forwarded = flows[t].forwarded
      BY <3>3, BlockedStep
    <3>5. Mine(t, k - 1)' = Mine(t, k - 1)
      BY <2>3, <2>4, <3>1
    <3> QED
      BY <3>3, <3>4, <3>5
  <2>6. CASE k \notin All(t)
    <3>1. mine /\ k = n
      BY <2>4, <2>6
    <3>2. FlowPacket(p) /\ t = p.tuple
      BY <1>2, <3>1, Reading
    <3> DEFINE old == flows[t]
               new == flows'[t]
    <3>3. /\ ~new.blocked => /\ t.src \notin Valued(IPKey) /\ t.dst \notin Valued(IPKey)
                             /\ ~PortMeant(t.dport) /\ ~AppMeant(new.app) /\ ~DomainMeant(new.domain)
          /\ new.blocked \in BOOLEAN
      <4>1. new.blocked \in BOOLEAN
        BY <3>2, Tabling DEF FlowRecord
      <4> QED
        BY <1>2, <3>2, <4>1, Verdict
    <3>4. PICK a : a = AppKnown(t, n)'
      OBVIOUS
    <3>5. PICK f : f = FirstDomain(t, n)'
      OBVIOUS
    <3>6. \/ {t.src, t.dst} \cap Valued(IPKey) # {}
          \/ PortMeant(t.dport)
          \/ isSpecificApp(a) /\ AppMeant(a)
          \/ DomainMeant(f)
      <4>1. RuledOut(t, n)'
        BY <3>1
      <4>2. \/ {t.src, t.dst} \cap Valued(IPKey)' # {}
            \/ PortMeant(t.dport)'
            \/ isSpecificApp(a) /\ AppMeant(a)'
            \/ DomainMeant(f)'
        BY <3>4, <3>5, <4>1 DEF RuledOut, AppMeant, DomainMeant
      <4> QED
        BY <1>g, <4>2, SameMeaning
    <3>7. new.domain = f /\ (isSpecificApp(a) => new.app = a)
      <4>1. \A s : /\ FirstDomain(s, Len(capture))' = FirstDomain(s, n)'
                   /\ Specific(s, Len(capture))' = Specific(s, n)'
                   /\ Found(FirstOf(Specific(s, Len(capture))))' = Found(FirstOf(Specific(s, n)))'
        BY <2>3 DEF FirstDomain, Specific, Named, Mine, Found, FirstOf
      <4>2. /\ new.domain = FirstDomain(t, n)'
            /\ Specific(t, n)' # {} => new.app = Found(FirstOf(Specific(t, n)))'.app
        BY <4>1 DEF FlowsMatchHistory
      <4>3. a = IF Specific(t, n)' = {} THEN "UNKNOWN" ELSE Found(FirstOf(Specific(t, n)))'.app
        BY <3>4 DEF AppKnown
      <4> HIDE DEF new
      <4> QED
        BY <3>5, <4>2, <4>3 DEF isSpecificApp, Generic
    <3>8. new.blocked
      <4> HIDE DEF new
      <4> QED
        BY <3>3, <3>6, <3>7
    <3>9. new.forwarded = old.forwarded
      BY <3>2, <3>8, Tabling
    <3>10. old.forwarded <= Cardinality(All(t))
      <4>1. /\ old.forwarded \in Nat /\ old.dropped \in Nat
            /\ old.packets = old.forwarded + old.dropped /\ old.packets = Cardinality(All(t))
        BY DEF TypeOK, FlowRecord, TotalsAgree, FlowsMatchHistory
      <4> HIDE DEF old
      <4>2. old.forwarded <= old.forwarded + old.dropped
        BY <4>1
      <4> QED
        BY <4>1, <4>2
    <3>11. Mine(t, k - 1)' = All(t)
      <4>1. PICK i : i = k - 1
        OBVIOUS
      <4>2. i = len /\ i \in 0 .. len
        BY <2>3, <3>1, <4>1
      <4>3. Mine(t, i)' = Mine(t, i)
        BY <2>4, <4>2
      <4>4. Mine(t, i) = All(t)
        BY <4>2 DEF All
      <4> QED
        BY <4>1, <4>3, <4>4
    <3> QED
      BY <3>8, <3>9, <3>10, <3>11
  <2> QED
    BY <2>5, <2>6
<1> QED
  BY <1>1, <1>2, Steps

\* No packet is looked at before all the rules are accepted, and once a packet has
\* made a rule of the user apply to its flow, no packet of the flow is forwarded,
\* that one included.
THEOREM NothingForwarded == Spec => []NothingForwardedAfterMatch
<1>1. TypeOK /\ LoadInv /\ MatchInv => NothingForwardedAfterMatch
  BY InForce DEF MatchInv, NothingForwardedAfterMatch
<1> QED
  BY <1>1, MatchInit, MatchStep, TypeCorrect, RulesAsGiven, TotalsAddUp, HistoryKept, PTL DEF Spec
=============================================================================
