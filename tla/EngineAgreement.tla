--------------------------- MODULE EngineAgreement ---------------------------
(***************************************************************************)
(* Four programs classify flows, each with its own copy of the logic: the  *)
(* single-threaded engine (WorkingEngine), the fast paths of the v2 engine *)
(* (classifyFlow of src/dpi_mt.cpp), those of the v1 engine (FastPath) and *)
(* analyze (Analyzer).  Here they get the packets of the same captures.    *)
(*                                                                         *)
(* FastPath and Analyzer start from packets whose payload is already       *)
(* known; JobPacket and AnalyzerPacket say which those are, from payload   *)
(* offsets and extractors.  Of v1 and analyze only the flow tables are     *)
(* here, of v2 one fast path, which sees a flow's packets in order.        *)
(***************************************************************************)
EXTENDS WorkingEngine

VARIABLES mt,  \* flow table of a v2 fast path
          fp,  \* connections of a v1 fast path without rules
          an   \* flow table of analyze

vars == <<workingVars, mt, fp, an>>

V1 == INSTANCE FastPath WITH
        Candidates <- {}, InitialRules <- {}, MaxChanges <- 0, Packet <- {},
        MaxConnections <- 1, MaxPackets <- 0, clearing <- "no", changes <- 0,
        live <- {}, conns <- fp, pc <- "pop", job <- <<>>, steady <- {}, some <- {},
        fate <- <<>>

A == INSTANCE Analyzer WITH
       Packet <- {}, Domain <- DOMAIN AppOf, UserRules <- {}, MaxChoices <- {},
       CaptureBound <- 0, Address <- {}, AppAlias <- <<>>, Number <- <<>>, Pieces <- <<>>,
       given <- <<>>, loading <- <<>>, options <- <<>>, flows <- an, summary <- <<>>, pcap <- <<>>,
       status <- ""

Init == WorkingInit /\ mt = <<>> /\ fp = <<>> /\ an = <<>>
-----------------------------------------------------------------------------
(***************************************************************************)
(* The v2 engine: classifyFlow and FastPath::run.                          *)
(***************************************************************************)
MtFlow == [app |-> "UNKNOWN", sni |-> NoName, blocked |-> FALSE, classified |-> FALSE]

\* The name that classifyFlow takes from a packet.
MtName(f) ==
  LET p == MtPayload(f)
  IN  IF f.dport = 443 /\ p.length > 5 THEN extractSNI(p.body, p.length)
      ELSE IF f.dport = 80 /\ p.length > 10 THEN extractHost(p.body, p.length)
      ELSE Absent

classifyFlow(flow, f) ==
  IF MtName(f) # Absent
  THEN [Named(flow, MtName(f)) EXCEPT !.classified = TRUE]
  ELSE [flow EXCEPT !.app = IF PortApp(f) = "UNKNOWN" THEN @ ELSE PortApp(f),
                    !.classified = PortApp(f) = "DNS"]

MtProcess(f) ==
  LET old  == FlowIn(mt, Tuple(f), MtFlow)
      flow == IF old.classified THEN old ELSE classifyFlow(old, f)
  IN  Store(mt, Tuple(f), [flow EXCEPT !.blocked = @ \/ isBlocked(f.src, flow)])
-----------------------------------------------------------------------------
(***************************************************************************)
(* The v1 engine: the packet that FastPath gets for a frame.               *)
(***************************************************************************)
JobPacket(f) ==
  LET p     == JobPayload(f)
      sni   == IF f.dport = 443 \/ p.length >= 50 THEN extractSNI(p.body, p.length) ELSE Absent
      host  == IF f.dport = 80 THEN extractHost(p.body, p.length) ELSE Absent
      query == extractQuery(p.body, p.length)
      As(payload, name) == [tuple |-> Tuple(f), flags |-> f.flags, payload |-> payload,
                            name |-> name]
  IN  CASE p.length = 0 -> As("none", Absent)
        [] p.length > 0 /\ sni # Absent  -> As("hello", sni)
        [] p.length > 0 /\ host # Absent -> As("http", host)
        [] p.length > 0 /\ sni = Absent /\ host = Absent ->
             IF query # Absent THEN As("dns", query) ELSE As("other", Absent)

FpProcess(f) ==
  LET p       == JobPacket(f)
      old     == FlowIn(fp, Tuple(f), V1!NewConnection)
      current == IF hasTCP(f) THEN V1!updateTCPState(old, f.flags) ELSE old
  IN  Store(fp, Tuple(f), IF current.state # "CLASSIFIED" /\ p.payload # "none"
                          THEN V1!inspectPayload(current, p) ELSE current)

(***************************************************************************)
(* analyze: the packet that Analyzer gets for a TCP or UDP frame.          *)
(***************************************************************************)
AnalyzerPacket(f) ==
  LET p     == ParsedPayload(f)
      sni   == IF hasTCP(f) THEN extractSNI(p.body, p.length) ELSE Absent
      host  == IF hasTCP(f) THEN extractHost(p.body, p.length) ELSE Absent
      query == extractQuery(p.body, p.length)
      As(kind, name) == [kind |-> f.proto, tuple |-> Tuple(f),
                         payload |-> [kind |-> kind, name |-> name]]
  IN  CASE p.length = 0 -> As("none", Absent)
        [] p.length > 0 /\ sni # Absent  -> As("hello", sni)
        [] p.length > 0 /\ host # Absent -> As("http", host)
        [] p.length > 0 /\ sni = Absent /\ host = Absent ->
             IF query # Absent THEN As("dns", query) ELSE As("other", Absent)

AnProcess(f) ==
  Store(an, Tuple(f), A!updateFlowClassification(FlowIn(an, Tuple(f), A!NewFlow),
                                                 A!classifyPacket(AnalyzerPacket(f))))
-----------------------------------------------------------------------------
ReadPacket ==
  LET p == NextPacket(reader)
  IN  /\ Take
      /\ \/ SkipPacket(p) /\ UNCHANGED <<mt, fp, an>>
         \/ /\ ProcessPacket(p)
            /\ mt' = MtProcess(p.data) /\ fp' = FpProcess(p.data) /\ an' = AnProcess(p.data)

Next == \/ (Open \/ OpenFails \/ Finish) /\ UNCHANGED <<mt, fp, an>>
        \/ ReadPacket

Spec == Init /\ [][Next]_vars
-----------------------------------------------------------------------------
SeenOf(t) == {k \in DOMAIN seen : Tuple(seen[k]) = t}

(***************************************************************************)
(* The name that is readable in the bytes captured of a frame, NoName if   *)
(* none is: that of the first server name among the extensions of a        *)
(* ClientHello, whether or not the rest of it has been captured; what      *)
(* there is of the name behind the first Host; what there is of the name   *)
(* of a query.                                                             *)
(***************************************************************************)
ShownServer(m, length) ==
  LET named == {k \in DOMAIN m.exts : m.exts[k].server /\ ExtAt(m, k + 1) <= ExtensionsGiven(m)}
      k     == Min(named)
  IN  IF m.client /\ named # {} /\ ExtAt(m, k + 1) <= length /\ HostName(m.exts[k]) # Absent
      THEN m.exts[k].name ELSE NoName

ShownHost(m, length) ==
  LET named == {k \in DOMAIN m.lines : m.lines[k].host /\ m.lines[k].name # NoName}
      k     == Min(named)
  IN  IF m.method /\ named # {} /\ NameAt(m, k) < length
      THEN Fitting(m.lines[k].name, length - NameAt(m, k)) ELSE NoName

ShownQuery(m, length) ==
  IF ~m.response /\ m.questions > 0 /\ length > 12 THEN Fitting(m.name, length - 13) ELSE NoName

Shown(f) ==
  LET length == f.len - PayloadOffset(f)
  IN  IF ~parse(f) \/ ~(hasTCP(f) \/ hasUDP(f)) THEN NoName
      ELSE CASE f.body.kind = "tls"  -> ShownServer(f.body, length)
             [] f.body.kind = "http" -> ShownHost(f.body, length)
             [] f.body.kind = "dns"  -> ShownQuery(f.body, length)
             [] OTHER                -> NoName

\* No packet of the flow carries what belongs on another port or on another
\* protocol, and none of HTTPS or HTTP comes from the port of DNS.
Usual(t) ==
  \A k \in SeenOf(t) :
    /\ seen[k].body.kind = "tls"  => t.proto = "tcp" /\ t.dport = 443 /\ t.sport # 53
    /\ seen[k].body.kind = "http" => t.proto = "tcp" /\ t.dport = 80 /\ t.sport # 53
    /\ seen[k].body.kind = "dns"  => t.proto = "udp" /\ 53 \in {t.sport, t.dport}

\* No ClientHello of the flow shows its name before the record ends.
RecordsWhole(t) ==
  \A k \in SeenOf(t) :
    seen[k].body.kind = "tls" /\ Shown(seen[k]) # NoName
      => seen[k].body.record + 5 <= seen[k].len - PayloadOffset(seen[k])

\* No packet of the flow closes a connection.
NeverClosed(t) == \A k \in SeenOf(t) : seen[k].flags \cap {"FIN", "RST"} = {}

\* No empty server name has been found in the flow, after which v2 looks no
\* further.
NoneEmpty(t) == \A k \in SeenOf(t) : MtName(seen[k]) # NoName

FirstShown(t) ==
  LET named == {k \in SeenOf(t) : Shown(seen[k]) # NoName}
  IN  IF named = {} THEN NoName ELSE Shown(seen[Min(named)])

\* No packet of the flow has a payload without a name before one shows a name.
NameFirst(t) ==
  \A k \in SeenOf(t) :
    JobPayload(seen[k]).length > 0 /\ Shown(seen[k]) = NoName
      => \E j \in SeenOf(t) : j < k /\ Shown(seen[j]) # NoName

\* Every engine that has a name for a flow has the first one its packets show; the
\* single-threaded engine has it for every TCP flow, v2 for every TCP flow without an
\* empty name, analyze for every flow that shows one, and v1 for every flow whose
\* first payload shows it.  Of v1 this says nothing once a connection has been
\* closed, after which v1 looks again.
NamesFound ==
  \A t \in DOMAIN flows :
    Usual(t) /\ RecordsWhole(t) =>
      /\ {flows[t].sni, mt[t].sni} \subseteq {NoName, FirstShown(t)}
      /\ NeverClosed(t) => fp[t].sni \in {NoName, FirstShown(t)}
      /\ NeverClosed(t) /\ NameFirst(t) => fp[t].sni = FirstShown(t)
      /\ t.proto = "tcp" => flows[t].sni = FirstShown(t)
      /\ t.proto = "tcp" /\ NoneEmpty(t) => mt[t].sni = FirstShown(t)
      /\ an[t].domain = FirstShown(t)

\* The two engines with the same rules reach the same verdict on every flow, as
\* long as no empty server name has been found in it.
SameVerdict ==
  \A t \in DOMAIN flows : Usual(t) /\ NoneEmpty(t) => mt[t].blocked = flows[t].blocked

\* What SNIExtractor promises of a ClientHello that is cut: it is parsed anyway, so
\* that a name in front of the cut is found.
TruncatedParsed ==
  \A t \in DOMAIN flows : Usual(t) /\ t.proto = "tcp" => flows[t].sni = FirstShown(t)

\* What the documents promise of v1: a flow taken for HTTPS by its port gets the
\* name that a later packet shows.
LaterNameFound ==
  \A t \in DOMAIN flows :
    Usual(t) /\ RecordsWhole(t) /\ NeverClosed(t) /\ t.proto = "tcp"
      => fp[t].sni = FirstShown(t)
=============================================================================
