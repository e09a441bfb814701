------------------------------ MODULE FastPath ------------------------------
(***************************************************************************)
(* What a fast path of the v1 engine does with the packets it gets:        *)
(* processPacket of src/fast_path.cpp on its ConnectionTracker             *)
(* (src/connection_tracker.cpp), with the rules changing meanwhile.        *)
(*                                                                         *)
(* A packet is [tuple, flags, payload, name]: the five-tuple [src, sport,  *)
(* dport, proto], the TCP flags, the payload -- "none", "hello" (a TLS     *)
(* ClientHello), "http", "dns" or "other" -- and the name the extractor    *)
(* for it finds, or Absent.  The table of connections belongs to this      *)
(* thread; only the rules are shared.  The clock is the number of packets  *)
(* taken: all that matters of a time is which connection was heard of      *)
(* last.  What the output callback does is in DPIEngine.                   *)
(***************************************************************************)
EXTENDS RuleManager, Sums

CONSTANTS Packet,          \* the packets the load balancer may send
          Absent,          \* no name is found
          AppOf,           \* sniToAppType, for each name but the empty one
          MaxConnections,  \* max_connections_
          MaxPackets       \* bound: how many packets come

ASSUME FastPathAssumption ==
  /\ \A p \in Packet : p.name = Absent \/ p.name = NoName \/ p.name \in DOMAIN AppOf
  /\ NoName \notin DOMAIN AppOf /\ Absent \notin DOMAIN AppOf
  /\ MaxConnections \in Nat \ {0} /\ MaxPackets \in Nat

Tuple == {p.tuple : p \in Packet}

NewConnection == [state |-> "NEW", app |-> "UNKNOWN", sni |-> NoName, packets |-> 0,
                  lastSeen |-> 0, syn |-> FALSE, synAck |-> FALSE, fin |-> FALSE]

VARIABLES live,       \* the tuples in connections_
          conns,      \* their connections; other tuples have a new record
          pc, job,    \* where run is, and the packet it works on
          stats,      \* the counters of the thread and of its tracker
          steady, some,  \* history: the lookups that have succeeded throughout the
                         \* current check, and at some time in it
          fate        \* history, per tuple: "blocked" once a rule has dropped one of
                      \* its packets, "closed" when the connection has been closed
                      \* since, "free" before and when it has been forgotten

fpVars == <<live, conns, pc, job, stats, steady, some, fate>>
vars == <<ruleVars, fpVars>>

NoJob == [tuple |-> Absent]

Init ==
  /\ RulesInit
  /\ conns = [t \in Tuple |-> NewConnection]
  /\ live = {}
  /\ pc = "pop" /\ job = NoJob
  /\ stats = [processed |-> 0, forwarded |-> 0, dropped |-> 0,
              seen |-> 0, classified |-> 0, blocked |-> 0]
  /\ steady = {} /\ some = {}
  /\ fate = [t \in Tuple |-> "free"]
-----------------------------------------------------------------------------
(***************************************************************************)
(* The parts of processPacket that work on one connection.                 *)
(***************************************************************************)
\* Variant: a completed handshake always establishes the connection.
updateTCPStateAlways(c, flags) ==
  LET syn    == c.syn \/ ("SYN" \in flags /\ "ACK" \notin flags)
      synAck == c.synAck \/ {"SYN", "ACK"} \subseteq flags
      fin    == c.fin \/ "FIN" \in flags
      state  == IF "RST" \in flags \/ (fin /\ "ACK" \in flags) THEN "CLOSED"
                ELSE IF syn /\ synAck /\ "ACK" \in flags
                     THEN "ESTABLISHED" ELSE c.state
  IN  [c EXCEPT !.syn = syn, !.synAck = synAck, !.fin = fin, !.state = state]

updateTCPState(c, flags) ==
  LET syn    == c.syn \/ ("SYN" \in flags /\ "ACK" \notin flags)
      synAck == c.synAck \/ {"SYN", "ACK"} \subseteq flags
      fin    == c.fin \/ "FIN" \in flags
      state  == IF "RST" \in flags \/ (fin /\ "ACK" \in flags) THEN "CLOSED"
                ELSE IF c.state = "NEW" /\ syn /\ synAck /\ "ACK" \in flags
                     THEN "ESTABLISHED" ELSE c.state
  IN  [c EXCEPT !.syn = syn, !.synAck = synAck, !.fin = fin, !.state = state]

NameToApp(name) == IF name = NoName THEN "UNKNOWN" ELSE AppOf[name]

\* Does an extractor find a name?  The ClientHello is looked for on any port,
\* the Host header on port 80 only, the DNS query on port 53.
Named(p) ==
  /\ p.name # Absent
  /\ \/ p.payload = "hello"
     \/ p.payload = "http" /\ p.tuple.dport = 80
     \/ p.payload = "dns" /\ 53 \in {p.tuple.sport, p.tuple.dport}

\* inspectPayload with classifyConnection; without a name, the port decides.
inspectPayload(c, p) ==
  LET As(app, name) == [c EXCEPT !.app = app, !.sni = name, !.state = "CLASSIFIED"]
  IN  IF Named(p) THEN As(IF p.payload = "dns" THEN "DNS" ELSE NameToApp(p.name), p.name)
      ELSE IF p.tuple.dport = 80 THEN As("HTTP", NoName)
      ELSE IF p.tuple.dport = 443 THEN As("HTTPS", NoName)
      ELSE c

\* The four lookups of shouldBlock, by name.
Hit(kind, p, c) ==
  CASE kind = "ip"     -> isIPBlocked(p.tuple.src)
    [] kind = "port"   -> isPortBlocked(p.tuple.dport)
    [] kind = "app"    -> isAppBlocked(c.app)
    [] kind = "domain" -> c.sni # NoName /\ isDomainBlocked(c.sni)

Lookups == {"ip", "port", "app", "domain"}
Hits(p, c) == {k \in Lookups : Hit(k, p, c)}
-----------------------------------------------------------------------------
Take ==
  /\ pc = "pop" /\ stats.processed < MaxPackets
  /\ \E p \in Packet : job' = p
  /\ pc' = "process"
  /\ stats' = [stats EXCEPT !.processed = @ + 1]
  /\ UNCHANGED <<ruleVars, live, conns, steady, some, fate>>

(***************************************************************************)
(* getOrCreateConnection: the connection, and what is evicted for it.      *)
(***************************************************************************)
Oldest == CHOOSE t \in live : \A u \in live : conns[t].lastSeen <= conns[u].lastSeen

\* Variant: evictOldest is called when the table is over its limit.
EvictedLate(t) ==
  IF t \notin live /\ Cardinality(live) > MaxConnections THEN {Oldest} ELSE {}

Evicted(t) ==
  IF t \notin live /\ Cardinality(live) >= MaxConnections THEN {Oldest} ELSE {}

\* Variant: the record of an erased connection is found again later.
EraseKeeps(S) == conns

\* connections_.erase for the tuples in S, and the end of their history.
Erase(S)  == [u \in Tuple |-> IF u \in S THEN NewConnection ELSE conns[u]]
Forget(S) == [u \in Tuple |-> IF u \in S THEN "free" ELSE fate[u]]

Closes(p, c) == "RST" \in p.flags \/ (("FIN" \in p.flags \/ c.fin) /\ "ACK" \in p.flags)

\* processPacket up to checkRules.
Process ==
  LET t       == job.tuple
      old     == conns[t]
      heard   == [old EXCEPT !.packets = @ + 1, !.lastSeen = stats.processed]
      current == IF t.proto = "tcp" THEN updateTCPState(heard, job.flags) ELSE heard
      known   == IF current.state # "CLASSIFIED" /\ job.payload # "none"
                 THEN inspectPayload(current, job) ELSE current
      blocked == current.state = "BLOCKED"
      conn    == IF blocked THEN current ELSE known
  IN
  /\ pc = "process"
  /\ conns' = [Erase(Evicted(t)) EXCEPT ![t] = conn]
  /\ live' = (live \ Evicted(t)) \cup {t}
  /\ fate' = [Forget(Evicted(t)) EXCEPT
       ![t] = IF @ = "blocked" /\ t.proto = "tcp" /\ Closes(job, old) THEN "closed" ELSE @]
  /\ IF blocked
     THEN /\ pc' = "pop" /\ job' = NoJob
          /\ UNCHANGED <<steady, some>>
     ELSE /\ pc' = "ip" /\ UNCHANGED job
          /\ steady' = Hits(job, conn) /\ some' = Hits(job, conn)
  /\ stats' = [stats EXCEPT
       !.seen       = IF t \in live THEN @ ELSE @ + 1,
       !.classified = IF conn.state = "CLASSIFIED" /\ current.state # "CLASSIFIED"
                      THEN @ + 1 ELSE @,
       !.dropped    = IF blocked THEN @ + 1 ELSE @]
  /\ UNCHANGED ruleVars

\* Variant: the rules about applications are passed over.
AfterLookupShort(kind) ==
  CASE kind = "ip" -> "port" [] kind \in {"port", "app"} -> "domain" [] kind = "domain" -> "pop"

\* One lookup of shouldBlock after the other; the first that succeeds blocks
\* the connection and drops the packet.
AfterLookup(kind) ==
  CASE kind = "ip" -> "port" [] kind = "port" -> "app" [] kind = "app" -> "domain"
    [] kind = "domain" -> "pop"

Finished == job' = NoJob /\ steady' = {} /\ some' = {}

\* Variant: the block is not counted.
BlockUncounted ==
  /\ pc \in Lookups /\ Hit(pc, job, conns[job.tuple])
  /\ conns' = [conns EXCEPT ![job.tuple].state = "BLOCKED"]
  /\ stats' = [stats EXCEPT !.dropped = @ + 1]
  /\ fate' = [fate EXCEPT ![job.tuple] = "blocked"]
  /\ pc' = "pop" /\ Finished
  /\ UNCHANGED <<ruleVars, live>>

BlockConnection ==
  /\ pc \in Lookups /\ Hit(pc, job, conns[job.tuple])
  /\ conns' = [conns EXCEPT ![job.tuple].state = "BLOCKED"]
  /\ stats' = [stats EXCEPT !.blocked = @ + 1, !.dropped = @ + 1]
  /\ fate' = [fate EXCEPT ![job.tuple] = "blocked"]
  /\ pc' = "pop" /\ Finished
  /\ UNCHANGED <<ruleVars, live>>

NextLookup ==
  /\ pc \in Lookups /\ ~Hit(pc, job, conns[job.tuple])
  /\ pc' = AfterLookup(pc)
  /\ IF pc' = "pop"
     THEN Finished /\ stats' = [stats EXCEPT !.forwarded = @ + 1]
     ELSE UNCHANGED <<job, steady, some, stats>>
  /\ UNCHANGED <<ruleVars, live, conns, fate>>

\* The queue has been empty for a while: connections that are closed go, and
\* those that nothing has been heard of for 300 s, the least recent ones.
cleanupStale ==
  /\ pc = "pop"
  /\ \E heardOf \in 0 .. stats.processed :
       LET gone == {t \in live : conns[t].lastSeen <= heardOf \/ conns[t].state = "CLOSED"}
       IN  live' = live \ gone /\ conns' = Erase(gone) /\ fate' = Forget(gone)
  /\ UNCHANGED <<ruleVars, pc, job, stats, steady, some>>

\* The main thread changes a rule.
ChangeRules ==
  /\ RuleStep
  /\ UNCHANGED <<live, conns, pc, job, stats, fate>>
  /\ IF pc \in Lookups
     THEN LET now == Hits(job, conns[job.tuple])'
          IN  steady' = steady \cap now /\ some' = some \cup now
     ELSE UNCHANGED <<steady, some>>

Next == Take \/ Process \/ BlockConnection \/ NextLookup \/ cleanupStale \/ ChangeRules

Spec == Init /\ [][Next]_vars
-----------------------------------------------------------------------------
States == {"NEW", "ESTABLISHED", "CLASSIFIED", "BLOCKED", "CLOSED"}
App    == {"UNKNOWN", "DNS", "HTTP", "HTTPS"} \cup {AppOf[n] : n \in DOMAIN AppOf}
Name   == DOMAIN AppOf \cup {NoName}
Connection == [state : States, app : App, sni : Name, packets : Nat, lastSeen : Nat,
               syn : BOOLEAN, synAck : BOOLEAN, fin : BOOLEAN]
Counters == [processed : Nat, forwarded : Nat, dropped : Nat,
             seen : Nat, classified : Nat, blocked : Nat]

\* The variables have their types, the table does not outgrow its limit, and
\* the connection of the packet in hand is in the table.
TypeOK ==
  /\ conns \in [Tuple -> Connection]
  /\ live \subseteq Tuple /\ IsFiniteSet(live) /\ Cardinality(live) <= MaxConnections
  /\ pc \in {"pop", "process"} \cup Lookups
  /\ pc # "pop" => job \in Packet
  /\ pc \in Lookups => job.tuple \in live
  /\ stats \in Counters
  /\ steady \subseteq Lookups /\ some \subseteq Lookups
  /\ fate \in [Tuple -> {"free", "blocked", "closed"}]

\* A rule that is in force during a whole check is obeyed, although the four
\* lookups happen one after the other while the rules change.
RulesObeyed == [][stats'.forwarded # stats.forwarded => steady = {}]_vars

\* A packet is dropped only for a rule in force at some time during its check
\* or because an earlier packet of its connection has been.
DropJustified ==
  [][stats'.dropped # stats.dropped => some # {} \/ fate[job.tuple] = "blocked"]_vars

\* A connection once blocked lets no packet pass, whatever the rules say by
\* then, the handshake it still completes and what its packets carry, until it
\* is closed, evicted or cleaned up.
BlockRemembered ==
  [][stats'.forwarded # stats.forwarded => fate[job.tuple] # "blocked"]_vars

\* "If connection is already blocked, drop immediately": as long as the rules do
\* not change, no packet of a connection that has been blocked passes while the
\* table knows the connection.
BlockedIsDropped ==
  [][stats'.forwarded # stats.forwarded /\ changes = 0 => fate[job.tuple] = "free"]_vars

\* The statistics cover the table: each connection classified or blocked has
\* been counted, and no packet is counted in two ways.
CountersCover ==
  /\ stats.processed = stats.forwarded + stats.dropped + (IF pc = "pop" THEN 0 ELSE 1)
  /\ Cardinality({t \in live : conns[t].state = "CLASSIFIED"}) <= stats.classified
  /\ Cardinality({t \in live : conns[t].state = "BLOCKED"}) <= stats.blocked
  /\ stats.blocked <= stats.dropped
  /\ Cardinality(live) <= stats.seen
  /\ SumOf([t \in live |-> conns[t].packets]) <= stats.processed
=============================================================================
