--------------------------- MODULE FastPathProofs ---------------------------
(***************************************************************************)
(* Proofs about FastPath, for any packets, names, rules and table size,    *)
(* and any number of packets and rule changes.                             *)
(***************************************************************************)
EXTENDS FastPath, SharedTheorems, WellFoundedInduction

(***************************************************************************)
(* What the operators on one connection return.                            *)
(***************************************************************************)
\* updateTCPState returns a connection; it is blocked when the connection was
\* and the packet does not close it.  Application, name and counts stay.
LEMMA TCPState ==
  ASSUME NEW c \in Connection, NEW p \in Packet
  PROVE  /\ updateTCPState(c, p.flags) \in Connection
         /\ updateTCPState(c, p.flags).state = "BLOCKED"
              <=> c.state = "BLOCKED" /\ ~Closes(p, c)
<1> DEFINE syn    == c.syn \/ ("SYN" \in p.flags /\ "ACK" \notin p.flags)
           synAck == c.synAck \/ {"SYN", "ACK"} \subseteq p.flags
           fin    == c.fin \/ "FIN" \in p.flags
           state  == IF "RST" \in p.flags \/ (fin /\ "ACK" \in p.flags) THEN "CLOSED"
                     ELSE IF c.state = "NEW" /\ syn /\ synAck /\ "ACK" \in p.flags
                          THEN "ESTABLISHED" ELSE c.state
<1>1. updateTCPState(c, p.flags)
        = [c EXCEPT !.syn = syn, !.synAck = synAck, !.fin = fin, !.state = state]
  BY DEF updateTCPState
<1>2. syn \in BOOLEAN /\ synAck \in BOOLEAN /\ fin \in BOOLEAN
  OBVIOUS
<1>3. c.state \in States /\ state \in States
  BY DEF Connection, States
<1>4. state = "BLOCKED" <=> c.state = "BLOCKED" /\ ~Closes(p, c)
  BY DEF Closes
<1> HIDE DEF syn, synAck, fin, state
<1>5. [c EXCEPT !.syn = syn, !.synAck = synAck, !.fin = fin, !.state = state] \in Connection
  BY <1>2, <1>3 DEF Connection
<1>6. [c EXCEPT !.syn = syn, !.synAck = synAck, !.fin = fin, !.state = state].state = state
  BY DEF Connection
<1> QED
  BY <1>1, <1>4, <1>5, <1>6

\* inspectPayload returns a connection, which is not blocked unless it was.
LEMMA Inspection ==
  ASSUME NEW c \in Connection, NEW p \in Packet
  PROVE  /\ inspectPayload(c, p) \in Connection
         /\ inspectPayload(c, p).state = "BLOCKED" => c.state = "BLOCKED"
<1> DEFINE As(app, name) == [c EXCEPT !.app = app, !.sni = name, !.state = "CLASSIFIED"]
<1>1. ASSUME NEW app \in App, NEW name \in Name
      PROVE  As(app, name) \in Connection /\ As(app, name).state = "CLASSIFIED"
  BY <1>1 DEF Connection, States
<1>2. ASSUME Named(p)
      PROVE  p.name \in Name /\ (IF p.payload = "dns" THEN "DNS" ELSE NameToApp(p.name)) \in App
  BY <1>2, FastPathAssumption DEF Named, Name, App, NameToApp
<1>3. "HTTP" \in App /\ "HTTPS" \in App /\ NoName \in Name
  BY DEF App, Name
<1>4. \/ /\ Named(p)
         /\ inspectPayload(c, p) = As(IF p.payload = "dns" THEN "DNS" ELSE NameToApp(p.name), p.name)
      \/ inspectPayload(c, p) = As("HTTP", NoName)
      \/ inspectPayload(c, p) = As("HTTPS", NoName)
      \/ inspectPayload(c, p) = c
  BY DEF inspectPayload
<1> HIDE DEF As
<1> QED
  BY <1>1, <1>2, <1>3, <1>4

\* A connection that is heard of once more, or blocked, is a connection.
LEMMA Changed ==
  ASSUME NEW c \in Connection, NEW n \in Nat
  PROVE  /\ [c EXCEPT !.packets = @ + 1, !.lastSeen = n] \in Connection
         /\ [c EXCEPT !.state = "BLOCKED"] \in Connection
         /\ [c EXCEPT !.state = "BLOCKED"].state = "BLOCKED"
<1>1. c.packets + 1 \in Nat /\ "BLOCKED" \in States
  BY DEF Connection, States
<1> QED
  BY <1>1 DEF Connection

\* Counters count.
LEMMA Counting ==
  ASSUME NEW s \in Counters, NEW i \in Nat, NEW j \in Nat, NEW k \in Nat
  PROVE  /\ [s EXCEPT !.seen = i, !.classified = j, !.dropped = k] \in Counters
         /\ [s EXCEPT !.blocked = i, !.dropped = j] \in Counters
         /\ [s EXCEPT !.processed = i] \in Counters
         /\ [s EXCEPT !.forwarded = i] \in Counters
  BY DEF Counters

\* A new connection is one.
LEMMA NewIsConnection == NewConnection \in Connection /\ NewConnection.state = "NEW"
  BY DEF NewConnection, Connection, States, App, Name

(***************************************************************************)
(* The table.                                                              *)
(***************************************************************************)
\* evictOldest finds a connection to evict.
LEMMA OldestIsLive ==
  ASSUME TypeOK, live # {}
  PROVE  Oldest \in live
<1> DEFINE T == {conns[t].lastSeen : t \in live}
<1>1. T \subseteq Nat /\ T # {}
  BY DEF TypeOK, Connection
<1> DEFINE R == {ss \in Nat \X Nat : ss[1] < ss[2]}
<1>2. IsWellFoundedOn(R, Nat)
  BY NatLessThanWellFounded, Zenon DEF OpToRel
<1> HIDE DEF T
<1>3. PICK n \in T : \A m \in T : ~(<<m, n>> \in R)
  <2> HIDE DEF R
  <2> QED
    BY <1>1, <1>2, WFMin
<1>4. \A m \in T : n <= m
  <2> SUFFICES ASSUME NEW m \in T, m < n PROVE FALSE
    BY <1>1
  <2> DEFINE pair == <<m, n>>
  <2>1. pair \in Nat \X Nat /\ pair[1] = m /\ pair[2] = n
    BY <1>1
  <2> HIDE DEF pair
  <2>2. pair \in R
    BY <2>1
  <2> QED
    BY <1>3, <2>2 DEF pair
<1> USE DEF T
<1>5. \E t \in live : \A u \in live : conns[t].lastSeen <= conns[u].lastSeen
  BY <1>4
<1> QED
  BY <1>5 DEF Oldest

\* Making room and adding a connection keeps the table within its limit.
LEMMA TableBound ==
  ASSUME TypeOK, NEW t \in Tuple
  PROVE  /\ Evicted(t) \subseteq live
         /\ t \notin Evicted(t)
         /\ IsFiniteSet((live \ Evicted(t)) \cup {t})
         /\ Cardinality((live \ Evicted(t)) \cup {t}) <= MaxConnections
<1> USE FastPathAssumption
<1>0. IsFiniteSet(live) /\ Cardinality(live) \in Nat /\ Cardinality(live) <= MaxConnections
  BY FS_CardinalityType DEF TypeOK
<1>1. CASE t \in live
  <2>1. Evicted(t) = {} /\ (live \ Evicted(t)) \cup {t} = live
    BY <1>1 DEF Evicted
  <2> QED
    BY <2>1, <1>0
<1>2. CASE t \notin live /\ Cardinality(live) < MaxConnections
  <2>1. Evicted(t) = {} /\ (live \ Evicted(t)) \cup {t} = live \cup {t}
    BY <1>0, <1>2 DEF Evicted
  <2>2. IsFiniteSet(live \cup {t}) /\ Cardinality(live \cup {t}) = Cardinality(live) + 1
    BY <1>0, <1>2, FS_AddElement
  <2> QED
    BY <2>1, <2>2, <1>0, <1>2
<1>3. CASE t \notin live /\ Cardinality(live) >= MaxConnections
  <2>1. live # {}
    BY <1>0, <1>3, FS_EmptySet
  <2>2. Oldest \in live /\ Evicted(t) = {Oldest}
    BY <2>1, <1>3, OldestIsLive DEF Evicted
  <2>3. /\ IsFiniteSet(live \ {Oldest})
        /\ Cardinality(live \ {Oldest}) = Cardinality(live) - 1
    BY <2>2, <1>0, FS_RemoveElement
  <2>4. t \notin live \ {Oldest}
    BY <1>3
  <2>5. /\ IsFiniteSet((live \ {Oldest}) \cup {t})
        /\ Cardinality((live \ {Oldest}) \cup {t}) = Cardinality(live \ {Oldest}) + 1
    BY <2>3, <2>4, FS_AddElement
  <2> QED
    BY <2>2, <2>3, <2>5, <1>0, <1>3
<1> QED
  BY <1>0, <1>1, <1>2, <1>3

\* Erasing connections keeps the types.
LEMMA Erasing ==
  ASSUME TypeOK, NEW S
  PROVE  Erase(S) \in [Tuple -> Connection] /\ Forget(S) \in [Tuple -> {"free", "blocked", "closed"}]
  BY NewIsConnection DEF TypeOK, Erase, Forget

(***************************************************************************)
(* processPacket up to checkRules: the connection ends up blocked, and the *)
(* packet dropped, exactly when it was blocked and the packet did not      *)
(* close it; otherwise the rules are looked at.                            *)
(***************************************************************************)
Ends(t) == t.proto = "tcp" /\ Closes(job, conns[t])

\* The effect of Process on a connection.
LEMMA ProcessEffect ==
  ASSUME TypeOK, Process
  PROVE  /\ job \in Packet /\ job.tuple \in Tuple
         /\ stats' \in Counters
         /\ stats'.forwarded = stats.forwarded
         /\ \E conn \in Connection :
              /\ conns' = [Erase(Evicted(job.tuple)) EXCEPT ![job.tuple] = conn]
              /\ conn.state = "BLOCKED"
                   <=> conns[job.tuple].state = "BLOCKED" /\ ~Ends(job.tuple)
              /\ \/ /\ conn.state = "BLOCKED"
                    /\ pc' = "pop" /\ UNCHANGED <<steady, some>>
                 \/ /\ conn.state # "BLOCKED"
                    /\ pc' = "ip" /\ job' = job /\ stats'.dropped = stats.dropped
                    /\ steady' = Hits(job, conn) /\ some' = Hits(job, conn)
<1> DEFINE t       == job.tuple
           old     == conns[t]
           heard   == [old EXCEPT !.packets = @ + 1, !.lastSeen = stats.processed]
           current == IF t.proto = "tcp" THEN updateTCPState(heard, job.flags) ELSE heard
           known   == IF current.state # "CLASSIFIED" /\ job.payload # "none"
                      THEN inspectPayload(current, job) ELSE current
           blocked == current.state = "BLOCKED"
           conn    == IF blocked THEN current ELSE known
<1>1. job \in Packet /\ t \in Tuple
  BY DEF Process, TypeOK, Tuple
<1>2. old \in Connection
  BY <1>1 DEF TypeOK
<1>3. heard \in Connection /\ heard.state = old.state /\ heard.fin = old.fin
  <2>1. stats.processed \in Nat
    BY DEF TypeOK, Counters
  <2>2. heard \in Connection
    BY <1>2, <2>1, Changed
  <2> QED
    BY <1>2, <2>2 DEF Connection
<1>4. Closes(job, heard) <=> Closes(job, old)
  BY <1>3 DEF Closes
<1>5. current \in Connection /\ (blocked <=> old.state = "BLOCKED" /\ ~Ends(t))
  BY <1>1, <1>3, <1>4, TCPState DEF Ends
<1>6. known \in Connection /\ (known.state = "BLOCKED" => blocked)
  BY <1>1, <1>5, Inspection
<1>7. conn \in Connection /\ (conn.state = "BLOCKED" <=> blocked)
  BY <1>5, <1>6
<1>8. /\ conns' = [Erase(Evicted(t)) EXCEPT ![t] = conn]
      /\ \/ blocked /\ pc' = "pop" /\ UNCHANGED <<steady, some>>
         \/ /\ ~blocked /\ pc' = "ip" /\ job' = job
            /\ steady' = Hits(job, conn) /\ some' = Hits(job, conn)
  BY DEF Process
<1>9. stats' = [stats EXCEPT
       !.seen       = IF t \in live THEN @ ELSE @ + 1,
       !.classified = IF conn.state = "CLASSIFIED" /\ current.state # "CLASSIFIED"
                      THEN @ + 1 ELSE @,
       !.dropped    = IF blocked THEN @ + 1 ELSE @]
  BY DEF Process
<1> HIDE DEF conn, current, known, blocked, t
<1>10. /\ stats' \in Counters
       /\ stats'.forwarded = stats.forwarded
       /\ ~blocked => stats'.dropped = stats.dropped
  <2> DEFINE i == IF t \in live THEN stats.seen ELSE stats.seen + 1
             j == IF conn.state = "CLASSIFIED" /\ current.state # "CLASSIFIED"
                  THEN stats.classified + 1 ELSE stats.classified
             k == IF blocked THEN stats.dropped + 1 ELSE stats.dropped
  <2>1. i \in Nat /\ j \in Nat /\ k \in Nat
    BY DEF TypeOK, Counters
  <2>2. stats' = [stats EXCEPT !.seen = i, !.classified = j, !.dropped = k]
    BY <1>9
  <2>3. ~blocked => k = stats.dropped
    OBVIOUS
  <2> HIDE DEF i, j, k
  <2> QED
    BY <2>1, <2>2, <2>3, Counting DEF TypeOK, Counters
<1>11. conn.state = "BLOCKED" <=> conns[t].state = "BLOCKED" /\ ~Ends(t)
  BY <1>5, <1>7
<1>12. /\ conns' = [Erase(Evicted(t)) EXCEPT ![t] = conn]
       /\ \/ /\ conn.state = "BLOCKED"
             /\ pc' = "pop" /\ UNCHANGED <<steady, some>>
          \/ /\ conn.state # "BLOCKED"
             /\ pc' = "ip" /\ job' = job /\ stats'.dropped = stats.dropped
             /\ steady' = Hits(job, conn) /\ some' = Hits(job, conn)
  BY <1>7, <1>8, <1>10
<1> QED
  BY <1>1, <1>7, <1>10, <1>11, <1>12 DEF t

(***************************************************************************)
(* Typing.                                                                 *)
(***************************************************************************)
\* The fast path starts with the right types.
LEMMA TypeInit == Init => TypeOK
<1> SUFFICES ASSUME Init PROVE TypeOK
  OBVIOUS
<1>1. IsFiniteSet({}) /\ Cardinality({}) = 0
  BY FS_EmptySet
<1>2. conns \in [Tuple -> Connection]
  BY NewIsConnection DEF Init
<1>3. stats \in Counters
  BY DEF Init, Counters
<1>4. live = {} /\ pc = "pop" /\ steady = {} /\ some = {}
      /\ fate \in [Tuple -> {"free", "blocked", "closed"}]
  BY DEF Init
<1> QED
  BY <1>1, <1>2, <1>3, <1>4, FastPathAssumption DEF TypeOK, Lookups

\* Every step keeps the types and the limit of the table.
LEMMA TypeStep == TypeOK /\ [Next]_vars => TypeOK'
<1> SUFFICES ASSUME TypeOK, [Next]_vars PROVE TypeOK'
  OBVIOUS
<1>1. CASE Take
  <2>1. stats.processed + 1 \in Nat
    BY DEF TypeOK, Counters
  <2>2. stats' \in Counters
    BY <1>1, <2>1, Counting DEF Take, TypeOK
  <2> QED
    BY <1>1, <2>2 DEF Take, TypeOK, Lookups
<1>2. CASE Process
  <2> DEFINE t == job.tuple
  <2>1. t \in Tuple /\ job \in Packet
    BY <1>2, ProcessEffect
  <2>2. PICK conn \in Connection :
          /\ conns' = [Erase(Evicted(t)) EXCEPT ![t] = conn]
          /\ \/ pc' = "pop" /\ UNCHANGED <<steady, some>>
             \/ /\ pc' = "ip" /\ job' = job
                /\ steady' = Hits(job, conn) /\ some' = Hits(job, conn)
    BY <1>2, ProcessEffect
  <2>3. conns' \in [Tuple -> Connection]
    BY <2>1, <2>2, Erasing
  <2>4. /\ live' = (live \ Evicted(t)) \cup {t}
        /\ fate' = [Forget(Evicted(t)) EXCEPT
             ![t] = IF @ = "blocked" /\ Ends(t) THEN "closed" ELSE @]
    BY <1>2 DEF Process, Ends
  <2>5. fate' \in [Tuple -> {"free", "blocked", "closed"}]
    BY <2>1, <2>4, Erasing
  <2>6. live' \subseteq Tuple /\ IsFiniteSet(live') /\ Cardinality(live') <= MaxConnections
    BY <2>1, <2>4, TableBound DEF TypeOK
  <2>7. steady' \subseteq Lookups /\ some' \subseteq Lookups
    BY <2>2 DEF TypeOK, Hits
  <2>8. stats' \in Counters
    BY <1>2, ProcessEffect
  <2>9. /\ pc' \in {"pop", "process"} \cup Lookups
        /\ pc' # "pop" => job' \in Packet
        /\ pc' \in Lookups => job'.tuple \in live'
    BY <2>1, <2>2, <2>4 DEF Lookups
  <2> QED
    BY <2>3, <2>5, <2>6, <2>7, <2>8, <2>9 DEF TypeOK
<1>3. CASE BlockConnection
  <2>1. job.tuple \in Tuple
    BY <1>3 DEF BlockConnection, TypeOK
  <2>2. conns' \in [Tuple -> Connection]
    <3> DEFINE c == [conns[job.tuple] EXCEPT !.state = "BLOCKED"]
    <3>1. c \in Connection
      BY <2>1, Changed DEF TypeOK
    <3>2. conns' = [conns EXCEPT ![job.tuple] = c]
      BY <1>3 DEF BlockConnection
    <3> HIDE DEF c
    <3> QED
      BY <2>1, <3>1, <3>2 DEF TypeOK
  <2>3. stats' \in Counters
    <3>1. stats.blocked + 1 \in Nat /\ stats.dropped + 1 \in Nat
      BY DEF TypeOK, Counters
    <3> QED
      BY <1>3, <3>1, Counting DEF BlockConnection, TypeOK
  <2> QED
    BY <1>3, <2>1, <2>2, <2>3 DEF BlockConnection, Finished, TypeOK, Lookups
<1>4. CASE NextLookup
  <2>1. pc' \in {"pop"} \cup Lookups
    BY <1>4 DEF NextLookup, AfterLookup, Lookups
  <2>2. stats' \in Counters
    <3>1. stats.forwarded + 1 \in Nat
      BY DEF TypeOK, Counters
    <3> QED
      BY <1>4, <3>1, Counting DEF NextLookup, TypeOK
  <2>3. steady' \subseteq Lookups /\ some' \subseteq Lookups /\ (pc' # "pop" => job' = job)
    BY <1>4 DEF NextLookup, Finished, TypeOK
  <2> QED
    BY <1>4, <2>1, <2>2, <2>3 DEF NextLookup, TypeOK, Lookups
<1>5. CASE cleanupStale
  <2>1. PICK S \in SUBSET live : live' = live \ S /\ conns' = Erase(S) /\ fate' = Forget(S)
    BY <1>5 DEF cleanupStale
  <2>2. IsFiniteSet(live') /\ Cardinality(live') <= Cardinality(live)
    BY <2>1, FS_Subset DEF TypeOK
  <2>3. Cardinality(live) \in Nat /\ Cardinality(live') \in Nat
    BY <2>2, FS_CardinalityType DEF TypeOK
  <2>4. Cardinality(live') <= MaxConnections
    BY <2>2, <2>3, FastPathAssumption DEF TypeOK
  <2>5. /\ conns' \in [Tuple -> Connection]
        /\ fate' \in [Tuple -> {"free", "blocked", "closed"}]
    BY <2>1, Erasing
  <2> QED
    BY <1>5, <2>1, <2>2, <2>4, <2>5 DEF cleanupStale, TypeOK, Lookups
<1>6. CASE ChangeRules
  <2>1. steady' \subseteq Lookups /\ some' \subseteq Lookups
    BY <1>6 DEF ChangeRules, TypeOK, Hits
  <2> QED
    BY <1>6, <2>1 DEF ChangeRules, TypeOK
<1>7. CASE UNCHANGED vars
  BY <1>7 DEF vars, fpVars, TypeOK
<1> QED
  BY <1>1, <1>2, <1>3, <1>4, <1>5, <1>6, <1>7 DEF Next

\* The variables have their types in every state, and the table its limit.
THEOREM TypeCorrect == Spec => []TypeOK
  BY TypeInit, TypeStep, PTL DEF Spec

(***************************************************************************)
(* The blocked connections.  fate is a history, state is what the program  *)
(* keeps; they agree, so what a connection has met with is not lost as     *)
(* long as the table holds it.  While the rules are looked at, the         *)
(* connection is not blocked yet.                                          *)
(***************************************************************************)
Remembered ==
  /\ \A t \in Tuple : fate[t] = "blocked" <=> conns[t].state = "BLOCKED"
  /\ pc \in Lookups => conns[job.tuple].state # "BLOCKED"

LEMMA RememberedInit == Init => Remembered
  BY NewIsConnection DEF Init, Remembered, Lookups

LEMMA RememberedStep == TypeOK /\ Remembered /\ [Next]_vars => Remembered'
<1> SUFFICES ASSUME TypeOK, Remembered, [Next]_vars PROVE Remembered'
  OBVIOUS
<1>1. CASE Take
  BY <1>1 DEF Take, Remembered, Lookups
<1>2. CASE Process
  <2> DEFINE t == job.tuple
  <2>1. PICK conn \in Connection :
          /\ conns' = [Erase(Evicted(t)) EXCEPT ![t] = conn]
          /\ conn.state = "BLOCKED" <=> conns[t].state = "BLOCKED" /\ ~Ends(t)
          /\ \/ pc' = "pop"
             \/ conn.state # "BLOCKED" /\ job' = job
    BY <1>2, ProcessEffect
  <2>2. t \in Tuple /\ t \notin Evicted(t)
    BY <1>2, ProcessEffect, TableBound
  <2>3. fate' = [Forget(Evicted(t)) EXCEPT
                   ![t] = IF @ = "blocked" /\ Ends(t) THEN "closed" ELSE @]
    BY <1>2 DEF Process, Ends
  <2>4. conns'[t] = conn /\ (fate'[t] = "blocked" <=> fate[t] = "blocked" /\ ~Ends(t))
    BY <2>1, <2>2, <2>3 DEF Erase, Forget
  <2>5. ASSUME NEW u \in Tuple, u # t
        PROVE  fate'[u] = "blocked" <=> conns'[u].state = "BLOCKED"
    <3>1. /\ conns'[u] = IF u \in Evicted(t) THEN NewConnection ELSE conns[u]
          /\ fate'[u] = IF u \in Evicted(t) THEN "free" ELSE fate[u]
      BY <2>1, <2>3, <2>5 DEF Erase, Forget
    <3> QED
      BY <3>1, NewIsConnection DEF Remembered
  <2>6. \A u \in Tuple : fate'[u] = "blocked" <=> conns'[u].state = "BLOCKED"
    BY <2>1, <2>2, <2>4, <2>5 DEF Remembered
  <2>7. pc' \in Lookups => conns'[job'.tuple].state # "BLOCKED"
    BY <2>1, <2>4 DEF Lookups
  <2> QED
    BY <2>6, <2>7 DEF Remembered
<1>3. CASE BlockConnection
  <2>1. job.tuple \in Tuple /\ conns[job.tuple] \in Connection
    BY <1>3 DEF BlockConnection, TypeOK
  <2> DEFINE c == [conns[job.tuple] EXCEPT !.state = "BLOCKED"]
  <2>2. c.state = "BLOCKED"
    BY <2>1, Changed
  <2>3. /\ conns' = [conns EXCEPT ![job.tuple] = c]
        /\ fate' = [fate EXCEPT ![job.tuple] = "blocked"]
        /\ pc' = "pop"
    BY <1>3 DEF BlockConnection
  <2> HIDE DEF c
  <2> QED
    BY <2>1, <2>2, <2>3 DEF Remembered, TypeOK, Lookups
<1>4. CASE NextLookup
  BY <1>4 DEF NextLookup, Remembered, Lookups
<1>5. CASE cleanupStale
  <2>1. PICK S \in SUBSET live : conns' = Erase(S) /\ fate' = Forget(S)
    BY <1>5 DEF cleanupStale
  <2>2. pc' \notin Lookups
    BY <1>5 DEF cleanupStale, Lookups
  <2> QED
    BY <2>1, <2>2, NewIsConnection DEF Erase, Forget, Remembered
<1>6. CASE ChangeRules
  BY <1>6 DEF ChangeRules, Remembered
<1>7. CASE UNCHANGED vars
  BY <1>7 DEF vars, fpVars, Remembered
<1> QED
  BY <1>1, <1>2, <1>3, <1>4, <1>5, <1>6, <1>7 DEF Next

LEMMA RememberedAlways == Spec => [](TypeOK /\ Remembered)
  BY TypeCorrect, RememberedInit, RememberedStep, PTL DEF Spec

\* Only the last lookup, when it fails, forwards a packet.
LEMMA Forwarding ==
  ASSUME TypeOK, [Next]_vars, stats'.forwarded # stats.forwarded
  PROVE  NextLookup /\ pc = "domain"
<1>1. CASE Take
  BY <1>1 DEF Take, TypeOK, Counters
<1>2. CASE Process
  BY <1>2, ProcessEffect
<1>3. CASE BlockConnection
  BY <1>3 DEF BlockConnection, TypeOK, Counters
<1>4. CASE NextLookup
  BY <1>4 DEF NextLookup, AfterLookup, Lookups
<1>5. CASE cleanupStale \/ ChangeRules \/ UNCHANGED vars
  BY <1>5 DEF cleanupStale, ChangeRules, vars, fpVars
<1> QED
  BY <1>1, <1>2, <1>3, <1>4, <1>5 DEF Next

\* No packet of a connection that is known to be blocked passes, whatever the
\* rules are by then, until it is closed, evicted or cleaned up.
THEOREM BlockStays == Spec => BlockRemembered
<1>1. TypeOK /\ Remembered /\ [Next]_vars
        => [stats'.forwarded # stats.forwarded => fate[job.tuple] # "blocked"]_vars
  <2> SUFFICES ASSUME TypeOK, Remembered, [Next]_vars, stats'.forwarded # stats.forwarded
               PROVE  fate[job.tuple] # "blocked"
    OBVIOUS
  <2>1. pc \in Lookups
    BY Forwarding DEF Lookups
  <2>2. job.tuple \in Tuple
    BY <2>1 DEF TypeOK
  <2> QED
    BY <2>1, <2>2 DEF Remembered
<1> QED
  BY <1>1, RememberedAlways, PTL DEF Spec, BlockRemembered

(***************************************************************************)
(* The lookups.  At each of them, those that have succeeded ever since the *)
(* check began succeed now, those that succeed now have succeeded at some  *)
(* time, and none of those already made has succeeded throughout: it would *)
(* have blocked the connection.                                            *)
(***************************************************************************)
Made(kind) ==
  CASE kind = "port" -> {"ip"} [] kind = "app" -> {"ip", "port"}
    [] kind = "domain" -> {"ip", "port", "app"} [] OTHER -> {}

Looking ==
  pc \in Lookups =>
    /\ steady \subseteq Hits(job, conns[job.tuple])
    /\ Hits(job, conns[job.tuple]) \subseteq some
    /\ steady \cap Made(pc) = {}

LEMMA LookingInit == Init => Looking
  BY DEF Init, Looking, Lookups

LEMMA LookingStep == TypeOK /\ Looking /\ [Next]_vars => Looking'
<1> SUFFICES ASSUME TypeOK, Looking, [Next]_vars PROVE Looking'
  OBVIOUS
<1> USE DEF Hits, Hit, isIPBlocked, isPortBlocked, isAppBlocked, isDomainBlocked
<1>1. CASE Take
  BY <1>1 DEF Take, Looking, Lookups
<1>2. CASE Process
  <2>1. PICK conn \in Connection :
          /\ conns' = [Erase(Evicted(job.tuple)) EXCEPT ![job.tuple] = conn]
          /\ \/ pc' = "pop"
             \/ /\ pc' = "ip" /\ job' = job
                /\ steady' = Hits(job, conn) /\ some' = Hits(job, conn)
    BY <1>2, ProcessEffect
  <2>2. conns'[job.tuple] = conn
    BY <1>2, <2>1, ProcessEffect DEF Erase
  <2>3. CASE pc' = "pop"
    BY <2>3 DEF Looking, Lookups
  <2>4. CASE pc' = "ip" /\ job' = job /\ steady' = Hits(job, conn) /\ some' = Hits(job, conn)
    <3>1. rules' = rules
      BY <1>2 DEF Process, ruleVars
    <3>2. Hits(job, conns[job.tuple])' = Hits(job, conn)
      BY <2>2, <2>4, <3>1
    <3> QED
      BY <2>4, <3>2 DEF Looking, Made
  <2> QED
    BY <2>1, <2>3, <2>4
<1>3. CASE BlockConnection
  BY <1>3 DEF BlockConnection, Looking, Lookups
<1>4. CASE NextLookup
  <2>1. CASE pc' = "pop"
    BY <2>1 DEF Looking, Lookups
  <2>2. CASE pc' # "pop"
    <3>1. pc \in Lookups /\ pc' = AfterLookup(pc)
          /\ UNCHANGED <<rules, conns, job, steady, some>>
      BY <1>4, <2>2 DEF NextLookup, ruleVars
    <3>2. Hits(job, conns[job.tuple])' = Hits(job, conns[job.tuple])
      BY <3>1
    <3>3. pc \notin steady
      BY <1>4, <3>1 DEF NextLookup, Looking
    <3>4. Made(pc') = Made(pc) \cup {pc}
      BY <2>2, <3>1 DEF AfterLookup, Made, Lookups
    <3> QED
      BY <3>1, <3>2, <3>3, <3>4 DEF Looking
  <2> QED
    BY <2>1, <2>2
<1>5. CASE cleanupStale
  BY <1>5 DEF cleanupStale, Looking, Lookups
<1>6. CASE ChangeRules
  BY <1>6 DEF ChangeRules, Looking
<1>7. CASE UNCHANGED vars
  <2>1. Hits(job, conns[job.tuple])' = Hits(job, conns[job.tuple])
    BY <1>7 DEF vars, fpVars, ruleVars
  <2> QED
    BY <1>7, <2>1 DEF vars, fpVars, Looking
<1> QED
  BY <1>1, <1>2, <1>3, <1>4, <1>5, <1>6, <1>7 DEF Next

LEMMA LookingAlways == Spec => [](TypeOK /\ Looking)
  BY TypeCorrect, LookingInit, LookingStep, PTL DEF Spec

\* No packet is forwarded against a rule that holds during the whole check.
THEOREM RulesAreObeyed == Spec => RulesObeyed
<1>1. TypeOK /\ Looking /\ [Next]_vars
        => [stats'.forwarded # stats.forwarded => steady = {}]_vars
  <2> SUFFICES ASSUME TypeOK, Looking, [Next]_vars, stats'.forwarded # stats.forwarded
               PROVE  steady = {}
    OBVIOUS
  <2>1. NextLookup /\ pc = "domain"
    BY Forwarding
  <2>2. "domain" \notin steady
    BY <2>1 DEF NextLookup, Looking, Hits
  <2>3. steady \cap {"ip", "port", "app"} = {} /\ steady \subseteq Lookups
    BY <2>1 DEF Looking, Made, Lookups, TypeOK
  <2> QED
    BY <2>2, <2>3 DEF Lookups
<1> QED
  BY <1>1, LookingAlways, PTL DEF Spec, RulesObeyed

\* No packet is dropped without a rule at some time during its check, unless its
\* connection is blocked already.
THEOREM DropsAreJustified == Spec => DropJustified
<1>1. TypeOK /\ Remembered /\ Looking /\ [Next]_vars
        => [stats'.dropped # stats.dropped => some # {} \/ fate[job.tuple] = "blocked"]_vars
  <2> SUFFICES ASSUME TypeOK, Remembered, Looking, [Next]_vars, stats'.dropped # stats.dropped
               PROVE  some # {} \/ fate[job.tuple] = "blocked"
    OBVIOUS
  <2>1. CASE Take
    BY <2>1 DEF Take, TypeOK, Counters
  <2>2. CASE Process
    <3>1. conns[job.tuple].state = "BLOCKED" /\ job.tuple \in Tuple
      BY <2>2, ProcessEffect
    <3> QED
      BY <3>1 DEF Remembered
  <2>3. CASE BlockConnection
    BY <2>3 DEF BlockConnection, Looking, Hits
  <2>4. CASE NextLookup
    BY <2>4 DEF NextLookup, TypeOK, Counters
  <2>5. CASE cleanupStale \/ ChangeRules \/ UNCHANGED vars
    BY <2>5 DEF cleanupStale, ChangeRules, vars, fpVars
  <2> QED
    BY <2>1, <2>2, <2>3, <2>4, <2>5 DEF Next
<1> QED
  BY <1>1, RememberedAlways, LookingAlways, PTL DEF Spec, DropJustified

(***************************************************************************)
(* The counters.  For the table to be covered by them, a tuple that is not *)
(* in it must have a new connection.                                       *)
(***************************************************************************)
InState(s) == {t \in live : conns[t].state = s}
Counted    == [t \in live |-> conns[t].packets]

CoverInv ==
  /\ \A t \in Tuple \ live : conns[t] = NewConnection
  /\ stats.processed = stats.forwarded + stats.dropped + (IF pc = "pop" THEN 0 ELSE 1)
  /\ Cardinality(InState("CLASSIFIED")) <= stats.classified
  /\ Cardinality(InState("BLOCKED")) <= stats.blocked
  /\ stats.blocked <= stats.dropped
  /\ Cardinality(live) <= stats.seen
  /\ SumOf(Counted) <= stats.processed - (IF pc = "process" THEN 1 ELSE 0)

\* A set that one element is added to.
LEMMA Grown ==
  ASSUME NEW S, IsFiniteSet(S), NEW T, NEW x, T \subseteq S \cup {x}
  PROVE  /\ IsFiniteSet(T) /\ Cardinality(T) \in Nat /\ Cardinality(S) \in Nat
         /\ Cardinality(T) <= Cardinality(S) + 1
         /\ T \subseteq S => Cardinality(T) <= Cardinality(S)
<1>1. /\ IsFiniteSet(S \cup {x}) /\ Cardinality(S) \in Nat
      /\ Cardinality(S \cup {x}) <= Cardinality(S) + 1
  <2>1. Cardinality(S) \in Nat
    BY FS_CardinalityType
  <2>2. CASE x \in S
    <3>1. S \cup {x} = S
      BY <2>2
    <3> QED
      BY <2>1, <3>1
  <2>3. CASE x \notin S
    <3>1. Cardinality(S \cup {x}) = Cardinality(S) + 1 /\ IsFiniteSet(S \cup {x})
      BY <2>3, FS_AddElement
    <3> QED
      BY <2>1, <3>1
  <2> QED
    BY <2>2, <2>3
<1>2. IsFiniteSet(T) /\ Cardinality(T) <= Cardinality(S \cup {x})
  BY <1>1, FS_Subset
<1>3. Cardinality(T) \in Nat /\ Cardinality(S \cup {x}) \in Nat
  BY <1>1, <1>2, FS_CardinalityType
<1>4. T \subseteq S => Cardinality(T) <= Cardinality(S)
  BY FS_Subset
<1> QED
  BY <1>1, <1>2, <1>3, <1>4

LEMMA CoverInit == Init => CoverInv
<1> SUFFICES ASSUME Init PROVE CoverInv
  OBVIOUS
<1>1. live = {} /\ \A t \in Tuple : conns[t] = NewConnection
  BY DEF Init
<1>2. /\ stats.processed = 0 /\ stats.forwarded = 0 /\ stats.dropped = 0
      /\ stats.classified = 0 /\ stats.blocked = 0 /\ stats.seen = 0 /\ pc = "pop"
  BY DEF Init
<1>3. \A s : InState(s) = {}
  BY <1>1 DEF InState
<1>4. SumOf(Counted) = 0
  BY <1>1, SumZero DEF Counted
<1>5. Cardinality({}) = 0
  BY FS_EmptySet
<1> QED
  BY <1>1, <1>2, <1>3, <1>4, <1>5 DEF CoverInv

\* updateTCPState classifies nothing and counts nothing, inspectPayload counts
\* nothing.
LEMMA Kept ==
  ASSUME NEW c \in Connection, NEW p \in Packet
  PROVE  /\ updateTCPState(c, p.flags).packets = c.packets
         /\ updateTCPState(c, p.flags).state = "CLASSIFIED" => c.state = "CLASSIFIED"
         /\ inspectPayload(c, p).packets = c.packets
<1>1. updateTCPState(c, p.flags).packets = c.packets
  BY DEF updateTCPState, Connection
<1>2. updateTCPState(c, p.flags).state = "CLASSIFIED" => c.state = "CLASSIFIED"
  BY DEF updateTCPState, Connection
<1>3. inspectPayload(c, p).packets = c.packets
  BY DEF inspectPayload, Connection
<1> QED
  BY <1>1, <1>2, <1>3

\* What Process counts, and what of the connection the counters depend on.
LEMMA ProcessCounts ==
  ASSUME TypeOK, Process
  PROVE  /\ UNCHANGED <<stats.processed, stats.forwarded, stats.blocked>>
         /\ stats'.seen = IF job.tuple \in live THEN stats.seen ELSE stats.seen + 1
         /\ stats'.classified \in {stats.classified, stats.classified + 1}
         /\ \E conn \in Connection :
              /\ conns' = [Erase(Evicted(job.tuple)) EXCEPT ![job.tuple] = conn]
              /\ conn.packets = conns[job.tuple].packets + 1
              /\ conn.state = "CLASSIFIED" =>
                   conns[job.tuple].state = "CLASSIFIED" \/ stats'.classified = stats.classified + 1
              /\ conn.state = "BLOCKED" => conns[job.tuple].state = "BLOCKED"
              /\ \/ pc' = "pop" /\ stats'.dropped = stats.dropped + 1
                 \/ pc' = "ip" /\ stats'.dropped = stats.dropped
<1> DEFINE t       == job.tuple
           old     == conns[t]
           heard   == [old EXCEPT !.packets = @ + 1, !.lastSeen = stats.processed]
           current == IF t.proto = "tcp" THEN updateTCPState(heard, job.flags) ELSE heard
           known   == IF current.state # "CLASSIFIED" /\ job.payload # "none"
                      THEN inspectPayload(current, job) ELSE current
           blocked == current.state = "BLOCKED"
           conn    == IF blocked THEN current ELSE known
<1>1. job \in Packet /\ t \in Tuple /\ stats \in Counters /\ stats.processed \in Nat
  BY DEF Process, TypeOK, Tuple, Counters
<1>2. old \in Connection
  BY <1>1 DEF TypeOK
<1>3. /\ conns' = [Erase(Evicted(t)) EXCEPT ![t] = conn]
      /\ \/ blocked /\ pc' = "pop"
         \/ ~blocked /\ pc' = "ip"
  BY DEF Process
<1>4. stats' = [stats EXCEPT
       !.seen       = IF t \in live THEN @ ELSE @ + 1,
       !.classified = IF conn.state = "CLASSIFIED" /\ current.state # "CLASSIFIED"
                      THEN @ + 1 ELSE @,
       !.dropped    = IF blocked THEN @ + 1 ELSE @]
  BY DEF Process
<1> HIDE DEF old, t
<1>5. heard \in Connection /\ heard.state = old.state /\ heard.packets = old.packets + 1
  <2>1. heard \in Connection
    BY <1>1, <1>2, Changed
  <2> QED
    BY <1>2, <2>1 DEF Connection
<1> HIDE DEF heard
<1>6. /\ current \in Connection /\ current.packets = old.packets + 1
      /\ current.state = "CLASSIFIED" => old.state = "CLASSIFIED"
      /\ current.state = "BLOCKED" => old.state = "BLOCKED"
  BY <1>1, <1>5, Kept, TCPState
<1> HIDE DEF current
<1>7. /\ known \in Connection /\ known.packets = current.packets
      /\ known.state = "BLOCKED" => current.state = "BLOCKED"
  BY <1>1, <1>6, Kept, Inspection
<1> HIDE DEF known
<1>8. /\ conn \in Connection /\ conn.packets = old.packets + 1
      /\ conn.state = "BLOCKED" => old.state = "BLOCKED"
  BY <1>6, <1>7
<1> HIDE DEF conn, blocked
<1> DEFINE i == IF t \in live THEN stats.seen ELSE stats.seen + 1
           j == IF conn.state = "CLASSIFIED" /\ current.state # "CLASSIFIED"
                THEN stats.classified + 1 ELSE stats.classified
           k == IF blocked THEN stats.dropped + 1 ELSE stats.dropped
<1>9. stats' = [stats EXCEPT !.seen = i, !.classified = j, !.dropped = k]
  BY <1>4
<1>10. /\ j \in {stats.classified, stats.classified + 1}
       /\ conn.state = "CLASSIFIED" => old.state = "CLASSIFIED" \/ j = stats.classified + 1
  BY <1>6
<1> HIDE DEF i, j, k
<1>11. /\ UNCHANGED <<stats.processed, stats.forwarded, stats.blocked>>
       /\ stats'.seen = i /\ stats'.classified = j /\ stats'.dropped = k
  BY <1>1, <1>9 DEF Counters
<1>12. \/ pc' = "pop" /\ stats'.dropped = stats.dropped + 1
       \/ pc' = "ip" /\ stats'.dropped = stats.dropped
  BY <1>3, <1>11 DEF k
<1>13. stats'.seen = IF t \in live THEN stats.seen ELSE stats.seen + 1
  BY <1>11 DEF i
<1> QED
  BY <1>3, <1>8, <1>10, <1>11, <1>12, <1>13 DEF old, t

\* A state that no connection comes to be in.
LEMMA NoMoreIn ==
  ASSUME TypeOK, NEW s, live' \subseteq live,
         \A t \in live' : conns'[t].state = s => conns[t].state = s
  PROVE  /\ Cardinality(InState(s)') <= Cardinality(InState(s))
         /\ IsFiniteSet(InState(s)) /\ Cardinality(InState(s)') \in Nat
         /\ Cardinality(InState(s)) \in Nat
<1>1. IsFiniteSet(InState(s))
  BY FS_Subset DEF InState, TypeOK
<1>2. InState(s)' \subseteq InState(s)
  BY DEF InState
<1>3. InState(s)' \subseteq InState(s) \cup {s}
  BY <1>2
<1> DEFINE T == InState(s)'
           S == InState(s)
<1> HIDE DEF T, S
<1>4. IsFiniteSet(S) /\ T \subseteq S /\ T \subseteq S \cup {s}
  BY <1>1, <1>2, <1>3 DEF S, T
<1>5. /\ Cardinality(T) \in Nat /\ Cardinality(S) \in Nat
      /\ Cardinality(T) <= Cardinality(S)
  BY <1>4, Grown
<1> QED
  BY <1>1, <1>5 DEF S, T

\* Nothing more to count in the table.
LEMMA NoMoreCounted ==
  ASSUME TypeOK, live' \subseteq live, \A t \in live' : conns'[t].packets = conns[t].packets
  PROVE  SumOf(Counted') <= SumOf(Counted) /\ SumOf(Counted') \in Nat /\ SumOf(Counted) \in Nat
<1> DEFINE D == live
           E == live'
           a == Counted
           b == Counted'
<1>1. /\ IsFiniteSet(D) /\ E \in SUBSET D
      /\ \A t \in D : conns[t].packets \in Nat
  BY DEF TypeOK, Connection
<1>2. a \in [D -> Nat]
  BY <1>1 DEF Counted
<1>3. b = [t \in E |-> conns'[t].packets]
  BY DEF Counted
<1>4. b \in [E -> Nat] /\ \A t \in E : b[t] = a[t]
  BY <1>1, <1>3 DEF Counted
<1> HIDE DEF D, E, a, b
<1>5. SumOf(a) \in Nat /\ SumOf(b) \in Nat /\ SumOf(b) <= SumOf(a)
  BY <1>1, <1>2, <1>4, PartSum
<1> QED
  BY <1>5 DEF a, b

\* A step that leaves the connections of the table as they are, or removes some.
LEMMA CoverKept ==
  ASSUME TypeOK, live' \subseteq live, \A t \in live' : conns'[t] = conns[t]
  PROVE  /\ Cardinality(InState("CLASSIFIED")') <= Cardinality(InState("CLASSIFIED"))
         /\ Cardinality(InState("BLOCKED")') <= Cardinality(InState("BLOCKED"))
         /\ Cardinality(live') <= Cardinality(live)
         /\ SumOf(Counted') <= SumOf(Counted)
         /\ {Cardinality(InState("CLASSIFIED")'), Cardinality(InState("CLASSIFIED")),
             Cardinality(InState("BLOCKED")'), Cardinality(InState("BLOCKED")),
             Cardinality(live'), Cardinality(live), SumOf(Counted'), SumOf(Counted)} \subseteq Nat
<1>1. Cardinality(live') <= Cardinality(live) /\ Cardinality(live') \in Nat /\ Cardinality(live) \in Nat
  <2>1. IsFiniteSet(live) /\ IsFiniteSet(live') /\ Cardinality(live') <= Cardinality(live)
    BY FS_Subset DEF TypeOK
  <2> QED
    BY <2>1, FS_CardinalityType
<1> QED
  BY <1>1, NoMoreIn, NoMoreCounted

LEMMA CoverStep == TypeOK /\ CoverInv /\ [Next]_vars => CoverInv'
<1> SUFFICES ASSUME TypeOK, CoverInv, [Next]_vars PROVE CoverInv'
  OBVIOUS
<1>s. /\ stats.processed \in Nat /\ stats.forwarded \in Nat /\ stats.dropped \in Nat
      /\ stats.seen \in Nat /\ stats.classified \in Nat /\ stats.blocked \in Nat
      /\ stats \in Counters
  BY DEF TypeOK, Counters
<1>c. /\ \A t \in Tuple \ live : conns[t] = NewConnection
      /\ stats.processed = stats.forwarded + stats.dropped + (IF pc = "pop" THEN 0 ELSE 1)
      /\ Cardinality(InState("CLASSIFIED")) <= stats.classified
      /\ Cardinality(InState("BLOCKED")) <= stats.blocked
      /\ stats.blocked <= stats.dropped
      /\ Cardinality(live) <= stats.seen
      /\ SumOf(Counted) <= stats.processed - (IF pc = "process" THEN 1 ELSE 0)
  BY DEF CoverInv
<1>k. ASSUME live' \subseteq live, \A t \in live' : conns'[t] = conns[t],
             UNCHANGED <<stats.classified, stats.blocked, stats.seen>>
      PROVE  /\ Cardinality(InState("CLASSIFIED")') <= stats'.classified
             /\ Cardinality(InState("BLOCKED")') <= stats'.blocked
             /\ Cardinality(live') <= stats'.seen
             /\ SumOf(Counted') <= stats.processed - (IF pc = "process" THEN 1 ELSE 0)
             /\ SumOf(Counted') \in Nat
  <2>1. /\ Cardinality(InState("CLASSIFIED")') <= Cardinality(InState("CLASSIFIED"))
        /\ Cardinality(InState("BLOCKED")') <= Cardinality(InState("BLOCKED"))
        /\ Cardinality(live') <= Cardinality(live)
        /\ SumOf(Counted') <= SumOf(Counted)
        /\ {Cardinality(InState("CLASSIFIED")'), Cardinality(InState("CLASSIFIED")),
            Cardinality(InState("BLOCKED")'), Cardinality(InState("BLOCKED")),
            Cardinality(live'), Cardinality(live), SumOf(Counted'), SumOf(Counted)} \subseteq Nat
    BY <1>k, CoverKept
  <2>2. Cardinality(InState("CLASSIFIED")') <= stats'.classified
    BY <1>c, <1>k, <1>s, <2>1
  <2>3. Cardinality(InState("BLOCKED")') <= stats'.blocked
    BY <1>c, <1>k, <1>s, <2>1
  <2>4. Cardinality(live') <= stats'.seen
    BY <1>c, <1>k, <1>s, <2>1
  <2>5. SumOf(Counted') <= stats.processed - (IF pc = "process" THEN 1 ELSE 0)
    BY <1>c, <1>s, <2>1
  <2> QED
    BY <2>1, <2>2, <2>3, <2>4, <2>5
<1>1. CASE Take
  <2>1. /\ live' = live /\ conns' = conns /\ pc = "pop" /\ pc' = "process"
        /\ stats' = [stats EXCEPT !.processed = @ + 1]
    BY <1>1 DEF Take
  <2>2. /\ stats'.processed = stats.processed + 1
        /\ UNCHANGED <<stats.forwarded, stats.dropped, stats.classified, stats.blocked, stats.seen>>
    BY <1>s, <2>1 DEF Counters
  <2>3. /\ Cardinality(InState("CLASSIFIED")') <= stats'.classified
        /\ Cardinality(InState("BLOCKED")') <= stats'.blocked
        /\ Cardinality(live') <= stats'.seen
        /\ SumOf(Counted') <= stats.processed /\ SumOf(Counted') \in Nat
    BY <1>k, <1>s, <2>1, <2>2
  <2>4. SumOf(Counted') <= stats'.processed - (IF pc' = "process" THEN 1 ELSE 0)
    BY <1>s, <2>1, <2>2, <2>3
  <2>5. stats'.processed = stats'.forwarded + stats'.dropped + (IF pc' = "pop" THEN 0 ELSE 1)
    BY <1>c, <1>s, <2>1, <2>2
  <2>6. /\ \A t \in Tuple \ live' : conns'[t] = NewConnection
        /\ stats'.blocked <= stats'.dropped
    BY <1>c, <2>1, <2>2
  <2> QED
    BY <2>3, <2>4, <2>5, <2>6 DEF CoverInv
<1>2. CASE Process
  <2>1. PICK t : t = job.tuple
    OBVIOUS
  <2>2. PICK conn \in Connection :
          /\ conns' = [Erase(Evicted(t)) EXCEPT ![t] = conn]
          /\ conn.packets = conns[t].packets + 1
          /\ conn.state = "CLASSIFIED" =>
               conns[t].state = "CLASSIFIED" \/ stats'.classified = stats.classified + 1
          /\ conn.state = "BLOCKED" => conns[t].state = "BLOCKED"
          /\ \/ pc' = "pop" /\ stats'.dropped = stats.dropped + 1
             \/ pc' = "ip" /\ stats'.dropped = stats.dropped
    BY <1>2, <2>1, ProcessCounts
  <2>3. /\ UNCHANGED <<stats.processed, stats.forwarded, stats.blocked>>
        /\ stats'.seen = IF t \in live THEN stats.seen ELSE stats.seen + 1
        /\ stats'.classified \in {stats.classified, stats.classified + 1}
    BY <1>2, <2>1, ProcessCounts
  <2>4. /\ t \in Tuple /\ Evicted(t) \subseteq live /\ t \notin Evicted(t)
        /\ IsFiniteSet(live) /\ live \subseteq Tuple
    <3>1. t \in Tuple
      BY <1>2, <2>1, ProcessEffect
    <3> QED
      BY <3>1, TableBound DEF TypeOK
  <2>5. pc = "process" /\ live' = (live \ Evicted(t)) \cup {t}
    BY <1>2, <2>1 DEF Process
  <2>6. /\ conns'[t] = conn
        /\ \A u \in Tuple \ {t} : conns'[u] = IF u \in Evicted(t) THEN NewConnection ELSE conns[u]
    BY <2>2, <2>4 DEF Erase
  <2>7. t \notin live => conns[t] = NewConnection
    BY <1>c, <2>4
  <2>8. NewConnection.state = "NEW" /\ NewConnection.packets = 0
    BY DEF NewConnection
  <2>9. \A u \in Tuple \ live' : conns'[u] = NewConnection
    BY <1>c, <2>4, <2>5, <2>6
  <2>10. \A s : InState(s)' \subseteq InState(s) \cup {t}
    BY <2>4, <2>5, <2>6 DEF InState
  <2>11. \A s : s # "NEW" /\ (conn.state = s => conns[t].state = s)
                  => InState(s)' \subseteq InState(s)
    BY <2>4, <2>5, <2>6, <2>7, <2>8 DEF InState
  <2>12. \A s : IsFiniteSet(InState(s))
    BY <2>4, FS_Subset DEF InState
  <2>13. Cardinality(InState("CLASSIFIED")') <= stats'.classified
    <3> DEFINE S == InState("CLASSIFIED")
               T == S'
    <3>1. /\ IsFiniteSet(S) /\ T \subseteq S \cup {t}
          /\ T \subseteq S \/ stats'.classified = stats.classified + 1
      BY <2>2, <2>10, <2>11, <2>12
    <3>2. Cardinality(S) <= stats.classified
      BY <1>c
    <3> HIDE DEF S, T
    <3>3. /\ Cardinality(T) \in Nat /\ Cardinality(S) \in Nat
          /\ Cardinality(T) <= Cardinality(S) + 1
          /\ T \subseteq S => Cardinality(T) <= Cardinality(S)
      BY <3>1, Grown
    <3>4. Cardinality(T) <= stats'.classified
      BY <1>s, <2>3, <3>1, <3>2, <3>3
    <3> QED
      BY <3>4 DEF T, S
  <2>14. Cardinality(InState("BLOCKED")') <= stats'.blocked
    <3> DEFINE S == InState("BLOCKED")
               T == S'
    <3>1. /\ IsFiniteSet(S) /\ T \subseteq S \cup {t} /\ T \subseteq S
      BY <2>2, <2>10, <2>11, <2>12
    <3>2. Cardinality(S) <= stats.blocked
      BY <1>c
    <3> HIDE DEF S, T
    <3>3. /\ Cardinality(T) \in Nat /\ Cardinality(S) \in Nat
          /\ Cardinality(T) <= Cardinality(S)
      BY <3>1, Grown
    <3>4. Cardinality(T) <= stats'.blocked
      BY <1>s, <2>3, <3>2, <3>3
    <3> QED
      BY <3>4 DEF T, S
  <2>15. Cardinality(live') <= stats'.seen
    <3>1. live' \subseteq live \cup {t} /\ (t \in live => live' \subseteq live)
      BY <2>5
    <3>2. /\ Cardinality(live') \in Nat /\ Cardinality(live) \in Nat
          /\ Cardinality(live') <= Cardinality(live) + 1
          /\ live' \subseteq live => Cardinality(live') <= Cardinality(live)
      BY <2>4, <3>1, Grown
    <3> QED
      BY <1>c, <1>s, <2>3, <3>1, <3>2
  <2>16. SumOf(Counted') <= SumOf(Counted) + 1 /\ SumOf(Counted') \in Nat /\ SumOf(Counted) \in Nat
    <3> DEFINE D == live
               E == live'
               a == Counted
               b == Counted'
    <3>1. /\ IsFiniteSet(D) /\ D \subseteq Tuple /\ \A u \in Tuple : conns[u].packets \in Nat
      BY <2>4 DEF TypeOK, Connection
    <3>2. IsFiniteSet(E) /\ t \in E /\ E \ {t} \subseteq D
      <4>1. IsFiniteSet(D \ Evicted(t)) /\ IsFiniteSet({t})
        BY <3>1, FS_Subset, FS_Singleton
      <4> QED
        BY <2>5, <4>1, FS_Union
    <3>3. a \in [D -> Nat]
      BY <3>1 DEF Counted
    <3>4. b = [u \in E |-> conns'[u].packets]
      BY DEF Counted
    <3>5. \A u \in E \ {t} : conns'[u] = conns[u]
      BY <2>4, <2>5, <2>6
    <3>6. b \in [E -> Nat] /\ \A u \in E \ {t} : b[u] = a[u] /\ b[u] <= a[u]
      <4>1. \A u \in E : conns'[u].packets \in Nat
        BY <2>2, <2>4, <2>6, <3>1, <3>2, <3>5
      <4>2. \A u \in E \ {t} : b[u] = a[u] /\ a[u] \in Nat
        BY <3>1, <3>2, <3>4, <3>5 DEF Counted
      <4> QED
        BY <3>4, <4>1, <4>2
    <3>7. b[t] <= IF t \in D THEN a[t] + 1 ELSE 1
      <4>1. b[t] = conns[t].packets + 1
        BY <2>2, <2>6, <3>2, <3>4
      <4>2. t \in D => a[t] = conns[t].packets
        BY DEF Counted
      <4>3. t \notin D => conns[t].packets = 0
        BY <2>7, <2>8
      <4>4. conns[t].packets \in Nat
        BY <2>4, <3>1
      <4> HIDE DEF a, b
      <4> QED
        BY <4>1, <4>2, <4>3, <4>4
    <3> HIDE DEF D, E, a, b
    <3>8. SumOf(a) \in Nat /\ SumOf(b) \in Nat /\ SumOf(b) <= SumOf(a) + 1
      BY <3>1, <3>2, <3>3, <3>6, <3>7, OneMoreAtMost
    <3> QED
      BY <3>8 DEF a, b
  <2>17. SumOf(Counted') <= stats'.processed - (IF pc' = "process" THEN 1 ELSE 0)
    BY <1>c, <1>s, <2>2, <2>3, <2>5, <2>16
  <2>18. stats'.processed = stats'.forwarded + stats'.dropped + (IF pc' = "pop" THEN 0 ELSE 1)
    BY <1>c, <1>s, <2>2, <2>3, <2>5
  <2>19. stats'.blocked <= stats'.dropped
    BY <1>c, <1>s, <2>2, <2>3
  <2> QED
    BY <2>9, <2>13, <2>14, <2>15, <2>17, <2>18, <2>19 DEF CoverInv
<1>3. CASE BlockConnection
  <2>1. PICK t : t = job.tuple
    OBVIOUS
  <2> DEFINE c == [conns[t] EXCEPT !.state = "BLOCKED"]
  <2>2. /\ pc \in Lookups /\ pc' = "pop" /\ live' = live
        /\ conns' = [conns EXCEPT ![t] = c]
        /\ stats' = [stats EXCEPT !.blocked = @ + 1, !.dropped = @ + 1]
    BY <1>3, <2>1 DEF BlockConnection
  <2>3. /\ t \in live /\ live \subseteq Tuple /\ IsFiniteSet(live)
        /\ conns \in [Tuple -> Connection]
    BY <2>1, <2>2 DEF TypeOK
  <2>4. c.state = "BLOCKED" /\ c.packets = conns[t].packets
    BY <2>3 DEF Connection
  <2> HIDE DEF c
  <2>5. conns'[t] = c /\ \A u \in Tuple \ {t} : conns'[u] = conns[u]
    BY <2>2, <2>3
  <2>6. /\ stats'.blocked = stats.blocked + 1 /\ stats'.dropped = stats.dropped + 1
        /\ UNCHANGED <<stats.processed, stats.forwarded, stats.classified, stats.seen>>
    BY <1>s, <2>2 DEF Counters
  <2>7. Cardinality(InState("CLASSIFIED")') <= stats'.classified
    <3>1. \A u \in live' : conns'[u].state = "CLASSIFIED" => conns[u].state = "CLASSIFIED"
      BY <2>2, <2>3, <2>4, <2>5
    <3>2. /\ Cardinality(InState("CLASSIFIED")') <= Cardinality(InState("CLASSIFIED"))
          /\ Cardinality(InState("CLASSIFIED")') \in Nat /\ Cardinality(InState("CLASSIFIED")) \in Nat
      BY <2>2, <3>1, NoMoreIn
    <3> QED
      BY <1>c, <1>s, <2>6, <3>2
  <2>8. Cardinality(InState("BLOCKED")') <= stats'.blocked
    <3> DEFINE S == InState("BLOCKED")
               T == S'
    <3>1. IsFiniteSet(S) /\ T \subseteq S \cup {t}
      <4>1. IsFiniteSet(S)
        BY <2>3, FS_Subset DEF InState
      <4> QED
        BY <2>2, <2>3, <2>5, <4>1 DEF InState
    <3>2. Cardinality(S) <= stats.blocked
      BY <1>c
    <3> HIDE DEF S, T
    <3>3. /\ Cardinality(T) \in Nat /\ Cardinality(S) \in Nat
          /\ Cardinality(T) <= Cardinality(S) + 1
      BY <3>1, Grown
    <3>4. Cardinality(T) <= stats'.blocked
      BY <1>s, <2>6, <3>2, <3>3
    <3> QED
      BY <3>4 DEF T, S
  <2>9. SumOf(Counted') <= SumOf(Counted) /\ SumOf(Counted') \in Nat /\ SumOf(Counted) \in Nat
    <3>1. \A u \in live' : conns'[u].packets = conns[u].packets
      BY <2>2, <2>3, <2>4, <2>5
    <3> QED
      BY <2>2, <3>1, NoMoreCounted
  <2>10. pc # "pop" /\ pc # "process" /\ pc' # "process"
    BY <2>2 DEF Lookups
  <2>11. SumOf(Counted') <= stats'.processed - (IF pc' = "process" THEN 1 ELSE 0)
    BY <1>c, <1>s, <2>6, <2>9, <2>10
  <2>12. stats'.processed = stats'.forwarded + stats'.dropped + (IF pc' = "pop" THEN 0 ELSE 1)
    BY <1>c, <1>s, <2>2, <2>6, <2>10
  <2>13. /\ \A u \in Tuple \ live' : conns'[u] = NewConnection
         /\ stats'.blocked <= stats'.dropped /\ Cardinality(live') <= stats'.seen
    BY <1>c, <1>s, <2>2, <2>3, <2>5, <2>6
  <2> QED
    BY <2>7, <2>8, <2>11, <2>12, <2>13 DEF CoverInv
<1>4. CASE NextLookup
  <2>1. /\ pc \in Lookups /\ pc' = AfterLookup(pc) /\ live' = live /\ conns' = conns
        /\ IF pc' = "pop" THEN stats' = [stats EXCEPT !.forwarded = @ + 1] ELSE stats' = stats
    BY <1>4 DEF NextLookup
  <2>2. pc # "pop" /\ pc # "process" /\ pc' # "process"
    BY <2>1 DEF Lookups, AfterLookup
  <2>3. /\ stats'.forwarded = IF pc' = "pop" THEN stats.forwarded + 1 ELSE stats.forwarded
        /\ UNCHANGED <<stats.processed, stats.dropped, stats.classified, stats.blocked, stats.seen>>
    BY <1>s, <2>1 DEF Counters
  <2>4. /\ Cardinality(InState("CLASSIFIED")') <= stats'.classified
        /\ Cardinality(InState("BLOCKED")') <= stats'.blocked
        /\ Cardinality(live') <= stats'.seen
        /\ SumOf(Counted') <= stats.processed /\ SumOf(Counted') \in Nat
    BY <1>k, <1>s, <2>1, <2>2, <2>3
  <2>5. SumOf(Counted') <= stats'.processed - (IF pc' = "process" THEN 1 ELSE 0)
    BY <1>s, <2>2, <2>3, <2>4
  <2>6. stats'.processed = stats'.forwarded + stats'.dropped + (IF pc' = "pop" THEN 0 ELSE 1)
    BY <1>c, <1>s, <2>2, <2>3
  <2>7. /\ \A t \in Tuple \ live' : conns'[t] = NewConnection
        /\ stats'.blocked <= stats'.dropped
    BY <1>c, <2>1, <2>3
  <2> QED
    BY <2>4, <2>5, <2>6, <2>7 DEF CoverInv
<1>5. CASE cleanupStale
  <2>1. PICK S \in SUBSET live : live' = live \ S /\ conns' = Erase(S)
    BY <1>5 DEF cleanupStale
  <2>2. pc = "pop" /\ pc' = pc /\ stats' = stats
    BY <1>5 DEF cleanupStale
  <2>3. /\ \A t \in live' : conns'[t] = conns[t]
        /\ \A t \in Tuple \ live' : conns'[t] = NewConnection
    BY <1>c, <2>1 DEF Erase, TypeOK
  <2>4. /\ Cardinality(InState("CLASSIFIED")') <= stats'.classified
        /\ Cardinality(InState("BLOCKED")') <= stats'.blocked
        /\ Cardinality(live') <= stats'.seen
        /\ SumOf(Counted') <= stats.processed /\ SumOf(Counted') \in Nat
    BY <1>k, <1>s, <2>1, <2>2, <2>3
  <2> QED
    BY <1>c, <1>s, <2>2, <2>3, <2>4 DEF CoverInv
<1>6. CASE UNCHANGED <<live, conns, stats, pc>>
  <2>1. /\ Cardinality(InState("CLASSIFIED")') <= stats'.classified
        /\ Cardinality(InState("BLOCKED")') <= stats'.blocked
        /\ Cardinality(live') <= stats'.seen
        /\ SumOf(Counted') <= stats.processed - (IF pc = "process" THEN 1 ELSE 0)
    BY <1>6, <1>k
  <2> QED
    BY <1>6, <1>c, <2>1 DEF CoverInv
<1>7. CASE ChangeRules \/ UNCHANGED vars
  BY <1>6, <1>7 DEF ChangeRules, vars, fpVars
<1> QED
  BY <1>1, <1>2, <1>3, <1>4, <1>5, <1>7 DEF Next

\* The statistics cover the table: every packet taken is forwarded, dropped or
\* in hand, and no connection of the table has become classified or blocked, or
\* been heard of, without being counted.
THEOREM CountersAreCover == Spec => []CountersCover
<1>1. TypeOK /\ CoverInv => CountersCover
  <2> SUFFICES ASSUME TypeOK, CoverInv PROVE CountersCover
    OBVIOUS
  <2>1. stats.processed \in Nat
    BY DEF TypeOK, Counters
  <2>2. SumOf(Counted) \in Nat
    <3>1. IsFiniteSet(live) /\ Counted \in [live -> Nat]
      BY DEF TypeOK, Connection, Counted
    <3> QED
      BY <3>1, SumPairs
  <2>3. SumOf(Counted) <= stats.processed
    BY <2>1, <2>2 DEF CoverInv
  <2> QED
    BY <2>3 DEF CoverInv, CountersCover, InState, Counted
<1> QED
  BY <1>1, CoverInit, CoverStep, TypeCorrect, PTL DEF Spec
=============================================================================
