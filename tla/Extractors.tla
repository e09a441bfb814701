------------------------------ MODULE Extractors ------------------------------
(***************************************************************************)
(* The extractors of src/sni_extractor.cpp: the server name of a TLS       *)
(* ClientHello, the Host of an HTTP request, the name in a DNS query, each *)
(* from the first `length' bytes of a message that may go on.              *)
(*                                                                         *)
(* A name is the sequence of its labels.  Every label has LabelSize        *)
(* characters, and messages are cut between labels only: what is left of a *)
(* name is its first labels.  A message is one of                          *)
(*   [kind |-> "tls", record, client, sid, ciphers, comp, total, exts]:    *)
(*     the length in the record header, whether it is a ClientHello, the   *)
(*     lengths of session id, cipher suites and compression methods, the   *)
(*     length given for all extensions, and the extensions [server, size,  *)
(*     list, host, name] that the bytes behind it make, those behind that  *)
(*     length included, with the name where server is true (type 0), which *)
(*     is a host name where host is                                        *)
(*   [kind |-> "http", method, lines]: is the method a known one; lines    *)
(*     [lead, host, name, tail]: the bytes before "host:", whether there   *)
(*     is one, the name behind it, the bytes that end the line             *)
(*   [kind |-> "dns", response, questions, name]                           *)
(*   [kind |-> anything else]                                              *)
(***************************************************************************)
EXTENDS Naturals, SequencesExt, FiniteSetsExt, Sums

CONSTANTS LabelSize, Absent

NoName == <<>>

\* The bytes of a name with dots between the labels, and its first labels that
\* fit into some bytes.
NameSize(name) == IF name = NoName THEN 0 ELSE (LabelSize + 1) * Len(name) - 1
Fitting(name, bytes) == SubSeq(name, 1, Min({Len(name), (bytes + 1) \div (LabelSize + 1)}))
-----------------------------------------------------------------------------
(***************************************************************************)
(* SNIExtractor.  Record and handshake header, version and random take 43  *)
(* bytes; then come the session id, cipher suites and compression methods, *)
(* each behind its length, and the extensions.                             *)
(***************************************************************************)
SessionAt(m) == 43
CiphersAt(m) == SessionAt(m) + 1 + m.sid
CompAt(m)    == CiphersAt(m) + 2 + m.ciphers
ExtsAt(m)    == CompAt(m) + 1 + m.comp

\* Where the k-th extension begins.
ExtAt(m, k) == ExtsAt(m) + 2 + SumOf([j \in 1 .. k - 1 |-> 4 + m.exts[j].size])

isTLSClientHello(m, length) ==
  /\ length >= 9 /\ m.kind = "tls"
  /\ m.record <= length - 5
  /\ m.client

HeaderComplete(m, length) ==
  /\ SessionAt(m) < length /\ CiphersAt(m) + 2 <= length
  /\ CompAt(m) < length /\ ExtsAt(m) + 2 <= length

ExtensionsGiven(m) == ExtsAt(m) + 2 + m.total

ExtensionsEnd(m, length) == Min({ExtensionsGiven(m), length})

\* Variant: the extension in front of the end is taken for one behind it.
ReachedShort(m, k, length) ==
  \A j \in 1 .. k : ExtAt(m, j + 1) < ExtensionsEnd(m, length)

\* The loop reaches the k-th extension, and it lies before the end.
Reached(m, k, length) ==
  \A j \in 1 .. k : ExtAt(m, j + 1) <= ExtensionsEnd(m, length)

ServerNames(m, length) == {k \in DOMAIN m.exts : m.exts[k].server /\ Reached(m, k, length)}

\* The list holds a type (1), a length (2) and the name; two bytes of length
\* precede the list.
HostName(e) ==
  IF e.size >= 5 /\ e.list >= 3 /\ e.host /\ NameSize(e.name) <= e.size - 5
  THEN e.name ELSE Absent

extractSNI(m, length) ==
  IF /\ isTLSClientHello(m, length) /\ HeaderComplete(m, length)
     /\ ServerNames(m, length) # {}
  THEN HostName(m.exts[Min(ServerNames(m, length))]) ELSE Absent
-----------------------------------------------------------------------------
(***************************************************************************)
(* HTTPHostExtractor: "host:" in any line, with at least one byte after    *)
(* it and a space; what follows is the name up to a port or the end of the *)
(* line.  A line without a name lets the search go on.                     *)
(***************************************************************************)
LineSize(l) == l.lead + (IF l.host THEN 6 + NameSize(l.name) ELSE 0) + l.tail
LineAt(m, k) == SumOf([j \in 1 .. k - 1 |-> LineSize(m.lines[j])])
NameAt(m, k) == LineAt(m, k) + m.lines[k].lead + 6

isHTTPRequest(m, length) == length >= 4 /\ m.kind = "http" /\ m.method

\* The line says "Host: " and a byte behind it has been captured.
Hosts(m, length) ==
  {k \in DOMAIN m.lines : m.lines[k].host /\ m.lines[k].name # NoName /\ NameAt(m, k) < length}

extractHost(m, length) ==
  IF isHTTPRequest(m, length) /\ Hosts(m, length) # {}
  THEN LET k == Min(Hosts(m, length)) IN Fitting(m.lines[k].name, length - NameAt(m, k))
  ELSE Absent
-----------------------------------------------------------------------------
(***************************************************************************)
(* DNSExtractor: each label behind its length, from byte 12 on, until one  *)
(* of length zero or one that is cut.                                      *)
(***************************************************************************)
isDNSQuery(m, length) == length >= 12 /\ m.kind = "dns" /\ ~m.response /\ m.questions > 0

Labels(m, length) ==
  {k \in DOMAIN m.name : 12 + k * (1 + LabelSize) <= length}

extractQuery(m, length) ==
  IF isDNSQuery(m, length) /\ Labels(m, length) # {}
  THEN SubSeq(m.name, 1, Cardinality(Labels(m, length))) ELSE Absent
=============================================================================
