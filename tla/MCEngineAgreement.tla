-------------------------- MODULE MCEngineAgreement --------------------------
(***************************************************************************)
(* A small instance of EngineAgreement for TLC: frames of an HTTPS, an     *)
(* HTTP and a DNS connection and of a UDP flow to port 443, whole and cut, *)
(* with IP options, padding and bad headers.                               *)
(***************************************************************************)
EXTENDS EngineAgreement, TLC

video == <<"vid", "com">>
blog  == <<"www", "blg", "org">>

MCAppOf == video :> "YOUTUBE" @@ <<"vid">> :> "HTTPS"
             @@ blog :> "HTTPS" @@ <<"www", "blg">> :> "HTTPS" @@ <<"www">> :> "HTTPS"

(***************************************************************************)
(* Messages and their lengths.                                             *)
(***************************************************************************)
Extension(server, size, name) ==
  [server |-> server, size |-> size, list |-> IF size < 2 THEN 0 ELSE size - 2,
   host |-> TRUE, name |-> name]

Server(name) == Extension(TRUE, 5 + NameSize(name), name)

Hello(exts) ==
  LET m == [kind |-> "tls", record |-> 0, client |-> TRUE, sid |-> 32, ciphers |-> 4,
            comp |-> 1, total |-> 0, exts |-> exts]
      end == ExtAt(m, Len(exts) + 1)
  IN  [m EXCEPT !.record = end - 5, !.total = end - ExtAt(m, 1)]

Line(lead, host, name, tail) == [lead |-> lead, host |-> host, name |-> name, tail |-> tail]

Request(name) ==
  [kind |-> "http", method |-> TRUE,
   lines |-> <<Line(16, FALSE, NoName, 0), Line(0, TRUE, NoName, 2), Line(0, TRUE, name, 4)>>]

Query(name) == [kind |-> "dns", response |-> FALSE, questions |-> 1, name |-> name]

None == [kind |-> "none"]

Size(m) ==
  CASE m.kind = "tls"  -> 5 + m.record
    [] m.kind = "http" -> LineAt(m, Len(m.lines)) + LineSize(m.lines[Len(m.lines)])
    [] m.kind = "dns"  -> 12 + (1 + LabelSize) * Len(m.name) + 5
    [] m.kind = "none" -> 0
    [] OTHER           -> 8

(***************************************************************************)
(* Frames.  A whole frame is shortened by `cut' bytes.                     *)
(***************************************************************************)
Common == [len |-> 0, type |-> "ipv4", version |-> 4, ihl |-> 5, proto |-> "tcp", src |-> "ip1",
           dst |-> "ip2", sport |-> 5000, dport |-> 443, flags |-> {"ACK"}, doff |-> 5,
           body |-> None]

Whole(f) == [f EXCEPT !.len = PayloadOffset(f) + Size(f.body)]
Cut(f, bytes) == [f EXCEPT !.len = @ - bytes]

Https(body) == Whole([Common EXCEPT !.body = body])
Http(body) == Whole([Common EXCEPT !.sport = 5001, !.dport = 80, !.body = body, !.doff = 8])
Dns(body) ==
  Whole([Common EXCEPT !.sport = 5002, !.dport = 53, !.proto = "udp", !.flags = {}, !.body = body])

other == Extension(FALSE, 2, NoName)
hello == Https(Hello(<<Server(video), other>>))

\* Frames, each with the name that its bytes show.
Showing ==
  { \* to port 443: nothing, padding, data, and ClientHellos
    <<Https(None), NoName>>, <<Cut(Https(None), 1), NoName>>,
    <<[Https(None) EXCEPT !.len = 60, !.flags = {"SYN"}], NoName>>,
    <<[Https(None) EXCEPT !.flags = {"FIN", "ACK"}], NoName>>,
    <<hello, video>>, <<Cut(hello, 1), video>>,
    <<Whole([hello EXCEPT !.ihl = 6, !.doff = 8, !.body = Hello(<<other, Server(blog)>>)]),
      blog>>,
    <<Https(Hello(<<Server(NoName)>>)), NoName>>,
    \* going on in a second record, behind the name and before it, and one whose
    \* extensions are said to end before the name
    <<Https([Hello(<<Server(video), other>>) EXCEPT !.record = @ - 3]), video>>,
    <<Https([Hello(<<Server(video)>>) EXCEPT !.record = 60]), NoName>>,
    <<Https([Hello(<<other, Server(video)>>) EXCEPT !.total = 6]), NoName>>,
    \* to port 80: a request, one cut in its name, something else
    <<Http(Request(blog)), blog>>, <<Cut(Http(Request(blog)), 4 + 8), <<"www">> >>,
    <<Http([kind |-> "other"]), NoName>>,
    \* names asked for, one of them cut, and an answer
    <<Dns(Query(video)), video>>, <<Cut(Dns(Query(blog)), 5 + 8), <<"www">> >>,
    <<[Dns([Query(video) EXCEPT !.response = TRUE]) EXCEPT !.sport = 53, !.dport = 5002], NoName>>,
    \* UDP to port 443, another protocol, another EtherType, bad headers
    <<Whole([Common EXCEPT !.proto = "udp", !.flags = {}, !.body = [kind |-> "other"]]), NoName>>,
    <<Whole([Common EXCEPT !.proto = "icmp"]), NoName>>,
    <<Whole([Common EXCEPT !.type = "arp"]), NoName>>,
    <<Whole([Common EXCEPT !.version = 6]), NoName>>,
    <<Whole([Common EXCEPT !.doff = 4]), NoName>> }

ASSUME ShownAssumption == \A p \in Showing : Shown(p[1]) = p[2]

MCFrame == {p[1] : p \in Showing}

Frames(n) == UNION {[1 .. m -> MCFrame] : m \in 1 .. n}

MCPairs ==
  [swapped : BOOLEAN, snaplen : {60, 65535}, frames : Frames(2), end : {"whole", "data", "header"}]

MCCapture ==
  [swapped : {FALSE}, snaplen : {65535}, frames : Frames(3), end : {"whole"}] \cup MCPairs

MCRuleChoices ==
  { [ips |-> {}, apps |-> {}, domains |-> {}],
    [ips |-> {}, apps |-> {"YOUTUBE"}, domains |-> {blog}],
    [ips |-> {}, apps |-> {"HTTP", "DNS"}, domains |-> {video}] }
=============================================================================
