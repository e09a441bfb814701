----------------------------- MODULE MCFastPath -----------------------------
(***************************************************************************)
(* Small instances of FastPath for TLC: a connection to port 443, one to   *)
(* port 80 and a DNS query.                                                *)
(***************************************************************************)
EXTENDS FastPath

CONSTANTS none

https == [src |-> "ip1", sport |-> 5000, dport |-> 443, proto |-> "tcp"]
http  == [src |-> "ip1", sport |-> 5001, dport |-> 80, proto |-> "tcp"]
dns   == [src |-> "ip2", sport |-> 5002, dport |-> 53, proto |-> "udp"]

video == <<"video", "com">>
blog  == <<"www", "blog", "org">>

MCAppOf == video :> "YOUTUBE" @@ blog :> "HTTPS"

Pkt(t, f, p, n) == [tuple |-> t, flags |-> f, payload |-> p, name |-> n]

MCPacket ==
  { Pkt(https, {"SYN"}, "none", none), Pkt(https, {"SYN", "ACK"}, "none", none),
    Pkt(https, {"ACK"}, "hello", video), Pkt(https, {"ACK"}, "hello", NoName),
    Pkt(https, {"ACK"}, "other", none), Pkt(https, {"FIN", "ACK"}, "none", none),
    Pkt(https, {"RST"}, "none", none),
    Pkt(http, {"ACK"}, "http", blog), Pkt(http, {"ACK", "FIN"}, "other", none),
    Pkt(dns, {}, "dns", video) }

NoRules == [ips |-> {}, ports |-> {}, apps |-> {}, domains |-> {}, patterns |-> <<>>]

MCCandidates == [ips |-> {"ip1"}, ports |-> {53}, apps |-> {},
                 domains |-> {video, <<"*", "blog", "org">>}]

MCInitialRules ==
  { NoRules, [NoRules EXCEPT !.apps = {"YOUTUBE"}],
    [NoRules EXCEPT !.domains = {video}, !.patterns = <<<<"*", "blog", "org">>>>] }
=============================================================================
