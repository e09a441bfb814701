----------------------------- MODULE MCAnalyzer -----------------------------
(***************************************************************************)
(* A small instance of Analyzer for TLC: packets of four flows and some    *)
(* that belong to none.                                                    *)
(***************************************************************************)
EXTENDS Analyzer, TLC

Tuple(s, d, sp, dp, pr) == [src |-> s, dst |-> d, sport |-> sp, dport |-> dp, proto |-> pr]
Pkt(k, t, pk, n) == [kind |-> k, tuple |-> t, payload |-> [kind |-> pk, name |-> n]]

https == Tuple("ip1", "ip2", 5000, 443, "tcp")
http  == Tuple("ip1", "ip3", 5001, 80, "tcp")
dns   == Tuple("ip1", "ip4", 5002, 53, "udp")
quic  == Tuple("ip3", "ip2", 5003, 443, "udp")

MCDomain == {"pic.twitter.com", "myblog.org"}
MCAppOf  == "pic.twitter.com" :> "TWITTER" @@ "myblog.org" :> "HTTPS"

MCPacket ==
  { Pkt("tcp", https, "none", Absent),
    Pkt("tcp", https, "hello", "pic.twitter.com"),
    Pkt("tcp", https, "hello", "myblog.org"),
    Pkt("tcp", https, "hello", NoName),
    Pkt("tcp", https, "http", Absent),
    Pkt("tcp", http, "http", "myblog.org"),
    Pkt("udp", dns, "dns", "pic.twitter.com"),
    Pkt("udp", dns, "dns", "myblog.org"),
    Pkt("udp", quic, "other", Absent),
    Pkt("icmp", Tuple("ip1", "ip2", 0, 0, "icmp"), "none", Absent),
    Pkt("eth", Tuple("", "", 0, 0, ""), "none", Absent),
    Pkt("bad", Tuple("", "", 0, 0, ""), "none", Absent) }

(***************************************************************************)
(* Rules.                                                                  *)
(***************************************************************************)
MCAppAlias ==
  [app \in App |->
     CASE app = "UNKNOWN" -> "unknown" [] app = "HTTP" -> "http" [] app = "HTTPS" -> "https"
       [] app = "TLS" -> "tls" [] app = "QUIC" -> "quic" [] app = "DNS" -> "dns"
       [] app = "TWITTER" -> "twitterx"]

MCNumber == "80" :> 80 @@ "23" :> 23 @@ "70000" :> 70000

MCPieces ==
  "pic.twitter.com" :> <<"pic", ".", "twitter", ".", "com">>
    @@ "myblog.org" :> <<"my", "blog", ".", "org">>
    @@ "twitter.com" :> <<"twitter", ".", "com">>
    @@ "*.twitter.com" :> <<"*", ".", "twitter", ".", "com">>
    @@ "*.myblog.org" :> <<"*", ".", "my", "blog", ".", "org">>
    @@ "*.com" :> <<"*", ".", "com">>
    @@ "*blog.org" :> <<"*", "blog", ".", "org">>
    @@ "pic.*" :> <<"pic", ".", "*">>
    @@ "*twitter*" :> <<"*", "twitter", "*">>
    @@ "*blog*" :> <<"*", "blog", "*">>
    @@ "blog.org" :> <<"blog", ".", "org">>
    @@ "*.blog.org" :> <<"*", ".", "blog", ".", "org">>
    @@ "*.twitter.*" :> <<"*", ".", "twitter", ".", "*">>
    @@ "twitter.*" :> <<"twitter", ".", "*">>
    @@ "*" :> <<"*">> @@ "**" :> <<"*", "*">> @@ "" :> <<>>
    @@ [text \in {"ip1", "ip2", "no address", "80", "23", "70000", "http", "https", "x",
                  "twitterx", "quic", "unknown", "no such"} |-> <<text>>]

Blank         == [form |-> "blank", key |-> "", value |-> ""]
Section(k)    == [form |-> "section", key |-> k, value |-> ""]
Pair(k, v)    == [form |-> "pair", key |-> k, value |-> v]
Value(v)      == [form |-> "value", key |-> "", value |-> v]
RuleFile(lines)  == [opens |-> TRUE, lines |-> lines]
Missing       == [opens |-> FALSE, lines |-> <<>>]
Option(k, v)  == [key |-> k, value |-> v]
User(fs, cli) == [files |-> fs, cli |-> cli]

Block(domains) == User(<<RuleFile(<<Section("blocked_domains")>> \o domains)>>, <<>>)

MCUserRules ==
  { \* each kind of rule, in files and on the command line
    User(<<>>, <<>>), User(<<>>, <<Option("ip", "ip1")>>),
    User(<<RuleFile(<<Blank, Pair("block_ip", "ip2"), Section("blocked_ports"), Value("80")>>)>>, <<>>),
    User(<<RuleFile(<<Section("apps"), Pair("app", "x")>>)>>, <<Option("domain", "myblog.org")>>),
    User(<<RuleFile(<<Pair("block_app", "https")>>), RuleFile(<<>>)>>, <<Option("domain", "pic.*")>>),
    User(<<>>, <<Option("app", "quic"), Option("app", "http")>>),
    User(<<RuleFile(<<Section("app"), Value("twitterx")>>)>>, <<Option("app", "unknown")>>),
    \* patterns: one or none for each of the two domains, and some for neither
    Block(<<Value("twitter.com"), Value("*.myblog.org")>>),
    Block(<<Value("*.com"), Value("*blog*")>>),
    Block(<<Value("*.twitter.com"), Value("*blog.org")>>),
    Block(<<Value("*twitter*")>>),
    Block(<<Value("blog.org"), Value("*.blog.org"), Value("*.twitter.*"), Value("twitter.*"),
            Value("*"), Value("**"), Pair("domain", "")>>),
    \* rules that are not accepted
    User(<<RuleFile(<<Section("blocked_ips"), Value("ip1")>>), RuleFile(<<Value("ip2")>>)>>, <<>>),
    User(<<RuleFile(<<Pair("port", "23")>>), Missing>>, <<>>),
    User(<<RuleFile(<<Pair("port", "70000")>>)>>, <<>>),
    User(<<RuleFile(<<Pair("port", "http")>>)>>, <<>>),
    User(<<RuleFile(<<Pair("app", "no such")>>)>>, <<>>),
    User(<<RuleFile(<<Pair("allow", "ip1")>>)>>, <<>>),
    User(<<RuleFile(<<Pair("domain", "*.com")>>)>>, <<Option("ip", "no address")>>) }
=============================================================================
