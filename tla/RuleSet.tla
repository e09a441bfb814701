------------------------------ MODULE RuleSet ------------------------------
(***************************************************************************)
(* The rules of analyze: class RuleSet of src/main.cpp, what it takes for  *)
(* a rule, and when a domain matches a pattern.                            *)
(*                                                                         *)
(* A rule is a key and a value, both texts.  The patterns of domains and   *)
(* the domains are read piece by piece: Pieces cuts a text so that "*" and *)
(* "." are pieces of their own.  Letter case is left out.                  *)
(***************************************************************************)
EXTENDS Naturals, SequencesExt

CONSTANTS Address,  \* the texts that are IPv4 addresses
          AppAlias, \* appAlias, for each application
          Number,   \* std::stoi, for the texts that start with a number
          Pieces    \* the pieces of a domain or pattern

IPKey     == {"ip", "block_ip", "blocked_ips", "blocked_ip"}
AppKey    == {"app", "block_app", "blocked_apps", "blocked_app"}
DomainKey == {"domain", "block_domain", "blocked_domains", "blocked_domain"}
PortKey   == {"port", "block_port", "blocked_ports", "blocked_port"}

Text       == DOMAIN Pieces
PortNumber == 0 .. 65535
Star       == "*"
Dot        == "."

\* The aliases of applications differ, and none is one of the two other names
\* that appFromString knows.
ASSUME RuleSetAssumption ==
  /\ "UNKNOWN" \in DOMAIN AppAlias /\ AppAlias["UNKNOWN"] = "unknown"
  /\ \A a, b \in DOMAIN AppAlias : AppAlias[a] = AppAlias[b] => a = b
  /\ \A a \in DOMAIN AppAlias : AppAlias[a] \notin {"x", "twitter"}
  /\ \A text \in Text : Pieces[text] \in Seq(STRING)

EmptyRules == [ips |-> {}, ports |-> {}, apps |-> {}, domains |-> {}]
-----------------------------------------------------------------------------
appFromString(wanted) ==
  IF wanted \in {"twitter", "x"} THEN "TWITTER"
  ELSE IF \E app \in DOMAIN AppAlias : AppAlias[app] = wanted
       THEN CHOOSE app \in DOMAIN AppAlias : AppAlias[app] = wanted
       ELSE "UNKNOWN"

\* Whether a rule is taken; if not, an exception ends the program.
Accepts(key, value) ==
  \/ key \in IPKey /\ value \in Address
  \/ key \in AppKey /\ (appFromString(value) # "UNKNOWN" \/ value = "unknown")
  \/ key \in DomainKey
  \/ key \in PortKey /\ value \in DOMAIN Number /\ Number[value] \in PortNumber

\* addIP, addApp, addDomain and addPort.
Add(rules, key, value) ==
  [rules EXCEPT !.ips     = IF key \in IPKey THEN @ \cup {value} ELSE @,
                !.apps    = IF key \in AppKey THEN @ \cup {appFromString(value)} ELSE @,
                !.domains = IF key \in DomainKey THEN @ \cup {value} ELSE @,
                !.ports   = IF key \in PortKey THEN @ \cup {Number[value]} ELSE @]
-----------------------------------------------------------------------------
Within(part, text) ==
  \E i \in 0 .. Len(text) - Len(part) : SubSeq(text, i + 1, i + Len(part)) = part

\* Variant: the dot is forgotten.
SubdomainLoosely(d, base) == IsSuffix(base, d)

Subdomain(d, base) == d = base \/ IsSuffix(<<Dot>> \o base, d)

\* The five forms of a pattern, tried in this order.  What is left of a pattern
\* without its leading or trailing star is taken as it stands.
domainMatchesPattern(domain, pattern) ==
  LET d     == Pieces[domain]
      p     == Pieces[pattern]
      size  == Len(p)
      lead  == p[1] = Star
      trail == p[size] = Star
      sub   == lead /\ size > 2 /\ p[2] = Dot
      mid   == lead /\ trail /\ size > 2 /\ ~sub
  IN  /\ d # <<>> /\ p # <<>>
      /\ CASE sub -> Subdomain(d, SubSeq(p, 3, size))
           [] mid -> Within(SubSeq(p, 2, size - 1), d)
           [] lead /\ size > 1 /\ ~sub /\ ~mid -> IsSuffix(SubSeq(p, 2, size), d)
           [] trail /\ ~lead -> IsPrefix(SubSeq(p, 1, size - 1), d)
           [] OTHER -> Subdomain(d, p)
=============================================================================
