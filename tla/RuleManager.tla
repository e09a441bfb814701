----------------------------- MODULE RuleManager -----------------------------
(***************************************************************************)
(* RuleManager (src/rule_manager.cpp): four sets of rules, each behind a   *)
(* lock of its own, changed by the main thread and read by fast paths.     *)
(* Whatever is done under one lock is one step; clearAll takes the locks   *)
(* one after the other, and so does shouldBlock, whose four lookups are    *)
(* operators here and steps of the module that calls it.                   *)
(*                                                                         *)
(* A text is the sequence of its labels: "*.blog.org" has the labels "*",  *)
(* "blog" and "org", the empty text has none.  A star is a label of its    *)
(* own: a text with a star elsewhere is stored as a pattern and matches    *)
(* nothing, as one with the star at its end does.  Letter case is left out.*)
(***************************************************************************)
EXTENDS Naturals, SequencesExt

CONSTANTS Candidates,   \* [ips, ports, apps, domains]: what may be blocked
          InitialRules, \* the rules the engine may be started with
          MaxChanges    \* bound: how often the rules are changed

ASSUME RuleAssumption == MaxChanges \in Nat

NoName == <<>>   \* the empty name

VARIABLES rules,     \* [ips, ports, apps, domains, patterns]: sets, and the list of
                     \* the domains with a star
          clearing,  \* how far clearAll is, "no" when it is not running
          changes    \* how many changes there have been

ruleVars == <<rules, clearing, changes>>

RulesInit == rules \in InitialRules /\ clearing = "no" /\ changes = 0

SetKinds == {"ips", "ports", "apps"}

Change == clearing = "no" /\ changes < MaxChanges /\ changes' = changes + 1

\* blockIP, blockPort and blockApp.
Block(k, x) ==
  /\ Change
  /\ rules' = [rules EXCEPT ![k] = @ \cup {x}]
  /\ UNCHANGED clearing

Unblock(k, x) ==
  /\ Change
  /\ rules' = [rules EXCEPT ![k] = @ \ {x}]
  /\ UNCHANGED clearing

\* A domain with a star goes to the list, as often as it is blocked; one call of
\* unblockDomain takes the first entry away.
IsPattern(text) == \E k \in DOMAIN text : text[k] = "*"

\* Variant: every domain goes to the set.
WithDomainAsName(r, x) == [r EXCEPT !.domains = @ \cup {x}]

WithDomain(r, x) ==
  IF IsPattern(x) THEN [r EXCEPT !.patterns = Append(@, x)]
                  ELSE [r EXCEPT !.domains = @ \cup {x}]

WithoutDomain(r, x) ==
  IF IsPattern(x) THEN [r EXCEPT !.patterns = RemoveFirst(@, x)]
                  ELSE [r EXCEPT !.domains = @ \ {x}]

BlockDomain(x)   == Change /\ rules' = WithDomain(rules, x) /\ UNCHANGED clearing
UnblockDomain(x) == Change /\ rules' = WithoutDomain(rules, x) /\ UNCHANGED clearing

ClearAll == Change /\ clearing' = "ips" /\ UNCHANGED rules

ClearStep ==
  /\ \/ clearing = "ips" /\ rules' = [rules EXCEPT !.ips = {}] /\ clearing' = "apps"
     \/ clearing = "apps" /\ rules' = [rules EXCEPT !.apps = {}] /\ clearing' = "domains"
     \/ /\ clearing = "domains"
        /\ rules' = [rules EXCEPT !.domains = {}, !.patterns = <<>>]
        /\ clearing' = "ports"
     \/ clearing = "ports" /\ rules' = [rules EXCEPT !.ports = {}] /\ clearing' = "no"
  /\ UNCHANGED changes

SetStep ==
  \E k \in SetKinds : \/ \E x \in Candidates[k] : Block(k, x)
                      \/ \E x \in rules[k] : Unblock(k, x)

Domains == rules.domains \cup ToSet(rules.patterns)

RuleStep ==
  \/ SetStep
  \/ \E x \in Candidates.domains : BlockDomain(x)
  \/ \E x \in Domains : UnblockDomain(x)
  \/ ClearAll \/ ClearStep
-----------------------------------------------------------------------------
(***************************************************************************)
(* The lookups.                                                            *)
(***************************************************************************)
isIPBlocked(ip)     == ip \in rules.ips
isPortBlocked(port) == port \in rules.ports
isAppBlocked(app)   == app \in rules.apps

\* "*." and the rest: the rest itself matches too.
domainMatchesPattern(name, pattern) ==
  Len(pattern) >= 2 /\ pattern[1] = "*" /\ IsSuffix(Tail(pattern), name)

isDomainBlocked(name) ==
  \/ name \in rules.domains
  \/ \E pattern \in ToSet(rules.patterns) : domainMatchesPattern(name, pattern)
=============================================================================
