------------------------------- MODULE RuleFile -------------------------------
(***************************************************************************)
(* saveRules and loadRules of src/rule_manager.cpp, called by one thread   *)
(* while another one changes the rules (RuleManager).                      *)
(*                                                                         *)
(* saveRules writes the rules section by section, each copied under the    *)
(* lock of that kind; the domains and the patterns are one section.        *)
(* loadRules adds to the rules, line by line, and does not clear them      *)
(* first.  A line is a text, and what it is taken for depends on itself    *)
(* and on the header above it: an empty line is skipped, one that begins   *)
(* with '[' is a header, whoever wrote it.  A text is one line: the model  *)
(* has no texts with a line break.                                         *)
(***************************************************************************)
EXTENDS RuleManager, FiniteSets, Integers

CONSTANTS Text, Address, App, Port, \* what occurs in rules
          Bracketed,       \* the labels that begin with '['
          ipToString, parseIP,
          appTypeToString,
          portToString,    \* operator<< of a stream
          Number,          \* std::stoi, for the texts that begin with a number
          MaxUses          \* bound: how often rules are saved or loaded

Header == [ips |-> <<"[BLOCKED_IPS]">>, apps |-> <<"[BLOCKED_APPS]">>,
           domains |-> <<"[BLOCKED_DOMAINS]">>, ports |-> <<"[BLOCKED_PORTS]">>]

Blank         == <<>>
IsHeader(line) == line # Blank /\ line[1] \in Bracketed
IsRule(line)   == line # Blank /\ line[1] \notin Bracketed

Printed == {ipToString[a] : a \in Address} \cup {appTypeToString[a] : a \in App}
             \cup {portToString[p] : p \in Port}

\* static_cast<uint16_t>.
Limit16   == 65536
uint16(n) == n % Limit16

\* An address and a port are read as what was written, applications have
\* different names, and none of the three is written like a header.
ASSUME ConversionAssumption ==
  /\ Text \subseteq Seq(STRING)
  /\ IsFiniteSet(Address) /\ IsFiniteSet(App) /\ Port \subseteq 0 .. Limit16 - 1
  /\ ipToString \in [Address -> Text] /\ parseIP \in [Text -> Address]
  /\ appTypeToString \in [App -> Text] /\ portToString \in [Port -> Text]
  /\ \A a \in Address : parseIP[ipToString[a]] = a
  /\ \A a, b \in App : appTypeToString[a] = appTypeToString[b] => a = b
  /\ \A t \in DOMAIN Number : Number[t] \in Int /\ uint16(Number[t]) \in Port
  /\ \A p \in Port : portToString[p] \in DOMAIN Number /\ Number[portToString[p]] = p
  /\ \A t \in Printed : IsRule(t)
  /\ \A s \in DOMAIN Header : IsHeader(Header[s])

IsRules(r) ==
  /\ r \in [ips : SUBSET Address, ports : SUBSET Port, apps : SUBSET App,
            domains : SUBSET Text, patterns : Seq(Text)]
  /\ IsFiniteSet(r.domains)
  /\ \A x \in r.domains : ~IsPattern(x)
  /\ \A x \in ToSet(r.patterns) : IsPattern(x)

ASSUME RuleFileAssumption ==
  /\ MaxUses \in Nat
  /\ \A r \in InitialRules : IsRules(r)
  /\ Candidates \in [ips : SUBSET Address, ports : SUBSET Port, apps : SUBSET App,
                     domains : SUBSET Text]

VARIABLES file,    \* [ips, apps, domains, ports]: the lines below each header, or
                   \* Nothing when there is no file
          stage,   \* "idle", the section being saved, or "load"
          lines,   \* the lines still to load
          section, \* current_section of loadRules
          uses,    \* how often rules were saved or loaded
          inForce, \* history: per section, what was in force since saving began
          asSaved, \* history: the rules saved, if they did not change meanwhile
          base,    \* history: the rules when loading began, if nothing else changed
          unblocked \* history: domains not blocked again since unblockDomain

histories == <<inForce, asSaved, base>>
vars == <<ruleVars, file, stage, lines, section, uses, histories, unblocked>>

Nothing  == <<>>
Sections == {"ips", "apps", "domains", "ports"}

Section(r, s) == IF s = "domains" THEN <<r.domains, r.patterns>> ELSE r[s]

Init ==
  /\ RulesInit
  /\ file = Nothing /\ stage = "idle" /\ lines = <<>> /\ section = Blank /\ uses = 0
  /\ inForce = [s \in Sections |-> {}] /\ asSaved = Nothing /\ base = Nothing
  /\ unblocked = {}
-----------------------------------------------------------------------------
(***************************************************************************)
(* saveRules.  Opening the file empties it; when it does not open, nothing *)
(* happens.  A set is written in the order of its iteration, which may be  *)
(* any.                                                                    *)
(***************************************************************************)
SaveOpens ==
  /\ stage = "idle" /\ uses < MaxUses
  /\ stage' = "ips" /\ uses' = uses + 1
  /\ file' = [s \in Sections |-> <<>>]
  /\ inForce' = [s \in Sections |-> {Section(rules, s)}]
  /\ asSaved' = rules
  /\ UNCHANGED <<ruleVars, lines, section, base, unblocked>>

InLines(S, print) == {[k \in DOMAIN q |-> print[q[k]]] : q \in SetToSeqs(S)}

\* The lines that section s may become when x is in force.
Written(s, x) ==
  CASE s = "ips"     -> InLines(x, ipToString)
    [] s = "apps"    -> InLines(x, appTypeToString)
    [] s = "domains" -> {q \o x[2] : q \in SetToSeqs(x[1])}
    [] s = "ports"   -> InLines(x, portToString)

AfterSection == [ips |-> "apps", apps |-> "domains", domains |-> "ports", ports |-> "idle"]

\* Variant: the lock is given back between the domains and the patterns.
SaveSectionApart ==
  /\ \/ /\ stage \in Sections \ {"domains"}
        /\ \E t \in Written(stage, Section(rules, stage)) : file' = [file EXCEPT ![stage] = t]
        /\ stage' = AfterSection[stage]
     \/ /\ stage = "domains" /\ stage' = "patterns"
        /\ \E q \in SetToSeqs(rules.domains) : file' = [file EXCEPT !.domains = q]
     \/ /\ stage = "patterns" /\ stage' = "ports"
        /\ file' = [file EXCEPT !.domains = @ \o rules.patterns]
  /\ UNCHANGED <<ruleVars, lines, section, uses, histories, unblocked>>

SaveSection ==
  /\ stage \in Sections
  /\ \E t \in Written(stage, Section(rules, stage)) : file' = [file EXCEPT ![stage] = t]
  /\ stage' = AfterSection[stage]
  /\ UNCHANGED <<ruleVars, lines, section, uses, histories, unblocked>>

(***************************************************************************)
(* loadRules.                                                              *)
(***************************************************************************)
LinesOf(f) ==
  LET fromPorts   == <<Blank, Header.ports>> \o f.ports
      fromDomains == <<Blank, Header.domains>> \o (f.domains \o fromPorts)
      fromApps    == <<Blank, Header.apps>> \o (f.apps \o fromDomains)
  IN  <<Header.ips>> \o (f.ips \o fromApps)

LoadOpens ==
  /\ stage = "idle" /\ uses < MaxUses /\ file # Nothing
  /\ stage' = "load" /\ uses' = uses + 1
  /\ lines' = LinesOf(file) /\ section' = Blank
  /\ base' = rules
  /\ UNCHANGED <<ruleVars, file, inForce, asSaved, unblocked>>

\* Applications have different names: the first one found is the only one.
WithLine(r, s, line) ==
  CASE s = Header.ips     -> [r EXCEPT !.ips = @ \cup {parseIP[line]}]
    [] s = Header.apps    -> [r EXCEPT !.apps = @ \cup {a \in App : appTypeToString[a] = line}]
    [] s = Header.domains -> WithDomain(r, line)
    [] s = Header.ports   -> [r EXCEPT !.ports = @ \cup {uint16(Number[line])}]
    [] OTHER              -> r

\* std::stoi throws when there is no number at the start.
Throws(s, line) == s = Header.ports /\ line \notin DOMAIN Number

LoadLine ==
  /\ stage = "load" /\ lines # <<>>
  /\ LET line == Head(lines) IN
       \/ line = Blank /\ UNCHANGED <<rules, section, unblocked>>
       \/ IsHeader(line) /\ section' = line /\ UNCHANGED <<rules, unblocked>>
       \/ /\ IsRule(line) /\ ~Throws(section, line)
          /\ rules' = WithLine(rules, section, line)
          /\ unblocked' = IF section = Header.domains THEN unblocked \ {line} ELSE unblocked
          /\ UNCHANGED section
  /\ lines' = Tail(lines)
  /\ UNCHANGED <<clearing, changes, file, stage, uses, histories>>

Leave ==
  /\ stage' = "idle" /\ lines' = <<>> /\ section' = Blank /\ base' = Nothing
  /\ UNCHANGED <<ruleVars, file, uses, inForce, asSaved, unblocked>>

LoadEnds == stage = "load" /\ lines = <<>> /\ Leave

\* The exception leaves loadRules; the rules loaded so far stay.
LoadThrows ==
  /\ stage = "load" /\ lines # <<>>
  /\ IsRule(Head(lines)) /\ Throws(section, Head(lines))
  /\ Leave

(***************************************************************************)
(* The other thread.                                                       *)
(***************************************************************************)
Saving == stage \in Sections \cup {"patterns"}

ChangeRules ==
  /\ \/ \E x \in Candidates.domains : BlockDomain(x) /\ unblocked' = unblocked \ {x}
     \/ \E x \in Domains : UnblockDomain(x) /\ unblocked' = unblocked \cup {x}
     \/ (SetStep \/ ClearAll \/ ClearStep) /\ UNCHANGED unblocked
  /\ inForce' = IF Saving THEN [s \in Sections |-> inForce[s] \cup {Section(rules', s)}]
                ELSE inForce
  /\ asSaved' = IF Saving /\ rules' # rules THEN Nothing ELSE asSaved
  /\ base' = IF rules' # rules THEN Nothing ELSE base
  /\ UNCHANGED <<file, stage, lines, section, uses>>

Next == SaveOpens \/ SaveSection \/ LoadOpens \/ LoadLine \/ LoadEnds \/ LoadThrows \/ ChangeRules

Spec == Init /\ [][Next]_vars
-----------------------------------------------------------------------------
\* A section of the file is a writing of what was in force at some time while it
\* was saved: never of a part, nor of the domains of one time with the patterns of
\* another.
SavedInForce ==
  file # Nothing /\ stage \in {"idle", "load"} =>
    \A s \in Sections : \E x \in inForce[s] : file[s] \in Written(s, x)

Joined(r, s) ==
  [k \in DOMAIN r |-> IF k = "patterns" THEN r[k] \o s[k] ELSE r[k] \cup s[k]]

\* No domain of these rules is empty or begins with '['.
Plain(r) == \A x \in r.domains \cup ToSet(r.patterns) : IsRule(x)

\* When rules saved are loaded and nobody changes them meanwhile, then whatever
\* the domains look like, addresses and applications come back, which are written
\* before them.  When no domain can be taken for something else, everything does,
\* however loadRules ends: besides the rules in force before, with the patterns in
\* their order and as often as they were there.
RoundTrip ==
  [][stage = "load" /\ stage' = "idle" /\ base # Nothing /\ asSaved # Nothing =>
       /\ asSaved.ips \subseteq rules.ips /\ asSaved.apps \subseteq rules.apps
       /\ Plain(asSaved) => rules = Joined(base, asSaved)]_vars

\* What the class promises of unblockDomain: the domain is not a rule any more,
\* until it is blocked or loaded again.
UnblockedIsFree == unblocked \cap Domains = {}
=============================================================================
