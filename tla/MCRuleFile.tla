------------------------------ MODULE MCRuleFile ------------------------------
(***************************************************************************)
(* A small instance of RuleFile for TLC: domains that come back from a     *)
(* file, and some that are taken for a blank line or for a header.         *)
(***************************************************************************)
EXTENDS RuleFile, TLC

video    == <<"video", "com">>
anyVideo == <<"*", "video", "com">>
anyBlog  == <<"*", "blog", "org">>

MCAddressText == "ip0" :> <<"0.0.0.0">> @@ "ip1" :> <<"10.0.0.1">>
MCAppText     == "YOUTUBE" :> <<"YouTube">> @@ "DNS" :> <<"DNS">>
MCPortText    == 53 :> <<"53">> @@ 4464 :> <<"4464">>
MCNumber      == <<"53">> :> 53 @@ <<"4464">> :> 4464 @@ <<"70000">> :> 70000

MCText == {<<>>, video, anyVideo, anyBlog, <<"[x">>, Header.ports, Header.ips, <<"10.0.0.1">>,
           <<"0.0.0.0">>, <<"YouTube">>, <<"DNS">>, <<"53">>, <<"4464">>, <<"70000">>}

\* A text without a number in it is the address 0.
MCParseIP == [t \in MCText |-> IF t = <<"10.0.0.1">> THEN "ip1" ELSE "ip0"]

MCBracketed == {"[x"} \cup {Header[s][1] : s \in DOMAIN Header}

MCCandidates == [ips |-> {"ip1"}, ports |-> {53}, apps |-> {}, domains |-> {anyBlog, <<>>}]

NoRules == [ips |-> {}, ports |-> {}, apps |-> {}, domains |-> {}, patterns |-> <<>>]

MCInitialRules ==
  { NoRules,
    [NoRules EXCEPT !.apps = {"YOUTUBE"}, !.domains = {video}, !.patterns = <<anyVideo, anyVideo>>],
    [NoRules EXCEPT !.ips = {"ip1"}, !.domains = {Header.ports, video, <<"70000">>}],
    [NoRules EXCEPT !.ports = {53}, !.domains = {Header.ips, <<"[x">>, video}] }
=============================================================================
