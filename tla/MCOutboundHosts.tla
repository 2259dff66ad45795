-------------------------- MODULE MCOutboundHosts --------------------------
(***************************************************************************)
(* An instance of OutboundHosts for TLC: two MX hosts, a relay, policies   *)
(* that list one of the hosts, and TLSA records of both usages.            *)
(***************************************************************************)
EXTENDS OutboundHosts

CONSTANTS h1, h2

\* Each setting on its own, and all of them optional.
MCStrategies ==
  {[mta_sts |-> "optional", dane |-> "optional", tls |-> "optional"],
   [mta_sts |-> "require", dane |-> "disable", tls |-> "disable"],
   [mta_sts |-> "disable", dane |-> "require", tls |-> "optional"],
   [mta_sts |-> "disable", dane |-> "disable", tls |-> "require"]}

\* The first list names a host under two preferences.
MCMxLists == {<<{h1}, {h1, h2}>>, <<{h1, h2}>>, <<>>, NullMx}

Line(key, value) == [key |-> key, value |-> value]

MCBodies ==
  {<<Line("version", "STSv1"), Line("mode", "enforce"), Line("mx", {h1})>>,
   <<Line("mode", "testing"), Line("mx", {h2})>>,
   <<Line("junk", ""), Line("mode", "enforce"), Line("mx", {h2})>>,
   <<Line("mode", "enforce")>>}

MCRecords ==
  {{[usage |-> "ee", supported |-> TRUE, cert |-> "leaf"],
    [usage |-> "ta", supported |-> TRUE, cert |-> "ca"]},
   {[usage |-> "ta", supported |-> TRUE, cert |-> "ca"]}}

MCChains == {<<"leaf", "ca">>, <<"ca", "leaf">>, <<"leaf", "unparsable">>}
=============================================================================
