------------------------------ MODULE MCLimits ------------------------------
(***************************************************************************)
(* The server's counters on a small instance: throttles, and queue quotas. *)
(* They share nothing but the timer of Core::cleanup, so a behaviour       *)
(* follows one or the other.                                               *)
(***************************************************************************)
EXTENDS Throttles, Quotas, TLC

CONSTANTS l1, l2, s1, s2, s3, a1, k1, k2, m1, m2

VARIABLE followed

\* Nothing tells one listener, session or attempt from another.
ThrottleSymmetry ==
  Permutations(Listeners) \cup Permutations(Sessions) \cup Permutations(Attempts)

\* One quota of messages and bytes for all mail of a sender, one of messages for
\* all mail to the domains, one of bytes for each recipient, and one without
\* conditions.
MCDomainsOf == (m1 :> <<"d1">>) @@ (m2 :> <<"d1", "d2">>)
MCRcptsOf == (m1 :> <<"r1">>) @@ (m2 :> <<"r1", "r2">>)
MCRcptDomain == [r1 |-> "d1", r2 |-> "d2"]
MCQueueQuotaItems ==
  << [name |-> "rcpts", keys |-> {"rcpt"}, match |-> {"sender"}, messages |-> 0, size |-> 4],
     [name |-> "all", keys |-> {"sender"}, match |-> {"sender"}, messages |-> 2, size |-> 4],
     [name |-> "domains", keys |-> {}, match |-> {"rcpt_domain"}, messages |-> 2, size |-> 0],
     [name |-> "unconditional", keys |-> {}, match |-> {}, messages |-> 1, size |-> 0] >>
MCMatching ==
  {<<"all", Whole>>, <<"domains", "d1">>, <<"domains", "d2">>, <<"rcpts", "r1">>, <<"rcpts", "r2">>}

LimitsInit ==
  /\ followed \in {"throttles", "quotas"}
  /\ Init /\ QuotaInit
  /\ followed = "throttles" => \A m \in Messages : size[m] = Min(MessageSizes)

LimitsNext ==
  \/ followed = "throttles" /\ Next /\ UNCHANGED <<quota_vars, followed>>
  \/ followed = "quotas" /\ QuotaNext /\ UNCHANGED <<vars, followed>>

LimitsSpec == LimitsInit /\ [][LimitsNext]_<<vars, quota_vars, followed>>
=============================================================================
