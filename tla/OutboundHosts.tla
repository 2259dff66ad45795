--------------------------- MODULE OutboundHosts ---------------------------
(***************************************************************************)
(* One recipient domain in a delivery task, visit after visit: the next    *)
(* hop, the MTA-STS policy and its cache, the MX hosts in order of         *)
(* preference, their TLSA records and addresses, the TLS handshake and the *)
(* decision to hand the message over, with TLS or without                  *)
(* (outbound/delivery.rs, outbound/lookup.rs, outbound/mta_sts,            *)
(* outbound/dane).  The transaction itself is Delivery's.                  *)
(*                                                                         *)
(* Abstracted: names, addresses and texts, the times of cache entries (an  *)
(* entry may expire at any time), and what a certificate's digest is taken *)
(* of.                                                                     *)
(***************************************************************************)
EXTENDS Naturals, Sequences, SequencesExt, FiniteSets

CONSTANTS
  None,          \* no policy, no records
  Self,          \* the domain's own name, its host when it has no MX record
  Relay,         \* the host next-hop names
  Strategies,    \* the configured TlsStrategy: mta_sts, dane and tls
  NextHops,      \* "mx", "smtp", "lmtp", or "lmtps" for implicit TLS
  MxLists,       \* the MX records the DNS may answer with: sets of hosts in
                 \* order of preference, or NullMx
  Bodies,        \* the policy files that may be served, as sequences of lines
  PolicyIds,     \* the ids of the policy records
  Records,       \* the sets of TLSA records a host may have
  Chains,        \* the certificates a host may present, first its own
  MaxMx,         \* max_mx
  MaxIps         \* max_multihomed

NullMx == <<{"."}>>

Choice == {"require", "optional", "disable"}

ASSUME OutboundHostsAssumption ==
  /\ Strategies \subseteq [mta_sts : Choice, dane : Choice, tls : Choice]
  /\ NextHops \subseteq {"mx", "smtp", "lmtp", "lmtps"}
  /\ MaxMx \in Nat /\ MaxIps \in Nat

VARIABLES
  strategy, next_hop, requiretls,  \* the configuration and MAIL_REQUIRETLS
  sts_cache,     \* resolvers.cache.mta_sts: the domain's policy or None
  tlsa_cache,    \* resolvers.cache.tlsa: host -> Tlsa
  pc,            \* where the visit is
  status,        \* Domain::status
  tls_report,    \* whether the domain asks for TLS reports
  policy,        \* mta_sts_policy: a policy or None
  hosts,         \* remote_hosts still to try, the one being tried first
  dane,          \* dane_policy of the host being tried: a Tlsa or None
  ips,           \* how many of its addresses are still to try
  last_status,
  session,       \* the transaction: whether TLS is on and the peer's certificates
  reports,       \* the TLS events reported in this visit: the host, how many were
                 \* left with it, and the kind
  fetched        \* FALSE if a policy record was found and its policy was not

config == <<strategy, next_hop, requiretls>>
caches == <<sts_cache, tlsa_cache>>
ghosts == <<reports, fetched>>
vars == <<config, caches, pc, status, tls_report, policy, hosts, dane, ips,
          last_status, session, ghosts>>

Statuses == {"scheduled", "completed", "temp_fail", "perm_fail"}
NoSession == [tls |-> FALSE, chain |-> <<>>]

\* is_smtp: the LMTP hosts are the only ones without MX records and policies.
is_smtp == next_hop \in {"mx", "smtp"}

try_mta_sts == strategy.mta_sts \in {"require", "optional"}
is_mta_sts_required == strategy.mta_sts = "require"
try_dane == strategy.dane \in {"require", "optional"}
is_dane_required == strategy.dane = "require"

\* Fault: only the STARTTLS setting is looked at.
tls_setting == strategy.tls = "require"

is_tls_required == strategy.tls = "require" \/ is_dane_required \/ is_mta_sts_required

-----------------------------------------------------------------------------
(* MTA-STS policies                                                        *)

\* The lines Policy::parse sees.  A line without a colon has the key of the
\* next line run into its own, which hides that line.
SeenLines(body) == {i \in DOMAIN body : body[i].key # "junk"
                                        /\ (i = 1 \/ body[i-1].key # "junk")}

\* Policy::parse: an error, or a policy with the last mode named and the hosts
\* its mx patterns match.
parse(body, id) ==
  LET seen == SeenLines(body)
      modes == {i \in seen : body[i].key = "mode"}
      mx == UNION {body[i].value : i \in {j \in seen : body[j].key = "mx"}}
      bad == \/ \E i \in modes : body[i].value \notin {"enforce", "testing", "none"}
             \/ \E i \in seen : body[i].key = "version" /\ body[i].value # "STSv1"
             \/ \A i \in seen : body[i].key # "mx"
  IN IF bad THEN {}
     ELSE {[id |-> id, mx |-> mx,
            mode |-> IF modes = {} THEN "none" ELSE body[Max(modes)].value]}

\* Policy::verify
StsVerify(p, host) == p.mode # "none" => host \in p.mx

enforce(p) == p.mode = "enforce"

\* What lookup_mta_sts_policy finds in the cache for the answer to the TXT
\* lookup: any policy if the lookup failed, else one with the same id.
CachedPolicies(txt) ==
  {p \in {sts_cache} \ {None} : txt \in PolicyIds => p.id = txt}

-----------------------------------------------------------------------------
(* TLSA records                                                            *)

\* tlsa_lookup: records of other usages are left out; one with a matching type
\* or a selector that is not supported is counted and not kept.
TlsaOf(records) ==
  [entries |-> {[end_entity |-> r.usage = "ee", cert |-> r.cert] :
                  r \in {s \in records : s.usage \in {"ee", "ta"} /\ s.supported}},
   has_end_entities |-> \E r \in records : r.usage = "ee",
   has_intermediates |-> \E r \in records : r.usage = "ta"]

Matches(tlsa, chain, i) == [end_entity |-> i = 1, cert |-> chain[i]] \in tlsa.entries

\* Fault: any certificate of the chain may match an end-entity record.
LaxVerify(tlsa, chain) ==
  IF \E i \in DOMAIN chain : [end_entity |-> TRUE, cert |-> chain[i]] \in tlsa.entries
  THEN {} ELSE {"perm_fail"}

\* Tlsa::verify: {} or the status it fails with.  The certificates are looked at
\* in order until all that has to match has matched.
DaneVerify(tlsa, chain) ==
  LET stops == {i \in DOMAIN chain : /\ Matches(tlsa, chain, i)
                                     /\ i = 1 => ~tlsa.has_intermediates}
      seen == {i \in DOMAIN chain : \A j \in stops : i <= j}
      matched_end_entity == 1 \in seen /\ Matches(tlsa, chain, 1)
      matched_intermediate == \E i \in seen : i > 1 /\ Matches(tlsa, chain, i)
  IN IF chain = <<>> \/ \E i \in seen : chain[i] = "unparsable" THEN {"temp_fail"}
     ELSE IF /\ tlsa.has_end_entities = matched_end_entity
             /\ tlsa.has_intermediates = matched_intermediate
     THEN {} ELSE {"perm_fail"}

-----------------------------------------------------------------------------
(* Hosts                                                                   *)

\* The exchanges of an answer with their preferences; a host may have several.
Exchanges(list) == {e \in (DOMAIN list) \X (UNION Range(list)) : e[2] \in list[e[1]]}

\* The orders to_remote_hosts may put the exchanges in: those of one preference
\* are shuffled, and a host is there as often as it is listed.
HostOrders(list) ==
  {[i \in DOMAIN order |-> order[i][2]] :
     order \in {o \in SetToSeqs(Exchanges(list)) :
                  \A i, j \in DOMAIN o : i < j => o[i][1] <= o[j][1]}}

\* to_remote_hosts: the first max_mx hosts, or all if max_mx is 0, for it is
\* compared after a host is added; the domain itself if it has no MX record.
to_remote_hosts(list) ==
  IF list = <<>> THEN {<<Self>>}
  ELSE {SubSeq(order, 1, IF MaxMx = 0 \/ MaxMx > Len(order) THEN Len(order) ELSE MaxMx) :
          order \in HostOrders(list)}

\* Certificates come in order, an answer of the DNS is finite, and None stands
\* for no policy and no records only.
ASSUME HostDataAssumption ==
  /\ \A chain \in Chains : chain \in Seq(Range(chain))
  /\ \A list \in MxLists : IsFiniteSet(Exchanges(list))
  /\ None \notin PolicyIds
  /\ \A body \in Bodies, id \in PolicyIds : None \notin parse(body, id)
  /\ \A records \in Records : TlsaOf(records) # None

\* The status an error leads to: no usable reply, or a negative one.
from_smtp_error(reply) == IF reply = "5xx" THEN "perm_fail" ELSE "temp_fail"

\* STARTTLS was not offered, or got another reply than 220.
from_starttls_error(reply) == IF reply \in {"none", "5xx"} THEN "perm_fail" ELSE "temp_fail"

TlsErrors == {"tls", "timeout", "io", "name", "other"}
from_tls_error(error) == IF error \in {"name", "other"} THEN "perm_fail" ELSE "temp_fail"

\* resolve_host: at most max_multihomed addresses.
AddressCounts == 1..MaxIps

-----------------------------------------------------------------------------

Init ==
  /\ strategy \in Strategies /\ next_hop \in NextHops /\ requiretls \in BOOLEAN
  /\ sts_cache = None /\ tlsa_cache = <<>>
  /\ pc = "waiting" /\ status = "scheduled" /\ tls_report = FALSE
  /\ policy = None /\ hosts = <<>> /\ dane = None /\ ips = 0
  /\ last_status = "scheduled" /\ session = NoSession
  /\ reports = {} /\ fetched = TRUE

\* A cached policy, or cached TLSA records, reach the end of their life.  A visit
\* reads an entry once, so it tells apart only expiries between visits.
ExpireSts ==
  /\ pc = "waiting" /\ sts_cache # None
  /\ sts_cache' = None
  /\ UNCHANGED <<config, tlsa_cache, pc, status, tls_report, policy, hosts, dane,
                 ips, last_status, session, ghosts>>

ExpireTlsa ==
  /\ pc = "waiting"
  /\ \E h \in DOMAIN tlsa_cache :
       tlsa_cache' = [g \in DOMAIN tlsa_cache \ {h} |-> tlsa_cache[g]]
  /\ UNCHANGED <<config, sts_cache, pc, status, tls_report, policy, hosts, dane,
                 ips, last_status, session, ghosts>>

\* set_status or set_throttle_error, and on with the next domain: the visit's
\* variables are gone.
EndVisit(s) ==
  /\ pc' = "waiting" /\ status' = s
  /\ tls_report' = FALSE /\ policy' = None /\ hosts' = <<>>
  /\ dane' = None /\ ips' = 0 /\ last_status' = "scheduled" /\ session' = NoSession
  /\ reports' = {} /\ fetched' = TRUE
  /\ UNCHANGED config

\* An event of the host being tried, and the one of the domain's policy.
host == Head(hosts)
Event(kind) == [host |-> host, left |-> Len(hosts), kind |-> kind]
StsError == [host |-> Self, left |-> 0, kind |-> "sts_error"]

\* The report of a TLS event, if the domain asks for reports.
Report(events) == reports' = IF tls_report THEN reports \cup events ELSE reports

\* The domain is due.
Begin ==
  /\ pc = "waiting" /\ status \in {"scheduled", "temp_fail"}
  /\ pc' = "begun"
  /\ UNCHANGED <<config, caches, status, tls_report, policy, hosts, dane, ips,
                 last_status, session, ghosts>>

\* A throttle of the recipients' domain refuses.
RcptThrottled ==
  /\ pc = "begun"
  /\ EndVisit("temp_fail")
  /\ UNCHANGED caches

\* The next hop is read and the TLSRPT record looked up.
NextHop ==
  /\ pc = "begun"
  /\ pc' = IF is_smtp THEN "policy" ELSE "host"
  /\ tls_report' \in {FALSE, is_smtp}
  /\ hosts' = IF next_hop = "mx" THEN <<>> ELSE <<Relay>>
  /\ UNCHANGED <<config, caches, status, policy, dane, ips, last_status, session,
                 ghosts>>

-----------------------------------------------------------------------------
(* The policy and the MX records of the domain                             *)

NoPolicyWanted ==
  /\ pc = "policy" /\ ~try_mta_sts
  /\ pc' = "mx"
  /\ UNCHANGED <<config, caches, status, tls_report, policy, hosts, dane, ips,
                 last_status, session, ghosts>>

\* lookup_mta_sts_policy returns p.
UsePolicy(p) ==
  /\ policy' = p /\ sts_cache' = p
  /\ pc' = "mx"
  /\ UNCHANGED <<config, tlsa_cache, status, tls_report, hosts, dane, ips,
                 last_status, session, ghosts>>

\* lookup_mta_sts_policy fails: the domain fails if a policy is required.
PolicyError(s, events, found) ==
  \/ /\ is_mta_sts_required
     /\ EndVisit(s)
     /\ UNCHANGED caches
  \/ /\ ~is_mta_sts_required
     /\ pc' = "mx"
     /\ Report(events)
     /\ fetched' = ~found
     /\ UNCHANGED <<config, caches, status, tls_report, policy, hosts, dane, ips,
                    last_status, session>>

\* A record that does not exist is a permanent failure, any other error is not.
DnsErrors == {"perm_fail", "temp_fail"}

\* A policy that is not found is a permanent failure, any other error is not.
FetchErrors == {"perm_fail", "temp_fail"}

\* The TXT lookup fails and there is no cached policy.  A missing record is
\* reported only if a policy is required, a failed lookup never.
TxtErrors == {[status |-> "perm_fail", events |-> {}],
              [status |-> "temp_fail", events |-> {}],
              [status |-> "perm_fail", events |-> {StsError}]}

LookupPolicy ==
  /\ pc = "policy" /\ try_mta_sts
  /\ \/ /\ CachedPolicies(None) = {}
        /\ \E e \in TxtErrors : PolicyError(e.status, e.events, FALSE)
     \/ \E p \in CachedPolicies(None) : UsePolicy(p)
     \/ \E id \in PolicyIds :
          \/ \E p \in CachedPolicies(id) : UsePolicy(p)
          \/ /\ CachedPolicies(id) = {}
             /\ \E body \in Bodies :
                  \/ \E p \in parse(body, id) : UsePolicy(p)
                  \/ /\ parse(body, id) = {}
                     /\ PolicyError("perm_fail", {StsError}, TRUE)
          \/ /\ CachedPolicies(id) = {}
             /\ \E s \in FetchErrors :
                  PolicyError(s, {StsError}, TRUE)

LookupMx ==
  /\ pc = "mx"
  /\ \/ \* no answer, no such domain, or a null MX
        /\ \E s \in DnsErrors : EndVisit(s)
        /\ UNCHANGED caches
     \/ \E list \in MxLists \ {NullMx} :
          /\ hosts' \in to_remote_hosts(list)
          /\ pc' = "host"
          /\ UNCHANGED <<config, caches, status, tls_report, policy, dane, ips, last_status,
                         session, ghosts>>

-----------------------------------------------------------------------------
(* One host                                                                *)

\* continue 'next_host
NextHost(s, events) ==
  /\ last_status' = s
  /\ hosts' = Tail(hosts)
  /\ pc' = "host"
  /\ dane' = None /\ ips' = 0
  /\ Report(events)
  /\ UNCHANGED <<config, status, tls_report, policy, session, fetched>>

Unauthorised == policy # None /\ ~StsVerify(policy, host)

\* The host is checked against the policy and its addresses are looked up.
TryHost ==
  /\ pc = "host" /\ hosts # <<>>
  /\ LET events == IF Unauthorised THEN {Event("mx_not_authorized")} ELSE {}
     IN IF Unauthorised /\ enforce(policy)
        THEN NextHost("perm_fail", events) /\ UNCHANGED caches
        ELSE \/ \E n \in AddressCounts :
                  /\ ips' = n
                  /\ pc' = "tlsa"
                  /\ Report(events)
                  /\ UNCHANGED <<config, caches, status, tls_report, policy, hosts,
                                 dane, last_status, session, fetched>>
             \/ \E s \in {"temp_fail", "perm_fail"} : NextHost(s, events) /\ UNCHANGED caches

\* No host is left: the domain gets the status of the last one.
OutOfHosts ==
  /\ pc = "host" /\ hosts = <<>>
  /\ EndVisit(last_status)
  /\ UNCHANGED caches

UseTlsa(d, events) ==
  /\ dane' = d
  /\ pc' = "ip"
  /\ Report(events)
  /\ UNCHANGED <<config, sts_cache, status, tls_report, policy, hosts, ips,
                 last_status, session, fetched>>

NoTlsaWanted ==
  /\ pc = "tlsa" /\ ~(try_dane /\ is_smtp)
  /\ UseTlsa(None, {}) /\ UNCHANGED tlsa_cache

\* Records with no end-entity are as good as none.
FoundTlsa(tlsa) ==
  LET invalid == {Event("tlsa_invalid")}
  IN \/ tlsa.has_end_entities /\ UseTlsa(tlsa, {})
     \/ /\ ~tlsa.has_end_entities /\ ~is_dane_required
        /\ UseTlsa(None, invalid)
     \/ /\ ~tlsa.has_end_entities /\ is_dane_required
        /\ NextHost("perm_fail", invalid) /\ UNCHANGED sts_cache

\* No signed records, no records at all, or no answer.
TlsaErrors == {[status |-> "perm_fail", events |-> {Event("dane_required")}],
               [status |-> "temp_fail", events |-> {}]}

LookupTlsa ==
  /\ pc = "tlsa" /\ try_dane /\ is_smtp
  /\ \/ /\ host \in DOMAIN tlsa_cache
        /\ FoundTlsa(tlsa_cache[host]) /\ UNCHANGED tlsa_cache
     \/ /\ host \notin DOMAIN tlsa_cache
        /\ \E records \in Records :
             /\ FoundTlsa(TlsaOf(records))
             /\ tlsa_cache' = [h \in DOMAIN tlsa_cache \cup {host} |->
                                 IF h = host THEN TlsaOf(records) ELSE tlsa_cache[h]]
     \/ /\ host \notin DOMAIN tlsa_cache
        /\ \E e \in TlsaErrors :
             \/ is_dane_required /\ NextHost(e.status, e.events) /\ UNCHANGED sts_cache
             \/ ~is_dane_required /\ UseTlsa(None, {})
        /\ UNCHANGED tlsa_cache

\* A throttle of the remote host refuses.
HostThrottled ==
  /\ pc = "ip" /\ ips > 0
  /\ EndVisit("temp_fail")
  /\ UNCHANGED caches

ConnectFailed ==
  /\ pc = "ip" /\ ips > 0
  /\ ips' = ips - 1
  /\ last_status' = from_smtp_error("none")
  /\ UNCHANGED <<config, caches, pc, status, tls_report, policy, hosts, dane, session,
                 ghosts>>

\* The addresses are used up.
OutOfAddresses ==
  /\ pc = "ip" /\ ips = 0
  /\ NextHost(last_status, {})
  /\ UNCHANGED caches

Connected ==
  /\ pc = "ip" /\ ips > 0
  /\ ips' = ips - 1
  /\ pc' = "hello"
  /\ UNCHANGED <<config, caches, status, tls_report, policy, hosts, dane, last_status,
                 session, ghosts>>

\* The greeting or the EHLO fails.  The other addresses of the host are not tried.
HelloFailed ==
  /\ pc = "hello" /\ next_hop # "lmtps"
  /\ \E reply \in {"none", "4xx", "5xx"} : NextHost(from_smtp_error(reply), {})
  /\ UNCHANGED caches

\* StartTlsResult::Error
TlsFailed ==
  /\ pc = "hello" /\ next_hop # "lmtps"
  /\ \E error \in TlsErrors :
        NextHost(from_tls_error(error),
                 IF error = "tls" THEN {Event("cert_untrusted")} ELSE {})
  /\ UNCHANGED caches

\* With implicit TLS, the handshake or the greeting after it fails.
ImplicitTlsFailed ==
  /\ pc = "hello" /\ next_hop = "lmtps"
  /\ \/ \E error \in TlsErrors : NextHost(from_tls_error(error), {})
     \/ \E reply \in {"none", "4xx", "5xx"} : NextHost(from_smtp_error(reply), {})
  /\ UNCHANGED caches

Transaction(tls, chain, events) ==
  /\ pc' = "transaction"
  /\ session' = [tls |-> tls, chain |-> chain]
  /\ Report(events)
  /\ UNCHANGED <<config, caches, status, tls_report, policy, hosts, dane, ips,
                 last_status, fetched>>

\* Fault: the success is reported before the certificates are verified.
ReportThenVerify(chain) ==
  /\ pc = "hello"
  /\ LET failed == IF dane = None THEN {} ELSE DaneVerify(dane, chain)
         success == {Event("success")}
     IN \/ failed = {} /\ Transaction(TRUE, chain, success)
        \/ \E s \in failed : NextHost(s, success) /\ UNCHANGED caches

\* StartTlsResult::Success, or implicit TLS, which has no policy to satisfy.
StartTls(chain) ==
  /\ pc = "hello"
  /\ LET failed == IF dane = None THEN {} ELSE DaneVerify(dane, chain)
     IN \/ /\ failed = {}
           /\ Transaction(TRUE, chain, IF next_hop = "lmtps" THEN {}
                                       ELSE {Event("success")})
        \/ \E s \in failed :
             /\ NextHost(s, {Event("dane_failed")})
             /\ UNCHANGED caches

\* Whether a host without STARTTLS is passed over.
MustEncrypt == is_tls_required \/ requiretls \/ policy # None \/ dane # None

\* StartTlsResult::Unavailable
NoStartTls ==
  /\ pc = "hello" /\ next_hop # "lmtps"
  /\ LET events == {Event("no_starttls")}
     IN \/ /\ MustEncrypt
           /\ \E reply \in {"none", "4xx", "5xx"} : NextHost(from_starttls_error(reply), events)
           /\ UNCHANGED caches
        \/ ~MustEncrypt /\ Transaction(FALSE, <<>>, events)

\* Fault: after a transaction that failed the next host is tried.
OnAfterTransaction ==
  /\ pc = "transaction"
  /\ NextHost("temp_fail", {})
  /\ UNCHANGED caches

\* Message::deliver returns.
EndTransaction ==
  /\ pc = "transaction"
  /\ \E s \in Statuses : EndVisit(s)
  /\ UNCHANGED caches

Visit ==
  \/ RcptThrottled \/ NextHop \/ NoPolicyWanted \/ LookupPolicy \/ LookupMx
  \/ TryHost \/ OutOfHosts \/ NoTlsaWanted \/ LookupTlsa
  \/ HostThrottled \/ ConnectFailed \/ OutOfAddresses \/ Connected
  \/ HelloFailed \/ TlsFailed \/ ImplicitTlsFailed \/ (\E chain \in Chains : StartTls(chain)) \/ NoStartTls
  \/ EndTransaction

Next == Begin \/ Visit \/ ExpireSts \/ ExpireTlsa

\* A task that has begun a visit goes on: each lookup and each command has a
\* timeout.
Spec == Init /\ [][Next]_vars /\ WF_vars(Visit)

-----------------------------------------------------------------------------
(* Properties                                                              *)

\* A message with REQUIRETLS, or for which TLS, DANE or MTA-STS is required, is
\* never handed over in the clear, whatever hosts fail before
\* (is_tls_required and the STARTTLS branches of delivery.rs).
EncryptedWhenRequired ==
  pc = "transaction" /\ (requiretls \/ "require" \in Range(strategy)) => session.tls

\* A cached policy binds: while the cache holds one for the domain, a message
\* goes out only over TLS and, if the policy is enforced, only to a host it lists,
\* even when the DNS fails (lookup_mta_sts_policy).  The one exception is a record
\* with another id whose policy cannot be fetched: the cached one is not used then.
\* While it holds end-entity TLSA records of a host, the host's own certificate
\* has to be one of theirs (tlsa_lookup, Tlsa::verify).
CachedPolicyHonoured ==
  pc = "transaction" /\ is_smtp =>
    /\ try_mta_sts /\ sts_cache # None /\ fetched =>
         session.tls /\ (sts_cache.mode = "enforce" => host \in sts_cache.mx)
    /\ try_dane /\ host \in DOMAIN tlsa_cache /\ tlsa_cache[host].has_end_entities =>
         /\ session.tls
         /\ [end_entity |-> TRUE, cert |-> Head(session.chain)] \in tlsa_cache[host].entries

\* To a domain that asks for reports, the host that got the message is reported
\* as a success exactly if TLS was on, and no other host is; STARTTLS is reported
\* missing for it exactly if TLS was off, whatever was reported when an entry before
\* named the same host (schedule_report in delivery.rs).
ReportsTrue ==
  pc = "transaction" /\ tls_report =>
    /\ {e \in reports : e.kind = "success"} =
         (IF session.tls THEN {Event("success")} ELSE {})
    /\ Event("no_starttls") \in reports <=> ~session.tls

Phase == IF pc \in {"waiting", "transaction"} THEN pc ELSE "visiting"

AbstractVisit == INSTANCE DomainVisit WITH phase <- Phase

\* A visit implements DomainVisit: at most one transaction, one status, none that
\* says "completed" without a transaction, and it comes to an end.
RefinesDomainVisit == AbstractVisit!Spec
=============================================================================
