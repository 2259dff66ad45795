------------------------ MODULE OutboundHostsProofs ------------------------
(***************************************************************************)
(* The decision to hand a message over to a host, for every TLS strategy,  *)
(* policy, set of TLSA records and list of MX hosts.                       *)
(***************************************************************************)
EXTENDS OutboundHosts, FiniteSetTheorems, TLAPS

-----------------------------------------------------------------------------
(* The inductive invariant                                                 *)

Hosts == {Self, Relay} \cup UNION {UNION Range(list) : list \in MxLists}

\* The host is one the policy allows.
Chosen == {"tlsa", "ip", "hello", "transaction"}

\* A visit that has not come to a transaction has not completed the domain.
VisitInv ==
  /\ strategy \in Strategies
  /\ hosts \in Seq(Hosts)
  /\ last_status \in Statuses \ {"completed"}
  /\ pc \in {"waiting", "begun", "policy", "mx", "host"} \cup Chosen
  /\ pc \in Chosen => hosts # <<>>

\* The policy of the visit is the cached one, unless a newer one was not found.
PolicyInv ==
  /\ pc \in {"waiting", "begun", "policy"} => policy = None /\ fetched = TRUE
  /\ /\ pc \notin {"waiting", "begun", "policy"}
     /\ is_smtp /\ try_mta_sts /\ sts_cache # None /\ fetched
     => policy = sts_cache
  /\ pc \in Chosen /\ policy # None /\ enforce(policy) => host \in policy.mx

\* The records of the host are the cached ones, if an end-entity is among them.
DaneInv ==
  /\ \A h \in DOMAIN tlsa_cache : tlsa_cache[h] # None
  /\ /\ pc \in {"ip", "hello", "transaction"} /\ is_smtp /\ try_dane
     /\ host \in DOMAIN tlsa_cache /\ tlsa_cache[host].has_end_entities
     => dane = tlsa_cache[host]

\* A transaction runs over TLS with a chain that was verified, or nothing asked
\* for TLS.
SessionInv ==
  pc = "transaction" =>
    \/ /\ session.tls = TRUE /\ session.chain \in Chains
       /\ dane # None => DaneVerify(dane, session.chain) = {}
    \/ session.tls = FALSE /\ ~MustEncrypt

\* The entry of the list where STARTTLS is reported missing was passed over.
Passed(r) == r.kind = "no_starttls" => r.left \in Nat /\ Len(hosts) < r.left

\* A success is reported when the transaction starts, and STARTTLS is reported
\* missing for entries already passed over.
ReportsInv ==
  /\ tls_report => is_smtp
  /\ pc \in {"waiting", "begun"} => reports = {}
  /\ pc \in {"waiting", "begun", "policy", "mx"} => \A r \in reports : r.kind = "sts_error"
  /\ pc # "transaction" =>
       \A r \in reports : r.kind # "success" /\ Passed(r)
  /\ ReportsTrue

HostsInv == VisitInv /\ PolicyInv /\ DaneInv /\ SessionInv /\ ReportsInv

-----------------------------------------------------------------------------
(* The hosts to try                                                        *)

\* to_remote_hosts gives a sequence of hosts.
LEMMA RemoteHosts ==
  ASSUME NEW list \in MxLists, NEW s \in to_remote_hosts(list)
  PROVE  s \in Seq(Hosts)
<1>1. CASE list = <<>>
  <2>1. s = <<Self>> BY <1>1 DEF to_remote_hosts
  <2> QED BY <2>1 DEF Hosts
<1>2. CASE list # <<>>
  <2> DEFINE E == Exchanges(list)
  <2>1. PICK order \in HostOrders(list) :
          s = SubSeq(order, 1, IF MaxMx = 0 \/ MaxMx > Len(order) THEN Len(order) ELSE MaxMx)
    BY <1>2 DEF to_remote_hosts
  <2>2. Cardinality(E) \in Nat BY HostDataAssumption, FS_CardinalityType
  <2>3. PICK o \in [1..Cardinality(E) -> E] : order = [i \in DOMAIN o |-> o[i][2]]
    BY DEF HostOrders, SetToSeqs
  <2>4. \A e \in E : e[2] \in Hosts BY DEF Exchanges, Hosts
  <2> HIDE DEF E
  <2>5. order \in Seq(Hosts) /\ Len(order) = Cardinality(E) BY <2>2, <2>3, <2>4
  <2>6. PICK n \in 0..Len(order) : s = SubSeq(order, 1, n)
    BY <2>1, <2>2, <2>5, OutboundHostsAssumption
  <2> QED BY <2>2, <2>5, <2>6
<1> QED BY <1>1, <1>2

-----------------------------------------------------------------------------
(* Every step keeps the invariant                                          *)

\* The end of a visit keeps the invariant.
LEMMA EndVisitStep ==
  ASSUME HostsInv, NEW s, EndVisit(s), UNCHANGED caches
  PROVE  HostsInv'
<1>1. hosts' \in Seq(Hosts) /\ DOMAIN hosts' = {} BY DEF EndVisit
<1> QED BY <1>1 DEF EndVisit, caches, config, HostsInv, VisitInv, PolicyInv, DaneInv,
           SessionInv, ReportsInv, ReportsTrue, Statuses, Chosen, is_smtp

\* A host is passed over: the events are about it, or about the domain.
LEMMA NextHostStep ==
  ASSUME HostsInv, pc \in ({"host"} \cup Chosen) \ {"transaction"}, hosts # <<>>,
         NEW s \in Statuses \ {"completed"}, NEW events, NextHost(s, events),
         sts_cache' = sts_cache,
         \A h \in DOMAIN tlsa_cache' : tlsa_cache'[h] # None,
         \A e \in events : e.kind # "success" /\ e.left = Len(hosts)
  PROVE  HostsInv'
<1>1. hosts' \in Seq(Hosts) /\ Len(hosts') < Len(hosts) /\ Len(hosts) \in Nat
  BY DEF NextHost, HostsInv, VisitInv
<1>2. pc' = "host" /\ last_status' = s /\ UNCHANGED <<config, tls_report, policy, fetched>>
  BY DEF NextHost
<1>3. VisitInv' BY <1>1, <1>2 DEF HostsInv, VisitInv, config, Chosen
<1>4. PolicyInv' BY <1>2 DEF HostsInv, PolicyInv, config, is_smtp, try_mta_sts, Chosen
<1>5. DaneInv' BY <1>2 DEF HostsInv, DaneInv
<1>6. SessionInv' BY <1>2 DEF SessionInv
<1>7. reports' \subseteq reports \cup events BY DEF NextHost, Report
<1>8. ReportsInv'
  <2>1. \A r \in reports : r.kind # "success" /\ Passed(r)
    BY DEF HostsInv, ReportsInv, Chosen
  <2>2. Len(hosts') \in Nat BY <1>1
  <2>3. ASSUME NEW r \in reports'
        PROVE  r.kind # "success" /\ Passed(r)'
    <3>1. CASE r \in reports BY <1>1, <2>1, <2>2, <3>1 DEF Passed
    <3>2. CASE r \in events BY <1>1, <3>2 DEF Passed
    <3> QED BY <1>7, <3>1, <3>2
  <2> QED BY <1>2, <2>3 DEF HostsInv, ReportsInv, ReportsTrue, is_smtp, config
<1> QED BY <1>3, <1>4, <1>5, <1>6, <1>8 DEF HostsInv

\* The visit goes on with what it has; events are not about TLS having worked.
LEMMA GoOnStep ==
  ASSUME HostsInv, UNCHANGED <<config, caches, policy, hosts, dane, fetched, tls_report>>,
         \/ pc \in {"waiting", "begun"} /\ pc' = "begun" /\ UNCHANGED reports
         \/ pc \in Chosen /\ pc' \in Chosen \ {"transaction"}
         \/ pc = "host" /\ pc' = "tlsa" /\ hosts # <<>>
            /\ (policy # None /\ enforce(policy) => host \in policy.mx),
         pc \in {"host", "tlsa"} \/ pc' # "tlsa",
         pc = "tlsa" => pc' = "tlsa",
         last_status' \in Statuses \ {"completed"},
         \A r \in reports' : r \in reports \/ r.kind = "mx_not_authorized",
         pc # "transaction"
  PROVE  HostsInv'
<1>1. VisitInv' BY DEF HostsInv, VisitInv, config, Chosen
<1>2. PolicyInv' BY DEF HostsInv, PolicyInv, config, caches, is_smtp, try_mta_sts, Chosen, host
<1>3. DaneInv' BY DEF HostsInv, DaneInv, config, caches, is_smtp, try_dane, host, Chosen
<1>4. SessionInv' BY DEF SessionInv, Chosen
<1>5. ReportsInv'
  BY DEF HostsInv, ReportsInv, ReportsTrue, Passed, config, is_smtp, Chosen
<1> QED BY <1>1, <1>2, <1>3, <1>4, <1>5 DEF HostsInv

\* The choice between a relay and the MX hosts keeps the invariant.
LEMMA NextHopStep ==
  ASSUME HostsInv, NextHop
  PROVE  HostsInv'
<1>1. hosts' \in {<<>>, <<Relay>>} /\ pc' \in {"policy", "host"} /\ (pc' = "policy" <=> is_smtp)
  BY DEF NextHop
<1>2. hosts' \in Seq(Hosts)
  <2>1. Relay \in Hosts BY DEF Hosts
  <2>2. CASE hosts' = <<>> BY <2>2
  <2>3. CASE hosts' = <<Relay>> BY <2>1, <2>3
  <2> QED BY <1>1, <2>2, <2>3
<1>3. UNCHANGED <<config, caches, policy, last_status, reports, fetched>> /\ pc = "begun"
      /\ reports = {}
  BY DEF NextHop, ghosts, HostsInv, ReportsInv
<1>4. VisitInv' BY <1>1, <1>2, <1>3 DEF HostsInv, VisitInv, config, Chosen
<1>5. PolicyInv' BY <1>1, <1>3 DEF HostsInv, PolicyInv, is_smtp, Chosen, config
<1>6. DaneInv' BY <1>1, <1>3 DEF HostsInv, DaneInv, caches
<1>7. SessionInv' BY <1>1 DEF SessionInv
<1>8. tls_report' => is_smtp BY DEF NextHop
<1>9. ReportsInv' BY <1>1, <1>3, <1>8 DEF ReportsInv, ReportsTrue, config, is_smtp
<1> QED BY <1>4, <1>5, <1>6, <1>7, <1>9 DEF HostsInv

\* The policy is settled.
LEMMA PolicyStep ==
  ASSUME HostsInv, NoPolicyWanted \/ LookupPolicy
  PROVE  HostsInv'
<1>0. pc = "policy" /\ policy = None /\ fetched = TRUE
  BY DEF NoPolicyWanted, LookupPolicy, HostsInv, PolicyInv
<1>1. ASSUME pc' = "mx", UNCHANGED <<config, tlsa_cache, hosts, last_status, tls_report>>,
             reports' \in {reports, reports \cup {StsError}},
             is_smtp /\ try_mta_sts /\ sts_cache' # None /\ fetched' => policy' = sts_cache'
      PROVE  HostsInv'
  <2>1. VisitInv' BY <1>1 DEF HostsInv, VisitInv, config, Chosen
  <2>2. PolicyInv' BY <1>1 DEF PolicyInv, config, is_smtp, try_mta_sts, Chosen
  <2>3. DaneInv' BY <1>1 DEF HostsInv, DaneInv
  <2>4. SessionInv' BY <1>1 DEF SessionInv
  <2>5. \A r \in reports' : r.kind = "sts_error" BY <1>0, <1>1 DEF HostsInv, ReportsInv, StsError
  <2>6. ReportsInv'
    BY <1>1, <2>5 DEF HostsInv, ReportsInv, ReportsTrue, Passed, config, is_smtp
  <2> QED BY <2>1, <2>2, <2>3, <2>4, <2>6 DEF HostsInv
<1>2. CASE NoPolicyWanted
  BY <1>1, <1>2 DEF NoPolicyWanted, caches, ghosts, try_mta_sts
<1>3. ASSUME NEW p, UsePolicy(p) PROVE HostsInv'
  BY <1>1, <1>3 DEF UsePolicy, ghosts
<1>4. ASSUME NEW s, NEW events, NEW found, PolicyError(s, events, found),
             events \in {{}, {StsError}},
             found = TRUE \/ (found = FALSE /\ sts_cache = None)
      PROVE  HostsInv'
  <2>1. CASE EndVisit(s) /\ UNCHANGED caches BY <2>1, EndVisitStep
  <2>2. CASE /\ pc' = "mx" /\ Report(events) /\ fetched' = ~found
             /\ UNCHANGED <<config, caches, status, tls_report, policy, hosts, dane, ips,
                            last_status, session>>
    <3>1. reports' \in {reports, reports \cup {StsError}}
      BY <1>4, <2>2 DEF Report
    <3>2. sts_cache' # None => fetched' = FALSE BY <1>4, <2>2 DEF caches
    <3> QED BY <1>1, <2>2, <3>1, <3>2 DEF caches
  <2> QED BY <1>4, <2>1, <2>2 DEF PolicyError
<1>5. CASE LookupPolicy
  <2>1. CachedPolicies(None) = {} => sts_cache = None
    BY HostDataAssumption DEF CachedPolicies
  <2>2. ASSUME NEW e \in TxtErrors
        PROVE  e.events \in {{}, {StsError}}
    BY DEF TxtErrors
  <2>3. ASSUME CachedPolicies(None) = {}, NEW e \in TxtErrors,
               PolicyError(e.status, e.events, FALSE)
        PROVE  HostsInv'
    BY <1>4, <2>1, <2>2, <2>3
  <2>4. ASSUME NEW s, PolicyError(s, {StsError}, TRUE)
        PROVE  HostsInv'
    BY <1>4, <2>4
  <2> QED BY <1>3, <1>5, <2>3, <2>4 DEF LookupPolicy
<1> QED BY <1>2, <1>5

\* The lookup of the MX hosts keeps the invariant.
LEMMA LookupMxStep ==
  ASSUME HostsInv, LookupMx
  PROVE  HostsInv'
<1>1. ASSUME NEW s, EndVisit(s), UNCHANGED caches PROVE HostsInv' BY <1>1, EndVisitStep
<1>2. ASSUME NEW list \in MxLists, hosts' \in to_remote_hosts(list), pc' = "host",
             UNCHANGED <<config, caches, tls_report, policy, last_status, ghosts>>
      PROVE  HostsInv'
  <2>0. pc = "mx" BY DEF LookupMx
  <2>1. VisitInv' BY <1>2, RemoteHosts DEF HostsInv, VisitInv, config, Chosen
  <2>2. PolicyInv'
    BY <1>2, <2>0 DEF HostsInv, PolicyInv, config, caches, ghosts, is_smtp, try_mta_sts, Chosen
  <2>3. DaneInv' BY <1>2 DEF HostsInv, DaneInv, caches
  <2>4. SessionInv' BY <1>2 DEF SessionInv
  <2>5. \A r \in reports' : r.kind = "sts_error"
    BY <1>2, <2>0 DEF HostsInv, ReportsInv, ghosts
  <2>7. ReportsInv'
    BY <1>2, <2>5 DEF HostsInv, ReportsInv, ReportsTrue, Passed, config, is_smtp
  <2> QED BY <2>1, <2>2, <2>3, <2>4, <2>7 DEF HostsInv
<1> QED BY <1>1, <1>2 DEF LookupMx

\* The policies of a host, which decide whether it is tried, keep the invariant.
LEMMA TryHostStep ==
  ASSUME HostsInv, TryHost
  PROVE  HostsInv'
<1> DEFINE events == IF Unauthorised THEN {Event("mx_not_authorized")} ELSE {}
<1>0. pc = "host" /\ hosts # <<>> BY DEF TryHost
<1>1. \A e \in events : e.kind = "mx_not_authorized" /\ e.left = Len(hosts) BY DEF Event
<1>2. ASSUME NEW s \in {"temp_fail", "perm_fail"}, NextHost(s, events), UNCHANGED caches
      PROVE  HostsInv'
  <2>1. s \in Statuses \ {"completed"} BY DEF Statuses
  <2>2. \A h \in DOMAIN tlsa_cache' : tlsa_cache'[h] # None BY <1>2 DEF HostsInv, DaneInv, caches
  <2>3. sts_cache' = sts_cache BY <1>2 DEF caches
  <2> HIDE DEF events
  <2> QED BY <1>0, <1>1, <1>2, <2>1, <2>2, <2>3, NextHostStep
<1>3. ASSUME ~(Unauthorised /\ enforce(policy)), pc' = "tlsa", Report(events),
             UNCHANGED <<config, caches, status, tls_report, policy, hosts,
                         dane, last_status, session, fetched>>
      PROVE  HostsInv'
  <2>1. policy # None /\ enforce(policy) => host \in policy.mx
    BY <1>3 DEF Unauthorised, StsVerify, enforce
  <2>2. \A r \in reports' : r \in reports \/ r.kind = "mx_not_authorized"
    BY <1>1, <1>3 DEF Report
  <2>3. last_status' \in Statuses \ {"completed"} BY <1>3 DEF HostsInv, VisitInv
  <2> QED BY <1>0, <1>3, <2>1, <2>2, <2>3, GoOnStep
<1> QED BY <1>2, <1>3 DEF TryHost

\* The records of the host are settled.
LEMMA TlsaStep ==
  ASSUME HostsInv, NoTlsaWanted \/ LookupTlsa
  PROVE  HostsInv'
<1>0. pc = "tlsa" /\ hosts # <<>>
  BY DEF NoTlsaWanted, LookupTlsa, HostsInv, VisitInv, Chosen
<1>1. ASSUME NEW d, NEW events, UseTlsa(d, events),
             \A e \in events : e.kind = "tlsa_invalid",
             \A h \in DOMAIN tlsa_cache' : tlsa_cache'[h] # None,
             /\ is_smtp /\ try_dane
             /\ host \in DOMAIN tlsa_cache' /\ tlsa_cache'[host].has_end_entities
             => d = tlsa_cache'[host]
      PROVE  HostsInv'
  <2>1. /\ pc' = "ip" /\ dane' = d
        /\ UNCHANGED <<config, sts_cache, tls_report, policy, hosts, last_status, fetched>>
        /\ Report(events)
    BY <1>1 DEF UseTlsa
  <2>2. host' = host BY <2>1 DEF host
  <2>3. VisitInv' BY <1>0, <2>1 DEF HostsInv, VisitInv, config, Chosen
  <2>4. PolicyInv'
    BY <1>0, <2>1, <2>2 DEF HostsInv, PolicyInv, config, is_smtp, try_mta_sts, Chosen
  <2>5. DaneInv' BY <1>1, <2>1, <2>2 DEF DaneInv, config, is_smtp, try_dane
  <2>6. SessionInv' BY <2>1 DEF SessionInv
  <2>7. \A r \in reports' : r \in reports \/ r.kind = "tlsa_invalid" BY <1>1, <2>1 DEF Report
  <2>9. ReportsInv'
    BY <1>0, <2>1, <2>7 DEF HostsInv, ReportsInv, ReportsTrue, Passed, config, is_smtp, Chosen
  <2> QED BY <2>3, <2>4, <2>5, <2>6, <2>9 DEF HostsInv
<1>2. ASSUME NEW s \in {"temp_fail", "perm_fail"}, NEW kind \in {"tlsa_invalid", "dane_required"},
             NEW events \in {{}, {Event(kind)}},
             NextHost(s, events), sts_cache' = sts_cache,
             \A h \in DOMAIN tlsa_cache' : tlsa_cache'[h] # None
      PROVE  HostsInv'
  <2>1. s \in Statuses \ {"completed"} BY DEF Statuses
  <2>2. \A e \in events : e.kind # "success" /\ e.left = Len(hosts) BY DEF Event
  <2>3. pc \in ({"host"} \cup Chosen) \ {"transaction"} BY <1>0 DEF Chosen
  <2> QED BY <1>0, <1>2, <2>1, <2>2, <2>3, NextHostStep
<1>3. CASE NoTlsaWanted
  <2>1. \A h \in DOMAIN tlsa_cache' : tlsa_cache'[h] # None
    BY <1>3 DEF NoTlsaWanted, HostsInv, DaneInv
  <2> QED BY <1>1, <1>3, <2>1 DEF NoTlsaWanted
<1>4. ASSUME NEW tlsa, FoundTlsa(tlsa), host \in DOMAIN tlsa_cache', tlsa_cache'[host] = tlsa,
             \A h \in DOMAIN tlsa_cache' : tlsa_cache'[h] # None
      PROVE  HostsInv'
  <2> DEFINE invalid == {Event("tlsa_invalid")}
  <2>1. \A e \in invalid : e.kind = "tlsa_invalid" BY DEF Event
  <2>2. CASE tlsa.has_end_entities /\ UseTlsa(tlsa, {}) BY <1>1, <1>4, <2>2
  <2>3. CASE ~tlsa.has_end_entities /\ UseTlsa(None, invalid) BY <1>1, <1>4, <2>1, <2>3
  <2>4. CASE NextHost("perm_fail", invalid) /\ UNCHANGED sts_cache BY <1>2, <1>4, <2>4
  <2> QED BY <1>4, <2>2, <2>3, <2>4 DEF FoundTlsa
<1>5. ASSUME host \in DOMAIN tlsa_cache, FoundTlsa(tlsa_cache[host]), UNCHANGED tlsa_cache
      PROVE  HostsInv'
  BY <1>4, <1>5 DEF HostsInv, DaneInv
<1>6. ASSUME NEW records \in Records, FoundTlsa(TlsaOf(records)),
             tlsa_cache' = [h \in DOMAIN tlsa_cache \cup {host} |->
                              IF h = host THEN TlsaOf(records) ELSE tlsa_cache[h]]
      PROVE  HostsInv'
  <2>1. TlsaOf(records) # None BY HostDataAssumption
  <2>2. host \in DOMAIN tlsa_cache' /\ tlsa_cache'[host] = TlsaOf(records) BY <1>6
  <2>3. \A h \in DOMAIN tlsa_cache' : tlsa_cache'[h] # None
    BY <1>6, <2>1 DEF HostsInv, DaneInv
  <2> QED BY <1>4, <1>6, <2>2, <2>3
<1>7. ASSUME host \notin DOMAIN tlsa_cache, UNCHANGED tlsa_cache, NEW e \in TlsaErrors,
             \/ NextHost(e.status, e.events) /\ UNCHANGED sts_cache
             \/ UseTlsa(None, {})
      PROVE  HostsInv'
  <2>1. \A h \in DOMAIN tlsa_cache' : tlsa_cache'[h] # None BY <1>7 DEF HostsInv, DaneInv
  <2>2. /\ e.status \in {"temp_fail", "perm_fail"}
        /\ e.events \in {{}, {Event("dane_required")}}
    BY DEF TlsaErrors
  <2> QED BY <1>1, <1>2, <1>7, <2>1, <2>2
<1> QED BY <1>3, <1>5, <1>6, <1>7 DEF LookupTlsa

\* The host gets the message or is passed over.
LEMMA TransactionStep ==
  ASSUME HostsInv, NEW tls \in BOOLEAN, NEW chain, NEW events, Transaction(tls, chain, events),
         pc = "hello",
         \/ /\ tls = TRUE /\ chain \in Chains /\ (dane # None => DaneVerify(dane, chain) = {})
            /\ is_smtp => events = {Event("success")}
         \/ /\ tls = FALSE /\ ~MustEncrypt
            /\ events = {Event("no_starttls")}
  PROVE  HostsInv'
<1>1. /\ pc' = "transaction" /\ session' = [tls |-> tls, chain |-> chain]
      /\ UNCHANGED <<config, caches, tls_report, policy, hosts, dane, last_status, fetched>>
      /\ Report(events)
  BY DEF Transaction
<1>2. host' = host /\ is_smtp' = is_smtp /\ MustEncrypt' = MustEncrypt
  BY <1>1 DEF host, is_smtp, MustEncrypt, is_tls_required, is_dane_required,
     is_mta_sts_required, config
<1>3. VisitInv' BY <1>1 DEF HostsInv, VisitInv, config, Chosen
<1>4. PolicyInv'
  BY <1>1, <1>2 DEF HostsInv, PolicyInv, config, caches, try_mta_sts, Chosen
<1>5. DaneInv' BY <1>1, <1>2 DEF HostsInv, DaneInv, config, caches, try_dane
<1>6. session'.tls = tls /\ session'.chain = chain BY <1>1
<1>7. SessionInv' BY <1>1, <1>2, <1>6 DEF SessionInv
<1>8. /\ Len(hosts) \in Nat
      /\ \A r \in reports : r.kind # "success" /\ (r.kind = "no_starttls" => Len(hosts) < r.left)
      /\ tls_report => is_smtp
  BY DEF HostsInv, VisitInv, ReportsInv, Passed
<1>9. Event("no_starttls") \notin reports BY <1>8 DEF Event
<1>10. ReportsTrue'
  <2>0. \A kind : Event(kind)' = Event(kind) BY <1>1, <1>2 DEF Event
  <2> SUFFICES ASSUME tls_report
               PROVE  /\ {e \in reports' : e.kind = "success"} =
                           (IF tls THEN {Event("success")} ELSE {})
                      /\ Event("no_starttls") \in reports' <=> ~tls
    BY <1>1, <1>2, <1>6, <2>0 DEF ReportsTrue
  <2>1. is_smtp /\ reports' = reports \cup events BY <1>1, <1>8 DEF Report
  <2>2. Event("success").kind = "success" /\ Event("no_starttls").kind = "no_starttls"
    BY DEF Event
  <2>3. CASE tls = TRUE
    <3>1. events = {Event("success")} BY <2>1, <2>3
    <3> QED BY <1>8, <1>9, <2>1, <2>2, <2>3, <3>1
  <2>4. CASE tls = FALSE
    <3>1. events = {Event("no_starttls")} BY <2>4
    <3> QED BY <1>8, <2>1, <2>2, <2>4, <3>1
  <2> QED BY <2>3, <2>4
<1>11. ReportsInv' BY <1>1, <1>2, <1>8, <1>10 DEF ReportsInv
<1> QED BY <1>3, <1>4, <1>5, <1>7, <1>11 DEF HostsInv

\* The greeting, STARTTLS and their failures keep the invariant.
LEMMA HelloStep ==
  ASSUME HostsInv,
         \/ HelloFailed \/ TlsFailed \/ ImplicitTlsFailed \/ NoStartTls
         \/ \E chain \in Chains : StartTls(chain)
  PROVE  HostsInv'
<1>0. pc = "hello" /\ hosts # <<>>
  BY DEF HelloFailed, TlsFailed, ImplicitTlsFailed, NoStartTls, StartTls, HostsInv, VisitInv,
     Chosen
<1>1. ASSUME NEW s \in {"temp_fail", "perm_fail"},
             NEW kind \in {"cert_untrusted", "dane_failed", "no_starttls"},
             NEW events \in {{}, {Event(kind)}},
             NextHost(s, events), UNCHANGED caches
      PROVE  HostsInv'
  <2>1. s \in Statuses \ {"completed"} BY DEF Statuses
  <2>2. \A e \in events : e.kind # "success" /\ e.left = Len(hosts) BY DEF Event
  <2>3. pc \in ({"host"} \cup Chosen) \ {"transaction"} BY <1>0 DEF Chosen
  <2>4. /\ sts_cache' = sts_cache
        /\ \A h \in DOMAIN tlsa_cache' : tlsa_cache'[h] # None
    BY <1>1 DEF caches, HostsInv, DaneInv
  <2> QED BY <1>0, <1>1, <2>1, <2>2, <2>3, <2>4, NextHostStep
<1>2. \A x : /\ from_smtp_error(x) \in {"temp_fail", "perm_fail"}
             /\ from_tls_error(x) \in {"temp_fail", "perm_fail"}
             /\ from_starttls_error(x) \in {"temp_fail", "perm_fail"}
  BY DEF from_smtp_error, from_tls_error, from_starttls_error
<1>3. CASE HelloFailed \/ ImplicitTlsFailed
  BY <1>1, <1>2, <1>3 DEF HelloFailed, ImplicitTlsFailed
<1>4. CASE TlsFailed BY <1>1, <1>2, <1>4 DEF TlsFailed
<1>5. CASE NoStartTls
  BY <1>0, <1>1, <1>2, <1>5, TransactionStep DEF NoStartTls
<1>6. ASSUME NEW chain \in Chains, StartTls(chain) PROVE HostsInv'
  <2> DEFINE failed == IF dane = None THEN {} ELSE DaneVerify(dane, chain)
  <2>1. failed \subseteq {"temp_fail", "perm_fail"} BY DEF DaneVerify
  <2>2. ASSUME failed = {},
               Transaction(TRUE, chain, IF next_hop = "lmtps" THEN {}
                                        ELSE {Event("success")})
        PROVE  HostsInv'
    <3>1. dane # None => DaneVerify(dane, chain) = {} BY <2>2
    <3>2. is_smtp => next_hop # "lmtps" BY DEF is_smtp
    <3> QED BY <1>0, <2>2, <3>1, <3>2, TransactionStep
  <2>3. ASSUME NEW s \in failed, NextHost(s, {Event("dane_failed")}),
               UNCHANGED caches
        PROVE  HostsInv'
    BY <1>1, <2>1, <2>3
  <2> QED BY <1>6, <2>2, <2>3 DEF StartTls
<1> QED BY <1>3, <1>4, <1>5, <1>6

\* The lookup of addresses and the connection keep the invariant.
LEMMA AddressStep ==
  ASSUME HostsInv, HostThrottled \/ ConnectFailed \/ OutOfAddresses \/ Connected
  PROVE  HostsInv'
<1>0. pc = "ip" /\ hosts # <<>> /\ last_status \in Statuses \ {"completed"}
      /\ from_smtp_error("none") \in Statuses \ {"completed"}
  BY DEF HostThrottled, ConnectFailed, OutOfAddresses, Connected, HostsInv, VisitInv, Chosen,
     from_smtp_error, Statuses
<1>1. CASE HostThrottled BY <1>1, EndVisitStep DEF HostThrottled
<1>2. CASE ConnectFailed \/ Connected
  BY <1>0, <1>2, GoOnStep DEF ConnectFailed, Connected, Chosen, ghosts
<1>3. CASE OutOfAddresses
  <2>1. /\ sts_cache' = sts_cache
        /\ \A h \in DOMAIN tlsa_cache' : tlsa_cache'[h] # None
    BY <1>3 DEF OutOfAddresses, caches, HostsInv, DaneInv
  <2>2. pc \in ({"host"} \cup Chosen) \ {"transaction"} BY <1>0 DEF Chosen
  <2> QED BY <1>0, <1>3, <2>1, <2>2, NextHostStep DEF OutOfAddresses
<1> QED BY <1>1, <1>2, <1>3 DEF HostThrottled

\* Between visits no cached entry is in use.
LEMMA ExpireStep ==
  ASSUME HostsInv, ExpireSts \/ ExpireTlsa
  PROVE  HostsInv'
<1>1. /\ pc = "waiting"
      /\ UNCHANGED <<config, pc, tls_report, policy, hosts, last_status, session, ghosts>>
  BY DEF ExpireSts, ExpireTlsa
<1>2. \A h \in DOMAIN tlsa_cache' : tlsa_cache'[h] # None
  BY DEF ExpireSts, ExpireTlsa, HostsInv, DaneInv
<1>3. VisitInv' BY <1>1 DEF HostsInv, VisitInv, config
<1>4. PolicyInv' BY <1>1 DEF HostsInv, PolicyInv, config, ghosts, Chosen
<1>5. DaneInv' BY <1>1, <1>2 DEF DaneInv
<1>6. SessionInv' BY <1>1 DEF SessionInv
<1>7. ReportsInv' BY <1>1 DEF HostsInv, ReportsInv, ReportsTrue, config, ghosts, is_smtp
<1> QED BY <1>3, <1>4, <1>5, <1>6, <1>7 DEF HostsInv

\* Every step keeps the invariant.
LEMMA HostsStep ==
  ASSUME HostsInv, [Next]_vars
  PROVE  HostsInv'
<1>1. CASE UNCHANGED vars
  <2> USE <1>1 DEF vars, config, caches, ghosts
  <2>1. VisitInv' BY DEF HostsInv, VisitInv, Chosen
  <2>2. PolicyInv' BY DEF HostsInv, PolicyInv, Chosen, host, is_smtp, try_mta_sts
  <2>3. DaneInv' BY DEF HostsInv, DaneInv, host, is_smtp, try_dane
  <2>4. MustEncrypt' = MustEncrypt
    BY DEF MustEncrypt, is_tls_required, is_dane_required, is_mta_sts_required
  <2>5. SessionInv' BY <2>4 DEF HostsInv, SessionInv
  <2>6. ReportsInv' BY DEF HostsInv, ReportsInv, ReportsTrue, Passed, Event, host, is_smtp
  <2> QED BY <2>1, <2>2, <2>3, <2>5, <2>6 DEF HostsInv
<1>2. CASE Begin
  <2>1. last_status' \in Statuses \ {"completed"} BY <1>2 DEF Begin, HostsInv, VisitInv
  <2> QED BY <1>2, <2>1, GoOnStep DEF Begin, ghosts, Chosen
<1>3. CASE RcptThrottled BY <1>3, EndVisitStep DEF RcptThrottled
<1>4. CASE OutOfHosts BY <1>4, EndVisitStep DEF OutOfHosts
<1>5. CASE EndTransaction BY <1>5, EndVisitStep DEF EndTransaction
<1> QED
  BY <1>1, <1>2, <1>3, <1>4, <1>5, NextHopStep, PolicyStep, LookupMxStep, TryHostStep,
     TlsaStep, AddressStep, HelloStep, ExpireStep
  DEF Next, Visit

\* The invariant holds at the start.
LEMMA HostsInit == Init => HostsInv
<1> SUFFICES ASSUME Init PROVE HostsInv OBVIOUS
<1>1. hosts \in Seq(Hosts) /\ DOMAIN hosts = {} /\ DOMAIN tlsa_cache = {} BY DEF Init
<1> QED BY <1>1 DEF Init, HostsInv, VisitInv, PolicyInv, DaneInv, SessionInv,
           ReportsInv, ReportsTrue, Statuses, Chosen

\* The invariant holds always.
LEMMA HostsInvariant == Spec => []HostsInv
BY HostsInit, HostsStep, PTL DEF Spec

-----------------------------------------------------------------------------
(* What a visit promises                                                   *)

\* For every strategy: a message that has to be encrypted is handed over over
\* TLS only.
THEOREM RequiredIsEncrypted == Spec => []EncryptedWhenRequired
<1>1. HostsInv => EncryptedWhenRequired
  <2> SUFFICES ASSUME HostsInv, pc = "transaction", requiretls \/ "require" \in Range(strategy)
               PROVE  session.tls
    BY DEF EncryptedWhenRequired
  <2>1. "require" \in Range(strategy) =>
          strategy.mta_sts = "require" \/ strategy.dane = "require" \/ strategy.tls = "require"
    <3>1. strategy \in [mta_sts : Choice, dane : Choice, tls : Choice]
      BY OutboundHostsAssumption DEF HostsInv, VisitInv
    <3>2. DOMAIN strategy = {"mta_sts", "dane", "tls"} BY <3>1
    <3> QED BY <3>2 DEF Range
  <2>2. MustEncrypt
    BY <2>1 DEF MustEncrypt, is_tls_required, is_dane_required, is_mta_sts_required
  <2> QED BY <2>2 DEF HostsInv, SessionInv
<1> QED BY <1>1, HostsInvariant, PTL

\* For every policy, set of TLSA records, chain of certificates and answer of the
\* DNS: a cached policy and cached records bind.
THEOREM CachedPoliciesBind == Spec => []CachedPolicyHonoured
<1>1. ASSUME NEW tlsa, NEW chain \in Chains, DaneVerify(tlsa, chain) = {},
             tlsa.has_end_entities
      PROVE  [end_entity |-> TRUE, cert |-> Head(chain)] \in tlsa.entries
  <2>1. chain # <<>> /\ Matches(tlsa, chain, 1) BY <1>1 DEF DaneVerify
  <2>2. chain \in Seq(Range(chain)) BY HostDataAssumption
  <2>3. Head(chain) = chain[1] BY <2>1, <2>2
  <2>4. (1 = 1) = TRUE OBVIOUS
  <2> QED BY <2>1, <2>3, <2>4 DEF Matches
<1>2. HostsInv => CachedPolicyHonoured
  <2> SUFFICES ASSUME HostsInv, pc = "transaction", is_smtp PROVE CachedPolicyHonoured
    BY DEF CachedPolicyHonoured
  <2>1. pc \in Chosen BY DEF Chosen
  <2>2. ASSUME try_mta_sts, sts_cache # None, fetched
        PROVE  session.tls /\ (sts_cache.mode = "enforce" => host \in sts_cache.mx)
    <3>1. policy = sts_cache BY <2>2 DEF HostsInv, PolicyInv
    <3> QED BY <2>1, <2>2, <3>1 DEF HostsInv, PolicyInv, SessionInv, MustEncrypt, enforce
  <2>3. ASSUME try_dane, host \in DOMAIN tlsa_cache, tlsa_cache[host].has_end_entities
        PROVE  /\ session.tls
               /\ [end_entity |-> TRUE, cert |-> Head(session.chain)] \in tlsa_cache[host].entries
    <3>1. dane = tlsa_cache[host] /\ dane # None BY <2>3 DEF HostsInv, DaneInv
    <3>2. session.tls = TRUE /\ session.chain \in Chains /\ DaneVerify(dane, session.chain) = {}
      BY <3>1 DEF HostsInv, SessionInv, MustEncrypt
    <3> QED BY <1>1, <2>3, <3>1, <3>2
  <2> QED BY <2>2, <2>3 DEF CachedPolicyHonoured
<1> QED BY <1>2, HostsInvariant, PTL

\* For every list of MX hosts: the TLS reports of a visit name the host that got
\* the message, and say what happened with it.
THEOREM TlsReportsAreTrue == Spec => []ReportsTrue
<1>1. HostsInv => ReportsTrue BY DEF HostsInv, ReportsInv
<1> QED BY <1>1, HostsInvariant, PTL

\* For every configuration and every answer: a visit takes the steps of
\* DomainVisit.  (That it comes to an end is left to TLC.)
THEOREM VisitsAreDomainVisits ==
  Spec => AbstractVisit!Init /\ [][AbstractVisit!Next]_(AbstractVisit!vars)
<1>1. Init => AbstractVisit!Init BY DEF Init, AbstractVisit!Init, Phase
<1>2. HostsInv /\ [Next]_vars => [AbstractVisit!Next]_(AbstractVisit!vars)
  <2> SUFFICES ASSUME HostsInv, [Next]_vars
               PROVE  AbstractVisit!Next \/ UNCHANGED <<Phase, status>>
    BY DEF AbstractVisit!vars
  <2>0. last_status \in Statuses \ {"completed"} BY DEF HostsInv, VisitInv
  <2>1. CASE UNCHANGED <<pc, status>> BY <2>1 DEF Phase
  <2>2. CASE Begin
    BY <2>2 DEF Begin, Phase, AbstractVisit!Next, AbstractVisit!Begin
  <2>3. ASSUME NEW s \in Statuses \ {"completed"}, EndVisit(s),
               pc \notin {"waiting", "transaction"}
        PROVE  AbstractVisit!Next
    BY <2>3 DEF EndVisit, Phase, AbstractVisit!Next, AbstractVisit!NotStarted
  <2>4. CASE EndTransaction
    BY <2>4 DEF EndTransaction, EndVisit, Phase, AbstractVisit!Next, AbstractVisit!Finish
  <2>5. ASSUME NEW tls, NEW chain, NEW events, Transaction(tls, chain, events), pc = "hello"
        PROVE  AbstractVisit!Next
    BY <2>5 DEF Transaction, Phase, AbstractVisit!Next, AbstractVisit!Start
  <2>6. CASE /\ pc \notin {"waiting", "transaction"} /\ pc' \notin {"waiting", "transaction"}
             /\ UNCHANGED status
    BY <2>6 DEF Phase
  <2>7. CASE RcptThrottled \/ OutOfHosts \/ HostThrottled
    BY <2>0, <2>3, <2>7 DEF RcptThrottled, OutOfHosts, HostThrottled, Statuses
  <2>8. CASE LookupPolicy
    <3>1. ASSUME NEW s \in {"perm_fail", "temp_fail"}, NEW events, NEW found,
                 PolicyError(s, events, found), pc = "policy"
          PROVE  AbstractVisit!Next \/ UNCHANGED <<Phase, status>>
      BY <2>3, <2>6, <3>1 DEF PolicyError, Statuses
    <3>2. \A e \in TxtErrors : e.status \in {"perm_fail", "temp_fail"} BY DEF TxtErrors
    <3> QED BY <2>6, <2>8, <3>1, <3>2 DEF LookupPolicy, UsePolicy, FetchErrors
  <2>9. CASE LookupMx
    BY <2>3, <2>6, <2>9 DEF LookupMx, DnsErrors, Statuses
  <2>10. CASE NextHop \/ NoPolicyWanted \/ ConnectFailed \/ Connected
    BY <2>6, <2>10 DEF NextHop, NoPolicyWanted, ConnectFailed, Connected
  <2>11. CASE TryHost \/ NoTlsaWanted \/ LookupTlsa \/ OutOfAddresses \/ HelloFailed
              \/ TlsFailed \/ ImplicitTlsFailed
    BY <2>6, <2>11 DEF TryHost, NextHost, NoTlsaWanted, LookupTlsa, UseTlsa, FoundTlsa,
       OutOfAddresses, HelloFailed, TlsFailed, ImplicitTlsFailed
  <2>12. CASE NoStartTls BY <2>5, <2>6, <2>12 DEF NoStartTls, NextHost
  <2>13. ASSUME NEW chain \in Chains, StartTls(chain)
         PROVE  AbstractVisit!Next \/ UNCHANGED <<Phase, status>>
    BY <2>5, <2>6, <2>13 DEF StartTls, NextHost
  <2>14. CASE ExpireSts \/ ExpireTlsa BY <2>1, <2>14 DEF ExpireSts, ExpireTlsa
  <2>15. CASE UNCHANGED vars BY <2>1, <2>15 DEF vars
  <2> QED
    BY <2>2, <2>4, <2>7, <2>8, <2>9, <2>10, <2>11, <2>12, <2>13, <2>14, <2>15 DEF Next, Visit
<1> QED BY <1>1, <1>2, HostsInvariant, PTL DEF Spec
=============================================================================
