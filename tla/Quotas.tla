------------------------------- MODULE Quotas -------------------------------
(***************************************************************************)
(* Queue quotas (queue/quota.rs): the counters that a message reserves,    *)
(* one quota at a time, before it is queued; their release recipient by    *)
(* recipient at the end of a delivery task, and only there, or all         *)
(* together when the message goes;                                         *)
(* the reservations repeated for the messages found after a restart; and   *)
(* the cleanup of counters that are zero.                                  *)
(*                                                                         *)
(* The messages are given with the domains and recipients they have, and   *)
(* all have one sender.  A key is what the code hashes: what the quota is  *)
(* kept per and its limits, so that quotas alike share a counter.          *)
(***************************************************************************)
EXTENDS Naturals, Sequences, FiniteSets

CONSTANTS
  Messages,
  DomainsOf, RcptsOf,  \* of a message: the names, in order
  RcptDomain,          \* of a recipient
  MessageSizes,
  QueueQuotaItems, \* the queue.quota settings, in order: name, keys, match (what
                   \* the conditions look at), messages and size (0: none)
  Matching,        \* pairs of a quota with conditions and a name they hold for
  MaxQuotaRestarts       \* bound on restarts

Whole == "message"

\* A setting the server starts with: keys and conditions that quotas may have,
\* and some limit.
parse_queue_quota_item(item) ==
  /\ item.keys \subseteq {"rcpt", "rcpt_domain", "sender", "sender_domain"}
  /\ item.match \subseteq {"rcpt", "rcpt_domain", "sender", "sender_domain", "priority"}
  /\ item.messages \in Nat /\ item.size \in Nat
  /\ item.messages > 0 \/ item.size > 0

ASSUME QuotaAssumption ==
  /\ \A i \in DOMAIN QueueQuotaItems : parse_queue_quota_item(QueueQuotaItems[i])
  /\ \A i \in DOMAIN QueueQuotaItems : QueueQuotaItems[i].match = {} =>
       \A pair \in Matching : pair[1] # QueueQuotaItems[i].name
  /\ MessageSizes \subseteq Nat \ {0}
  /\ MaxQuotaRestarts \in Nat

VARIABLES
  step,      \* where a message is: "none", "reserving" in a session, "queued",
             \* "loading" after a restart, or "dropped"
  size,      \* Message::size
  asked,     \* the reservations a message was granted so far, while it reserves
  refs,      \* Message::queue_refs, or those collected so far
  dropping,  \* UsedQuotas that are being dropped
  finished,  \* the domains and recipients delivered or failed for good
  quota,     \* QueueCore::quota: no limiter or one for each key
  leaked,    \* how many refusals left a key's message count one too high
  late,      \* what finished outside of a delivery task, since the last one
  restarts

quota_vars == <<step, size, asked, refs, dropping, finished, quota, leaked, late, restarts>>

-----------------------------------------------------------------------------
\* parse_queue_quota: a quota is asked for each recipient when its key or its
\* conditions need the recipient, for each domain when they need the domain.
Needs(item, what) == what \in item.keys \cup item.match

KindOf(item) ==
  CASE Needs(item, "rcpt") -> "rcpt"
    [] ~Needs(item, "rcpt") /\ Needs(item, "rcpt_domain") -> "domain"
    [] OTHER -> "sender"

\* A part is identified by its kind and position, as in the ids of UsedQuota.
Parts(kind, names) == {[kind |-> kind, pos |-> i, name |-> names[i]] : i \in DOMAIN names}

PartsOf(m) == Parts("domain", DomainsOf[m]) \cup Parts("rcpt", RcptsOf[m])

\* The reservations a message needs: a quota without conditions is never asked.
Reservations(m) ==
  {r \in [nr : DOMAIN QueueQuotaItems, part : Parts("sender", <<Whole>>) \cup PartsOf(m)] :
     LET item == QueueQuotaItems[r.nr]
     IN r.part.kind = KindOf(item) /\ <<item.name, r.part.name>> \in Matching}

\* has_quota asks the quotas of the sender, then those of the domains, then those
\* of the recipients, each quota for one part after the other.
Rank == [sender |-> 1, domain |-> 2, rcpt |-> 3]

Before(r, o) ==
  \/ Rank[r.part.kind] < Rank[o.part.kind]
  \/ r.part.kind = o.part.kind /\ (r.nr < o.nr \/ (r.nr = o.nr /\ r.part.pos < o.part.pos))

\* The domain of the envelope of a part.
rcpt_domain(part) == IF part.kind = "rcpt" THEN RcptDomain[part.name] ELSE part.name

\* A limit that is not set adds nothing, and neither limit says which it is.
quota_key(r) ==
  LET q == QueueQuotaItems[r.nr]
      If(cond, x) == IF cond THEN <<x>> ELSE <<>>
  IN [names |-> If("rcpt" \in q.keys, r.part.name)
                  \o If("rcpt_domain" \in q.keys, rcpt_domain(r.part))
                  \o If("sender" \in q.keys, "sender") \o If("sender_domain" \in q.keys, "sender"),
      limits |-> If(q.messages > 0, q.messages) \o If(q.size > 0, q.size)]

QuotaKeys == UNION {{quota_key(r) : r \in Reservations(m)} : m \in Messages}

NewQuotaLimiter(q) == [max_messages |-> q.messages, max_size |-> q.size, messages |-> 0, size |-> 0]

\* QuotaLimiter::is_allowed: the message is counted before its size is looked at.
CountAllowed(lim) == lim.max_messages = 0 \/ lim.messages < lim.max_messages

SizeAllowed(lim, n) == lim.max_size = 0 \/ lim.size + n < lim.max_size

Counted(lim) == [lim EXCEPT !.messages = IF lim.max_messages > 0 THEN @ + 1 ELSE @]

Sized(lim, n) == [lim EXCEPT !.size = IF lim.max_size > 0 THEN @ + n ELSE @]

-----------------------------------------------------------------------------
QuotaInit ==
  /\ step = [m \in Messages |-> "none"]
  /\ size \in [Messages -> MessageSizes]
  /\ asked = [m \in Messages |-> {}]
  /\ refs = [m \in Messages |-> {}] /\ dropping = [m \in Messages |-> {}]
  /\ finished = [m \in Messages |-> {}]
  /\ quota = [k \in QuotaKeys |-> {}]
  /\ leaked = [k \in QuotaKeys |-> 0]
  /\ late = [m \in Messages |-> {}] /\ restarts = 0

\* A session has received the message and calls has_quota.
Receive(m) ==
  /\ step[m] = "none" /\ dropping[m] = {}
  /\ step' = [step EXCEPT ![m] = "reserving"]
  /\ UNCHANGED <<size, asked, refs, dropping, finished, quota, leaked, late, restarts>>

\* read_queue reserves for one message after the other.
MayReserve(m) ==
  \/ step[m] = "reserving"
  \/ step[m] = "loading" /\ \A n \in Messages \ {m} : step[n] = "loading" => asked[n] = {}

\* Where a message goes when has_quota has failed or succeeded: a session sends
\* it back, read_queue takes no notice.
AfterQuota(m, granted) ==
  IF step[m] = "loading" \/ granted THEN "queued" ELSE "none"

\* reserve_quota for the next reservation.  A refusal drops the references that
\* were collected, but the message stays counted where its size was refused.
Reserve(m) ==
  /\ MayReserve(m)
  /\ \E r \in Reservations(m) \ asked[m] :
       /\ \A o \in Reservations(m) \ asked[m] : o = r \/ Before(r, o)
       /\ LET k == quota_key(r)
              lim == IF quota[k] = {} THEN NewQuotaLimiter(QueueQuotaItems[r.nr])
                     ELSE CHOOSE l \in quota[k] : TRUE
              granted == CountAllowed(lim) /\ SizeAllowed(Counted(lim), size[m])
              overcounted == CountAllowed(lim) /\ lim.max_messages > 0
          IN \/ /\ granted
                /\ asked' = [asked EXCEPT ![m] = @ \cup {r}]
                /\ refs' = [refs EXCEPT ![m] = @ \cup {r}]
                /\ quota' = [quota EXCEPT ![k] = {Sized(Counted(lim), size[m])}]
                /\ UNCHANGED <<step, dropping, leaked>>
             \/ /\ ~granted
                /\ asked' = [asked EXCEPT ![m] = {}]
                /\ step' = [step EXCEPT ![m] = AfterQuota(m, FALSE)]
                /\ dropping' = [dropping EXCEPT ![m] = refs[m]]
                /\ refs' = [refs EXCEPT ![m] = {}]
                /\ quota' = [quota EXCEPT ![k] = {IF overcounted THEN Counted(l) ELSE l : l \in @}]
                /\ leaked' = [leaked EXCEPT ![k] = IF overcounted /\ quota[k] # {} THEN @ + 1 ELSE @]
  /\ UNCHANGED <<size, finished, late, restarts>>

\* has_quota ends well: the message is queued.
Granted(m) ==
  /\ MayReserve(m) /\ asked[m] = Reservations(m)
  /\ asked' = [asked EXCEPT ![m] = {}]
  /\ step' = [step EXCEPT ![m] = AfterQuota(m, TRUE)]
  /\ UNCHANGED <<size, refs, dropping, finished, quota, leaked, late, restarts>>

\* The message's last owner drops it: it was delivered, failed for good or was
\* cancelled, or its file could not be written.
Discard(m) ==
  /\ step[m] = "queued" /\ dropping[m] = {}
  /\ step' = [step EXCEPT ![m] = "dropped"]
  /\ dropping' = [dropping EXCEPT ![m] = refs[m]]
  /\ refs' = [refs EXCEPT ![m] = {}]
  /\ UNCHANGED <<size, asked, finished, quota, leaked, late, restarts>>

\* Fault: only what this task has finished is looked at.
release_finished_now(m, done) == {ref \in refs[m] : ref.part \in done \ finished[m]}

\* The references that go with the parts that are done.
release_quota(m, done) == {ref \in refs[m] : ref.part \in done}

\* A message that goes back to the queue has a domain to be tried again.
Pending(m, done) == \E p \in PartsOf(m) \ done : p.kind = "domain"

\* The end of a delivery task that does not remove the message.
Attempted(m, done) ==
  /\ step[m] = "queued" /\ dropping[m] = {}
  /\ finished[m] \subseteq done /\ Pending(m, done)
  /\ finished' = [finished EXCEPT ![m] = done]
  /\ dropping' = [dropping EXCEPT ![m] = release_quota(m, done)]
  /\ refs' = [refs EXCEPT ![m] = @ \ release_quota(m, done)]
  /\ late' = [late EXCEPT ![m] = {}]
  /\ UNCHANGED <<step, size, asked, quota, leaked, restarts>>

\* More is finished and the message is saved and stays in the queue: nothing is
\* released.
FinishLate(m, done) ==
  /\ step[m] = "queued" /\ dropping[m] = {} /\ Pending(m, done)
  /\ finished' = [finished EXCEPT ![m] = done]
  /\ late' = [late EXCEPT ![m] = @ \cup (done \ finished[m])]
  /\ UNCHANGED <<step, size, asked, refs, dropping, quota, leaked, restarts>>

\* Domains expire, with those of their recipients that failed before, and the
\* message is scheduled again or put on hold before a task is started.
Requeued(m, expired) ==
  /\ expired # {} /\ expired \cap finished[m] = {}
  /\ \A p \in expired : p.kind = "rcpt" =>
       \E d \in expired : d.kind = "domain" /\ d.name = RcptDomain[p.name]
  /\ FinishLate(m, finished[m] \cup expired)

\* Some recipients are cancelled, and with them the domains that have no other.
CancelItem(m, rcpts) ==
  /\ rcpts # {} /\ rcpts \subseteq Parts("rcpt", RcptsOf[m])
  /\ LET done == finished[m] \cup rcpts
     IN FinishLate(m, done \cup {d \in Parts("domain", DomainsOf[m]) :
          \A p \in Parts("rcpt", RcptsOf[m]) : RcptDomain[p.name] = d.name => p \in done})

\* UsedQuota::drop
Drop(m, ref) ==
  /\ ref \in dropping[m]
  /\ dropping' = [dropping EXCEPT ![m] = @ \ {ref}]
  /\ quota' = [quota EXCEPT ![quota_key(ref)] =
       {[l EXCEPT !.messages = IF l.max_messages > 0 THEN @ - 1 ELSE @,
                  !.size = IF l.max_size > 0 THEN @ - size[m] ELSE @] : l \in @}]
  /\ UNCHANGED <<step, size, asked, refs, finished, leaked, late, restarts>>

\* Fault: the size is not looked at.
UnusedCount(l) == l.messages = 0

Unused(l) == l.messages = 0 /\ l.size = 0

\* Core::cleanup, one entry.
CleanupQuota(k) ==
  /\ \E l \in quota[k] : Unused(l)
  /\ quota' = [quota EXCEPT ![k] = {}]
  /\ UNCHANGED <<step, size, asked, refs, dropping, finished, leaked, late, restarts>>

\* The process stops.  Queued messages are on disk and are loaded by the next
\* one, with what is finished; a message that is being received is not.
QuotaRestart ==
  /\ restarts < MaxQuotaRestarts
  /\ restarts' = restarts + 1
  /\ step' = [m \in Messages |-> CASE step[m] \in {"queued", "loading"} -> "loading"
                                   [] step[m] = "reserving" -> "none"
                                   [] OTHER -> step[m]]
  /\ asked' = [m \in Messages |-> {}]
  /\ refs' = [m \in Messages |-> {}] /\ dropping' = [m \in Messages |-> {}]
  /\ quota' = [k \in QuotaKeys |-> {}]
  /\ leaked' = [k \in QuotaKeys |-> 0]
  /\ late' = finished
  /\ UNCHANGED <<size, finished>>

QuotaNext ==
  \/ \E m \in Messages :
       \/ Receive(m) \/ Reserve(m) \/ Granted(m) \/ Discard(m)
       \/ \E parts \in SUBSET PartsOf(m) :
            Attempted(m, parts) \/ Requeued(m, parts) \/ CancelItem(m, parts)
       \/ \E ref \in dropping[m] : Drop(m, ref)
  \/ \E k \in QuotaKeys : CleanupQuota(k)
  \/ QuotaRestart

QuotaSpec == QuotaInit /\ [][QuotaNext]_quota_vars

-----------------------------------------------------------------------------
(* Properties                                                              *)

\* The messages that count against a key, with the reservation they count by, and
\* their bytes.
Users(k) ==
  {u \in Messages \X UNION {refs[m] \cup dropping[m] : m \in Messages} :
     u[2] \in refs[u[1]] \cup dropping[u[1]] /\ quota_key(u[2]) = k}

Bytes(k) == UNION {{u} \X (1..size[u[1]]) : u \in Users(k)}

\* What is counted against a quota is what the messages in the queue hold of it,
\* however they were refused half way, delivered in part, dropped or loaded again
\* (quota.rs), and never more than the limits.  The message count alone is too
\* high by one for every message whose size was refused.
QuotaExact ==
  \A k \in QuotaKeys :
    /\ quota[k] = {} => Users(k) = {}
    /\ \A l \in quota[k] :
         /\ l.messages = IF l.max_messages > 0 THEN Cardinality(Users(k)) + leaked[k] ELSE 0
         /\ l.size = IF l.max_size > 0 THEN Cardinality(Bytes(k)) ELSE 0
         /\ l.messages <= l.max_messages
         /\ l.max_size > 0 => l.size < l.max_size

\* "Release quota for completed deliveries" (delivery.rs): a queued message holds
\* something for a domain or a recipient that is finished only while no delivery
\* task has ended since it expired or was cancelled, or since the message was
\* loaded after a restart.  The next task that ends releases that as well.
QuotaReleased ==
  \A m \in Messages : step[m] = "queued" =>
    \A ref \in refs[m] : ref.part \in finished[m] => ref.part \in late[m]
=============================================================================
