------------------------------ MODULE Delivery ------------------------------
(***************************************************************************)
(* The life of one queued message, recipient by recipient: the attempts of *)
(* outbound/delivery.rs, the SMTP and LMTP transactions of                 *)
(* outbound/session.rs, the notifications of queue/dsn.rs, the records     *)
(* save_changes appends to its file, cancellations, and crashes that leave *)
(* whatever prefix of the last append reached the disk.                    *)
(*                                                                         *)
(* Abstracted: when an attempt is due (an attempt may start whenever the   *)
(* message is in the queue), texts and responses, and the index order of   *)
(* the records of one append.                                              *)
(***************************************************************************)
EXTENDS Naturals, FiniteSets

CONSTANTS
  Rcpts, Domains,
  DomainOf,        \* Recipient::domain_idx
  NotifyOptions,   \* the NOTIFY parameters recipients may come with
  ReturnPaths,     \* "sender" or "null"
  Replies,         \* the replies a recipient may get: "ok", "4xx", "5xx"
  MaxCrashes,      \* bound on crashes
  MaxLost,         \* bound on connections lost after the message was accepted
  MaxErrors,       \* bound on DSN files that cannot be written
  MaxCancels,      \* bound on cancellations
  PartialWrites    \* whether a crash may cut an append short

ASSUME DeliveryAssumption ==
  /\ DomainOf \in [Rcpts -> Domains]
  /\ NotifyOptions \subseteq SUBSET {"success", "failure", "delay", "never"}
  /\ ReturnPaths \subseteq {"sender", "null"}
  /\ Replies \subseteq {"ok", "4xx", "5xx"}
  /\ MaxCrashes \in Nat /\ MaxLost \in Nat /\ MaxErrors \in Nat /\ MaxCancels \in Nat
  /\ PartialWrites \in BOOLEAN

VARIABLES
  domains,     \* Message::domains: status and changed
  recipients,  \* Message::recipients: status and flags
  notify,      \* the NOTIFY flags of each recipient
  return_path, \* "null" for a message that must not cause a DSN
  expired,     \* the domains whose deadline has passed
  pc,          \* where the message is: in the queue, in an attempt, gone
  todo,        \* the domains the attempt has still to visit
  file,        \* the records of the message's file, {} once it is removed
  delivered,   \* how often a remote host accepted the message for a recipient
  failed_dsn, success_dsn,  \* how often a DSN on disk says so
  cancelled,   \* recipients the management API cancelled
  crashes, lost, errors, cancels

memory == <<domains, recipients>>
ghosts == <<delivered, failed_dsn, success_dsn, cancelled>>
bounds == <<crashes, lost, errors, cancels>>
fixed  == <<notify, return_path>>
vars   == <<memory, fixed, expired, pc, todo, file, ghosts, bounds>>

Status == {"scheduled", "completed", "temp_fail", "perm_fail"}

Pending(status) == status \in {"scheduled", "temp_fail"}
HasPending == \E d \in Domains : Pending(domains[d].status)
RcptsOf(d) == {r \in Rcpts : DomainOf[r] = d}

-----------------------------------------------------------------------------

Init ==
  /\ domains = [d \in Domains |-> [status |-> "scheduled", changed |-> FALSE]]
  /\ recipients = [r \in Rcpts |-> [status |-> "scheduled", flags |-> {}]]
  /\ notify \in [Rcpts -> NotifyOptions]
  /\ return_path \in ReturnPaths
  /\ expired = {}
  /\ pc = "queued" /\ todo = {}
  /\ file = {[domains |-> [d \in Domains |-> "scheduled"],
              recipients |-> [r \in Rcpts |-> [status |-> "scheduled", flags |-> {}]]]}
  /\ delivered = [r \in Rcpts |-> 0]
  /\ failed_dsn = [r \in Rcpts |-> 0]
  /\ success_dsn = [r \in Rcpts |-> 0]
  /\ cancelled = {}
  /\ crashes = 0 /\ lost = 0 /\ errors = 0 /\ cancels = 0

-----------------------------------------------------------------------------
(* The records of the file                                                 *)

\* A recipient's record, as serialize_changes writes it and clears its flag.
Record(rcpt) == [rcpt EXCEPT !.flags = @ \ {"changed"}]

ChangedDomains(doms) == {d \in Domains : doms[d].changed}

\* Fault: recipients are not saved.
NoRcpts(rcpts) == {}

ChangedRcpts(rcpts) == {r \in Rcpts : "changed" \in rcpts[r].flags}

\* The file f with the records of the domains D and the recipients R appended.
Appended(f, doms, rcpts, D, R) ==
  [domains |-> [d \in Domains |-> IF d \in D THEN doms[d].status ELSE f.domains[d]],
   recipients |-> [r \in Rcpts |-> IF r \in R THEN Record(rcpts[r]) ELSE f.recipients[r]]]

save_changes(doms, rcpts) ==
  /\ file' = {Appended(f, doms, rcpts, ChangedDomains(doms), ChangedRcpts(rcpts)) : f \in file}
  /\ domains' = [d \in Domains |-> [doms[d] EXCEPT !.changed = FALSE]]
  /\ recipients' = [r \in Rcpts |-> Record(rcpts[r])]

remove ==
  /\ file' = {}
  /\ pc' = "gone"
  /\ UNCHANGED memory

-----------------------------------------------------------------------------
(* An attempt, before a task is spawned for it                             *)


\* has_pending_delivery: the domains whose deadline has passed fail, and with
\* them their recipients that have a temporary failure.
ExpiresNow(d) == d \in expired /\ Pending(domains[d].status)

into_permanent(status) == IF status = "temp_fail" THEN "perm_fail" ELSE status

TryDeliver ==
  /\ pc = "queued"
  /\ domains' = [d \in Domains |-> IF ExpiresNow(d)
                                   THEN [status |-> "perm_fail", changed |-> TRUE]
                                   ELSE domains[d]]
  /\ recipients' = [r \in Rcpts |-> IF ExpiresNow(DomainOf[r])
                                    THEN [recipients[r] EXCEPT !.status = into_permanent(@)]
                                    ELSE recipients[r]]
  /\ pc' = "first_dsn"
  /\ UNCHANGED <<fixed, expired, todo, file, ghosts, bounds>>

-----------------------------------------------------------------------------
(* Notifications                                                           *)

\* Fault: RCPT_DSN_SENT is not looked at.
NotNever == {r \in Rcpts : "never" \notin notify[r]}

\* The recipients build_dsn looks at.
Unreported == {r \in Rcpts : recipients[r].flags \cap {"dsn_sent"} = {}
                             /\ "never" \notin notify[r]}

Succeeded == {r \in Unreported : recipients[r].status = "completed"}

\* Fault: a recipient without a status of its own is passed over.
FailedItself == {r \in Unreported : recipients[r].status = "perm_fail"}

Failed ==
  {r \in Unreported :
     \/ recipients[r].status = "perm_fail"
     \/ /\ recipients[r].status = "scheduled"
        /\ domains[DomainOf[r]].status = "perm_fail"}

Flagged(R, flags) ==
  [r \in Rcpts |-> IF r \in R THEN [recipients[r] EXCEPT !.flags = @ \cup flags]
                   ELSE recipients[r]]

Count(counts, R) == [r \in Rcpts |-> IF r \in R THEN counts[r] + 1 ELSE counts[r]]

\* build_dsn flags what it reports before queue_message writes the DSN's file;
\* delay notifications change no flag.
build_dsn ==
  LET success == {r \in Succeeded : "success" \in notify[r]}
      failure == {r \in Failed : "failure" \in notify[r]}
  IN /\ recipients' = Flagged(Succeeded \cup Failed, {"dsn_sent", "changed"})
     /\ \/ /\ success_dsn' = Count(success_dsn, success)
           /\ failed_dsn' = Count(failed_dsn, failure)
           /\ UNCHANGED errors
        \/ /\ errors < MaxErrors /\ success \cup failure # {}
           /\ errors' = errors + 1
           /\ UNCHANGED <<success_dsn, failed_dsn>>

\* A message with a null return path is never answered.
handle_double_bounce ==
  /\ recipients' = Flagged(Failed, {"dsn_sent"})
  /\ UNCHANGED <<success_dsn, failed_dsn, errors>>

SendDsn(from, to) ==
  /\ pc = from
  /\ pc' = to
  /\ \/ return_path = "sender" /\ build_dsn
     \/ return_path = "null" /\ handle_double_bounce
  /\ UNCHANGED <<domains, fixed, expired, todo, file, delivered, cancelled, crashes, lost,
                 cancels>>

\* After the first DSN: the message is removed, saved and requeued (not due, or
\* throttled), or handed to a task.
Expired ==
  /\ pc = "decide" /\ ~HasPending
  /\ remove
  /\ UNCHANGED <<fixed, expired, todo, ghosts, bounds>>

Requeue ==
  /\ pc = "decide" /\ HasPending
  /\ save_changes(domains, recipients)
  /\ pc' = "queued"
  /\ UNCHANGED <<fixed, expired, todo, ghosts, bounds>>

Spawn ==
  /\ pc = "decide" /\ HasPending
  /\ pc' = "run"
  /\ todo' \in SUBSET {d \in Domains : Pending(domains[d].status)} \ {{}}
  /\ UNCHANGED <<memory, fixed, expired, file, ghosts, bounds>>

-----------------------------------------------------------------------------
(* The delivery task, one domain at a time                                 *)

\* Fault: recipients that are done are named again.
AllRcpts(d) == RcptsOf(d)

PendingRcpts(d) == {r \in RcptsOf(d) : Pending(recipients[r].status)}

\* Severity of a negative reply.
Negative(reply) == IF reply = "5xx" THEN "perm_fail" ELSE "temp_fail"

\* Fault: only failures are recorded.
AssignedFailures(final) ==
  [r \in Rcpts |-> IF r \in DOMAIN final /\ final[r] # "completed"
                   THEN [status |-> final[r], flags |-> recipients[r].flags \cup {"changed"}]
                   ELSE recipients[r]]

\* The recipients after the statuses in final are assigned.
Assigned(final) ==
  [r \in Rcpts |-> IF r \in DOMAIN final
                   THEN [status |-> final[r], flags |-> recipients[r].flags \cup {"changed"}]
                   ELSE recipients[r]]

\* The statuses the replies to RCPT TO give: none to the accepted recipients,
\* which wait for the end of the transaction.
Rejections(replies) ==
  [r \in {q \in DOMAIN replies : replies[q] # "ok"} |-> Negative(replies[r])]

Accepted(replies) == {r \in DOMAIN replies : replies[r] = "ok"}

\* Domain::set_status ends the visit of a domain.
Visited(d, status) ==
  /\ pc = "run" /\ d \in todo
  /\ todo' = todo \ {d}
  /\ domains' = [domains EXCEPT ![d] = [status |-> status, changed |-> TRUE]]
  /\ UNCHANGED <<fixed, expired, pc, file, failed_dsn, success_dsn, cancelled, crashes,
                 errors, cancels>>

\* No transaction: throttled, no host, DNS, connection or TLS failure, or a
\* negative reply before RCPT TO.
NotStarted(d) ==
  /\ \E status \in {"scheduled", "temp_fail", "perm_fail"} : Visited(d, status)
  /\ UNCHANGED <<recipients, delivered, lost>>

\* The connection breaks while recipients are being named.
Aborted(d) ==
  /\ \E named \in SUBSET PendingRcpts(d) \ {PendingRcpts(d)} :
     \E replies \in [named -> Replies] :
        recipients' = Assigned(Rejections(replies))
  /\ Visited(d, "temp_fail")
  /\ UNCHANGED <<delivered, lost>>

\* What send_message fails with: temporarily when the file cannot be read or the
\* time is up, otherwise as the reply to DATA or the error says.
SendErrors == {"temp_fail", "perm_fail"}

\* The remote host refuses the message, or breaks the connection before it has
\* accepted it, after at least one recipient was accepted.
DataRefused(d) ==
  /\ \E replies \in [PendingRcpts(d) -> Replies] :
        /\ Accepted(replies) # {}
        /\ recipients' = Assigned(Rejections(replies))
  /\ \E status \in SendErrors : Visited(d, status)
  /\ UNCHANGED <<delivered, lost>>

\* The remote host accepts the message and its reply is lost.
ReplyLost(d) ==
  /\ lost < MaxLost
  /\ lost' = lost + 1
  /\ \E replies \in [PendingRcpts(d) -> Replies] :
        /\ Accepted(replies) # {}
        /\ recipients' = Assigned(Rejections(replies))
        /\ delivered' = Count(delivered, Accepted(replies))
  /\ Visited(d, "temp_fail")

\* total_completed == total_rcpt
AllDone(final) == \A r \in DOMAIN final : final[r] \notin {"scheduled", "temp_fail"}

\* The status each recipient is given: the refusal of its RCPT TO or, of those
\* that were accepted, what the host answers to the message.  An LMTP host
\* answers for each of them, an SMTP host once for all.
Final(replies, ends) ==
  [r \in DOMAIN replies |->
     IF r \notin Accepted(replies) THEN Negative(replies[r])
     ELSE IF ends[r] = "ok" THEN "completed" ELSE Negative(ends[r])]

\* The transaction ends.  The domain is completed when its recipients are.
Transacted(d) ==
  \E replies \in [PendingRcpts(d) -> Replies] :
  \E ends \in [Accepted(replies) -> Replies] :
    LET final == Final(replies, ends)
    IN /\ recipients' = Assigned(final)
       /\ delivered' = Count(delivered, {r \in PendingRcpts(d) : final[r] = "completed"})
       /\ Visited(d, IF AllDone(final) THEN "completed" ELSE "scheduled")
       /\ UNCHANGED lost

EndDomains ==
  /\ pc = "run" /\ todo = {}
  /\ pc' = "second_dsn"
  /\ UNCHANGED <<memory, fixed, expired, todo, file, ghosts, bounds>>

\* The WorkerResult: the message goes back to the queue or is removed.
Finish ==
  /\ pc = "finish"
  /\ \/ HasPending /\ save_changes(domains, recipients) /\ pc' = "queued"
     \/ ~HasPending /\ remove
  /\ UNCHANGED <<fixed, expired, todo, ghosts, bounds>>

-----------------------------------------------------------------------------
(* Management, deadlines, crashes                                          *)

\* QueueRequest::Cancel with an item that matches the recipients R: they are
\* marked completed, and so are the pending domains this leaves without work.
CancelItem(R) ==
  /\ pc = "queued" /\ cancels < MaxCancels /\ R # {}
  /\ cancels' = cancels + 1
  /\ cancelled' = cancelled \cup R
  /\ LET rcpts == [r \in Rcpts |-> IF r \in R
                                   THEN [status |-> "completed",
                                         flags |-> recipients[r].flags \cup {"changed"}]
                                   ELSE recipients[r]]
         closed == {d \in Domains : /\ Pending(domains[d].status)
                                    /\ \A r \in RcptsOf(d) : ~Pending(rcpts[r].status)}
         doms == [d \in Domains |-> IF d \in closed
                                    THEN [status |-> "completed", changed |-> TRUE]
                                    ELSE domains[d]]
     IN IF \E d \in Domains : Pending(doms[d].status)
        THEN save_changes(doms, rcpts) /\ UNCHANGED pc
        ELSE remove
  /\ UNCHANGED <<fixed, expired, todo, delivered, failed_dsn, success_dsn, crashes, lost,
                 errors>>

\* QueueRequest::Cancel of the whole message.
Cancel ==
  /\ pc = "queued" /\ cancels < MaxCancels
  /\ cancels' = cancels + 1
  /\ cancelled' = Rcpts
  /\ remove
  /\ UNCHANGED <<fixed, expired, todo, delivered, failed_dsn, success_dsn, crashes, lost,
                 errors>>

Expire(d) ==
  /\ d \notin expired
  /\ expired' = expired \cup {d}
  /\ UNCHANGED <<memory, fixed, pc, todo, file, ghosts, bounds>>

\* from_path after the process was killed
Load(f) ==
  /\ pc # "gone" /\ crashes < MaxCrashes
  /\ crashes' = crashes + 1
  /\ file' = {f}
  /\ domains' = [d \in Domains |-> [status |-> f.domains[d], changed |-> FALSE]]
  /\ recipients' = f.recipients
  /\ pc' = "queued" /\ todo' = {}
  /\ UNCHANGED <<fixed, expired, ghosts, lost, errors, cancels>>

Crash == \E f \in file : Load(f)

\* A crash in the middle of save_changes: a prefix of its records is on disk,
\* those of domains before those of recipients.
CrashWhileSaving ==
  /\ PartialWrites /\ pc \in {"decide", "finish"} /\ HasPending
  /\ \E f \in file :
       \/ \E D \in SUBSET ChangedDomains(domains) :
             Load(Appended(f, domains, recipients, D, {}))
       \/ \E R \in SUBSET ChangedRcpts(recipients) :
             Load(Appended(f, domains, recipients, ChangedDomains(domains), R))

-----------------------------------------------------------------------------

\* The steps of an attempt that has begun.
InAttempt ==
  \/ SendDsn("first_dsn", "decide")
  \/ Expired \/ Requeue \/ Spawn
  \/ \E d \in Domains : \/ NotStarted(d) \/ Aborted(d) \/ DataRefused(d)
                        \/ ReplyLost(d) \/ Transacted(d)
  \/ EndDomains
  \/ SendDsn("second_dsn", "finish")
  \/ Finish

Next ==
  \/ TryDeliver \/ InAttempt
  \/ \E R \in SUBSET Rcpts : CancelItem(R)
  \/ Cancel
  \/ \E d \in Domains : Expire(d)
  \/ Crash \/ CrashWhileSaving
  \/ pc = "gone" /\ UNCHANGED vars

Spec == Init /\ [][Next]_vars

\* An attempt that has begun goes on and deadlines pass.  That another attempt
\* begins is not assumed: a message on hold may never be tried again.
FairSpec == Spec /\ WF_vars(InAttempt) /\ \A d \in Domains : WF_vars(Expire(d))

-----------------------------------------------------------------------------
(* Properties                                                              *)

\* A recipient has the message, is in a failure DSN, was cancelled, or did not ask
\* for failures.
Accounted(r) ==
  \/ delivered[r] > 0 \/ failed_dsn[r] > 0 \/ r \in cancelled
  \/ "failure" \notin notify[r] \/ "never" \in notify[r]

\* "All message recipients expired, do not re-queue. (DSN has been already
\* sent)" (delivery.rs): when the message is removed, every recipient is accounted
\* for.
NoSilentLoss ==
  pc = "gone" /\ return_path = "sender" => \A r \in Rcpts : Accounted(r)

\* What that comes to with temporary replies: if every DSN could be written, a
\* recipient is lost without a word only when its domain failed for good and its own
\* last status is a temporary failure, which build_dsn passes over (dsn.rs), or a
\* crash forgot that status and a cancellation of the rest removed the message
\* before the next report.
OnlyDeferredLost ==
  pc = "gone" /\ return_path = "sender" /\ errors = 0 =>
    \A r \in Rcpts :
      \/ Accounted(r)
      \/ /\ domains[DomainOf[r]].status = "perm_fail"
         /\ \/ recipients[r].status = "temp_fail"
            \/ recipients[r].status = "scheduled" /\ crashes > 0 /\ cancels > 0

\* The message is delivered again to a recipient only after a crash lost the
\* record of a delivery or a remote host's reply was lost.
DeliveredOnce == \A r \in Rcpts : delivered[r] <= 1 + crashes + lost

\* A failure, or a success, is reported again only after a crash between the
\* DSN and the record of it.
ReportedOnce ==
  \A r \in Rcpts : failed_dsn[r] <= 1 + crashes /\ success_dsn[r] <= 1 + crashes

\* "Your message has been successfully delivered to the following recipients"
\* (dsn.rs): a success DSN names only recipients a remote host accepted, or that a
\* cancellation marked as completed; and nobody is both given the message and
\* reported as failed, unless a crash or a lost reply hid the delivery.
DsnsAreTrue ==
  /\ \A r \in Rcpts : success_dsn[r] > 0 => delivered[r] > 0 \/ r \in cancelled
  /\ crashes + lost = 0 => \A r \in Rcpts : delivered[r] = 0 \/ failed_dsn[r] = 0

\* What the file says of a recipient in a queued message is what the queue has,
\* so that a crash while the message waits loses no outcome.  Expiry is the
\* exception: it does not mark the recipients it fails as changed.
QueuedIsSaved ==
  pc = "queued" => \A f \in file :
    /\ \A d \in Domains : f.domains[d] = domains[d].status
    /\ \A r \in Rcpts : Pending(domains[DomainOf[r]].status) =>
                          f.recipients[r] = recipients[r]

\* An outcome of a recipient is final as long as the process lives and nobody
\* cancels it.
OutcomeIsFinal ==
  [][crashes' = crashes /\ cancels' = cancels =>
       \A r \in Rcpts : ~Pending(recipients[r].status) =>
                          recipients'[r].status = recipients[r].status]_vars

=============================================================================
