---------------------------- MODULE QueueMessage ----------------------------
(***************************************************************************)
(* The scheduling state of a queued message: one record per recipient      *)
(* domain (queue::Domain) and the pure functions the queue manager and the *)
(* delivery attempts compute on it.  Instants are natural numbers; an      *)
(* Option<Instant> is a set of at most one number.                         *)
(***************************************************************************)
EXTENDS Naturals

CONSTANT Domains        \* the recipient domains of a message

ASSUME DomainsAssumption == Domains # {}

\* queue::Status without the response or the error it carries.
Status == {"scheduled", "completed", "temp_fail", "perm_fail"}

\* queue::Domain: the due times of the next attempt and of the next delay
\* notification, the deadline, the status, and the dirty bit of save_changes.
Domain == [status : Status, retry : Nat, notify : Nat, expires : Nat,
           changed : BOOLEAN]

\* Status::Scheduled | Status::TemporaryFailure(_)
IsPending(dom) == dom.status \in {"scheduled", "temp_fail"}

PendingDomains(doms) == {d \in Domains : IsPending(doms[d])}

HasPending(doms) == \E d \in Domains : IsPending(doms[d])

-----------------------------------------------------------------------------
(* Next due times                                                          *)

\* The least element of T as an Option: {} when T is empty.
Earliest(T) == {t \in T : \A u \in T : t <= u}

EventTimes(doms) ==
  UNION {{doms[d].retry, doms[d].notify, doms[d].expires} :
            d \in PendingDomains(doms)}

next_event(doms) == Earliest(EventTimes(doms))

\* With no pending domain the code answers Instant::now().
next_delivery_event(doms, now) ==
  IF HasPending(doms)
  THEN Earliest({doms[d].retry : d \in PendingDomains(doms)})
  ELSE {now}

next_event_after(doms, instant) ==
  Earliest({t \in EventTimes(doms) : t > instant})

-----------------------------------------------------------------------------
(* Updates                                                                 *)

\* The expiry pass of has_pending_delivery: its result is HasPending of the
\* domains it leaves behind.
ExpireDomains(doms, now) ==
  [d \in Domains |->
     IF IsPending(doms[d]) /\ doms[d].expires <= now
     THEN [doms[d] EXCEPT !.status = "perm_fail", !.changed = TRUE]
     ELSE doms[d]]

\* set_status, where due is the instant retry() computes from the schedule.
set_status(dom, status, due) ==
  [dom EXCEPT !.status = status, !.changed = TRUE,
              !.retry = IF status \in {"scheduled", "temp_fail"} THEN due ELSE @]

\* set_throttle_error, a concurrency limiter being full
ConcurrencyLimited(dom) == [dom EXCEPT !.status = "temp_fail", !.changed = TRUE]

\* set_throttle_error, a rate limiter that allows the next request at retry_at
RateLimited(dom, retry_at) ==
  [dom EXCEPT !.status = "temp_fail", !.retry = retry_at, !.changed = TRUE]

\* QueueRequest::Retry on the domains that match its item: the new due time
\* and, if the deadline is later than it, a deadline grace seconds after it.
RetryDomains(doms, match, time, grace) ==
  [d \in Domains |->
     IF d \in match /\ IsPending(doms[d])
     THEN [doms[d] EXCEPT !.retry = time, !.changed = TRUE,
                          !.expires = IF @ > time THEN time + grace ELSE @]
     ELSE doms[d]]

-----------------------------------------------------------------------------
(* The metadata records of the spool file                                  *)

\* Fault: the record lacks the retry time.
SavedStatuses(file, doms) ==
  [d \in Domains |->
     IF doms[d].changed
     THEN [doms[d] EXCEPT !.expires = file[d].expires, !.retry = file[d].retry,
                          !.changed = FALSE]
     ELSE file[d]]

\* serialize_changes: a 'D' record for each changed domain.  The deadline is
\* in the file's header, which is never rewritten.
SavedDomains(file, doms) ==
  [d \in Domains |->
     IF doms[d].changed
     THEN [doms[d] EXCEPT !.expires = file[d].expires, !.changed = FALSE]
     ELSE file[d]]

Unchanged(doms) == [d \in Domains |-> [doms[d] EXCEPT !.changed = FALSE]]

NotBefore(t, now) == IF t > now THEN t ELSE now

\* deserialize: an instant that has passed is read as the current one.
LoadedDomains(file, now) ==
  [d \in Domains |-> [file[d] EXCEPT !.retry = NotBefore(@, now),
                                     !.notify = NotBefore(@, now),
                                     !.expires = NotBefore(@, now)]]
=============================================================================
