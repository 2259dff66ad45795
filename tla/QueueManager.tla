---------------------------- MODULE QueueManager ----------------------------
(***************************************************************************)
(* The outbound queue: the manager task that owns the queue                *)
(* (queue/manager.rs), the delivery tasks it spawns (outbound/delivery.rs),*)
(* the bounded channel between them, the concurrency limiters they share,  *)
(* the spool files, the SMTP sessions and management requests that feed    *)
(* the channel, and a restart that rebuilds the queue from the spool.      *)
(*                                                                         *)
(* Abstracted: message contents, recipients (whether a status change makes *)
(* a DSN due is a choice), the position of a retry in its schedule (any    *)
(* interval may follow), and the order of on_hold entries of different     *)
(* messages (any entry that may resume is taken).                          *)
(***************************************************************************)
EXTENDS QueueMessage, Integers, FiniteSets, Sequences, SequencesExt

CONSTANTS
  Mails,           \* ids of the messages received from SMTP sessions
  Dsns,            \* ids of the DSNs generated for them (null return path)
  ChannelCapacity, \* mpsc::channel(1024)
  SenderLimit,     \* max_concurrent of the sender throttle; 0: no throttle
  RcptLimit,       \* max_concurrent of the recipient throttle; 0: no throttle
  RateWaits,       \* waits a rate limiter may impose; {}: no rate limit
  ReleaseDelays,   \* FUTURERELEASE delays; 0 is an immediate delivery
  RetryIntervals,  \* intervals of the retry schedule
  NotifyIntervals, \* intervals of the delay notification schedule
  ExpireAfter,     \* the expire setting
  DeliverBy,       \* DELIVERBY times, in magnitude; {}: none
  Grace,           \* the 10 seconds added to deadlines
  MaxTime,         \* bound on the clock
  Requests,        \* the management requests, and "stop", that may come
  MaxRequests,     \* bound on their number
  MaxRestarts,     \* bound on restarts
  None             \* Option::None, for ids and events

Ids == Mails \cup Dsns

ASSUME QueueAssumption ==
  /\ Mails \cap Dsns = {}
  /\ None \notin Ids
  /\ ChannelCapacity \in Nat \ {0}
  /\ SenderLimit \in Nat /\ RcptLimit \in Nat
  /\ RateWaits \subseteq Nat /\ ReleaseDelays \subseteq Nat
  /\ RetryIntervals \subseteq Nat /\ NotifyIntervals \subseteq Nat
  /\ ExpireAfter \in Nat /\ Grace \in Nat /\ DeliverBy \subseteq Nat \ {0}
  /\ Requests \subseteq {"cancel", "cancel_item", "retry_now", "stop"}
  /\ MaxTime \in Nat /\ MaxRequests \in Nat /\ MaxRestarts \in Nat

VARIABLES
  now,        \* the clock
  doms,       \* the domains of each message, wherever the message is
  messages,   \* Queue::messages: the ids of the messages the queue holds
  scheduled,  \* Queue::scheduled: per message, the due times of its entries
  on_hold,    \* Queue::on_hold: per message, its entries
  channel,    \* the queue channel
  mpc,        \* where the manager's loop is
  cur,        \* the event the manager received, or None
  hand,       \* the message of the manager's DeliveryAttempt, or None
  wpc,        \* where the delivery task of a message is
  todo,       \* its domains not visited yet
  conn,       \* the domain it is connecting for, holding a recipient slot
  wlims,      \* its on_hold vector: the limiters that were full
  report,     \* the event it is about to send (a set of at most one)
  outbox,     \* a DSN of the attempt, on disk and not in the channel yet
  inflight,   \* ConcurrencyLimiter::concurrent of the sender throttle
  rcptflight, \* the same of the recipient throttle
  exiting,    \* tasks that sent Event::Done and still own their InFlight
  spool,      \* the metadata in a message's file; {} if there is no file
  seen,       \* the ids given to a message so far
  sending,    \* messages on disk whose session awaits tx.send
  requests, restarts

manager == <<messages, scheduled, on_hold, cur, hand>>
workers == <<wpc, todo, conn, wlims, report>>
limits  == <<inflight, rcptflight, exiting>>
bounds  == <<requests, restarts>>
vars == <<now, doms, manager, channel, mpc, workers, outbox, limits, spool,
          seen, sending, bounds>>

Limiter == {"sender", "rcpt"}
Hold == [next_due : SUBSET Nat, limiters : SUBSET Limiter]
MessageEvents == {"queue", "retry", "hold"}
Event == [type : MessageEvents \cup {"done", "cancel", "cancel_item", "retry_now"},
          id : Ids, due : SUBSET Nat, limiters : SUBSET Limiter,
          match : SUBSET Domains]
         \cup [type : {"stop"}]

\* A rate limiter never imposes a wait longer than its period.
ASSUME WaitsAssumption == \E w \in RateWaits \cup {0} : \A v \in RateWaits : v <= w

\* Option::None is not an event.
ASSUME NoneAssumption == None \notin Event

QueueEvent(m, due) ==
  [type |-> "queue", id |-> m, due |-> due, limiters |-> {}, match |-> {}]

-----------------------------------------------------------------------------
(* Initial state: read_queue found an empty spool                          *)

NoDomains == [d \in Domains |-> [status |-> "completed", retry |-> 0, notify |-> 0,
                                 expires |-> 0, changed |-> FALSE]]

Init ==
  /\ now = 0
  /\ doms = [m \in Ids |-> NoDomains]
  /\ messages = {}
  /\ scheduled = [m \in Ids |-> <<>>]
  /\ on_hold = [m \in Ids |-> <<>>]
  /\ channel = <<>>
  /\ mpc = "recv" /\ cur = None /\ hand = None
  /\ wpc = [m \in Ids |-> "none"]
  /\ todo = [m \in Ids |-> {}]
  /\ conn = [m \in Ids |-> {}]
  /\ wlims = [m \in Ids |-> {}]
  /\ report = [m \in Ids |-> {}]
  /\ outbox = [m \in Ids |-> {}]
  /\ inflight = 0 /\ rcptflight = 0 /\ exiting = 0
  /\ spool = [m \in Ids |-> {}]
  /\ seen = {} /\ sending = {}
  /\ requests = 0 /\ restarts = 0

-----------------------------------------------------------------------------
(* The channel and the spool                                               *)

\* Fault: a send that does not wait for a free slot.
SendUnbounded(event) == channel' = Append(channel, event)

\* tx.send(event).await: waits for a free slot, fails once the receiver is gone.
Send(event) ==
  \/ mpc # "stopped" /\ Len(channel) < ChannelCapacity /\ channel' = Append(channel, event)
  \/ mpc = "stopped" /\ UNCHANGED channel

\* save_changes appends the changed domains and clears the dirty bits.
SaveChanges(m, ds) ==
  /\ spool' = [spool EXCEPT ![m] = {SavedDomains(file, ds) : file \in @}]
  /\ doms' = [doms EXCEPT ![m] = Unchanged(ds)]

\* remove: the file is deleted, and the caller drops the message.
RemoveMessage(m) ==
  /\ spool' = [spool EXCEPT ![m] = {}]
  /\ doms' = [doms EXCEPT ![m] = NoDomains]

\* A new message for the domains D.
NewDomains(D, retry, notify, expires) ==
  [d \in Domains |-> IF d \in D
                     THEN [status |-> "scheduled", retry |-> retry, notify |-> notify,
                           expires |-> expires, changed |-> FALSE]
                     ELSE NoDomains[d]]

-----------------------------------------------------------------------------
(* Delivery status notifications (send_dsn), by whoever owns the attempt   *)

\* handle_double_bounce on a message with a null return path
DoubleBounce(ds) ==
  [d \in Domains |-> IF ds[d].notify <= now
                     THEN [ds[d] EXCEPT !.notify = ds[d].expires + Grace] ELSE ds[d]]

DelayDue(ds) == {d \in PendingDomains(ds) : ds[d].notify <= now}

\* A delay report moves the notification time of every domain it is due for.
Notified(ds, next) ==
  [d \in Domains |->
     IF d \in DelayDue(ds)
     THEN [ds[d] EXCEPT !.notify = IF next = {} THEN ds[d].expires + Grace
                                   ELSE now + CHOOSE n \in next : TRUE,
                        !.changed = TRUE]
     ELSE ds[d]]

NextNotify == {{}} \cup {{n} : n \in NotifyIntervals}

\* add_recipient_parts and queue_message for the DSN, which has one recipient:
\* its file is on disk, its event is still to be sent.
WriteDsn(m, n, ds) ==
  /\ n \notin seen
  /\ seen' = seen \cup {n}
  /\ outbox' = [outbox EXCEPT ![m] = {n}]
  /\ \E d \in Domains :
       LET new == NewDomains({d}, now, now + ExpireAfter + Grace, now + ExpireAfter)
       IN /\ doms' = [doms EXCEPT ![m] = ds, ![n] = new]
          /\ spool' = [spool EXCEPT ![n] = {new}]

\* A DSN whose file cannot be written is given up, like one that is not due.
NoDsn(m, ds) ==
  /\ doms' = [doms EXCEPT ![m] = ds]
  /\ UNCHANGED <<outbox, spool, seen>>

send_dsn(m, ds) ==
  \/ m \in Dsns /\ NoDsn(m, DoubleBounce(ds))
  \/ /\ m \in Mails
     /\ \E next \in {ds} \cup {Notified(ds, n) : n \in NextNotify} :
           NoDsn(m, next) \/ \E n \in Dsns : WriteDsn(m, n, next)

\* The end of queue_message: Event::Queue for the DSN.
SendDsn(m) ==
  /\ \E n \in outbox[m] : Send(QueueEvent(n, next_event(doms[n])))
  /\ outbox' = [outbox EXCEPT ![m] = {}]
  /\ UNCHANGED <<now, doms, manager, mpc, workers, limits, spool, seen, sending, bounds>>

-----------------------------------------------------------------------------
(* The queue's data structures                                             *)

Push(m, due) == scheduled' = [scheduled EXCEPT ![m] = Append(@, due)]

\* if let Some(due): an entry only if there is a due time.
PushSome(m, dues) ==
  scheduled' = [scheduled EXCEPT
    ![m] = IF dues = {} THEN @ ELSE Append(@, CHOOSE due \in dues : TRUE)]

\* Fault: the message goes to the map without a heap entry.
ScheduleNoEntry(m, dues) ==
  /\ dues # {}
  /\ messages' = messages \cup {m}
  /\ UNCHANGED <<scheduled, on_hold>>

\* Queue::schedule and Queue::on_hold; dues is a set of one instant.
Schedule(m, dues) ==
  /\ \E due \in dues : Push(m, due)
  /\ messages' = messages \cup {m}
  /\ UNCHANGED on_hold

PutOnHold(m, hold) ==
  /\ on_hold' = [on_hold EXCEPT ![m] = Append(@, hold)]
  /\ messages' = messages \cup {m}
  /\ UNCHANGED scheduled

IsDue(m, i) == i \in DOMAIN scheduled[m] /\ scheduled[m][i] <= now

\* BinaryHeap::peek: an entry with the earliest due time.
IsTop(m, i) ==
  \A n \in Ids : \A j \in DOMAIN scheduled[n] : scheduled[m][i] <= scheduled[n][j]

SomeDue == \E m \in Ids : \E i \in DOMAIN scheduled[m] : scheduled[m][i] <= now

Free(limiter) ==
  IF limiter = "sender" THEN inflight < SenderLimit ELSE rcptflight < RcptLimit

\* The predicate next_on_hold looks for.
MayResume(m, i) ==
  /\ i \in DOMAIN on_hold[m]
  /\ \/ \E l \in on_hold[m][i].limiters : Free(l)
     \/ \E t \in on_hold[m][i].next_due : t <= now

SomeMayResume == \E m \in Ids : \E i \in DOMAIN on_hold[m] : MayResume(m, i)

-----------------------------------------------------------------------------
(* The manager's loop                                                      *)

\* After the due messages: nothing, the held messages, or the event itself.
AfterDue ==
  IF cur = None THEN "recv"
  ELSE IF cur.type \in {"queue", "done", "retry", "hold"} THEN "hold" ELSE "event"

Recv ==
  /\ mpc = "recv" /\ hand = None /\ channel # <<>>
  /\ cur' = Head(channel)
  /\ channel' = Tail(channel)
  /\ mpc' = "due"
  /\ UNCHANGED <<now, doms, messages, scheduled, on_hold, hand, workers, outbox,
                 limits, spool, seen, sending, bounds>>

\* The timeout of wake_up_time, which looks at the heap only.
WakeUp ==
  /\ mpc = "recv" /\ hand = None /\ channel = <<>> /\ SomeDue
  /\ cur' = None
  /\ mpc' = "due"
  /\ UNCHANGED <<now, doms, messages, scheduled, on_hold, hand, channel, workers,
                 outbox, limits, spool, seen, sending, bounds>>

\* The start of try_deliver: the expiry pass and send_dsn.
TryDeliver(m) ==
  /\ hand' = m
  /\ send_dsn(m, ExpireDomains(doms[m], now))

\* The message an entry refers to, if it is still in the queue; the drain loop
\* ends at the first entry whose message is not.
TakeOrStop(m, stop) ==
  \/ /\ m \in messages
     /\ messages' = messages \ {m}
     /\ TryDeliver(m)
     /\ UNCHANGED mpc
  \/ /\ m \notin messages
     /\ mpc' = stop
     /\ UNCHANGED <<doms, messages, hand, outbox, spool, seen>>

NextDue(m) ==
  /\ mpc = "due" /\ hand = None
  /\ \E i \in DOMAIN scheduled[m] :
        /\ IsDue(m, i) /\ IsTop(m, i)
        /\ scheduled' = [scheduled EXCEPT ![m] = RemoveAt(@, i)]
  /\ TakeOrStop(m, AfterDue)
  /\ UNCHANGED <<now, on_hold, channel, cur, workers, limits, sending, bounds>>

NoneDue ==
  /\ mpc = "due" /\ hand = None /\ ~SomeDue
  /\ mpc' = AfterDue
  /\ UNCHANGED <<now, doms, manager, channel, workers, outbox, limits, spool,
                 seen, sending, bounds>>

NextOnHold(m) ==
  /\ mpc = "hold" /\ hand = None
  /\ \E i \in DOMAIN on_hold[m] :
        /\ MayResume(m, i)
        /\ on_hold' = [on_hold EXCEPT ![m] = RemoveAt(@, i)]
  /\ TakeOrStop(m, "event")
  /\ UNCHANGED <<now, scheduled, channel, cur, workers, limits, sending, bounds>>

NoneOnHold ==
  /\ mpc = "hold" /\ hand = None /\ ~SomeMayResume
  /\ mpc' = "event"
  /\ UNCHANGED <<now, doms, manager, channel, workers, outbox, limits, spool,
                 seen, sending, bounds>>

-----------------------------------------------------------------------------
(* The rest of try_deliver, once the DSN is in the channel                 *)

\* Fault: one task too many.
SenderOverFull == SenderLimit > 0 /\ inflight > SenderLimit

SenderFull == SenderLimit > 0 /\ inflight = SenderLimit

\* One task more that owns an InFlight of the sender throttle, if there is one.
AcquireSender == inflight' = IF SenderLimit > 0 THEN inflight + 1 ELSE inflight

Decided(m) == hand = m /\ outbox[m] = {} /\ hand' = None

\* Fault: one failed domain ends the message.
ExpiredEarly(m) ==
  /\ Decided(m) /\ \E d \in Domains : doms[m][d].status = "perm_fail"
  /\ RemoveMessage(m)
  /\ UNCHANGED <<now, messages, scheduled, on_hold, channel, mpc, cur, workers,
                 outbox, limits, seen, sending, bounds>>

Expired(m) ==
  /\ Decided(m) /\ ~HasPending(doms[m])
  /\ RemoveMessage(m)
  /\ UNCHANGED <<now, messages, scheduled, on_hold, channel, mpc, cur, workers,
                 outbox, limits, seen, sending, bounds>>

\* Saves the message and puts it back in the queue: it is not due yet, or the
\* sender throttle refuses it.
Requeue(m) ==
  /\ Decided(m) /\ HasPending(doms[m])
  /\ \E due \in next_delivery_event(doms[m], now) :
       \/ due > now /\ Schedule(m, {due})
       \/ /\ due <= now /\ SenderFull
          /\ PutOnHold(m, [next_due |-> next_event_after(doms[m], now),
                           limiters |-> {"sender"}])
       \/ /\ due <= now /\ ~SenderFull
          /\ \E w \in RateWaits : Schedule(m, {now + w})
  /\ SaveChanges(m, doms[m])
  /\ UNCHANGED <<now, channel, mpc, cur, workers, outbox, limits, seen, sending, bounds>>

Spawn(m) ==
  /\ Decided(m) /\ HasPending(doms[m]) /\ ~SenderFull
  /\ \E due \in next_delivery_event(doms[m], now) : due <= now
  /\ AcquireSender
  /\ wpc' = [wpc EXCEPT ![m] = "run"]
  /\ todo' = [todo EXCEPT ![m] = Domains]
  /\ UNCHANGED <<now, doms, messages, scheduled, on_hold, channel, mpc, cur, conn, wlims,
                 report, outbox, rcptflight, exiting, spool, seen, sending, bounds>>

-----------------------------------------------------------------------------
(* The event, after the due and the held messages                          *)

Handling(type) ==
  /\ mpc = "event" /\ hand = None /\ cur.type = type
  /\ mpc' = "recv" /\ cur' = None

HandleQueue ==
  /\ Handling("queue")
  /\ \E due \in cur.due :
       \/ /\ due <= now
          /\ TryDeliver(cur.id)
          /\ UNCHANGED <<messages, scheduled, on_hold>>
       \/ /\ due > now
          /\ Schedule(cur.id, {due})
          /\ UNCHANGED <<doms, hand, outbox, spool, seen>>
  /\ UNCHANGED <<now, channel, workers, limits, sending, bounds>>

\* Event::Done with the three results of a delivery task.
HandleDone ==
  /\ \/ Handling("done") /\ UNCHANGED <<messages, scheduled, on_hold>>
     \/ Handling("retry") /\ Schedule(cur.id, cur.due)
     \/ /\ Handling("hold")
        /\ PutOnHold(cur.id, [next_due |-> cur.due, limiters |-> cur.limiters])
  /\ UNCHANGED <<now, doms, hand, channel, workers, outbox, limits, spool, seen,
                 sending, bounds>>

\* Fault: a cancelled message keeps its file.
HandleCancelKeepsFile ==
  /\ Handling("cancel")
  /\ messages' = messages \ {cur.id}
  /\ UNCHANGED <<now, doms, spool, scheduled, on_hold, hand, channel, workers, outbox,
                 limits, seen, sending, bounds>>

\* QueueRequest::Cancel of a message: its heap and on_hold entries stay behind.
HandleCancel ==
  /\ Handling("cancel")
  /\ IF cur.id \in messages
     THEN messages' = messages \ {cur.id} /\ RemoveMessage(cur.id)
     ELSE UNCHANGED <<messages, doms, spool>>
  /\ UNCHANGED <<now, scheduled, on_hold, hand, channel, workers, outbox, limits, seen,
                 sending, bounds>>

Cancelled(ds, match) ==
  [d \in Domains |-> IF d \in match /\ IsPending(ds[d])
                     THEN [ds[d] EXCEPT !.status = "completed", !.changed = TRUE]
                     ELSE ds[d]]

\* QueueRequest::Cancel with an item; cur.match are the domains it leaves
\* without a pending recipient.
HandleCancelItem ==
  /\ Handling("cancel_item")
  /\ LET ds == Cancelled(doms[cur.id], cur.match)
     IN \/ cur.id \notin messages /\ UNCHANGED <<messages, doms, spool>>
        \/ /\ cur.id \in messages /\ HasPending(ds)
           /\ SaveChanges(cur.id, ds)
           /\ UNCHANGED messages
        \/ /\ cur.id \in messages /\ ~HasPending(ds)
           /\ RemoveMessage(cur.id)
           /\ messages' = messages \ {cur.id}
  /\ UNCHANGED <<now, scheduled, on_hold, hand, channel, workers, outbox, limits, seen,
                 sending, bounds>>

\* Fault: the retained on_hold entries are the wrong ones (none).
HandleRetryClearsHolds ==
  /\ Handling("retry_now")
  /\ IF cur.id \in messages /\ cur.match \cap PendingDomains(doms[cur.id]) # {}
     THEN \E time \in cur.due :
            LET ds == RetryDomains(doms[cur.id], cur.match, time, Grace)
            IN /\ on_hold' = [m \in Ids |-> <<>>]
               /\ SaveChanges(cur.id, ds)
               /\ PushSome(cur.id, next_event(ds))
     ELSE UNCHANGED <<scheduled, on_hold, doms, spool>>
  /\ UNCHANGED <<now, messages, hand, channel, workers, outbox, limits, seen, sending, bounds>>

\* Fault: the new due time gets no heap entry.
HandleRetryNoEntry ==
  /\ Handling("retry_now")
  /\ IF cur.id \in messages /\ cur.match \cap PendingDomains(doms[cur.id]) # {}
     THEN \E time \in cur.due :
            SaveChanges(cur.id, RetryDomains(doms[cur.id], cur.match, time, Grace))
     ELSE UNCHANGED <<doms, spool>>
  /\ UNCHANGED <<now, messages, scheduled, on_hold, hand, channel, workers, outbox, limits,
                 seen, sending, bounds>>

\* QueueRequest::Retry of the domains cur.match at the time in cur.due.
HandleRetry ==
  /\ Handling("retry_now")
  /\ IF cur.id \in messages /\ cur.match \cap PendingDomains(doms[cur.id]) # {}
     THEN \E time \in cur.due :
            LET ds == RetryDomains(doms[cur.id], cur.match, time, Grace)
            IN /\ on_hold' = [on_hold EXCEPT ![cur.id] = <<>>]
               /\ SaveChanges(cur.id, ds)
               /\ PushSome(cur.id, next_event(ds))
     ELSE UNCHANGED <<scheduled, on_hold, doms, spool>>
  /\ UNCHANGED <<now, messages, hand, channel, workers, outbox, limits, seen, sending, bounds>>

\* Event::Stop leaves the loop: the queue and the receiver are dropped.
HandleStop ==
  /\ mpc = "event" /\ hand = None /\ cur.type = "stop"
  /\ mpc' = "stopped" /\ cur' = None /\ messages' = {}
  /\ scheduled' = [m \in Ids |-> <<>>]
  /\ on_hold' = [m \in Ids |-> <<>>]
  /\ channel' = <<>>
  /\ UNCHANGED <<now, doms, hand, workers, outbox, limits, spool, seen, sending, bounds>>

-----------------------------------------------------------------------------
(* The delivery task of a message                                          *)

Running(m) == wpc[m] = "run" /\ conn[m] = {}

\* One turn of the loop over the domains.
Visit(m, d) ==
  /\ Running(m) /\ d \in todo[m]
  /\ todo' = [todo EXCEPT ![m] = @ \ {d}]

\* Fault: the status is not looked at.
IsDueWhateverStatus(dom) == dom.retry <= now

IsDueForDelivery(dom) == IsPending(dom) /\ dom.retry <= now

\* Only process domains due for delivery.
Skip(m, d) ==
  /\ Visit(m, d) /\ ~IsDueForDelivery(doms[m][d])
  /\ UNCHANGED <<now, doms, manager, channel, mpc, wpc, conn, wlims, report, outbox, limits,
                 spool, seen, sending, bounds>>

RcptFull == RcptLimit > 0 /\ rcptflight = RcptLimit

\* The recipient throttle is full: the limiter goes to the on_hold vector.
Throttled(m, d) ==
  /\ Visit(m, d) /\ IsDueForDelivery(doms[m][d]) /\ RcptFull
  /\ doms' = [doms EXCEPT ![m][d] = ConcurrencyLimited(@)]
  /\ wlims' = [wlims EXCEPT ![m] = @ \cup {"rcpt"}]
  /\ UNCHANGED <<now, manager, channel, mpc, wpc, conn, report, outbox, limits,
                 spool, seen, sending, bounds>>

Connect(m, d) ==
  /\ Visit(m, d) /\ IsDueForDelivery(doms[m][d]) /\ ~RcptFull
  /\ conn' = [conn EXCEPT ![m] = {d}]
  /\ rcptflight' = IF RcptLimit > 0 THEN rcptflight + 1 ELSE rcptflight
  /\ UNCHANGED <<now, doms, manager, channel, mpc, wpc, wlims, report, outbox, inflight,
                 exiting, spool, seen, sending, bounds>>

\* A rate limiter refuses, or the delivery to the domain ends with a status;
\* the InFlight of the domain is dropped at the end of the iteration.
Outcome(m, d) ==
  /\ d \in conn[m]
  /\ \/ \E w \in RateWaits : doms' = [doms EXCEPT ![m][d] = RateLimited(@, now + w)]
     \/ \E status \in {"completed", "perm_fail"} :
           doms' = [doms EXCEPT ![m][d] = set_status(@, status, now)]
     \/ \E status \in {"scheduled", "temp_fail"}, i \in RetryIntervals :
           doms' = [doms EXCEPT ![m][d] = set_status(@, status, now + i)]
  /\ conn' = [conn EXCEPT ![m] = {}]
  /\ rcptflight' = IF RcptLimit > 0 THEN rcptflight - 1 ELSE rcptflight
  /\ UNCHANGED <<now, manager, channel, mpc, wpc, todo, wlims, report, outbox, inflight,
                 exiting, spool, seen, sending, bounds>>

EndDomains(m) ==
  /\ Running(m) /\ todo[m] = {}
  /\ send_dsn(m, doms[m])
  /\ wpc' = [wpc EXCEPT ![m] = "dsn"]
  /\ UNCHANGED <<now, manager, channel, mpc, todo, conn, wlims, report, limits, sending, bounds>>

Result(type, m, due, lims) ==
  [type |-> type, id |-> m, due |-> due, limiters |-> lims, match |-> {}]

\* The WorkerResult: on hold, requeued for its next event, or done.
Save(m) ==
  /\ wpc[m] = "dsn" /\ outbox[m] = {}
  /\ \/ /\ wlims[m] # {}
        /\ SaveChanges(m, doms[m])
        /\ report' = [report EXCEPT
             ![m] = {Result("hold", m, next_event_after(doms[m], now), wlims[m])}]
     \/ /\ wlims[m] = {} /\ next_event(doms[m]) # {}
        /\ SaveChanges(m, doms[m])
        /\ report' = [report EXCEPT ![m] = {Result("retry", m, next_event(doms[m]), {})}]
     \/ /\ wlims[m] = {} /\ next_event(doms[m]) = {}
        /\ RemoveMessage(m)
        /\ report' = [report EXCEPT ![m] = {Result("done", m, {}, {})}]
  /\ wpc' = [wpc EXCEPT ![m] = "send"]
  /\ wlims' = [wlims EXCEPT ![m] = {}]
  /\ UNCHANGED <<now, manager, channel, mpc, todo, conn, outbox, limits, seen, sending, bounds>>

\* Event::Done is in the channel; the task's InFlight is dropped after that.
Report(m) ==
  /\ wpc[m] = "send"
  /\ \E event \in report[m] : Send(event)
  /\ report' = [report EXCEPT ![m] = {}]
  /\ wpc' = [wpc EXCEPT ![m] = "none"]
  /\ exiting' = IF SenderLimit > 0 THEN exiting + 1 ELSE exiting
  /\ UNCHANGED <<now, doms, manager, mpc, todo, conn, wlims, outbox, inflight, rcptflight,
                 spool, seen, sending, bounds>>

Exit ==
  /\ exiting > 0
  /\ exiting' = exiting - 1
  /\ inflight' = inflight - 1
  /\ UNCHANGED <<now, doms, manager, channel, mpc, workers, outbox, rcptflight,
                 spool, seen, sending, bounds>>

-----------------------------------------------------------------------------
(* Sessions, management requests, shutdown, restart and the clock          *)

\* When the domains of a new message are to be reported late and when they
\* expire, from now: without BY, with BY to return the message, and with BY to
\* notify the sender before or after the deadline.  Only without BY does the
\* hold time of the message count for its expiry.
build_message(release, interval) ==
  {[notify |-> release + interval, expires |-> release + ExpireAfter]}
  \cup {[notify |-> release + interval, expires |-> by] : by \in DeliverBy}
  \cup {[notify |-> release + (IF ExpireAfter > by THEN by ELSE interval),
         expires |-> ExpireAfter] : by \in DeliverBy}
  \cup {[notify |-> release + (IF ExpireAfter > by THEN ExpireAfter - by ELSE interval),
         expires |-> ExpireAfter] : by \in DeliverBy}

\* A session accepts a message and writes its file (queue_message).
Arrive(m) ==
  /\ m \in Mails \ seen
  /\ \E release \in ReleaseDelays, interval \in NotifyIntervals :
     \E t \in build_message(release, interval) :
       LET new == NewDomains(Domains, now + release, now + t.notify, now + t.expires)
       IN /\ doms' = [doms EXCEPT ![m] = new]
          /\ spool' = [spool EXCEPT ![m] = {new}]
  /\ seen' = seen \cup {m}
  /\ sending' = sending \cup {m}
  /\ UNCHANGED <<now, manager, channel, mpc, workers, outbox, limits, bounds>>

\* Fault: the session sends its message again.
EnqueueAgain(m) ==
  /\ m \in sending
  /\ Send(QueueEvent(m, next_event(doms[m])))
  /\ UNCHANGED <<now, doms, manager, mpc, workers, outbox, limits, spool, seen, sending,
                 bounds>>

Enqueue(m) ==
  /\ m \in sending
  /\ Send(QueueEvent(m, next_event(doms[m])))
  /\ sending' = sending \ {m}
  /\ UNCHANGED <<now, doms, manager, mpc, workers, outbox, limits, spool, seen, bounds>>

\* The requests of the management API and of the shutdown in main.
RequestEvents ==
  [type : {"cancel"}, id : Ids, due : {{}}, limiters : {{}}, match : {{}}]
  \cup [type : {"cancel_item"}, id : Ids, due : {{}}, limiters : {{}},
        match : SUBSET Domains]
  \cup [type : {"retry_now"}, id : Ids, due : {{t} : t \in now..MaxTime},
        limiters : {{}}, match : SUBSET Domains]
  \cup [type : {"stop"}]

Request ==
  /\ requests < MaxRequests /\ mpc # "stopped"
  /\ \E event \in RequestEvents : event.type \in Requests /\ Send(event)
  /\ requests' = requests + 1
  /\ UNCHANGED <<now, doms, manager, mpc, workers, outbox, limits, spool, seen, sending,
                 restarts>>

\* The process dies, or ends after a stop, and is started again: what is in
\* memory is lost and read_queue schedules every message of the spool.
Restart ==
  /\ restarts < MaxRestarts
  /\ restarts' = restarts + 1
  /\ LET loaded(m) == LoadedDomains(CHOOSE file \in spool[m] : TRUE, now)
     IN /\ doms' = [m \in Ids |-> IF spool[m] = {} THEN NoDomains ELSE loaded(m)]
        /\ messages' = {m \in Ids : spool[m] # {}}
        /\ scheduled' =
             [m \in Ids |-> IF spool[m] = {} THEN <<>>
                            ELSE IF HasPending(loaded(m))
                                 THEN <<CHOOSE t \in next_event(loaded(m)) : TRUE>>
                                 ELSE <<now>>]
  /\ on_hold' = [m \in Ids |-> <<>>]
  /\ channel' = <<>>
  /\ mpc' = "recv" /\ cur' = None /\ hand' = None
  /\ wpc' = [m \in Ids |-> "none"]
  /\ todo' = [m \in Ids |-> {}]
  /\ conn' = [m \in Ids |-> {}]
  /\ wlims' = [m \in Ids |-> {}]
  /\ report' = [m \in Ids |-> {}]
  /\ outbox' = [m \in Ids |-> {}]
  /\ inflight' = 0 /\ rcptflight' = 0 /\ exiting' = 0
  /\ sending' = {}
  /\ UNCHANGED <<now, spool, seen, requests>>

Tick ==
  /\ now < MaxTime
  /\ now' = now + 1
  /\ UNCHANGED <<doms, manager, channel, mpc, workers, outbox, limits, spool, seen,
                 sending, bounds>>

-----------------------------------------------------------------------------

ManagerNext(m) ==
  \/ NextDue(m) \/ NextOnHold(m)
  \/ Expired(m) \/ Requeue(m) \/ Spawn(m)

ManagerStep ==
  \/ Recv \/ WakeUp \/ NoneDue \/ NoneOnHold
  \/ HandleQueue \/ HandleDone \/ HandleCancel \/ HandleCancelItem \/ HandleRetry
  \/ HandleStop
  \/ \E m \in Ids : ManagerNext(m)

WorkerStep(m) ==
  \/ \E d \in Domains : Skip(m, d) \/ Throttled(m, d) \/ Connect(m, d) \/ Outcome(m, d)
  \/ EndDomains(m) \/ Save(m) \/ Report(m)

Next ==
  \/ ManagerStep
  \/ \E m \in Ids : WorkerStep(m) \/ SendDsn(m) \/ Arrive(m) \/ Enqueue(m)
  \/ Exit \/ Request \/ Restart \/ Tick

Spec == Init /\ [][Next]_vars

\* Tokio polls every task that can make progress, the clock advances, and a
\* connection ends; sessions, requests and restarts need not come.
FairSpec ==
  /\ Spec
  /\ WF_vars(ManagerStep) /\ WF_vars(Exit) /\ WF_vars(Tick)
  /\ \A m \in Ids : WF_vars(WorkerStep(m)) /\ WF_vars(SendDsn(m)) /\ WF_vars(Enqueue(m))

-----------------------------------------------------------------------------
(* Safety                                                                  *)

\* Every variable has its type: queue entries are instants of known messages,
\* events are well formed and the channel never exceeds its capacity.
TypeOK ==
  /\ now \in Nat
  /\ doms \in [Ids -> [Domains -> Domain]]
  /\ messages \in SUBSET Ids
  /\ scheduled \in [Ids -> Seq(Nat)]
  /\ on_hold \in [Ids -> Seq(Hold)]
  /\ channel \in Seq(Event) /\ Len(channel) <= ChannelCapacity
  /\ mpc \in {"recv", "due", "hold", "event", "stopped"}
  /\ cur \in Event \cup {None}
  /\ hand \in Ids \cup {None}
  /\ wpc \in [Ids -> {"none", "run", "dsn", "send"}]
  /\ todo \in [Ids -> SUBSET Domains]
  /\ conn \in [Ids -> SUBSET Domains]
  /\ wlims \in [Ids -> SUBSET Limiter]
  /\ report \in [Ids -> SUBSET Event]
  /\ outbox \in [Ids -> SUBSET Dsns]
  /\ inflight \in Int /\ rcptflight \in Int /\ exiting \in Nat
  /\ spool \in [Ids -> SUBSET [Domains -> Domain]]
  /\ seen \in SUBSET Ids /\ sending \in SUBSET Ids
  /\ requests \in Nat /\ restarts \in Nat

\* A message in Queue::messages is referred to by a heap entry or an on_hold
\* entry: schedule, on_hold, next_due, next_on_hold, cancel and the retry
\* request (which drops the on_hold entries) never leave one nothing points to.
Reachable ==
  \A m \in messages : scheduled[m] # <<>> \/ on_hold[m] # <<>>

\* The places a message can be owned from while the process runs.
Carries(event, m) == event.type \in MessageEvents /\ event.id = m

Owners(m) ==
  {<<"queue">> : x \in messages \cap {m}}
  \cup {<<"attempt">> : x \in {hand} \cap {m}}
  \cup {<<"task", e>> : e \in {x \in {wpc[m]} : x \in {"run", "dsn"}}}
  \cup {<<"report">> : e \in {x \in report[m] : Carries(x, m)}}
  \cup {<<"channel", i>> : i \in {j \in DOMAIN channel : Carries(channel[j], m)}}
  \cup {<<"event">> : x \in {y \in {cur} : y # None /\ Carries(y, m)}}
  \cup {<<"dsn", n>> : n \in {x \in Ids : m \in outbox[x]}}
  \cup {<<"session">> : x \in sending \cap {m}}

\* A message is owned once: the queue, an attempt, a delivery task, an event, a
\* DSN being sent or a session, never two of them, so that no two deliveries of
\* it run at the same time, whatever stale heap and on_hold entries remain.
OneOwner == \A m \in Ids : Cardinality(Owners(m)) <= 1

\* A message in memory has its file, and until the manager stops a file has its
\* message in memory: no step of the queue forgets a message it has accepted.
OwnedIffOnDisk ==
  \A m \in Ids : /\ Owners(m) # {} => spool[m] # {}
                 /\ spool[m] # {} /\ mpc # "stopped" => Owners(m) # {}

\* The limiters count the tasks that hold an InFlight, also the ones that have
\* already reported, and stay within max_concurrent.
LimitersExact ==
  /\ inflight = (IF SenderLimit = 0 THEN 0
                 ELSE Cardinality({m \in Ids : wpc[m] # "none"}) + exiting)
  /\ inflight <= SenderLimit
  /\ rcptflight = (IF RcptLimit = 0 THEN 0 ELSE Cardinality({m \in Ids : conn[m] # {}}))
  /\ rcptflight <= RcptLimit

\* What a restart would read for a message at rest in the queue has the status
\* and the retry time the queue has for it: every way into the queue saved the
\* changed domains first.
RestartLosesNothing ==
  \A m \in messages : \A file \in spool[m] : \A d \in Domains :
     /\ file[d].status = doms[m][d].status
     /\ NotBefore(file[d].retry, now) = NotBefore(doms[m][d].retry, now)

LongestWait == CHOOSE w \in RateWaits \cup {0} : \A v \in RateWaits : v <= w

\* A scheduled message is looked at no later than its next delivery is due (or
\* a rate limit ends): neither the heap order, nor stale entries, nor changes of
\* the domains after it was scheduled, make the manager sleep past it.
WakesInTime ==
  \A m \in messages : on_hold[m] = <<>> =>
     \E i \in DOMAIN scheduled[m] : \E t \in next_delivery_event(doms[m], now) :
        scheduled[m][i] <= NotBefore(t, now + LongestWait)

\* A file is removed only when its message has no pending domain left or the
\* management API cancels it.
RemovedWhenFinished ==
  [][\A m \in Ids : spool[m] # {} /\ spool'[m] = {} =>
        \/ ~HasPending(doms[m])
        \/ mpc = "event" /\ cur.type \in {"cancel", "cancel_item"} /\ cur.id = m]_vars

\* A domain the spool records as delivered or failed is never recorded as
\* pending again, whatever attempt, request or restart comes later.
FinishedForGood ==
  [][\A m \in Ids : \A old \in spool[m], new \in spool'[m] : \A d \in Domains :
        ~IsPending(old[d]) => new[d].status = old[d].status]_vars

-----------------------------------------------------------------------------
(* Liveness                                                                *)

\* A message on disk has a delivery that is due, no task is at it, and it is not
\* on hold.
Waiting(m) ==
  /\ spool[m] # {} /\ wpc[m] = "none" /\ on_hold[m] = <<>>
  /\ \E d \in Domains : IsDueForDelivery(doms[m][d])

\* The manager has a DSN to send to its own channel, which is full: nobody else
\* receives from it.
SelfBlocked ==
  /\ hand # None /\ outbox[hand] # {}
  /\ mpc # "stopped" /\ Len(channel) = ChannelCapacity

\* "Deliver scheduled messages" (manager.rs): a delivery that is due waits for ever
\* neither in a session, in the channel, in the queue behind stale entries of other
\* messages, nor in an attempt; and a task ends: its last send finds room in the
\* channel, however often it was full.  Two things are excepted: a message that was
\* put on hold, and a manager that waits for room in its own channel.
ScheduledAreDelivered ==
  \A m \in Ids : /\ Waiting(m) ~> ~Waiting(m) \/ SelfBlocked
                 /\ wpc[m] # "none" ~> wpc[m] = "none" \/ SelfBlocked


\* "A worker is done, try delivering concurrency limited messages" (manager.rs):
\* a message does not stay on hold for ever while its limiter has a free slot.
HeldAreDelivered ==
  \A m \in Ids : (m \in messages /\ MayResume(m, 1)) ~> ~(m \in messages /\ MayResume(m, 1))
=============================================================================
