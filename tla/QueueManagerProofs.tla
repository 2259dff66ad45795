------------------------- MODULE QueueManagerProofs -------------------------
(***************************************************************************)
(* Theorems about the outbound queue, for every value of the constants.    *)
(***************************************************************************)
EXTENDS QueueManager, WellFoundedInduction, TLAPS

-----------------------------------------------------------------------------
(* The pure operators                                                      *)

\* A set of instants that is not empty has an earliest one.
LEMMA EarliestExists ==
  ASSUME NEW T \in SUBSET Nat, T # {}
  PROVE  Earliest(T) # {}
<1> DEFINE Less == {ss \in Nat \X Nat : ss[1] < ss[2]}
<1>0. IsWellFoundedOn(Less, Nat)
  BY NatLessThanWellFounded DEF OpToRel
<1>1. PICK t \in T : \A u \in T : ~ (<<u, t>> \in Less)
  <2> HIDE DEF Less
  <2> QED BY <1>0, WFMin
<1>2. ASSUME NEW u \in T PROVE t <= u
  <2>1. ~ (u < t) BY <1>1
  <2> QED BY <2>1
<1> QED BY <1>2 DEF Earliest

\* The due times of the domains, and so the next of them, are instants.
LEMMA DueTimesAreInstants ==
  ASSUME NEW ds \in [Domains -> Domain], NEW t \in Nat
  PROVE  /\ EventTimes(ds) \in SUBSET Nat
         /\ next_event(ds) \in SUBSET Nat
         /\ next_event_after(ds, t) \in SUBSET Nat
         /\ next_delivery_event(ds, t) \in SUBSET Nat
<1>1. EventTimes(ds) \in SUBSET Nat
  BY DEF EventTimes, PendingDomains, Domain
<1>2. next_event(ds) \in SUBSET Nat
  BY <1>1 DEF next_event, Earliest
<1>3. next_event_after(ds, t) \in SUBSET Nat
  BY <1>1 DEF next_event_after, Earliest
<1>4. next_delivery_event(ds, t) \in SUBSET Nat
  BY DEF next_delivery_event, Earliest, PendingDomains, Domain
<1> QED BY <1>1, <1>2, <1>3, <1>4

\* A message with a pending domain has a next event.
LEMMA PendingHasEvent ==
  ASSUME NEW ds \in [Domains -> Domain], HasPending(ds)
  PROVE  next_event(ds) # {}
<1>1. PICK d \in Domains : IsPending(ds[d]) BY DEF HasPending
<1>2. ds[d].retry \in EventTimes(ds) BY <1>1 DEF EventTimes, PendingDomains
<1>3. EventTimes(ds) \in SUBSET Nat BY DEF EventTimes, PendingDomains, Domain
<1> QED BY <1>2, <1>3, EarliestExists DEF next_event

\* Every update of the domains of a message yields domains.
LEMMA UpdatesAreDomains ==
  ASSUME NEW ds \in [Domains -> Domain], NEW t \in Nat
  PROVE  /\ ExpireDomains(ds, t) \in [Domains -> Domain]
         /\ Unchanged(ds) \in [Domains -> Domain]
         /\ LoadedDomains(ds, t) \in [Domains -> Domain]
         /\ \A new \in [Domains -> Domain] : SavedDomains(ds, new) \in [Domains -> Domain]
         /\ \A D \in SUBSET Domains : Cancelled(ds, D) \in [Domains -> Domain]
         /\ \A D \in SUBSET Domains, g \in Nat :
               RetryDomains(ds, D, t, g) \in [Domains -> Domain]
<1>1. ExpireDomains(ds, t) \in [Domains -> Domain]
  BY DEF ExpireDomains, Domain, Status
<1>2. Unchanged(ds) \in [Domains -> Domain]
  BY DEF Unchanged, Domain
<1>3. LoadedDomains(ds, t) \in [Domains -> Domain]
  BY DEF LoadedDomains, Domain, NotBefore
<1>4. ASSUME NEW new \in [Domains -> Domain]
      PROVE  SavedDomains(ds, new) \in [Domains -> Domain]
  BY DEF SavedDomains, Domain
<1>5. ASSUME NEW D \in SUBSET Domains PROVE Cancelled(ds, D) \in [Domains -> Domain]
  BY DEF Cancelled, Domain, Status
<1>6. ASSUME NEW D \in SUBSET Domains, NEW g \in Nat
      PROVE  RetryDomains(ds, D, t, g) \in [Domains -> Domain]
  <2>1. ASSUME NEW d \in Domains
        PROVE  [ds[d] EXCEPT !.retry = t, !.changed = TRUE,
                             !.expires = IF @ > t THEN t + g ELSE @] \in Domain
    <3>1. (IF ds[d].expires > t THEN t + g ELSE ds[d].expires) \in Nat
      BY DEF Domain
    <3> QED BY <3>1 DEF Domain
  <2> QED BY <2>1 DEF RetryDomains
<1> QED BY <1>1, <1>2, <1>3, <1>4, <1>5, <1>6

\* Removing an entry leaves a sequence of the same type.
LEMMA RemoveAtType ==
  ASSUME NEW S, NEW s \in Seq(S), NEW i \in DOMAIN s
  PROVE  RemoveAt(s, i) \in Seq(S)
BY DEF RemoveAt

\* The domains of a new message are domains.
LEMMA NewDomainsType ==
  ASSUME NEW D, NEW r \in Nat, NEW n \in Nat, NEW e \in Nat
  PROVE  /\ NoDomains \in [Domains -> Domain]
         /\ NewDomains(D, r, n, e) \in [Domains -> Domain]
BY DEF NewDomains, NoDomains, Domain, Status

-----------------------------------------------------------------------------
(* Type correctness                                                        *)

\* Sending keeps the channel a sequence of events within its capacity.
LEMMA SendType ==
  ASSUME channel \in Seq(Event), Len(channel) <= ChannelCapacity,
         NEW event \in Event, Send(event)
  PROVE  channel' \in Seq(Event) /\ Len(channel') <= ChannelCapacity
BY QueueAssumption DEF Send

\* An event about a message is an event.
LEMMA QueueEventType ==
  ASSUME NEW m \in Ids, NEW due \in SUBSET Nat
  PROVE  QueueEvent(m, due) \in Event
BY DEF QueueEvent, Event, MessageEvents

\* Saving and removing keep the memory and the disk well typed.
LEMMA SaveChangesType ==
  ASSUME TypeOK, NEW m \in Ids, NEW ds \in [Domains -> Domain], SaveChanges(m, ds)
  PROVE  /\ doms' \in [Ids -> [Domains -> Domain]]
         /\ spool' \in [Ids -> SUBSET [Domains -> Domain]]
<1>1. Unchanged(ds) \in [Domains -> Domain] BY UpdatesAreDomains DEF TypeOK
<1>2. {SavedDomains(file, ds) : file \in spool[m]} \in SUBSET [Domains -> Domain]
  <2>1. ASSUME NEW file \in spool[m] PROVE SavedDomains(file, ds) \in [Domains -> Domain]
    <3>1. file \in [Domains -> Domain] BY DEF TypeOK
    <3> QED BY <3>1, UpdatesAreDomains DEF TypeOK
  <2> QED BY <2>1
<1> QED BY <1>1, <1>2 DEF SaveChanges, TypeOK

\* Removing a message keeps the memory and the disk well typed.
LEMMA RemoveMessageType ==
  ASSUME TypeOK, NEW m \in Ids, RemoveMessage(m)
  PROVE  /\ doms' \in [Ids -> [Domains -> Domain]]
         /\ spool' \in [Ids -> SUBSET [Domains -> Domain]]
<1>1. NoDomains \in [Domains -> Domain] BY NewDomainsType
<1> QED BY <1>1 DEF RemoveMessage, TypeOK

\* send_dsn keeps the memory, the disk and the outbox well typed.
LEMMA SendDsnType ==
  ASSUME TypeOK, NEW m \in Ids, NEW ds \in [Domains -> Domain], send_dsn(m, ds)
  PROVE  /\ doms' \in [Ids -> [Domains -> Domain]]
         /\ spool' \in [Ids -> SUBSET [Domains -> Domain]]
         /\ outbox' \in [Ids -> SUBSET Dsns]
         /\ seen' \in SUBSET Ids
<1>1. DoubleBounce(ds) \in [Domains -> Domain]
  BY QueueAssumption DEF DoubleBounce, Domain
<1>2. ASSUME NEW n \in NextNotify PROVE Notified(ds, n) \in [Domains -> Domain]
  <2>1. ASSUME NEW d \in Domains
        PROVE  (IF n = {} THEN ds[d].expires + Grace
                ELSE now + CHOOSE x \in n : TRUE) \in Nat
    <3>1. ds[d].expires + Grace \in Nat BY QueueAssumption DEF Domain
    <3>2. CASE n # {}
      <4>1. PICK x \in NotifyIntervals : n = {x} BY <3>2 DEF NextNotify
      <4>2. (CHOOSE y \in n : TRUE) = x BY <4>1
      <4> QED BY <3>2, <4>1, <4>2, QueueAssumption DEF TypeOK
    <3> QED BY <3>1, <3>2
  <2> QED BY <2>1 DEF Notified, Domain
<1>3. ASSUME NEW new \in [Domains -> Domain], NoDsn(m, new)
      PROVE  /\ doms' \in [Ids -> [Domains -> Domain]]
             /\ spool' \in [Ids -> SUBSET [Domains -> Domain]]
             /\ outbox' \in [Ids -> SUBSET Dsns]
             /\ seen' \in SUBSET Ids
  BY <1>3 DEF NoDsn, TypeOK
<1>4. ASSUME NEW new \in [Domains -> Domain], NEW n \in Dsns, WriteDsn(m, n, new)
      PROVE  /\ doms' \in [Ids -> [Domains -> Domain]]
             /\ spool' \in [Ids -> SUBSET [Domains -> Domain]]
             /\ outbox' \in [Ids -> SUBSET Dsns]
             /\ seen' \in SUBSET Ids
  <2>1. ASSUME NEW d \in Domains
        PROVE  NewDomains({d}, now, now + ExpireAfter + Grace, now + ExpireAfter)
                 \in [Domains -> Domain]
    <3>1. now \in Nat /\ now + ExpireAfter + Grace \in Nat /\ now + ExpireAfter \in Nat
      BY QueueAssumption DEF TypeOK
    <3> QED BY <3>1, NewDomainsType
  <2>2. n \in Ids BY DEF Ids
  <2>3. PICK d \in Domains :
          LET new_dsn == NewDomains({d}, now, now + ExpireAfter + Grace, now + ExpireAfter)
          IN /\ doms' = [doms EXCEPT ![m] = new, ![n] = new_dsn]
             /\ spool' = [spool EXCEPT ![n] = {new_dsn}]
    BY <1>4 DEF WriteDsn
  <2>4. doms' \in [Ids -> [Domains -> Domain]] BY <2>1, <2>2, <2>3 DEF TypeOK
  <2>5. spool' \in [Ids -> SUBSET [Domains -> Domain]] BY <2>1, <2>2, <2>3 DEF TypeOK
  <2>6. outbox' \in [Ids -> SUBSET Dsns] /\ seen' \in SUBSET Ids
    BY <1>4, <2>2 DEF WriteDsn, TypeOK
  <2> QED BY <2>4, <2>5, <2>6
<1>5. CASE m \in Dsns /\ NoDsn(m, DoubleBounce(ds))
  BY <1>1, <1>3, <1>5
<1>6. ASSUME NEW next \in {ds} \cup {Notified(ds, n) : n \in NextNotify},
             NoDsn(m, next) \/ \E n \in Dsns : WriteDsn(m, n, next)
      PROVE  /\ doms' \in [Ids -> [Domains -> Domain]]
             /\ spool' \in [Ids -> SUBSET [Domains -> Domain]]
             /\ outbox' \in [Ids -> SUBSET Dsns]
             /\ seen' \in SUBSET Ids
  <2>1. next \in [Domains -> Domain] BY <1>2
  <2> QED BY <1>3, <1>4, <1>6, <2>1
<1> QED BY <1>5, <1>6 DEF send_dsn

\* Pushing an entry for a message keeps the queue well typed.
LEMMA QueueingType ==
  ASSUME TypeOK, NEW m \in Ids
  PROVE  /\ \A dues \in SUBSET Nat : Schedule(m, dues) =>
              messages' \in SUBSET Ids /\ scheduled' \in [Ids -> Seq(Nat)]
                /\ on_hold' = on_hold
         /\ \A hold \in Hold : PutOnHold(m, hold) =>
              messages' \in SUBSET Ids /\ on_hold' \in [Ids -> Seq(Hold)]
                /\ scheduled' = scheduled
<1>1. ASSUME NEW dues \in SUBSET Nat, Schedule(m, dues)
      PROVE  scheduled' \in [Ids -> Seq(Nat)]
  BY <1>1 DEF TypeOK, Schedule, Push
<1>2. ASSUME NEW hold \in Hold, PutOnHold(m, hold)
      PROVE  on_hold' \in [Ids -> Seq(Hold)]
  BY <1>2 DEF TypeOK, PutOnHold
<1> QED BY <1>1, <1>2 DEF TypeOK, Schedule, PutOnHold

\* Taking a message out of the queue, or finding it gone.
LEMMA TakeOrStopType ==
  ASSUME TypeOK, NEW m \in Ids, NEW stop, TakeOrStop(m, stop)
  PROVE  /\ messages' \in SUBSET Ids
         /\ hand' \in Ids \cup {None}
         /\ mpc' \in {mpc, stop}
         /\ doms' \in [Ids -> [Domains -> Domain]]
         /\ spool' \in [Ids -> SUBSET [Domains -> Domain]]
         /\ outbox' \in [Ids -> SUBSET Dsns]
         /\ seen' \in SUBSET Ids
<1>1. ExpireDomains(doms[m], now) \in [Domains -> Domain]
  BY UpdatesAreDomains DEF TypeOK
<1>2. CASE m \in messages /\ messages' = messages \ {m} /\ TryDeliver(m) /\ UNCHANGED mpc
  BY <1>1, <1>2, SendDsnType DEF TryDeliver, TypeOK
<1>3. CASE /\ m \notin messages /\ mpc' = stop
           /\ UNCHANGED <<doms, messages, hand, outbox, spool, seen>>
  BY <1>3 DEF TypeOK
<1> QED BY <1>2, <1>3 DEF TakeOrStop

\* The manager's steps that concern one message.
LEMMA ManagerNextType ==
  ASSUME TypeOK, NEW m \in Ids, ManagerNext(m)
  PROVE  TypeOK'
<1>1. CASE NextDue(m)
  <2>1. scheduled' \in [Ids -> Seq(Nat)]
    BY <1>1, RemoveAtType DEF NextDue, TypeOK
  <2>2. AfterDue \in {"recv", "hold", "event"} BY DEF AfterDue
  <2>3. TakeOrStop(m, AfterDue) BY <1>1 DEF NextDue
  <2> QED BY <1>1, <2>1, <2>2, <2>3, TakeOrStopType
       DEF NextDue, TypeOK, workers, limits, bounds
<1>2. CASE NextOnHold(m)
  <2>1. on_hold' \in [Ids -> Seq(Hold)]
    BY <1>2, RemoveAtType DEF NextOnHold, TypeOK
  <2>3. TakeOrStop(m, "event") BY <1>2 DEF NextOnHold
  <2> QED BY <1>2, <2>1, <2>3, TakeOrStopType
       DEF NextOnHold, TypeOK, workers, limits, bounds
<1>3. CASE Expired(m)
  <2>1. RemoveMessage(m) BY <1>3 DEF Expired
  <2> QED BY <1>3, <2>1, RemoveMessageType
       DEF Expired, Decided, TypeOK, workers, limits, bounds
<1>4. CASE Requeue(m)
  <2> DEFINE hold == [next_due |-> next_event_after(doms[m], now), limiters |-> {"sender"}]
  <2>1. doms[m] \in [Domains -> Domain] /\ now \in Nat BY DEF TypeOK
  <2>2. hold \in Hold BY <2>1, DueTimesAreInstants DEF Hold, Limiter
  <2>3. SaveChanges(m, doms[m]) BY <1>4 DEF Requeue
  <2>4. PICK due \in next_delivery_event(doms[m], now) :
          \/ Schedule(m, {due})
          \/ PutOnHold(m, hold)
          \/ \E w \in RateWaits : Schedule(m, {now + w})
    BY <1>4 DEF Requeue
  <2>5. due \in Nat BY <2>1, DueTimesAreInstants
  <2>6. /\ messages' \in SUBSET Ids
        /\ scheduled' \in [Ids -> Seq(Nat)] /\ on_hold' \in [Ids -> Seq(Hold)]
    <3>1. CASE Schedule(m, {due}) BY <3>1, <2>5, QueueingType DEF TypeOK
    <3>2. CASE PutOnHold(m, hold) BY <3>2, <2>2, QueueingType DEF TypeOK
    <3>3. ASSUME NEW w \in RateWaits, Schedule(m, {now + w})
          PROVE  /\ messages' \in SUBSET Ids
                 /\ scheduled' \in [Ids -> Seq(Nat)] /\ on_hold' \in [Ids -> Seq(Hold)]
      <4>1. {now + w} \in SUBSET Nat BY <2>1, QueueAssumption
      <4> QED BY <3>3, <4>1, QueueingType DEF TypeOK
    <3> QED BY <2>4, <3>1, <3>2, <3>3
  <2> QED BY <1>4, <2>1, <2>3, <2>6, SaveChangesType
       DEF Requeue, Decided, TypeOK, workers, limits, bounds
<1>5. CASE Spawn(m)
  BY <1>5 DEF Spawn, Decided, AcquireSender, TypeOK, bounds
<1> QED BY <1>1, <1>2, <1>3, <1>4, <1>5 DEF ManagerNext

\* The manager is past the due messages only when it has received an event.
EventAtHand == mpc \in {"hold", "event"} => cur # None

\* Starting an attempt for the message of an event or of an entry.
LEMMA TryDeliverType ==
  ASSUME TypeOK, NEW m \in Ids, TryDeliver(m)
  PROVE  /\ hand' \in Ids \cup {None}
         /\ doms' \in [Ids -> [Domains -> Domain]]
         /\ spool' \in [Ids -> SUBSET [Domains -> Domain]]
         /\ outbox' \in [Ids -> SUBSET Dsns]
         /\ seen' \in SUBSET Ids
<1>1. ExpireDomains(doms[m], now) \in [Domains -> Domain]
  BY UpdatesAreDomains DEF TypeOK
<1> QED BY <1>1, SendDsnType DEF TryDeliver

\* The manager's steps that concern its loop and the event it received.
LEMMA ManagerLoopType ==
  ASSUME TypeOK, EventAtHand,
         \/ Recv \/ WakeUp \/ NoneDue \/ NoneOnHold \/ HandleQueue \/ HandleDone
         \/ HandleCancel \/ HandleCancelItem \/ HandleRetry \/ HandleStop
  PROVE  TypeOK'
<1>0. ASSUME mpc = "event", cur.type # "stop"
      PROVE  /\ cur.id \in Ids /\ cur.due \in SUBSET Nat /\ cur.limiters \in SUBSET Limiter
             /\ cur.match \in SUBSET Domains /\ doms[cur.id] \in [Domains -> Domain]
  BY <1>0 DEF TypeOK, Event, EventAtHand
<1>1. CASE Recv
  <2>1. Head(channel) \in Event /\ Tail(channel) \in Seq(Event)
          /\ Len(Tail(channel)) <= ChannelCapacity
    BY <1>1, QueueAssumption DEF Recv, TypeOK
  <2> QED BY <1>1, <2>1 DEF Recv, TypeOK, workers, limits, bounds
<1>2. CASE WakeUp
  BY <1>2 DEF WakeUp, TypeOK, workers, limits, bounds
<1>3. CASE NoneDue
  BY <1>3 DEF NoneDue, AfterDue, TypeOK, manager, workers, limits, bounds
<1>4. CASE NoneOnHold
  BY <1>4 DEF NoneOnHold, TypeOK, manager, workers, limits, bounds
<1>5. CASE HandleQueue
  <2>1. cur.id \in Ids /\ cur.due \in SUBSET Nat BY <1>0, <1>5 DEF HandleQueue, Handling
  <2>2. CASE TryDeliver(cur.id) /\ UNCHANGED <<messages, scheduled, on_hold>>
    BY <1>5, <2>1, <2>2, TryDeliverType
       DEF HandleQueue, Handling, TypeOK, workers, limits, bounds
  <2>3. ASSUME NEW due \in cur.due, Schedule(cur.id, {due}),
               UNCHANGED <<doms, hand, outbox, spool, seen>>
        PROVE  TypeOK'
    <3>1. {due} \in SUBSET Nat BY <2>1
    <3> QED BY <1>5, <2>1, <2>3, <3>1, QueueingType
         DEF HandleQueue, Handling, TypeOK, workers, limits, bounds
  <2> QED BY <1>5, <2>2, <2>3 DEF HandleQueue
<1>6. CASE HandleDone
  <2>1. /\ messages' \in SUBSET Ids
        /\ scheduled' \in [Ids -> Seq(Nat)] /\ on_hold' \in [Ids -> Seq(Hold)]
    <3>1. CASE Handling("done") /\ UNCHANGED <<messages, scheduled, on_hold>>
      BY <3>1 DEF TypeOK
    <3>2. CASE Handling("retry") /\ Schedule(cur.id, cur.due)
      BY <1>0, <3>2, QueueingType DEF Handling, TypeOK
    <3>3. CASE /\ Handling("hold")
               /\ PutOnHold(cur.id, [next_due |-> cur.due, limiters |-> cur.limiters])
      <4>1. [next_due |-> cur.due, limiters |-> cur.limiters] \in Hold
        BY <1>0, <3>3 DEF Handling, Hold
      <4> QED BY <1>0, <3>3, <4>1, QueueingType DEF Handling, TypeOK
    <3> QED BY <1>6, <3>1, <3>2, <3>3 DEF HandleDone
  <2>2. mpc' = "recv" /\ cur' = None BY <1>6 DEF HandleDone, Handling
  <2> QED BY <1>6, <2>1, <2>2 DEF HandleDone, TypeOK, workers, limits, bounds
<1>7. CASE HandleCancel
  <2>1. cur.id \in Ids BY <1>0, <1>7 DEF HandleCancel, Handling
  <2>2. /\ doms' \in [Ids -> [Domains -> Domain]]
        /\ spool' \in [Ids -> SUBSET [Domains -> Domain]]
    BY <1>7, <2>1, RemoveMessageType DEF HandleCancel, TypeOK
  <2> QED BY <1>7, <2>2 DEF HandleCancel, Handling, TypeOK, workers, limits, bounds
<1>8. CASE HandleCancelItem
  <2> DEFINE ds == Cancelled(doms[cur.id], cur.match)
  <2>1. cur.id \in Ids BY <1>0, <1>8 DEF HandleCancelItem, Handling
  <2>2. ds \in [Domains -> Domain]
    BY <1>0, <1>8, UpdatesAreDomains DEF HandleCancelItem, Handling, TypeOK
  <2>3. /\ doms' \in [Ids -> [Domains -> Domain]]
        /\ spool' \in [Ids -> SUBSET [Domains -> Domain]]
    <3>1. CASE UNCHANGED <<doms, spool>> BY <3>1 DEF TypeOK
    <3>2. CASE SaveChanges(cur.id, ds) BY <2>1, <2>2, <3>2, SaveChangesType
    <3>3. CASE RemoveMessage(cur.id) BY <2>1, <3>3, RemoveMessageType
    <3> QED BY <1>8, <3>1, <3>2, <3>3 DEF HandleCancelItem
  <2>4. messages' \in SUBSET Ids BY <1>8 DEF HandleCancelItem, TypeOK
  <2>5. mpc' = "recv" /\ cur' = None BY <1>8 DEF HandleCancelItem, Handling
  <2> QED BY <1>8, <2>3, <2>4, <2>5 DEF HandleCancelItem, TypeOK, workers, limits, bounds
<1>9. CASE HandleRetry
  <2>1. /\ cur.id \in Ids /\ cur.due \in SUBSET Nat /\ cur.match \in SUBSET Domains
        /\ doms[cur.id] \in [Domains -> Domain]
    BY <1>0, <1>9 DEF HandleRetry, Handling
  <2>2. /\ doms' \in [Ids -> [Domains -> Domain]]
        /\ spool' \in [Ids -> SUBSET [Domains -> Domain]]
        /\ scheduled' \in [Ids -> Seq(Nat)] /\ on_hold' \in [Ids -> Seq(Hold)]
    <3>1. CASE UNCHANGED <<scheduled, on_hold, doms, spool>> BY <3>1 DEF TypeOK
    <3>2. ASSUME NEW time \in cur.due,
                 LET ds == RetryDomains(doms[cur.id], cur.match, time, Grace)
                 IN /\ on_hold' = [on_hold EXCEPT ![cur.id] = <<>>]
                    /\ SaveChanges(cur.id, ds)
                    /\ PushSome(cur.id, next_event(ds))
          PROVE  /\ doms' \in [Ids -> [Domains -> Domain]]
                 /\ spool' \in [Ids -> SUBSET [Domains -> Domain]]
                 /\ scheduled' \in [Ids -> Seq(Nat)] /\ on_hold' \in [Ids -> Seq(Hold)]
      <4> DEFINE ds == RetryDomains(doms[cur.id], cur.match, time, Grace)
      <4>1. ds \in [Domains -> Domain]
        BY <2>1, UpdatesAreDomains, QueueAssumption
      <4>2. PushSome(cur.id, next_event(ds)) BY <3>2
      <4>3. next_event(ds) # {} => (CHOOSE due \in next_event(ds) : TRUE) \in Nat
        <5> HIDE DEF ds
        <5> QED BY <4>1, DueTimesAreInstants DEF TypeOK
      <4>4. scheduled' \in [Ids -> Seq(Nat)] BY <2>1, <4>2, <4>3 DEF PushSome, TypeOK
      <4>5. on_hold' \in [Ids -> Seq(Hold)] BY <2>1, <3>2 DEF TypeOK
      <4> QED BY <2>1, <3>2, <4>1, <4>4, <4>5, SaveChangesType
    <3> QED BY <1>9, <3>1, <3>2 DEF HandleRetry
  <2>3. mpc' = "recv" /\ cur' = None BY <1>9 DEF HandleRetry, Handling
  <2> QED BY <1>9, <2>2, <2>3 DEF HandleRetry, TypeOK, workers, limits, bounds
<1>10. CASE HandleStop
  BY <1>10, QueueAssumption DEF HandleStop, TypeOK, workers, limits, bounds
<1> QED BY <1>1, <1>2, <1>3, <1>4, <1>5, <1>6, <1>7, <1>8, <1>9, <1>10

\* The steps of a delivery task.
LEMMA WorkerStepType ==
  ASSUME TypeOK, NEW m \in Ids, WorkerStep(m)
  PROVE  TypeOK'
<1>0. doms[m] \in [Domains -> Domain] /\ now \in Nat BY DEF TypeOK
<1>1. ASSUME NEW d \in Domains, Skip(m, d) PROVE TypeOK'
  BY <1>1 DEF Skip, Visit, TypeOK, manager, limits, bounds
<1>2. ASSUME NEW d \in Domains, Throttled(m, d) PROVE TypeOK'
  <2>1. ConcurrencyLimited(doms[m][d]) \in Domain
    BY <1>0 DEF ConcurrencyLimited, Domain, Status
  <2>2. doms' = [doms EXCEPT ![m] = [doms[m] EXCEPT ![d] = ConcurrencyLimited(doms[m][d])]]
    BY <1>2 DEF Throttled, TypeOK
  <2>3. doms' \in [Ids -> [Domains -> Domain]] BY <1>0, <2>1, <2>2 DEF TypeOK
  <2> QED BY <1>2, <2>3 DEF Throttled, Visit, TypeOK, manager, limits, bounds, Limiter
<1>3. ASSUME NEW d \in Domains, Connect(m, d) PROVE TypeOK'
  BY <1>3 DEF Connect, Visit, TypeOK, manager, bounds
<1>4. ASSUME NEW d \in Domains, Outcome(m, d) PROVE TypeOK'
  <2>1. \E dom \in Domain : doms' = [doms EXCEPT ![m] = [doms[m] EXCEPT ![d] = dom]]
    <3>1. ASSUME NEW w \in RateWaits PROVE RateLimited(doms[m][d], now + w) \in Domain
      <4>1. now + w \in Nat BY <1>0, QueueAssumption
      <4> QED BY <1>0, <4>1 DEF RateLimited, Domain, Status
    <3>2. ASSUME NEW st \in {"completed", "perm_fail"}
          PROVE  set_status(doms[m][d], st, now) \in Domain
      BY <1>0 DEF set_status, Domain, Status
    <3>3. ASSUME NEW st \in {"scheduled", "temp_fail"}, NEW i \in RetryIntervals
          PROVE  set_status(doms[m][d], st, now + i) \in Domain
      <4>1. now + i \in Nat BY <1>0, QueueAssumption
      <4> QED BY <1>0, <4>1 DEF set_status, Domain, Status
    <3> QED BY <1>4, <3>1, <3>2, <3>3 DEF Outcome, TypeOK
  <2>2. doms' \in [Ids -> [Domains -> Domain]] BY <1>0, <2>1 DEF TypeOK
  <2>3. rcptflight' \in Int BY <1>4 DEF Outcome, TypeOK
  <2> QED BY <1>4, <2>2, <2>3 DEF Outcome, TypeOK, manager, bounds
<1>5. CASE EndDomains(m)
  BY <1>0, <1>5, SendDsnType DEF EndDomains, TypeOK, manager, limits, bounds
<1>6. CASE Save(m)
  <2>1. ASSUME NEW type \in {"hold", "retry", "done"}, NEW due \in SUBSET Nat,
               NEW lims \in SUBSET Limiter
        PROVE  Result(type, m, due, lims) \in Event
    BY DEF Result, Event, MessageEvents
  <2>2. /\ doms' \in [Ids -> [Domains -> Domain]]
        /\ spool' \in [Ids -> SUBSET [Domains -> Domain]]
    BY <1>0, <1>6, SaveChangesType, RemoveMessageType DEF Save
  <2>3. \E event \in Event : report' = [report EXCEPT ![m] = {event}]
    <3>1. wlims[m] \in SUBSET Limiter BY DEF TypeOK
    <3> QED BY <1>0, <1>6, <2>1, <3>1, DueTimesAreInstants DEF Save
  <2>4. report' \in [Ids -> SUBSET Event] BY <2>3 DEF TypeOK
  <2> QED BY <1>6, <2>2, <2>4 DEF Save, TypeOK, manager, limits, bounds
<1>7. CASE Report(m)
  <2>1. channel' \in Seq(Event) /\ Len(channel') <= ChannelCapacity
    BY <1>7, SendType DEF Report, TypeOK
  <2> QED BY <1>7, <2>1 DEF Report, TypeOK, manager, bounds
<1> QED BY <1>1, <1>2, <1>3, <1>4, <1>5, <1>6, <1>7 DEF WorkerStep

\* Sessions, requests, restarts and the clock.
LEMMA EnvironmentType ==
  ASSUME TypeOK,
         \/ \E m \in Ids : SendDsn(m) \/ Arrive(m) \/ Enqueue(m)
         \/ Exit \/ Request \/ Restart \/ Tick
  PROVE  TypeOK'
<1>1. ASSUME NEW m \in Ids, SendDsn(m) PROVE TypeOK'
  <2>1. ASSUME NEW n \in outbox[m] PROVE QueueEvent(n, next_event(doms[n])) \in Event
    <3>1. n \in Ids BY DEF TypeOK, Ids
    <3> QED BY <3>1, QueueEventType, DueTimesAreInstants DEF TypeOK
  <2>2. channel' \in Seq(Event) /\ Len(channel') <= ChannelCapacity
    BY <1>1, <2>1, SendType DEF SendDsn, TypeOK
  <2> QED BY <1>1, <2>2 DEF SendDsn, TypeOK, manager, workers, limits, bounds
<1>2. ASSUME NEW m \in Ids, Arrive(m) PROVE TypeOK'
  <2>1. ASSUME NEW release \in ReleaseDelays, NEW interval \in NotifyIntervals,
               NEW t \in build_message(release, interval)
        PROVE  NewDomains(Domains, now + release, now + t.notify, now + t.expires)
                 \in [Domains -> Domain]
    <3>1. t.notify \in Nat /\ t.expires \in Nat
      <4>1. \A by \in DeliverBy : ExpireAfter > by => ExpireAfter - by \in Nat
        BY QueueAssumption
      <4>2. \E n, e \in Nat : t = [notify |-> n, expires |-> e]
        <5>1. CASE t = [notify |-> release + interval, expires |-> release + ExpireAfter]
          BY <5>1, QueueAssumption
        <5>2. CASE \E by \in DeliverBy : t = [notify |-> release + interval, expires |-> by]
          BY <5>2, QueueAssumption
        <5>3. ASSUME NEW by \in DeliverBy, NEW w \in {by, ExpireAfter - by},
                     t = [notify |-> release + (IF ExpireAfter > by THEN w ELSE interval),
                          expires |-> ExpireAfter]
              PROVE  \E n, e \in Nat : t = [notify |-> n, expires |-> e]
          <6>1. release + (IF ExpireAfter > by THEN w ELSE interval) \in Nat
            BY <4>1, QueueAssumption
          <6> QED BY <5>3, <6>1, QueueAssumption
        <5> QED BY <5>1, <5>2, <5>3 DEF build_message
      <4> QED BY <4>2
    <3>2. now \in Nat /\ release \in Nat BY QueueAssumption DEF TypeOK
    <3>3. \A i, j \in Nat : i + j \in Nat OBVIOUS
    <3>4. now + release \in Nat /\ now + t.notify \in Nat /\ now + t.expires \in Nat
      BY <3>1, <3>2, <3>3
    <3> QED BY <3>4, NewDomainsType
  <2>2. \E new \in [Domains -> Domain] : /\ doms' = [doms EXCEPT ![m] = new]
                                         /\ spool' = [spool EXCEPT ![m] = {new}]
    BY <1>2, <2>1 DEF Arrive
  <2>3. /\ doms' \in [Ids -> [Domains -> Domain]]
        /\ spool' \in [Ids -> SUBSET [Domains -> Domain]]
    BY <2>2 DEF TypeOK
  <2> QED BY <1>2, <2>3 DEF Arrive, TypeOK, manager, workers, limits, bounds
<1>3. ASSUME NEW m \in Ids, Enqueue(m) PROVE TypeOK'
  <2>1. QueueEvent(m, next_event(doms[m])) \in Event
    BY QueueEventType, DueTimesAreInstants DEF TypeOK
  <2>2. channel' \in Seq(Event) /\ Len(channel') <= ChannelCapacity
    BY <1>3, <2>1, SendType DEF Enqueue, TypeOK
  <2> QED BY <1>3, <2>2 DEF Enqueue, TypeOK, manager, workers, limits, bounds
<1>4. CASE Exit
  BY <1>4 DEF Exit, TypeOK, manager, workers, bounds
<1>5. CASE Request
  <2>1. RequestEvents \subseteq Event
    BY QueueAssumption DEF RequestEvents, Event, TypeOK
  <2>2. channel' \in Seq(Event) /\ Len(channel') <= ChannelCapacity
    BY <1>5, <2>1, SendType DEF Request, TypeOK
  <2> QED BY <1>5, <2>2 DEF Request, TypeOK, manager, workers, limits
<1>6. CASE Restart
  <2> DEFINE loaded(m) == LoadedDomains(CHOOSE file \in spool[m] : TRUE, now)
  <2>1. ASSUME NEW m \in Ids, spool[m] # {} PROVE loaded(m) \in [Domains -> Domain]
    <3>1. (CHOOSE file \in spool[m] : TRUE) \in [Domains -> Domain] BY <2>1 DEF TypeOK
    <3> QED BY <3>1, UpdatesAreDomains DEF TypeOK
  <2>2. doms' \in [Ids -> [Domains -> Domain]]
    BY <1>6, <2>1, NewDomainsType DEF Restart, TypeOK
  <2>3. ASSUME NEW m \in Ids, spool[m] # {}, HasPending(loaded(m))
        PROVE  (CHOOSE t \in next_event(loaded(m)) : TRUE) \in Nat
    <3> HIDE DEF loaded
    <3> QED BY <2>1, <2>3, PendingHasEvent, DueTimesAreInstants DEF TypeOK
  <2>4. scheduled' \in [Ids -> Seq(Nat)]
    <3>1. ASSUME NEW m \in Ids
          PROVE  (IF spool[m] = {} THEN <<>>
                  ELSE IF HasPending(loaded(m))
                       THEN <<CHOOSE t \in next_event(loaded(m)) : TRUE>>
                       ELSE <<now>>) \in Seq(Nat)
      <4>1. now \in Nat BY DEF TypeOK
      <4> HIDE DEF loaded
      <4> QED BY <2>3, <4>1
    <3>2. scheduled' = [m \in Ids |-> IF spool[m] = {} THEN <<>>
                                      ELSE IF HasPending(loaded(m))
                                           THEN <<CHOOSE t \in next_event(loaded(m)) : TRUE>>
                                           ELSE <<now>>]
      BY <1>6 DEF Restart
    <3> QED BY <3>1, <3>2
  <2>5. /\ messages' \in SUBSET Ids /\ on_hold' \in [Ids -> Seq(Hold)]
        /\ channel' \in Seq(Event) /\ Len(channel') <= ChannelCapacity
        /\ mpc' = "recv" /\ cur' = None /\ hand' = None
        /\ restarts' \in Nat
    BY <1>6, QueueAssumption DEF Restart, TypeOK
  <2>6. /\ wpc' \in [Ids -> {"none", "run", "dsn", "send"}]
        /\ todo' \in [Ids -> SUBSET Domains] /\ conn' \in [Ids -> SUBSET Domains]
        /\ wlims' \in [Ids -> SUBSET Limiter] /\ report' \in [Ids -> SUBSET Event]
        /\ outbox' \in [Ids -> SUBSET Dsns]
        /\ inflight' \in Int /\ rcptflight' \in Int /\ exiting' \in Nat
        /\ sending' \in SUBSET Ids
        /\ UNCHANGED <<now, spool, seen, requests>>
    BY <1>6 DEF Restart
  <2> QED BY <2>2, <2>4, <2>5, <2>6 DEF TypeOK
<1>7. CASE Tick
  BY <1>7 DEF Tick, TypeOK, manager, workers, limits, bounds
<1> QED BY <1>1, <1>2, <1>3, <1>4, <1>5, <1>6, <1>7

\* The types hold at the start.
LEMMA TypeInit == Init => TypeOK /\ EventAtHand
<1>1. NoDomains \in [Domains -> Domain] BY NewDomainsType
<1> QED BY <1>1, QueueAssumption DEF Init, TypeOK, EventAtHand

\* An event is at hand whenever the manager goes on to handle one.
LEMMA EventAtHandStep ==
  ASSUME TypeOK, EventAtHand, [Next]_vars
  PROVE  EventAtHand'
<1>1. CASE UNCHANGED <<mpc, cur>> BY <1>1 DEF EventAtHand
<1>2. ASSUME NEW m \in Ids, NextDue(m) \/ NextOnHold(m) PROVE EventAtHand'
  BY <1>2 DEF NextDue, NextOnHold, TakeOrStop, AfterDue, EventAtHand
<1>3. CASE NoneDue \/ NoneOnHold
  BY <1>3 DEF NoneDue, NoneOnHold, AfterDue, EventAtHand, manager
<1>4. CASE mpc' \notin {"hold", "event"} BY <1>4 DEF EventAtHand
<1> QED
  BY <1>1, <1>2, <1>3, <1>4 DEF Next, ManagerStep, ManagerNext, WorkerStep, vars, manager,
     Recv, WakeUp, Expired, Requeue, Spawn, HandleQueue, HandleDone, HandleCancel,
     HandleCancelItem, HandleRetry, HandleStop, Handling, Skip, Throttled, Connect, Outcome,
     EndDomains, Save, Report, SendDsn, Arrive, Enqueue, Exit, Request, Restart, Tick

\* Every step keeps the types.
LEMMA TypeStep ==
  ASSUME TypeOK, EventAtHand, [Next]_vars
  PROVE  TypeOK'
<1>1. CASE UNCHANGED vars
  BY <1>1 DEF TypeOK, vars, manager, workers, limits, bounds
<1> QED BY <1>1, ManagerNextType, ManagerLoopType, WorkerStepType, EnvironmentType
        DEF Next, ManagerStep

\* Every reachable state is well typed; in particular the channel never holds
\* more than its capacity.
THEOREM TypeCorrect == Spec => []TypeOK
<1>1. Init => TypeOK /\ EventAtHand BY TypeInit
<1>2. TypeOK /\ EventAtHand /\ [Next]_vars => (TypeOK /\ EventAtHand)'
  BY TypeStep, EventAtHandStep
<1> QED BY <1>1, <1>2, PTL DEF Spec

-----------------------------------------------------------------------------
(* Every queued message can be found again                                 *)

\* A sequence something was appended to is not empty.
LEMMA AppendNotEmpty ==
  ASSUME NEW S, NEW s \in Seq(S), NEW e \in S
  PROVE  Append(s, e) # <<>>
<1>1. Len(Append(s, e)) = Len(s) + 1 /\ Len(s) \in Nat OBVIOUS
<1>2. Len(<<>>) = 0 OBVIOUS
<1> QED BY <1>1, <1>2

\* Pushing an entry for a message makes it reachable and disturbs no other.
LEMMA QueueingReachable ==
  ASSUME TypeOK, Reachable, NEW m \in Ids
  PROVE  /\ \A dues \in SUBSET Nat : Schedule(m, dues) => Reachable'
         /\ \A hold \in Hold : PutOnHold(m, hold) => Reachable'
<1>1. ASSUME NEW dues \in SUBSET Nat, Schedule(m, dues) PROVE Reachable'
  <2>1. PICK due \in dues : scheduled' = [scheduled EXCEPT ![m] = Append(@, due)]
    BY <1>1 DEF Schedule, Push
  <2>2. scheduled'[m] # <<>> BY <2>1, AppendNotEmpty DEF TypeOK
  <2>3. \A n \in Ids \ {m} : scheduled'[n] = scheduled[n] BY <2>1 DEF TypeOK
  <2> QED BY <1>1, <2>2, <2>3 DEF Schedule, Reachable, TypeOK
<1>2. ASSUME NEW hold \in Hold, PutOnHold(m, hold) PROVE Reachable'
  <2>1. on_hold' = [on_hold EXCEPT ![m] = Append(@, hold)] BY <1>2 DEF PutOnHold
  <2>2. on_hold'[m] # <<>> BY <2>1, AppendNotEmpty DEF TypeOK
  <2>3. \A n \in Ids \ {m} : on_hold'[n] = on_hold[n] BY <2>1 DEF TypeOK
  <2> QED BY <1>2, <2>2, <2>3 DEF PutOnHold, Reachable, TypeOK
<1> QED BY <1>1, <1>2

\* The retry request drops the on_hold entries of a message and gives it a heap
\* entry: a domain it matched is pending, so there is a next event.
LEMMA RetryReachable ==
  ASSUME TypeOK, EventAtHand, Reachable, HandleRetry
  PROVE  Reachable'
<1>1. messages' = messages BY DEF HandleRetry
<1>2. CASE UNCHANGED <<scheduled, on_hold>> BY <1>1, <1>2 DEF Reachable
<1>3. /\ cur.id \in Ids /\ cur.due \in SUBSET Nat /\ cur.match \in SUBSET Domains
      /\ doms[cur.id] \in [Domains -> Domain]
  BY DEF HandleRetry, Handling, TypeOK, EventAtHand, Event
<1>4. ASSUME NEW time \in cur.due,
             cur.match \cap PendingDomains(doms[cur.id]) # {},
             on_hold' = [on_hold EXCEPT ![cur.id] = <<>>],
             PushSome(cur.id, next_event(RetryDomains(doms[cur.id], cur.match, time, Grace)))
      PROVE  Reachable'
  <2> DEFINE ds == RetryDomains(doms[cur.id], cur.match, time, Grace)
  <2>1. ds \in [Domains -> Domain] BY <1>3, UpdatesAreDomains, QueueAssumption
  <2>2. HasPending(ds)
    BY <1>3, <1>4 DEF RetryDomains, PendingDomains, HasPending, IsPending, Domain
  <2> HIDE DEF ds
  <2>3. next_event(ds) # {} /\ (CHOOSE due \in next_event(ds) : TRUE) \in Nat
    BY <2>1, <2>2, PendingHasEvent, DueTimesAreInstants DEF TypeOK
  <2>4. scheduled' = [scheduled EXCEPT
          ![cur.id] = Append(@, CHOOSE due \in next_event(ds) : TRUE)]
    BY <1>4, <2>3 DEF PushSome, ds
  <2>5. scheduled'[cur.id] # <<>> BY <1>3, <2>3, <2>4, AppendNotEmpty DEF TypeOK
  <2>6. \A n \in Ids \ {cur.id} : scheduled'[n] = scheduled[n] /\ on_hold'[n] = on_hold[n]
    BY <1>4, <2>4 DEF TypeOK
  <2> QED BY <1>1, <2>5, <2>6 DEF Reachable, TypeOK
<1> QED BY <1>2, <1>4 DEF HandleRetry

\* Taking an entry off the heap or off the on_hold vector takes its message too.
LEMMA TakeReachable ==
  ASSUME TypeOK, Reachable, NEW m \in Ids, NextDue(m) \/ NextOnHold(m)
  PROVE  Reachable'
<1>1. \A n \in Ids \ {m} : scheduled'[n] = scheduled[n] /\ on_hold'[n] = on_hold[n]
  BY DEF NextDue, NextOnHold, TypeOK
<1>2. messages' \subseteq messages \ {m} BY DEF NextDue, NextOnHold, TakeOrStop
<1> QED BY <1>1, <1>2 DEF Reachable, TypeOK

\* read_queue gives every message of the spool a heap entry.
LEMMA RestartReachable ==
  ASSUME TypeOK, Restart
  PROVE  Reachable'
<1>1. ASSUME NEW m \in messages' PROVE scheduled'[m] # <<>>
  BY DEF Restart
<1> QED BY <1>1 DEF Reachable

\* No step of the manager, of a delivery task, of a session or of a request
\* leaves a message in the queue that neither the heap nor on_hold refers to.
THEOREM QueueReachable == Spec => []Reachable
<1>1. Init => Reachable BY DEF Init, Reachable
<1>2. ASSUME TypeOK, EventAtHand, Reachable, [Next]_vars PROVE Reachable'
  <2>0. mpc = "event" /\ cur.type # "stop" =>
          /\ cur.id \in Ids /\ cur.due \in SUBSET Nat /\ cur.limiters \in SUBSET Limiter
    BY <1>2 DEF TypeOK, Event, EventAtHand
  <2>1. CASE UNCHANGED <<messages, scheduled, on_hold>> BY <1>2, <2>1 DEF Reachable
  <2>2. ASSUME NEW m \in Ids, NextDue(m) \/ NextOnHold(m) PROVE Reachable'
    BY <1>2, <2>2, TakeReachable
  <2>3. ASSUME NEW m \in Ids, Requeue(m) PROVE Reachable'
    <3> DEFINE hold == [next_due |-> next_event_after(doms[m], now), limiters |-> {"sender"}]
    <3>1. doms[m] \in [Domains -> Domain] /\ now \in Nat BY <1>2 DEF TypeOK
    <3>2. hold \in Hold BY <3>1, DueTimesAreInstants DEF Hold, Limiter
    <3>3. PICK due \in next_delivery_event(doms[m], now) :
            \/ Schedule(m, {due})
            \/ PutOnHold(m, hold)
            \/ \E w \in RateWaits : Schedule(m, {now + w})
      BY <2>3 DEF Requeue
    <3>4. {due} \in SUBSET Nat BY <3>1, DueTimesAreInstants
    <3>5. ASSUME NEW w \in RateWaits PROVE {now + w} \in SUBSET Nat
      BY <3>1, QueueAssumption
    <3> HIDE DEF hold
    <3> QED BY <1>2, <3>2, <3>3, <3>4, <3>5, QueueingReachable
  <2>4. CASE HandleQueue
    BY <1>2, <2>0, <2>1, <2>4, QueueingReachable DEF HandleQueue, Handling
  <2>5. CASE HandleDone
    <3>1. CASE UNCHANGED <<messages, scheduled, on_hold>> BY <2>1, <3>1
    <3>2. CASE Handling("retry") /\ Schedule(cur.id, cur.due)
      BY <1>2, <2>0, <3>2, QueueingReachable DEF Handling
    <3>3. CASE /\ Handling("hold")
               /\ PutOnHold(cur.id, [next_due |-> cur.due, limiters |-> cur.limiters])
      BY <1>2, <2>0, <3>3, QueueingReachable DEF Handling, Hold
    <3> QED BY <2>5, <3>1, <3>2, <3>3 DEF HandleDone
  <2>6. CASE HandleCancel \/ HandleCancelItem
    BY <1>2, <2>6 DEF HandleCancel, HandleCancelItem, Reachable
  <2>7. CASE HandleRetry BY <1>2, <2>7, RetryReachable
  <2>8. CASE HandleStop BY <2>8 DEF HandleStop, Reachable
  <2>9. CASE Restart BY <1>2, <2>9, RestartReachable
  <2> QED
    BY <1>2, <2>1, <2>2, <2>3, <2>4, <2>5, <2>6, <2>7, <2>8, <2>9
    DEF Next, ManagerStep, ManagerNext, WorkerStep, vars, manager, Recv, WakeUp, NoneDue,
        NoneOnHold, Expired, Spawn, Skip, Throttled, Connect, Outcome, EndDomains, Save,
        Report, SendDsn, Arrive, Enqueue, Exit, Request, Tick
<1>3. TypeOK /\ EventAtHand /\ Reachable /\ [Next]_vars
        => (TypeOK /\ EventAtHand /\ Reachable)'
  BY <1>2, TypeStep, EventAtHandStep
<1> QED BY <1>1, <1>3, TypeInit, PTL DEF Spec
=============================================================================
