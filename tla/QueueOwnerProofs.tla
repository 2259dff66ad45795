-------------------------- MODULE QueueOwnerProofs --------------------------
(***************************************************************************)
(* Who owns a message of the outbound queue, what its file says, and what  *)
(* the limiters count, for every value of the constants.                   *)
(***************************************************************************)
EXTENDS QueueManagerProofs, FiniteSetTheorems

-----------------------------------------------------------------------------
(* The inductive invariant                                                 *)

\* The places of Owners, as predicates; a message may be in the channel or in an
\* outbox more than once.
InTask(m) == wpc[m] \in {"run", "dsn"}
InReport(m) == \E e \in report[m] : Carries(e, m)
InEvent(m) == cur # None /\ Carries(cur, m)
InChannel(m) == \E i \in DOMAIN channel : Carries(channel[i], m)
InOutbox(m) == \E n \in Ids : m \in outbox[n]

OnceInChannel(m) ==
  \A i, j \in DOMAIN channel : Carries(channel[i], m) /\ Carries(channel[j], m) => i = j
OnceInOutbox(m) == \A n, p \in Ids : m \in outbox[n] /\ m \in outbox[p] => n = p

\* A message in one place is in no other.
Alone(m) ==
  /\ m \in messages => /\ hand # m /\ ~InTask(m) /\ ~InReport(m) /\ ~InEvent(m)
                       /\ ~InChannel(m) /\ ~InOutbox(m) /\ m \notin sending
  /\ hand = m => /\ ~InTask(m) /\ ~InReport(m) /\ ~InEvent(m) /\ ~InChannel(m)
                 /\ ~InOutbox(m) /\ m \notin sending
  /\ InTask(m) => /\ ~InReport(m) /\ ~InEvent(m) /\ ~InChannel(m) /\ ~InOutbox(m)
                  /\ m \notin sending
  /\ InReport(m) => ~InEvent(m) /\ ~InChannel(m) /\ ~InOutbox(m) /\ m \notin sending
  /\ InEvent(m) => ~InChannel(m) /\ ~InOutbox(m) /\ m \notin sending
  /\ InChannel(m) => ~InOutbox(m) /\ m \notin sending
  /\ InOutbox(m) => m \notin sending
  /\ OnceInChannel(m) /\ OnceInOutbox(m)

Owned(m) ==
  \/ m \in messages \/ hand = m \/ InTask(m) \/ InReport(m) \/ InEvent(m)
  \/ InChannel(m) \/ InOutbox(m) \/ m \in sending

\* An owned message is on disk, and one on disk is owned until the manager stops.
OnDisk(m) ==
  /\ spool[m] # {} => m \in seen
  /\ Owned(m) => spool[m] # {}
  /\ spool[m] # {} /\ mpc # "stopped" => Owned(m)

\* A task that is about to report has one event to send, about its own message,
\* whose file is gone when the event is Done without a message.
OneReport(m) ==
  /\ wpc[m] = "send" <=> report[m] # {}
  /\ \A e \in report[m] : /\ e.type \in {"retry", "hold", "done"} /\ e.id = m
                          /\ m \in seen
                          /\ e.type = "done" => spool[m] = {}
                          /\ \A f \in report[m] : e = f

\* A DSN waits to be sent only while its attempt does, and there is only one.
OneDsn(m) ==
  /\ outbox[m] # {} => hand = m \/ wpc[m] = "dsn"
  /\ \A n, p \in outbox[m] : n = p

\* The manager waits without an event.
NoEventAtRest == mpc = "recv" => cur = None

OwnerInv ==
  /\ NoEventAtRest
  /\ \A m \in Ids : Alone(m) /\ OnDisk(m) /\ OneReport(m) /\ OneDsn(m)

-----------------------------------------------------------------------------
(* What the steps do to the owners                                         *)

\* A step that leaves the places of a message alone.
places == <<messages, hand, wpc, report, channel, cur, outbox, sending, spool, seen, mpc>>

\* A step that moves no message keeps the owners.
LEMMA SamePlaces ==
  ASSUME OwnerInv, UNCHANGED places
  PROVE  OwnerInv'
BY DEF places, OwnerInv, OnDisk, NoEventAtRest, OneReport, OneDsn, Alone, Owned, InTask,
       InReport, InChannel, InEvent, InOutbox, OnceInChannel, OnceInOutbox, Carries

\* The owners are right at the start.
LEMMA OwnerInit == Init => OwnerInv
BY QueueAssumption
DEF Init, OwnerInv, OnDisk, NoEventAtRest, OneReport, OneDsn, Alone, Owned, InTask,
    InReport, InChannel, InEvent, InOutbox, OnceInChannel, OnceInOutbox, Carries

\* An event sent is the only one more in the channel.
LEMMA AppendPlaces ==
  ASSUME channel \in Seq(Event), NEW event \in Event, channel' = Append(channel, event),
         NEW m \in Ids
  PROVE  /\ InChannel(m)' <=> InChannel(m) \/ Carries(event, m)
         /\ OnceInChannel(m) /\ ~(InChannel(m) /\ Carries(event, m)) => OnceInChannel(m)'
<1>1. /\ DOMAIN channel = 1..Len(channel) /\ Len(channel) \in Nat
      /\ DOMAIN channel' = 1..(Len(channel) + 1)
  OBVIOUS
<1>2. channel'[Len(channel) + 1] = event OBVIOUS
<1>3. \A i \in 1..Len(channel) : channel'[i] = channel[i] OBVIOUS
<1>4. \A i \in DOMAIN channel' : i \in DOMAIN channel \/ i = Len(channel) + 1 BY <1>1
<1>5. DOMAIN channel \subseteq DOMAIN channel' /\ Len(channel) + 1 \in DOMAIN channel' BY <1>1
<1> QED BY <1>1, <1>2, <1>3, <1>4, <1>5 DEF InChannel, OnceInChannel, Carries

\* The first event leaves the channel.
LEMMA TailPlaces ==
  ASSUME channel \in Seq(Event), channel # <<>>, channel' = Tail(channel), NEW m \in Ids
  PROVE  /\ InChannel(m) <=> InChannel(m)' \/ Carries(Head(channel), m)
         /\ OnceInChannel(m) => /\ OnceInChannel(m)'
                                /\ ~(InChannel(m)' /\ Carries(Head(channel), m))
<1>1. /\ DOMAIN channel = 1..Len(channel) /\ Len(channel) \in Nat \ {0}
      /\ DOMAIN channel' = 1..(Len(channel) - 1)
      /\ Head(channel) = channel[1]
  OBVIOUS
<1>2. \A i \in DOMAIN channel' : channel'[i] = channel[i + 1] /\ i + 1 \in DOMAIN channel
  BY <1>1
<1>3. \A i \in DOMAIN channel : i = 1 \/ i - 1 \in DOMAIN channel' BY <1>1
<1>4. \A i \in DOMAIN channel : i # 1 => channel'[i - 1] = channel[i]
  <2>1. \A i \in DOMAIN channel : i \in Nat /\ (i - 1) + 1 = i BY <1>1
  <2> QED BY <1>2, <1>3, <2>1
<1>5. 1 \in DOMAIN channel BY <1>1
<1>6. \A i \in DOMAIN channel' : i \in Nat /\ i + 1 # 1 BY <1>1
<1>7. InChannel(m) <=> InChannel(m)' \/ Carries(Head(channel), m)
  BY <1>1, <1>2, <1>3, <1>4, <1>5 DEF InChannel, Carries
<1>8. ASSUME OnceInChannel(m), NEW i \in DOMAIN channel', NEW j \in DOMAIN channel',
             Carries(channel'[i], m), Carries(channel'[j], m)
      PROVE  i = j
  <2>1. i + 1 = j + 1 BY <1>2, <1>8 DEF OnceInChannel, Carries
  <2> QED BY <1>6, <2>1
<1>9. ASSUME OnceInChannel(m), NEW i \in DOMAIN channel', Carries(channel'[i], m),
             Carries(Head(channel), m)
      PROVE  FALSE
  <2>1. i + 1 = 1 BY <1>1, <1>2, <1>5, <1>9 DEF OnceInChannel, Carries
  <2> QED BY <1>6, <2>1
<1> QED BY <1>7, <1>8, <1>9 DEF InChannel, OnceInChannel, Carries

\* tx.send puts the event in the channel, or loses it once the manager stopped.
LEMMA SendPlaces ==
  ASSUME channel \in Seq(Event), NEW event \in Event, Send(event), NEW m \in Ids
  PROVE  /\ InChannel(m)' => InChannel(m) \/ Carries(event, m)
         /\ InChannel(m) => InChannel(m)'
         /\ mpc # "stopped" /\ Carries(event, m) => InChannel(m)'
         /\ OnceInChannel(m) /\ ~(InChannel(m) /\ Carries(event, m)) => OnceInChannel(m)'
<1>1. CASE channel' = Append(channel, event) BY <1>1, AppendPlaces
<1>2. CASE mpc = "stopped" /\ UNCHANGED channel
  BY <1>2 DEF InChannel, OnceInChannel, Carries
<1> QED BY <1>1, <1>2 DEF Send

\* A session's message goes to the channel.
LEMMA EnqueueOwner ==
  ASSUME TypeOK, OwnerInv, NEW m \in Ids, Enqueue(m)
  PROVE  OwnerInv'
<1> DEFINE event == QueueEvent(m, next_event(doms[m]))
<1>1. event \in Event BY QueueEventType, DueTimesAreInstants DEF TypeOK
<1>2. \A n \in Ids : Carries(event, n) <=> n = m BY DEF Carries, QueueEvent, MessageEvents
<1>3. Send(event) BY DEF Enqueue
<1> HIDE DEF event
<1>4. \A n \in Ids : /\ InChannel(n)' => InChannel(n) \/ n = m
                     /\ InChannel(n) => InChannel(n)'
                     /\ mpc # "stopped" /\ n = m => InChannel(n)'
                     /\ OnceInChannel(n) /\ ~(InChannel(n) /\ n = m) => OnceInChannel(n)'
  BY <1>1, <1>2, <1>3, SendPlaces DEF TypeOK
<1> QED
  BY <1>4 DEF Enqueue, manager, workers, OwnerInv, OnDisk, NoEventAtRest, OneReport, OneDsn,
     Alone, Owned, InTask, InReport, InEvent, InOutbox, OnceInOutbox, Carries

\* A DSN goes from the attempt that wrote it to the channel.
LEMMA SendDsnOwner ==
  ASSUME TypeOK, OwnerInv, NEW m \in Ids, SendDsn(m)
  PROVE  OwnerInv'
<1>0. PICK x \in outbox[m] : Send(QueueEvent(x, next_event(doms[x]))) BY DEF SendDsn
<1>x. x \in Ids BY DEF TypeOK, Ids
<1> DEFINE event == QueueEvent(x, next_event(doms[x]))
<1>1. event \in Event BY <1>x, QueueEventType, DueTimesAreInstants DEF TypeOK
<1>2. \A n \in Ids : Carries(event, n) <=> n = x BY DEF Carries, QueueEvent, MessageEvents
<1>3. Send(event) BY <1>0
<1> HIDE DEF event
<1>4. \A n \in Ids : /\ InChannel(n)' => InChannel(n) \/ n = x
                     /\ InChannel(n) => InChannel(n)'
                     /\ mpc # "stopped" /\ n = x => InChannel(n)'
                     /\ OnceInChannel(n) /\ ~(InChannel(n) /\ n = x) => OnceInChannel(n)'
  BY <1>1, <1>2, <1>3, SendPlaces DEF TypeOK
<1>5. \A n \in Ids : /\ InOutbox(n)' <=> InOutbox(n) /\ n # x
                     /\ OnceInOutbox(n) => OnceInOutbox(n)'
  BY <1>0, <1>x DEF SendDsn, OwnerInv, OneDsn, Alone, InOutbox, OnceInOutbox, TypeOK
<1>6. InOutbox(x) BY <1>0 DEF InOutbox
<1>7. \A n \in Ids : OneDsn(n)' BY DEF SendDsn, OwnerInv, OneDsn, TypeOK, workers, manager
<1> QED
  BY <1>x, <1>4, <1>5, <1>6, <1>7
  DEF SendDsn, manager, workers, OwnerInv, OnDisk, NoEventAtRest, OneReport,
      Alone, Owned, InTask, InReport, InEvent, Carries

\* The event a task sends is its own.
LEMMA ReportOwner ==
  ASSUME TypeOK, OwnerInv, NEW m \in Ids, Report(m)
  PROVE  OwnerInv'
<1>0. PICK event \in report[m] : Send(event) BY DEF Report
<1>1. event \in Event /\ event.id = m /\ report[m] = {event}
  BY <1>0 DEF TypeOK, OwnerInv, OneReport
<1>2. \A n \in Ids : Carries(event, n) <=> n = m /\ InReport(m)
  BY <1>1 DEF Carries, InReport
<1>3. ASSUME NEW n \in Ids
      PROVE  /\ InChannel(n)' => InChannel(n) \/ Carries(event, n)
             /\ InChannel(n) => InChannel(n)'
             /\ mpc # "stopped" /\ Carries(event, n) => InChannel(n)'
             /\ OnceInChannel(n) /\ ~(InChannel(n) /\ Carries(event, n)) => OnceInChannel(n)'
  <2>1. channel \in Seq(Event) BY DEF TypeOK
  <2> QED BY <1>0, <1>1, <2>1, SendPlaces
<1>4. \A n \in Ids : /\ InChannel(n)' => InChannel(n) \/ (n = m /\ InReport(m))
                     /\ InChannel(n) => InChannel(n)'
                     /\ mpc # "stopped" /\ n = m /\ InReport(m) => InChannel(n)'
                     /\ OnceInChannel(n) /\ ~(InChannel(n) /\ n = m /\ InReport(m))
                          => OnceInChannel(n)'
  BY <1>2, <1>3
<1>5. \A n \in Ids : InReport(n)' <=> InReport(n) /\ n # m
  BY DEF Report, InReport, TypeOK
<1>6. \A n \in Ids : (InTask(n)' <=> InTask(n)) /\ OneReport(n)'
  BY DEF Report, InTask, OneReport, OwnerInv, TypeOK
<1>7. /\ UNCHANGED <<messages, hand, cur, outbox, sending, spool, seen, mpc>>
      /\ \A n \in Ids : wpc'[n] = "dsn" <=> wpc[n] = "dsn"
  BY DEF Report, manager, TypeOK
<1>8. \A n \in Ids : Alone(n)' /\ OnDisk(n)'
  BY <1>4, <1>5, <1>6, <1>7
  DEF OwnerInv, OnDisk, Alone, Owned, InEvent, InOutbox, OnceInOutbox, Carries
<1>9. NoEventAtRest' /\ \A n \in Ids : OneDsn(n)'
  BY <1>7 DEF OwnerInv, NoEventAtRest, OneDsn
<1> QED BY <1>6, <1>8, <1>9 DEF OwnerInv

\* The manager receives an event.
LEMMA RecvOwner ==
  ASSUME TypeOK, OwnerInv, Recv
  PROVE  OwnerInv'
<1>1. \A n \in Ids : /\ InChannel(n) <=> InChannel(n)' \/ Carries(Head(channel), n)
                     /\ OnceInChannel(n) => /\ OnceInChannel(n)'
                                            /\ ~(InChannel(n)' /\ Carries(Head(channel), n))
  BY TailPlaces DEF Recv, TypeOK
<1>2. cur' # None
  BY NoneAssumption DEF Recv, TypeOK
<1>3. \A n \in Ids : ~InEvent(n) /\ (InEvent(n)' <=> Carries(Head(channel), n))
  BY <1>2 DEF InEvent, Recv, OwnerInv, NoEventAtRest, Carries
<1> QED
  BY <1>1, <1>3 DEF Recv, workers, OwnerInv, OnDisk, NoEventAtRest, OneReport, OneDsn,
     Alone, Owned, InTask, InReport, InOutbox, OnceInOutbox, Carries

\* An accepted message gets a new id.
LEMMA ArriveOwner ==
  ASSUME TypeOK, OwnerInv, NEW m \in Ids, Arrive(m)
  PROVE  OwnerInv'
<1>1. PICK new : spool' = [spool EXCEPT ![m] = {new}] BY DEF Arrive
<1>2. spool[m] = {} /\ ~Owned(m) BY DEF Arrive, OwnerInv, OnDisk
<1>3. \A e \in report[m] : FALSE
  BY DEF Arrive, OwnerInv, OneReport
<1>4. UNCHANGED <<messages, hand, wpc, report, channel, cur, outbox, mpc>>
  BY DEF Arrive, manager, workers
<1>5. \A n \in Ids : /\ spool'[n] # {} <=> spool[n] # {} \/ n = m
                     /\ n \in seen' <=> n \in seen \/ n = m
                     /\ n \in sending' <=> n \in sending \/ n = m
  BY <1>1 DEF Arrive, TypeOK
<1>6. ASSUME NEW n \in Ids
      PROVE  Alone(n)' /\ OnDisk(n)' /\ OneReport(n)' /\ OneDsn(n)'
  <2>1. /\ InTask(n)' <=> InTask(n)
        /\ InReport(n)' <=> InReport(n)
        /\ InEvent(n)' <=> InEvent(n)
        /\ InChannel(n)' <=> InChannel(n)
        /\ InOutbox(n)' <=> InOutbox(n)
        /\ OnceInChannel(n)' <=> OnceInChannel(n)
        /\ OnceInOutbox(n)' <=> OnceInOutbox(n)
    BY <1>4 DEF InTask, InReport, InEvent, InChannel, InOutbox, OnceInChannel, OnceInOutbox,
       Carries
  <2>2. Alone(n)' /\ OnDisk(n)'
    BY <1>2, <1>4, <1>5, <2>1 DEF Alone, OnDisk, Owned, OwnerInv
  <2>3. OneReport(n)' /\ OneDsn(n)'
    BY <1>3, <1>4, <1>5 DEF OneReport, OneDsn, OwnerInv
  <2> QED BY <2>2, <2>3
<1> QED BY <1>4, <1>6 DEF OwnerInv, NoEventAtRest

\* The manager's loop goes on with the same messages.
LEMMA LoopOwner ==
  ASSUME OwnerInv, mpc # "stopped", mpc' = "recv" => cur' = None,
         \/ UNCHANGED cur
         \/ cur' = None /\ \A m \in Ids : ~InEvent(m),
         UNCHANGED <<messages, hand, wpc, report, channel, outbox, sending, seen>>,
         \A m \in Ids : spool'[m] # {} <=> spool[m] # {}
  PROVE  OwnerInv'
<1>1. ASSUME NEW m \in Ids PROVE InEvent(m)' <=> InEvent(m)
  BY DEF InEvent, Carries
<1>2. ASSUME NEW n \in Ids
      PROVE  Alone(n)' /\ OnDisk(n)' /\ OneReport(n)' /\ OneDsn(n)'
  <2>1. /\ InTask(n)' <=> InTask(n)
        /\ InReport(n)' <=> InReport(n)
        /\ InChannel(n)' <=> InChannel(n)
        /\ InOutbox(n)' <=> InOutbox(n)
        /\ OnceInChannel(n)' <=> OnceInChannel(n)
        /\ OnceInOutbox(n)' <=> OnceInOutbox(n)
    BY DEF InTask, InReport, InChannel, InOutbox, OnceInChannel, OnceInOutbox, Carries
  <2>2. Alone(n)' /\ OnDisk(n)'
    BY <1>1, <2>1 DEF Alone, OnDisk, Owned, OwnerInv
  <2>3. OneReport(n)' /\ OneDsn(n)'
    BY DEF OneReport, OneDsn, OwnerInv
  <2> QED BY <2>2, <2>3
<1> QED BY <1>2 DEF OwnerInv, NoEventAtRest

\* An attempt writes at most one DSN, with a new id that nobody owns.
LEMMA DsnPlaces ==
  ASSUME TypeOK, OwnerInv, NEW m \in Ids, m \in seen, outbox[m] = {},
         NEW ds, send_dsn(m, ds)
  PROVE  \E X \in SUBSET Ids :
           /\ \A x, y \in X : x = y
           /\ outbox' = [outbox EXCEPT ![m] = X]
           /\ seen' = seen \cup X
           /\ \A n \in Ids : spool'[n] # {} <=> spool[n] # {} \/ n \in X
           /\ \A n \in Ids : InOutbox(n)' <=> InOutbox(n) \/ n \in X
           /\ \A n \in Ids : OnceInOutbox(n)'
           /\ \A x \in X : x # m /\ spool[x] = {} /\ ~Owned(x) /\ report[x] = {}
<1>1. CASE UNCHANGED <<outbox, spool, seen>>
  <2>1. outbox' = [outbox EXCEPT ![m] = {}] BY <1>1 DEF TypeOK
  <2>2. \A n \in Ids : (InOutbox(n)' <=> InOutbox(n)) /\ OnceInOutbox(n)'
    BY <1>1 DEF InOutbox, OnceInOutbox, OwnerInv, Alone
  <2> WITNESS {} \in SUBSET Ids
  <2> QED BY <1>1, <2>1, <2>2
<1>2. ASSUME NEW x \in Dsns, NEW next, WriteDsn(m, x, next)
      PROVE  \E X \in SUBSET Ids :
               /\ \A y, z \in X : y = z
               /\ outbox' = [outbox EXCEPT ![m] = X]
               /\ seen' = seen \cup X
               /\ \A n \in Ids : spool'[n] # {} <=> spool[n] # {} \/ n \in X
               /\ \A n \in Ids : InOutbox(n)' <=> InOutbox(n) \/ n \in X
               /\ \A n \in Ids : OnceInOutbox(n)'
               /\ \A y \in X : y # m /\ spool[y] = {} /\ ~Owned(y) /\ report[y] = {}
  <2>1. x \in Ids BY DEF Ids
  <2>2. PICK new : spool' = [spool EXCEPT ![x] = {new}] BY <1>2 DEF WriteDsn
  <2>3. outbox' = [outbox EXCEPT ![m] = {x}] /\ seen' = seen \cup {x} /\ x \notin seen
    BY <1>2 DEF WriteDsn
  <2>4. spool[x] = {} /\ ~Owned(x) /\ report[x] = {} /\ x # m
    BY <2>1, <2>3 DEF OwnerInv, OnDisk, OneReport
  <2>5. \A n \in Ids : spool'[n] # {} <=> spool[n] # {} \/ n \in {x}
    BY <2>1, <2>2 DEF TypeOK
  <2>6. \A n \in Ids : InOutbox(n)' <=> InOutbox(n) \/ n \in {x}
    BY <2>1, <2>3 DEF TypeOK, InOutbox
  <2>7. \A n \in Ids : OnceInOutbox(n)'
    BY <2>1, <2>3, <2>4 DEF TypeOK, InOutbox, OnceInOutbox, OwnerInv, Alone, Owned
  <2>8. {x} \in SUBSET Ids BY <2>1
  <2> WITNESS {x} \in SUBSET Ids
  <2> QED BY <2>3, <2>4, <2>5, <2>6, <2>7
<1> QED BY <1>1, <1>2 DEF send_dsn, NoDsn

\* The message at hand has no DSN of an earlier attempt.
LEMMA NoOldDsn ==
  ASSUME OwnerInv, NEW m \in Ids, m \in messages \/ InEvent(m) \/ wpc[m] = "run"
  PROVE  outbox[m] = {} /\ m \in seen /\ spool[m] # {}
BY DEF OwnerInv, OneDsn, Alone, OnDisk, Owned, InTask

\* A message taken from the queue is at hand.
LEMMA TakeOwner ==
  ASSUME TypeOK, OwnerInv, NEW m \in Ids, NEW stop, TakeOrStop(m, stop),
         mpc # "stopped", hand = None, stop = "recv" => cur = None, stop # "stopped",
         UNCHANGED <<wpc, report, channel, cur, sending>>
  PROVE  OwnerInv'
<1>1. CASE m \notin messages /\ mpc' = stop /\ UNCHANGED <<messages, hand, outbox, spool, seen>>
  BY <1>1, LoopOwner
<1>2. CASE m \in messages /\ messages' = messages \ {m} /\ TryDeliver(m) /\ UNCHANGED mpc
  <2>1. outbox[m] = {} /\ m \in seen /\ spool[m] # {} BY <1>2, NoOldDsn
  <2>2. hand' = m /\ send_dsn(m, ExpireDomains(doms[m], now)) BY <1>2 DEF TryDeliver
  <2>3. PICK X \in SUBSET Ids :
           /\ \A x, y \in X : x = y
           /\ outbox' = [outbox EXCEPT ![m] = X]
           /\ seen' = seen \cup X
           /\ \A n \in Ids : spool'[n] # {} <=> spool[n] # {} \/ n \in X
           /\ \A n \in Ids : InOutbox(n)' <=> InOutbox(n) \/ n \in X
           /\ \A n \in Ids : OnceInOutbox(n)'
           /\ \A x \in X : x # m /\ spool[x] = {} /\ ~Owned(x) /\ report[x] = {}
    BY <2>1, <2>2, DsnPlaces
  <2>4. ASSUME NEW n \in Ids
        PROVE  Alone(n)' /\ OnDisk(n)' /\ OneReport(n)' /\ OneDsn(n)'
    <3>1. /\ InTask(n)' <=> InTask(n)
          /\ InReport(n)' <=> InReport(n)
          /\ InEvent(n)' <=> InEvent(n)
          /\ InChannel(n)' <=> InChannel(n)
          /\ OnceInChannel(n)' <=> OnceInChannel(n)
      BY DEF InTask, InReport, InEvent, InChannel, OnceInChannel, Carries
    <3>2. hand # n /\ (hand' = n <=> n = m) BY <2>2, QueueAssumption DEF TypeOK
    <3>3. Alone(n)' /\ OnDisk(n)'
      BY <1>2, <2>1, <2>3, <3>1, <3>2 DEF Alone, OnDisk, Owned, OwnerInv
    <3>4. OneReport(n)' BY <2>3 DEF OneReport, OwnerInv
    <3>5. OneDsn(n)' BY <2>2, <2>3, <3>2 DEF OneDsn, OwnerInv, TypeOK
    <3> QED BY <3>3, <3>4, <3>5
  <2> QED BY <1>2, <2>4 DEF OwnerInv, NoEventAtRest
<1> QED BY <1>1, <1>2 DEF TakeOrStop

\* The places that only tasks and sessions change.
LEMMA SameTaskPlaces ==
  ASSUME UNCHANGED <<wpc, report, channel, outbox>>, NEW n \in Ids
  PROVE  /\ InTask(n)' <=> InTask(n)
         /\ InReport(n)' <=> InReport(n)
         /\ InChannel(n)' <=> InChannel(n)
         /\ InOutbox(n)' <=> InOutbox(n)
         /\ OnceInChannel(n)' <=> OnceInChannel(n)
         /\ OnceInOutbox(n)' <=> OnceInOutbox(n)
BY DEF InTask, InReport, InChannel, InOutbox, OnceInChannel, OnceInOutbox, Carries

\* Queue::schedule and Queue::on_hold keep every other message.
LEMMA QueueingMessages ==
  ASSUME NEW m, NEW x, Schedule(m, x) \/ PutOnHold(m, x)
  PROVE  messages' = messages \cup {m}
BY DEF Schedule, PutOnHold

\* The event the manager handles is gone afterwards.
LEMMA HandlingEvent ==
  ASSUME TypeOK, EventAtHand, NEW type, Handling(type)
  PROVE  /\ mpc # "stopped" /\ mpc' = "recv" /\ cur' = None /\ hand = None /\ cur.type = type
         /\ type # "stop" => cur.id \in Ids
         /\ \A n \in Ids : InEvent(n) <=> type \in MessageEvents /\ cur.id = n
         /\ \A n \in Ids : ~InEvent(n)' /\ hand # n
<1>1. cur \in Event /\ cur # None BY DEF Handling, EventAtHand, TypeOK
<1> QED BY <1>1, QueueAssumption DEF Handling, Event, InEvent, Carries

\* A message of an event goes back to the queue.
LEMMA EventToQueue ==
  ASSUME TypeOK, EventAtHand, OwnerInv, NEW type \in MessageEvents, Handling(type),
         messages' = messages \cup {cur.id},
         UNCHANGED <<hand, wpc, report, channel, outbox, sending, spool, seen>>
  PROVE  OwnerInv'
<1>1. /\ mpc # "stopped" /\ mpc' = "recv" /\ cur' = None
      /\ \A n \in Ids : /\ InEvent(n) <=> cur.id = n
                        /\ ~InEvent(n)' /\ hand # n
  BY HandlingEvent
<1>2. ASSUME NEW n \in Ids
      PROVE  Alone(n)' /\ OnDisk(n)' /\ OneReport(n)' /\ OneDsn(n)'
  <2>1. Alone(n)' /\ OnDisk(n)'
    BY <1>1, SameTaskPlaces DEF Alone, OnDisk, Owned, OwnerInv
  <2>2. OneReport(n)' /\ OneDsn(n)' BY DEF OneReport, OneDsn, OwnerInv
  <2> QED BY <2>1, <2>2
<1> QED BY <1>1, <1>2 DEF OwnerInv, NoEventAtRest

\* A new message is delivered at once, or scheduled.
LEMMA HandleQueueOwner ==
  ASSUME TypeOK, EventAtHand, OwnerInv, HandleQueue
  PROVE  OwnerInv'
<1> DEFINE m == cur.id
<1>0. Handling("queue") /\ "queue" \in MessageEvents BY DEF HandleQueue, MessageEvents
<1>1. UNCHANGED <<wpc, report, channel, sending>> BY DEF HandleQueue, workers
<1>2. /\ mpc # "stopped" /\ mpc' = "recv" /\ cur' = None /\ m \in Ids
      /\ \A n \in Ids : /\ InEvent(n) <=> m = n
                        /\ ~InEvent(n)' /\ hand # n
  BY <1>0, HandlingEvent
<1>3. CASE TryDeliver(m) /\ UNCHANGED messages
  <2>1. outbox[m] = {} /\ m \in seen /\ spool[m] # {} BY <1>2, NoOldDsn
  <2>2. hand' = m /\ send_dsn(m, ExpireDomains(doms[m], now)) BY <1>3 DEF TryDeliver
  <2> HIDE DEF m
  <2>3. PICK X \in SUBSET Ids :
           /\ \A x, y \in X : x = y
           /\ outbox' = [outbox EXCEPT ![m] = X]
           /\ seen' = seen \cup X
           /\ \A n \in Ids : spool'[n] # {} <=> spool[n] # {} \/ n \in X
           /\ \A n \in Ids : InOutbox(n)' <=> InOutbox(n) \/ n \in X
           /\ \A n \in Ids : OnceInOutbox(n)'
           /\ \A x \in X : x # m /\ spool[x] = {} /\ ~Owned(x) /\ report[x] = {}
    BY <1>2, <2>1, <2>2, DsnPlaces
  <2>4. ASSUME NEW n \in Ids
        PROVE  Alone(n)' /\ OnDisk(n)' /\ OneReport(n)' /\ OneDsn(n)'
    <3>1. /\ InTask(n)' <=> InTask(n)
          /\ InReport(n)' <=> InReport(n)
          /\ InChannel(n)' <=> InChannel(n)
          /\ OnceInChannel(n)' <=> OnceInChannel(n)
      BY <1>1 DEF InTask, InReport, InChannel, OnceInChannel, Carries
    <3>3. Alone(n)' /\ OnDisk(n)'
      BY <1>1, <1>2, <1>3, <2>1, <2>2, <2>3, <3>1 DEF Alone, OnDisk, Owned, OwnerInv
    <3>4. OneReport(n)' BY <1>1, <2>3 DEF OneReport, OwnerInv
    <3>5. OneDsn(n)' BY <1>1, <1>2, <2>2, <2>3 DEF OneDsn, OwnerInv, TypeOK
    <3> QED BY <3>3, <3>4, <3>5
  <2> QED BY <1>2, <2>4 DEF OwnerInv, NoEventAtRest
<1>4. ASSUME NEW due, Schedule(m, {due}), UNCHANGED <<hand, outbox, spool, seen>>
      PROVE  OwnerInv'
  BY <1>0, <1>1, <1>4, QueueingMessages, EventToQueue
<1> QED BY <1>3, <1>4 DEF HandleQueue

\* Event::Done takes a message from the channel to the map, or to nobody if it is gone.
LEMMA HandleDoneOwner ==
  ASSUME TypeOK, EventAtHand, OwnerInv, HandleDone
  PROVE  OwnerInv'
<1>1. UNCHANGED <<hand, wpc, report, channel, outbox, sending, spool, seen>>
  BY DEF HandleDone, workers
<1>2. CASE Handling("done") /\ UNCHANGED messages
  <2>1. /\ mpc # "stopped" /\ mpc' = "recv" /\ cur' = None
        /\ \A n \in Ids : ~InEvent(n)
    BY <1>2, HandlingEvent DEF MessageEvents
  <2> QED BY <1>1, <1>2, <2>1, LoopOwner
<1>3. ASSUME NEW x, Handling("retry") /\ Schedule(cur.id, x) PROVE OwnerInv'
  BY <1>1, <1>3, QueueingMessages, EventToQueue DEF MessageEvents
<1>4. ASSUME NEW x, Handling("hold") /\ PutOnHold(cur.id, x) PROVE OwnerInv'
  BY <1>1, <1>4, QueueingMessages, EventToQueue DEF MessageEvents
<1> QED BY <1>2, <1>3, <1>4 DEF HandleDone

\* A message is dropped from the queue together with its file.
LEMMA DropOwner ==
  ASSUME TypeOK, OwnerInv, NEW m \in Ids, RemoveMessage(m),
         mpc # "stopped", mpc' = "recv" => cur' = None,
         \/ messages' = messages \ {m} /\ m \in messages /\ UNCHANGED hand
         \/ hand = m /\ hand' = None /\ UNCHANGED messages,
         outbox[m] = {},
         \A n \in Ids : InEvent(n)' <=> InEvent(n),
         UNCHANGED <<wpc, report, channel, outbox, sending, seen>>
  PROVE  OwnerInv'
<1>1. \A n \in Ids : spool'[n] # {} <=> spool[n] # {} /\ n # m
  BY DEF RemoveMessage, TypeOK
<1>2. \A n \in Ids : n # m => (n \in messages' <=> n \in messages) /\ (hand' = n <=> hand = n)
  BY QueueAssumption
<1>3. m \notin messages' /\ hand' # m /\ (m \in messages \/ hand = m)
  BY QueueAssumption DEF OwnerInv, Alone
<1>4. ASSUME NEW n \in Ids
      PROVE  Alone(n)' /\ OnDisk(n)' /\ OneReport(n)' /\ OneDsn(n)'
  <2>1. Alone(n)' /\ OnDisk(n)'
    BY <1>1, <1>2, <1>3, SameTaskPlaces DEF Alone, OnDisk, Owned, OwnerInv
  <2>2. OneReport(n)' /\ OneDsn(n)' BY <1>1, <1>2 DEF OneReport, OneDsn, OwnerInv
  <2> QED BY <2>1, <2>2
<1> QED BY <1>4 DEF OwnerInv, NoEventAtRest

\* Saving leaves the files there are.
LEMMA SavePlaces ==
  ASSUME TypeOK, NEW m \in Ids, NEW ds, SaveChanges(m, ds)
  PROVE  \A n \in Ids : spool'[n] # {} <=> spool[n] # {}
<1>1. \A n \in Ids : n # m => spool'[n] = spool[n] BY DEF SaveChanges, TypeOK
<1>2. spool'[m] = {SavedDomains(file, ds) : file \in spool[m]} BY DEF SaveChanges, TypeOK
<1> HIDE DEF SaveChanges
<1>3. spool'[m] # {} <=> spool[m] # {} BY <1>2
<1> QED BY <1>1, <1>3

\* The management requests.
LEMMA RequestOwner ==
  ASSUME TypeOK, EventAtHand, OwnerInv, HandleCancel \/ HandleCancelItem \/ HandleRetry
  PROVE  OwnerInv'
<1>1. UNCHANGED <<hand, wpc, report, channel, outbox, sending, seen>>
  BY DEF HandleCancel, HandleCancelItem, HandleRetry, workers
<1>2. PICK type \in {"cancel", "cancel_item", "retry_now"} : Handling(type)
  BY DEF HandleCancel, HandleCancelItem, HandleRetry
<1>3. /\ mpc # "stopped" /\ mpc' = "recv" /\ cur' = None /\ cur.id \in Ids /\ hand = None
      /\ \A n \in Ids : ~InEvent(n) /\ ~InEvent(n)'
  BY <1>2, HandlingEvent DEF MessageEvents
<1>4. CASE UNCHANGED <<messages, spool>> BY <1>1, <1>3, <1>4, LoopOwner
<1>5. ASSUME NEW ds, SaveChanges(cur.id, ds), UNCHANGED messages PROVE OwnerInv'
  BY <1>1, <1>3, <1>5, SavePlaces, LoopOwner
<1>6. ASSUME cur.id \in messages, messages' = messages \ {cur.id}, RemoveMessage(cur.id)
      PROVE  OwnerInv'
  <2>1. outbox[cur.id] = {} BY <1>3, <1>6, NoOldDsn
  <2> QED BY <1>1, <1>3, <1>6, <2>1, DropOwner
<1>7. CASE HandleCancel BY <1>4, <1>6, <1>7 DEF HandleCancel
<1>8. CASE HandleCancelItem BY <1>4, <1>5, <1>6, <1>8 DEF HandleCancelItem
<1>9. CASE HandleRetry BY <1>4, <1>5, <1>9 DEF HandleRetry
<1> QED BY <1>7, <1>8, <1>9

\* Event::Stop drops the map and the channel.
LEMMA StopOwner ==
  ASSUME TypeOK, EventAtHand, OwnerInv, HandleStop
  PROVE  OwnerInv'
<1>1. UNCHANGED <<hand, wpc, report, outbox, sending, spool, seen>>
  BY DEF HandleStop, workers
<1>2. messages' = {} /\ channel' = <<>> /\ cur' = None /\ mpc' = "stopped" BY DEF HandleStop
<1>3. ASSUME NEW n \in Ids
      PROVE  Alone(n)' /\ OnDisk(n)' /\ OneReport(n)' /\ OneDsn(n)'
  <2>1. /\ InTask(n)' <=> InTask(n)
        /\ InReport(n)' <=> InReport(n)
        /\ InOutbox(n)' <=> InOutbox(n)
        /\ OnceInOutbox(n)' <=> OnceInOutbox(n)
        /\ ~InEvent(n)' /\ ~InChannel(n)' /\ OnceInChannel(n)'
    BY <1>1, <1>2 DEF InTask, InReport, InChannel, InEvent, InOutbox, OnceInChannel,
       OnceInOutbox, Carries
  <2>2. Alone(n)' /\ OnDisk(n)' BY <1>1, <1>2, <2>1 DEF Alone, OnDisk, Owned, OwnerInv
  <2>3. OneReport(n)' /\ OneDsn(n)' BY <1>1 DEF OneReport, OneDsn, OwnerInv
  <2> QED BY <2>2, <2>3
<1> QED BY <1>2, <1>3 DEF OwnerInv, NoEventAtRest

\* The message of an attempt has no task yet, also none that is still to report.
LEMMA AttemptHasNoTask ==
  ASSUME TypeOK, OwnerInv, NEW m \in Ids, hand = m
  PROVE  report[m] = {} /\ wpc[m] = "none"
<1>1. spool[m] # {} /\ ~InReport(m) /\ ~InTask(m) BY DEF OwnerInv, OnDisk, Owned, Alone
<1>2. \A e \in report[m] : e.type \in {"retry", "hold"} /\ e.id = m
  BY <1>1 DEF OwnerInv, OneReport
<1>3. report[m] = {} BY <1>1, <1>2 DEF InReport, Carries, MessageEvents
<1> QED BY <1>1, <1>3 DEF OwnerInv, OneReport, InTask, TypeOK

\* The end of try_deliver: the message is removed, queued again or given to a task.
LEMMA DecidedOwner ==
  ASSUME TypeOK, OwnerInv, NEW m \in Ids, Expired(m) \/ Requeue(m) \/ Spawn(m),
         hand = m => mpc # "stopped"
  PROVE  OwnerInv'
<1>1. /\ hand = m /\ hand' = None /\ outbox[m] = {} /\ mpc # "stopped"
      /\ UNCHANGED <<mpc, cur, report, channel, outbox, sending, seen>>
  BY DEF Expired, Requeue, Spawn, Decided, workers
<1>2. \A n \in Ids : (hand = n <=> n = m) /\ hand' # n BY <1>1, QueueAssumption
<1>3. \A n \in Ids : InEvent(n)' <=> InEvent(n) BY <1>1 DEF InEvent, Carries
<1>4. CASE Expired(m)
  BY <1>1, <1>3, <1>4, DropOwner DEF Expired, workers, OwnerInv, NoEventAtRest
<1>5. CASE Requeue(m)
  <2>1. messages' = messages \cup {m} /\ UNCHANGED wpc
    BY <1>5, QueueingMessages DEF Requeue, workers
  <2>2. \A n \in Ids : spool'[n] # {} <=> spool[n] # {} BY <1>5, SavePlaces DEF Requeue
  <2>3. ASSUME NEW n \in Ids
        PROVE  Alone(n)' /\ OnDisk(n)' /\ OneReport(n)' /\ OneDsn(n)'
    <3>1. Alone(n)' /\ OnDisk(n)'
      BY <1>1, <1>2, <1>3, <2>1, <2>2, SameTaskPlaces DEF Alone, OnDisk, Owned, OwnerInv
    <3>2. OneReport(n)' /\ OneDsn(n)'
      BY <1>1, <1>2, <2>1, <2>2 DEF OneReport, OneDsn, OwnerInv
    <3> QED BY <3>1, <3>2
  <2> QED BY <1>1, <2>3 DEF OwnerInv, NoEventAtRest
<1>6. CASE Spawn(m)
  <2>1. wpc' = [wpc EXCEPT ![m] = "run"] /\ UNCHANGED <<messages, spool>> BY <1>6 DEF Spawn
  <2>2. report[m] = {} /\ wpc[m] = "none" BY <1>1, AttemptHasNoTask
  <2>3. ASSUME NEW n \in Ids
        PROVE  Alone(n)' /\ OnDisk(n)' /\ OneReport(n)' /\ OneDsn(n)'
    <3>1. /\ InTask(n)' <=> InTask(n) \/ n = m
          /\ InReport(n)' <=> InReport(n)
          /\ InChannel(n)' <=> InChannel(n)
          /\ InOutbox(n)' <=> InOutbox(n)
          /\ OnceInChannel(n)' <=> OnceInChannel(n)
          /\ OnceInOutbox(n)' <=> OnceInOutbox(n)
      BY <1>1, <2>1 DEF InTask, InReport, InChannel, InOutbox, OnceInChannel, OnceInOutbox,
         Carries, TypeOK
    <3>2. Alone(n)' /\ OnDisk(n)'
      BY <1>1, <1>2, <1>3, <2>1, <3>1 DEF Alone, OnDisk, Owned, OwnerInv
    <3>3. OneReport(n)' /\ OneDsn(n)'
      BY <1>1, <1>2, <2>1, <2>2 DEF OneReport, OneDsn, OwnerInv, TypeOK
    <3> QED BY <3>2, <3>3
  <2> QED BY <1>1, <2>3 DEF OwnerInv, NoEventAtRest
<1> QED BY <1>4, <1>5, <1>6

\* The DSN that ends an attempt leaves the message with its task.
LEMMA EndDomainsOwner ==
  ASSUME TypeOK, OwnerInv, NEW m \in Ids, EndDomains(m)
  PROVE  OwnerInv'
<1>0. wpc[m] = "run" /\ wpc' = [wpc EXCEPT ![m] = "dsn"]
  BY DEF EndDomains, Running
<1>1. UNCHANGED <<messages, hand, cur, channel, mpc, report, sending>>
  BY DEF EndDomains, manager
<1>2. outbox[m] = {} /\ m \in seen /\ spool[m] # {} BY <1>0, NoOldDsn
<1>3. PICK X \in SUBSET Ids :
         /\ \A x, y \in X : x = y
         /\ outbox' = [outbox EXCEPT ![m] = X]
         /\ seen' = seen \cup X
         /\ \A n \in Ids : spool'[n] # {} <=> spool[n] # {} \/ n \in X
         /\ \A n \in Ids : InOutbox(n)' <=> InOutbox(n) \/ n \in X
         /\ \A n \in Ids : OnceInOutbox(n)'
         /\ \A x \in X : x # m /\ spool[x] = {} /\ ~Owned(x) /\ report[x] = {}
  BY <1>2, DsnPlaces DEF EndDomains
<1>4. ASSUME NEW n \in Ids
      PROVE  Alone(n)' /\ OnDisk(n)' /\ OneReport(n)' /\ OneDsn(n)'
  <2>1. /\ InTask(n)' <=> InTask(n)
        /\ InReport(n)' <=> InReport(n)
        /\ InEvent(n)' <=> InEvent(n)
        /\ InChannel(n)' <=> InChannel(n)
        /\ OnceInChannel(n)' <=> OnceInChannel(n)
    BY <1>0, <1>1 DEF InTask, InReport, InEvent, InChannel, OnceInChannel, Carries, TypeOK
  <2>2. Alone(n)' /\ OnDisk(n)'
    BY <1>1, <1>2, <1>3, <2>1 DEF Alone, OnDisk, Owned, OwnerInv
  <2>3. OneReport(n)'
    <3>1. wpc'[n] = "send" <=> wpc[n] = "send" BY <1>0 DEF TypeOK
    <3>2. report[n] # {} => (spool'[n] # {} <=> spool[n] # {}) /\ n \in Ids BY <1>3
    <3> QED BY <1>1, <1>3, <3>1, <3>2 DEF OneReport, OwnerInv
  <2>4. CASE n = m
    <3>1. outbox'[n] = X /\ wpc'[n] = "dsn" BY <1>0, <1>3, <2>4 DEF TypeOK
    <3>2. OneDsn(n)' BY <1>3, <3>1 DEF OneDsn
    <3> QED BY <2>2, <2>3, <3>2
  <2>5. CASE n # m
    <3>1. outbox'[n] = outbox[n] /\ wpc'[n] = wpc[n] BY <1>0, <1>3, <2>5 DEF TypeOK
    <3>2. OneDsn(n)' BY <1>1, <3>1 DEF OneDsn, OwnerInv
    <3> QED BY <2>2, <2>3, <3>2
  <2> QED BY <2>4, <2>5
<1> QED BY <1>1, <1>4 DEF OwnerInv, NoEventAtRest

\* The save that ends an attempt hands the message to the report of the task.
LEMMA SaveOwner ==
  ASSUME TypeOK, OwnerInv, NEW m \in Ids, Save(m)
  PROVE  OwnerInv'
<1>0. wpc[m] = "dsn" /\ outbox[m] = {} /\ wpc' = [wpc EXCEPT ![m] = "send"]
  BY DEF Save
<1>1. UNCHANGED <<messages, hand, cur, channel, mpc, outbox, sending, seen>>
  BY DEF Save, manager
<1>2. spool[m] # {} /\ m \in seen /\ InTask(m)
  BY <1>0 DEF OwnerInv, OnDisk, Owned, InTask
<1>3. PICK event :
        /\ report' = [report EXCEPT ![m] = {event}]
        /\ event.id = m
        /\ \/ event.type \in {"hold", "retry"} /\ SaveChanges(m, doms[m])
           \/ event.type = "done" /\ RemoveMessage(m)
  <2>1. ASSUME NEW due, NEW lims, NEW type \in {"hold", "retry"}, SaveChanges(m, doms[m]),
               report' = [report EXCEPT ![m] = {Result(type, m, due, lims)}]
        PROVE  \E e : /\ report' = [report EXCEPT ![m] = {e}]
                      /\ e.id = m
                      /\ e.type \in {"hold", "retry"} /\ SaveChanges(m, doms[m])
    <3>1. Result(type, m, due, lims).id = m /\ Result(type, m, due, lims).type = type
      BY DEF Result
    <3> QED BY <2>1, <3>1
  <2>2. ASSUME RemoveMessage(m), report' = [report EXCEPT ![m] = {Result("done", m, {}, {})}]
        PROVE  \E e : /\ report' = [report EXCEPT ![m] = {e}]
                      /\ e.id = m
                      /\ e.type = "done" /\ RemoveMessage(m)
    <3>1. Result("done", m, {}, {}).id = m /\ Result("done", m, {}, {}).type = "done"
      BY DEF Result
    <3> QED BY <2>2, <3>1
  <2> QED BY <2>1, <2>2 DEF Save
<1>4. /\ \A n \in Ids : n # m => (spool'[n] # {} <=> spool[n] # {})
      /\ spool'[m] # {} <=> event.type # "done"
  <2>1. CASE SaveChanges(m, doms[m]) /\ event.type # "done"
    <3>1. \A n \in Ids : spool'[n] # {} <=> spool[n] # {} BY <2>1, SavePlaces
    <3> QED BY <1>2, <2>1, <3>1
  <2>2. CASE RemoveMessage(m) /\ event.type = "done" BY <2>2 DEF RemoveMessage, TypeOK
  <2> QED BY <1>3, <2>1, <2>2
<1>5. ASSUME NEW n \in Ids
      PROVE  Alone(n)' /\ OnDisk(n)' /\ OneReport(n)' /\ OneDsn(n)'
  <2>1. /\ InTask(n)' <=> InTask(n) /\ n # m
        /\ InEvent(n)' <=> InEvent(n)
        /\ InChannel(n)' <=> InChannel(n)
        /\ InOutbox(n)' <=> InOutbox(n)
        /\ OnceInChannel(n)' <=> OnceInChannel(n)
        /\ OnceInOutbox(n)' <=> OnceInOutbox(n)
    BY <1>0, <1>1 DEF InTask, InEvent, InChannel, InOutbox, OnceInChannel, OnceInOutbox,
       Carries, TypeOK
  <2>2. /\ n # m => (InReport(n)' <=> InReport(n))
        /\ InReport(m)' <=> event.type # "done"
    BY <1>3 DEF InReport, Carries, TypeOK, MessageEvents
  <2>3. Alone(n)' /\ OnDisk(n)'
    BY <1>1, <1>2, <1>4, <2>1, <2>2 DEF Alone, OnDisk, Owned, OwnerInv
  <2>4. OneReport(n)'
    <3>1. CASE n = m BY <1>0, <1>1, <1>2, <1>3, <1>4, <3>1 DEF OneReport, TypeOK
    <3>2. CASE n # m
      <4>1. wpc'[n] = wpc[n] /\ report'[n] = report[n] BY <1>0, <1>3, <3>2 DEF TypeOK
      <4> QED BY <1>1, <1>4, <3>2, <4>1 DEF OneReport, OwnerInv
    <3> QED BY <3>1, <3>2
  <2>5. OneDsn(n)'
    <3>1. CASE n = m BY <1>0, <1>1, <3>1 DEF OneDsn
    <3>2. CASE n # m
      <4>1. wpc'[n] = wpc[n] BY <1>0, <3>2 DEF TypeOK
      <4> QED BY <1>1, <4>1 DEF OneDsn, OwnerInv
    <3> QED BY <3>1, <3>2
  <2> QED BY <2>3, <2>4, <2>5
<1> QED BY <1>1, <1>5 DEF OwnerInv, NoEventAtRest

\* A restart gives every message on disk to the manager, and to nobody else.
LEMMA RestartOwner ==
  ASSUME TypeOK, OwnerInv, Restart
  PROVE  OwnerInv'
<1>1. /\ UNCHANGED <<spool, seen>>
      /\ messages' = {m \in Ids : spool[m] # {}}
      /\ channel' = <<>> /\ mpc' = "recv" /\ cur' = None /\ hand' = None
      /\ wpc' = [m \in Ids |-> "none"]
      /\ report' = [m \in Ids |-> {}]
      /\ outbox' = [m \in Ids |-> {}]
      /\ sending' = {}
  BY DEF Restart
<1>2. ASSUME NEW n \in Ids
      PROVE  Alone(n)' /\ OnDisk(n)' /\ OneReport(n)' /\ OneDsn(n)'
  <2>1. /\ ~InTask(n)' /\ ~InReport(n)' /\ ~InEvent(n)' /\ ~InChannel(n)' /\ ~InOutbox(n)'
        /\ OnceInChannel(n)' /\ OnceInOutbox(n)' /\ hand' # n
    BY <1>1, QueueAssumption DEF InTask, InReport, InEvent, InChannel, InOutbox,
       OnceInChannel, OnceInOutbox
  <2>2. Alone(n)' /\ OnDisk(n)' BY <1>1, <2>1 DEF Alone, OnDisk, Owned, OwnerInv
  <2>3. OneReport(n)' /\ OneDsn(n)' BY <1>1 DEF OneReport, OneDsn
  <2> QED BY <2>2, <2>3
<1> QED BY <1>1, <1>2 DEF OwnerInv, NoEventAtRest

-----------------------------------------------------------------------------
(* Every step keeps the owners                                             *)

\* The manager stops between two attempts.
NoAttemptAfterStop == mpc = "stopped" => hand = None

\* No attempt starts once the manager has stopped.
LEMMA StopStep ==
  ASSUME TypeOK, NoAttemptAfterStop, [Next]_vars
  PROVE  NoAttemptAfterStop'
<1>1. CASE UNCHANGED <<mpc, hand>> BY <1>1 DEF NoAttemptAfterStop
<1>2. CASE mpc' # "stopped" BY <1>2 DEF NoAttemptAfterStop
<1>3. CASE hand' = None BY <1>3 DEF NoAttemptAfterStop
<1>4. ASSUME NEW m \in Ids, NextDue(m) \/ NextOnHold(m) PROVE NoAttemptAfterStop'
  BY <1>4 DEF NextDue, NextOnHold, TakeOrStop, AfterDue, NoAttemptAfterStop
<1>5. CASE NoneDue \/ NoneOnHold
  BY <1>5 DEF NoneDue, NoneOnHold, AfterDue, NoAttemptAfterStop, manager
<1> QED
  BY <1>1, <1>2, <1>3, <1>4, <1>5
  DEF Next, vars, ManagerStep, ManagerNext, WorkerStep, SendDsn, Recv, WakeUp,
      Expired, Requeue, Spawn, Decided, Handling, HandleQueue, HandleDone,
      HandleCancel, HandleCancelItem, HandleRetry, HandleStop, Skip, Throttled, Connect,
      Outcome, EndDomains, Save, Report, Exit, Arrive, Enqueue, Request, Restart, Tick,
      manager

\* A request carries no message.
LEMMA SendRequestOwner ==
  ASSUME TypeOK, OwnerInv, Request
  PROVE  OwnerInv'
<1>1. PICK event \in RequestEvents : Send(event) BY DEF Request
<1>2. event \in Event
  <2>1. RequestEvents \subseteq Event BY QueueAssumption DEF RequestEvents, Event, TypeOK
  <2> QED BY <1>1, <2>1
<1>3. \A n \in Ids : ~Carries(event, n) BY <1>1 DEF Carries, RequestEvents, MessageEvents
<1>4. \A n \in Ids : /\ InChannel(n)' <=> InChannel(n)
                     /\ OnceInChannel(n) => OnceInChannel(n)'
  BY <1>1, <1>2, <1>3, SendPlaces DEF TypeOK
<1>5. UNCHANGED <<messages, hand, wpc, report, cur, outbox, sending, spool, seen, mpc>>
  BY DEF Request, manager, workers
<1>6. ASSUME NEW n \in Ids
      PROVE  Alone(n)' /\ OnDisk(n)' /\ OneReport(n)' /\ OneDsn(n)'
  <2>1. /\ InTask(n)' <=> InTask(n)
        /\ InReport(n)' <=> InReport(n)
        /\ InEvent(n)' <=> InEvent(n)
        /\ InOutbox(n)' <=> InOutbox(n)
        /\ OnceInOutbox(n)' <=> OnceInOutbox(n)
    BY <1>5 DEF InTask, InReport, InEvent, InOutbox, OnceInOutbox, Carries
  <2>2. Alone(n)' /\ OnDisk(n)' BY <1>4, <1>5, <2>1 DEF Alone, OnDisk, Owned, OwnerInv
  <2>3. OneReport(n)' /\ OneDsn(n)' BY <1>5 DEF OneReport, OneDsn, OwnerInv
  <2> QED BY <2>2, <2>3
<1> QED BY <1>5, <1>6 DEF OwnerInv, NoEventAtRest

\* Every step keeps the owners.
LEMMA OwnerStep ==
  ASSUME TypeOK, EventAtHand, NoAttemptAfterStop, OwnerInv, [Next]_vars
  PROVE  OwnerInv'
<1>1. CASE UNCHANGED places BY <1>1, SamePlaces
<1>2. CASE UNCHANGED vars
  BY <1>1, <1>2 DEF vars, places, manager, workers
<1>3. CASE ManagerStep
  <2>1. ASSUME NEW m \in Ids, NextDue(m) PROVE OwnerInv'
    BY <2>1, TakeOwner DEF NextDue, AfterDue, workers
  <2>2. ASSUME NEW m \in Ids, NextOnHold(m) PROVE OwnerInv'
    BY <2>2, TakeOwner DEF NextOnHold, workers
  <2>3. CASE WakeUp
    BY <2>3, LoopOwner DEF WakeUp, workers, OwnerInv, NoEventAtRest, InEvent
  <2>4. CASE NoneDue BY <2>4, LoopOwner DEF NoneDue, AfterDue, workers, manager
  <2>5. CASE NoneOnHold BY <2>5, LoopOwner DEF NoneOnHold, workers, manager
  <2>6. ASSUME NEW m \in Ids, Expired(m) \/ Requeue(m) \/ Spawn(m) PROVE OwnerInv'
    BY <2>6, DecidedOwner, QueueAssumption DEF NoAttemptAfterStop
  <2> QED
    BY <1>3, <2>1, <2>2, <2>3, <2>4, <2>5, <2>6, RecvOwner, HandleQueueOwner,
       HandleDoneOwner, RequestOwner, StopOwner DEF ManagerStep, ManagerNext
<1>4. ASSUME NEW m \in Ids, WorkerStep(m) PROVE OwnerInv'
  <2>1. ASSUME NEW d \in Domains,
               Skip(m, d) \/ Throttled(m, d) \/ Connect(m, d) \/ Outcome(m, d)
        PROVE  UNCHANGED places
    BY <2>1 DEF Skip, Throttled, Connect, Outcome, manager, places
  <2> QED
    BY <1>1, <1>4, <2>1, EndDomainsOwner, SaveOwner, ReportOwner DEF WorkerStep
<1>5. CASE Exit \/ Tick
  BY <1>1, <1>5 DEF Exit, Tick, places, manager, workers
<1> QED
  BY <1>2, <1>3, <1>4, <1>5, SendDsnOwner, ArriveOwner, EnqueueOwner, SendRequestOwner,
     RestartOwner DEF Next

\* The places of the invariant are the owners of the specification.
LEMMA OwnersAre ==
  ASSUME TypeOK, NEW m \in Ids
  PROVE  /\ Owners(m) # {} <=> Owned(m)
         /\ \A x \in Owners(m) :
               \/ m \in messages /\ x = <<"queue">>
               \/ hand = m /\ x = <<"attempt">>
               \/ InTask(m) /\ x = <<"task", wpc[m]>>
               \/ InReport(m) /\ x = <<"report">>
               \/ \E i \in DOMAIN channel : Carries(channel[i], m) /\ x = <<"channel", i>>
               \/ InEvent(m) /\ x = <<"event">>
               \/ \E n \in Ids : m \in outbox[n] /\ x = <<"dsn", n>>
               \/ m \in sending /\ x = <<"session">>
<1>1. \A x : x \in Owners(m) <=>
               \/ m \in messages /\ x = <<"queue">>
               \/ hand = m /\ x = <<"attempt">>
               \/ InTask(m) /\ x = <<"task", wpc[m]>>
               \/ InReport(m) /\ x = <<"report">>
               \/ \E i \in DOMAIN channel : Carries(channel[i], m) /\ x = <<"channel", i>>
               \/ InEvent(m) /\ x = <<"event">>
               \/ \E n \in Ids : m \in outbox[n] /\ x = <<"dsn", n>>
               \/ m \in sending /\ x = <<"session">>
  BY DEF Owners, InTask, InReport, InEvent
<1>2. Owners(m) # {} <=> Owned(m)
  BY <1>1 DEF Owned, InChannel, InOutbox
<1> QED BY <1>1, <1>2

\* A message that is alone in its place has one owner at most.
LEMMA AloneIsOne ==
  ASSUME TypeOK, NEW m \in Ids, Alone(m)
  PROVE  Cardinality(Owners(m)) <= 1
<1>1. ASSUME NEW x \in Owners(m), NEW y \in Owners(m) PROVE x = y
  BY OwnersAre DEF Alone, InChannel, InOutbox, OnceInChannel, OnceInOutbox
<1>2. CASE Owners(m) = {} BY <1>2, FS_EmptySet
<1>3. ASSUME NEW x \in Owners(m) PROVE Cardinality(Owners(m)) <= 1
  <2>1. Owners(m) = {x} BY <1>1
  <2>2. Cardinality({x}) = 1 BY FS_Singleton
  <2> QED BY <2>1, <2>2
<1> QED BY <1>2, <1>3

\* What holds of the queue in every reachable state.
QueueInv == TypeOK /\ EventAtHand /\ NoAttemptAfterStop /\ OwnerInv

\* The invariant of owners holds always.
LEMMA QueueInvariant == Spec => []QueueInv
<1>1. Init => QueueInv
  BY TypeInit, OwnerInit DEF Init, NoAttemptAfterStop, QueueInv
<1>2. QueueInv /\ [Next]_vars => QueueInv'
  BY TypeStep, EventAtHandStep, StopStep, OwnerStep DEF QueueInv
<1> QED BY <1>1, <1>2, PTL DEF Spec

\* For any number of messages, channel capacity and limits: a message is in at
\* most one of the places it can be delivered from.
THEOREM MessageHasOneOwner == Spec => []OneOwner
<1>1. QueueInv => OneOwner BY AloneIsOne DEF QueueInv, OwnerInv, OneOwner
<1> QED BY <1>1, QueueInvariant, PTL

\* For any number of messages and restarts: what is in memory has its file, and
\* a running manager has every file's message in memory.
THEOREM AcceptedIsOwned == Spec => []OwnedIffOnDisk
<1>1. QueueInv => OwnedIffOnDisk
  BY OwnersAre DEF QueueInv, OwnerInv, OnDisk, OwnedIffOnDisk
<1> QED BY <1>1, QueueInvariant, PTL

-----------------------------------------------------------------------------
(* The limiters                                                            *)

Tasks == {m \in Ids : wpc[m] # "none"}
Connected == {m \in Ids : conn[m] # {}}

LimitInv ==
  /\ IsFiniteSet(Tasks) /\ IsFiniteSet(Connected)
  /\ SenderLimit = 0 => exiting = 0
  /\ LimitersExact

\* A step that starts, ends or leaves the tasks, and a step of the connections.
LEMMA SpawnLimit ==
  ASSUME TypeOK, OwnerInv, LimitInv, NEW m \in Ids, Spawn(m)
  PROVE  LimitInv'
<1>1. wpc[m] = "none" BY AttemptHasNoTask DEF Spawn, Decided
<1>2. Tasks' = Tasks \cup {m} /\ m \notin Tasks BY <1>1 DEF Tasks, Spawn, TypeOK
<1>3. IsFiniteSet(Tasks') /\ Cardinality(Tasks') = Cardinality(Tasks) + 1
  BY <1>2, FS_AddElement DEF LimitInv
<1>4. UNCHANGED <<conn, rcptflight, exiting, Connected>> BY DEF Spawn, Connected
<1>5. Cardinality(Tasks) \in Nat BY FS_CardinalityType DEF LimitInv
<1> QED
  BY <1>3, <1>4, <1>5, QueueAssumption
  DEF LimitInv, LimitersExact, Tasks, Connected, Spawn, AcquireSender, SenderFull, TypeOK

\* The end of a task releases its slot.
LEMMA ReportLimit ==
  ASSUME TypeOK, LimitInv, NEW m \in Ids, Report(m)
  PROVE  LimitInv'
<1>2. Tasks' = Tasks \ {m} /\ m \in Tasks BY DEF Tasks, Report, TypeOK
<1>3. IsFiniteSet(Tasks') /\ Cardinality(Tasks') = Cardinality(Tasks) - 1
  BY <1>2, FS_RemoveElement DEF LimitInv
<1>4. UNCHANGED <<conn, rcptflight, inflight, Connected>> BY DEF Report, Connected
<1>5. Cardinality(Tasks) \in Nat BY FS_CardinalityType DEF LimitInv
<1> QED
  BY <1>3, <1>4, <1>5, QueueAssumption
  DEF LimitInv, LimitersExact, Tasks, Connected, Report, TypeOK

\* A connection takes the slot of its limiter and its outcome releases it.
LEMMA ConnectionLimit ==
  ASSUME TypeOK, LimitInv, NEW m \in Ids, NEW d \in Domains, Connect(m, d) \/ Outcome(m, d)
  PROVE  LimitInv'
<1>1. UNCHANGED <<wpc, inflight, exiting, Tasks>> BY DEF Connect, Outcome, Tasks
<1>2. Cardinality(Connected) \in Nat BY FS_CardinalityType DEF LimitInv
<1>3. CASE Connect(m, d)
  <2>1. Connected' = Connected \cup {m} /\ m \notin Connected
    BY <1>3 DEF Connected, Connect, Visit, Running, TypeOK
  <2>2. IsFiniteSet(Connected') /\ Cardinality(Connected') = Cardinality(Connected) + 1
    BY <2>1, FS_AddElement DEF LimitInv
  <2> QED
    BY <1>1, <1>2, <1>3, <2>2, QueueAssumption
    DEF LimitInv, LimitersExact, Tasks, Connected, Connect, RcptFull, TypeOK
<1>4. CASE Outcome(m, d)
  <2>1. Connected' = Connected \ {m} /\ m \in Connected
    BY <1>4 DEF Connected, Outcome, TypeOK
  <2>2. IsFiniteSet(Connected') /\ Cardinality(Connected') = Cardinality(Connected) - 1
    BY <2>1, FS_RemoveElement DEF LimitInv
  <2> QED
    BY <1>1, <1>2, <1>4, <2>2, QueueAssumption
    DEF LimitInv, LimitersExact, Tasks, Connected, Outcome, TypeOK
<1> QED BY <1>3, <1>4

\* A step that starts and ends no task and no connection keeps the limiters.
LEMMA SameLimits ==
  ASSUME LimitInv, UNCHANGED <<conn, limits>>, Tasks' = Tasks
  PROVE  LimitInv'
BY DEF LimitInv, LimitersExact, Tasks, Connected, limits

\* Every step keeps the limiters exact.
LEMMA LimitStep ==
  ASSUME QueueInv, LimitInv, [Next]_vars
  PROVE  LimitInv'
<1> USE DEF QueueInv
<1>1. CASE UNCHANGED <<wpc, conn, limits>> BY <1>1, SameLimits DEF Tasks
<1>2. ASSUME NEW m \in Ids, EndDomains(m) \/ Save(m) PROVE LimitInv'
  <2>1. UNCHANGED <<conn, limits>> BY <1>2 DEF EndDomains, Save
  <2>2. Tasks' = Tasks BY <1>2 DEF EndDomains, Save, Running, Tasks, TypeOK
  <2> QED BY <2>1, <2>2, SameLimits
<1>3. CASE Exit
  <2>1. UNCHANGED <<Tasks, Connected>> BY <1>3 DEF Exit, Tasks, Connected, workers
  <2>2. UNCHANGED <<wpc, conn>> BY <1>3 DEF Exit, workers
  <2>3. IsFiniteSet(Tasks) => Cardinality(Tasks) \in Nat BY FS_CardinalityType
  <2> QED BY <1>3, <2>1, <2>2, <2>3, QueueAssumption
          DEF Exit, LimitInv, LimitersExact, TypeOK, Tasks, Connected
<1>4. CASE Restart
  <2>1. Tasks' = {} /\ Connected' = {} BY <1>4 DEF Restart, Tasks, Connected
  <2>2. /\ IsFiniteSet(Tasks') /\ Cardinality(Tasks') = 0
        /\ IsFiniteSet(Connected') /\ Cardinality(Connected') = 0
    BY <2>1, FS_EmptySet
  <2> QED BY <1>4, <2>2, QueueAssumption
          DEF Restart, LimitInv, LimitersExact, Tasks, Connected
<1>5. CASE UNCHANGED vars BY <1>1, <1>5 DEF vars, workers
<1>6. CASE ManagerStep
  <2>1. CASE UNCHANGED <<wpc, conn, limits>> BY <1>1, <2>1
  <2> QED
    BY <1>6, <2>1, SpawnLimit DEF ManagerStep, ManagerNext, Recv, WakeUp, NoneDue, NoneOnHold,
       HandleQueue, HandleDone, HandleCancel, HandleCancelItem, HandleRetry, HandleStop,
       NextDue, NextOnHold, Expired, Requeue, workers
<1>7. ASSUME NEW m \in Ids, WorkerStep(m) PROVE LimitInv'
  <2>1. ASSUME NEW d \in Domains, Skip(m, d) \/ Throttled(m, d)
        PROVE  UNCHANGED <<wpc, conn, limits>>
    BY <2>1 DEF Skip, Throttled
  <2> QED BY <1>1, <1>2, <1>7, <2>1, ConnectionLimit, ReportLimit DEF WorkerStep
<1>8. ASSUME NEW m \in Ids, SendDsn(m) \/ Arrive(m) \/ Enqueue(m) PROVE LimitInv'
  BY <1>1, <1>8 DEF SendDsn, Arrive, Enqueue, workers
<1>9. CASE Request \/ Tick BY <1>1, <1>9 DEF Request, Tick, workers
<1> QED BY <1>3, <1>4, <1>5, <1>6, <1>7, <1>8, <1>9 DEF Next

\* For any limits and any number of tasks: the limiters count exactly the
\* InFlight guards that are alive and never exceed max_concurrent.
THEOREM LimitsKept == Spec => []LimitersExact
<1>1. Init => LimitInv
  <2>1. Init => Tasks = {} /\ Connected = {} BY DEF Init, Tasks, Connected
  <2>2. Init => /\ IsFiniteSet(Tasks) /\ Cardinality(Tasks) = 0
                /\ IsFiniteSet(Connected) /\ Cardinality(Connected) = 0
    BY <2>1, FS_EmptySet
  <2> QED BY <2>2, QueueAssumption
          DEF Init, LimitInv, LimitersExact, Tasks, Connected
<1>2. QueueInv /\ LimitInv /\ [Next]_vars => LimitInv' BY LimitStep
<1>3. LimitInv => LimitersExact BY DEF LimitInv
<1> QED BY <1>1, <1>2, <1>3, QueueInvariant, PTL DEF Spec

-----------------------------------------------------------------------------
(* The spool files                                                         *)

\* Whoever owns the attempt at a message may hold changes that are not saved.
Busy(m) == hand = m \/ InTask(m)

\* What the file says about the domains in memory: a finished domain is the same
\* in memory, and so is one without the dirty bit, up to a retry time that has
\* passed.
FileOf(file, ds, t) ==
  \A d \in Domains :
     /\ file[d].changed = FALSE
     /\ ~IsPending(file[d]) => ds[d].status = file[d].status
     /\ ds[d].changed = FALSE =>
          /\ ds[d].status = file[d].status
          /\ NotBefore(ds[d].retry, t) = NotBefore(file[d].retry, t)

\* The updates of an attempt: they leave finished domains, and set the dirty bit
\* of what they change.
Keeps(old, new) ==
  \A d \in Domains :
     /\ ~IsPending(old[d]) => new[d].status = old[d].status
     /\ new[d].changed = FALSE => /\ old[d].changed = FALSE
                                  /\ new[d].status = old[d].status
                                  /\ new[d].retry = old[d].retry

FileInv(m) ==
  /\ \A f, g \in spool[m] : f = g
  /\ \A f \in spool[m] : FileOf(f, doms[m], now)
  /\ ~Busy(m) => \A d \in Domains : doms[m][d].changed = FALSE
  /\ conn[m] # {} => wpc[m] = "run"
  /\ \A d \in conn[m] : IsPending(doms[m][d])

FilesInv == \A m \in Ids : FileInv(m)

\* The updates of the expiry pass, of the DSNs and of the requests.
LEMMA UpdatesKeep ==
  ASSUME NEW ds \in [Domains -> Domain]
  PROVE  /\ Keeps(ds, ds)
         /\ \A t : Keeps(ds, ExpireDomains(ds, t))
         /\ Keeps(ds, DoubleBounce(ds))
         /\ \A next : Keeps(ds, Notified(ds, next))
         /\ \A D : Keeps(ds, Cancelled(ds, D))
         /\ \A D, t, g : Keeps(ds, RetryDomains(ds, D, t, g))
<1>1. \A d \in Domains : ds[d] \in Domain OBVIOUS
<1>2. Keeps(ds, ds) BY <1>1 DEF Keeps
<1>3. \A t : Keeps(ds, ExpireDomains(ds, t)) BY <1>1 DEF Keeps, ExpireDomains, Domain
<1>4. Keeps(ds, DoubleBounce(ds)) BY <1>1 DEF Keeps, DoubleBounce, Domain
<1>5. ASSUME NEW next PROVE Keeps(ds, Notified(ds, next))
  BY <1>1 DEF Keeps, Notified, Domain
<1>6. ASSUME NEW D PROVE Keeps(ds, Cancelled(ds, D)) BY <1>1 DEF Keeps, Cancelled, Domain
<1>7. ASSUME NEW D, NEW t, NEW g PROVE Keeps(ds, RetryDomains(ds, D, t, g))
  BY <1>1 DEF Keeps, RetryDomains, Domain
<1> QED BY <1>2, <1>3, <1>4, <1>5, <1>6, <1>7

\* What keeps the final statuses keeps them in two steps.
LEMMA KeepsTwice ==
  ASSUME NEW a, NEW b, NEW c, Keeps(a, b), Keeps(b, c)
  PROVE  Keeps(a, c)
BY DEF Keeps, IsPending

\* A file that agrees with the domains agrees with what an attempt makes of them.
LEMMA KeepsFile ==
  ASSUME NEW f, NEW ds, NEW new, NEW t, FileOf(f, ds, t), Keeps(ds, new)
  PROVE  FileOf(f, new, t)
BY DEF FileOf, Keeps, IsPending

\* save_changes brings the file up to date and keeps what was finished in it.
LEMMA SavedFile ==
  ASSUME NEW f \in [Domains -> Domain], NEW ds \in [Domains -> Domain], NEW t,
         FileOf(f, ds, t)
  PROVE  /\ FileOf(SavedDomains(f, ds), Unchanged(ds), t)
         /\ \A d \in Domains : /\ Unchanged(ds)[d].changed = FALSE
                               /\ Unchanged(ds)[d].status = ds[d].status
                               /\ ~IsPending(f[d]) => SavedDomains(f, ds)[d].status = f[d].status
<1>1. ASSUME NEW d \in Domains
      PROVE  /\ Unchanged(ds)[d] = [ds[d] EXCEPT !.changed = FALSE]
             /\ SavedDomains(f, ds)[d] = IF ds[d].changed
                 THEN [ds[d] EXCEPT !.expires = f[d].expires, !.changed = FALSE] ELSE f[d]
             /\ ds[d] \in Domain /\ f[d] \in Domain
  BY DEF Unchanged, SavedDomains
<1>2. ASSUME NEW d \in Domains
      PROVE  /\ Unchanged(ds)[d].changed = FALSE
             /\ Unchanged(ds)[d].status = ds[d].status
             /\ Unchanged(ds)[d].retry = ds[d].retry
             /\ SavedDomains(f, ds)[d].changed = FALSE
             /\ ds[d].changed = TRUE =>
                  /\ SavedDomains(f, ds)[d].status = ds[d].status
                  /\ SavedDomains(f, ds)[d].retry = ds[d].retry
             /\ ds[d].changed = FALSE => SavedDomains(f, ds)[d] = f[d]
             /\ ds[d].changed \in BOOLEAN
  BY <1>1 DEF FileOf, Domain
<1> HIDE DEF FileOf
<1>3. FileOf(SavedDomains(f, ds), Unchanged(ds), t)
  BY <1>2 DEF FileOf, IsPending
<1>4. ASSUME NEW d \in Domains, ~IsPending(f[d])
      PROVE  SavedDomains(f, ds)[d].status = f[d].status
  BY <1>2, <1>4 DEF FileOf
<1> QED BY <1>2, <1>3, <1>4

\* read_queue reads what is in the file.
LEMMA LoadedFile ==
  ASSUME NEW f \in [Domains -> Domain], NEW t \in Nat, FileOf(f, f, t)
  PROVE  FileOf(f, LoadedDomains(f, t), t)
         /\ \A d \in Domains : LoadedDomains(f, t)[d].changed = FALSE
<1>1. ASSUME NEW d \in Domains
      PROVE  /\ LoadedDomains(f, t)[d].status = f[d].status
             /\ LoadedDomains(f, t)[d].changed = f[d].changed
             /\ LoadedDomains(f, t)[d].retry = NotBefore(f[d].retry, t)
             /\ f[d].retry \in Nat
  BY DEF LoadedDomains, Domain
<1> QED BY <1>1 DEF FileOf, NotBefore

\* A step that leaves the domains and the files alone, and takes no attempt away
\* with unsaved changes.
LEMMA SameFiles ==
  ASSUME FilesInv, NEW m \in Ids, now' = now, doms'[m] = doms[m], spool'[m] = spool[m],
         conn'[m] = conn[m], Busy(m) => Busy(m)',
         conn[m] # {} => wpc'[m] = wpc[m]
  PROVE  FileInv(m)'
BY DEF FilesInv, FileInv, FileOf, Busy

\* The owner decides whether a message can have unsaved changes or a connection.
LEMMA NoConnection ==
  ASSUME TypeOK, OwnerInv, FilesInv, NEW m \in Ids,
         m \in messages \/ hand = m \/ spool[m] = {} \/ InEvent(m) \/ wpc[m] # "run"
  PROVE  conn[m] = {}
BY DEF OwnerInv, FilesInv, FileInv, Alone, OnDisk, Owned, InTask

\* send_dsn after the updates ds of the domains of m, whose attempt goes on.
LEMMA SendDsnFiles ==
  ASSUME TypeOK, OwnerInv, FilesInv, NEW m \in Ids, m \in seen, conn[m] = {},
         NEW ds \in [Domains -> Domain], Keeps(doms[m], ds), send_dsn(m, ds),
         Busy(m)', UNCHANGED <<now, conn>>,
         \A n \in Ids \ {m} : (Busy(n) => Busy(n)') /\ wpc'[n] = wpc[n]
  PROVE  FilesInv'
<1>1. ASSUME NEW new, Keeps(ds, new), doms'[m] = new, spool'[m] = spool[m]
      PROVE  FileInv(m)'
  <2>1. Keeps(doms[m], new) BY <1>1, KeepsTwice
  <2>2. \A f \in spool[m] : FileOf(f, new, now) BY <2>1, KeepsFile DEF FilesInv, FileInv
  <2>3. (\A f \in spool'[m] : FileOf(f, doms'[m], now')) BY <1>1, <2>2
  <2> QED BY <1>1, <2>3 DEF FilesInv, FileInv, FileOf
<1>2. ASSUME NEW new, Keeps(ds, new), NoDsn(m, new) PROVE FilesInv'
  <2>1. doms' = [doms EXCEPT ![m] = new] /\ spool' = spool BY <1>2 DEF NoDsn
  <2>2. doms'[m] = new BY <2>1 DEF TypeOK
  <2>3. FileInv(m)' BY <1>1, <1>2, <2>1, <2>2
  <2>4. ASSUME NEW n \in Ids \ {m} PROVE FileInv(n)'
    <3>1. doms'[n] = doms[n] BY <2>1 DEF TypeOK
    <3> QED BY <2>1, <3>1, SameFiles
  <2> QED BY <2>3, <2>4 DEF FilesInv
<1>3. ASSUME NEW new, Keeps(ds, new), NEW x \in Dsns, WriteDsn(m, x, new) PROVE FilesInv'
  <2>0. x \in Ids /\ x # m /\ x \notin seen BY <1>3 DEF WriteDsn, Ids
  <2>1. PICK d \in Domains :
          LET dsn == NewDomains({d}, now, now + ExpireAfter + Grace, now + ExpireAfter)
          IN /\ doms' = [doms EXCEPT ![m] = new, ![x] = dsn]
             /\ spool' = [spool EXCEPT ![x] = {dsn}]
    BY <1>3 DEF WriteDsn
  <2> DEFINE dsn == NewDomains({d}, now, now + ExpireAfter + Grace, now + ExpireAfter)
  <2>2. FileOf(dsn, dsn, now) /\ \A e \in Domains : dsn[e].changed = FALSE
    BY DEF FileOf, NewDomains, NoDomains, IsPending
  <2>3. doms' = [doms EXCEPT ![m] = new, ![x] = dsn] /\ spool' = [spool EXCEPT ![x] = {dsn}]
    BY <2>1
  <2> HIDE DEF dsn
  <2>4. /\ doms'[x] = dsn /\ spool'[x] = {dsn} /\ doms'[m] = new /\ spool'[m] = spool[m]
        /\ \A n \in Ids : n # x => spool'[n] = spool[n]
        /\ \A n \in Ids : n # x /\ n # m => doms'[n] = doms[n]
    BY <2>0, <2>3 DEF TypeOK
  <2>5. FileInv(m)' BY <1>1, <1>3, <2>4
  <2>6. FileInv(x)'
    <3>1. conn[x] = {} BY <2>0, NoConnection DEF OwnerInv, OnDisk
    <3> QED BY <2>2, <2>4, <3>1 DEF FileInv, FileOf
  <2>7. ASSUME NEW n \in Ids, n # m, n # x PROVE FileInv(n)' BY <2>4, <2>7, SameFiles
  <2> QED BY <2>5, <2>6, <2>7 DEF FilesInv
<1> QED BY <1>2, <1>3, UpdatesKeep DEF send_dsn

\* save_changes after the updates ds.
LEMMA SaveFiles ==
  ASSUME TypeOK, FilesInv, NEW m \in Ids, conn[m] = {},
         NEW ds \in [Domains -> Domain], Keeps(doms[m], ds), SaveChanges(m, ds),
         UNCHANGED <<now, conn>>,
         \A n \in Ids \ {m} : (Busy(n) => Busy(n)') /\ wpc'[n] = wpc[n]
  PROVE  /\ FilesInv'
         /\ \A old \in spool[m], new \in spool'[m] : \A d \in Domains :
               ~IsPending(old[d]) => new[d].status = old[d].status
<1>1. ASSUME NEW f \in spool[m]
      PROVE  /\ FileOf(SavedDomains(f, ds), Unchanged(ds), now)
             /\ \A d \in Domains : /\ Unchanged(ds)[d].changed = FALSE
                                   /\ ~IsPending(f[d]) =>
                                        SavedDomains(f, ds)[d].status = f[d].status
  <2>1. f \in [Domains -> Domain] BY DEF TypeOK
  <2>2. FileOf(f, ds, now) BY KeepsFile DEF FilesInv, FileInv
  <2> QED BY <2>1, <2>2, SavedFile
<1>2. doms'[m] = Unchanged(ds) /\ spool'[m] = {SavedDomains(f, ds) : f \in spool[m]}
  BY DEF SaveChanges, TypeOK
<1>3. \A n \in Ids \ {m} : doms'[n] = doms[n] /\ spool'[n] = spool[n]
  BY DEF SaveChanges, TypeOK
<1>4. FileInv(m)'
  <2>1. \A f, g \in spool[m] : f = g BY DEF FilesInv, FileInv
  <2>2. \A f, g \in spool'[m] : f = g BY <1>2, <2>1
  <2>3. \A f \in spool'[m] : FileOf(f, doms'[m], now) BY <1>1, <1>2
  <2>4. \A d \in Domains : doms'[m][d].changed = FALSE
    BY <1>2 DEF Unchanged, Domain
  <2> QED BY <2>2, <2>3, <2>4 DEF FileInv, FileOf
<1>5. \A n \in Ids \ {m} : FileInv(n)' BY <1>3, SameFiles
<1>6. ASSUME NEW old \in spool[m], NEW new \in spool'[m], NEW d \in Domains, ~IsPending(old[d])
      PROVE  new[d].status = old[d].status
  <2>1. new = SavedDomains(old, ds) BY <1>2 DEF FilesInv, FileInv
  <2> QED BY <1>1, <1>6, <2>1
<1> QED BY <1>4, <1>5, <1>6 DEF FilesInv

\* The file is removed with the message.
LEMMA RemoveFiles ==
  ASSUME TypeOK, FilesInv, NEW m \in Ids, conn[m] = {}, RemoveMessage(m),
         UNCHANGED <<now, conn>>,
         \A n \in Ids \ {m} : (Busy(n) => Busy(n)') /\ wpc'[n] = wpc[n]
  PROVE  FilesInv'
<1>1. doms'[m] = NoDomains /\ spool'[m] = {} BY DEF RemoveMessage, TypeOK
<1>2. \A n \in Ids \ {m} : doms'[n] = doms[n] /\ spool'[n] = spool[n]
  BY DEF RemoveMessage, TypeOK
<1>3. FileInv(m)' BY <1>1 DEF FileInv, NoDomains
<1>4. \A n \in Ids \ {m} : FileInv(n)' BY <1>2, SameFiles
<1> QED BY <1>3, <1>4 DEF FilesInv

\* A delivery task changes a domain only while it is pending.
LEMMA VisitFiles ==
  ASSUME TypeOK, FilesInv, NEW m \in Ids, NEW d \in Domains,
         Throttled(m, d) \/ Connect(m, d) \/ Outcome(m, d) \/ Skip(m, d)
  PROVE  FilesInv'
<1>1. /\ UNCHANGED <<now, spool, wpc, hand>> /\ \A n \in Ids : Busy(n)' <=> Busy(n)
      /\ doms[m] \in [Domains -> Domain]
  BY DEF Throttled, Connect, Outcome, Skip, manager, Busy, InTask, TypeOK
<1>2. ASSUME NEW dom, IsPending(doms[m][d]), dom.changed = TRUE, Busy(m),
             doms' = [doms EXCEPT ![m][d] = dom],
             conn'[m] = {}, \A n \in Ids : n # m => conn'[n] = conn[n]
      PROVE  FilesInv'
  <2>1. /\ doms'[m][d] = dom
        /\ \A e \in Domains : e # d => doms'[m][e] = doms[m][e]
        /\ \A n \in Ids : n # m => doms'[n] = doms[n]
    BY <1>2 DEF TypeOK
  <2>2. Keeps(doms[m], doms'[m]) BY <1>2, <2>1 DEF Keeps
  <2>3. \A f \in spool[m] : FileOf(f, doms'[m], now)
    BY <2>2, KeepsFile DEF FilesInv, FileInv
  <2>4. FileInv(m)' BY <1>1, <1>2, <2>3 DEF FilesInv, FileInv, FileOf
  <2>5. \A n \in Ids : n # m => FileInv(n)' BY <1>1, <1>2, <2>1, SameFiles
  <2> QED BY <2>4, <2>5 DEF FilesInv
<1>3. CASE Throttled(m, d)
  <2>1. /\ IsPending(doms[m][d]) /\ Busy(m) /\ conn' = conn /\ conn[m] = {}
        /\ doms' = [doms EXCEPT ![m][d] = ConcurrencyLimited(doms[m][d])]
    BY <1>3 DEF Throttled, IsDueForDelivery, Visit, Running, Busy, InTask, TypeOK
  <2>2. ConcurrencyLimited(doms[m][d]).changed = TRUE
    BY <1>1 DEF ConcurrencyLimited, Domain
  <2> QED BY <1>2, <2>1, <2>2
<1>4. CASE Connect(m, d)
  <2>1. /\ IsPending(doms[m][d]) /\ wpc[m] = "run" /\ doms' = doms
        /\ conn'[m] = {d} /\ \A n \in Ids : n # m => conn'[n] = conn[n]
    BY <1>4 DEF Connect, IsDueForDelivery, Visit, Running, TypeOK
  <2>2. FileInv(m)' BY <1>1, <2>1 DEF FilesInv, FileInv, FileOf
  <2>3. \A n \in Ids : n # m => FileInv(n)' BY <1>1, <2>1, SameFiles
  <2> QED BY <2>2, <2>3 DEF FilesInv
<1>5. CASE Outcome(m, d)
  <2>1. /\ IsPending(doms[m][d]) /\ Busy(m) /\ conn'[m] = {}
        /\ \A n \in Ids : n # m => conn'[n] = conn[n]
    BY <1>5 DEF Outcome, FilesInv, FileInv, Busy, InTask, TypeOK
  <2>2. /\ \A t : RateLimited(doms[m][d], t).changed = TRUE
        /\ \A status, t : set_status(doms[m][d], status, t).changed = TRUE
    BY <1>1 DEF RateLimited, set_status, Domain
  <2>3. \/ \E t : doms' = [doms EXCEPT ![m][d] = RateLimited(doms[m][d], t)]
        \/ \E status, t : doms' = [doms EXCEPT ![m][d] = set_status(doms[m][d], status, t)]
    BY <1>5 DEF Outcome, TypeOK
  <2>4. ASSUME NEW t, doms' = [doms EXCEPT ![m][d] = RateLimited(doms[m][d], t)]
        PROVE  FilesInv'
    BY <1>2, <2>1, <2>2, <2>4
  <2>5. ASSUME NEW status, NEW t,
               doms' = [doms EXCEPT ![m][d] = set_status(doms[m][d], status, t)]
        PROVE  FilesInv'
    BY <1>2, <2>1, <2>2, <2>5
  <2> QED BY <2>3, <2>4, <2>5
<1>6. CASE Skip(m, d)
  <2>1. UNCHANGED <<doms, conn>> BY <1>6 DEF Skip
  <2> QED BY <1>1, <2>1, SameFiles DEF FilesInv
<1> QED BY <1>3, <1>4, <1>5, <1>6

\* A new message is saved as it is in memory.
LEMMA ArriveFiles ==
  ASSUME TypeOK, OwnerInv, FilesInv, NEW m \in Ids, Arrive(m)
  PROVE  FilesInv'
<1>1. PICK r, n, e :
        /\ doms' = [doms EXCEPT ![m] = NewDomains(Domains, r, n, e)]
        /\ spool' = [spool EXCEPT ![m] = {NewDomains(Domains, r, n, e)}]
  BY DEF Arrive
<1> DEFINE new == NewDomains(Domains, r, n, e)
<1>2. FileOf(new, new, now) /\ \A d \in Domains : new[d].changed = FALSE
  BY DEF FileOf, NewDomains, NoDomains, IsPending
<1>3. doms' = [doms EXCEPT ![m] = new] /\ spool' = [spool EXCEPT ![m] = {new}] BY <1>1
<1> HIDE DEF new
<1>4. /\ doms'[m] = new /\ spool'[m] = {new}
      /\ \A x \in Ids \ {m} : doms'[x] = doms[x] /\ spool'[x] = spool[x]
  BY <1>3 DEF TypeOK
<1>5. UNCHANGED <<now, hand, wpc, conn>> BY DEF Arrive, manager, workers
<1>6. conn[m] = {} BY NoConnection DEF OwnerInv, OnDisk, Arrive
<1>7. FileInv(m)' BY <1>2, <1>4, <1>5, <1>6 DEF FileInv, FileOf
<1>8. \A x \in Ids \ {m} : FileInv(x)' BY <1>4, <1>5, SameFiles DEF Busy, InTask
<1> QED BY <1>7, <1>8 DEF FilesInv

\* A restart takes into memory what the files say.
LEMMA RestartFiles ==
  ASSUME TypeOK, FilesInv, Restart
  PROVE  FilesInv'
<1>1. /\ UNCHANGED <<now, spool>>
      /\ \A m \in Ids : /\ conn'[m] = {}
                        /\ doms'[m] = IF spool[m] = {} THEN NoDomains
                             ELSE LoadedDomains(CHOOSE file \in spool[m] : TRUE, now)
  BY DEF Restart
<1>2. ASSUME NEW m \in Ids PROVE FileInv(m)'
  <2>1. CASE spool[m] = {} BY <1>1, <2>1 DEF FileInv, NoDomains
  <2>2. ASSUME NEW f \in spool[m] PROVE FileInv(m)'
    <3>1. spool[m] = {f} BY DEF FilesInv, FileInv
    <3>2. (CHOOSE file \in spool[m] : TRUE) = f BY <3>1
    <3>3. f \in [Domains -> Domain] /\ now \in Nat BY DEF TypeOK
    <3>4. FileOf(f, f, now) BY DEF FilesInv, FileInv, FileOf
    <3>5. /\ FileOf(f, LoadedDomains(f, now), now)
          /\ \A d \in Domains : LoadedDomains(f, now)[d].changed = FALSE
      BY <3>3, <3>4, LoadedFile
    <3>6. doms'[m] = LoadedDomains(f, now) BY <1>1, <3>1, <3>2
    <3> QED BY <1>1, <3>1, <3>5, <3>6 DEF FileInv, FileOf
  <2> QED BY <2>1, <2>2
<1> QED BY <1>2 DEF FilesInv

\* The clock: a retry time that has passed in the file and in memory stays so.
LEMMA TickFiles ==
  ASSUME TypeOK, FilesInv, Tick
  PROVE  FilesInv'
<1>1. ASSUME NEW a \in Nat, NEW b \in Nat, NotBefore(a, now) = NotBefore(b, now)
      PROVE  NotBefore(a, now') = NotBefore(b, now')
  BY <1>1 DEF NotBefore, Tick, TypeOK
<1>2. UNCHANGED <<doms, spool, conn, wpc, hand>> BY DEF Tick, manager, workers
<1>3. ASSUME NEW m \in Ids, NEW f \in spool[m], FileOf(f, doms[m], now)
      PROVE  FileOf(f, doms[m], now')
  <2>1. \A d \in Domains : f[d].retry \in Nat /\ doms[m][d].retry \in Nat
    BY DEF TypeOK, Domain
  <2> QED BY <1>1, <1>3, <2>1 DEF FileOf
<1>4. ASSUME NEW m \in Ids PROVE \A f \in spool'[m] : FileOf(f, doms'[m], now')
  BY <1>2, <1>3 DEF FilesInv, FileInv
<1>5. ASSUME NEW m \in Ids PROVE FileInv(m)'
  BY <1>2, <1>4 DEF FilesInv, FileInv, FileOf, Busy, InTask
<1> QED BY <1>5 DEF FilesInv

\* try_deliver starts: the expiry pass and send_dsn.
LEMMA TryDeliverFiles ==
  ASSUME TypeOK, OwnerInv, FilesInv, NEW m \in Ids, m \in messages \/ InEvent(m),
         TryDeliver(m), hand = None, UNCHANGED <<now, conn, wpc>>
  PROVE  FilesInv'
<1> DEFINE ds == ExpireDomains(doms[m], now)
<1>1. doms[m] \in [Domains -> Domain] /\ now \in Nat BY DEF TypeOK
<1>2. ds \in [Domains -> Domain] /\ Keeps(doms[m], ds) BY <1>1, UpdatesAreDomains, UpdatesKeep
<1>3. hand' = m /\ send_dsn(m, ds) BY DEF TryDeliver
<1> HIDE DEF ds
<1>4. m \in seen /\ conn[m] = {} BY NoOldDsn, NoConnection
<1>5. Busy(m)' /\ \A n \in Ids : Busy(n) => Busy(n)' BY <1>3, QueueAssumption DEF Busy, InTask
<1> QED BY <1>2, <1>3, <1>4, <1>5, SendDsnFiles

\* The end of try_deliver.
LEMMA DecidedFiles ==
  ASSUME TypeOK, OwnerInv, FilesInv, NEW m \in Ids, Expired(m) \/ Requeue(m) \/ Spawn(m)
  PROVE  FilesInv'
<1>1. hand = m /\ hand' = None /\ UNCHANGED <<now, conn>>
  BY DEF Expired, Requeue, Spawn, Decided, workers
<1>2. conn[m] = {} BY <1>1, NoConnection
<1>3. doms[m] \in [Domains -> Domain] /\ Keeps(doms[m], doms[m]) BY UpdatesKeep DEF TypeOK
<1>4. \A n \in Ids : n # m => wpc'[n] = wpc[n] /\ (Busy(n) => Busy(n)')
  BY <1>1 DEF Expired, Requeue, Spawn, workers, Busy, InTask, TypeOK
<1>5. CASE Expired(m) BY <1>1, <1>2, <1>4, <1>5, RemoveFiles DEF Expired
<1>6. CASE Requeue(m) BY <1>1, <1>2, <1>3, <1>4, <1>6, SaveFiles DEF Requeue
<1>7. CASE Spawn(m)
  <2>1. Busy(m)' /\ UNCHANGED <<doms, spool>> BY <1>7 DEF Spawn, Busy, InTask, TypeOK
  <2>2. ASSUME NEW n \in Ids PROVE FileInv(n)' BY <1>1, <1>2, <1>4, <2>1, SameFiles
  <2> QED BY <2>2 DEF FilesInv
<1> QED BY <1>5, <1>6, <1>7

\* The requests of the management API.
LEMMA RequestFiles ==
  ASSUME TypeOK, EventAtHand, OwnerInv, FilesInv,
         HandleCancel \/ HandleCancelItem \/ HandleRetry
  PROVE  FilesInv'
<1> DEFINE m == cur.id
<1>1. UNCHANGED <<now, hand, wpc, conn>>
  BY DEF HandleCancel, HandleCancelItem, HandleRetry, workers
<1>2. PICK type \in {"cancel", "cancel_item", "retry_now"} : Handling(type)
  BY DEF HandleCancel, HandleCancelItem, HandleRetry
<1>3. m \in Ids BY <1>2, HandlingEvent
<1>4. \A n \in Ids : Busy(n)' <=> Busy(n) BY <1>1 DEF Busy, InTask
<1>5. doms[m] \in [Domains -> Domain] /\ cur.match \in SUBSET Domains /\ cur.due \in SUBSET Nat
      /\ now \in Nat
  BY <1>2, <1>3 DEF TypeOK, Event, Handling, EventAtHand
<1>6. CASE UNCHANGED <<doms, spool>> BY <1>1, <1>4, <1>6, SameFiles DEF FilesInv
<1> HIDE DEF m
<1>7. ASSUME m \in messages, NEW ds \in [Domains -> Domain], Keeps(doms[m], ds),
             SaveChanges(m, ds)
      PROVE  FilesInv'
  <2>1. conn[m] = {} BY <1>3, <1>7, NoConnection
  <2> QED BY <1>1, <1>3, <1>4, <1>7, <2>1, SaveFiles
<1>8. ASSUME m \in messages, RemoveMessage(m) PROVE FilesInv'
  <2>1. conn[m] = {} BY <1>3, <1>8, NoConnection
  <2> QED BY <1>1, <1>3, <1>4, <1>8, <2>1, RemoveFiles
<1>9. CASE HandleCancel BY <1>6, <1>8, <1>9 DEF HandleCancel, m
<1>10. CASE HandleCancelItem
  <2>1. Keeps(doms[m], Cancelled(doms[m], cur.match)) BY <1>5, UpdatesKeep
  <2>2. Cancelled(doms[m], cur.match) \in [Domains -> Domain] BY <1>5, UpdatesAreDomains
  <2> QED BY <1>6, <1>7, <1>8, <1>10, <2>1, <2>2 DEF HandleCancelItem, m
<1>11. CASE HandleRetry
  <2>1. ASSUME NEW t \in cur.due
        PROVE  /\ Keeps(doms[m], RetryDomains(doms[m], cur.match, t, Grace))
               /\ RetryDomains(doms[m], cur.match, t, Grace) \in [Domains -> Domain]
    <3>1. t \in Nat /\ Grace \in Nat BY <1>5, QueueAssumption
    <3>2. RetryDomains(doms[m], cur.match, t, Grace) \in [Domains -> Domain]
      BY <1>5, <3>1, UpdatesAreDomains
    <3> QED BY <1>5, <3>2, UpdatesKeep
  <2> QED BY <1>6, <1>7, <1>11, <2>1 DEF HandleRetry, m
<1> QED BY <1>9, <1>10, <1>11

\* The end of a delivery task.
LEMMA TaskEndFiles ==
  ASSUME TypeOK, OwnerInv, FilesInv, NEW m \in Ids, EndDomains(m) \/ Save(m) \/ Report(m)
  PROVE  FilesInv'
<1>1. UNCHANGED <<now, hand, conn>> BY DEF EndDomains, Save, Report, manager
<1>2. conn[m] = {} BY NoConnection DEF EndDomains, Running, Save, Report
<1>3. doms[m] \in [Domains -> Domain] /\ Keeps(doms[m], doms[m]) BY UpdatesKeep DEF TypeOK
<1>4. \A n \in Ids : n # m => wpc'[n] = wpc[n] /\ (Busy(n) => Busy(n)')
  BY <1>1 DEF EndDomains, Save, Report, Busy, InTask, TypeOK
<1>5. CASE EndDomains(m)
  <2>1. m \in seen BY <1>5, NoOldDsn DEF EndDomains, Running
  <2>2. Busy(m)' BY <1>5 DEF EndDomains, Busy, InTask, TypeOK
  <2> QED BY <1>1, <1>2, <1>3, <1>4, <1>5, <2>1, <2>2, SendDsnFiles DEF EndDomains
<1>6. CASE Save(m)
  <2>1. CASE SaveChanges(m, doms[m]) BY <1>1, <1>2, <1>3, <1>4, <2>1, SaveFiles
  <2>2. CASE RemoveMessage(m) BY <1>1, <1>2, <1>4, <2>2, RemoveFiles
  <2> QED BY <1>6, <2>1, <2>2 DEF Save
<1>7. CASE Report(m)
  <2>1. UNCHANGED <<doms, spool>> /\ (Busy(m) => Busy(m)')
    BY <1>1, <1>7 DEF Report, Busy, InTask, TypeOK
  <2>2. ASSUME NEW n \in Ids PROVE FileInv(n)' BY <1>1, <1>2, <1>4, <2>1, SameFiles
  <2> QED BY <2>2 DEF FilesInv
<1> QED BY <1>5, <1>6, <1>7

\* Every step keeps the files and the memory in agreement.
LEMMA FilesStep ==
  ASSUME QueueInv, FilesInv, [Next]_vars
  PROVE  FilesInv'
<1> USE DEF QueueInv
<1>1. CASE UNCHANGED <<now, doms, spool, conn, wpc, hand>>
  BY <1>1, SameFiles DEF FilesInv, Busy, InTask
<1>2. CASE UNCHANGED vars BY <1>1, <1>2 DEF vars, manager, workers
<1>3. ASSUME NEW m \in Ids, NextDue(m) \/ NextOnHold(m) PROVE FilesInv'
  <2>1. hand = None /\ UNCHANGED <<now, conn, wpc>> BY <1>3 DEF NextDue, NextOnHold, workers
  <2>2. PICK stop : TakeOrStop(m, stop) BY <1>3 DEF NextDue, NextOnHold
  <2> QED BY <1>1, <2>1, <2>2, TryDeliverFiles DEF TakeOrStop
<1>4. CASE HandleQueue
  <2>1. hand = None /\ UNCHANGED <<now, conn, wpc>> BY <1>4 DEF HandleQueue, Handling, workers
  <2>2. cur.id \in Ids /\ InEvent(cur.id)
    BY <1>4, HandlingEvent DEF HandleQueue, MessageEvents
  <2> QED BY <1>1, <1>4, <2>1, <2>2, TryDeliverFiles DEF HandleQueue
<1>5. CASE ManagerStep
  <2>1. CASE \/ Recv \/ WakeUp \/ NoneDue \/ NoneOnHold \/ HandleDone \/ HandleStop
    BY <1>1, <2>1 DEF Recv, WakeUp, NoneDue, NoneOnHold, HandleDone, HandleStop, manager,
       workers
  <2> QED BY <1>3, <1>4, <1>5, <2>1, DecidedFiles, RequestFiles DEF ManagerStep, ManagerNext
<1>6. ASSUME NEW m \in Ids, WorkerStep(m) PROVE FilesInv'
  BY <1>6, VisitFiles, TaskEndFiles DEF WorkerStep
<1>7. ASSUME NEW m \in Ids, SendDsn(m) \/ Enqueue(m) PROVE FilesInv'
  BY <1>1, <1>7 DEF SendDsn, Enqueue, manager, workers
<1>8. CASE Exit \/ Request BY <1>1, <1>8 DEF Exit, Request, manager, workers
<1> QED
  BY <1>2, <1>5, <1>6, <1>7, <1>8, ArriveFiles, RestartFiles, TickFiles DEF Next

\* Files and memory agree always.
LEMMA FilesInvariant == Spec => []FilesInv
<1>1. Init => FilesInv BY DEF Init, FilesInv, FileInv, NoDomains
<1>2. QueueInv /\ FilesInv /\ [Next]_vars => FilesInv' BY FilesStep
<1> QED BY <1>1, <1>2, QueueInvariant, PTL DEF Spec

\* For any number of messages, requests and restarts: what a restart would read
\* for a queued message is what the queue has.
THEOREM RestartKeepsQueue == Spec => []RestartLosesNothing
<1>1. QueueInv /\ FilesInv => RestartLosesNothing
  <2> SUFFICES ASSUME QueueInv, FilesInv, NEW m \in messages, NEW file \in spool[m],
                      NEW d \in Domains
               PROVE  /\ file[d].status = doms[m][d].status
                      /\ NotBefore(file[d].retry, now) = NotBefore(doms[m][d].retry, now)
    BY DEF RestartLosesNothing
  <2>1. m \in Ids /\ ~Busy(m) BY DEF QueueInv, TypeOK, OwnerInv, Alone, Busy
  <2>2. doms[m][d].changed = FALSE /\ FileOf(file, doms[m], now)
    BY <2>1 DEF FilesInv, FileInv
  <2> QED BY <2>2 DEF FileOf
<1> QED BY <1>1, QueueInvariant, FilesInvariant, PTL

-----------------------------------------------------------------------------
(* What a step may never do to a file                                      *)

\* A DSN is written to a new file; no other file is touched.
LEMMA SendDsnSpool ==
  ASSUME TypeOK, OwnerInv, NEW m \in Ids, NEW ds, send_dsn(m, ds), NEW n \in Ids,
         spool[n] # {}
  PROVE  spool'[n] = spool[n]
<1>1. CASE UNCHANGED spool BY <1>1
<1>2. ASSUME NEW x \in Dsns, NEW next, WriteDsn(m, x, next) PROVE spool'[n] = spool[n]
  <2>1. x # n BY <1>2 DEF WriteDsn, OwnerInv, OnDisk
  <2> QED BY <1>2, <2>1 DEF WriteDsn, TypeOK, Ids
<1> QED BY <1>1, <1>2 DEF send_dsn, NoDsn

\* The steps that change a file that is there.
LEMMA SpoolStep ==
  ASSUME QueueInv, [Next]_vars, NEW n \in Ids, spool[n] # {}, spool'[n] # spool[n]
  PROVE  \/ Expired(n) \/ Requeue(n) \/ Save(n)
         \/ (HandleCancel \/ HandleCancelItem \/ HandleRetry) /\ cur.id = n
<1> USE DEF QueueInv
<1>1. UNCHANGED spool => FALSE OBVIOUS
<1>2. ASSUME NEW m \in Ids, Arrive(m) PROVE FALSE
  <2>1. m # n BY <1>2 DEF Arrive, OwnerInv, OnDisk
  <2> QED BY <1>2, <2>1 DEF Arrive, TypeOK
<1>3. ASSUME NEW m \in Ids, NextDue(m) \/ NextOnHold(m) PROVE FALSE
  BY <1>1, <1>3, SendDsnSpool DEF NextDue, NextOnHold, TakeOrStop, TryDeliver
<1>4. ASSUME HandleQueue PROVE FALSE
  <2>1. cur.id \in Ids BY <1>4, HandlingEvent DEF HandleQueue
  <2> QED BY <1>1, <1>4, <2>1, SendDsnSpool DEF HandleQueue, TryDeliver
<1>5. ASSUME NEW m \in Ids, EndDomains(m) PROVE FALSE BY <1>5, SendDsnSpool DEF EndDomains
<1>6. ASSUME NEW m \in Ids, Expired(m) \/ Requeue(m) \/ Save(m) PROVE m = n
  BY <1>6 DEF Expired, Requeue, Save, SaveChanges, RemoveMessage, TypeOK
<1>7. ASSUME HandleCancel \/ HandleCancelItem \/ HandleRetry PROVE cur.id = n
  BY <1>1, <1>7 DEF HandleCancel, HandleCancelItem, HandleRetry, SaveChanges, RemoveMessage,
     TypeOK
<1>8. ManagerStep =>
        \/ Expired(n) \/ Requeue(n)
        \/ (HandleCancel \/ HandleCancelItem \/ HandleRetry) /\ cur.id = n
  BY <1>1, <1>3, <1>4, <1>6, <1>7
  DEF ManagerStep, ManagerNext, Recv, WakeUp, NoneDue, NoneOnHold, HandleDone, HandleStop, Spawn
<1>9. ASSUME NEW m \in Ids, WorkerStep(m) PROVE Save(n)
  <2>1. ASSUME NEW d \in Domains,
               Skip(m, d) \/ Throttled(m, d) \/ Connect(m, d) \/ Outcome(m, d)
        PROVE  FALSE
    BY <1>1, <2>1 DEF Skip, Throttled, Connect, Outcome
  <2> QED BY <1>1, <1>5, <1>6, <1>9, <2>1 DEF WorkerStep, Report
<1>10. ASSUME NEW m \in Ids, SendDsn(m) \/ Enqueue(m) PROVE FALSE
  BY <1>1, <1>10 DEF SendDsn, Enqueue
<1>11. (Exit \/ Request \/ Restart \/ Tick) => FALSE
  BY <1>1 DEF Exit, Request, Restart, Tick
<1> QED BY <1>1, <1>2, <1>8, <1>9, <1>10, <1>11 DEF Next, vars

\* For any number of messages: only the end of all deliveries and a cancel
\* request remove a file.
THEOREM FilesOutliveDeliveries == Spec => RemovedWhenFinished
<1>1. ASSUME QueueInv, [Next]_vars, NEW m \in Ids, spool[m] # {}, spool'[m] = {}
      PROVE  \/ ~HasPending(doms[m])
             \/ mpc = "event" /\ cur.type \in {"cancel", "cancel_item"} /\ cur.id = m
  <2>1. doms[m] \in [Domains -> Domain] BY <1>1 DEF QueueInv, TypeOK
  <2>2. ASSUME NEW ds, SaveChanges(m, ds) PROVE FALSE
    BY <1>1, <2>2, SavePlaces DEF QueueInv
  <2>3. CASE Expired(m) BY <2>3 DEF Expired
  <2>4. CASE Requeue(m) BY <2>2, <2>4 DEF Requeue
  <2>5. CASE Save(m)
    <3>1. next_event(doms[m]) = {} BY <2>2, <2>5 DEF Save
    <3> QED BY <2>1, <3>1, PendingHasEvent
  <2>6. CASE (HandleCancel \/ HandleCancelItem) /\ cur.id = m
    BY <2>6 DEF HandleCancel, HandleCancelItem, Handling
  <2>7. CASE HandleRetry /\ cur.id = m
    BY <1>1, <2>2, <2>7 DEF HandleRetry
  <2> QED BY <1>1, <2>3, <2>4, <2>5, <2>6, <2>7, SpoolStep
<1>2. QueueInv /\ [Next]_vars =>
        [\A m \in Ids : spool[m] # {} /\ spool'[m] = {} =>
            \/ ~HasPending(doms[m])
            \/ mpc = "event" /\ cur.type \in {"cancel", "cancel_item"} /\ cur.id = m]_vars
  BY <1>1
<1> QED BY <1>2, QueueInvariant, PTL DEF Spec, RemovedWhenFinished

\* For any number of messages, requests and restarts: the spool never takes back
\* that a domain is delivered or has failed.
THEOREM OutcomesAreKept == Spec => FinishedForGood
<1>1. ASSUME QueueInv, FilesInv, [Next]_vars, NEW m \in Ids, NEW old \in spool[m],
             NEW new \in spool'[m], NEW d \in Domains, ~IsPending(old[d])
      PROVE  new[d].status = old[d].status
  <2> USE <1>1 DEF QueueInv
  <2>1. CASE spool'[m] = spool[m] BY <2>1 DEF FilesInv, FileInv
  <2>2. ASSUME NEW ds \in [Domains -> Domain], Keeps(doms[m], ds), SaveChanges(m, ds)
        PROVE  new[d].status = old[d].status
    <3>1. old \in [Domains -> Domain] BY DEF TypeOK
    <3>2. FileOf(old, ds, now) BY <2>2, KeepsFile DEF FilesInv, FileInv
    <3>3. SavedDomains(old, ds)[d].status = old[d].status BY <2>2, <3>1, <3>2, SavedFile
    <3>4. spool'[m] = {SavedDomains(f, ds) : f \in spool[m]} BY <2>2 DEF SaveChanges, TypeOK
    <3>5. new = SavedDomains(old, ds) BY <3>4 DEF FilesInv, FileInv
    <3> QED BY <3>3, <3>5
  <2>3. RemoveMessage(m) => FALSE BY DEF RemoveMessage, TypeOK
  <2>4. doms[m] \in [Domains -> Domain] /\ Keeps(doms[m], doms[m])
    BY UpdatesKeep DEF TypeOK
  <2>5. CASE Expired(m) \/ Requeue(m) \/ Save(m)
    BY <2>2, <2>3, <2>4, <2>5 DEF Expired, Requeue, Save
  <2>6. CASE (HandleCancel \/ HandleCancelItem \/ HandleRetry) /\ cur.id = m
    <3>1. cur.match \in SUBSET Domains /\ cur.due \in SUBSET Nat /\ now \in Nat /\ Grace \in Nat
      BY <2>6, QueueAssumption
      DEF HandleCancel, HandleCancelItem, HandleRetry, Handling, TypeOK, Event, EventAtHand
    <3>2. Cancelled(doms[m], cur.match) \in [Domains -> Domain]
          /\ Keeps(doms[m], Cancelled(doms[m], cur.match))
      BY <2>4, <3>1, UpdatesAreDomains, UpdatesKeep
    <3>3. ASSUME NEW t \in cur.due
          PROVE  /\ RetryDomains(doms[m], cur.match, t, Grace) \in [Domains -> Domain]
                 /\ Keeps(doms[m], RetryDomains(doms[m], cur.match, t, Grace))
      <4>1. t \in Nat BY <3>1
      <4>2. RetryDomains(doms[m], cur.match, t, Grace) \in [Domains -> Domain]
        BY <2>4, <3>1, <4>1, UpdatesAreDomains
      <4> QED BY <2>4, <4>2, UpdatesKeep
    <3> QED BY <2>1, <2>2, <2>3, <2>6, <3>2, <3>3
            DEF HandleCancel, HandleCancelItem, HandleRetry
  <2> QED BY <2>1, <2>5, <2>6, SpoolStep
<1>2. QueueInv /\ FilesInv /\ [Next]_vars =>
        [\A m \in Ids : \A old \in spool[m], new \in spool'[m] : \A d \in Domains :
            ~IsPending(old[d]) => new[d].status = old[d].status]_vars
  BY <1>1
<1> QED BY <1>2, QueueInvariant, FilesInvariant, PTL DEF Spec, FinishedForGood

-----------------------------------------------------------------------------
(* The manager wakes up in time                                            *)

\* No delivery of the message is due before the instant.
Ahead(due, ds) == HasPending(ds) /\ \A d \in PendingDomains(ds) : due <= ds[d].retry

\* The events that put a message in the queue with a due time, wherever they are.
Moves(e, m) == e.type \in {"queue", "retry"} /\ e.id = m
EventsOf(m) ==
  {e \in report[m] \cup {channel[i] : i \in DOMAIN channel} \cup ({cur} \ {None}) :
     Moves(e, m)}

\* The due time of an event is not overtaken while it waits to be handled, and a
\* queued message that is not on hold has an entry no later than its delivery.
EventsInTime(m) == \A e \in EventsOf(m) : \A due \in e.due : Ahead(due, doms[m])
EntryInTime(m) ==
  m \in messages /\ on_hold[m] = <<>> =>
    \E i \in DOMAIN scheduled[m] :
       scheduled[m][i] <= now + LongestWait \/ Ahead(scheduled[m][i], doms[m])

WakeInv == \A m \in Ids : EventsInTime(m) /\ EntryInTime(m)

\* There is a longest wait.
LEMMA LongestWaitIs ==
  LongestWait \in Nat /\ \A w \in RateWaits : w <= LongestWait
<1>1. LongestWait \in RateWaits \cup {0} /\ \A w \in RateWaits : w <= LongestWait
  BY WaitsAssumption DEF LongestWait
<1> QED BY <1>1, QueueAssumption

\* The next event of a message, and its next delivery, come before no delivery.
LEMMA NextIsAhead ==
  ASSUME NEW ds \in [Domains -> Domain], NEW t
  PROVE  /\ t \in next_event(ds) => Ahead(t, ds)
         /\ HasPending(ds) /\ t \in next_delivery_event(ds, now) => Ahead(t, ds)
<1>1. ASSUME t \in next_event(ds) PROVE Ahead(t, ds)
  <2>1. t \in EventTimes(ds) /\ \A u \in EventTimes(ds) : t <= u
    BY <1>1 DEF next_event, Earliest
  <2>2. HasPending(ds) BY <2>1 DEF EventTimes, PendingDomains, HasPending
  <2>3. \A d \in PendingDomains(ds) : ds[d].retry \in EventTimes(ds) BY DEF EventTimes
  <2> QED BY <2>1, <2>2, <2>3 DEF Ahead
<1>2. ASSUME HasPending(ds), t \in next_delivery_event(ds, now) PROVE Ahead(t, ds)
  BY <1>2 DEF next_delivery_event, Earliest, Ahead
<1> QED BY <1>1, <1>2

\* The dirty bits do not count, and a cancelled domain only takes a delivery away.
LEMMA UpdatesAhead ==
  ASSUME NEW ds \in [Domains -> Domain], NEW t, Ahead(t, ds)
  PROVE  /\ Ahead(t, Unchanged(ds))
         /\ \A D : HasPending(Cancelled(ds, D)) => Ahead(t, Cancelled(ds, D))
<1>1. ASSUME NEW d \in Domains
      PROVE  /\ IsPending(Unchanged(ds)[d]) <=> IsPending(ds[d])
             /\ Unchanged(ds)[d].retry = ds[d].retry
  BY DEF Unchanged, IsPending, Domain
<1>2. Ahead(t, Unchanged(ds))
  BY <1>1 DEF Ahead, HasPending, PendingDomains
<1>3. ASSUME NEW D, NEW d \in Domains
      PROVE  /\ IsPending(Cancelled(ds, D)[d]) => IsPending(ds[d])
             /\ Cancelled(ds, D)[d].retry = ds[d].retry
  BY DEF Cancelled, IsPending, Domain
<1>4. ASSUME NEW D, HasPending(Cancelled(ds, D)) PROVE Ahead(t, Cancelled(ds, D))
  BY <1>3, <1>4 DEF Ahead, PendingDomains
<1> QED BY <1>2, <1>4

\* A message whose owner is not an event has no event.
LEMMA NoEventsOf ==
  ASSUME OwnerInv', NEW n \in Ids,
         \/ n \in messages' \/ hand' = n \/ InTask(n)' \/ InOutbox(n)' \/ n \in sending'
         \/ spool'[n] = {}
  PROVE  EventsOf(n)' = {}
<1>1. ~InReport(n)' /\ ~InEvent(n)' /\ ~InChannel(n)'
  BY DEF OwnerInv, Alone, OnDisk, Owned
<1> QED
  BY <1>1 DEF EventsOf, Moves, InReport, InEvent, InChannel, Carries, MessageEvents

\* Nothing is due for a message that is not queued and has no event.
LEMMA WakeQuiet ==
  ASSUME OwnerInv', NEW n \in Ids, n \notin messages',
         hand' = n \/ InTask(n)' \/ InOutbox(n)' \/ n \in sending' \/ spool'[n] = {}
  PROVE  EventsInTime(n)' /\ EntryInTime(n)'
<1>1. EventsOf(n)' = {} BY NoEventsOf
<1> QED BY <1>1 DEF EventsInTime, EntryInTime

\* A step that leaves a message where it is.
LEMMA WakeSame ==
  ASSUME WakeInv, NEW n \in Ids, doms'[n] = doms[n], EventsOf(n)' \subseteq EventsOf(n),
         now \in Nat, scheduled \in [Ids -> Seq(Nat)], now' \in {now, now + 1},
         n \in messages' => /\ n \in messages
                            /\ scheduled'[n] = scheduled[n] /\ on_hold'[n] = on_hold[n]
  PROVE  EventsInTime(n)' /\ EntryInTime(n)'
<1>1. EventsInTime(n)' BY DEF WakeInv, EventsInTime, Ahead
<1>2. ASSUME n \in messages', on_hold'[n] = <<>>
      PROVE  \E i \in DOMAIN scheduled'[n] :
               \/ scheduled'[n][i] <= now' + LongestWait
               \/ Ahead(scheduled'[n][i], doms'[n])
  <2>1. PICK i \in DOMAIN scheduled[n] :
           scheduled[n][i] <= now + LongestWait \/ Ahead(scheduled[n][i], doms[n])
    BY <1>2 DEF WakeInv, EntryInTime
  <2>2. scheduled[n][i] \in Nat OBVIOUS
  <2>3. scheduled[n][i] <= now + LongestWait => scheduled[n][i] <= now' + LongestWait
    BY <2>2, LongestWaitIs
  <2> QED BY <1>2, <2>1, <2>3
<1> QED BY <1>1, <1>2 DEF EntryInTime, Ahead

\* A new heap entry that is in time, and an on_hold entry.
LEMMA EntryMade ==
  ASSUME TypeOK, NEW m \in Ids
  PROVE  /\ \A due \in Nat :
              /\ scheduled' = [scheduled EXCEPT ![m] = Append(@, due)]
              /\ due <= now' + LongestWait \/ Ahead(due, doms'[m])
              => EntryInTime(m)'
         /\ \A hold \in Hold :
              on_hold' = [on_hold EXCEPT ![m] = Append(@, hold)] => EntryInTime(m)'
<1>1. ASSUME NEW due \in Nat, scheduled' = [scheduled EXCEPT ![m] = Append(@, due)],
             due <= now' + LongestWait \/ Ahead(due, doms'[m])
      PROVE  EntryInTime(m)'
  <2>1. scheduled[m] \in Seq(Nat) /\ scheduled'[m] = Append(scheduled[m], due)
    BY <1>1 DEF TypeOK
  <2>2. /\ Len(scheduled[m]) + 1 \in DOMAIN scheduled'[m]
        /\ scheduled'[m][Len(scheduled[m]) + 1] = due
    BY <2>1
  <2> QED BY <1>1, <2>2 DEF EntryInTime, Ahead
<1>2. ASSUME NEW hold \in Hold, on_hold' = [on_hold EXCEPT ![m] = Append(@, hold)]
      PROVE  EntryInTime(m)'
  <2>1. on_hold'[m] # <<>> BY <1>2, AppendNotEmpty DEF TypeOK
  <2> QED BY <2>1 DEF EntryInTime
<1> QED BY <1>1, <1>2

\* send_dsn changes the domains of its message and of a new one.
LEMMA SendDsnDoms ==
  ASSUME TypeOK, NEW m \in Ids, NEW ds, send_dsn(m, ds), NEW n \in Ids, n # m
  PROVE  doms'[n] = doms[n] \/ (n \notin seen /\ InOutbox(n)')
<1>1. ASSUME NEW next, NoDsn(m, next) PROVE doms'[n] = doms[n]
  BY <1>1 DEF NoDsn, TypeOK
<1>2. ASSUME NEW x \in Dsns, NEW next, WriteDsn(m, x, next)
      PROVE  doms'[n] = doms[n] \/ (n \notin seen /\ InOutbox(n)')
  <2>1. x \notin seen /\ outbox'[m] = {x} BY <1>2 DEF WriteDsn, TypeOK
  <2>2. n # x => doms'[n] = doms[n] BY <1>2 DEF WriteDsn, TypeOK
  <2> QED BY <2>1, <2>2 DEF InOutbox
<1> QED BY <1>1, <1>2 DEF send_dsn

\* An attempt starts, or its task writes the DSN that ends it.
LEMMA AttemptWakes ==
  ASSUME TypeOK, OwnerInv, OwnerInv', WakeInv, NEW m \in Ids, NEW ds, send_dsn(m, ds),
         hand' = m \/ InTask(m)', messages' \subseteq messages,
         UNCHANGED <<now, report, channel>>, cur' \in {cur, None},
         \A n \in Ids \ {m} : scheduled'[n] = scheduled[n] /\ on_hold'[n] = on_hold[n]
  PROVE  WakeInv'
<1>1. m \notin messages' BY DEF OwnerInv, Alone
<1>2. EventsInTime(m)' /\ EntryInTime(m)' BY <1>1, WakeQuiet
<1>3. ASSUME NEW n \in Ids, n # m PROVE EventsInTime(n)' /\ EntryInTime(n)'
  <2>1. CASE doms'[n] = doms[n]
    <3>1. EventsOf(n)' \subseteq EventsOf(n) BY DEF EventsOf, Moves
    <3> QED BY <1>3, <2>1, <3>1, WakeSame DEF TypeOK
  <2>2. CASE n \notin seen /\ InOutbox(n)'
    <3>1. n \notin messages' BY <2>2 DEF OwnerInv, OnDisk, Owned
    <3> QED BY <2>2, <3>1, WakeQuiet
  <2> QED BY <1>3, <2>1, <2>2, SendDsnDoms
<1> QED BY <1>2, <1>3 DEF WakeInv

\* An entry is taken with its message, or belongs to a message that is gone.
LEMMA TakeWakes ==
  ASSUME TypeOK, OwnerInv, OwnerInv', WakeInv, NEW m \in Ids, NextDue(m) \/ NextOnHold(m)
  PROVE  WakeInv'
<1>1. PICK stop : TakeOrStop(m, stop) BY DEF NextDue, NextOnHold
<1>2. /\ UNCHANGED <<now, report, channel, cur>>
      /\ \A n \in Ids \ {m} : scheduled'[n] = scheduled[n] /\ on_hold'[n] = on_hold[n]
  BY DEF NextDue, NextOnHold, workers, TypeOK
<1>3. CASE messages' = messages \ {m} /\ TryDeliver(m)
  BY <1>2, <1>3, AttemptWakes DEF TryDeliver
<1>4. CASE m \notin messages /\ UNCHANGED <<doms, messages>>
  <2>1. ASSUME NEW n \in Ids PROVE EventsInTime(n)' /\ EntryInTime(n)'
    <3>1. EventsOf(n)' \subseteq EventsOf(n) BY <1>2 DEF EventsOf, Moves
    <3> QED BY <1>2, <1>4, <3>1, WakeSame DEF TypeOK
  <2> QED BY <2>1 DEF WakeInv
<1> QED BY <1>1, <1>3, <1>4 DEF TakeOrStop

\* The message of an event goes to the queue with the due time of the event.
LEMMA EventWakes ==
  ASSUME TypeOK, EventAtHand, OwnerInv, OwnerInv', WakeInv, HandleQueue \/ HandleDone
  PROVE  WakeInv'
<1>1. PICK type \in {"queue", "done", "retry", "hold"} : Handling(type)
  BY DEF HandleQueue, HandleDone
<1>2. cur' = None /\ cur.type = type /\ cur.id \in Ids /\ UNCHANGED <<now, report, channel>>
  BY <1>1, HandlingEvent DEF HandleQueue, HandleDone, workers
<1>3. cur.due \in SUBSET Nat /\ cur.limiters \in SUBSET Limiter /\ cur # None
  BY <1>1 DEF TypeOK, Event, EventAtHand, Handling
<1>4. \A n \in Ids : EventsOf(n)' \subseteq EventsOf(n) BY <1>2 DEF EventsOf, Moves
<1>5. PICK m \in Ids : m = cur.id BY <1>2
<1>6. ASSUME UNCHANGED doms, messages' = messages \cup {m},
             \A n \in Ids \ {m} : scheduled'[n] = scheduled[n] /\ on_hold'[n] = on_hold[n],
             EntryInTime(m)'
      PROVE  WakeInv'
  <2>1. ASSUME NEW n \in Ids, n # m PROVE EventsInTime(n)' /\ EntryInTime(n)'
    BY <1>2, <1>4, <1>6, <2>1, WakeSame DEF TypeOK
  <2>2. EventsInTime(m)' BY <1>6, NoEventsOf DEF EventsInTime
  <2> QED BY <1>6, <2>1, <2>2 DEF WakeInv
<1>7. ASSUME NEW due \in cur.due, cur.type \in {"queue", "retry"}, Push(m, due),
             messages' = messages \cup {m}, UNCHANGED <<doms, on_hold>>
      PROVE  WakeInv'
  <2>1. cur \in EventsOf(m) BY <1>3, <1>5, <1>7 DEF EventsOf, Moves
  <2>2. Ahead(due, doms[m]) BY <2>1 DEF WakeInv, EventsInTime
  <2>3. scheduled' = [scheduled EXCEPT ![m] = Append(@, due)] /\ due \in Nat
    BY <1>3, <1>7 DEF Push
  <2>4. EntryInTime(m)' BY <1>7, <2>2, <2>3, EntryMade
  <2>5. \A n \in Ids \ {m} : scheduled'[n] = scheduled[n] BY <2>3 DEF TypeOK
  <2> QED BY <1>6, <1>7, <2>4, <2>5
<1>8. ASSUME NEW hold \in Hold, PutOnHold(m, hold), UNCHANGED doms PROVE WakeInv'
  <2>1. EntryInTime(m)' BY <1>8, EntryMade DEF PutOnHold
  <2>2. \A n \in Ids \ {m} : on_hold'[n] = on_hold[n] /\ scheduled'[n] = scheduled[n]
    BY <1>8 DEF PutOnHold, TypeOK
  <2> QED BY <1>6, <1>8, <2>1, <2>2 DEF PutOnHold
<1>9. CASE HandleQueue
  <2>1. CASE TryDeliver(m) /\ UNCHANGED <<messages, scheduled, on_hold>>
    BY <1>2, <2>1, AttemptWakes DEF TryDeliver
  <2> QED BY <1>5, <1>7, <1>9, <2>1 DEF HandleQueue, Handling, Schedule
<1>10. CASE HandleDone
  <2>1. UNCHANGED doms BY <1>10 DEF HandleDone
  <2>2. CASE UNCHANGED <<messages, scheduled, on_hold>>
    BY <1>2, <1>4, <2>1, <2>2, WakeSame DEF WakeInv, TypeOK
  <2>3. CASE Handling("retry") /\ Schedule(m, cur.due)
    BY <1>7, <2>1, <2>3 DEF Schedule, Handling
  <2>4. CASE PutOnHold(m, [next_due |-> cur.due, limiters |-> cur.limiters])
    <3>1. [next_due |-> cur.due, limiters |-> cur.limiters] \in Hold BY <1>3 DEF Hold
    <3> QED BY <1>8, <2>1, <2>4, <3>1
  <2> QED BY <1>5, <1>10, <2>2, <2>3, <2>4 DEF HandleDone
<1> QED BY <1>9, <1>10

\* The end of try_deliver: the saved message is scheduled for its next delivery,
\* for the end of a wait, or put on hold.
LEMMA DecidedWakes ==
  ASSUME TypeOK, OwnerInv, OwnerInv', WakeInv, NEW m \in Ids,
         Expired(m) \/ Requeue(m) \/ Spawn(m)
  PROVE  WakeInv'
<1>1. /\ hand = m /\ UNCHANGED <<now, report, channel, cur>>
  BY DEF Expired, Requeue, Spawn, Decided, workers
<1>2. \A n \in Ids : EventsOf(n)' \subseteq EventsOf(n) BY <1>1 DEF EventsOf, Moves
<1>3. m \notin messages BY <1>1 DEF OwnerInv, Alone
<1>4. doms[m] \in [Domains -> Domain] /\ now \in Nat BY DEF TypeOK
<1>5. CASE Expired(m)
  <2>1. spool'[m] = {} /\ UNCHANGED <<messages, scheduled, on_hold>>
        /\ \A n \in Ids \ {m} : doms'[n] = doms[n]
    BY <1>5 DEF Expired, RemoveMessage, TypeOK
  <2>2. EventsInTime(m)' /\ EntryInTime(m)' BY <1>3, <2>1, WakeQuiet
  <2>3. ASSUME NEW n \in Ids, n # m PROVE EventsInTime(n)' /\ EntryInTime(n)'
    BY <1>1, <1>2, <2>1, <2>3, WakeSame DEF TypeOK
  <2> QED BY <2>2, <2>3 DEF WakeInv
<1>6. CASE Spawn(m)
  <2>1. UNCHANGED <<doms, messages, scheduled, on_hold>> BY <1>6 DEF Spawn
  <2> QED BY <1>1, <1>2, <2>1, WakeSame DEF WakeInv, TypeOK
<1>7. CASE Requeue(m)
  <2>1. doms'[m] = Unchanged(doms[m]) /\ \A n \in Ids \ {m} : doms'[n] = doms[n]
    BY <1>7 DEF Requeue, SaveChanges, TypeOK
  <2>2. PICK due \in next_delivery_event(doms[m], now) :
          \/ Schedule(m, {due})
          \/ PutOnHold(m, [next_due |-> next_event_after(doms[m], now),
                           limiters |-> {"sender"}])
          \/ \E w \in RateWaits : Schedule(m, {now + w})
    BY <1>7 DEF Requeue
  <2>3. due \in Nat /\ Ahead(due, doms[m])
    BY <1>4, <1>7, <2>2, NextIsAhead, DueTimesAreInstants DEF Requeue
  <2>4. Ahead(due, doms'[m]) BY <1>4, <2>1, <2>3, UpdatesAhead
  <2>5. [next_due |-> next_event_after(doms[m], now), limiters |-> {"sender"}] \in Hold
    BY <1>4, DueTimesAreInstants DEF Hold, Limiter
  <2>6. ASSUME NEW t \in Nat, Schedule(m, {t}),
               t <= now + LongestWait \/ Ahead(t, doms'[m])
        PROVE  EntryInTime(m)'
    <3>1. scheduled' = [scheduled EXCEPT ![m] = Append(@, t)] BY <2>6 DEF Schedule, Push
    <3> QED BY <1>1, <2>6, <3>1, EntryMade
  <2>7. ASSUME NEW w \in RateWaits PROVE now + w \in Nat /\ now + w <= now + LongestWait
    BY <1>4, LongestWaitIs, QueueAssumption
  <2>8. EntryInTime(m)'
    <3>1. ASSUME NEW w \in RateWaits, Schedule(m, {now + w}) PROVE EntryInTime(m)'
      BY <2>6, <2>7, <3>1
    <3>2. ASSUME NEW hold \in Hold, PutOnHold(m, hold) PROVE EntryInTime(m)'
      BY <3>2, EntryMade DEF PutOnHold
    <3> QED BY <2>2, <2>3, <2>4, <2>5, <2>6, <3>1, <3>2
  <2>9. messages' = messages \cup {m} BY <2>2, QueueingMessages
  <2>10. EventsInTime(m)' BY <2>9, NoEventsOf DEF EventsInTime
  <2>11. \A n \in Ids \ {m} : scheduled'[n] = scheduled[n] /\ on_hold'[n] = on_hold[n]
    BY <2>2 DEF Schedule, Push, PutOnHold, TypeOK
  <2>12. ASSUME NEW n \in Ids, n # m PROVE EventsInTime(n)' /\ EntryInTime(n)'
    BY <1>1, <1>2, <2>1, <2>9, <2>11, <2>12, WakeSame DEF TypeOK
  <2> QED BY <2>8, <2>10, <2>12 DEF WakeInv
<1> QED BY <1>5, <1>6, <1>7

\* The management requests: a cancelled item leaves the entry in time for what is
\* left, and a retry request pushes an entry for the new due times.
LEMMA RequestWakes ==
  ASSUME TypeOK, EventAtHand, OwnerInv, OwnerInv', WakeInv,
         HandleCancel \/ HandleCancelItem \/ HandleRetry
  PROVE  WakeInv'
<1>1. PICK type \in {"cancel", "cancel_item", "retry_now"} : Handling(type)
  BY DEF HandleCancel, HandleCancelItem, HandleRetry
<1>2. cur' = None /\ cur.id \in Ids /\ UNCHANGED <<now, report, channel>>
  BY <1>1, HandlingEvent DEF HandleCancel, HandleCancelItem, HandleRetry, workers
<1>3. \A n \in Ids : EventsOf(n)' \subseteq EventsOf(n) BY <1>2 DEF EventsOf, Moves
<1>4. PICK m \in Ids : m = cur.id BY <1>2
<1>5. /\ doms[m] \in [Domains -> Domain] /\ now \in Nat
      /\ cur.match \in SUBSET Domains /\ cur.due \in SUBSET Nat
  BY <1>1 DEF TypeOK, Event, EventAtHand, Handling
<1>6. CASE UNCHANGED <<messages, doms, scheduled, on_hold>>
  BY <1>2, <1>3, <1>6, WakeSame DEF WakeInv, TypeOK
<1>7. ASSUME m \in messages, messages' = messages \ {m}, RemoveMessage(m),
             UNCHANGED <<scheduled, on_hold>>
      PROVE  WakeInv'
  <2>1. spool'[m] = {} /\ \A n \in Ids \ {m} : doms'[n] = doms[n]
    BY <1>7 DEF RemoveMessage, TypeOK
  <2>2. EventsInTime(m)' /\ EntryInTime(m)' BY <1>7, <2>1, WakeQuiet
  <2>3. ASSUME NEW n \in Ids, n # m PROVE EventsInTime(n)' /\ EntryInTime(n)'
    BY <1>2, <1>3, <1>7, <2>1, <2>3, WakeSame DEF TypeOK
  <2> QED BY <2>2, <2>3 DEF WakeInv
<1>8. ASSUME m \in messages, UNCHANGED messages, NEW ds, SaveChanges(m, ds), EntryInTime(m)',
             \A n \in Ids \ {m} : scheduled'[n] = scheduled[n] /\ on_hold'[n] = on_hold[n]
      PROVE  WakeInv'
  <2>1. EventsInTime(m)' BY <1>8, NoEventsOf DEF EventsInTime
  <2>2. \A n \in Ids \ {m} : doms'[n] = doms[n] BY <1>8 DEF SaveChanges, TypeOK
  <2>3. ASSUME NEW n \in Ids, n # m PROVE EventsInTime(n)' /\ EntryInTime(n)'
    BY <1>2, <1>3, <1>8, <2>2, <2>3, WakeSame DEF TypeOK
  <2> QED BY <1>8, <2>1, <2>3 DEF WakeInv
<1>9. CASE HandleCancel BY <1>4, <1>6, <1>7, <1>9 DEF HandleCancel
<1>10. CASE HandleCancelItem
  <2>1. UNCHANGED <<scheduled, on_hold>> BY <1>10 DEF HandleCancelItem
  <2>2. PICK ds \in [Domains -> Domain] : ds = Cancelled(doms[m], cur.match)
    BY <1>5, UpdatesAreDomains
  <2>3. ASSUME m \in messages, UNCHANGED messages, HasPending(ds), SaveChanges(m, ds)
        PROVE  WakeInv'
    <3>1. doms'[m] = Unchanged(ds) BY <2>3 DEF SaveChanges, TypeOK
    <3>2. \A t : Ahead(t, doms[m]) => Ahead(t, doms'[m])
      BY <1>5, <2>2, <2>3, <3>1, UpdatesAhead
    <3>3. EntryInTime(m)' BY <1>2, <2>1, <2>3, <3>2 DEF WakeInv, EntryInTime, Ahead
    <3> QED BY <1>8, <2>1, <2>3, <3>3
  <2> QED BY <1>4, <1>6, <1>7, <1>10, <2>1, <2>2, <2>3 DEF HandleCancelItem
<1>11. CASE HandleRetry
  <2>1. ASSUME NEW time \in cur.due, m \in messages,
               cur.match \cap PendingDomains(doms[m]) # {},
               NEW ds, ds = RetryDomains(doms[m], cur.match, time, Grace),
               on_hold' = [on_hold EXCEPT ![m] = <<>>],
               SaveChanges(m, ds), PushSome(m, next_event(ds))
        PROVE  WakeInv'
    <3>1. ds \in [Domains -> Domain] BY <1>5, <2>1, UpdatesAreDomains, QueueAssumption
    <3>2. HasPending(ds)
      BY <1>5, <2>1 DEF RetryDomains, PendingDomains, HasPending, IsPending, Domain
    <3>3. PICK t \in next_event(ds) : t = CHOOSE due \in next_event(ds) : TRUE
      BY <3>1, <3>2, PendingHasEvent
    <3>4. t \in Nat /\ Ahead(t, ds) BY <1>5, <3>1, <3>3, DueTimesAreInstants, NextIsAhead
    <3>5. scheduled' = [scheduled EXCEPT ![m] = Append(@, t)] BY <2>1, <3>3 DEF PushSome
    <3>6. doms'[m] = Unchanged(ds) BY <2>1 DEF SaveChanges, TypeOK
    <3>7. EntryInTime(m)' BY <3>1, <3>4, <3>5, <3>6, EntryMade, UpdatesAhead
    <3>8. \A n \in Ids \ {m} : scheduled'[n] = scheduled[n] /\ on_hold'[n] = on_hold[n]
      BY <2>1, <3>5 DEF TypeOK
    <3> QED BY <1>8, <1>11, <2>1, <3>7, <3>8 DEF HandleRetry
  <2> QED BY <1>4, <1>6, <1>11, <2>1 DEF HandleRetry
<1> QED BY <1>9, <1>10, <1>11

\* A task changes the domains of its own message, which has no event.
LEMMA VisitWakes ==
  ASSUME TypeOK, OwnerInv, OwnerInv', FilesInv, WakeInv, NEW m \in Ids, NEW d \in Domains,
         Skip(m, d) \/ Throttled(m, d) \/ Connect(m, d) \/ Outcome(m, d)
  PROVE  WakeInv'
<1>1. UNCHANGED <<now, messages, scheduled, on_hold, report, channel, cur, wpc>>
  BY DEF Skip, Throttled, Connect, Outcome, manager
<1>2. \A n \in Ids \ {m} : doms'[n] = doms[n]
  BY DEF Skip, Throttled, Connect, Outcome, TypeOK
<1>3. wpc[m] = "run"
  BY DEF Skip, Throttled, Connect, Outcome, Visit, Running, FilesInv, FileInv
<1>4. InTask(m) /\ InTask(m)' BY <1>1, <1>3 DEF InTask
<1>5. m \notin messages' BY <1>1, <1>4 DEF OwnerInv, Alone
<1>6. EventsInTime(m)' /\ EntryInTime(m)' BY <1>4, <1>5, WakeQuiet
<1>7. ASSUME NEW n \in Ids, n # m PROVE EventsInTime(n)' /\ EntryInTime(n)'
  <2>1. EventsOf(n)' \subseteq EventsOf(n) BY <1>1 DEF EventsOf, Moves
  <2> QED BY <1>1, <1>2, <1>7, <2>1, WakeSame DEF TypeOK
<1> QED BY <1>6, <1>7 DEF WakeInv

\* The event of a task that requeues its message has the next event of the saved
\* domains.
LEMMA SaveWakes ==
  ASSUME TypeOK, OwnerInv, WakeInv, NEW m \in Ids, Save(m)
  PROVE  WakeInv'
<1>1. UNCHANGED <<now, messages, scheduled, on_hold, channel, cur>> BY DEF Save, manager
<1>2. InTask(m) BY DEF Save, InTask
<1>3. m \notin messages /\ ~InEvent(m) /\ ~InChannel(m) BY <1>2 DEF OwnerInv, Alone
<1>4. \A n \in Ids \ {m} : doms'[n] = doms[n] /\ report'[n] = report[n]
  BY DEF Save, SaveChanges, RemoveMessage, TypeOK
<1>5. ASSUME NEW n \in Ids, n # m PROVE EventsInTime(n)' /\ EntryInTime(n)'
  <2>1. EventsOf(n)' \subseteq EventsOf(n) BY <1>1, <1>4, <1>5 DEF EventsOf, Moves
  <2> QED BY <1>1, <1>4, <1>5, <2>1, WakeSame DEF TypeOK
<1>6. EntryInTime(m)' BY <1>1, <1>3 DEF EntryInTime
<1>7. EventsOf(m)' \subseteq {e \in report'[m] : Moves(e, m)}
  BY <1>1, <1>3 DEF EventsOf, Moves, InEvent, InChannel, Carries, MessageEvents
<1>8. ASSUME NEW e \in report'[m], Moves(e, m), NEW due \in e.due PROVE Ahead(due, doms'[m])
  <2>1. e.type = "retry" BY <1>8 DEF Save, Result, Moves, TypeOK
  <2>2. SaveChanges(m, doms[m]) /\ e.due = next_event(doms[m])
    BY <1>8, <2>1 DEF Save, Result, TypeOK
  <2>3. doms'[m] = Unchanged(doms[m]) /\ doms[m] \in [Domains -> Domain]
    BY <2>2 DEF SaveChanges, TypeOK
  <2>4. Ahead(due, doms[m]) BY <1>8, <2>2, <2>3, NextIsAhead
  <2> QED BY <2>3, <2>4, UpdatesAhead
<1>9. EventsInTime(m)' BY <1>7, <1>8 DEF EventsInTime, Ahead
<1> QED BY <1>5, <1>6, <1>9 DEF WakeInv

\* tx.send adds its event to the channel, and nothing else.
LEMMA SendEvents ==
  ASSUME channel \in Seq(Event), NEW event \in Event, Send(event), NEW i \in DOMAIN channel'
  PROVE  channel'[i] = event \/ \E j \in DOMAIN channel : channel'[i] = channel[j]
<1>1. CASE channel' = Append(channel, event)
  <2>1. DOMAIN channel = 1..Len(channel) /\ DOMAIN channel' = 1..(Len(channel) + 1)
    BY <1>1
  <2>2. i \in DOMAIN channel => channel'[i] = channel[i] BY <1>1
  <2>3. channel'[Len(channel) + 1] = event BY <1>1
  <2>4. i \in DOMAIN channel \/ i = Len(channel) + 1 BY <2>1
  <2> QED BY <2>2, <2>3, <2>4
<1>2. CASE UNCHANGED channel BY <1>2
<1> QED BY <1>1, <1>2 DEF Send

\* The events that are sent: new messages and DSNs, the results of the tasks and
\* the requests.
LEMMA SendWakes ==
  ASSUME TypeOK, OwnerInv, WakeInv,
         \/ \E m \in Ids : SendDsn(m) \/ Enqueue(m) \/ Report(m)
         \/ Request
  PROVE  WakeInv'
<1>1. UNCHANGED <<now, doms, messages, scheduled, on_hold, cur>>
  BY DEF SendDsn, Enqueue, Report, Request, manager
<1>2. ASSUME NEW event \in Event, Send(event),
             \A n \in Ids : report'[n] \subseteq report[n],
             \A n \in Ids : Moves(event, n) => \A due \in event.due : Ahead(due, doms[n])
      PROVE  WakeInv'
  <2>1. ASSUME NEW n \in Ids PROVE EventsInTime(n)' /\ EntryInTime(n)'
    <3>1. \A i \in DOMAIN channel' :
             channel'[i] = event \/ \E j \in DOMAIN channel : channel'[i] = channel[j]
      BY <1>2, SendEvents DEF TypeOK
    <3>2. \A e \in EventsOf(n)' : e \in EventsOf(n) \/ (e = event /\ Moves(event, n))
      BY <1>1, <1>2, <3>1 DEF EventsOf, Moves
    <3>3. EventsInTime(n)' BY <1>1, <1>2, <3>2 DEF WakeInv, EventsInTime, Ahead
    <3>4. EntryInTime(n)' BY <1>1 DEF WakeInv, EntryInTime, Ahead
    <3> QED BY <3>3, <3>4
  <2> QED BY <2>1 DEF WakeInv
<1>3. ASSUME NEW x \in Ids, Send(QueueEvent(x, next_event(doms[x]))), UNCHANGED report
      PROVE  WakeInv'
  <2>1. PICK event \in Event : event = QueueEvent(x, next_event(doms[x]))
    BY QueueEventType, DueTimesAreInstants DEF TypeOK
  <2>2. doms[x] \in [Domains -> Domain] BY DEF TypeOK
  <2>3. \A n \in Ids : Moves(event, n) => \A due \in event.due : Ahead(due, doms[n])
    BY <2>1, <2>2, NextIsAhead DEF Moves, QueueEvent
  <2> QED BY <1>2, <1>3, <2>1, <2>3
<1>4. ASSUME NEW m \in Ids, SendDsn(m) \/ Enqueue(m) PROVE WakeInv'
  <2>1. UNCHANGED report BY <1>4 DEF SendDsn, Enqueue, workers
  <2>2. outbox[m] \subseteq Ids BY DEF TypeOK, Ids
  <2> QED BY <1>3, <1>4, <2>1, <2>2 DEF SendDsn, Enqueue
<1>5. ASSUME NEW m \in Ids, Report(m) PROVE WakeInv'
  <2>1. PICK event \in report[m] : Send(event) BY <1>5 DEF Report
  <2>2. event \in Event /\ event.id = m BY <2>1 DEF TypeOK, OwnerInv, OneReport
  <2>3. ASSUME NEW n \in Ids, Moves(event, n), NEW due \in event.due PROVE Ahead(due, doms[n])
    <3>1. n = m /\ event \in EventsOf(n) BY <2>1, <2>2, <2>3 DEF Moves, EventsOf
    <3> QED BY <2>3, <3>1 DEF WakeInv, EventsInTime
  <2>4. \A n \in Ids : report'[n] \subseteq report[n] BY <1>5 DEF Report, TypeOK
  <2> QED BY <1>2, <2>1, <2>2, <2>3, <2>4
<1>6. CASE Request
  <2>1. PICK event \in RequestEvents : Send(event) BY <1>6 DEF Request
  <2>2. event \in Event
    <3>1. RequestEvents \subseteq Event BY QueueAssumption DEF RequestEvents, Event, TypeOK
    <3> QED BY <2>1, <3>1
  <2>3. \A n \in Ids : ~Moves(event, n) BY <2>1 DEF Moves, RequestEvents
  <2>4. UNCHANGED report BY <1>6 DEF Request, workers
  <2> QED BY <1>2, <2>1, <2>2, <2>3, <2>4
<1> QED BY <1>4, <1>5, <1>6

\* The manager goes on with the same queue, receives an event, or stops; time
\* passes.
LEMMA LoopWakes ==
  ASSUME TypeOK, OwnerInv, WakeInv,
         Recv \/ WakeUp \/ NoneDue \/ NoneOnHold \/ HandleStop \/ Exit \/ Tick
  PROVE  WakeInv'
<1>1. UNCHANGED <<doms, report>> /\ now' \in {now, now + 1}
  BY DEF Recv, WakeUp, NoneDue, NoneOnHold, HandleStop, Exit, Tick, workers
<1>2. \/ messages' = {}
      \/ UNCHANGED <<messages, scheduled, on_hold>>
  BY DEF Recv, WakeUp, NoneDue, NoneOnHold, HandleStop, Exit, Tick, manager
<1>3. ASSUME NEW n \in Ids PROVE EventsOf(n)' \subseteq EventsOf(n)
  <2>1. CASE cur' \in {cur, None} /\ (channel' = channel \/ channel' = <<>>)
    BY <1>1, <2>1 DEF EventsOf, Moves
  <2>2. CASE Recv
    <3>1. channel \in Seq(Event) /\ channel # <<>> /\ channel' = Tail(channel)
          /\ cur' = Head(channel)
      BY <2>2 DEF Recv, TypeOK
    <3>2. 1 \in DOMAIN channel /\ cur' = channel[1] BY <3>1
    <3>3. \A i \in DOMAIN channel' : i + 1 \in DOMAIN channel /\ channel'[i] = channel[i + 1]
      BY <3>1
    <3> QED BY <1>1, <3>2, <3>3 DEF EventsOf, Moves
  <2> QED BY <2>1, <2>2 DEF WakeUp, NoneDue, NoneOnHold, HandleStop, Exit, Tick, manager
<1> QED BY <1>1, <1>2, <1>3, WakeSame DEF WakeInv, TypeOK

\* read_queue schedules a message for its next event, or for now.
LEMMA RestartWakes ==
  ASSUME TypeOK, Restart
  PROVE  WakeInv'
<1>1. ASSUME NEW n \in Ids PROVE EventsInTime(n)' /\ EntryInTime(n)'
  <2>1. EventsOf(n)' = {} BY DEF Restart, EventsOf
  <2>2. ASSUME n \in messages'
        PROVE  \E i \in DOMAIN scheduled'[n] :
                 \/ scheduled'[n][i] <= now' + LongestWait
                 \/ Ahead(scheduled'[n][i], doms'[n])
    <3>1. PICK file : file = CHOOSE f \in spool[n] : TRUE OBVIOUS
    <3>2. spool[n] # {} /\ file \in spool[n] BY <2>2, <3>1 DEF Restart
    <3>3. PICK ds \in [Domains -> Domain] : ds = LoadedDomains(file, now)
      BY <3>2, UpdatesAreDomains DEF TypeOK
    <3>4. /\ doms'[n] = ds /\ now' = now
          /\ scheduled'[n] = IF HasPending(ds) THEN <<CHOOSE t \in next_event(ds) : TRUE>>
                             ELSE <<now>>
      BY <3>1, <3>2, <3>3 DEF Restart
    <3>5. CASE HasPending(ds)
      <4>1. PICK t \in next_event(ds) : t = CHOOSE u \in next_event(ds) : TRUE
        BY <3>5, PendingHasEvent
      <4>2. scheduled'[n] = <<t>> /\ Ahead(t, ds) BY <3>4, <3>5, <4>1, NextIsAhead
      <4>3. 1 \in DOMAIN scheduled'[n] /\ scheduled'[n][1] = t BY <4>2
      <4> QED BY <3>4, <4>2, <4>3
    <3>6. CASE ~HasPending(ds)
      <4>1. 1 \in DOMAIN scheduled'[n] /\ scheduled'[n][1] = now BY <3>4, <3>6
      <4>2. now <= now' + LongestWait BY <3>4, LongestWaitIs DEF TypeOK
      <4> QED BY <4>1, <4>2
    <3> QED BY <3>5, <3>6
  <2> QED BY <2>1, <2>2 DEF EventsInTime, EntryInTime, Ahead
<1> QED BY <1>1 DEF WakeInv

\* A new message has no event yet.
LEMMA ArriveWakes ==
  ASSUME TypeOK, OwnerInv, OwnerInv', WakeInv, NEW m \in Ids, Arrive(m)
  PROVE  WakeInv'
<1>1. UNCHANGED <<now, messages, scheduled, on_hold, report, channel, cur>>
  BY DEF Arrive, manager, workers
<1>2. m \in sending' /\ m \notin messages' BY <1>1 DEF Arrive, OwnerInv, OnDisk, Owned
<1>3. \A n \in Ids \ {m} : doms'[n] = doms[n] BY DEF Arrive, TypeOK
<1>4. EventsInTime(m)' /\ EntryInTime(m)' BY <1>2, WakeQuiet
<1>5. ASSUME NEW n \in Ids, n # m PROVE EventsInTime(n)' /\ EntryInTime(n)'
  <2>1. EventsOf(n)' \subseteq EventsOf(n) BY <1>1 DEF EventsOf, Moves
  <2> QED BY <1>1, <1>3, <1>5, <2>1, WakeSame DEF TypeOK
<1> QED BY <1>4, <1>5 DEF WakeInv

\* Every step keeps the entries and the events in time.
LEMMA WakeStep ==
  ASSUME QueueInv, QueueInv', FilesInv, WakeInv, [Next]_vars
  PROVE  WakeInv'
<1> USE DEF QueueInv
<1>1. CASE UNCHANGED vars
  <2>1. \A n \in Ids : EventsOf(n)' = EventsOf(n)
    BY <1>1 DEF vars, manager, workers, EventsOf, Moves
  <2>2. UNCHANGED <<now, doms, messages, scheduled, on_hold>> BY <1>1 DEF vars, manager
  <2> QED BY <2>1, <2>2, WakeSame DEF WakeInv, TypeOK
<1>2. CASE ManagerStep
  BY <1>2, LoopWakes, EventWakes, RequestWakes, TakeWakes, DecidedWakes
  DEF ManagerStep, ManagerNext
<1>3. ASSUME NEW m \in Ids, EndDomains(m) PROVE WakeInv'
  <2>1. UNCHANGED <<now, messages, scheduled, on_hold, report, channel, cur>>
        /\ send_dsn(m, doms[m]) /\ InTask(m)'
    BY <1>3 DEF EndDomains, manager, InTask, TypeOK
  <2> QED BY <2>1, AttemptWakes
<1>4. ASSUME NEW m \in Ids, WorkerStep(m) PROVE WakeInv'
  BY <1>3, <1>4, VisitWakes, SaveWakes, SendWakes DEF WorkerStep
<1> QED
  BY <1>1, <1>2, <1>4, SendWakes, ArriveWakes, LoopWakes, RestartWakes DEF Next

\* For any messages, requests, waits and restarts: the manager never sleeps past
\* the next delivery of a message that is not on hold.
THEOREM ManagerWakesInTime == Spec => []WakesInTime
<1>1. Init => WakeInv
  BY DEF Init, WakeInv, EventsInTime, EntryInTime, EventsOf, Moves
<1>2. QueueInv /\ QueueInv' /\ FilesInv /\ WakeInv /\ [Next]_vars => WakeInv' BY WakeStep
<1>3. QueueInv /\ WakeInv => WakesInTime
  <2> SUFFICES ASSUME QueueInv, WakeInv, NEW m \in messages, on_hold[m] = <<>>
               PROVE  \E i \in DOMAIN scheduled[m] :
                      \E t \in next_delivery_event(doms[m], now) :
                         scheduled[m][i] <= NotBefore(t, now + LongestWait)
    BY DEF WakesInTime
  <2>1. /\ m \in Ids /\ doms[m] \in [Domains -> Domain] /\ now \in Nat
        /\ scheduled[m] \in Seq(Nat)
    BY DEF QueueInv, TypeOK
  <2>2. PICK i \in DOMAIN scheduled[m] :
          scheduled[m][i] <= now + LongestWait \/ Ahead(scheduled[m][i], doms[m])
    BY <2>1 DEF WakeInv, EntryInTime
  <2>3. scheduled[m][i] \in Nat BY <2>1
  <2>4. PICK t \in next_delivery_event(doms[m], now) :
          HasPending(doms[m]) =>
            t \in {doms[m][d].retry : d \in PendingDomains(doms[m])}
    <3>1. CASE HasPending(doms[m])
      <4> DEFINE T == {doms[m][d].retry : d \in PendingDomains(doms[m])}
      <4>1. T \in SUBSET Nat /\ T # {}
        BY <2>1, <3>1 DEF PendingDomains, HasPending, Domain
      <4>2. next_delivery_event(doms[m], now) = Earliest(T)
        BY <3>1 DEF next_delivery_event
      <4> HIDE DEF T
      <4>3. Earliest(T) # {} /\ Earliest(T) \subseteq T
        BY <4>1, EarliestExists DEF Earliest
      <4> QED BY <4>2, <4>3 DEF T
    <3>2. CASE ~HasPending(doms[m]) BY <3>2 DEF next_delivery_event
    <3> QED BY <3>1, <3>2
  <2>5. t \in Nat BY <2>1, <2>4, DueTimesAreInstants
  <2>6. Ahead(scheduled[m][i], doms[m]) => scheduled[m][i] <= t BY <2>4 DEF Ahead
  <2>7. scheduled[m][i] <= NotBefore(t, now + LongestWait)
    BY <2>1, <2>2, <2>3, <2>5, <2>6, LongestWaitIs DEF NotBefore
  <2> QED BY <2>4, <2>7
<1> QED BY <1>1, <1>2, <1>3, QueueInvariant, FilesInvariant, PTL DEF Spec
=============================================================================
