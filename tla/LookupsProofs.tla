---------------------------- MODULE LookupsProofs ----------------------------
(***************************************************************************)
(* Lookups at a remote host, for any number of clients, workers, slots and *)
(* items, and caches of any size.                                          *)
(***************************************************************************)
EXTENDS Lookups, FiniteSetTheorems, SequenceTheorems, NaturalsInduction,
        WellFoundedInduction, TLAPS

-----------------------------------------------------------------------------
(* The inductive invariant                                                 *)

Answers == {"true", "false", "values"}
Client == [pc : {"idle", "asking"}, item : Items, answer : Answers \cup {"none"}]

LookupEvent == [type : {"lookup"}, client : Clients]
FailedEvent == [type : {"failed"}]
ReadyEvent == [type : {"ready"}, item : Items, answer : Answers, next : SUBSET Workers]
Events == LookupEvent \cup FailedEvent \cup ReadyEvent

Looking == [pc : {"look"}, client : Clients, rcpts : Nat, failures : Nat]
Served == [pc : {"answered"}, rcpts : Nat, failures : Nat, event : ReadyEvent]
Failing == [pc : {"answered"}, event : FailedEvent]
Offering == [pc : {"wait"}, rcpts : Nat, failures : Nat]
Late == [pc : {"late"}, client : Clients, answer : Answers \cup {"none"}]

LookupsType ==
  /\ clock \in Nat
  /\ DOMAIN cache_pos \subseteq Items /\ DOMAIN cache_neg \subseteq Items
  /\ channel \in Seq(Events) /\ waiting \in Seq(Clients) /\ active_lookups \in Nat
  /\ client \in [Clients -> Client]
  /\ worker \in [Workers -> {Idle} \cup Looking \cup Served \cup Failing \cup Offering \cup Late]
  /\ said \in [Items -> SUBSET Answers]

\* The places of a lookup.
Asks(event, c) == event.type = "lookup" /\ event.client = c
Serves(work, c) == work.pc \in {"look", "late"} /\ work.client = c

InChannel(c) == \E i \in DOMAIN channel : Asks(channel[i], c)
InQueue(c) == \E i \in DOMAIN waiting : waiting[i] = c
InWorker(c) == \E w \in Workers : Serves(worker[w], c)

OnceInChannel(c) ==
  \A i, j \in DOMAIN channel : Asks(channel[i], c) /\ Asks(channel[j], c) => i = j
OnceInQueue(c) == \A i, j \in DOMAIN waiting : waiting[i] = c /\ waiting[j] = c => i = j
OnceInWorker(c) ==
  \A v, w \in Workers : Serves(worker[v], c) /\ Serves(worker[w], c) => v = w

\* The lookup of a client is in one place while the client waits, and in none
\* otherwise; an SQL lookup is in the client alone.
PlaceOf(c) ==
  /\ OnceInChannel(c) /\ OnceInQueue(c) /\ OnceInWorker(c)
  /\ InChannel(c) => ~InQueue(c) /\ ~InWorker(c)
  /\ InQueue(c) => ~InWorker(c)
  /\ InChannel(c) \/ InQueue(c) \/ InWorker(c) <=> protocol # "sql" /\ client[c].pc = "asking"

PlaceInv == \A c \in Clients : PlaceOf(c)

\* Whatever is cached, sent or still to be said, a host has said of its item.
Said(event) == event.type = "ready" => event.answer \in said[event.item]

SaidInv ==
  /\ \A i \in DOMAIN cache_pos : "true" \in said[i]
  /\ \A i \in DOMAIN cache_neg : "false" \in said[i]
  /\ \A i \in DOMAIN channel : Said(channel[i])
  /\ \A w \in Workers : /\ worker[w].pc = "answered" => Said(worker[w].event)
                        /\ worker[w].pc = "late" =>
                             worker[w].answer \in said[ItemOf(worker[w].client)] \cup {"none"}
  /\ OwnAnswer

\* A worker that waits for another lookup has offered itself in one event, and
\* every offer in the channel is by a worker that waits.
Offer(w, i) == i \in DOMAIN channel /\ channel[i].type = "ready" /\ w \in channel[i].next

OfferInv ==
  /\ \A i \in DOMAIN channel : channel[i].type = "ready" =>
       \A w \in channel[i].next : channel[i].next = {w} /\ worker[w].pc = "wait"
  /\ \A w \in Workers : \A i, j : Offer(w, i) /\ Offer(w, j) => i = j
  /\ \A w \in Workers : worker[w].pc = "answered" /\ worker[w].event.type = "ready" =>
                          worker[w].event.next \subseteq {w}

SlotsInv == IsFiniteSet(Busy) /\ OfferInv /\ SlotsExact

LookupsInv == LookupsType /\ PlaceInv /\ SaidInv /\ SlotsInv

-----------------------------------------------------------------------------
(* The channel, the queue and the workers                                  *)

\* An element at the end of a sequence.
LEMMA Appended ==
  ASSUME NEW S, NEW s \in Seq(S), NEW e \in S
  PROVE  /\ Append(s, e) \in Seq(S)
         /\ Len(s) + 1 \notin DOMAIN s
         /\ DOMAIN Append(s, e) = DOMAIN s \cup {Len(s) + 1}
         /\ Append(s, e)[Len(s) + 1] = e
         /\ \A i \in DOMAIN s : Append(s, e)[i] = s[i]
<1>1. Len(s) \in Nat /\ DOMAIN s = 1..Len(s)  OBVIOUS
<1>2. DOMAIN Append(s, e) = 1..(Len(s) + 1)  OBVIOUS
<1>3. 1..(Len(s) + 1) = 1..Len(s) \cup {Len(s) + 1}  BY <1>1
<1> QED BY <1>1, <1>2, <1>3

\* A sequence without its first element.
LEMMA Removed ==
  ASSUME NEW S, NEW s \in Seq(S), s # <<>>
  PROVE  /\ Tail(s) \in Seq(S) /\ Head(s) \in S /\ 1 \in DOMAIN s /\ Head(s) = s[1]
         /\ \A i \in DOMAIN Tail(s) : /\ i \in Nat /\ i + 1 \in DOMAIN s /\ i + 1 # 1
                                      /\ Tail(s)[i] = s[i + 1]
         /\ \A i \in DOMAIN s : i # 1 => i - 1 \in DOMAIN Tail(s) /\ (i - 1) + 1 = i
         /\ DOMAIN s \subseteq Nat
<1>1. /\ Len(s) \in Nat \ {0} /\ DOMAIN s = 1..Len(s) /\ DOMAIN Tail(s) = 1..(Len(s) - 1)
      /\ Tail(s) \in Seq(S)
  OBVIOUS
<1> QED BY <1>1

\* An event sent is the only one more in the channel.
LEMMA ChannelSent ==
  ASSUME channel \in Seq(Events), NEW event \in Events, channel' = Append(channel, event), NEW c
  PROVE  /\ InChannel(c)' <=> InChannel(c) \/ Asks(event, c)
         /\ OnceInChannel(c) /\ ~(InChannel(c) /\ Asks(event, c)) => OnceInChannel(c)'
<1>1. /\ DOMAIN channel' = DOMAIN channel \cup {Len(channel) + 1}
      /\ channel'[Len(channel) + 1] = event
      /\ \A i \in DOMAIN channel : channel'[i] = channel[i]
  BY Appended
<1> QED BY <1>1 DEF InChannel, OnceInChannel, Asks

\* The first event leaves the channel.
LEMMA ChannelReceived ==
  ASSUME channel \in Seq(Events), channel # <<>>, channel' = Tail(channel), NEW c
  PROVE  /\ InChannel(c) <=> InChannel(c)' \/ Asks(Head(channel), c)
         /\ OnceInChannel(c) => /\ OnceInChannel(c)'
                                /\ ~(InChannel(c)' /\ Asks(Head(channel), c))
<1>1. /\ 1 \in DOMAIN channel /\ Head(channel) = channel[1] /\ DOMAIN channel \subseteq Nat
      /\ \A i \in DOMAIN channel' : /\ i \in Nat /\ i + 1 \in DOMAIN channel /\ i + 1 # 1
                                    /\ channel'[i] = channel[i + 1]
      /\ \A i \in DOMAIN channel : i # 1 => i - 1 \in DOMAIN channel' /\ (i - 1) + 1 = i
  BY Removed
<1>2. InChannel(c)' => InChannel(c)
  BY <1>1 DEF InChannel, Asks
<1>3. ASSUME NEW i \in DOMAIN channel, Asks(channel[i], c)
      PROVE  InChannel(c)' \/ Asks(Head(channel), c)
  <2>1. CASE i = 1  BY <1>1, <1>3, <2>1
  <2>2. CASE i # 1
    <3>1. i - 1 \in DOMAIN channel' /\ channel'[i - 1] = channel[i]  BY <1>1, <2>2
    <3> QED BY <1>3, <3>1 DEF InChannel, Asks
  <2> QED BY <2>1, <2>2
<1>4. Asks(Head(channel), c) => InChannel(c)
  BY <1>1 DEF InChannel
<1>5. ASSUME OnceInChannel(c)
      PROVE  OnceInChannel(c)' /\ ~(InChannel(c)' /\ Asks(Head(channel), c))
  <2>1. ASSUME NEW i \in DOMAIN channel', NEW j \in DOMAIN channel', Asks(channel'[i], c),
               Asks(channel'[j], c)
        PROVE  i = j
    <3>1. i + 1 = j + 1  BY <1>1, <1>5, <2>1 DEF OnceInChannel
    <3> QED BY <1>1, <3>1
  <2>2. OnceInChannel(c)'  BY <2>1 DEF OnceInChannel, Asks
  <2>3. ~(InChannel(c)' /\ Asks(Head(channel), c))
    BY <1>1, <1>5 DEF InChannel, OnceInChannel, Asks
  <2> QED BY <2>2, <2>3
<1> QED BY <1>2, <1>3, <1>4, <1>5 DEF InChannel

\* A lookup is put at the end of the queue.
LEMMA QueueSent ==
  ASSUME waiting \in Seq(Clients), NEW d \in Clients, waiting' = Append(waiting, d), NEW c
  PROVE  /\ InQueue(c)' <=> InQueue(c) \/ c = d
         /\ OnceInQueue(c) /\ ~(InQueue(c) /\ c = d) => OnceInQueue(c)'
<1>1. /\ DOMAIN waiting' = DOMAIN waiting \cup {Len(waiting) + 1}
      /\ waiting'[Len(waiting) + 1] = d
      /\ \A i \in DOMAIN waiting : waiting'[i] = waiting[i]
  BY Appended
<1> QED BY <1>1 DEF InQueue, OnceInQueue

\* The first lookup is taken from the queue.
LEMMA QueueTaken ==
  ASSUME NEW s \in Seq(Clients), s # <<>>, NEW c,
         \A i, j \in DOMAIN s : s[i] = c /\ s[j] = c => i = j
  PROVE  /\ (\E i \in DOMAIN s : s[i] = c) <=> (\E i \in DOMAIN Tail(s) : Tail(s)[i] = c) \/ Head(s) = c
         /\ \A i, j \in DOMAIN Tail(s) : Tail(s)[i] = c /\ Tail(s)[j] = c => i = j
         /\ ~((\E i \in DOMAIN Tail(s) : Tail(s)[i] = c) /\ Head(s) = c)
<1>1. /\ 1 \in DOMAIN s /\ Head(s) = s[1] /\ DOMAIN s \subseteq Nat
      /\ \A i \in DOMAIN Tail(s) : /\ i \in Nat /\ i + 1 \in DOMAIN s /\ i + 1 # 1
                                   /\ Tail(s)[i] = s[i + 1]
      /\ \A i \in DOMAIN s : i # 1 => i - 1 \in DOMAIN Tail(s) /\ (i - 1) + 1 = i
  BY Removed
<1>2. ASSUME NEW i \in DOMAIN Tail(s), NEW j \in DOMAIN Tail(s), Tail(s)[i] = c, Tail(s)[j] = c
      PROVE  i = j
  <2>1. i + 1 = j + 1  BY <1>1, <1>2
  <2> QED BY <1>1, <2>1
<1> QED BY <1>1, <1>2

\* An idle worker, or one that waits, is given something else to do.
LEMMA WorkerStarts ==
  ASSUME NEW w \in Workers, NEW r, worker' = [worker EXCEPT ![w] = r], NEW c,
         DOMAIN worker = Workers, ~Serves(worker[w], c)
  PROVE  /\ InWorker(c)' <=> InWorker(c) \/ Serves(r, c)
         /\ OnceInWorker(c) /\ ~(InWorker(c) /\ Serves(r, c)) => OnceInWorker(c)'
<1>1. worker'[w] = r /\ \A v \in Workers : v # w => worker'[v] = worker[v]
  OBVIOUS
<1> QED BY <1>1 DEF InWorker, OnceInWorker, Serves

\* A worker is done with its lookup.
LEMMA WorkerStops ==
  ASSUME NEW w \in Workers, NEW r, worker' = [worker EXCEPT ![w] = r], NEW c,
         DOMAIN worker = Workers, OnceInWorker(c), ~Serves(r, c)
  PROVE  OnceInWorker(c)' /\ (InWorker(c)' <=> InWorker(c) /\ ~Serves(worker[w], c))
<1>1. worker'[w] = r /\ \A v \in Workers : v # w => worker'[v] = worker[v]
  OBVIOUS
<1> QED BY <1>1 DEF InWorker, OnceInWorker, Serves

\* The lookups that a full cache answers are the first ones of the queue.
LEMMA HitsAreFirst ==
  ASSUME waiting \in Seq(Clients), NEW pos, NEW neg
  PROVE  \E n \in 0..Len(waiting) : /\ AnswerableLookups(pos, neg) = 1..n
                                    /\ Cardinality(AnswerableLookups(pos, neg)) = n
<1> DEFINE hit(j) == Cached(pos, neg, ItemOf(waiting[j])) # {}
           missed == {j \in 1..Len(waiting) : ~hit(j)}
<1>1. Len(waiting) \in Nat /\ DOMAIN waiting = 1..Len(waiting)  OBVIOUS
<1>2. AnswerableLookups(pos, neg) = {i \in 1..Len(waiting) : \A j \in 1..i : hit(j)}
  BY <1>1 DEF AnswerableLookups
<1> HIDE DEF hit
<1>3. \E n \in 0..Len(waiting) : AnswerableLookups(pos, neg) = 1..n
  <2>1. CASE missed = {}
    <3>1. \A i \in 1..Len(waiting) : \A j \in 1..i : hit(j)  BY <1>1, <2>1
    <3> DEFINE L == 1..Len(waiting)
               P == {i \in L : \A j \in 1..i : hit(j)}
    <3>2. P = L  BY <3>1
    <3>3. AnswerableLookups(pos, neg) = 1..Len(waiting)  BY <1>2, <3>2
    <3>4. Len(waiting) \in 0..Len(waiting)  BY <1>1
    <3> QED BY <3>3, <3>4
  <2>2. CASE missed # {}
    <3> DEFINE Less == {ss \in Nat \X Nat : ss[1] < ss[2]}
    <3>1. IsWellFoundedOn(Less, Nat)  BY NatLessThanWellFounded DEF OpToRel
    <3>2. missed \subseteq Nat  BY <1>1
    <3>3. PICK m \in missed : \A j \in missed : ~(<<j, m>> \in Less)
      <4> HIDE DEF Less, missed
      <4> QED BY <2>2, <3>1, <3>2, WFMin
    <3>4. m \in 1..Len(waiting) /\ ~hit(m)  OBVIOUS
    <3>5. \A j \in 1..Len(waiting) : j < m => hit(j)
      <4>1. ASSUME NEW j \in 1..Len(waiting), j < m, ~hit(j)  PROVE FALSE
        <5>1. j \in missed /\ j \in Nat /\ m \in Nat  BY <1>1, <3>4, <4>1
        <5>2. <<j, m>> \in Less  BY <4>1, <5>1
        <5> QED BY <3>3, <5>1, <5>2
      <4> QED BY <4>1
    <3>6. m - 1 \in 0..Len(waiting) /\ m \in Nat  BY <1>1, <3>4
    <3>7. \A i \in 1..Len(waiting) : (\A j \in 1..i : hit(j)) <=> i < m
      <4>1. ASSUME NEW i \in 1..Len(waiting), i < m, NEW j \in 1..i  PROVE hit(j)
        <5>1. j \in 1..Len(waiting) /\ j < m  BY <1>1, <3>6, <4>1
        <5> QED BY <3>5, <5>1
      <4>2. ASSUME NEW i \in 1..Len(waiting), ~(i < m)  PROVE ~(\A j \in 1..i : hit(j))
        <5>1. m \in 1..i  BY <1>1, <3>4, <4>2
        <5> QED BY <3>4, <5>1
      <4> QED BY <4>1, <4>2
    <3>8. AnswerableLookups(pos, neg) = 1..(m - 1)
      <4>1. \A i : i \in 1..Len(waiting) /\ i < m <=> i \in 1..(m - 1)  BY <1>1, <3>4
      <4> QED BY <1>2, <3>7, <4>1
    <3> QED BY <3>6, <3>8
  <2> QED BY <2>1, <2>2
<1>4. PICK n \in 0..Len(waiting) : AnswerableLookups(pos, neg) = 1..n  BY <1>3
<1>5. n \in Nat /\ Cardinality(1..n) = n
  <2>1. n \in Nat /\ 1 \in Int /\ n \in Int  BY <1>1
  <2>2. Cardinality(1..n) = IF 1 > n THEN 0 ELSE n - 1 + 1  BY <2>1, FS_Interval
  <2>3. (IF 1 > n THEN 0 ELSE n - 1 + 1) = n  BY <2>1
  <2> QED BY <2>1, <2>2, <2>3
<1> QED BY <1>4, <1>5

-----------------------------------------------------------------------------
(* Records, caches and answers                                             *)

\* What a worker in each of its states has.
LEMMA WorkerStates ==
  ASSUME LookupsType, NEW w \in Workers
  PROVE  /\ worker[w].pc \in {"idle", "look", "answered", "wait", "late"}
         /\ worker[w].pc = "look" => worker[w] \in Looking
         /\ worker[w].pc = "wait" => worker[w] \in Offering
         /\ worker[w].pc = "late" => worker[w] \in Late
         /\ worker[w].pc = "answered" =>
              \/ worker[w] \in Served /\ worker[w].event.type = "ready"
              \/ worker[w] \in Failing /\ worker[w].event.type = "failed"
<1>1. \/ worker[w] = Idle \/ worker[w] \in Looking \/ worker[w] \in Served
      \/ worker[w] \in Failing \/ worker[w] \in Offering \/ worker[w] \in Late
  BY DEF LookupsType
<1> QED BY <1>1 DEF Idle, Looking, Served, Failing, Offering, Late, ReadyEvent, FailedEvent

\* What an event of each type has.
LEMMA EventKinds ==
  ASSUME NEW e \in Events
  PROVE  /\ e.type = "lookup" => e \in LookupEvent
         /\ e.type = "failed" => e \in FailedEvent
         /\ e.type = "ready" => e \in ReadyEvent
         /\ e.type \in {"lookup", "failed", "ready"}
BY DEF Events, LookupEvent, FailedEvent, ReadyEvent

\* An answer from the cache is in it.
LEMMA CachedAnswer ==
  ASSUME NEW pos, NEW neg, NEW item, Cached(pos, neg, item) # {}
  PROVE  LET a == CHOOSE x \in Cached(pos, neg, item) : TRUE
         IN \/ a = "true" /\ item \in DOMAIN pos
            \/ a = "false" /\ item \in DOMAIN neg
BY DEF Cached

\* A cache gains the item inserted and may lose others.
LEMMA InsertedDomain ==
  ASSUME NEW entries, NEW item, NEW until
  PROVE  \A new \in Inserted(entries, item, until) : DOMAIN new \subseteq DOMAIN entries \cup {item}
BY DEF Inserted

\* A look at a cache adds nothing to it.
LEMMA ForgetDomain ==
  ASSUME NEW entries, NEW items
  PROVE  DOMAIN Forget(entries, items) \subseteq DOMAIN entries
BY DEF Forget

\* insert, for a positive and for a negative answer.
LEMMA InsertDomains ==
  ASSUME NEW item, NEW answer
  PROVE  /\ \A new \in insert_pos(item, answer) : \A i \in DOMAIN new :
              i \in DOMAIN cache_pos \/ (i = item /\ answer = "true")
         /\ \A new \in insert_neg(item, answer) : \A i \in DOMAIN new :
              i \in DOMAIN cache_neg \/ (i = item /\ answer = "false")
<1>1. \A new \in insert_pos(item, answer) : \A i \in DOMAIN new :
        i \in DOMAIN cache_pos \/ (i = item /\ answer = "true")
  <2>1. CASE answer = "true"  BY <2>1, InsertedDomain DEF insert_pos
  <2>2. CASE answer # "true"  BY <2>2 DEF insert_pos
  <2> QED BY <2>1, <2>2
<1>2. \A new \in insert_neg(item, answer) : \A i \in DOMAIN new :
        i \in DOMAIN cache_neg \/ (i = item /\ answer = "false")
  <2>1. CASE answer = "false"  BY <2>1, InsertedDomain DEF insert_neg
  <2>2. CASE answer # "false"  BY <2>2 DEF insert_neg
  <2> QED BY <2>1, <2>2
<1> QED BY <1>1, <1>2

\* The clients that are answered no longer wait; the others are as they were.
LEMMA AnsweredClients ==
  ASSUME client \in [Clients -> Client], NEW ans,
         \A c \in DOMAIN ans : ans[c] \in Answers \cup {"none"}
  PROVE  /\ Answered(ans) \in [Clients -> Client]
         /\ \A c \in Clients :
              /\ Answered(ans)[c].item = client[c].item
              /\ c \in DOMAIN ans => Answered(ans)[c].pc = "idle" /\ Answered(ans)[c].answer = ans[c]
              /\ c \notin DOMAIN ans => Answered(ans)[c] = client[c]
<1>1. ASSUME NEW c \in Clients
      PROVE  /\ Answered(ans)[c] \in Client
             /\ Answered(ans)[c].item = client[c].item
             /\ c \in DOMAIN ans => Answered(ans)[c].pc = "idle" /\ Answered(ans)[c].answer = ans[c]
             /\ c \notin DOMAIN ans => Answered(ans)[c] = client[c]
  <2>1. CASE c \in DOMAIN ans
    <3>1. Answered(ans)[c] = [client[c] EXCEPT !.pc = "idle", !.answer = ans[c]]
      BY <2>1 DEF Answered
    <3>2. client[c] \in Client /\ ans[c] \in Answers \cup {"none"}  BY <2>1
    <3>3. /\ Answered(ans)[c] \in Client /\ Answered(ans)[c].item = client[c].item
          /\ Answered(ans)[c].pc = "idle" /\ Answered(ans)[c].answer = ans[c]
      BY <3>1, <3>2 DEF Client
    <3> QED BY <2>1, <3>3
  <2>2. CASE c \notin DOMAIN ans
    <3>1. Answered(ans)[c] = client[c]  BY <2>2 DEF Answered
    <3> QED BY <2>2, <3>1
  <2> QED BY <2>1, <2>2
<1>2. DOMAIN Answered(ans) = Clients /\ Answered(ans) = [c \in Clients |-> Answered(ans)[c]]
  BY DEF Answered
<1> QED BY <1>1, <1>2

\* The same for one client.
LEMMA ReplyClient ==
  ASSUME client \in [Clients -> Client], NEW d \in Clients, NEW a \in Answers \cup {"none"},
         Reply(d, a)
  PROVE  /\ client' \in [Clients -> Client]
         /\ \A c \in Clients : client'[c].item = client[c].item
         /\ client'[d].pc = "idle" /\ client'[d].answer = a
         /\ \A c \in Clients : c # d => client'[c] = client[c]
<1> DEFINE ans == [x \in {d} |-> a]
<1>1. DOMAIN ans = {d} /\ ans[d] = a /\ client' = Answered(ans)  BY DEF Reply
<1> HIDE DEF ans
<1> QED BY <1>1, AnsweredClients

-----------------------------------------------------------------------------
(* The slots                                                               *)

\* An event that gives a slot back without a worker.
Frees(event) == event.type = "failed" \/ (event.type = "ready" /\ event.next = {})

\* The events that give a slot back are finite in number.
LEMMA LeavingFinite ==
  ASSUME channel \in Seq(Events)
  PROVE  IsFiniteSet(Leaving) /\ Cardinality(Leaving) \in Nat
<1>1. Len(channel) \in Nat /\ DOMAIN channel = 1..Len(channel)  OBVIOUS
<1>2. IsFiniteSet(1..Len(channel))  BY <1>1, FS_Interval
<1>3. Leaving \in SUBSET (1..Len(channel))  BY <1>1 DEF Leaving
<1> QED BY <1>2, <1>3, FS_Subset, FS_CardinalityType

\* An event that is sent may give back one more slot.
LEMMA LeavingSent ==
  ASSUME channel \in Seq(Events), NEW event \in Events, channel' = Append(channel, event)
  PROVE  Cardinality(Leaving') = Cardinality(Leaving) + (IF Frees(event) THEN 1 ELSE 0)
<1> DEFINE n == Len(channel) + 1
<1>1. /\ DOMAIN channel' = DOMAIN channel \cup {n} /\ n \notin DOMAIN channel
      /\ channel'[n] = event /\ \A i \in DOMAIN channel : channel'[i] = channel[i]
  BY Appended
<1> HIDE DEF n
<1>2. IsFiniteSet(Leaving) /\ Cardinality(Leaving) \in Nat  BY LeavingFinite
<1>3. n \notin Leaving  BY <1>1 DEF Leaving
<1>4. CASE Frees(event)
  <2>1. Leaving' = Leaving \cup {n}  BY <1>1, <1>4 DEF Leaving, Frees
  <2> QED BY <1>2, <1>3, <1>4, <2>1, FS_AddElement
<1>5. CASE ~Frees(event)
  <2>1. Leaving' = Leaving  BY <1>1, <1>5 DEF Leaving, Frees
  <2> QED BY <1>2, <1>5, <2>1
<1> QED BY <1>4, <1>5

\* An event that is received gives back no slot any more.
LEMMA LeavingReceived ==
  ASSUME channel \in Seq(Events), channel # <<>>, channel' = Tail(channel)
  PROVE  Cardinality(Leaving') = Cardinality(Leaving) - (IF Frees(Head(channel)) THEN 1 ELSE 0)
<1>1. /\ 1 \in DOMAIN channel /\ Head(channel) = channel[1] /\ DOMAIN channel \subseteq Nat
      /\ \A i \in DOMAIN channel' : /\ i \in Nat /\ i + 1 \in DOMAIN channel /\ i + 1 # 1
                                    /\ channel'[i] = channel[i + 1]
      /\ \A i \in DOMAIN channel : i # 1 => i - 1 \in DOMAIN channel' /\ (i - 1) + 1 = i
  BY Removed
<1>2. IsFiniteSet(Leaving) /\ Cardinality(Leaving) \in Nat  BY LeavingFinite
<1> DEFINE S == Leaving \ {1}
           f == [i \in S |-> i - 1]
<1>3. IsFiniteSet(S) /\ Cardinality(S) = IF 1 \in Leaving THEN Cardinality(Leaving) - 1
                                         ELSE Cardinality(Leaving)
  BY <1>2, FS_RemoveElement
<1>4. 1 \in Leaving <=> Frees(Head(channel))  BY <1>1 DEF Leaving, Frees
<1>5. \A i \in S : i - 1 \in Leaving' /\ i \in Nat
  <2>1. ASSUME NEW i \in S  PROVE i - 1 \in Leaving' /\ i \in Nat
    <3>1. i \in DOMAIN channel /\ i # 1 /\ Frees(channel[i])  BY DEF Leaving, Frees
    <3>2. i - 1 \in DOMAIN channel' /\ channel'[i - 1] = channel[i] /\ i \in Nat  BY <1>1, <3>1
    <3> QED BY <3>1, <3>2 DEF Leaving, Frees
  <2> QED BY <2>1
<1>6. \A j \in Leaving' : j + 1 \in S /\ j \in Nat
  BY <1>1 DEF Leaving
<1> HIDE DEF S
<1>7. f \in Bijection(S, Leaving')
  <2>1. f \in [S -> Leaving']  BY <1>5
  <2>2. \A i, j \in S : f[i] = f[j] => i = j
    <3>1. ASSUME NEW i \in S, NEW j \in S, f[i] = f[j]  PROVE i = j
      <4>1. i - 1 = j - 1 /\ i \in Nat /\ j \in Nat  BY <1>5, <3>1
      <4> QED BY <4>1
    <3> QED BY <3>1
  <2>3. \A j \in Leaving' : \E i \in S : f[i] = j
    <3>1. ASSUME NEW j \in Leaving'  PROVE \E i \in S : f[i] = j
      <4>1. j + 1 \in S /\ j \in Nat  BY <1>6
      <4>2. f[j + 1] = j  BY <4>1
      <4> QED BY <4>1, <4>2
    <3> QED BY <3>1
  <2> QED BY <2>1, <2>2, <2>3 DEF Bijection, Injection, Surjection, IsInjective
<1>8. Cardinality(Leaving') = Cardinality(S)
  <2>1. ExistsBijection(S, Leaving')  BY <1>7 DEF ExistsBijection
  <2> QED BY <1>3, <2>1, FS_Bijection
<1> QED BY <1>2, <1>3, <1>4, <1>8

\* A worker becomes busy, or stops being busy.
LEMMA BusyChanges ==
  ASSUME IsFiniteSet(Busy), DOMAIN worker = Workers, NEW w \in Workers, NEW r,
         worker' = [worker EXCEPT ![w] = r]
  PROVE  /\ IsFiniteSet(Busy') /\ Cardinality(Busy) \in Nat /\ Cardinality(Busy') \in Nat
         /\ Cardinality(Busy') = Cardinality(Busy)
              - (IF worker[w].pc \in {"look", "answered", "wait"} THEN 1 ELSE 0)
              + (IF r.pc \in {"look", "answered", "wait"} THEN 1 ELSE 0)
<1> DEFINE B == {"look", "answered", "wait"}
<1>1. worker'[w] = r /\ \A v \in Workers : v # w => worker'[v] = worker[v]
  OBVIOUS
<1>2. Cardinality(Busy) \in Nat  BY FS_CardinalityType
<1>3. CASE worker[w].pc \in B /\ r.pc \in B
  <2>1. Busy' = Busy  BY <1>1, <1>3 DEF Busy
  <2> QED BY <1>2, <1>3, <2>1
<1>4. CASE worker[w].pc \notin B /\ r.pc \notin B
  <2>1. Busy' = Busy  BY <1>1, <1>4 DEF Busy
  <2> QED BY <1>2, <1>4, <2>1
<1>5. CASE worker[w].pc \notin B /\ r.pc \in B
  <2>1. Busy' = Busy \cup {w} /\ w \notin Busy  BY <1>1, <1>5 DEF Busy
  <2>2. IsFiniteSet(Busy') /\ Cardinality(Busy') = Cardinality(Busy) + 1
    BY <2>1, FS_AddElement
  <2> QED BY <1>2, <1>5, <2>2
<1>6. CASE worker[w].pc \in B /\ r.pc \notin B
  <2>1. Busy' = Busy \ {w} /\ w \in Busy  BY <1>1, <1>6 DEF Busy
  <2>2. IsFiniteSet(Busy') /\ Cardinality(Busy') = Cardinality(Busy) - 1
    BY <2>1, FS_RemoveElement
  <2>3. Cardinality(Busy') \in Nat  BY <2>2, FS_CardinalityType
  <2> QED BY <1>2, <1>6, <2>2, <2>3
<1> QED BY <1>3, <1>4, <1>5, <1>6

-----------------------------------------------------------------------------
(* What the steps do                                                       *)

\* The event at hand.
LEMMA EventAtHand ==
  ASSUME LookupsType, NEW type, Event(type)
  PROVE  /\ channel # <<>> /\ channel' = Tail(channel) /\ channel' \in Seq(Events)
         /\ Head(channel) \in Events /\ Head(channel).type = type
         /\ type = "lookup" => Head(channel).client \in Clients
         /\ type = "ready" => Head(channel) \in ReadyEvent
<1>1. /\ channel # <<>> /\ channel' = Tail(channel) /\ Head(channel).type = type
      /\ channel \in Seq(Events)
  BY DEF Event, LookupsType
<1>2. Head(channel) \in Events /\ channel' \in Seq(Events)  BY <1>1, Removed
<1>3. type = "lookup" => Head(channel).client \in Clients
  BY <1>1, <1>2, EventKinds DEF LookupEvent
<1> QED BY <1>1, <1>2, <1>3, EventKinds

\* WorkerReady takes the answered lookups and one more from the queue, answers the
\* first from the cache and gives the other to a worker.
LEMMA ReadyQueue ==
  ASSUME LookupsType, NEW pos, NEW neg
  PROVE  LET hits == AnswerableLookups(pos, neg)
             rest == SubSeq(waiting, Cardinality(hits) + 1, Len(waiting))
             done == {waiting[i] : i \in hits}
         IN /\ rest \in Seq(Clients) /\ done \subseteq Clients
            /\ \A c \in done : Cached(pos, neg, ItemOf(c)) # {}
            /\ rest # <<>> => waiting # <<>>
            /\ \A c : InQueue(c) <=> c \in done \/ \E i \in DOMAIN rest : rest[i] = c
            /\ \A c : OnceInQueue(c) =>
                 /\ ~(c \in done /\ \E i \in DOMAIN rest : rest[i] = c)
                 /\ \A i, j \in DOMAIN rest : rest[i] = c /\ rest[j] = c => i = j
<1> DEFINE hits == AnswerableLookups(pos, neg)
           rest == SubSeq(waiting, Cardinality(hits) + 1, Len(waiting))
           done == {waiting[i] : i \in hits}
<1>1. waiting \in Seq(Clients)  BY DEF LookupsType
<1>2. PICK n \in 0..Len(waiting) : hits = 1..n /\ Cardinality(hits) = n
  BY <1>1, HitsAreFirst
<1>3. n \in Nat /\ Len(waiting) \in Nat /\ DOMAIN waiting = 1..Len(waiting) /\ n <= Len(waiting)
  BY <1>1
<1>4. \A i \in hits : Cached(pos, neg, ItemOf(waiting[i])) # {}
  <2>1. ASSUME NEW i \in hits  PROVE Cached(pos, neg, ItemOf(waiting[i])) # {}
    <3>1. i \in 1..i  BY <1>2, <1>3
    <3> QED BY <3>1 DEF AnswerableLookups
  <2> QED BY <2>1
<1> HIDE DEF hits
<1>5. rest = SubSeq(waiting, n + 1, Len(waiting))  BY <1>2
<1> HIDE DEF rest
<1>6. /\ rest \in Seq(Clients) /\ DOMAIN rest = 1..(Len(waiting) - n)
      /\ \A i \in DOMAIN rest : /\ i \in Nat /\ n + i \in DOMAIN waiting
                                /\ n + i \notin 1..n /\ rest[i] = waiting[n + i]
  <2> DEFINE l == Len(waiting)
             m == n + 1
  <2>0. m \in Int /\ l \in Int /\ l \in Nat /\ n <= l /\ l - m + 1 = l - n  BY <1>3
  <2>6. \A i \in m..l : waiting[i] \in Clients  BY <1>1, <1>3
  <2> HIDE DEF l, m
  <2>7. /\ SubSeq(waiting, m, l) \in Seq(Clients)
        /\ Len(SubSeq(waiting, m, l)) = IF m <= l THEN l - m + 1 ELSE 0
        /\ \A i \in 1..(l - m + 1) : SubSeq(waiting, m, l)[i] = waiting[m + i - 1]
    BY <2>0, <2>6, SubSeqProperties
  <2>8. rest = SubSeq(waiting, m, l)  BY <1>5 DEF l, m
  <2>1. rest \in Seq(Clients)  BY <2>7, <2>8
  <2>4. Len(rest) = Len(waiting) - n
    <3>1. (IF m <= l THEN l - m + 1 ELSE 0) = l - n  BY <1>3, <2>0 DEF m
    <3> QED BY <2>7, <2>8, <3>1 DEF l
  <2>5. \A i \in 1..(Len(waiting) - n) : rest[i] = waiting[n + 1 + i - 1]
    BY <2>0, <2>7, <2>8 DEF l, m
  <2>2. \A i \in 1..(Len(waiting) - n) : /\ i \in Nat /\ n + i \in 1..Len(waiting)
                                         /\ n + i \notin 1..n /\ n + 1 + i - 1 = n + i
    BY <1>3
  <2>3. DOMAIN rest = 1..(Len(waiting) - n)  BY <2>1, <2>4
  <2> QED BY <1>3, <2>1, <2>2, <2>3, <2>5
<1>7. \A i \in DOMAIN waiting : i \in 1..n \/ (i - n \in DOMAIN rest /\ rest[i - n] = waiting[i])
  <2>1. ASSUME NEW i \in DOMAIN waiting, i \notin 1..n
        PROVE  i - n \in DOMAIN rest /\ rest[i - n] = waiting[i]
    <3>1. i \in Nat /\ i > n /\ i <= Len(waiting)  BY <1>3, <2>1
    <3>2. i - n \in 1..(Len(waiting) - n) /\ n + (i - n) = i  BY <1>3, <3>1
    <3> QED BY <1>6, <3>2
  <2> QED BY <2>1
<1>8. 1..n \subseteq DOMAIN waiting  BY <1>3
<1>9. done \subseteq Clients /\ \A c \in done : Cached(pos, neg, ItemOf(c)) # {}
  BY <1>1, <1>2, <1>4, <1>8
<1>10. rest # <<>> => waiting # <<>>
  <2>1. ASSUME waiting = <<>>  PROVE rest = <<>>
    <3>1. Len(waiting) = 0 /\ n = 0  BY <1>3, <2>1
    <3>2. DOMAIN rest = 1..0  BY <1>6, <3>1
    <3>3. Len(rest) = 0  BY <1>6, <3>2
    <3> QED BY <1>6, <3>3
  <2> QED BY <2>1
<1>11. \A c : InQueue(c) <=> c \in done \/ \E i \in DOMAIN rest : rest[i] = c
  BY <1>2, <1>6, <1>7, <1>8 DEF InQueue
<1>12. ASSUME NEW c, OnceInQueue(c)
       PROVE  /\ ~(c \in done /\ \E i \in DOMAIN rest : rest[i] = c)
              /\ \A i, j \in DOMAIN rest : rest[i] = c /\ rest[j] = c => i = j
  <2>1. ~(c \in done /\ \E i \in DOMAIN rest : rest[i] = c)
    BY <1>2, <1>6, <1>8, <1>12 DEF OnceInQueue
  <2>2. ASSUME NEW i \in DOMAIN rest, NEW j \in DOMAIN rest, rest[i] = c, rest[j] = c
        PROVE  i = j
    <3>1. n + i = n + j  BY <1>6, <1>12, <2>2 DEF OnceInQueue
    <3> QED BY <1>3, <1>6, <3>1
  <2> QED BY <2>1, <2>2
<1> QED BY <1>6, <1>9, <1>10, <1>11, <1>12 DEF rest, hits

\* The whole step: who is answered, and what becomes of the worker and its slot.
ReadyEffect(done, s) ==
  LET event == Head(channel)
  IN /\ done \subseteq Clients /\ s \in Seq(Clients) /\ (s # <<>> => waiting # <<>>)
     /\ \A c : InQueue(c) <=> c \in done \/ \E i \in DOMAIN s : s[i] = c
     /\ \A c : OnceInQueue(c) => /\ ~(c \in done /\ \E i \in DOMAIN s : s[i] = c)
                                 /\ \A i, j \in DOMAIN s : s[i] = c /\ s[j] = c => i = j
     /\ \A i \in DOMAIN cache_pos' :
          i \in DOMAIN cache_pos \/ (i = event.item /\ event.answer = "true")
     /\ \A i \in DOMAIN cache_neg' :
          i \in DOMAIN cache_neg \/ (i = event.item /\ event.answer = "false")
     /\ client' \in [Clients -> Client]
     /\ \A c \in Clients : client'[c].item = client[c].item
     /\ \A c \in done :
          /\ client'[c].pc = "idle"
          /\ \/ /\ client'[c].answer = "true"
                /\ \/ ItemOf(c) \in DOMAIN cache_pos
                   \/ ItemOf(c) = event.item /\ event.answer = "true"
             \/ /\ client'[c].answer = "false"
                /\ \/ ItemOf(c) \in DOMAIN cache_neg
                   \/ ItemOf(c) = event.item /\ event.answer = "false"
     /\ \A c \in Clients \ done : client'[c] = client[c]
     /\ \/ s = <<>> /\ waiting' = <<>> /\ EndWorker(event.next)
        \/ /\ s # <<>> /\ waiting' = Tail(s) /\ active_lookups' = active_lookups
           /\ \/ event.next = {} /\ Spawn(Head(s))
              \/ \E w \in event.next : worker' = [worker EXCEPT
                   ![w] = [pc |-> "look", client |-> Head(s), rcpts |-> @.rcpts,
                           failures |-> @.failures]]

\* Event::WorkerReady has that effect.
LEMMA ReadyDoes ==
  ASSUME LookupsType, HandleReady
  PROVE  \E done, s : ReadyEffect(done, s)
<1> DEFINE event == Head(channel)
<1>1. PICK pos \in insert_pos(event.item, event.answer), neg \in insert_neg(event.item, event.answer) :
       LET hits == AnswerableLookups(pos, neg)
           looked_at == {i \in DOMAIN waiting : i <= Cardinality(hits) + 1}
           rest == SubSeq(waiting, Cardinality(hits) + 1, Len(waiting))
           next == event.next
       IN /\ cache_pos' = Forget(pos, {ItemOf(waiting[i]) : i \in looked_at})
          /\ cache_neg' = neg
          /\ client' = Answered([c \in {waiting[i] : i \in hits} |->
                                   CHOOSE a \in Cached(pos, neg, ItemOf(c)) : TRUE])
          /\ \/ /\ rest = <<>>
                /\ waiting' = <<>>
                /\ EndWorker(next)
             \/ /\ rest # <<>>
                /\ waiting' = Tail(rest)
                /\ \/ next = {} /\ Spawn(Head(rest))
                   \/ \E w \in next : worker' = [worker EXCEPT
                        ![w] = [pc |-> "look", client |-> Head(rest), rcpts |-> @.rcpts,
                                failures |-> @.failures]]
                /\ UNCHANGED active_lookups
  BY DEF HandleReady
<1> DEFINE hits == AnswerableLookups(pos, neg)
           looked_at == {i \in DOMAIN waiting : i <= Cardinality(hits) + 1}
           s == SubSeq(waiting, Cardinality(hits) + 1, Len(waiting))
           done == {waiting[i] : i \in hits}
           ans == [c \in done |-> CHOOSE a \in Cached(pos, neg, ItemOf(c)) : TRUE]
<1>2. /\ s \in Seq(Clients) /\ done \subseteq Clients
      /\ \A c \in done : Cached(pos, neg, ItemOf(c)) # {}
      /\ s # <<>> => waiting # <<>>
      /\ \A c : InQueue(c) <=> c \in done \/ \E i \in DOMAIN s : s[i] = c
      /\ \A c : OnceInQueue(c) => /\ ~(c \in done /\ \E i \in DOMAIN s : s[i] = c)
                                  /\ \A i, j \in DOMAIN s : s[i] = c /\ s[j] = c => i = j
  BY ReadyQueue
<1>3. /\ cache_pos' = Forget(pos, {ItemOf(waiting[i]) : i \in looked_at}) /\ cache_neg' = neg
      /\ client' = Answered(ans)
      /\ \/ s = <<>> /\ waiting' = <<>> /\ EndWorker(event.next)
         \/ /\ s # <<>> /\ waiting' = Tail(s) /\ active_lookups' = active_lookups
            /\ \/ event.next = {} /\ Spawn(Head(s))
               \/ \E w \in event.next : worker' = [worker EXCEPT
                    ![w] = [pc |-> "look", client |-> Head(s), rcpts |-> @.rcpts,
                            failures |-> @.failures]]
  BY <1>1
<1> HIDE DEF s, looked_at
<1>4. \A i \in DOMAIN cache_pos' : i \in DOMAIN cache_pos \/ (i = event.item /\ event.answer = "true")
  <2>1. DOMAIN cache_pos' \subseteq DOMAIN pos  BY <1>3, ForgetDomain
  <2> QED BY <2>1, InsertDomains
<1>5. \A i \in DOMAIN cache_neg' : i \in DOMAIN cache_neg \/ (i = event.item /\ event.answer = "false")
  BY <1>3, InsertDomains
<1>6. \A c \in done : \/ ans[c] = "true" /\ ItemOf(c) \in DOMAIN pos
                      \/ ans[c] = "false" /\ ItemOf(c) \in DOMAIN neg
  BY <1>2, CachedAnswer
<1>7. DOMAIN ans = done  OBVIOUS
<1> HIDE DEF done, ans
<1>8. /\ client' \in [Clients -> Client]
      /\ \A c \in Clients :
           /\ client'[c].item = client[c].item
           /\ c \in done => client'[c].pc = "idle" /\ client'[c].answer = ans[c]
           /\ c \notin done => client'[c] = client[c]
  <2>1. \A c \in DOMAIN ans : ans[c] \in Answers \cup {"none"}  BY <1>6, <1>7 DEF Answers
  <2>2. client \in [Clients -> Client]  BY DEF LookupsType
  <2> QED BY <1>3, <1>7, <2>1, <2>2, AnsweredClients
<1>9. ASSUME NEW c \in done
      PROVE  /\ client'[c].pc = "idle"
             /\ \/ /\ client'[c].answer = "true"
                   /\ \/ ItemOf(c) \in DOMAIN cache_pos
                      \/ ItemOf(c) = event.item /\ event.answer = "true"
                \/ /\ client'[c].answer = "false"
                   /\ \/ ItemOf(c) \in DOMAIN cache_neg
                      \/ ItemOf(c) = event.item /\ event.answer = "false"
  <2>1. c \in Clients  BY <1>2, <1>9
  <2>2. client'[c].pc = "idle" /\ client'[c].answer = ans[c]  BY <1>8, <1>9, <2>1
  <2>3. CASE ans[c] = "true" /\ ItemOf(c) \in DOMAIN pos
    <3>1. ItemOf(c) \in DOMAIN cache_pos \/ (ItemOf(c) = event.item /\ event.answer = "true")
      BY <2>3, InsertDomains
    <3> QED BY <2>2, <2>3, <3>1
  <2>4. CASE ans[c] = "false" /\ ItemOf(c) \in DOMAIN neg
    <3>1. ItemOf(c) \in DOMAIN cache_neg \/ (ItemOf(c) = event.item /\ event.answer = "false")
      BY <2>4, InsertDomains
    <3> QED BY <2>2, <2>4, <3>1
  <2> QED BY <1>6, <1>9, <2>3, <2>4
<1>10. ReadyEffect(done, s)
  BY <1>2, <1>3, <1>4, <1>5, <1>8, <1>9 DEF ReadyEffect
<1> QED BY <1>10

-----------------------------------------------------------------------------
(* Types                                                                   *)

\* The event of a worker that has an answer.
LEMMA ReadyIsEvent ==
  ASSUME LookupsType, NEW c \in Clients, NEW answer \in Answers, NEW next \in SUBSET Workers
  PROVE  /\ Ready(c, answer, next) \in ReadyEvent /\ Ready(c, answer, next) \in Events
         /\ Ready(c, answer, next).type = "ready" /\ Ready(c, answer, next).item = ItemOf(c)
         /\ Ready(c, answer, next).answer = answer /\ Ready(c, answer, next).next = next
BY DEF LookupsType, Client, Ready, ReadyEvent, Events, ItemOf

\* A host answers an item with one of its possible answers.
LEMMA AnswersAre == \A item : PossibleAnswers(item) \subseteq Answers
BY DEF PossibleAnswers, Answers

\* The steps of a client.
LEMMA ClientTypes ==
  ASSUME LookupsType, LookupsAssumption, NEW c \in Clients,
         SqlAnswer(c) \/ \E item \in Items : Ask(c, item)
  PROVE  LookupsType'
<1>1. CASE SqlAnswer(c)
  <2>1. /\ UNCHANGED <<clock, channel, waiting, active_lookups, worker>> /\ ItemOf(c) \in Items
        /\ client \in [Clients -> Client]
    BY <1>1 DEF SqlAnswer, LookupsType, ItemOf, Client
  <2>2. ASSUME NEW answer \in PossibleAnswers(ItemOf(c)),
               said' = [said EXCEPT ![ItemOf(c)] = @ \cup {answer}],
               \/ /\ cache_pos' \in insert_pos(ItemOf(c), answer)
                  /\ cache_neg' \in insert_neg(ItemOf(c), answer)
               \/ UNCHANGED cache,
               Reply(c, answer)
        PROVE  LookupsType'
    <3>1. answer \in Answers  BY AnswersAre
    <3>2. client' \in [Clients -> Client]  BY <2>1, <2>2, <3>1, ReplyClient
    <3>3. said' \in [Items -> SUBSET Answers]  BY <2>1, <2>2, <3>1 DEF LookupsType
    <3>4. DOMAIN cache_pos' \subseteq Items /\ DOMAIN cache_neg' \subseteq Items
      BY <2>1, <2>2, InsertDomains DEF LookupsType, cache
    <3> QED BY <2>1, <3>2, <3>3, <3>4 DEF LookupsType
  <2>3. ASSUME Reply(c, "none"), UNCHANGED <<said, cache>>  PROVE LookupsType'
    <3>1. client' \in [Clients -> Client]  BY <2>1, <2>3, ReplyClient
    <3> QED BY <2>1, <2>3, <3>1 DEF LookupsType, cache
  <2> QED BY <1>1, <2>2, <2>3 DEF SqlAnswer
<1>2. ASSUME NEW item \in Items, Ask(c, item)  PROVE LookupsType'
  <2> DEFINE hit == IF KindOf[item] = "account" THEN Cached(cache_pos, cache_neg, item) ELSE {}
  <2>1. UNCHANGED <<clock, cache_neg, waiting, active_lookups, worker, said>>
    BY <1>2 DEF Ask
  <2>2. client \in [Clients -> Client]  BY DEF LookupsType
  <2>3. CASE protocol # "sql"
    <3>1. /\ client' = [client EXCEPT ![c] = [@ EXCEPT !.pc = "asking", !.item = item]]
          /\ channel' = Append(channel, [type |-> "lookup", client |-> c])
          /\ UNCHANGED cache_pos
      BY <1>2, <2>3 DEF Ask
    <3>2. [type |-> "lookup", client |-> c] \in Events  BY DEF Events, LookupEvent
    <3>3. channel' \in Seq(Events)  BY <3>1, <3>2, Appended DEF LookupsType
    <3>4. client' \in [Clients -> Client]  BY <2>2, <3>1 DEF Client
    <3> QED BY <2>1, <3>1, <3>3, <3>4 DEF LookupsType
  <2>4. CASE protocol = "sql"
    <3>1. /\ client' = [client EXCEPT
                ![c] = IF hit = {} THEN [@ EXCEPT !.pc = "asking", !.item = item]
                       ELSE [pc |-> "idle", item |-> item, answer |-> CHOOSE a \in hit : TRUE]]
          /\ cache_pos' = IF KindOf[item] = "account" THEN Forget(cache_pos, {item})
                           ELSE cache_pos
          /\ UNCHANGED channel
      BY <1>2, <2>4 DEF Ask
    <3>2. hit # {} => (CHOOSE a \in hit : TRUE) \in Answers
      <4>1. hit # {} => Cached(cache_pos, cache_neg, item) # {}
                        /\ hit = Cached(cache_pos, cache_neg, item)
        OBVIOUS
      <4> QED BY <4>1, CachedAnswer DEF Answers
    <3> HIDE DEF hit
    <3>3. client' \in [Clients -> Client]  BY <2>2, <3>1, <3>2 DEF Client
    <3>4. DOMAIN cache_pos' \subseteq Items  BY <3>1, ForgetDomain DEF LookupsType
    <3> QED BY <2>1, <3>1, <3>3, <3>4 DEF LookupsType
  <2> QED BY <2>3, <2>4
<1> QED BY <1>1, <1>2

\* A worker that is given something else to do.
LEMMA WorkerTypes ==
  ASSUME LookupsType, NEW w \in Workers, NEW r,
         r \in {Idle} \cup Looking \cup Served \cup Failing \cup Offering \cup Late
  PROVE  [worker EXCEPT ![w] = r] \in
           [Workers -> {Idle} \cup Looking \cup Served \cup Failing \cup Offering \cup Late]
BY DEF LookupsType

\* The task's events.
LEMMA TaskTypes ==
  ASSUME LookupsType, LookupsAssumption, Task, SlotsInv
  PROVE  LookupsType'
<1> DEFINE States == {Idle} \cup Looking \cup Served \cup Failing \cup Offering \cup Late
<1>0. ASSUME NEW c \in Clients, Spawn(c)  PROVE worker' \in [Workers -> States]
  <2>1. PICK w \in Workers : worker' = [worker EXCEPT ![w] = Fresh(c)]  BY <1>0 DEF Spawn
  <2>2. Fresh(c) \in Looking  BY DEF Fresh, Looking
  <2> QED BY <2>1, <2>2, WorkerTypes
<1>1. CASE HandleLookup
  <2> DEFINE c == Head(channel).client
             hit == Cached(cache_pos, cache_neg, ItemOf(c))
  <2>1. channel' \in Seq(Events) /\ c \in Clients  BY <1>1, EventAtHand DEF HandleLookup
  <2>2. UNCHANGED <<clock, cache_neg, said>> /\ cache_pos' = Forget(cache_pos, {ItemOf(c)})
    BY <1>1 DEF HandleLookup
  <2>3. DOMAIN cache_pos' \subseteq Items  BY <2>2, ForgetDomain DEF LookupsType
  <2>4. CASE hit # {} /\ Reply(c, CHOOSE a \in hit : TRUE) /\ UNCHANGED <<active_lookups, worker, waiting>>
    <3>1. (CHOOSE a \in hit : TRUE) \in Answers  BY <2>4, CachedAnswer DEF Answers
    <3> HIDE DEF hit, c
    <3>2. client' \in [Clients -> Client]  BY <2>1, <2>4, <3>1, ReplyClient DEF LookupsType
    <3> QED BY <2>1, <2>2, <2>3, <2>4, <3>2 DEF LookupsType
  <2>5. CASE active_lookups' = active_lookups + 1 /\ Spawn(c) /\ UNCHANGED <<client, waiting>>
    <3>1. worker' \in [Workers -> States]  BY <1>0, <2>1, <2>5
    <3>2. active_lookups' \in Nat  BY <2>5 DEF LookupsType
    <3> QED BY <2>1, <2>2, <2>3, <2>5, <3>1, <3>2 DEF LookupsType
  <2>6. CASE waiting' = Append(waiting, c) /\ UNCHANGED <<client, active_lookups, worker>>
    <3>1. waiting' \in Seq(Clients)  BY <2>1, <2>6, Appended DEF LookupsType
    <3> QED BY <2>1, <2>2, <2>3, <2>6, <3>1 DEF LookupsType
  <2> QED BY <1>1, <2>4, <2>5, <2>6 DEF HandleLookup
<1>2. CASE HandleFailed
  <2>1. channel' \in Seq(Events) /\ channel # <<>> /\ Head(channel).type = "failed"
    BY <1>2, EventAtHand DEF HandleFailed
  <2>2. UNCHANGED <<clock, cache, client, said>>  BY <1>2 DEF HandleFailed
  <2>3. CASE active_lookups' = active_lookups - 1 /\ UNCHANGED <<waiting, worker>>
    <3>1. active_lookups' \in Nat
      <4>1. 1 \in Leaving
        <5>1. 1 \in DOMAIN channel /\ Head(channel) = channel[1]  BY <2>1, Removed DEF LookupsType
        <5> QED BY <2>1, <5>1 DEF Leaving
      <4>2. IsFiniteSet(Leaving) /\ Cardinality(Leaving) \in Nat  BY LeavingFinite DEF LookupsType
      <4>3. Cardinality(Leaving) # 0  BY <4>1, <4>2, FS_EmptySet
      <4>4. /\ active_lookups = Cardinality(Busy) + Cardinality(Leaving)
            /\ IsFiniteSet(Busy)
        BY DEF SlotsInv, SlotsExact
      <4>5. Cardinality(Busy) \in Nat  BY <4>4, FS_CardinalityType
      <4> QED BY <2>3, <4>2, <4>3, <4>4, <4>5
    <3> QED BY <2>1, <2>2, <2>3, <3>1 DEF LookupsType, cache
  <2>4. CASE /\ waiting # <<>> /\ Spawn(Head(waiting)) /\ waiting' = Tail(waiting)
             /\ UNCHANGED active_lookups
    <3>1. Head(waiting) \in Clients /\ waiting' \in Seq(Clients)
      BY <2>4, Removed DEF LookupsType
    <3> QED BY <1>0, <2>1, <2>2, <2>4, <3>1 DEF LookupsType, cache
  <2> QED BY <1>2, <2>3, <2>4 DEF HandleFailed
<1>3. CASE HandleReady
  <2> DEFINE event == Head(channel)
  <2>1. channel' \in Seq(Events) /\ channel # <<>> /\ event \in ReadyEvent /\ event.type = "ready"
    BY <1>3, EventAtHand DEF HandleReady
  <2>2. UNCHANGED <<clock, said>>  BY <1>3 DEF HandleReady
  <2>3. PICK done, s : ReadyEffect(done, s)  BY <1>3, ReadyDoes
  <2>4. /\ s \in Seq(Clients) /\ client' \in [Clients -> Client]
        /\ \A i \in DOMAIN cache_pos' : i \in DOMAIN cache_pos \/ i = event.item
        /\ \A i \in DOMAIN cache_neg' : i \in DOMAIN cache_neg \/ i = event.item
        /\ \/ s = <<>> /\ waiting' = <<>> /\ EndWorker(event.next)
           \/ /\ s # <<>> /\ waiting' = Tail(s) /\ active_lookups' = active_lookups
              /\ \/ event.next = {} /\ Spawn(Head(s))
                 \/ \E w \in event.next : worker' = [worker EXCEPT
                      ![w] = [pc |-> "look", client |-> Head(s), rcpts |-> @.rcpts,
                              failures |-> @.failures]]
    BY <2>3 DEF ReadyEffect
  <2>5. event.item \in Items /\ event.next \in SUBSET Workers  BY <2>1 DEF ReadyEvent
  <2>6. DOMAIN cache_pos' \subseteq Items /\ DOMAIN cache_neg' \subseteq Items
    BY <2>4, <2>5 DEF LookupsType
  <2>7. /\ 1 \in DOMAIN channel /\ event = channel[1]
    BY <2>1, Removed DEF LookupsType
  <2>8. CASE s = <<>> /\ waiting' = <<>> /\ EndWorker(event.next)
    <3>1. worker' \in [Workers -> States]  BY <2>8 DEF EndWorker, LookupsType
    <3>2. active_lookups' \in Nat
      <4>1. event.next = {} => 1 \in Leaving  BY <2>1, <2>7 DEF Leaving
      <4>2. \A w \in event.next : w \in Busy
        BY <2>1, <2>5, <2>7 DEF SlotsInv, OfferInv, Busy
      <4>3. Leaving # {} \/ Busy # {}  BY <4>1, <4>2
      <4>4. IsFiniteSet(Leaving) /\ Cardinality(Leaving) \in Nat  BY LeavingFinite DEF LookupsType
      <4>5. /\ active_lookups = Cardinality(Busy) + Cardinality(Leaving)
            /\ IsFiniteSet(Busy)
        BY DEF SlotsInv, SlotsExact
      <4>6. Cardinality(Busy) \in Nat  BY <4>5, FS_CardinalityType
      <4>7. Cardinality(Leaving) # 0 \/ Cardinality(Busy) # 0  BY <4>3, <4>4, <4>5, FS_EmptySet
      <4>8. active_lookups' = active_lookups - 1  BY <2>8 DEF EndWorker
      <4> QED BY <4>4, <4>5, <4>6, <4>7, <4>8
    <3>3. waiting' \in Seq(Clients)  BY <2>8
    <3> QED BY <2>1, <2>2, <2>4, <2>6, <3>1, <3>2, <3>3 DEF LookupsType
  <2>9. CASE s # <<>> /\ waiting' = Tail(s) /\ active_lookups' = active_lookups
    <3>1. Head(s) \in Clients /\ waiting' \in Seq(Clients)  BY <2>4, <2>9, Removed
    <3>2. ASSUME NEW w \in event.next, worker' = [worker EXCEPT
                   ![w] = [pc |-> "look", client |-> Head(s), rcpts |-> @.rcpts,
                           failures |-> @.failures]]
          PROVE  worker' \in [Workers -> States]
      <4>1. w \in Workers /\ worker[w].pc = "wait"
        BY <2>1, <2>5, <2>7, <3>2 DEF SlotsInv, OfferInv
      <4>2. worker[w].rcpts \in Nat /\ worker[w].failures \in Nat
        BY <4>1, WorkerStates DEF Offering
      <4>3. [pc |-> "look", client |-> Head(s), rcpts |-> worker[w].rcpts,
             failures |-> worker[w].failures] \in Looking
        BY <3>1, <4>2 DEF Looking
      <4>4. worker' = [worker EXCEPT ![w] = [pc |-> "look", client |-> Head(s),
                         rcpts |-> worker[w].rcpts, failures |-> worker[w].failures]]
        BY <3>2
      <4> QED BY <4>1, <4>3, <4>4, WorkerTypes
    <3>3. worker' \in [Workers -> States]  BY <1>0, <2>4, <2>9, <3>1, <3>2
    <3> QED BY <2>1, <2>2, <2>4, <2>6, <2>9, <3>1, <3>3 DEF LookupsType
  <2> QED BY <2>4, <2>8, <2>9
<1> QED BY <1>1, <1>2, <1>3 DEF Task

\* A worker's answer to an SMTP lookup, in short: rcpts, failures and the offer to
\* go on do not matter to what follows.
SmtpEffect(w) ==
  \E answer \in Answers, r \in Served :
    LET c == worker[w].client
    IN /\ said' = [said EXCEPT ![ItemOf(c)] = @ \cup {answer}]
       /\ Reply(c, answer)
       /\ worker' = [worker EXCEPT ![w] = r]
       /\ r.event.item = ItemOf(c) /\ r.event.answer = answer /\ r.event.next \subseteq {w}

\* lookup_smtp has that effect.
LEMMA SmtpDoes ==
  ASSUME LookupsType, LookupsAssumption, NEW w \in Workers, SmtpAnswer(w)
  PROVE  /\ SmtpEffect(w) /\ worker[w] \in Looking
         /\ UNCHANGED <<protocol, clock, cache, channel, waiting, active_lookups, lookups>>
<1> DEFINE c == worker[w].client
           kind == KindOf[ItemOf(c)]
           rcpts(answer) == worker[w].rcpts + IF kind = "account" /\ answer = "true" THEN 1 ELSE 0
           failures(answer) ==
             worker[w].failures + IF kind = "auth" /\ answer = "false" THEN 1 ELSE 0
           reusable(answer) == \/ kind = "account" /\ rcpts(answer) < MaxRequests
                               \/ kind = "auth" /\ answer = "false" /\ failures(answer) < MaxErrors
                               \/ kind = "verify"
           next(answer) == IF reusable(answer) THEN {w} ELSE {}
           r(answer) == [pc |-> "answered", rcpts |-> rcpts(answer), failures |-> failures(answer),
                         event |-> Ready(c, answer, next(answer))]
<1>1. worker[w] \in Looking  BY WorkerStates DEF SmtpAnswer
<1>2. PICK answer \in PossibleAnswers(ItemOf(c)) :
        /\ said' = [said EXCEPT ![ItemOf(c)] = @ \cup {answer}]
        /\ Reply(c, answer)
        /\ worker' = [worker EXCEPT ![w] = r(answer)]
  BY DEF SmtpAnswer
<1>3. answer \in Answers  BY AnswersAre
<1>4. c \in Clients /\ rcpts(answer) \in Nat /\ failures(answer) \in Nat
  BY <1>1 DEF Looking
<1>5. next(answer) \in SUBSET {w} /\ next(answer) \in SUBSET Workers  OBVIOUS
<1>6. /\ Ready(c, answer, next(answer)) \in ReadyEvent
      /\ Ready(c, answer, next(answer)).item = ItemOf(c)
      /\ Ready(c, answer, next(answer)).answer = answer
      /\ Ready(c, answer, next(answer)).next = next(answer)
  BY <1>3, <1>4, <1>5, ReadyIsEvent
<1> HIDE DEF c, rcpts, failures, next
<1>7. r(answer) \in Served /\ r(answer).event = Ready(c, answer, next(answer))
  BY <1>4, <1>6 DEF Served
<1> HIDE DEF r
<1>8. SmtpEffect(w)  BY <1>2, <1>3, <1>5, <1>6, <1>7 DEF SmtpEffect, c
<1> QED BY <1>1, <1>8 DEF SmtpAnswer

\* A worker's event is sent, and the worker waits or ends.
LEMMA SendDoes ==
  ASSUME LookupsType, NEW w \in Workers, SendEvent(w)
  PROVE  /\ worker[w].pc = "answered" /\ worker[w].event \in Events
         /\ channel' = Append(channel, worker[w].event)
         /\ \E r \in {Idle} \cup Offering :
              /\ worker' = [worker EXCEPT ![w] = r]
              /\ r.pc \in {"idle", "wait"}
              /\ r.pc = "wait" <=> ~Frees(worker[w].event)
         /\ UNCHANGED <<protocol, clock, cache, waiting, active_lookups, client, said, lookups>>
<1> DEFINE event == worker[w].event
           offers == event.type = "ready" /\ event.next # {}
           r == IF offers THEN [pc |-> "wait", rcpts |-> worker[w].rcpts,
                                failures |-> worker[w].failures]
                ELSE Idle
<1>1. /\ worker[w].pc = "answered" /\ channel' = Append(channel, event)
      /\ worker' = [worker EXCEPT ![w] = r]
  BY DEF SendEvent
<1>2. \/ worker[w] \in Served /\ event.type = "ready"
      \/ worker[w] \in Failing /\ event.type = "failed"
  BY <1>1, WorkerStates
<1>3. event \in Events  BY <1>2 DEF Served, Failing, Events
<1>4. CASE offers
  <2>1. r = [pc |-> "wait", rcpts |-> worker[w].rcpts, failures |-> worker[w].failures]
    BY <1>4
  <2>2. worker[w].rcpts \in Nat /\ worker[w].failures \in Nat  BY <1>2, <1>4 DEF Served
  <2>3. r \in Offering /\ r.pc = "wait" /\ ~Frees(event)  BY <1>4, <2>1, <2>2 DEF Offering, Frees
  <2> QED BY <1>1, <1>3, <2>3 DEF SendEvent
<1>5. CASE ~offers
  <2>1. r = Idle /\ r.pc = "idle" /\ Frees(event)  BY <1>2, <1>5 DEF Idle, Frees
  <2> QED BY <1>1, <1>3, <2>1 DEF SendEvent
<1> QED BY <1>4, <1>5

\* An IMAP worker sends its event and answers its client later.
LEMMA ImapDoes ==
  ASSUME LookupsType, NEW w \in Workers, ImapReady(w)
  PROVE  /\ worker[w] \in Looking
         /\ \E event \in Events, answer \in Answers \cup {"none"} :
              LET c == worker[w].client
              IN /\ channel' = Append(channel, event) /\ Frees(event)
                 /\ worker' = [worker EXCEPT ![w] = [pc |-> "late", client |-> c, answer |-> answer]]
                 /\ \/ event.type = "failed" /\ answer = "none" /\ said' = said
                    \/ /\ event.type = "ready" /\ event.item = ItemOf(c) /\ event.answer = answer
                       /\ answer \in Answers
                       /\ said' = [said EXCEPT ![ItemOf(c)] = @ \cup {answer}]
         /\ UNCHANGED <<protocol, clock, cache, waiting, active_lookups, client, lookups>>
<1> DEFINE c == worker[w].client
<1>1. worker[w] \in Looking /\ c \in Clients  BY WorkerStates DEF ImapReady, Looking
<1>2. CASE /\ channel' = Append(channel, [type |-> "failed"])
           /\ worker' = [worker EXCEPT ![w] = [pc |-> "late", client |-> c, answer |-> "none"]]
           /\ UNCHANGED said
  <2>1. [type |-> "failed"] \in Events /\ Frees([type |-> "failed"])
    BY DEF Events, FailedEvent, Frees
  <2> QED BY <1>1, <1>2, <2>1 DEF ImapReady
<1>3. ASSUME NEW answer \in authenticate,
             said' = [said EXCEPT ![ItemOf(c)] = @ \cup {answer}],
             channel' = Append(channel, Ready(c, answer, {})),
             worker' = [worker EXCEPT ![w] = [pc |-> "late", client |-> c, answer |-> answer]]
      PROVE  \E event \in Events, a \in Answers \cup {"none"} :
               /\ channel' = Append(channel, event) /\ Frees(event)
               /\ worker' = [worker EXCEPT ![w] = [pc |-> "late", client |-> c, answer |-> a]]
               /\ event.type = "ready" /\ event.item = ItemOf(c) /\ event.answer = a
               /\ a \in Answers
               /\ said' = [said EXCEPT ![ItemOf(c)] = @ \cup {a}]
  <2>1. answer \in Answers  BY DEF authenticate, Answers
  <2>2. /\ Ready(c, answer, {}) \in Events /\ Ready(c, answer, {}).type = "ready"
        /\ Ready(c, answer, {}).item = ItemOf(c) /\ Ready(c, answer, {}).answer = answer
        /\ Ready(c, answer, {}).next = {}
    BY <1>1, <2>1, ReadyIsEvent
  <2>3. Frees(Ready(c, answer, {}))  BY <2>2 DEF Frees
  <2> QED BY <1>3, <2>1, <2>2, <2>3
<1>4. UNCHANGED <<protocol, clock, cache, waiting, active_lookups, client, lookups>>
  BY DEF ImapReady
<1>5. CASE \E answer \in authenticate :
             /\ said' = [said EXCEPT ![ItemOf(c)] = @ \cup {answer}]
             /\ channel' = Append(channel, Ready(c, answer, {}))
             /\ worker' = [worker EXCEPT ![w] = [pc |-> "late", client |-> c, answer |-> answer]]
  BY <1>1, <1>3, <1>4, <1>5
<1> QED BY <1>2, <1>5 DEF ImapReady

\* The steps of a worker.
LEMMA WorkerStepTypes ==
  ASSUME LookupsType, LookupsAssumption, NEW w \in Workers, WorkerStep(w)
  PROVE  LookupsType'
<1> DEFINE States == {Idle} \cup Looking \cup Served \cup Failing \cup Offering \cup Late
<1>0. client \in [Clients -> Client] /\ channel \in Seq(Events) /\ said \in [Items -> SUBSET Answers]
  BY DEF LookupsType
<1>1. CASE SmtpAnswer(w)
  <2> DEFINE c == worker[w].client
  <2>1. /\ SmtpEffect(w) /\ c \in Clients
        /\ UNCHANGED <<clock, cache, channel, waiting, active_lookups>>
    BY <1>1, SmtpDoes DEF Looking
  <2>2. PICK answer \in Answers, r \in Served :
          /\ said' = [said EXCEPT ![ItemOf(c)] = @ \cup {answer}]
          /\ Reply(c, answer)
          /\ worker' = [worker EXCEPT ![w] = r]
    BY <2>1 DEF SmtpEffect
  <2>3. client' \in [Clients -> Client]  BY <1>0, <2>1, <2>2, ReplyClient
  <2>4. said' \in [Items -> SUBSET Answers]  BY <1>0, <2>2
  <2>5. worker' \in [Workers -> States]  BY <2>2, WorkerTypes
  <2> QED BY <2>1, <2>3, <2>4, <2>5 DEF LookupsType, cache
<1>2. CASE Fail(w)
  <2> DEFINE c == worker[w].client
             r == [pc |-> "answered", event |-> [type |-> "failed"]]
  <2>1. c \in Clients  BY <1>2, WorkerStates DEF Fail, Looking
  <2>2. /\ Reply(c, "none") /\ worker' = [worker EXCEPT ![w] = r]
        /\ UNCHANGED <<clock, cache, channel, waiting, active_lookups, said>>
    BY <1>2 DEF Fail
  <2>3. client' \in [Clients -> Client]  BY <1>0, <2>1, <2>2, ReplyClient
  <2>4. r \in Failing  BY DEF Failing, FailedEvent
  <2>5. worker' \in [Workers -> States]  BY <2>2, <2>4, WorkerTypes
  <2> QED BY <2>2, <2>3, <2>5 DEF LookupsType, cache
<1>3. CASE SendEvent(w)
  <2>1. PICK r \in {Idle} \cup Offering : worker' = [worker EXCEPT ![w] = r]
    BY <1>3, SendDoes
  <2>2. worker' \in [Workers -> States]  BY <2>1, WorkerTypes
  <2>3. channel' \in Seq(Events)  BY <1>0, <1>3, SendDoes, Appended
  <2>4. UNCHANGED <<clock, cache, waiting, active_lookups, client, said>>  BY <1>3, SendDoes
  <2> QED BY <2>2, <2>3, <2>4 DEF LookupsType, cache
<1>4. CASE ImapReady(w)
  <2> DEFINE c == worker[w].client
  <2>1. c \in Clients /\ UNCHANGED <<clock, cache, waiting, active_lookups, client>>
    BY <1>4, ImapDoes DEF Looking
  <2>2. PICK event \in Events, answer \in Answers \cup {"none"} :
          /\ channel' = Append(channel, event) /\ Frees(event)
          /\ worker' = [worker EXCEPT ![w] = [pc |-> "late", client |-> c, answer |-> answer]]
          /\ \/ event.type = "failed" /\ answer = "none" /\ said' = said
             \/ /\ event.type = "ready" /\ event.item = ItemOf(c) /\ event.answer = answer
                /\ answer \in Answers
                /\ said' = [said EXCEPT ![ItemOf(c)] = @ \cup {answer}]
    BY <1>4, ImapDoes, Zenon
  <2>3. [pc |-> "late", client |-> c, answer |-> answer] \in Late  BY <2>1 DEF Late
  <2>4. worker' \in [Workers -> States]  BY <2>2, <2>3, WorkerTypes
  <2>5. channel' \in Seq(Events)  BY <1>0, <2>2, Appended
  <2>6. said' \in [Items -> SUBSET Answers]  BY <1>0, <2>2
  <2> QED BY <2>1, <2>4, <2>5, <2>6 DEF LookupsType, cache
<1>5. CASE ImapAnswer(w)
  <2>1. worker[w] \in Late  BY <1>5, WorkerStates DEF ImapAnswer
  <2>2. worker[w].client \in Clients /\ worker[w].answer \in Answers \cup {"none"}
    BY <2>1 DEF Late
  <2>3. /\ Reply(worker[w].client, worker[w].answer) /\ worker' = [worker EXCEPT ![w] = Idle]
        /\ UNCHANGED <<clock, cache, channel, waiting, active_lookups, said>>
    BY <1>5 DEF ImapAnswer
  <2>4. client' \in [Clients -> Client]  BY <1>0, <2>2, <2>3, ReplyClient
  <2>5. worker' \in [Workers -> States]  BY <2>3, WorkerTypes
  <2> QED BY <2>3, <2>4, <2>5 DEF LookupsType, cache
<1> QED BY <1>1, <1>2, <1>3, <1>4, <1>5 DEF WorkerStep

-----------------------------------------------------------------------------
(* Places                                                                  *)

\* A place that a step does not touch.
LEMMA SamePlaces ==
  ASSUME NEW c
  PROVE  /\ channel' = channel => (InChannel(c)' <=> InChannel(c)) /\ (OnceInChannel(c)' <=> OnceInChannel(c))
         /\ waiting' = waiting => (InQueue(c)' <=> InQueue(c)) /\ (OnceInQueue(c)' <=> OnceInQueue(c))
         /\ worker' = worker => (InWorker(c)' <=> InWorker(c)) /\ (OnceInWorker(c)' <=> OnceInWorker(c))
BY DEF InChannel, OnceInChannel, InQueue, OnceInQueue, InWorker, OnceInWorker, Asks, Serves

\* The steps of a client.
LEMMA ClientPlaces ==
  ASSUME LookupsType, PlaceInv, NEW c \in Clients,
         SqlAnswer(c) \/ \E item \in Items : Ask(c, item), NEW d \in Clients
  PROVE  PlaceOf(d)'
<1>0. PlaceOf(c) /\ PlaceOf(d)  BY DEF PlaceInv
<1>1. CASE SqlAnswer(c)
  <2>1. UNCHANGED <<protocol, channel, waiting, worker>> /\ protocol = "sql"
    BY <1>1 DEF SqlAnswer
  <2> QED BY <1>0, <2>1, SamePlaces DEF PlaceOf
<1>2. ASSUME NEW item \in Items, Ask(c, item)  PROVE PlaceOf(d)'
  <2>1. UNCHANGED <<protocol, waiting, worker>> /\ client[c].pc = "idle"
    BY <1>2 DEF Ask
  <2>2. CASE protocol # "sql"
    <3> DEFINE e == [type |-> "lookup", client |-> c]
    <3>1. /\ client' = [client EXCEPT ![c] = [@ EXCEPT !.pc = "asking", !.item = item]]
          /\ channel' = Append(channel, e)
      BY <1>2, <2>2 DEF Ask
    <3>2. e \in Events  BY DEF Events, LookupEvent
    <3>3. Asks(e, d) <=> d = c  BY DEF Asks
    <3> HIDE DEF e
    <3>4. /\ InChannel(d)' <=> InChannel(d) \/ d = c
          /\ OnceInChannel(d) /\ ~(InChannel(d) /\ d = c) => OnceInChannel(d)'
      BY <3>1, <3>2, <3>3, ChannelSent DEF LookupsType
    <3>5. /\ d = c => client'[d].pc = "asking"
          /\ d # c => client'[d] = client[d]
      BY <3>1 DEF LookupsType, Client
    <3>6. d = c => ~InChannel(d) /\ ~InQueue(d) /\ ~InWorker(d)  BY <1>0, <2>1 DEF PlaceOf
    <3> QED BY <1>0, <2>1, <2>2, <3>4, <3>5, <3>6, SamePlaces DEF PlaceOf
  <2>3. CASE protocol = "sql"
    <3>1. UNCHANGED channel  BY <1>2, <2>3 DEF Ask
    <3> QED BY <1>0, <2>1, <2>3, <3>1, SamePlaces DEF PlaceOf
  <2> QED BY <2>2, <2>3
<1> QED BY <1>1, <1>2

\* A worker that is done with its lookup leaves the client answered.
LEMMA ReplyPlaces ==
  ASSUME LookupsType, PlaceInv, NEW w \in Workers, NEW r, worker' = [worker EXCEPT ![w] = r],
         worker[w].pc \in {"look", "late"}, r.pc \notin {"look", "late"},
         NEW a \in Answers \cup {"none"}, worker[w].client \in Clients, Reply(worker[w].client, a),
         UNCHANGED <<protocol, channel, waiting>>, NEW d \in Clients
  PROVE  PlaceOf(d)'
<1> DEFINE c == worker[w].client
<1>1. PlaceOf(d)  BY DEF PlaceInv
<1>2. /\ d = c => client'[d].pc = "idle"
      /\ d # c => client'[d] = client[d]
  BY ReplyClient DEF LookupsType
<1>3. /\ Serves(worker[w], d) <=> d = c
      /\ ~Serves(r, d)
  BY DEF Serves
<1>4. DOMAIN worker = Workers  BY DEF LookupsType
<1>5. OnceInWorker(d)' /\ (InWorker(d)' <=> InWorker(d) /\ d # c)
  BY <1>1, <1>3, <1>4, WorkerStops DEF PlaceOf
<1>6. d = c => InWorker(d)  BY <1>3 DEF InWorker
<1> HIDE DEF c
<1> QED BY <1>1, <1>2, <1>5, <1>6, SamePlaces DEF PlaceOf

\* The steps of a worker.
LEMMA WorkerPlaces ==
  ASSUME LookupsType, LookupsAssumption, PlaceInv, NEW w \in Workers, WorkerStep(w), NEW d \in Clients
  PROVE  PlaceOf(d)'
<1>0. PlaceOf(d) /\ DOMAIN worker = Workers /\ channel \in Seq(Events)
  BY DEF PlaceInv, LookupsType
<1>1. CASE SmtpAnswer(w)
  <2>1. /\ SmtpEffect(w) /\ worker[w] \in Looking
        /\ UNCHANGED <<protocol, channel, waiting>>
    BY <1>1, SmtpDoes
  <2>2. PICK answer \in Answers, r \in Served :
          Reply(worker[w].client, answer) /\ worker' = [worker EXCEPT ![w] = r]
    BY <2>1 DEF SmtpEffect
  <2>3. worker[w].pc = "look" /\ worker[w].client \in Clients /\ r.pc = "answered"
    BY <2>1 DEF Looking, Served
  <2> QED BY <2>1, <2>2, <2>3, ReplyPlaces
<1>2. CASE Fail(w)
  <2> DEFINE r == [pc |-> "answered", event |-> [type |-> "failed"]]
  <2>1. worker[w].client \in Clients /\ worker[w].pc = "look"
    BY <1>2, WorkerStates DEF Fail, Looking
  <2>2. /\ Reply(worker[w].client, "none") /\ worker' = [worker EXCEPT ![w] = r]
        /\ UNCHANGED <<protocol, channel, waiting>>
    BY <1>2 DEF Fail
  <2>3. r.pc = "answered"  OBVIOUS
  <2> HIDE DEF r
  <2> QED BY <2>1, <2>2, <2>3, ReplyPlaces
<1>3. CASE SendEvent(w)
  <2> DEFINE event == worker[w].event
  <2>1. /\ worker[w].pc = "answered" /\ event \in Events /\ channel' = Append(channel, event)
        /\ UNCHANGED <<protocol, waiting, client>>
    BY <1>3, SendDoes
  <2>2. PICK r \in {Idle} \cup Offering :
          worker' = [worker EXCEPT ![w] = r] /\ r.pc \in {"idle", "wait"}
    BY <1>3, SendDoes
  <2>3. event.type # "lookup"  BY <2>1, WorkerStates
  <2>4. /\ ~Asks(event, d) /\ ~Serves(worker[w], d) /\ ~Serves(r, d)
    BY <2>1, <2>2, <2>3 DEF Asks, Serves
  <2>5. /\ InChannel(d)' <=> InChannel(d)
        /\ OnceInChannel(d) => OnceInChannel(d)'
    BY <1>0, <2>1, <2>4, ChannelSent
  <2>6. /\ InWorker(d)' <=> InWorker(d)
        /\ OnceInWorker(d) => OnceInWorker(d)'
    BY <1>0, <2>2, <2>4, WorkerStarts
  <2> QED BY <1>0, <2>1, <2>5, <2>6, SamePlaces DEF PlaceOf
<1>4. CASE ImapReady(w)
  <2> DEFINE c == worker[w].client
  <2>1. worker[w] \in Looking /\ UNCHANGED <<protocol, waiting, client>>
    BY <1>4, ImapDoes
  <2>2. PICK event \in Events, answer \in Answers \cup {"none"} :
          /\ channel' = Append(channel, event) /\ Frees(event)
          /\ worker' = [worker EXCEPT ![w] = [pc |-> "late", client |-> c, answer |-> answer]]
    BY <1>4, ImapDoes, Zenon
  <2> DEFINE r == [pc |-> "late", client |-> c, answer |-> answer]
  <2>3. ~Asks(event, d)  BY <2>2 DEF Frees, Asks
  <2>4. /\ InChannel(d)' <=> InChannel(d)
        /\ OnceInChannel(d) => OnceInChannel(d)'
    BY <1>0, <2>2, <2>3, ChannelSent
  <2>5. Serves(worker[w], d) <=> Serves(r, d)  BY <2>1 DEF Serves, Looking
  <2>6. worker'[w] = r /\ \A v \in Workers : v # w => worker'[v] = worker[v]
    BY <1>0, <2>2
  <2>7. \A v \in Workers : Serves(worker'[v], d) <=> Serves(worker[v], d)
    BY <2>5, <2>6
  <2>8. (InWorker(d)' <=> InWorker(d)) /\ (OnceInWorker(d)' <=> OnceInWorker(d))
    BY <2>7 DEF InWorker, OnceInWorker, Serves
  <2> QED BY <1>0, <2>1, <2>4, <2>8, SamePlaces DEF PlaceOf
<1>5. CASE ImapAnswer(w)
  <2>1. worker[w] \in Late /\ worker[w].pc = "late"  BY <1>5, WorkerStates DEF ImapAnswer
  <2>2. worker[w].client \in Clients /\ worker[w].answer \in Answers \cup {"none"}
    BY <2>1 DEF Late
  <2>3. /\ Reply(worker[w].client, worker[w].answer) /\ worker' = [worker EXCEPT ![w] = Idle]
        /\ UNCHANGED <<protocol, channel, waiting>> /\ Idle.pc = "idle"
    BY <1>5 DEF ImapAnswer, Idle
  <2> QED BY <2>1, <2>2, <2>3, ReplyPlaces
<1> QED BY <1>1, <1>2, <1>3, <1>4, <1>5 DEF WorkerStep

\* A lookup that is given to a new worker.
LEMMA SpawnPlaces ==
  ASSUME LookupsType, NEW c, Spawn(c), NEW d
  PROVE  /\ InWorker(d)' <=> InWorker(d) \/ d = c
         /\ OnceInWorker(d) /\ ~(InWorker(d) /\ d = c) => OnceInWorker(d)'
<1>1. PICK w \in Workers : worker[w].pc = "idle" /\ worker' = [worker EXCEPT ![w] = Fresh(c)]
  BY DEF Spawn
<1>2. ~Serves(worker[w], d) /\ (Serves(Fresh(c), d) <=> d = c)
  BY <1>1 DEF Serves, Fresh
<1>3. DOMAIN worker = Workers  BY DEF LookupsType
<1> QED BY <1>1, <1>2, <1>3, WorkerStarts

\* The task's events.
LEMMA TaskPlaces ==
  ASSUME LookupsType, PlaceInv, OfferInv, Task, NEW d \in Clients
  PROVE  PlaceOf(d)'
<1>0. /\ PlaceOf(d) /\ DOMAIN worker = Workers /\ channel \in Seq(Events)
      /\ waiting \in Seq(Clients)
  BY DEF PlaceInv, LookupsType
<1>1. CASE HandleLookup
  <2> DEFINE c == Head(channel).client
             hit == Cached(cache_pos, cache_neg, ItemOf(c))
  <2>1. /\ channel # <<>> /\ channel' = Tail(channel) /\ c \in Clients
        /\ Head(channel).type = "lookup" /\ UNCHANGED protocol
    BY <1>1, EventAtHand DEF HandleLookup
  <2>2. Asks(Head(channel), d) <=> d = c  BY <2>1 DEF Asks
  <2>3. /\ InChannel(d) <=> InChannel(d)' \/ d = c
        /\ OnceInChannel(d)' /\ ~(InChannel(d)' /\ d = c)
    BY <1>0, <2>1, <2>2, ChannelReceived DEF PlaceOf
  <2>4. CASE hit # {} /\ Reply(c, CHOOSE a \in hit : TRUE) /\ UNCHANGED <<active_lookups, worker, waiting>>
    <3>1. (CHOOSE a \in hit : TRUE) \in Answers  BY <2>4, CachedAnswer DEF Answers
    <3> HIDE DEF hit, c
    <3>2. /\ d = c => client'[d].pc = "idle"
          /\ d # c => client'[d] = client[d]
      BY <2>1, <2>4, <3>1, ReplyClient DEF LookupsType
    <3> QED BY <1>0, <2>1, <2>3, <2>4, <3>2, SamePlaces DEF PlaceOf
  <2>5. CASE Spawn(c) /\ UNCHANGED <<client, waiting>>
    <3> HIDE DEF c
    <3>1. /\ InWorker(d)' <=> InWorker(d) \/ d = c
          /\ OnceInWorker(d) /\ ~(InWorker(d) /\ d = c) => OnceInWorker(d)'
      BY <2>5, SpawnPlaces
    <3> QED BY <1>0, <2>1, <2>3, <2>5, <3>1, SamePlaces DEF PlaceOf
  <2>6. CASE waiting' = Append(waiting, c) /\ UNCHANGED <<client, active_lookups, worker>>
    <3> HIDE DEF c
    <3>1. /\ InQueue(d)' <=> InQueue(d) \/ d = c
          /\ OnceInQueue(d) /\ ~(InQueue(d) /\ d = c) => OnceInQueue(d)'
      BY <1>0, <2>1, <2>6, QueueSent
    <3> QED BY <1>0, <2>1, <2>3, <2>6, <3>1, SamePlaces DEF PlaceOf
  <2> QED BY <1>1, <2>4, <2>5, <2>6 DEF HandleLookup
<1>2. CASE HandleFailed \/ HandleReady
  <2>1. /\ channel # <<>> /\ channel' = Tail(channel) /\ Head(channel).type # "lookup"
        /\ UNCHANGED protocol
    BY <1>2, EventAtHand DEF HandleFailed, HandleReady
  <2>2. ~Asks(Head(channel), d)  BY <2>1 DEF Asks
  <2>3. (InChannel(d)' <=> InChannel(d)) /\ OnceInChannel(d)'
    BY <1>0, <2>1, <2>2, ChannelReceived DEF PlaceOf
  <2>4. CASE HandleFailed
    <3>1. UNCHANGED client  BY <2>4 DEF HandleFailed
    <3>2. CASE UNCHANGED <<waiting, worker>>
      BY <1>0, <2>1, <2>3, <3>1, <3>2, SamePlaces DEF PlaceOf
    <3>3. CASE waiting # <<>> /\ Spawn(Head(waiting)) /\ waiting' = Tail(waiting)
      <4> DEFINE c == Head(waiting)
      <4>1. \A i, j \in DOMAIN waiting : waiting[i] = d /\ waiting[j] = d => i = j
        BY <1>0 DEF PlaceOf, OnceInQueue
      <4>2. /\ InQueue(d) <=> InQueue(d)' \/ d = c
            /\ OnceInQueue(d)' /\ ~(InQueue(d)' /\ d = c)
        <5>1. waiting \in Seq(Clients) /\ waiting # <<>>  BY <1>0, <3>3
        <5>2. /\ (\E i \in DOMAIN waiting : waiting[i] = d)
                 <=> (\E i \in DOMAIN Tail(waiting) : Tail(waiting)[i] = d) \/ Head(waiting) = d
              /\ \A i, j \in DOMAIN Tail(waiting) :
                   Tail(waiting)[i] = d /\ Tail(waiting)[j] = d => i = j
              /\ ~((\E i \in DOMAIN Tail(waiting) : Tail(waiting)[i] = d) /\ Head(waiting) = d)
          BY <4>1, <5>1, QueueTaken
        <5>3. waiting' = Tail(waiting) /\ c = Head(waiting)  BY <3>3
        <5> HIDE DEF c
        <5> QED BY <5>2, <5>3 DEF InQueue, OnceInQueue
      <4> HIDE DEF c
      <4>3. /\ InWorker(d)' <=> InWorker(d) \/ d = c
            /\ OnceInWorker(d) /\ ~(InWorker(d) /\ d = c) => OnceInWorker(d)'
        BY <3>3, SpawnPlaces DEF c
      <4> QED BY <1>0, <2>1, <2>3, <3>1, <4>2, <4>3 DEF PlaceOf
    <3> QED BY <2>4, <3>2, <3>3 DEF HandleFailed
  <2>5. CASE HandleReady
    <3> DEFINE event == Head(channel)
    <3>1. event \in ReadyEvent /\ event.type = "ready"
      BY <2>5, EventAtHand DEF HandleReady
    <3>2. PICK done, s : ReadyEffect(done, s)  BY <2>5, ReadyDoes
    <3> DEFINE InRest == \E i \in DOMAIN s : s[i] = d
    <3>3. /\ s \in Seq(Clients)
          /\ InQueue(d) <=> d \in done \/ InRest
          /\ ~(d \in done /\ InRest)
          /\ \A i, j \in DOMAIN s : s[i] = d /\ s[j] = d => i = j
          /\ d \in done => client'[d].pc = "idle"
          /\ d \notin done => client'[d] = client[d]
          /\ \/ s = <<>> /\ waiting' = <<>> /\ EndWorker(event.next)
             \/ /\ s # <<>> /\ waiting' = Tail(s)
                /\ \/ event.next = {} /\ Spawn(Head(s))
                   \/ \E w \in event.next : worker' = [worker EXCEPT
                        ![w] = [pc |-> "look", client |-> Head(s), rcpts |-> @.rcpts,
                                failures |-> @.failures]]
      BY <1>0, <3>2 DEF ReadyEffect, PlaceOf
    <3>4. \A w \in event.next : w \in Workers /\ worker[w].pc = "wait" /\ event.next = {w}
      <4>1. 1 \in DOMAIN channel /\ event = channel[1]  BY <1>0, <2>1, Removed
      <4> QED BY <3>1, <4>1 DEF OfferInv, ReadyEvent
    <3>5. CASE s = <<>> /\ waiting' = <<>> /\ EndWorker(event.next)
      <4>1. ~InRest /\ ~InQueue(d)' /\ OnceInQueue(d)'
        BY <3>5 DEF InQueue, OnceInQueue
      <4>2. \A v \in Workers : Serves(worker'[v], d) <=> Serves(worker[v], d)
        <5>1. ASSUME NEW v \in Workers  PROVE Serves(worker'[v], d) <=> Serves(worker[v], d)
          <6>1. worker'[v] = IF v \in event.next THEN Idle ELSE worker[v]
            BY <3>5 DEF EndWorker
          <6> QED BY <3>4, <6>1 DEF Serves, Idle
        <5> QED BY <5>1
      <4>3. (InWorker(d)' <=> InWorker(d)) /\ (OnceInWorker(d)' <=> OnceInWorker(d))
        BY <4>2 DEF InWorker, OnceInWorker, Serves
      <4> HIDE DEF InRest
      <4> QED BY <1>0, <2>1, <2>3, <3>3, <4>1, <4>3 DEF PlaceOf
    <3>6. CASE s # <<>> /\ waiting' = Tail(s)
      <4> DEFINE c == Head(s)
      <4>1. /\ InRest <=> InQueue(d)' \/ d = c
            /\ OnceInQueue(d)' /\ ~(InQueue(d)' /\ d = c)
        BY <3>3, <3>6, QueueTaken DEF InQueue, OnceInQueue
      <4> HIDE DEF InRest
      <4>2. /\ InWorker(d)' <=> InWorker(d) \/ d = c
            /\ OnceInWorker(d) /\ ~(InWorker(d) /\ d = c) => OnceInWorker(d)'
        <5>1. CASE event.next = {} /\ Spawn(Head(s))  BY <5>1, SpawnPlaces
        <5>2. ASSUME NEW w \in event.next,
                     worker' = [worker EXCEPT
                        ![w] = [pc |-> "look", client |-> Head(s), rcpts |-> @.rcpts,
                                failures |-> @.failures]]
              PROVE  /\ InWorker(d)' <=> InWorker(d) \/ d = c
                     /\ OnceInWorker(d) /\ ~(InWorker(d) /\ d = c) => OnceInWorker(d)'
          <6> DEFINE r == [pc |-> "look", client |-> Head(s), rcpts |-> worker[w].rcpts,
                           failures |-> worker[w].failures]
          <6>1. w \in Workers /\ worker[w].pc = "wait" /\ worker' = [worker EXCEPT ![w] = r]
            BY <3>4, <5>2
          <6>2. ~Serves(worker[w], d) /\ (Serves(r, d) <=> d = c)
            BY <6>1 DEF Serves
          <6> HIDE DEF r
          <6> QED BY <1>0, <6>1, <6>2, WorkerStarts
        <5> QED BY <3>3, <3>6, <5>1, <5>2
      <4> HIDE DEF c
      <4> QED BY <1>0, <2>1, <2>3, <3>3, <4>1, <4>2 DEF PlaceOf
    <3> QED BY <3>3, <3>5, <3>6
  <2> QED BY <1>2, <2>4, <2>5
<1> QED BY <1>1, <1>2 DEF Task

-----------------------------------------------------------------------------
(* Answers                                                                 *)

\* The host has said the answer of an event, once the step is taken.
NowSaid(event) == event.type = "ready" => event.answer \in said'[event.item]

\* A step that keeps to what has been said: hosts only say more, and whatever the
\* step puts into a cache, the channel, a worker or a client has been said.
SaidStep ==
  /\ \A i \in Items : said[i] \subseteq said'[i]
  /\ \A i \in DOMAIN cache_pos' : i \in DOMAIN cache_pos \/ "true" \in said'[i]
  /\ \A i \in DOMAIN cache_neg' : i \in DOMAIN cache_neg \/ "false" \in said'[i]
  /\ \A i \in DOMAIN channel' :
       (\E j \in DOMAIN channel : channel'[i] = channel[j]) \/ NowSaid(channel'[i])
  /\ \A w \in Workers :
       \/ worker'[w] = worker[w]
       \/ /\ worker'[w].pc = "answered" => NowSaid(worker'[w].event)
          /\ worker'[w].pc = "late" =>
               worker'[w].answer \in said'[client'[worker'[w].client].item] \cup {"none"}
  /\ \A c \in Clients : client'[c].item = client[c].item \/ ~InWorker(c)
  /\ \A c \in Clients : \/ client'[c] = client[c] \/ client'[c].pc = "asking"
                        \/ client'[c].answer \in said'[client'[c].item] \cup {"none"}

\* Such a step keeps the invariant.
LEMMA SaidKept ==
  ASSUME LookupsType, SaidInv, SaidStep
  PROVE  SaidInv'
<1>0. \A i \in Items : said[i] \subseteq said'[i]  BY DEF SaidStep
<1>1. \A i \in DOMAIN cache_pos' : "true" \in said'[i]
  <2>1. \A i \in DOMAIN cache_pos : i \in Items /\ "true" \in said[i]
    BY DEF LookupsType, SaidInv
  <2> QED BY <1>0, <2>1 DEF SaidStep
<1>2. \A i \in DOMAIN cache_neg' : "false" \in said'[i]
  <2>1. \A i \in DOMAIN cache_neg : i \in Items /\ "false" \in said[i]
    BY DEF LookupsType, SaidInv
  <2> QED BY <1>0, <2>1 DEF SaidStep
<1>3. ASSUME NEW event, Said(event), event \in Events  PROVE NowSaid(event)
  <2>1. event.type = "ready" => event.item \in Items  BY <1>3, EventKinds DEF ReadyEvent
  <2> QED BY <1>0, <1>3, <2>1 DEF Said, NowSaid
<1>4. \A i \in DOMAIN channel' : NowSaid(channel'[i])
  <2>1. \A j \in DOMAIN channel : channel[j] \in Events /\ Said(channel[j])
    BY DEF LookupsType, SaidInv
  <2>2. \A j \in DOMAIN channel : NowSaid(channel[j])  BY <1>3, <2>1
  <2>3. ASSUME NEW i \in DOMAIN channel'  PROVE NowSaid(channel'[i])
    <3>1. CASE NowSaid(channel'[i])  BY <3>1
    <3>2. ASSUME NEW j \in DOMAIN channel, channel'[i] = channel[j]  PROVE NowSaid(channel'[i])
      <4>1. NowSaid(channel[j])  BY <2>2
      <4> QED BY <3>2, <4>1
    <3> QED BY <3>1, <3>2 DEF SaidStep
  <2> QED BY <2>3
<1>5. ASSUME NEW w \in Workers
      PROVE  /\ worker'[w].pc = "answered" => NowSaid(worker'[w].event)
             /\ worker'[w].pc = "late" =>
                  worker'[w].answer \in said'[client'[worker'[w].client].item] \cup {"none"}
  <2>1. CASE worker'[w] = worker[w]
    <3>1. CASE worker[w].pc = "answered"
      <4>1. Said(worker[w].event)  BY <3>1 DEF SaidInv
      <4>2. worker[w].event \in Events
        BY <3>1, WorkerStates DEF Served, Failing, Events
      <4>3. NowSaid(worker[w].event)  BY <1>3, <4>1, <4>2
      <4> QED BY <2>1, <3>1, <4>3
    <3>2. CASE worker[w].pc = "late"
      <4> DEFINE c == worker[w].client
      <4>1. c \in Clients  BY <3>2, WorkerStates DEF Late
      <4>2. InWorker(c)  BY <3>2 DEF InWorker, Serves
      <4>3. client'[c].item = client[c].item /\ client[c].item \in Items
        BY <4>1, <4>2 DEF SaidStep, LookupsType, Client
      <4>4. worker[w].answer \in said[client[c].item] \cup {"none"}
        BY <3>2 DEF SaidInv, ItemOf
      <4> QED BY <1>0, <2>1, <3>2, <4>3, <4>4
    <3> QED BY <2>1, <3>1, <3>2
  <2> QED BY <2>1 DEF SaidStep
<1>6. ASSUME NEW c \in Clients, client'[c].pc = "idle"
      PROVE  client'[c].answer \in said'[client'[c].item] \cup {"none"}
  <2>1. CASE client'[c] = client[c]
    <3>1. client[c].answer \in said[client[c].item] \cup {"none"}
      BY <1>6, <2>1 DEF SaidInv, OwnAnswer
    <3>2. client[c].item \in Items  BY DEF LookupsType, Client
    <3> QED BY <1>0, <2>1, <3>1, <3>2
  <2> QED BY <1>6, <2>1 DEF SaidStep
<1>7. OwnAnswer'  BY <1>6 DEF OwnAnswer
<1> QED BY <1>1, <1>2, <1>4, <1>5, <1>7 DEF SaidInv, Said, NowSaid, ItemOf

\* An event that is sent or received.
LEMMA ChannelSaid ==
  ASSUME channel \in Seq(Events)
  PROVE  /\ \A event \in Events : channel' = Append(channel, event) =>
              \A i \in DOMAIN channel' :
                (\E j \in DOMAIN channel : channel'[i] = channel[j]) \/ channel'[i] = event
         /\ channel # <<>> /\ channel' = Tail(channel) =>
              \A i \in DOMAIN channel' : \E j \in DOMAIN channel : channel'[i] = channel[j]
<1>1. ASSUME NEW event \in Events, channel' = Append(channel, event), NEW i \in DOMAIN channel'
      PROVE  (\E j \in DOMAIN channel : channel'[i] = channel[j]) \/ channel'[i] = event
  BY <1>1, Appended
<1>2. ASSUME channel # <<>>, channel' = Tail(channel), NEW i \in DOMAIN channel'
      PROVE  \E j \in DOMAIN channel : channel'[i] = channel[j]
  <2>1. i + 1 \in DOMAIN channel /\ channel'[i] = channel[i + 1]  BY <1>2, Removed
  <2> QED BY <2>1
<1> QED BY <1>1, <1>2

\* What hosts say is added to what they have said.
LEMMA SaidMore ==
  ASSUME said \in [Items -> SUBSET Answers], NEW item \in Items, NEW answer,
         said' = [said EXCEPT ![item] = @ \cup {answer}]
  PROVE  (\A i \in Items : said[i] \subseteq said'[i]) /\ answer \in said'[item]
OBVIOUS

\* An answer from the caches has been said.
LEMMA CachedSaid ==
  ASSUME SaidInv, NEW item, Cached(cache_pos, cache_neg, item) # {}
  PROVE  /\ (CHOOSE a \in Cached(cache_pos, cache_neg, item) : TRUE) \in said[item]
         /\ (CHOOSE a \in Cached(cache_pos, cache_neg, item) : TRUE) \in Answers
<1> DEFINE a == CHOOSE x \in Cached(cache_pos, cache_neg, item) : TRUE
<1>1. \/ a = "true" /\ item \in DOMAIN cache_pos
      \/ a = "false" /\ item \in DOMAIN cache_neg
  BY CachedAnswer
<1> HIDE DEF a
<1>2. a \in said[item] /\ a \in Answers  BY <1>1 DEF SaidInv, Answers
<1> QED BY <1>2 DEF a

\* The steps of a client.
LEMMA ClientSaid ==
  ASSUME LookupsType, PlaceInv, SaidInv, NEW c \in Clients,
         SqlAnswer(c) \/ \E item \in Items : Ask(c, item)
  PROVE  SaidStep
<1>0. /\ client \in [Clients -> Client] /\ said \in [Items -> SUBSET Answers]
      /\ channel \in Seq(Events) /\ ItemOf(c) \in Items
  BY DEF LookupsType, Client, ItemOf
<1>1. CASE SqlAnswer(c)
  <2>1. UNCHANGED <<channel, worker>>  BY <1>1 DEF SqlAnswer
  <2>2. ASSUME NEW answer \in PossibleAnswers(ItemOf(c)),
               said' = [said EXCEPT ![ItemOf(c)] = @ \cup {answer}],
               \/ /\ cache_pos' \in insert_pos(ItemOf(c), answer)
                  /\ cache_neg' \in insert_neg(ItemOf(c), answer)
               \/ UNCHANGED cache,
               Reply(c, answer)
        PROVE  SaidStep
    <3>1. answer \in Answers  BY AnswersAre
    <3>2. (\A i \in Items : said[i] \subseteq said'[i]) /\ answer \in said'[ItemOf(c)]
      BY <1>0, <2>2, SaidMore
    <3>3. /\ \A i \in DOMAIN cache_pos' : i \in DOMAIN cache_pos \/ (i = ItemOf(c) /\ answer = "true")
          /\ \A i \in DOMAIN cache_neg' : i \in DOMAIN cache_neg \/ (i = ItemOf(c) /\ answer = "false")
      BY <2>2, InsertDomains DEF cache
    <3>4. /\ \A d \in Clients : client'[d].item = client[d].item
          /\ client'[c].answer = answer
          /\ \A d \in Clients : d # c => client'[d] = client[d]
      BY <1>0, <2>2, <3>1, ReplyClient
    <3>5. client'[c].answer \in said'[client'[c].item]  BY <3>2, <3>4 DEF ItemOf
    <3> QED BY <2>1, <3>2, <3>3, <3>4, <3>5 DEF SaidStep
  <2>3. CASE Reply(c, "none") /\ UNCHANGED <<said, cache>>
    <3>1. /\ \A d \in Clients : client'[d].item = client[d].item
          /\ client'[c].answer = "none"
          /\ \A d \in Clients : d # c => client'[d] = client[d]
      BY <1>0, <2>3, ReplyClient
    <3> QED BY <2>1, <2>3, <3>1 DEF SaidStep, cache
  <2> QED BY <1>1, <2>2, <2>3 DEF SqlAnswer
<1>2. ASSUME NEW item \in Items, Ask(c, item)  PROVE SaidStep
  <2> DEFINE hit == IF KindOf[item] = "account" THEN Cached(cache_pos, cache_neg, item) ELSE {}
  <2>1. /\ client[c].pc = "idle" /\ UNCHANGED <<cache_neg, worker, said>>
        /\ \/ /\ client' = [client EXCEPT ![c] = [@ EXCEPT !.pc = "asking", !.item = item]]
              /\ channel' = Append(channel, [type |-> "lookup", client |-> c])
              /\ UNCHANGED cache_pos
           \/ /\ client' = [client EXCEPT
                   ![c] = IF hit = {} THEN [@ EXCEPT !.pc = "asking", !.item = item]
                          ELSE [pc |-> "idle", item |-> item, answer |-> CHOOSE a \in hit : TRUE]]
              /\ cache_pos' = IF KindOf[item] = "account" THEN Forget(cache_pos, {item})
                              ELSE cache_pos
              /\ UNCHANGED channel
    BY <1>2 DEF Ask
  <2>2. ~InWorker(c)  BY <2>1 DEF PlaceInv, PlaceOf
  <2>3. \A i \in DOMAIN cache_pos' : i \in DOMAIN cache_pos  BY <2>1, ForgetDomain
  <2>4. \A i \in DOMAIN channel' :
          (\E j \in DOMAIN channel : channel'[i] = channel[j]) \/ NowSaid(channel'[i])
    <3>1. [type |-> "lookup", client |-> c] \in Events  BY DEF Events, LookupEvent
    <3>2. NowSaid([type |-> "lookup", client |-> c])  BY DEF NowSaid
    <3>3. CASE channel' = Append(channel, [type |-> "lookup", client |-> c])
      <4>1. \A i \in DOMAIN channel' : \/ \E j \in DOMAIN channel : channel'[i] = channel[j]
                                       \/ channel'[i] = [type |-> "lookup", client |-> c]
        BY <1>0, <3>1, <3>3, ChannelSaid
      <4> QED BY <3>2, <4>1
    <3>4. CASE UNCHANGED channel  BY <3>4
    <3> QED BY <2>1, <3>3, <3>4
  <2>5. hit # {} => (CHOOSE a \in hit : TRUE) \in said[item]  BY CachedSaid
  <2>6. /\ client'[c].pc = "asking" \/ client'[c].answer \in said'[client'[c].item]
        /\ \A d \in Clients : d # c => client'[d] = client[d]
    <3> DEFINE asking == [client[c] EXCEPT !.pc = "asking", !.item = item]
               answered == [pc |-> "idle", item |-> item, answer |-> CHOOSE a \in hit : TRUE]
    <3>1. asking.pc = "asking"
      <4>1. client[c] \in Client  BY <1>0
      <4> QED BY <4>1 DEF Client
    <3>2. hit # {} => answered.answer \in said[answered.item]  BY <2>5
    <3>3. UNCHANGED said  BY <2>1
    <3> HIDE DEF hit
    <3>4. \/ client' = [client EXCEPT ![c] = asking]
          \/ client' = [client EXCEPT ![c] = IF hit = {} THEN asking ELSE answered]
      BY <2>1
    <3> HIDE DEF asking, answered
    <3>5. /\ client'[c] = asking \/ (hit # {} /\ client'[c] = answered)
          /\ \A d \in Clients : d # c => client'[d] = client[d]
      BY <1>0, <3>4
    <3> QED BY <3>1, <3>2, <3>3, <3>5
  <2> QED BY <2>1, <2>2, <2>3, <2>4, <2>6 DEF SaidStep
<1> QED BY <1>1, <1>2

\* A worker that starts with a lookup.
LEMMA SpawnSaid ==
  ASSUME LookupsType, NEW c, Spawn(c)
  PROVE  \A w \in Workers : worker'[w] = worker[w] \/ worker'[w].pc = "look"
BY DEF Spawn, Fresh, LookupsType

\* The task's events.
LEMMA TaskSaid ==
  ASSUME LookupsType, OfferInv, SaidInv, Task
  PROVE  SaidStep
<1>0. /\ client \in [Clients -> Client] /\ channel \in Seq(Events)
  BY DEF LookupsType
<1>1. channel # <<>> /\ channel' = Tail(channel) /\ UNCHANGED said
  BY DEF Task, HandleLookup, HandleReady, HandleFailed, Event
<1>2. \A i \in DOMAIN channel' : \E j \in DOMAIN channel : channel'[i] = channel[j]
  BY <1>0, <1>1, ChannelSaid
<1>3. CASE HandleLookup
  <2> DEFINE c == Head(channel).client
             hit == Cached(cache_pos, cache_neg, ItemOf(c))
  <2>1. c \in Clients  BY <1>3, EventAtHand DEF HandleLookup
  <2>2. UNCHANGED cache_neg /\ \A i \in DOMAIN cache_pos' : i \in DOMAIN cache_pos
    BY <1>3, ForgetDomain DEF HandleLookup
  <2>3. CASE hit # {} /\ Reply(c, CHOOSE a \in hit : TRUE) /\ UNCHANGED worker
    <3>1. (CHOOSE a \in hit : TRUE) \in said[ItemOf(c)] /\ (CHOOSE a \in hit : TRUE) \in Answers
      BY <2>3, CachedSaid
    <3> HIDE DEF hit, c
    <3>2. /\ \A d \in Clients : client'[d].item = client[d].item
          /\ client'[c].answer = CHOOSE a \in hit : TRUE
          /\ \A d \in Clients : d # c => client'[d] = client[d]
      BY <1>0, <2>1, <2>3, <3>1, ReplyClient
    <3>3. client'[c].answer \in said'[client'[c].item]
      BY <1>1, <2>1, <3>1, <3>2 DEF ItemOf
    <3> QED BY <1>1, <1>2, <2>2, <2>3, <3>2, <3>3 DEF SaidStep
  <2>4. CASE Spawn(c) /\ UNCHANGED client
    <3>1. \A w \in Workers : worker'[w] = worker[w] \/ worker'[w].pc = "look"
      BY <2>4, SpawnSaid
    <3> QED BY <1>1, <1>2, <2>2, <2>4, <3>1 DEF SaidStep
  <2>5. CASE UNCHANGED <<client, worker>>
    BY <1>1, <1>2, <2>2, <2>5 DEF SaidStep
  <2> QED BY <1>3, <2>3, <2>4, <2>5 DEF HandleLookup
<1>4. CASE HandleFailed
  <2>1. UNCHANGED <<cache_pos, cache_neg, client>>  BY <1>4 DEF HandleFailed, cache
  <2>2. \A w \in Workers : worker'[w] = worker[w] \/ worker'[w].pc = "look"
    BY <1>4, SpawnSaid DEF HandleFailed
  <2> QED BY <1>1, <1>2, <2>1, <2>2 DEF SaidStep
<1>5. CASE HandleReady
  <2> DEFINE event == Head(channel)
  <2>1. event \in ReadyEvent /\ event.type = "ready"
    BY <1>5, EventAtHand DEF HandleReady
  <2>2. 1 \in DOMAIN channel /\ event = channel[1]  BY <1>0, <1>1, Removed
  <2>3. event.answer \in said'[event.item]  BY <1>1, <2>1, <2>2 DEF SaidInv, Said
  <2>4. \A w \in event.next : w \in Workers  BY <2>1 DEF ReadyEvent
  <2>5. PICK done, s : ReadyEffect(done, s)  BY <1>5, ReadyDoes
  <2>6. /\ \A i \in DOMAIN cache_pos' :
             i \in DOMAIN cache_pos \/ (i = event.item /\ event.answer = "true")
        /\ \A i \in DOMAIN cache_neg' :
             i \in DOMAIN cache_neg \/ (i = event.item /\ event.answer = "false")
        /\ \A c \in Clients : client'[c].item = client[c].item
        /\ \A c \in Clients \ done : client'[c] = client[c]
    BY <2>5 DEF ReadyEffect
  <2>7. \A c \in done :
          \/ /\ client'[c].answer = "true"
             /\ \/ ItemOf(c) \in DOMAIN cache_pos
                \/ ItemOf(c) = event.item /\ event.answer = "true"
          \/ /\ client'[c].answer = "false"
             /\ \/ ItemOf(c) \in DOMAIN cache_neg
                \/ ItemOf(c) = event.item /\ event.answer = "false"
    BY <2>5 DEF ReadyEffect
  <2>8. \/ EndWorker(event.next)
        \/ Spawn(Head(s))
        \/ \E w \in event.next : worker' = [worker EXCEPT
             ![w] = [pc |-> "look", client |-> Head(s), rcpts |-> @.rcpts,
                     failures |-> @.failures]]
    BY <2>5 DEF ReadyEffect
  <2> HIDE DEF event
  <2>9. \A w \in Workers : worker'[w] = worker[w] \/ worker'[w].pc \in {"look", "idle"}
    <3>1. CASE EndWorker(event.next)  BY <3>1 DEF EndWorker, Idle
    <3>2. CASE Spawn(Head(s))  BY <3>2, SpawnSaid
    <3>3. ASSUME NEW w \in event.next,
                 worker' = [worker EXCEPT
                   ![w] = [pc |-> "look", client |-> Head(s), rcpts |-> @.rcpts,
                           failures |-> @.failures]]
          PROVE  \A v \in Workers : worker'[v] = worker[v] \/ worker'[v].pc \in {"look", "idle"}
      BY <2>4, <3>3 DEF LookupsType
    <3> QED BY <2>8, <3>1, <3>2, <3>3
  <2>10. \A c \in Clients : c \in done => client'[c].answer \in said'[client'[c].item]
    BY <1>1, <2>3, <2>6, <2>7 DEF SaidInv, ItemOf
  <2> QED BY <1>1, <1>2, <2>3, <2>6, <2>9, <2>10 DEF SaidStep
<1> QED BY <1>3, <1>4, <1>5 DEF Task

\* The steps of a worker.
LEMMA WorkerSaid ==
  ASSUME LookupsType, LookupsAssumption, SaidInv, NEW w \in Workers, WorkerStep(w)
  PROVE  SaidStep
<1>0. /\ client \in [Clients -> Client] /\ said \in [Items -> SUBSET Answers]
      /\ channel \in Seq(Events) /\ DOMAIN worker = Workers
  BY DEF LookupsType
<1> DEFINE c == worker[w].client
<1>1. ASSUME c \in Clients  PROVE ItemOf(c) \in Items
  BY <1>0, <1>1 DEF Client, ItemOf
<1>2. CASE SmtpAnswer(w)
  <2>1. SmtpEffect(w) /\ c \in Clients /\ UNCHANGED <<cache_pos, cache_neg, channel>>
    BY <1>2, SmtpDoes DEF Looking, cache
  <2>2. PICK answer \in Answers, r \in Served :
          /\ said' = [said EXCEPT ![ItemOf(c)] = @ \cup {answer}]
          /\ Reply(c, answer)
          /\ worker' = [worker EXCEPT ![w] = r]
          /\ r.event.item = ItemOf(c) /\ r.event.answer = answer
    BY <2>1 DEF SmtpEffect
  <2>3. (\A i \in Items : said[i] \subseteq said'[i]) /\ answer \in said'[ItemOf(c)]
    BY <1>0, <1>1, <2>1, <2>2, SaidMore
  <2>4. /\ \A d \in Clients : client'[d].item = client[d].item
        /\ client'[c].answer = answer
        /\ \A d \in Clients : d # c => client'[d] = client[d]
    BY <1>0, <2>1, <2>2, ReplyClient
  <2>5. client'[c].answer \in said'[client'[c].item]  BY <2>1, <2>3, <2>4 DEF ItemOf
  <2>6. \A v \in Workers : \/ worker'[v] = worker[v]
                           \/ worker'[v].pc = "answered" /\ NowSaid(worker'[v].event)
    <3>1. NowSaid(r.event) /\ r.pc = "answered"  BY <2>2, <2>3 DEF NowSaid, Served
    <3> QED BY <1>0, <2>2, <3>1
  <2> HIDE DEF c
  <2> QED BY <2>1, <2>3, <2>4, <2>5, <2>6 DEF SaidStep
<1>3. CASE Fail(w)
  <2> DEFINE r == [pc |-> "answered", event |-> [type |-> "failed"]]
  <2>1. c \in Clients  BY <1>3, WorkerStates DEF Fail, Looking
  <2>2. /\ Reply(c, "none") /\ worker' = [worker EXCEPT ![w] = r]
        /\ UNCHANGED <<cache_pos, cache_neg, channel, said>>
    BY <1>3 DEF Fail, cache
  <2>3. /\ \A d \in Clients : client'[d].item = client[d].item
        /\ client'[c].answer = "none"
        /\ \A d \in Clients : d # c => client'[d] = client[d]
    BY <1>0, <2>1, <2>2, ReplyClient
  <2>4. NowSaid(r.event) /\ r.pc = "answered"  BY DEF NowSaid
  <2> HIDE DEF r, c
  <2>5. \A v \in Workers : \/ worker'[v] = worker[v]
                           \/ worker'[v].pc = "answered" /\ NowSaid(worker'[v].event)
    BY <1>0, <2>2, <2>4
  <2> QED BY <2>2, <2>3, <2>5 DEF SaidStep
<1>4. CASE SendEvent(w)
  <2> DEFINE event == worker[w].event
  <2>1. /\ worker[w].pc = "answered" /\ event \in Events /\ channel' = Append(channel, event)
        /\ UNCHANGED <<cache_pos, cache_neg, client, said>>
    BY <1>4, SendDoes DEF cache
  <2>2. PICK r \in {Idle} \cup Offering :
          worker' = [worker EXCEPT ![w] = r] /\ r.pc \in {"idle", "wait"}
    BY <1>4, SendDoes
  <2>3. NowSaid(event)  BY <2>1 DEF SaidInv, Said, NowSaid
  <2> HIDE DEF event
  <2>4. \A i \in DOMAIN channel' :
          (\E j \in DOMAIN channel : channel'[i] = channel[j]) \/ channel'[i] = event
    BY <1>0, <2>1, ChannelSaid
  <2>5. \A v \in Workers : worker'[v] = worker[v] \/ worker'[v].pc \in {"idle", "wait"}
    BY <1>0, <2>2
  <2> QED BY <2>1, <2>3, <2>4, <2>5 DEF SaidStep
<1>5. CASE ImapReady(w)
  <2>1. c \in Clients /\ UNCHANGED <<cache_pos, cache_neg, client>>
    BY <1>5, ImapDoes DEF Looking, cache
  <2>2. PICK event \in Events, answer \in Answers \cup {"none"} :
          /\ channel' = Append(channel, event) /\ Frees(event)
          /\ worker' = [worker EXCEPT ![w] = [pc |-> "late", client |-> c, answer |-> answer]]
          /\ \/ event.type = "failed" /\ answer = "none" /\ said' = said
             \/ /\ event.type = "ready" /\ event.item = ItemOf(c) /\ event.answer = answer
                /\ answer \in Answers
                /\ said' = [said EXCEPT ![ItemOf(c)] = @ \cup {answer}]
    BY <1>5, ImapDoes, Zenon
  <2>3. /\ \A i \in Items : said[i] \subseteq said'[i]
        /\ NowSaid(event) /\ answer \in said'[ItemOf(c)] \cup {"none"}
    <3>1. CASE event.type = "failed" /\ answer = "none" /\ said' = said
      BY <3>1 DEF NowSaid
    <3>2. CASE /\ event.type = "ready" /\ event.item = ItemOf(c) /\ event.answer = answer
               /\ said' = [said EXCEPT ![ItemOf(c)] = @ \cup {answer}]
      <4>1. (\A i \in Items : said[i] \subseteq said'[i]) /\ answer \in said'[ItemOf(c)]
        BY <1>0, <1>1, <2>1, <3>2, SaidMore
      <4> QED BY <3>2, <4>1 DEF NowSaid
    <3> QED BY <2>2, <3>1, <3>2
  <2>4. \A i \in DOMAIN channel' :
          (\E j \in DOMAIN channel : channel'[i] = channel[j]) \/ channel'[i] = event
    BY <1>0, <2>2, ChannelSaid
  <2>5. answer \in said'[client'[c].item] \cup {"none"}  BY <2>1, <2>3 DEF ItemOf
  <2>6. \A v \in Workers : v # w => worker'[v] = worker[v]  BY <1>0, <2>2
  <2>7. worker'[w].pc = "late" /\ worker'[w].client = c /\ worker'[w].answer = answer
    BY <1>0, <2>2
  <2> HIDE DEF c
  <2> QED BY <2>1, <2>3, <2>4, <2>5, <2>6, <2>7 DEF SaidStep
<1>6. CASE ImapAnswer(w)
  <2>1. worker[w].pc = "late" /\ worker[w] \in Late  BY <1>6, WorkerStates DEF ImapAnswer
  <2>2. c \in Clients /\ worker[w].answer \in Answers \cup {"none"}
    BY <2>1 DEF Late
  <2>3. /\ Reply(c, worker[w].answer) /\ worker' = [worker EXCEPT ![w] = Idle]
        /\ UNCHANGED <<cache_pos, cache_neg, channel, said>>
    BY <1>6 DEF ImapAnswer, cache
  <2>4. /\ \A d \in Clients : client'[d].item = client[d].item
        /\ client'[c].answer = worker[w].answer
        /\ \A d \in Clients : d # c => client'[d] = client[d]
    BY <1>0, <2>2, <2>3, ReplyClient
  <2>5. worker[w].answer \in said[ItemOf(c)] \cup {"none"}  BY <2>1 DEF SaidInv
  <2>6. client'[c].answer \in said'[client'[c].item] \cup {"none"}
    BY <2>2, <2>3, <2>4, <2>5 DEF ItemOf
  <2>7. \A v \in Workers : worker'[v] = worker[v] \/ worker'[v].pc = "idle"
    BY <1>0, <2>3 DEF Idle
  <2> HIDE DEF c
  <2> QED BY <2>3, <2>4, <2>6, <2>7 DEF SaidStep
<1> QED BY <1>2, <1>3, <1>4, <1>5, <1>6 DEF WorkerStep

-----------------------------------------------------------------------------
(* Offers and slots                                                        *)

\* A worker that has an answer and does not wait yet offers only itself.
OffersItself(w) ==
  worker'[w].pc = "answered" /\ worker'[w].event.type = "ready" => worker'[w].event.next \subseteq {w}

\* A step that leaves the channel alone.
LEMMA OffersSame ==
  ASSUME LookupsType, OfferInv, UNCHANGED channel,
         \A w \in Workers : worker[w].pc = "wait" => worker'[w].pc = "wait",
         \A w \in Workers : worker'[w] = worker[w] \/ OffersItself(w)
  PROVE  OfferInv'
<1>1. \A i \in DOMAIN channel : channel[i] \in Events  BY DEF LookupsType
<1>2. \A i \in DOMAIN channel : channel[i].type = "ready" =>
        \A w \in channel[i].next : w \in Workers /\ channel[i].next = {w} /\ worker[w].pc = "wait"
  BY <1>1, EventKinds DEF OfferInv, ReadyEvent
<1> QED BY <1>2 DEF OfferInv, Offer, OffersItself

\* An event is sent, perhaps with the offer of a worker that waits from now on.
LEMMA OffersSent ==
  ASSUME LookupsType, OfferInv, NEW event \in Events, channel' = Append(channel, event),
         event.type = "ready" =>
           \A w \in event.next : event.next = {w} /\ worker[w].pc # "wait" /\ worker'[w].pc = "wait",
         \A w \in Workers : worker[w].pc = "wait" => worker'[w].pc = "wait",
         \A w \in Workers : worker'[w] = worker[w] \/ OffersItself(w)
  PROVE  OfferInv'
<1>1. PICK n : /\ DOMAIN channel' = DOMAIN channel \cup {n} /\ n \notin DOMAIN channel
               /\ channel'[n] = event /\ \A i \in DOMAIN channel : channel'[i] = channel[i]
  BY Appended DEF LookupsType
<1>2. \A i \in DOMAIN channel : channel[i] \in Events  BY DEF LookupsType
<1>3. \A i \in DOMAIN channel : channel[i].type = "ready" =>
        \A w \in channel[i].next : w \in Workers /\ channel[i].next = {w} /\ worker[w].pc = "wait"
  BY <1>2, EventKinds DEF OfferInv, ReadyEvent
<1>4. \A i \in DOMAIN channel' : channel'[i].type = "ready" =>
        \A w \in channel'[i].next : channel'[i].next = {w} /\ worker'[w].pc = "wait"
  BY <1>1, <1>3
<1>5. \A w \in Workers : \A i, j : Offer(w, i)' /\ Offer(w, j)' => i = j
  <2>1. ASSUME NEW w \in Workers, NEW i, NEW j, Offer(w, i)', Offer(w, j)'  PROVE i = j
    <3>1. i \in DOMAIN channel' /\ j \in DOMAIN channel'
      BY <2>1 DEF Offer
    <3>2. \A k \in DOMAIN channel : Offer(w, k)' => Offer(w, k) /\ worker[w].pc = "wait"
      BY <1>1, <1>3 DEF Offer
    <3>3. Offer(w, n)' => worker[w].pc # "wait"  BY <1>1 DEF Offer
    <3>4. CASE i \in DOMAIN channel /\ j \in DOMAIN channel
      BY <2>1, <3>2, <3>4 DEF OfferInv
    <3> QED BY <1>1, <2>1, <3>1, <3>2, <3>3, <3>4
  <2> QED BY <2>1
<1> QED BY <1>4, <1>5 DEF OfferInv, OffersItself

\* An event is received: a worker it offers need not wait any longer.
LEMMA OffersReceived ==
  ASSUME LookupsType, OfferInv, channel # <<>>, channel' = Tail(channel),
         \A w \in Workers : worker[w].pc = "wait" =>
           worker'[w].pc = "wait" \/ (Head(channel).type = "ready" /\ w \in Head(channel).next),
         \A w \in Workers : worker'[w] = worker[w] \/ OffersItself(w)
  PROVE  OfferInv'
<1>1. /\ 1 \in DOMAIN channel /\ Head(channel) = channel[1]
      /\ \A i \in DOMAIN channel' : /\ i \in Nat /\ i + 1 \in DOMAIN channel /\ i + 1 # 1
                                    /\ channel'[i] = channel[i + 1]
  BY Removed DEF LookupsType
<1>2. \A i \in DOMAIN channel : channel[i] \in Events  BY DEF LookupsType
<1>3. \A i \in DOMAIN channel : channel[i].type = "ready" =>
        \A w \in channel[i].next : w \in Workers /\ channel[i].next = {w} /\ worker[w].pc = "wait"
  BY <1>2, EventKinds DEF OfferInv, ReadyEvent
<1>4. \A w \in Workers : \A i, j : Offer(w, i) /\ Offer(w, j) => i = j  BY DEF OfferInv
<1>5. ASSUME NEW i \in DOMAIN channel', channel'[i].type = "ready", NEW w \in channel'[i].next
      PROVE  channel'[i].next = {w} /\ worker'[w].pc = "wait"
  <2>1. i + 1 \in DOMAIN channel /\ i + 1 # 1 /\ channel'[i] = channel[i + 1]  BY <1>1
  <2>2. w \in Workers /\ channel'[i].next = {w} /\ worker[w].pc = "wait"
    BY <1>3, <1>5, <2>1
  <2>3. Offer(w, i + 1)  BY <1>5, <2>1 DEF Offer
  <2>4. ~(Head(channel).type = "ready" /\ w \in Head(channel).next)
    <3>1. Head(channel).type = "ready" /\ w \in Head(channel).next => Offer(w, 1)
      BY <1>1 DEF Offer
    <3> QED BY <1>4, <2>1, <2>2, <2>3, <3>1
  <2> QED BY <2>2, <2>4
<1>6. ASSUME NEW w \in Workers, NEW i, NEW j, Offer(w, i)', Offer(w, j)'  PROVE i = j
  <2>1. i \in DOMAIN channel' /\ j \in DOMAIN channel'  BY <1>6 DEF Offer
  <2>2. Offer(w, i + 1) /\ Offer(w, j + 1)  BY <1>1, <1>6, <2>1 DEF Offer
  <2>3. i + 1 = j + 1  BY <1>4, <2>2
  <2> QED BY <1>1, <2>1, <2>3
<1> QED BY <1>5, <1>6 DEF OfferInv, OffersItself

\* The steps of a client.
LEMMA ClientSlots ==
  ASSUME LookupsType, SlotsInv, NEW c \in Clients,
         SqlAnswer(c) \/ \E item \in Items : Ask(c, item)
  PROVE  SlotsInv'
<1>1. UNCHANGED <<waiting, active_lookups, worker>>  BY DEF SqlAnswer, Ask
<1>2. Busy' = Busy  BY <1>1 DEF Busy
<1>3. CASE UNCHANGED channel
  <2>1. Leaving' = Leaving  BY <1>3 DEF Leaving
  <2>2. OfferInv'  BY <1>1, <1>3, OffersSame DEF SlotsInv
  <2> QED BY <1>1, <1>2, <2>1, <2>2 DEF SlotsInv, SlotsExact
<1>4. CASE channel' = Append(channel, [type |-> "lookup", client |-> c])
  <2> DEFINE e == [type |-> "lookup", client |-> c]
  <2>1. e \in Events /\ ~Frees(e) /\ e.type = "lookup"  BY DEF Events, LookupEvent, Frees
  <2>2. channel' = Append(channel, e)  BY <1>4
  <2> HIDE DEF e
  <2>3. Cardinality(Leaving') = Cardinality(Leaving)
    <3>1. Cardinality(Leaving) \in Nat  BY LeavingFinite DEF LookupsType
    <3> QED BY <2>1, <2>2, <3>1, LeavingSent DEF LookupsType
  <2>4. OfferInv'  BY <1>1, <2>1, <2>2, OffersSent DEF SlotsInv
  <2> QED BY <1>1, <1>2, <2>3, <2>4 DEF SlotsInv, SlotsExact
<1> QED BY <1>3, <1>4 DEF SqlAnswer, Ask

\* The steps of a worker: a slot goes from the worker to its event.
LEMMA WorkerSlots ==
  ASSUME LookupsType, LookupsAssumption, SlotsInv, NEW w \in Workers, WorkerStep(w)
  PROVE  SlotsInv'
<1>0. /\ IsFiniteSet(Busy) /\ OfferInv /\ SlotsExact /\ DOMAIN worker = Workers
      /\ channel \in Seq(Events) /\ Cardinality(Leaving) \in Nat
  BY LeavingFinite DEF SlotsInv, LookupsType
<1>1. UNCHANGED <<waiting, active_lookups>>
  BY DEF WorkerStep, SmtpAnswer, Fail, SendEvent, ImapReady, ImapAnswer
<1>2. ASSUME NEW r, worker' = [worker EXCEPT ![w] = r], UNCHANGED channel,
             \/ worker[w].pc = "look" /\ r.pc = "answered"
             \/ worker[w].pc = "late" /\ r.pc = "idle",
             r.pc = "answered" /\ r.event.type = "ready" => r.event.next \subseteq {w}
      PROVE  SlotsInv'
  <2>1. IsFiniteSet(Busy') /\ Cardinality(Busy') = Cardinality(Busy)
    <3>1. /\ IsFiniteSet(Busy') /\ Cardinality(Busy) \in Nat /\ Cardinality(Busy') \in Nat
          /\ Cardinality(Busy') = Cardinality(Busy)
               - (IF worker[w].pc \in {"look", "answered", "wait"} THEN 1 ELSE 0)
               + (IF r.pc \in {"look", "answered", "wait"} THEN 1 ELSE 0)
      BY <1>0, <1>2, BusyChanges
    <3> QED BY <1>2, <3>1
  <2>2. Leaving' = Leaving  BY <1>2 DEF Leaving
  <2>3. worker'[w] = r /\ \A v \in Workers : v # w => worker'[v] = worker[v]
    BY <1>0, <1>2
  <2>4. OfferInv'
    BY <1>0, <1>2, <2>3, OffersSame DEF OffersItself
  <2> QED BY <1>0, <1>1, <2>1, <2>2, <2>4 DEF SlotsInv, SlotsExact
<1>3. CASE SmtpAnswer(w)
  <2>1. SmtpEffect(w) /\ worker[w].pc = "look" /\ UNCHANGED channel
    BY <1>3, SmtpDoes DEF Looking
  <2>2. PICK r \in Served : worker' = [worker EXCEPT ![w] = r] /\ r.event.next \subseteq {w}
    BY <2>1 DEF SmtpEffect
  <2>3. r.pc = "answered"  BY DEF Served
  <2> QED BY <1>2, <2>1, <2>2, <2>3
<1>4. CASE Fail(w)
  <2> DEFINE r == [pc |-> "answered", event |-> [type |-> "failed"]]
  <2>1. worker[w].pc = "look" /\ worker' = [worker EXCEPT ![w] = r] /\ UNCHANGED channel
    BY <1>4 DEF Fail
  <2>2. r.pc = "answered" /\ r.event.type # "ready"  OBVIOUS
  <2> HIDE DEF r
  <2> QED BY <1>2, <2>1, <2>2
<1>5. CASE ImapAnswer(w)
  <2>1. worker[w].pc = "late" /\ worker' = [worker EXCEPT ![w] = Idle] /\ UNCHANGED channel
    BY <1>5 DEF ImapAnswer
  <2>2. Idle.pc = "idle"  BY DEF Idle
  <2> QED BY <1>2, <2>1, <2>2
<1>6. CASE SendEvent(w)
  <2> DEFINE event == worker[w].event
  <2>1. worker[w].pc = "answered" /\ event \in Events /\ channel' = Append(channel, event)
    BY <1>6, SendDoes
  <2>2. PICK r : /\ worker' = [worker EXCEPT ![w] = r] /\ r.pc \in {"idle", "wait"}
                 /\ r.pc = "wait" <=> ~Frees(event)
    BY <1>6, SendDoes
  <2>3. event.type = "ready" => event.next \subseteq {w}
    BY <1>0, <2>1 DEF OfferInv
  <2> HIDE DEF event
  <2>4. worker'[w] = r /\ \A v \in Workers : v # w => worker'[v] = worker[v]
    BY <1>0, <2>2
  <2>5. event.type = "ready" =>
          \A v \in event.next : event.next = {v} /\ worker[v].pc # "wait" /\ worker'[v].pc = "wait"
    BY <2>1, <2>2, <2>3, <2>4 DEF Frees
  <2>6. \A v \in Workers : /\ worker[v].pc = "wait" => worker'[v].pc = "wait"
                           /\ worker'[v] = worker[v] \/ OffersItself(v)
    BY <2>1, <2>2, <2>4 DEF OffersItself
  <2>7. OfferInv'  BY <1>0, <2>1, <2>5, <2>6, OffersSent
  <2>8. Cardinality(Leaving') = Cardinality(Leaving) + (IF Frees(event) THEN 1 ELSE 0)
    BY <1>0, <2>1, LeavingSent
  <2>9. /\ IsFiniteSet(Busy') /\ Cardinality(Busy) \in Nat
        /\ Cardinality(Busy') = Cardinality(Busy) - 1 + (IF r.pc = "wait" THEN 1 ELSE 0)
    BY <1>0, <2>1, <2>2, BusyChanges
  <2>10. Cardinality(Busy') + Cardinality(Leaving') = Cardinality(Busy) + Cardinality(Leaving)
    BY <1>0, <2>2, <2>8, <2>9
  <2> QED BY <1>0, <1>1, <2>7, <2>9, <2>10 DEF SlotsInv, SlotsExact
<1>7. CASE ImapReady(w)
  <2>1. worker[w].pc = "look"  BY <1>7 DEF ImapReady
  <2>2. PICK event, r :
          /\ event \in Events /\ channel' = Append(channel, event) /\ Frees(event)
          /\ worker' = [worker EXCEPT ![w] = r] /\ r.pc = "late"
    <3> DEFINE c == worker[w].client
    <3>1. PICK event \in Events, answer \in Answers \cup {"none"} :
            /\ channel' = Append(channel, event) /\ Frees(event)
            /\ worker' = [worker EXCEPT ![w] = [pc |-> "late", client |-> c, answer |-> answer]]
      BY <1>7, ImapDoes, Zenon
    <3> DEFINE r == [pc |-> "late", client |-> c, answer |-> answer]
    <3>2. worker' = [worker EXCEPT ![w] = r] /\ r.pc = "late"  BY <3>1
    <3> HIDE DEF r
    <3> QED BY <3>1, <3>2
  <2>3. worker'[w] = r /\ \A v \in Workers : v # w => worker'[v] = worker[v]
    BY <1>0, <2>2
  <2>4. event.type = "ready" => event.next = {}  BY <2>2 DEF Frees
  <2>5. \A v \in Workers : /\ worker[v].pc = "wait" => worker'[v].pc = "wait"
                           /\ worker'[v] = worker[v] \/ OffersItself(v)
    BY <2>1, <2>2, <2>3 DEF OffersItself
  <2>6. OfferInv'  BY <1>0, <2>2, <2>4, <2>5, OffersSent
  <2>7. Cardinality(Leaving') = Cardinality(Leaving) + 1
    BY <1>0, <2>2, LeavingSent
  <2>8. /\ IsFiniteSet(Busy') /\ Cardinality(Busy) \in Nat
        /\ Cardinality(Busy') = Cardinality(Busy) - 1
    <3>1. /\ IsFiniteSet(Busy') /\ Cardinality(Busy) \in Nat /\ Cardinality(Busy') \in Nat
          /\ Cardinality(Busy') = Cardinality(Busy)
               - (IF worker[w].pc \in {"look", "answered", "wait"} THEN 1 ELSE 0)
               + (IF r.pc \in {"look", "answered", "wait"} THEN 1 ELSE 0)
      BY <1>0, <2>2, BusyChanges
    <3> QED BY <2>1, <2>2, <3>1
  <2>9. Cardinality(Busy') + Cardinality(Leaving') = Cardinality(Busy) + Cardinality(Leaving)
    BY <1>0, <2>7, <2>8
  <2> QED BY <1>0, <1>1, <2>6, <2>8, <2>9 DEF SlotsInv, SlotsExact
<1> QED BY <1>3, <1>4, <1>5, <1>6, <1>7 DEF WorkerStep

\* A new worker holds one more slot.
LEMMA SpawnSlots ==
  ASSUME LookupsType, IsFiniteSet(Busy), NEW c, Spawn(c)
  PROVE  /\ IsFiniteSet(Busy') /\ Cardinality(Busy) \in Nat
         /\ Cardinality(Busy') = Cardinality(Busy) + 1
         /\ \A w \in Workers : \/ worker'[w] = worker[w]
                               \/ worker[w].pc = "idle" /\ worker'[w].pc = "look"
<1>1. PICK w \in Workers : worker[w].pc = "idle" /\ worker' = [worker EXCEPT ![w] = Fresh(c)]
  BY DEF Spawn
<1>2. Fresh(c).pc = "look" /\ DOMAIN worker = Workers  BY DEF Fresh, LookupsType
<1>3. /\ IsFiniteSet(Busy') /\ Cardinality(Busy) \in Nat /\ Cardinality(Busy') \in Nat
      /\ Cardinality(Busy') = Cardinality(Busy)
           - (IF worker[w].pc \in {"look", "answered", "wait"} THEN 1 ELSE 0)
           + (IF Fresh(c).pc \in {"look", "answered", "wait"} THEN 1 ELSE 0)
  BY <1>1, <1>2, BusyChanges
<1>4. worker'[w] = Fresh(c) /\ \A v \in Workers : v # w => worker'[v] = worker[v]
  BY <1>1, <1>2
<1> QED BY <1>1, <1>2, <1>3, <1>4

\* The task's events: a slot is taken by a lookup that finds one free, passed on
\* to a lookup that waits, or given back.
LEMMA TaskSlots ==
  ASSUME LookupsType, LookupsAssumption, SlotsInv, Task
  PROVE  SlotsInv'
<1>0. /\ IsFiniteSet(Busy) /\ OfferInv /\ SlotsExact /\ DOMAIN worker = Workers
      /\ channel \in Seq(Events) /\ Cardinality(Leaving) \in Nat /\ Cardinality(Busy) \in Nat
      /\ active_lookups \in Nat /\ MaxConcurrent \in Nat
  BY LeavingFinite, FS_CardinalityType DEF SlotsInv, LookupsType, LookupsAssumption
<1>1. channel # <<>> /\ channel' = Tail(channel)
  BY DEF Task, HandleLookup, HandleReady, HandleFailed, Event
<1>2. Cardinality(Leaving') = Cardinality(Leaving) - (IF Frees(Head(channel)) THEN 1 ELSE 0)
  BY <1>0, <1>1, LeavingReceived
<1>3. ASSUME \A w \in Workers : \/ worker'[w] = worker[w]
                                \/ worker[w].pc = "idle" /\ worker'[w].pc = "look"
      PROVE  OfferInv'
  <2>1. \A w \in Workers : /\ worker[w].pc = "wait" => worker'[w].pc = "wait"
                           /\ worker'[w] = worker[w] \/ OffersItself(w)
    BY <1>3 DEF OffersItself
  <2> QED BY <1>0, <1>1, <2>1, OffersReceived
<1>4. ASSUME UNCHANGED worker  PROVE OfferInv' /\ Busy' = Busy
  BY <1>3, <1>4 DEF Busy
<1>5. CASE HandleLookup
  <2> DEFINE c == Head(channel).client
  <2>1. ~Frees(Head(channel))  BY <1>5 DEF HandleLookup, Event, Frees
  <2>2. CASE UNCHANGED <<active_lookups, worker, waiting>>
    BY <1>0, <1>2, <1>4, <2>1, <2>2 DEF SlotsInv, SlotsExact
  <2>3. CASE /\ active_lookups < MaxConcurrent /\ active_lookups' = active_lookups + 1
             /\ Spawn(c) /\ UNCHANGED waiting
    <3>1. /\ IsFiniteSet(Busy') /\ Cardinality(Busy') = Cardinality(Busy) + 1
          /\ \A w \in Workers : \/ worker'[w] = worker[w]
                                \/ worker[w].pc = "idle" /\ worker'[w].pc = "look"
      BY <1>0, <2>3, SpawnSlots
    <3>2. OfferInv'  BY <1>3, <3>1
    <3>3. active_lookups' <= MaxConcurrent /\ waiting' = <<>>
      BY <1>0, <2>3 DEF SlotsExact
    <3>4. active_lookups' = Cardinality(Busy') + Cardinality(Leaving')
      BY <1>0, <1>2, <2>1, <2>3, <3>1 DEF SlotsExact
    <3> QED BY <3>1, <3>2, <3>3, <3>4 DEF SlotsInv, SlotsExact
  <2>4. CASE active_lookups >= MaxConcurrent /\ UNCHANGED <<active_lookups, worker>>
    BY <1>0, <1>2, <1>4, <2>1, <2>4 DEF SlotsInv, SlotsExact
  <2> QED BY <1>5, <2>2, <2>3, <2>4 DEF HandleLookup
<1>6. ASSUME NEW c, Spawn(c), Frees(Head(channel)), waiting # <<>>, UNCHANGED active_lookups
      PROVE  SlotsInv'
  <2>1. /\ IsFiniteSet(Busy') /\ Cardinality(Busy') = Cardinality(Busy) + 1
        /\ \A w \in Workers : \/ worker'[w] = worker[w]
                              \/ worker[w].pc = "idle" /\ worker'[w].pc = "look"
    BY <1>0, <1>6, SpawnSlots
  <2>2. OfferInv'  BY <1>3, <2>1
  <2>3. active_lookups' = Cardinality(Busy') + Cardinality(Leaving')
    BY <1>0, <1>2, <1>6, <2>1 DEF SlotsExact
  <2>4. active_lookups' = MaxConcurrent  BY <1>0, <1>6 DEF SlotsExact
  <2> QED BY <1>0, <2>1, <2>2, <2>3, <2>4 DEF SlotsInv, SlotsExact
<1>7. CASE HandleFailed
  <2>1. Frees(Head(channel))  BY <1>7 DEF HandleFailed, Event, Frees
  <2>2. CASE waiting = <<>> /\ active_lookups' = active_lookups - 1 /\ UNCHANGED <<waiting, worker>>
    <3>1. active_lookups' = Cardinality(Busy') + Cardinality(Leaving')
      BY <1>0, <1>2, <1>4, <2>1, <2>2 DEF SlotsExact
    <3> QED BY <1>0, <1>4, <2>2, <3>1 DEF SlotsInv, SlotsExact
  <2> QED BY <1>6, <1>7, <2>1, <2>2 DEF HandleFailed
<1>8. CASE HandleReady
  <2> DEFINE event == Head(channel)
  <2>1. event \in ReadyEvent /\ event.type = "ready" /\ (Frees(event) <=> event.next = {})
    BY <1>8, EventAtHand DEF HandleReady, Frees
  <2>2. \A w \in event.next : w \in Workers /\ worker[w].pc = "wait" /\ event.next = {w}
    <3>1. 1 \in DOMAIN channel /\ event = channel[1]  BY <1>0, <1>1, Removed
    <3> QED BY <1>0, <2>1, <3>1 DEF OfferInv, ReadyEvent
  <2>3. PICK s : /\ s # <<>> => waiting # <<>>
                 /\ \/ s = <<>> /\ waiting' = <<>> /\ EndWorker(event.next)
                    \/ /\ s # <<>> /\ waiting' = Tail(s) /\ active_lookups' = active_lookups
                       /\ \/ event.next = {} /\ Spawn(Head(s))
                          \/ \E w \in event.next : worker' = [worker EXCEPT
                               ![w] = [pc |-> "look", client |-> Head(s), rcpts |-> @.rcpts,
                                       failures |-> @.failures]]
    <3>1. PICK done, s : ReadyEffect(done, s)  BY <1>8, ReadyDoes
    <3> QED BY <3>1 DEF ReadyEffect
  <2> HIDE DEF event
  <2>4. ASSUME NEW w \in event.next, NEW r, worker' = [worker EXCEPT ![w] = r],
               r.pc \in {"look", "idle"}
        PROVE  /\ OfferInv' /\ IsFiniteSet(Busy') /\ Cardinality(Leaving') = Cardinality(Leaving)
               /\ Cardinality(Busy') = Cardinality(Busy) - (IF r.pc = "look" THEN 0 ELSE 1)
    <3>1. w \in Workers /\ worker[w].pc = "wait" /\ event.next = {w}  BY <2>2
    <3>2. worker'[w] = r /\ \A v \in Workers : v # w => worker'[v] = worker[v]
      BY <1>0, <2>4, <3>1
    <3>3. \A v \in Workers : /\ worker[v].pc = "wait" => worker'[v].pc = "wait" \/ v \in event.next
                             /\ worker'[v] = worker[v] \/ OffersItself(v)
      BY <2>4, <3>2 DEF OffersItself
    <3>4. OfferInv'  BY <1>0, <1>1, <2>1, <3>3, OffersReceived DEF event
    <3>5. /\ IsFiniteSet(Busy') /\ Cardinality(Busy) \in Nat /\ Cardinality(Busy') \in Nat
          /\ Cardinality(Busy') = Cardinality(Busy)
               - (IF worker[w].pc \in {"look", "answered", "wait"} THEN 1 ELSE 0)
               + (IF r.pc \in {"look", "answered", "wait"} THEN 1 ELSE 0)
      BY <1>0, <2>4, <3>1, BusyChanges
    <3>6. Cardinality(Leaving') = Cardinality(Leaving)
      BY <1>0, <1>2, <2>1, <3>1 DEF event
    <3> QED BY <2>4, <3>1, <3>4, <3>5, <3>6
  <2>5. CASE s = <<>> /\ waiting' = <<>> /\ EndWorker(event.next)
    <3>1. active_lookups' = active_lookups - 1  BY <2>5 DEF EndWorker
    <3>2. /\ OfferInv' /\ IsFiniteSet(Busy')
          /\ active_lookups' = Cardinality(Busy') + Cardinality(Leaving')
      <4>1. CASE event.next = {}
        <5>1. worker' = worker
          <6>1. worker' = [v \in Workers |-> worker[v]]  BY <2>5, <4>1 DEF EndWorker
          <6>2. worker = [v \in Workers |-> worker[v]]  BY DEF LookupsType
          <6> QED BY <6>1, <6>2
        <5>2. Frees(Head(channel))  BY <2>1, <4>1 DEF event
        <5> QED BY <1>0, <1>2, <1>4, <3>1, <5>1, <5>2 DEF SlotsExact
      <4>2. ASSUME NEW w \in event.next
            PROVE  /\ OfferInv' /\ IsFiniteSet(Busy')
                   /\ active_lookups' = Cardinality(Busy') + Cardinality(Leaving')
        <5>1. event.next = {w} /\ w \in Workers  BY <2>2
        <5>2. worker' = [worker EXCEPT ![w] = Idle]
          <6>1. worker' = [v \in Workers |-> IF v = w THEN Idle ELSE worker[v]]
            BY <2>5, <5>1 DEF EndWorker
          <6> QED BY <6>1 DEF LookupsType
        <5>3. Idle.pc = "idle"  BY DEF Idle
        <5>4. /\ OfferInv' /\ IsFiniteSet(Busy') /\ Cardinality(Leaving') = Cardinality(Leaving)
              /\ Cardinality(Busy') = Cardinality(Busy) - 1
          BY <2>4, <5>2, <5>3
        <5> QED BY <1>0, <3>1, <5>4 DEF SlotsExact
      <4> QED BY <4>1, <4>2
    <3> QED BY <1>0, <2>5, <3>1, <3>2 DEF SlotsInv, SlotsExact
  <2>6. CASE s # <<>> /\ active_lookups' = active_lookups
    <3>1. waiting # <<>>  BY <2>3, <2>6
    <3>2. CASE event.next = {} /\ Spawn(Head(s))
      <4>1. Frees(Head(channel))  BY <2>1, <3>2 DEF event
      <4> QED BY <1>6, <2>6, <3>1, <3>2, <4>1
    <3>3. ASSUME NEW w \in event.next,
                 worker' = [worker EXCEPT
                   ![w] = [pc |-> "look", client |-> Head(s), rcpts |-> @.rcpts,
                           failures |-> @.failures]]
          PROVE  SlotsInv'
      <4> DEFINE r == [pc |-> "look", client |-> Head(s), rcpts |-> worker[w].rcpts,
                       failures |-> worker[w].failures]
      <4>1. worker' = [worker EXCEPT ![w] = r] /\ r.pc = "look"  BY <3>3
      <4> HIDE DEF r
      <4>2. /\ OfferInv' /\ IsFiniteSet(Busy') /\ Cardinality(Leaving') = Cardinality(Leaving)
            /\ Cardinality(Busy') = Cardinality(Busy)
        <5>1. /\ OfferInv' /\ IsFiniteSet(Busy') /\ Cardinality(Leaving') = Cardinality(Leaving)
              /\ Cardinality(Busy') = Cardinality(Busy) - (IF r.pc = "look" THEN 0 ELSE 1)
          BY <2>4, <4>1, Zenon
        <5> QED BY <1>0, <4>1, <5>1
      <4>3. active_lookups' = MaxConcurrent  BY <1>0, <2>6, <3>1 DEF SlotsExact
      <4> QED BY <1>0, <2>6, <4>2, <4>3 DEF SlotsInv, SlotsExact
    <3> QED BY <2>3, <2>6, <3>2, <3>3
  <2> QED BY <2>3, <2>5, <2>6
<1> QED BY <1>5, <1>7, <1>8 DEF Task

-----------------------------------------------------------------------------
(* Theorems                                                                *)

\* At the start nothing is asked.
LEMMA LookupsInit ==
  ASSUME LookupsAssumption, Init
  PROVE  LookupsInv
<1>1. PICK item \in Items : client = [c \in Clients |-> [pc |-> "idle", item |-> item, answer |-> "none"]]
  BY DEF Init, LookupsAssumption
<1>2. /\ DOMAIN channel = {} /\ DOMAIN waiting = {} /\ channel \in Seq(Events)
      /\ waiting \in Seq(Clients) /\ DOMAIN cache_pos = {} /\ DOMAIN cache_neg = {}
      /\ waiting = <<>> /\ active_lookups = 0
  BY DEF Init
<1>3. worker = [w \in Workers |-> Idle] /\ Idle.pc = "idle"  BY DEF Init, Idle
<1>4. LookupsType
  <2>1. client \in [Clients -> Client]  BY <1>1 DEF Client
  <2>2. said \in [Items -> SUBSET Answers] /\ clock \in Nat  BY DEF Init
  <2> QED BY <1>2, <1>3, <2>1, <2>2 DEF LookupsType
<1>5. PlaceInv
  <2>1. ASSUME NEW c \in Clients  PROVE PlaceOf(c)
    <3>1. client[c].pc = "idle" /\ \A w \in Workers : ~Serves(worker[w], c)
      BY <1>1, <1>3 DEF Serves
    <3> QED BY <1>2, <3>1 DEF PlaceOf, InChannel, InQueue, InWorker, OnceInChannel, OnceInQueue,
                              OnceInWorker
  <2> QED BY <2>1 DEF PlaceInv
<1>6. SaidInv
  <2>1. \A c \in Clients : client[c].answer = "none"  BY <1>1
  <2> QED BY <1>2, <1>3, <2>1 DEF SaidInv, OwnAnswer
<1>7. SlotsInv
  <2>1. Busy = {} /\ Leaving = {}  BY <1>2, <1>3 DEF Busy, Leaving
  <2>2. IsFiniteSet({}) /\ Cardinality({}) = 0  BY FS_EmptySet
  <2>3. OfferInv  BY <1>2, <1>3 DEF OfferInv, Offer
  <2>4. SlotsExact  BY <1>2, <2>1, <2>2 DEF SlotsExact, LookupsAssumption
  <2> QED BY <2>1, <2>2, <2>3, <2>4 DEF SlotsInv
<1> QED BY <1>4, <1>5, <1>6, <1>7 DEF LookupsInv

\* Every step keeps the invariant.
LEMMA LookupsStep ==
  ASSUME LookupsAssumption, LookupsInv, [Next]_vars
  PROVE  LookupsInv'
<1>0. LookupsType /\ PlaceInv /\ SaidInv /\ SlotsInv /\ OfferInv
  BY DEF LookupsInv, SlotsInv
<1>1. CASE Task
  <2>1. LookupsType'  BY <1>0, <1>1, TaskTypes
  <2>2. PlaceInv'
    <3>1. ASSUME NEW d \in Clients  PROVE PlaceOf(d)'  BY <1>0, <1>1, TaskPlaces
    <3> QED BY <3>1 DEF PlaceInv
  <2>3. SaidInv'  BY <1>0, <1>1, TaskSaid, SaidKept
  <2>4. SlotsInv'  BY <1>0, <1>1, TaskSlots
  <2> QED BY <2>1, <2>2, <2>3, <2>4 DEF LookupsInv
<1>2. ASSUME NEW c \in Clients, SqlAnswer(c) \/ \E item \in Items : Ask(c, item)
      PROVE  LookupsInv'
  <2>1. LookupsType'  BY <1>0, <1>2, ClientTypes
  <2>2. PlaceInv'
    <3>1. ASSUME NEW d \in Clients  PROVE PlaceOf(d)'  BY <1>0, <1>2, ClientPlaces
    <3> QED BY <3>1 DEF PlaceInv
  <2>3. SaidInv'  BY <1>0, <1>2, ClientSaid, SaidKept
  <2>4. SlotsInv'  BY <1>0, <1>2, ClientSlots
  <2> QED BY <2>1, <2>2, <2>3, <2>4 DEF LookupsInv
<1>3. ASSUME NEW w \in Workers, WorkerStep(w)  PROVE LookupsInv'
  <2>1. LookupsType'  BY <1>0, <1>3, WorkerStepTypes
  <2>2. PlaceInv'
    <3>1. ASSUME NEW d \in Clients  PROVE PlaceOf(d)'  BY <1>0, <1>3, WorkerPlaces
    <3> QED BY <3>1 DEF PlaceInv
  <2>3. SaidInv'  BY <1>0, <1>3, WorkerSaid, SaidKept
  <2>4. SlotsInv'  BY <1>0, <1>3, WorkerSlots
  <2> QED BY <2>1, <2>2, <2>3, <2>4 DEF LookupsInv
<1>4. CASE Pass \/ UNCHANGED vars
  <2>1. UNCHANGED <<protocol, cache_pos, cache_neg, channel, waiting, active_lookups, client,
                    worker, said>>
    BY <1>4 DEF Pass, vars, cache
  <2>2. clock' \in Nat  BY <1>0, <1>4 DEF Pass, vars, LookupsType
  <2>3. LookupsType'  BY <1>0, <2>1, <2>2 DEF LookupsType
  <2>4. PlaceInv'
    <3>1. ASSUME NEW d \in Clients  PROVE PlaceOf(d)'
      <4>1. PlaceOf(d)  BY <1>0 DEF PlaceInv
      <4> QED BY <2>1, <4>1, SamePlaces DEF PlaceOf
    <3> QED BY <3>1 DEF PlaceInv
  <2>5. SaidInv'
    <3>1. SaidStep  BY <2>1 DEF SaidStep
    <3> QED BY <1>0, <3>1, SaidKept
  <2>6. SlotsInv'
    <3>1. Busy' = Busy /\ Leaving' = Leaving  BY <2>1 DEF Busy, Leaving
    <3>2. OfferInv'  BY <1>0, <2>1, OffersSame
    <3> QED BY <1>0, <2>1, <3>1, <3>2 DEF SlotsInv, SlotsExact
  <2> QED BY <2>3, <2>4, <2>5, <2>6 DEF LookupsInv
<1> QED BY <1>1, <1>2, <1>3, <1>4 DEF Next

\* The invariant holds in every reachable state, whatever the number of clients,
\* workers and slots and the kind of host.
THEOREM LookupsReachable == Spec => []LookupsInv
<1>1. Init => LookupsInv  BY LookupsInit, LookupsAssumption
<1>2. LookupsInv /\ [Next]_vars => LookupsInv'  BY LookupsStep, LookupsAssumption
<1> QED BY <1>1, <1>2, PTL DEF Spec

\* RemoteHost::run counts its slots exactly: each one in use is held by a worker
\* or by the event that will free it, they never exceed the configured
\* concurrency, and a lookup waits only while all of them are taken.
THEOREM SlotsAreExact == Spec => []SlotsExact
<1>1. LookupsInv => SlotsExact  BY DEF LookupsInv, SlotsInv
<1> QED BY <1>1, LookupsReachable, PTL

\* A client gets an answer that the host gave for the very item it asked about,
\* whether from the host or through the cache, or none.
THEOREM AnswersAreOwn == Spec => []OwnAnswer
<1>1. LookupsInv => OwnAnswer  BY DEF LookupsInv, SaidInv
<1> QED BY <1>1, LookupsReachable, PTL

\* The number of elements of a set that has one at most.
LEMMA AtMostOne ==
  ASSUME NEW S, \A x, y \in S : x = y
  PROVE  Cardinality(S) = IF S = {} THEN 0 ELSE 1
<1>1. CASE S = {}  BY <1>1, FS_EmptySet
<1>2. CASE S # {}
  <2>1. PICK x : S = {x}  BY <1>2
  <2> QED BY <1>2, <2>1, FS_Singleton
<1> QED BY <1>1, <1>2

\* A lookup that waits for an answer is in exactly one place: in the channel, in
\* the task's queue, with a worker, or with the session that queries a database.
\* It is neither forgotten nor answered twice.
THEOREM LookupInOnePlace == Spec => []OnePlace
<1>1. ASSUME LookupsType, PlaceInv  PROVE OnePlace
  <2> SUFFICES ASSUME NEW c \in Clients
               PROVE  Cardinality({i \in DOMAIN channel : /\ channel[i].type = "lookup"
                                                          /\ channel[i].client = c})
                      + Cardinality({i \in DOMAIN waiting : waiting[i] = c})
                      + Cardinality({w \in Workers : /\ worker[w].pc \in {"look", "late"}
                                                     /\ worker[w].client = c})
                      + (IF protocol = "sql" /\ client[c].pc = "asking" THEN 1 ELSE 0)
                      = IF client[c].pc = "asking" THEN 1 ELSE 0
    BY DEF OnePlace
  <2> DEFINE A == {i \in DOMAIN channel : channel[i].type = "lookup" /\ channel[i].client = c}
             B == {i \in DOMAIN waiting : waiting[i] = c}
             C == {w \in Workers : worker[w].pc \in {"look", "late"} /\ worker[w].client = c}
  <2>1. PlaceOf(c)  BY <1>1 DEF PlaceInv
  <2>2. /\ A # {} <=> InChannel(c)
        /\ B # {} <=> InQueue(c)
        /\ C # {} <=> InWorker(c)
    BY DEF InChannel, InQueue, InWorker, Asks, Serves
  <2>3. /\ \A x, y \in A : x = y
        /\ \A x, y \in B : x = y
        /\ \A x, y \in C : x = y
    BY <2>1 DEF PlaceOf, OnceInChannel, OnceInQueue, OnceInWorker, Asks, Serves
  <2> HIDE DEF A, B, C
  <2>4. /\ Cardinality(A) = IF A = {} THEN 0 ELSE 1
        /\ Cardinality(B) = IF B = {} THEN 0 ELSE 1
        /\ Cardinality(C) = IF C = {} THEN 0 ELSE 1
    BY <2>3, AtMostOne
  <2>5. Cardinality(A) + Cardinality(B) + Cardinality(C)
        + (IF protocol = "sql" /\ client[c].pc = "asking" THEN 1 ELSE 0)
        = IF client[c].pc = "asking" THEN 1 ELSE 0
    BY <2>1, <2>2, <2>4 DEF PlaceOf
  <2> QED BY <2>5 DEF A, B, C
<1>2. LookupsInv => OnePlace  BY <1>1 DEF LookupsInv
<1> QED BY <1>2, LookupsReachable, PTL
=============================================================================
