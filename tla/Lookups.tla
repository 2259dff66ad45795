------------------------------ MODULE Lookups ------------------------------
(***************************************************************************)
(* Lookups of accounts and credentials (lookup/): the task that owns a     *)
(* remote host's cache, queue and slots, the SMTP and IMAP workers that    *)
(* ask the host, and SQL lookups, which share the cache under a mutex.     *)
(*                                                                         *)
(* The kind of host is chosen at the start.  Abstracted: the commands that *)
(* make up a lookup and the order of eviction from a full cache.  The      *)
(* events Stop and Reload are handled by the task but never sent.          *)
(***************************************************************************)
EXTENDS Naturals, Sequences, FiniteSets

CONSTANTS
  Clients,         \* the sessions that ask
  Items,           \* what may be asked
  KindOf,          \* Item: "account", "auth" or "verify" (VRFY and EXPN); a bearer
                   \* token is looked up in a database like an account
  Protocols,       \* "smtp", "imap", "sql"
  MaxConcurrent,   \* concurrency: the slots
  MaxRequests,     \* max_rcpt
  MaxErrors,       \* max_auth_errors
  Capacity,        \* cache_entries
  TtlPos, TtlNeg,
  MaxTime,         \* bound on time
  MaxLookups,      \* bound on the number of lookups
  Workers          \* names for the workers that run at one time

ASSUME LookupsAssumption ==
  /\ Items # {} /\ KindOf \in [Items -> {"account", "auth", "verify"}]
  /\ Protocols \subseteq {"smtp", "imap", "sql"}
  /\ MaxConcurrent \in Nat \ {0} /\ MaxRequests \in Nat /\ MaxErrors \in Nat
  /\ Capacity \in Nat /\ TtlPos \in Nat /\ TtlNeg \in Nat
  /\ MaxTime \in Nat /\ MaxLookups \in Nat

VARIABLES
  protocol,
  clock,
  cache_pos, cache_neg,  \* LookupCache: item -> valid_until
  channel,         \* the mpsc channel of the task
  waiting,         \* LookupItems in the task's queue, by client
  active_lookups,
  client,          \* what each client waits for, and the last answer it got
  worker,          \* the workers
  said,            \* the answers a host gave for each item
  lookups

cache == <<cache_pos, cache_neg>>
vars == <<protocol, clock, cache, channel, waiting, active_lookups, client, worker, said,
          lookups>>

Idle == [pc |-> "idle"]
Fresh(c) == [pc |-> "look", client |-> c, rcpts |-> 0, failures |-> 0]
ItemOf(c) == client[c].item

\* The answers a host may give to an item.
PossibleAnswers(item) ==
  IF KindOf[item] = "verify" THEN {"values", "false"} ELSE {"true", "false"}

-----------------------------------------------------------------------------
(* LookupCache                                                             *)

\* get on a cache of positive answers pos and one of negative answers neg
Cached(pos, neg, item) ==
  IF item \in DOMAIN pos /\ pos[item] >= clock THEN {"true"}
  ELSE IF item \in DOMAIN neg /\ neg[item] >= clock THEN {"false"}
  ELSE {}

\* What get leaves of the positive answers when it is asked for items: those
\* that have expired are removed.  One that has expired in the cache of negative
\* answers stays there until it is replaced.
Forget(pos, items) ==
  [i \in {j \in DOMAIN pos : j \in items => pos[j] >= clock} |-> pos[i]]

\* The caches that may result from the insertion of an item.
Inserted(entries, item, until) ==
  LET all == [i \in DOMAIN entries \cup {item} |-> IF i = item THEN until ELSE entries[i]]
      keep == {kept \in SUBSET DOMAIN all : /\ item \in kept
                                            /\ Cardinality(kept) <= Capacity
                                            /\ DOMAIN all = kept \/ Cardinality(kept) = Capacity}
  IN {[i \in kept |-> all[i]] : kept \in keep}

\* Fault: a list of values is cached as a positive answer.
InsertValues(item, answer) ==
  IF answer # "false" THEN Inserted(cache_pos, item, clock + TtlPos) ELSE {cache_pos}

insert_pos(item, answer) ==
  IF answer = "true" THEN Inserted(cache_pos, item, clock + TtlPos) ELSE {cache_pos}

insert_neg(item, answer) ==
  IF answer = "false" THEN Inserted(cache_neg, item, clock + TtlNeg) ELSE {cache_neg}

-----------------------------------------------------------------------------
Init ==
  /\ protocol \in Protocols
  /\ clock = 0
  /\ cache_pos = <<>> /\ cache_neg = <<>>
  /\ channel = <<>> /\ waiting = <<>> /\ active_lookups = 0
  /\ client \in {[c \in Clients |-> [pc |-> "idle", item |-> i, answer |-> "none"]] :
                   i \in {CHOOSE i \in Items : TRUE}}
  /\ worker = [w \in Workers |-> Idle]
  /\ said = [i \in Items |-> {}]
  /\ lookups = 0

Pass ==
  /\ clock < MaxTime
  /\ clock' = clock + 1
  /\ UNCHANGED <<protocol, cache, channel, waiting, active_lookups, client, worker, said,
                 lookups>>

\* The clients after the answers in ans, a function on the clients answered.
Answered(ans) ==
  [c \in Clients |-> IF c \in DOMAIN ans
                     THEN [client[c] EXCEPT !.pc = "idle", !.answer = ans[c]]
                     ELSE client[c]]

\* lookup.result.send: one client is answered.
Reply(c, answer) == client' = Answered([d \in {c} |-> answer])

\* LookupChannel::lookup, or a query of the database up to its look at the
\* cache, which only SqlQuery::exists has.
Ask(c, item) ==
  /\ client[c].pc = "idle" /\ lookups < MaxLookups
  /\ lookups' = lookups + 1
  /\ LET hit == IF KindOf[item] = "account" THEN Cached(cache_pos, cache_neg, item) ELSE {}
     IN \/ /\ protocol # "sql"
           /\ client' = [client EXCEPT ![c] = [@ EXCEPT !.pc = "asking", !.item = item]]
           /\ channel' = Append(channel, [type |-> "lookup", client |-> c])
           /\ UNCHANGED cache_pos
        \/ /\ protocol = "sql"
           /\ client' = [client EXCEPT
                ![c] = IF hit = {} THEN [@ EXCEPT !.pc = "asking", !.item = item]
                       ELSE [pc |-> "idle", item |-> item, answer |-> CHOOSE a \in hit : TRUE]]
           /\ cache_pos' = IF KindOf[item] = "account" THEN Forget(cache_pos, {item})
                           ELSE cache_pos
           /\ UNCHANGED channel
  /\ UNCHANGED <<protocol, clock, cache_neg, waiting, active_lookups, worker, said>>

\* The rest of exists, fetch_one or fetch_many: the query answers, or fails.
SqlAnswer(c) ==
  /\ protocol = "sql" /\ client[c].pc = "asking"
  /\ \/ \E answer \in PossibleAnswers(ItemOf(c)) :
          /\ said' = [said EXCEPT ![ItemOf(c)] = @ \cup {answer}]
          /\ \/ /\ KindOf[ItemOf(c)] = "account"
                /\ cache_pos' \in insert_pos(ItemOf(c), answer)
                /\ cache_neg' \in insert_neg(ItemOf(c), answer)
             \/ KindOf[ItemOf(c)] # "account" /\ UNCHANGED cache
          /\ Reply(c, answer)
     \/ /\ Reply(c, "none")
        /\ UNCHANGED <<said, cache>>
  /\ UNCHANGED <<protocol, clock, channel, waiting, active_lookups, worker, lookups>>

-----------------------------------------------------------------------------
(* RemoteHost::run, one event at a time                                    *)

Event(type) == channel # <<>> /\ Head(channel).type = type /\ channel' = Tail(channel)

\* spawn_lookup for client c
Spawn(c) ==
  \E w \in Workers : worker[w].pc = "idle" /\ worker' = [worker EXCEPT ![w] = Fresh(c)]

\* Fault: a lookup that finds its answer in the cache takes a slot.
SlotThenCache ==
  /\ Event("lookup")
  /\ LET c == Head(channel).client
         hit == Cached(cache_pos, cache_neg, ItemOf(c))
     IN /\ active_lookups' = active_lookups + 1
        /\ \/ /\ hit # {}
              /\ Reply(c, CHOOSE a \in hit : TRUE)
              /\ UNCHANGED worker
           \/ hit = {} /\ Spawn(c) /\ UNCHANGED client
  /\ UNCHANGED <<protocol, clock, cache, waiting, said, lookups>>

HandleLookup ==
  /\ Event("lookup")
  /\ LET c == Head(channel).client
         hit == Cached(cache_pos, cache_neg, ItemOf(c))
     IN /\ cache_pos' = Forget(cache_pos, {ItemOf(c)})
        /\ \/ /\ hit # {}
              /\ Reply(c, CHOOSE a \in hit : TRUE)
              /\ UNCHANGED <<active_lookups, worker, waiting>>
           \/ /\ hit = {} /\ active_lookups < MaxConcurrent
              /\ active_lookups' = active_lookups + 1
              /\ Spawn(c)
              /\ UNCHANGED <<client, waiting>>
           \/ /\ hit = {} /\ active_lookups >= MaxConcurrent
              /\ waiting' = Append(waiting, c)
              /\ UNCHANGED <<client, active_lookups, worker>>
  /\ UNCHANGED <<protocol, clock, cache_neg, said, lookups>>

\* The lookups at the front of the queue that the caches pos and neg answer.
AnswerableLookups(pos, neg) ==
  {i \in DOMAIN waiting : \A j \in 1..i : Cached(pos, neg, ItemOf(waiting[j])) # {}}

\* Fault: a connection that can be reused is kept open, with its slot.
KeepWorker(next) ==
  /\ active_lookups' = IF next = {} THEN active_lookups - 1 ELSE active_lookups
  /\ UNCHANGED worker

\* There is no lookup left for the slot, nor for the worker that offers to reuse
\* its connection.
EndWorker(next) ==
  /\ active_lookups' = active_lookups - 1
  /\ worker' = [w \in Workers |-> IF w \in next THEN Idle ELSE worker[w]]

\* Event::WorkerReady: the answer is cached, queued lookups it answers are
\* answered, and the next one goes to the worker, or to a new one.
HandleReady ==
  /\ Event("ready")
  /\ \E pos \in insert_pos(Head(channel).item, Head(channel).answer),
        neg \in insert_neg(Head(channel).item, Head(channel).answer) :
       LET hits == AnswerableLookups(pos, neg)
           looked_at == {i \in DOMAIN waiting : i <= Cardinality(hits) + 1}
           rest == SubSeq(waiting, Cardinality(hits) + 1, Len(waiting))
           next == Head(channel).next
       IN /\ cache_pos' = Forget(pos, {ItemOf(waiting[i]) : i \in looked_at})
          /\ cache_neg' = neg
          /\ client' = Answered([c \in {waiting[i] : i \in hits} |->
                                   CHOOSE a \in Cached(pos, neg, ItemOf(c)) : TRUE])
          /\ \/ /\ rest = <<>>
                /\ waiting' = <<>>
                /\ EndWorker(next)
             \/ /\ rest # <<>>
                /\ waiting' = Tail(rest)
                /\ \/ next = {} /\ Spawn(Head(rest))
                   \/ \E w \in next : worker' = [worker EXCEPT
                         ![w] = [pc |-> "look", client |-> Head(rest), rcpts |-> @.rcpts,
                                 failures |-> @.failures]]
                /\ UNCHANGED active_lookups
  /\ UNCHANGED <<protocol, clock, said, lookups>>

\* Fault: the lookup given to the new worker stays in the queue.
FailedKeepsHead ==
  /\ Event("failed")
  /\ \/ waiting = <<>> /\ active_lookups' = active_lookups - 1 /\ UNCHANGED worker
     \/ waiting # <<>> /\ Spawn(Head(waiting)) /\ UNCHANGED active_lookups
  /\ UNCHANGED <<protocol, clock, cache, waiting, client, said, lookups>>

\* Event::WorkerFailed
HandleFailed ==
  /\ Event("failed")
  /\ \/ /\ waiting = <<>>
        /\ active_lookups' = active_lookups - 1
        /\ UNCHANGED <<waiting, worker>>
     \/ /\ waiting # <<>>
        /\ Spawn(Head(waiting)) /\ waiting' = Tail(waiting)
        /\ UNCHANGED active_lookups
  /\ UNCHANGED <<protocol, clock, cache, client, said, lookups>>

-----------------------------------------------------------------------------
(* Workers                                                                 *)

Ready(c, answer, next) ==
  [type |-> "ready", item |-> ItemOf(c), answer |-> answer, next |-> next]

\* lookup_smtp: the client is answered; whether the connection can serve another
\* lookup depends on what it was used for.
SmtpAnswer(w) ==
  /\ protocol = "smtp" /\ worker[w].pc = "look"
  /\ LET c == worker[w].client
         kind == KindOf[ItemOf(c)]
     IN \E answer \in PossibleAnswers(ItemOf(c)) :
          LET rcpts == worker[w].rcpts + IF kind = "account" /\ answer = "true" THEN 1 ELSE 0
              failures == worker[w].failures + IF kind = "auth" /\ answer = "false" THEN 1 ELSE 0
              reusable == \/ kind = "account" /\ rcpts < MaxRequests
                          \/ kind = "auth" /\ answer = "false" /\ failures < MaxErrors
                          \/ kind = "verify"
          IN /\ said' = [said EXCEPT ![ItemOf(c)] = @ \cup {answer}]
             /\ Reply(c, answer)
             /\ worker' = [worker EXCEPT
                  ![w] = [pc |-> "answered", rcpts |-> rcpts, failures |-> failures,
                          event |-> Ready(c, answer, IF reusable THEN {w} ELSE {})]]
  /\ UNCHANGED <<protocol, clock, cache, channel, waiting, active_lookups, lookups>>

\* An error: the client's sender is dropped, and it gets no answer.
Fail(w) ==
  /\ worker[w].pc = "look"
  /\ Reply(worker[w].client, "none")
  /\ worker' = [worker EXCEPT ![w] = [pc |-> "answered", event |-> [type |-> "failed"]]]
  /\ UNCHANGED <<protocol, clock, cache, channel, waiting, active_lookups, said, lookups>>

\* The worker sends its event, and waits if it has offered its connection.
SendEvent(w) ==
  /\ worker[w].pc = "answered"
  /\ LET event == worker[w].event
         offers == event.type = "ready" /\ event.next # {}
     IN /\ channel' = Append(channel, event)
        /\ worker' = [worker EXCEPT
             ![w] = IF offers THEN [pc |-> "wait", rcpts |-> @.rcpts, failures |-> @.failures]
                    ELSE Idle]
  /\ UNCHANGED <<protocol, clock, cache, waiting, active_lookups, client, said, lookups>>

\* The answers to a lookup that authenticate's result gives: accepted, refused or
\* (not here) an answer it does not understand, which is a failure.
authenticate == {"true", "false"}

\* ImapAuthClientBuilder::lookup: the event is sent before the client is
\* answered, and the slot may already be in use again by then.  An item other
\* than credentials, or no mechanism in common, is a failure without an error.
ImapReady(w) ==
  /\ protocol = "imap" /\ worker[w].pc = "look"
  /\ LET c == worker[w].client
         Send(event, answer) ==
           /\ channel' = Append(channel, event)
           /\ worker' = [worker EXCEPT ![w] = [pc |-> "late", client |-> c, answer |-> answer]]
     IN \/ /\ Send([type |-> "failed"], "none")
           /\ UNCHANGED said
        \/ /\ KindOf[ItemOf(c)] = "auth"
           /\ \E answer \in authenticate :
                /\ said' = [said EXCEPT ![ItemOf(c)] = @ \cup {answer}]
                /\ Send(Ready(c, answer, {}), answer)
  /\ UNCHANGED <<protocol, clock, cache, waiting, active_lookups, client, lookups>>

ImapAnswer(w) ==
  /\ worker[w].pc = "late"
  /\ Reply(worker[w].client, worker[w].answer)
  /\ worker' = [worker EXCEPT ![w] = Idle]
  /\ UNCHANGED <<protocol, clock, cache, channel, waiting, active_lookups, said, lookups>>

-----------------------------------------------------------------------------
Task == HandleLookup \/ HandleReady \/ HandleFailed
WorkerStep(w) == SmtpAnswer(w) \/ Fail(w) \/ SendEvent(w) \/ ImapReady(w) \/ ImapAnswer(w)

Next ==
  \/ Pass \/ Task
  \/ \E c \in Clients : SqlAnswer(c) \/ \E item \in Items : Ask(c, item)
  \/ \E w \in Workers : WorkerStep(w)

Spec == Init /\ [][Next]_vars

\* The task handles its events, queries and SMTP commands end or time out.  An
\* IMAP worker reads the answer to AUTHENTICATE without a timeout, so only its
\* other steps are fair.
FairSpec ==
  /\ Spec /\ WF_vars(Task)
  /\ \A c \in Clients : WF_vars(SqlAnswer(c))
  /\ \A w \in Workers : /\ WF_vars(protocol = "smtp" /\ WorkerStep(w))
                        /\ WF_vars(SendEvent(w)) /\ WF_vars(ImapAnswer(w))

-----------------------------------------------------------------------------
(* Properties                                                              *)

Busy == {w \in Workers : worker[w].pc \in {"look", "answered", "wait"}}
Leaving ==
  {i \in DOMAIN channel : \/ channel[i].type = "failed"
                          \/ channel[i].type = "ready" /\ channel[i].next = {}}

\* Every slot in use is held by a worker or by the event that will free it, and
\* there are never more than the configured concurrency: no slot is lost when a
\* connection is reused, fails, or a queued lookup takes it over.  Lookups wait
\* in the queue only while all slots are taken.
SlotsExact ==
  /\ active_lookups = Cardinality(Busy) + Cardinality(Leaving)
  /\ active_lookups <= MaxConcurrent
  /\ waiting # <<>> => active_lookups = MaxConcurrent

\* A lookup that waits for an answer is in exactly one place, so that it is
\* neither forgotten nor answered twice.
OnePlace ==
  \A c \in Clients :
    Cardinality({i \in DOMAIN channel : channel[i].type = "lookup" /\ channel[i].client = c})
    + Cardinality({i \in DOMAIN waiting : waiting[i] = c})
    + Cardinality({w \in Workers : worker[w].pc \in {"look", "late"} /\ worker[w].client = c})
    + (IF protocol = "sql" /\ client[c].pc = "asking" THEN 1 ELSE 0)
    = IF client[c].pc = "asking" THEN 1 ELSE 0

\* A client gets an answer the host gave for the very item it asked about, from
\* the host or from the cache, or none.
OwnAnswer ==
  \A c \in Clients : client[c].pc = "idle" =>
    client[c].answer \in said[client[c].item] \cup {"none"}

\* Every lookup is answered, unless an IMAP host falls silent.
AllAnswered ==
  \A c \in Clients : (client[c].pc = "asking" /\ protocol # "imap") ~> client[c].pc = "idle"
=============================================================================
