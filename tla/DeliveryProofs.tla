--------------------------- MODULE DeliveryProofs ---------------------------
(***************************************************************************)
(* The life of a queued message, for any recipients and domains, any       *)
(* number of attempts, crashes, lost replies and cancellations.            *)
(***************************************************************************)
EXTENDS Delivery, TLAPS

-----------------------------------------------------------------------------
(* The inductive invariant                                                 *)

Recipient == [status : Status, flags : SUBSET {"changed", "dsn_sent"}]
Domain == [status : Status, changed : BOOLEAN]
File == [domains : [Domains -> Status], recipients : [Rcpts -> Recipient]]
Counts == [Rcpts -> Nat]

TypeInv ==
  /\ domains \in [Domains -> Domain] /\ recipients \in [Rcpts -> Recipient]
  /\ notify \in [Rcpts -> NotifyOptions] /\ todo \in SUBSET Domains
  /\ file \in SUBSET File
  /\ delivered \in Counts /\ failed_dsn \in Counts /\ success_dsn \in Counts
  /\ crashes \in Nat /\ lost \in Nat /\ errors \in Nat /\ cancels \in Nat

\* A task visits only domains with something to deliver.
VisitInv == pc = "run" => \A d \in todo : Pending(domains[d].status)

\* A second delivery, or report, needs a crash or a lost reply that hid the first.
OnceInv ==
  \A r \in Rcpts :
    LET done == IF Pending(recipients[r].status) THEN 0 ELSE 1
        sent == IF "dsn_sent" \in recipients[r].flags THEN 1 ELSE 0
    IN /\ delivered[r] <= crashes + lost + done
       /\ failed_dsn[r] <= crashes + sent
       /\ success_dsn[r] <= crashes + sent

\* A completed recipient has the message or was cancelled, in memory and on disk.
Completed(r) == delivered[r] > 0 \/ r \in cancelled

CompletedInv ==
  \A r \in Rcpts : /\ recipients[r].status = "completed" => Completed(r)
                   /\ \A f \in file : f.recipients[r].status = "completed" => Completed(r)
                   /\ success_dsn[r] > 0 => Completed(r)

\* Until a crash or a lost reply, what was delivered is completed and what was
\* reported as failed is never visited again.
HonestInv ==
  crashes + lost = 0 =>
    \A r \in Rcpts : /\ delivered[r] > 0 => recipients[r].status = "completed"
                     /\ failed_dsn[r] > 0 =>
                          /\ delivered[r] = 0
                          /\ \/ ~Pending(recipients[r].status)
                             \/ ~Pending(domains[DomainOf[r]].status)

\* What became of a recipient that failed was reported, or nobody wants to know.
Answered(r, rcpt) == "dsn_sent" \in rcpt.flags \/ "never" \in notify[r]

\* Failures are reported before they are saved.
AnsweredInv ==
  \A r \in Rcpts :
    /\ \A f \in file : f.recipients[r].status = "perm_fail" => Answered(r, f.recipients[r])
    /\ recipients[r].status = "perm_fail" =>
         \/ Answered(r, recipients[r])
         \/ pc \in {"run", "second_dsn"} /\ "changed" \in recipients[r].flags
         \/ pc = "first_dsn" /\ ~Pending(domains[DomainOf[r]].status)

\* What is not marked as changed is on disk; records carry no mark.
SavedInv ==
  /\ \A f \in file :
       /\ \A d \in Domains : ~domains[d].changed => f.domains[d] = domains[d].status
       /\ \A r \in Rcpts :
            /\ "changed" \notin f.recipients[r].flags
            /\ "changed" \notin recipients[r].flags /\ Pending(domains[DomainOf[r]].status)
                 => f.recipients[r] = recipients[r]
  /\ pc = "queued" => /\ \A d \in Domains : ~domains[d].changed
                      /\ \A r \in Rcpts : "changed" \notin recipients[r].flags

DeliveryInv ==
  TypeInv /\ VisitInv /\ OnceInv /\ CompletedInv /\ HonestInv /\ AnsweredInv /\ SavedInv

-----------------------------------------------------------------------------
(* Which failures are lost                                                 *)

\* A step that reports is still to come.
ReportDue == pc \in {"first_dsn", "run", "second_dsn"}

\* Whoever is flagged, in memory or on disk, is accounted for; so is a recipient of
\* a completed domain, unless its failure is still to be reported; so is a recipient
\* without an outcome of its own in a domain that failed, unless it is still to be
\* reported or a crash has just lost its outcome.
AccountOf(r) ==
  LET status == recipients[r].status
      domain == domains[DomainOf[r]].status
  IN /\ "dsn_sent" \in recipients[r].flags => Accounted(r)
     /\ domain = "completed" => Accounted(r) \/ (ReportDue /\ status = "perm_fail")
     /\ domain = "perm_fail" /\ status = "scheduled" /\ pc # "gone" =>
          Accounted(r) \/ ReportDue \/ (pc = "queued" /\ crashes > 0)
     /\ \A f \in file : /\ "dsn_sent" \in f.recipients[r].flags => Accounted(r)
                        /\ f.domains[DomainOf[r]] = "completed" => Accounted(r)
     /\ pc = "gone" =>
          \/ Accounted(r)
          \/ /\ domain = "perm_fail"
             /\ status = "temp_fail" \/ (status = "scheduled" /\ crashes > 0 /\ cancels > 0)

\* While every DSN could be written.
AccountInv == errors = 0 /\ return_path = "sender" => \A r \in Rcpts : AccountOf(r)

-----------------------------------------------------------------------------
(* What the steps do to a domain and to a recipient                        *)

\* The visit of a domain: it is marked as changed, and each of its pending
\* recipients keeps its status, perhaps with a delivery whose reply was lost, or
\* is marked as changed with its new one.
Undecided(d, r) ==
  /\ recipients'[r] = recipients[r]
  /\ \/ delivered'[r] = delivered[r]
     \/ /\ DomainOf[r] = d /\ Pending(recipients[r].status)
        /\ delivered'[r] = delivered[r] + 1 /\ lost' = lost + 1

Decided(d, r) ==
  /\ DomainOf[r] = d /\ Pending(recipients[r].status)
  /\ recipients'[r].flags = recipients[r].flags \cup {"changed"}
  /\ \/ recipients'[r].status = "temp_fail" /\ delivered'[r] = delivered[r]
     \/ recipients'[r].status = "perm_fail" /\ delivered'[r] = delivered[r]
     \/ recipients'[r].status = "completed" /\ delivered'[r] = delivered[r] + 1

VisitEffect(d) ==
  /\ pc = "run" /\ pc' = "run" /\ d \in todo /\ todo' = todo \ {d}
  /\ UNCHANGED <<fixed, file, failed_dsn, success_dsn, cancelled, crashes, errors, cancels>>
  /\ domains' \in [Domains -> Domain] /\ domains'[d].changed
  /\ \A e \in Domains : e # d => domains'[e] = domains[e]
  /\ recipients' \in [Rcpts -> Recipient] /\ delivered' \in Counts
  /\ lost' = lost \/ lost' = lost + 1
  /\ \A r \in Rcpts : Undecided(d, r) \/ Decided(d, r)
  /\ domains'[d].status = "completed" =>
       \A r \in RcptsOf(d) : ~Pending(recipients'[r].status)

\* The visit of a domain changes that domain and nothing else.
LEMMA VisitedEffect ==
  ASSUME TypeInv, NEW d \in Domains, NEW status \in Status, Visited(d, status)
  PROVE  /\ pc = "run" /\ pc' = "run" /\ d \in todo /\ todo' = todo \ {d}
         /\ UNCHANGED <<fixed, file, failed_dsn, success_dsn, cancelled, crashes, errors, cancels>>
         /\ domains' \in [Domains -> Domain]
         /\ domains'[d].changed /\ domains'[d].status = status
         /\ \A e \in Domains : e # d => domains'[e] = domains[e]
BY DEF TypeInv, Visited, Domain

\* The statuses that are assigned to pending recipients of a domain.
LEMMA AssignedEffect ==
  ASSUME TypeInv, NEW final, NEW D \in SUBSET Rcpts, DOMAIN final = D,
         \A r \in D : final[r] \in {"temp_fail", "perm_fail", "completed"},
         recipients' = Assigned(final)
  PROVE  /\ recipients' \in [Rcpts -> Recipient]
         /\ \A r \in Rcpts \ D : recipients'[r] = recipients[r]
         /\ \A r \in D : /\ recipients'[r].flags = recipients[r].flags \cup {"changed"}
                         /\ recipients'[r].status = final[r]
<1>1. \A r \in D : [status |-> final[r], flags |-> recipients[r].flags \cup {"changed"}] \in Recipient
  BY DEF TypeInv, Recipient, Status
<1> QED BY <1>1 DEF TypeInv, Assigned

\* The refusals of RCPT TO.
LEMMA RejectionsEffect ==
  ASSUME TypeInv, DeliveryAssumption, NEW d \in Domains, NEW named, named \subseteq PendingRcpts(d),
         NEW replies \in [named -> Replies], recipients' = Assigned(Rejections(replies))
  PROVE  /\ recipients' \in [Rcpts -> Recipient]
         /\ \A r \in Rcpts :
              \/ recipients'[r] = recipients[r]
              \/ /\ DomainOf[r] = d /\ Pending(recipients[r].status) /\ r \notin Accepted(replies)
                 /\ recipients'[r].flags = recipients[r].flags \cup {"changed"}
                 /\ \/ recipients'[r].status = "temp_fail"
                    \/ recipients'[r].status = "perm_fail"
         /\ \A r \in Accepted(replies) : recipients'[r] = recipients[r]
<1> DEFINE D == {q \in named : replies[q] # "ok"}
<1>1. D \subseteq Rcpts /\ \A r \in named : DomainOf[r] = d /\ Pending(recipients[r].status) /\ r \in Rcpts
  BY DEF PendingRcpts, RcptsOf
<1>2. Rejections(replies) = [r \in D |-> Negative(replies[r])]
  BY DEF Rejections
<1>3. \A r \in D : Negative(replies[r]) = "temp_fail" \/ Negative(replies[r]) = "perm_fail"
  <2>1. \A reply \in Replies : reply = "ok" \/ reply = "4xx" \/ reply = "5xx"
    BY DEF DeliveryAssumption
  <2>2. \A r \in D : replies[r] \in Replies /\ replies[r] # "ok"  OBVIOUS
  <2>3. ASSUME NEW r \in D
        PROVE  Negative(replies[r]) = "temp_fail" \/ Negative(replies[r]) = "perm_fail"
    <3>1. CASE replies[r] = "4xx"  BY <2>2, <3>1 DEF Negative
    <3>2. CASE replies[r] = "5xx"  BY <3>2 DEF Negative
    <3> QED BY <2>1, <2>2, <3>1, <3>2
  <2> QED BY <2>3
<1>4. /\ DOMAIN Rejections(replies) = D
      /\ \A r \in D : Rejections(replies)[r] \in {"temp_fail", "perm_fail", "completed"}
  BY <1>2, <1>3
<1>5. /\ recipients' \in [Rcpts -> Recipient]
      /\ \A r \in Rcpts \ D : recipients'[r] = recipients[r]
      /\ \A r \in D : /\ recipients'[r].flags = recipients[r].flags \cup {"changed"}
                      /\ recipients'[r].status = Rejections(replies)[r]
  <2> HIDE DEF D
  <2> QED BY <1>1, <1>4, AssignedEffect
<1>6. \A r \in Accepted(replies) : r \in Rcpts \ D
  BY <1>1 DEF Accepted
<1>7. \A r \in D : r \notin Accepted(replies)
  BY DEF Accepted
<1> QED BY <1>1, <1>2, <1>3, <1>5, <1>6, <1>7

\* Count adds one for each recipient in R.
LEMMA CountEffect ==
  ASSUME NEW counts \in Counts, NEW R
  PROVE  /\ Count(counts, R) \in Counts
         /\ \A r \in Rcpts : /\ r \in R => Count(counts, R)[r] = counts[r] + 1
                             /\ r \notin R => Count(counts, R)[r] = counts[r]
BY DEF Count, Counts

\* Every way a visit can end has the effect of a visit.
LEMMA VisitSteps ==
  ASSUME TypeInv, DeliveryAssumption, NEW d \in Domains,
         NotStarted(d) \/ Aborted(d) \/ DataRefused(d) \/ ReplyLost(d) \/ Transacted(d)
  PROVE  VisitEffect(d)
<1> USE DEF Status
<1>1. CASE NotStarted(d)
  <2>1. PICK status \in {"scheduled", "temp_fail", "perm_fail"} : Visited(d, status)
    BY <1>1 DEF NotStarted
  <2>2. UNCHANGED <<recipients, delivered, lost>>  BY <1>1 DEF NotStarted
  <2> QED BY <2>1, <2>2, VisitedEffect DEF VisitEffect, Undecided, TypeInv
<1>2. CASE Aborted(d)
  <2>0. PICK named \in SUBSET PendingRcpts(d) :
           \E replies \in [named -> Replies] : recipients' = Assigned(Rejections(replies))
    BY <1>2 DEF Aborted
  <2>1. PICK replies \in [named -> Replies] : recipients' = Assigned(Rejections(replies))
    BY <2>0
  <2>2. Visited(d, "temp_fail") /\ UNCHANGED <<delivered, lost>>  BY <1>2 DEF Aborted
  <2>3. /\ recipients' \in [Rcpts -> Recipient]
        /\ \A r \in Rcpts : Undecided(d, r) \/ Decided(d, r)
    BY <2>1, <2>2, RejectionsEffect DEF Undecided, Decided
  <2> QED BY <2>2, <2>3, VisitedEffect DEF VisitEffect, TypeInv
<1>3. CASE DataRefused(d)
  <2>1. PICK replies \in [PendingRcpts(d) -> Replies] :
           recipients' = Assigned(Rejections(replies))
    BY <1>3 DEF DataRefused
  <2>2. PICK status \in SendErrors : Visited(d, status)
    BY <1>3 DEF DataRefused
  <2>3. UNCHANGED <<delivered, lost>>  BY <1>3 DEF DataRefused
  <2>4. /\ recipients' \in [Rcpts -> Recipient]
        /\ \A r \in Rcpts : Undecided(d, r) \/ Decided(d, r)
    BY <2>1, <2>3, RejectionsEffect DEF Undecided, Decided
  <2> QED BY <2>2, <2>3, <2>4, VisitedEffect DEF VisitEffect, TypeInv, SendErrors
<1>4. CASE ReplyLost(d)
  <2>1. PICK replies \in [PendingRcpts(d) -> Replies] :
           /\ recipients' = Assigned(Rejections(replies))
           /\ delivered' = Count(delivered, Accepted(replies))
    BY <1>4 DEF ReplyLost
  <2>2. Visited(d, "temp_fail") /\ lost' = lost + 1  BY <1>4 DEF ReplyLost
  <2>3. /\ recipients' \in [Rcpts -> Recipient] /\ delivered' \in Counts
        /\ \A r \in Rcpts : Undecided(d, r) \/ Decided(d, r)
    <3>1. \A r \in Accepted(replies) : DomainOf[r] = d /\ Pending(recipients[r].status)
      BY DEF Accepted, PendingRcpts, RcptsOf
    <3>2. /\ delivered' \in Counts
          /\ \A r \in Rcpts : /\ r \in Accepted(replies) => delivered'[r] = delivered[r] + 1
                              /\ r \notin Accepted(replies) => delivered'[r] = delivered[r]
      BY <2>1, CountEffect DEF TypeInv
    <3> QED BY <2>1, <2>2, <3>1, <3>2, RejectionsEffect DEF Undecided, Decided
  <2> QED BY <2>2, <2>3, VisitedEffect DEF VisitEffect
<1>5. CASE Transacted(d)
  <2>0. PICK replies \in [PendingRcpts(d) -> Replies] :
           \E ends \in [Accepted(replies) -> Replies] :
             LET final == Final(replies, ends)
             IN /\ recipients' = Assigned(final)
                /\ delivered' = Count(delivered, {r \in PendingRcpts(d) : final[r] = "completed"})
                /\ Visited(d, IF AllDone(final) THEN "completed" ELSE "scheduled")
                /\ UNCHANGED lost
    BY <1>5 DEF Transacted
  <2>1. PICK ends \in [Accepted(replies) -> Replies] :
           LET final == Final(replies, ends)
           IN /\ recipients' = Assigned(final)
              /\ delivered' = Count(delivered, {r \in PendingRcpts(d) : final[r] = "completed"})
              /\ Visited(d, IF AllDone(final) THEN "completed" ELSE "scheduled")
              /\ UNCHANGED lost
    BY <2>0
  <2> DEFINE P == PendingRcpts(d)
             final == Final(replies, ends)
             status == IF AllDone(final) THEN "completed" ELSE "scheduled"
  <2>2. \A r \in P : r \in Rcpts /\ DomainOf[r] = d /\ Pending(recipients[r].status)
    BY DEF PendingRcpts, RcptsOf
  <2>3. \A r \in P : final[r] \in {"temp_fail", "perm_fail", "completed"}
    <3> SUFFICES ASSUME NEW r \in P
                 PROVE  final[r] \in {"temp_fail", "perm_fail", "completed"}
      OBVIOUS
    <3>1. \A reply \in Replies : reply = "ok" \/ reply = "4xx" \/ reply = "5xx"
      BY DEF DeliveryAssumption
    <3>2. replies[r] \in Replies /\ (r \in Accepted(replies) <=> replies[r] = "ok")
      BY DEF Accepted
    <3>3. CASE r \in Accepted(replies)
      <4>1. ends[r] \in Replies
              /\ final[r] = IF ends[r] = "ok" THEN "completed" ELSE Negative(ends[r])
        BY <3>3 DEF Final
      <4> QED BY <3>1, <4>1 DEF Negative
    <3>4. CASE r \notin Accepted(replies)
      <4>1. final[r] = Negative(replies[r])  BY <3>4 DEF Final
      <4> QED BY <3>1, <3>2, <3>4, <4>1 DEF Negative
    <3> QED BY <3>3, <3>4
  <2>4. DOMAIN final = P  BY DEF Final
  <2>5. /\ recipients' \in [Rcpts -> Recipient]
        /\ \A r \in Rcpts \ P : recipients'[r] = recipients[r]
        /\ \A r \in P : /\ recipients'[r].flags = recipients[r].flags \cup {"changed"}
                        /\ recipients'[r].status = final[r]
    <3>1. P \subseteq Rcpts  BY <2>2
    <3>2. recipients' = Assigned(final)  BY <2>1
    <3> HIDE DEF P, final
    <3> QED BY <2>3, <2>4, <3>1, <3>2, AssignedEffect
  <2>6. /\ delivered' \in Counts
        /\ \A r \in Rcpts : /\ r \in P /\ final[r] = "completed" => delivered'[r] = delivered[r] + 1
                            /\ ~(r \in P /\ final[r] = "completed") => delivered'[r] = delivered[r]
    <3>1. delivered' = Count(delivered, {r \in P : final[r] = "completed"})  BY <2>1
    <3>2. delivered \in Counts  BY DEF TypeInv
    <3> HIDE DEF P, final
    <3> QED BY <3>1, <3>2, CountEffect
  <2>7. Visited(d, status) /\ UNCHANGED lost /\ status \in Status  BY <2>1
  <2>8. \A r \in Rcpts : Undecided(d, r) \/ Decided(d, r)
    <3> HIDE DEF P, final
    <3> QED BY <2>2, <2>3, <2>5, <2>6 DEF Undecided, Decided
  <2>9. ASSUME status = "completed", NEW r \in RcptsOf(d)  PROVE ~Pending(recipients'[r].status)
    <3>1. AllDone(final)  BY <2>9
    <3>2. CASE r \in P
      <4>1. final[r] \notin {"scheduled", "temp_fail"}  BY <2>4, <3>1, <3>2 DEF AllDone
      <4> HIDE DEF P, final
      <4> QED BY <2>5, <3>2, <4>1 DEF Pending
    <3>3. CASE r \notin P
      <4>1. r \in Rcpts /\ ~Pending(recipients[r].status)  BY <3>3 DEF PendingRcpts, RcptsOf
      <4> HIDE DEF P, final
      <4> QED BY <2>5, <3>3, <4>1
    <3> QED BY <3>2, <3>3
  <2> HIDE DEF P, final, status
  <2> QED BY <2>5, <2>6, <2>7, <2>8, <2>9, VisitedEffect DEF VisitEffect
<1> QED BY <1>1, <1>2, <1>3, <1>4, <1>5

\* A report leaves every status alone, flags what it reports and counts it once,
\* and names every failure that nobody has been told of.
DsnEffect ==
  /\ UNCHANGED <<domains, fixed, todo, file, delivered, cancelled, crashes, lost, cancels>>
  /\ recipients' \in [Rcpts -> Recipient]
  /\ failed_dsn' \in Counts /\ success_dsn' \in Counts /\ errors' \in Nat
  /\ errors' = 0 => errors = 0
  /\ \A r \in Rcpts :
       /\ recipients'[r].status = recipients[r].status
       /\ \/ /\ recipients'[r] = recipients[r] /\ r \notin Failed
             /\ failed_dsn'[r] = failed_dsn[r] /\ success_dsn'[r] = success_dsn[r]
          \/ /\ r \in Succeeded
             /\ recipients'[r].flags = recipients[r].flags \cup {"dsn_sent", "changed"}
             /\ failed_dsn'[r] = failed_dsn[r]
             /\ success_dsn'[r] = success_dsn[r] \/ success_dsn'[r] = success_dsn[r] + 1
          \/ /\ r \in Failed
             /\ recipients'[r].flags \in {recipients[r].flags \cup {"dsn_sent"},
                                          recipients[r].flags \cup {"dsn_sent", "changed"}}
             /\ failed_dsn'[r] = failed_dsn[r] \/ failed_dsn'[r] = failed_dsn[r] + 1
             /\ success_dsn'[r] = success_dsn[r]
             /\ return_path = "sender" /\ errors' = 0 /\ "failure" \in notify[r] =>
                  failed_dsn'[r] = failed_dsn[r] + 1

\* Flagged adds flags to the recipients in R and leaves their status alone.
LEMMA FlaggedEffect ==
  ASSUME TypeInv, NEW R, NEW flags \in SUBSET {"changed", "dsn_sent"}, recipients' = Flagged(R, flags)
  PROVE  /\ recipients' \in [Rcpts -> Recipient]
         /\ \A r \in Rcpts : /\ recipients'[r].status = recipients[r].status
                             /\ r \in R => recipients'[r].flags = recipients[r].flags \cup flags
                             /\ r \notin R => recipients'[r] = recipients[r]
<1>1. \A r \in Rcpts :
        LET rcpt == [recipients[r] EXCEPT !.flags = @ \cup flags]
        IN  /\ rcpt \in Recipient /\ rcpt.status = recipients[r].status
            /\ rcpt.flags = recipients[r].flags \cup flags
  BY DEF TypeInv, Recipient
<1> QED BY <1>1 DEF TypeInv, Flagged

\* send_dsn has the effect of a DSN, which flags the recipients it reports.
LEMMA DsnSteps ==
  ASSUME TypeInv, NEW from, NEW to, SendDsn(from, to)
  PROVE  pc = from /\ pc' = to /\ DsnEffect
<1>1. /\ pc = from /\ pc' = to
      /\ UNCHANGED <<domains, fixed, todo, file, delivered, cancelled, crashes, lost, cancels>>
  BY DEF SendDsn
<1>2. failed_dsn \in Counts /\ success_dsn \in Counts /\ errors \in Nat
  BY DEF TypeInv
<1>3. \A r \in Rcpts : ~(r \in Succeeded /\ r \in Failed)
  BY DEF Succeeded, Failed
<1>4. CASE return_path = "sender" /\ build_dsn
  <2> DEFINE success == {r \in Succeeded : "success" \in notify[r]}
             failure == {r \in Failed : "failure" \in notify[r]}
  <2>1. recipients' = Flagged(Succeeded \cup Failed, {"dsn_sent", "changed"})
    BY <1>4 DEF build_dsn
  <2>2. /\ recipients' \in [Rcpts -> Recipient]
        /\ \A r \in Rcpts : /\ recipients'[r].status = recipients[r].status
                            /\ r \in Succeeded \cup Failed =>
                                 recipients'[r].flags = recipients[r].flags \cup {"dsn_sent", "changed"}
                            /\ r \notin Succeeded \cup Failed => recipients'[r] = recipients[r]
    BY <2>1, FlaggedEffect
  <2>3. \/ /\ success_dsn' = Count(success_dsn, success)
           /\ failed_dsn' = Count(failed_dsn, failure)
           /\ errors' = errors
        \/ errors' = errors + 1 /\ success_dsn' = success_dsn /\ failed_dsn' = failed_dsn
    BY <1>4 DEF build_dsn
  <2>4. /\ failed_dsn' \in Counts /\ success_dsn' \in Counts /\ errors' \in Nat
        /\ errors' = 0 => errors = 0
        /\ \A r \in Rcpts :
             /\ failed_dsn'[r] = failed_dsn[r] \/ (r \in failure /\ failed_dsn'[r] = failed_dsn[r] + 1)
             /\ success_dsn'[r] = success_dsn[r]
                  \/ (r \in success /\ success_dsn'[r] = success_dsn[r] + 1)
             /\ errors' = 0 /\ r \in failure => failed_dsn'[r] = failed_dsn[r] + 1
    <3> HIDE DEF success, failure
    <3>1. CASE /\ success_dsn' = Count(success_dsn, success)
               /\ failed_dsn' = Count(failed_dsn, failure)
               /\ errors' = errors
      BY <1>2, <3>1, CountEffect
    <3>2. CASE errors' = errors + 1 /\ success_dsn' = success_dsn /\ failed_dsn' = failed_dsn
      BY <1>2, <3>2
    <3> QED BY <2>3, <3>1, <3>2
  <2> QED BY <1>1, <1>3, <2>2, <2>4 DEF DsnEffect
<1>5. CASE return_path = "null" /\ handle_double_bounce
  <2>1. recipients' = Flagged(Failed, {"dsn_sent"}) /\ UNCHANGED <<success_dsn, failed_dsn, errors>>
    BY <1>5 DEF handle_double_bounce
  <2>2. /\ recipients' \in [Rcpts -> Recipient]
        /\ \A r \in Rcpts : /\ recipients'[r].status = recipients[r].status
                            /\ r \in Failed =>
                                 recipients'[r].flags = recipients[r].flags \cup {"dsn_sent"}
                            /\ r \notin Failed => recipients'[r] = recipients[r]
    BY <2>1, FlaggedEffect
  <2> QED BY <1>1, <1>2, <1>5, <2>1, <2>2 DEF DsnEffect
<1> QED BY <1>1, <1>4, <1>5 DEF SendDsn

\* What save_changes writes: the new record of what is marked as changed.
LEMMA RecordEffect ==
  ASSUME NEW rcpt \in Recipient
  PROVE  /\ Record(rcpt) \in Recipient /\ Record(rcpt).status = rcpt.status
         /\ Record(rcpt).flags = rcpt.flags \ {"changed"}
         /\ "changed" \notin rcpt.flags => Record(rcpt) = rcpt
<1>1. /\ Record(rcpt) \in Recipient /\ Record(rcpt).status = rcpt.status
      /\ Record(rcpt).flags = rcpt.flags \ {"changed"}
  BY DEF Record, Recipient
<1>2. ASSUME "changed" \notin rcpt.flags  PROVE Record(rcpt) = rcpt
  <2>1. rcpt.flags \ {"changed"} = rcpt.flags  BY <1>2
  <2> QED BY <1>1, <2>1 DEF Record, Recipient
<1> QED BY <1>1, <1>2

\* The records of the domains D and of the recipients R appended to the file f.
LEMMA AppendedEffect ==
  ASSUME NEW doms \in [Domains -> Domain], NEW rcpts \in [Rcpts -> Recipient], NEW f \in File,
         NEW D, NEW R
  PROVE  LET g == Appended(f, doms, rcpts, D, R)
         IN  /\ g \in File
             /\ \A d \in Domains : g.domains[d] = IF d \in D THEN doms[d].status ELSE f.domains[d]
             /\ \A r \in Rcpts : g.recipients[r] = IF r \in R THEN Record(rcpts[r])
                                                   ELSE f.recipients[r]
<1>1. \A r \in Rcpts : Record(rcpts[r]) \in Recipient  BY RecordEffect
<1> QED BY <1>1 DEF Appended, File, Domain

SaveEffect(doms, rcpts) ==
  /\ domains' \in [Domains -> Domain] /\ recipients' \in [Rcpts -> Recipient]
  /\ file' \in SUBSET File
  /\ \A d \in Domains : domains'[d].status = doms[d].status /\ ~domains'[d].changed
  /\ \A r \in Rcpts : recipients'[r] = Record(rcpts[r])
  /\ \A g \in file' : \E f \in file :
       /\ \A d \in Domains : g.domains[d] = IF doms[d].changed THEN doms[d].status ELSE f.domains[d]
       /\ \A r \in Rcpts : g.recipients[r] = IF "changed" \in rcpts[r].flags THEN recipients'[r]
                                             ELSE f.recipients[r]

\* save_changes has the effect of a save: what changed is in the file that is left.
LEMMA SaveSteps ==
  ASSUME TypeInv, NEW doms \in [Domains -> Domain], NEW rcpts \in [Rcpts -> Recipient],
         save_changes(doms, rcpts)
  PROVE  SaveEffect(doms, rcpts)
<1>1. recipients' \in [Rcpts -> Recipient] /\ \A r \in Rcpts : recipients'[r] = Record(rcpts[r])
  BY RecordEffect DEF save_changes
<1>2. /\ domains' \in [Domains -> Domain]
      /\ \A d \in Domains : domains'[d].status = doms[d].status /\ ~domains'[d].changed
  BY DEF save_changes, Domain
<1>3. \A g \in file' : g \in File /\ \E f \in file :
       /\ \A d \in Domains : g.domains[d] = IF doms[d].changed THEN doms[d].status ELSE f.domains[d]
       /\ \A r \in Rcpts : g.recipients[r] = IF "changed" \in rcpts[r].flags THEN recipients'[r]
                                             ELSE f.recipients[r]
  <2> SUFFICES ASSUME NEW g \in file'
               PROVE  g \in File /\ \E f \in file :
                        /\ \A d \in Domains : g.domains[d] = IF doms[d].changed THEN doms[d].status
                                                             ELSE f.domains[d]
                        /\ \A r \in Rcpts : g.recipients[r] = IF "changed" \in rcpts[r].flags
                                                              THEN recipients'[r]
                                                              ELSE f.recipients[r]
    OBVIOUS
  <2>1. PICK f \in file : g = Appended(f, doms, rcpts, ChangedDomains(doms), ChangedRcpts(rcpts))
    BY DEF save_changes
  <2>2. f \in File  BY DEF TypeInv
  <2>3. /\ g \in File
        /\ \A d \in Domains : g.domains[d] = IF d \in ChangedDomains(doms) THEN doms[d].status
                                             ELSE f.domains[d]
        /\ \A r \in Rcpts : g.recipients[r] = IF r \in ChangedRcpts(rcpts) THEN Record(rcpts[r])
                                              ELSE f.recipients[r]
    BY <2>1, <2>2, AppendedEffect
  <2>4. /\ \A d \in Domains : d \in ChangedDomains(doms) <=> doms[d].changed
        /\ \A r \in Rcpts : r \in ChangedRcpts(rcpts) <=> "changed" \in rcpts[r].flags
    BY DEF ChangedDomains, ChangedRcpts
  <2> QED BY <1>1, <2>3, <2>4
<1> QED BY <1>1, <1>2, <1>3 DEF SaveEffect

\* A restart loads what an earlier save, or the one the crash cut short, wrote.
LoadEffect(g) ==
  /\ pc # "gone" /\ pc' = "queued" /\ crashes' = crashes + 1
  /\ UNCHANGED <<fixed, ghosts, lost, errors, cancels>>
  /\ todo' = {} /\ file' = {g} /\ g \in File
  /\ domains' \in [Domains -> Domain] /\ recipients' \in [Rcpts -> Recipient]
  /\ \A d \in Domains : domains'[d].status = g.domains[d] /\ ~domains'[d].changed
  /\ \A r \in Rcpts : recipients'[r] = g.recipients[r]
  /\ \E f \in file :
       /\ \A d \in Domains : \/ g.domains[d] = f.domains[d]
                             \/ pc \in {"decide", "finish"} /\ g.domains[d] = domains[d].status
       /\ \A r \in Rcpts : \/ g.recipients[r] = f.recipients[r]
                           \/ /\ pc \in {"decide", "finish"}
                              /\ g.recipients[r] = Record(recipients[r])

\* A crash, in the middle of a save too, has the effect of loading a file.
LEMMA LoadSteps ==
  ASSUME TypeInv, Crash \/ CrashWhileSaving
  PROVE  \E g : LoadEffect(g)
<1>1. ASSUME NEW g \in File, Load(g)
      PROVE  /\ pc # "gone" /\ pc' = "queued" /\ crashes' = crashes + 1
             /\ UNCHANGED <<fixed, ghosts, lost, errors, cancels>>
             /\ todo' = {} /\ file' = {g}
             /\ domains' \in [Domains -> Domain] /\ recipients' \in [Rcpts -> Recipient]
             /\ \A d \in Domains : domains'[d].status = g.domains[d] /\ ~domains'[d].changed
             /\ \A r \in Rcpts : recipients'[r] = g.recipients[r]
  BY <1>1 DEF Load, File, Domain
<1>2. CASE Crash
  <2>1. PICK f \in file : Load(f)  BY <1>2 DEF Crash
  <2>2. f \in File  BY DEF TypeInv
  <2>3. LoadEffect(f)  BY <1>1, <2>1, <2>2 DEF LoadEffect
  <2> QED BY <2>3
<1>3. CASE CrashWhileSaving
  <2>1. pc \in {"decide", "finish"}  BY <1>3 DEF CrashWhileSaving
  <2>2. PICK f \in file :
          \/ \E D \in SUBSET ChangedDomains(domains) :
               Load(Appended(f, domains, recipients, D, {}))
          \/ \E R \in SUBSET ChangedRcpts(recipients) :
               Load(Appended(f, domains, recipients, ChangedDomains(domains), R))
    BY <1>3 DEF CrashWhileSaving
  <2>3. \E D, R : Load(Appended(f, domains, recipients, D, R))  BY <2>2
  <2>4. PICK D, R : Load(Appended(f, domains, recipients, D, R))  BY <2>3
  <2> DEFINE g == Appended(f, domains, recipients, D, R)
  <2>5. f \in File  BY DEF TypeInv
  <2>6. /\ g \in File
        /\ \A d \in Domains : g.domains[d] = IF d \in D THEN domains[d].status ELSE f.domains[d]
        /\ \A r \in Rcpts : g.recipients[r] = IF r \in R THEN Record(recipients[r])
                                              ELSE f.recipients[r]
    BY <2>5, AppendedEffect DEF TypeInv
  <2>7. Load(g)  BY <2>4
  <2> HIDE DEF g
  <2>8. LoadEffect(g)  BY <1>1, <2>1, <2>6, <2>7 DEF LoadEffect
  <2> QED BY <2>8
<1> QED BY <1>2, <1>3

\* The deadlines that have passed: the domain fails, and a recipient changes its
\* status only with it.
TryEffect ==
  /\ pc = "queued" /\ pc' = "first_dsn"
  /\ UNCHANGED <<fixed, todo, file, ghosts, bounds>>
  /\ domains' \in [Domains -> Domain] /\ recipients' \in [Rcpts -> Recipient]
  /\ \A d \in Domains :
       \/ domains'[d] = domains[d]
       \/ /\ Pending(domains[d].status)
          /\ domains'[d].status = "perm_fail" /\ domains'[d].changed
  /\ \A r \in Rcpts :
       \/ recipients'[r] = recipients[r]
       \/ /\ recipients[r].status = "temp_fail" /\ recipients'[r].status = "perm_fail"
          /\ recipients'[r].flags = recipients[r].flags
          /\ domains'[DomainOf[r]].status = "perm_fail"

\* try_deliver has the effect of the start of an attempt.
LEMMA TrySteps ==
  ASSUME TypeInv, DeliveryAssumption, TryDeliver
  PROVE  TryEffect
<1>1. /\ pc = "queued" /\ pc' = "first_dsn"
      /\ UNCHANGED <<fixed, todo, file, ghosts, bounds>>
  BY DEF TryDeliver
<1>2. /\ domains' \in [Domains -> Domain]
      /\ \A d \in Domains : /\ ~ExpiresNow(d) => domains'[d] = domains[d]
                            /\ ExpiresNow(d) => /\ Pending(domains[d].status)
                                                /\ domains'[d].status = "perm_fail"
                                                /\ domains'[d].changed
  BY DEF TryDeliver, TypeInv, Domain, Status, ExpiresNow
<1>3. \A r \in Rcpts :
        LET rcpt == [recipients[r] EXCEPT !.status = into_permanent(@)]
        IN  /\ rcpt \in Recipient
            /\ \/ rcpt = recipients[r]
               \/ /\ recipients[r].status = "temp_fail" /\ rcpt.status = "perm_fail"
                  /\ rcpt.flags = recipients[r].flags
  BY DEF TypeInv, Recipient, Status, into_permanent
<1>4. /\ recipients' \in [Rcpts -> Recipient]
      /\ \A r \in Rcpts : \/ recipients'[r] = recipients[r]
                          \/ /\ recipients[r].status = "temp_fail"
                             /\ recipients'[r].status = "perm_fail"
                             /\ recipients'[r].flags = recipients[r].flags
                             /\ ExpiresNow(DomainOf[r])
  BY <1>3 DEF TryDeliver, TypeInv
<1>5. \A r \in Rcpts : DomainOf[r] \in Domains  BY DEF DeliveryAssumption
<1> QED BY <1>1, <1>2, <1>4, <1>5 DEF TryEffect

-----------------------------------------------------------------------------
(* Each step keeps the invariant                                           *)

\* The domain of a recipient is one of the message's.
LEMMA DomainType ==
  ASSUME DeliveryAssumption, NEW r \in Rcpts
  PROVE  DomainOf[r] \in Domains
BY DEF DeliveryAssumption

\* A visit keeps the invariant.
LEMMA VisitKeeps ==
  ASSUME DeliveryInv, DeliveryAssumption, NEW d \in Domains, VisitEffect(d)
  PROVE  DeliveryInv'
<1> USE DEF Counts
<1>1. TypeInv /\ Pending(domains[d].status)
  BY DEF DeliveryInv, VisitInv, VisitEffect
<1>2. TypeInv'  BY <1>1 DEF TypeInv, VisitEffect, fixed
<1>3. VisitInv'
  BY <1>1 DEF DeliveryInv, TypeInv, VisitInv, VisitEffect
<1>4. OnceInv'
  <2> SUFFICES ASSUME NEW r \in Rcpts
               PROVE  /\ delivered'[r] <= crashes' + lost'
                                            + (IF Pending(recipients'[r].status) THEN 0 ELSE 1)
                      /\ failed_dsn'[r] <= crashes'
                                            + (IF "dsn_sent" \in recipients'[r].flags THEN 1 ELSE 0)
                      /\ success_dsn'[r] <= crashes'
                                            + (IF "dsn_sent" \in recipients'[r].flags THEN 1 ELSE 0)
    BY DEF OnceInv
  <2>1. /\ delivered[r] <= crashes + lost + (IF Pending(recipients[r].status) THEN 0 ELSE 1)
        /\ failed_dsn[r] <= crashes + (IF "dsn_sent" \in recipients[r].flags THEN 1 ELSE 0)
        /\ success_dsn[r] <= crashes + (IF "dsn_sent" \in recipients[r].flags THEN 1 ELSE 0)
        /\ delivered[r] \in Nat /\ crashes \in Nat /\ lost \in Nat
    BY <1>1 DEF DeliveryInv, OnceInv, TypeInv
  <2>2. UNCHANGED <<failed_dsn, success_dsn, crashes>> /\ (lost' = lost \/ lost' = lost + 1)
    BY DEF VisitEffect
  <2>3. CASE Undecided(d, r)  BY <2>1, <2>2, <2>3 DEF Undecided
  <2>4. CASE Decided(d, r)  BY <2>1, <2>2, <2>4 DEF Decided, Pending
  <2> QED BY <2>3, <2>4 DEF VisitEffect
<1>5. CompletedInv'
  <2> SUFFICES ASSUME NEW r \in Rcpts
               PROVE  /\ recipients'[r].status = "completed" => delivered'[r] > 0 \/ r \in cancelled'
                      /\ \A f \in file' : f.recipients[r].status = "completed"
                                            => delivered'[r] > 0 \/ r \in cancelled'
                      /\ success_dsn'[r] > 0 => delivered'[r] > 0 \/ r \in cancelled'
    BY DEF CompletedInv, Completed
  <2>1. UNCHANGED <<success_dsn, file, cancelled>> /\ delivered[r] \in Nat
    BY <1>1 DEF VisitEffect, TypeInv
  <2>2. CASE Undecided(d, r)
    BY <2>1, <2>2 DEF DeliveryInv, CompletedInv, Completed, Undecided
  <2>3. CASE Decided(d, r)
    BY <2>1, <2>3 DEF DeliveryInv, CompletedInv, Completed, Decided
  <2> QED BY <2>2, <2>3 DEF VisitEffect
<1>6. HonestInv'
  <2> SUFFICES ASSUME crashes' + lost' = 0, NEW r \in Rcpts
               PROVE  /\ delivered'[r] > 0 => recipients'[r].status = "completed"
                      /\ failed_dsn'[r] > 0 => /\ delivered'[r] = 0
                                               /\ \/ ~Pending(recipients'[r].status)
                                                  \/ ~Pending(domains'[DomainOf[r]].status)
    BY DEF HonestInv
  <2>1. crashes = 0 /\ lost = 0 /\ lost' = lost /\ failed_dsn' = failed_dsn /\ delivered[r] \in Nat
    BY <1>1 DEF VisitEffect, TypeInv
  <2>2. /\ delivered[r] > 0 => recipients[r].status = "completed"
        /\ failed_dsn[r] > 0 => /\ delivered[r] = 0
                                /\ \/ ~Pending(recipients[r].status)
                                   \/ ~Pending(domains[DomainOf[r]].status)
    BY <2>1 DEF DeliveryInv, HonestInv
  <2>3. CASE Undecided(d, r)
    <3>1. delivered'[r] = delivered[r] /\ recipients'[r] = recipients[r]
      BY <2>1, <2>3 DEF Undecided
    <3>2. DomainOf[r] # d => domains'[DomainOf[r]] = domains[DomainOf[r]]
      BY DomainType DEF VisitEffect
    <3> QED BY <1>1, <2>1, <2>2, <3>1, <3>2
  <2>4. CASE Decided(d, r)
    <3>1. DomainOf[r] = d /\ Pending(recipients[r].status) /\ delivered[r] = 0 /\ ~(failed_dsn[r] > 0)
      BY <1>1, <2>1, <2>2, <2>4 DEF Decided, Pending
    <3> QED BY <2>1, <2>4, <3>1 DEF Decided
  <2> QED BY <2>3, <2>4 DEF VisitEffect
<1>7. AnsweredInv'
  <2> SUFFICES ASSUME NEW r \in Rcpts
               PROVE  /\ \A f \in file' : f.recipients[r].status = "perm_fail" => Answered(r, f.recipients[r])'
                      /\ recipients'[r].status = "perm_fail" =>
                           Answered(r, recipients[r])' \/ "changed" \in recipients'[r].flags
    BY DEF AnsweredInv, VisitEffect
  <2>1. file' = file /\ notify' = notify /\ pc = "run"  BY DEF VisitEffect, fixed
  <2>2. recipients'[r] = recipients[r] \/ "changed" \in recipients'[r].flags
    BY DEF VisitEffect, Undecided, Decided
  <2> QED BY <2>1, <2>2 DEF DeliveryInv, AnsweredInv, Answered
<1>8. SavedInv'
  <2>1. file' = file /\ pc' = "run"  BY DEF VisitEffect
  <2>2. ASSUME NEW f \in file', NEW e \in Domains, ~domains'[e].changed
        PROVE  f.domains[e] = domains'[e].status
    BY <2>1, <2>2 DEF DeliveryInv, SavedInv, VisitEffect
  <2>3. ASSUME NEW f \in file', NEW r \in Rcpts
        PROVE  /\ "changed" \notin f.recipients[r].flags
               /\ "changed" \notin recipients'[r].flags /\ Pending(domains'[DomainOf[r]].status)
                    => f.recipients[r] = recipients'[r]
    <3>1. recipients'[r] = recipients[r] \/ "changed" \in recipients'[r].flags
      BY DEF VisitEffect, Undecided, Decided
    <3>2. Pending(domains'[DomainOf[r]].status) => Pending(domains[DomainOf[r]].status)
      BY <1>1, DomainType DEF VisitEffect
    <3> QED BY <2>1, <3>1, <3>2 DEF DeliveryInv, SavedInv
  <2> QED BY <2>1, <2>2, <2>3 DEF SavedInv
<1> QED BY <1>2, <1>3, <1>4, <1>5, <1>6, <1>7, <1>8 DEF DeliveryInv

\* A DSN keeps the invariant.
LEMMA DsnKeeps ==
  ASSUME DeliveryInv, DeliveryAssumption, DsnEffect,
         (pc = "first_dsn" /\ pc' = "decide") \/ (pc = "second_dsn" /\ pc' = "finish")
  PROVE  DeliveryInv'
<1> USE DEF Counts
<1>1. /\ TypeInv
      /\ UNCHANGED <<domains, notify, todo, file, delivered, cancelled, crashes, lost>>
  BY DEF DeliveryInv, DsnEffect, fixed
<1>2. TypeInv'  BY <1>1 DEF TypeInv, DsnEffect, fixed
<1>3. VisitInv'  BY DEF VisitInv
<1>4. ASSUME NEW r \in Rcpts
      PROVE  /\ recipients'[r].status = recipients[r].status
             /\ \/ recipients'[r].flags = recipients[r].flags
                \/ recipients'[r].flags \in {recipients[r].flags \cup {"dsn_sent"},
                                             recipients[r].flags \cup {"dsn_sent", "changed"}}
             /\ r \in Failed \/ r \in Succeeded => "dsn_sent" \notin recipients[r].flags
  BY DEF DsnEffect, Failed, Succeeded, Unreported
<1>5. OnceInv'
  <2> SUFFICES ASSUME NEW r \in Rcpts
               PROVE  /\ delivered'[r] <= crashes' + lost'
                                            + (IF Pending(recipients'[r].status) THEN 0 ELSE 1)
                      /\ failed_dsn'[r] <= crashes'
                                            + (IF "dsn_sent" \in recipients'[r].flags THEN 1 ELSE 0)
                      /\ success_dsn'[r] <= crashes'
                                            + (IF "dsn_sent" \in recipients'[r].flags THEN 1 ELSE 0)
    BY DEF OnceInv
  <2>1. /\ delivered[r] <= crashes + lost + (IF Pending(recipients[r].status) THEN 0 ELSE 1)
        /\ failed_dsn[r] <= crashes + (IF "dsn_sent" \in recipients[r].flags THEN 1 ELSE 0)
        /\ success_dsn[r] <= crashes + (IF "dsn_sent" \in recipients[r].flags THEN 1 ELSE 0)
        /\ failed_dsn[r] \in Nat /\ success_dsn[r] \in Nat /\ crashes \in Nat
    BY <1>1 DEF DeliveryInv, OnceInv, TypeInv
  <2>2. CASE /\ recipients'[r] = recipients[r]
             /\ failed_dsn'[r] = failed_dsn[r] /\ success_dsn'[r] = success_dsn[r]
    BY <1>1, <2>1, <2>2
  <2>3. CASE /\ "dsn_sent" \notin recipients[r].flags /\ "dsn_sent" \in recipients'[r].flags
             /\ failed_dsn'[r] = failed_dsn[r] \/ failed_dsn'[r] = failed_dsn[r] + 1
             /\ success_dsn'[r] = success_dsn[r] \/ success_dsn'[r] = success_dsn[r] + 1
    BY <1>1, <1>4, <2>1, <2>3
  <2> QED BY <1>4, <2>2, <2>3 DEF DsnEffect
<1>6. CompletedInv'
  <2> SUFFICES ASSUME NEW r \in Rcpts
               PROVE  /\ recipients'[r].status = "completed" => Completed(r)
                      /\ \A f \in file' : f.recipients[r].status = "completed" => Completed(r)
                      /\ success_dsn'[r] > 0 => Completed(r)
    BY <1>1 DEF CompletedInv, Completed
  <2>1. success_dsn'[r] = success_dsn[r] \/ recipients[r].status = "completed"
    BY DEF DsnEffect, Succeeded
  <2> QED BY <1>1, <1>4, <2>1 DEF DeliveryInv, CompletedInv
<1>7. HonestInv'
  <2> SUFFICES ASSUME crashes' + lost' = 0, NEW r \in Rcpts
               PROVE  /\ delivered'[r] > 0 => recipients'[r].status = "completed"
                      /\ failed_dsn'[r] > 0 => /\ delivered'[r] = 0
                                               /\ \/ ~Pending(recipients'[r].status)
                                                  \/ ~Pending(domains'[DomainOf[r]].status)
    BY DEF HonestInv
  <2>1. /\ delivered[r] > 0 => recipients[r].status = "completed"
        /\ failed_dsn[r] > 0 => /\ delivered[r] = 0
                                /\ \/ ~Pending(recipients[r].status)
                                   \/ ~Pending(domains[DomainOf[r]].status)
        /\ delivered[r] \in Nat
    BY <1>1 DEF DeliveryInv, HonestInv, TypeInv
  <2>2. failed_dsn'[r] = failed_dsn[r] \/ r \in Failed  BY DEF DsnEffect
  <2>3. ASSUME r \in Failed
        PROVE  /\ recipients[r].status # "completed"
               /\ ~Pending(recipients[r].status) \/ ~Pending(domains[DomainOf[r]].status)
    BY <2>3 DEF Failed, Pending
  <2> QED BY <1>1, <1>4, <2>1, <2>2, <2>3
<1>8. AnsweredInv'
  <2> SUFFICES ASSUME NEW r \in Rcpts
               PROVE  /\ \A f \in file' : f.recipients[r].status = "perm_fail" => Answered(r, f.recipients[r])'
                      /\ recipients'[r].status = "perm_fail" => Answered(r, recipients[r])'
    BY DEF AnsweredInv
  <2>1. \A f \in file' : f.recipients[r].status = "perm_fail" => Answered(r, f.recipients[r])'
    BY <1>1 DEF DeliveryInv, AnsweredInv, Answered
  <2>2. ASSUME recipients'[r].status = "perm_fail"  PROVE Answered(r, recipients[r])'
    <3>1. CASE Answered(r, recipients[r])
      BY <1>1, <1>4, <3>1 DEF Answered
    <3>2. CASE ~Answered(r, recipients[r])
      <4>1. r \in Failed  BY <1>4, <2>2, <3>2 DEF Failed, Unreported, Answered
      <4>2. "dsn_sent" \in recipients'[r].flags
        BY <1>4, <4>1 DEF DsnEffect
      <4> QED BY <4>2 DEF Answered
    <3> QED BY <3>1, <3>2
  <2> QED BY <2>1, <2>2
<1>9. SavedInv'
  <2>1. ASSUME NEW f \in file', NEW r \in Rcpts, "changed" \notin recipients'[r].flags,
               Pending(domains'[DomainOf[r]].status)
        PROVE  f.recipients[r] = recipients'[r]
    <3>1. "changed" \notin recipients[r].flags /\ Pending(domains[DomainOf[r]].status)
      BY <1>1, <1>4, <2>1
    <3>2. f.recipients[r] = recipients[r]
      BY <1>1, <3>1 DEF DeliveryInv, SavedInv
    <3>3. r \notin Failed
      <4> SUFFICES ASSUME r \in Failed  PROVE FALSE  OBVIOUS
      <4>1. recipients[r].status = "perm_fail" /\ ~Answered(r, recipients[r])
        BY <3>1 DEF Failed, Unreported, Answered, Pending
      <4> QED BY <3>1, <4>1 DEF DeliveryInv, AnsweredInv
    <3>4. recipients'[r] = recipients[r]
      BY <2>1, <3>3 DEF DsnEffect
    <3> QED BY <3>2, <3>4
  <2> QED BY <1>1, <2>1 DEF DeliveryInv, SavedInv
<1> QED BY <1>2, <1>3, <1>5, <1>6, <1>7, <1>8, <1>9 DEF DeliveryInv

\* What is saved: the memory as it is, or as a cancellation of recipients leaves it.
SaveOf(doms, rcpts) ==
  /\ pc \in {"queued", "decide", "finish"} /\ pc' = "queued"
  /\ UNCHANGED <<fixed, todo, delivered, failed_dsn, success_dsn, crashes, lost, errors>>
  /\ cancelled \subseteq cancelled' /\ cancels' \in Nat
  /\ \A r \in Rcpts : \/ rcpts[r] = recipients[r]
                      \/ /\ r \in cancelled' /\ cancels' # cancels
                         /\ rcpts[r].status = "completed"
                         /\ rcpts[r].flags = recipients[r].flags \cup {"changed"}
  /\ \A d \in Domains : \/ doms[d] = domains[d]
                        \/ /\ Pending(domains[d].status)
                           /\ doms[d].status = "completed" /\ doms[d].changed
                           /\ \A r \in RcptsOf(d) : ~Pending(rcpts[r].status)

\* A save keeps the invariant.
LEMMA SaveKeeps ==
  ASSUME DeliveryInv, DeliveryAssumption,
         NEW doms \in [Domains -> Domain], NEW rcpts \in [Rcpts -> Recipient],
         SaveOf(doms, rcpts), SaveEffect(doms, rcpts)
  PROVE  DeliveryInv'
<1> USE DEF Counts
<1>1. /\ TypeInv
      /\ UNCHANGED <<notify, todo, delivered, failed_dsn, success_dsn, crashes, lost>>
      /\ cancelled \subseteq cancelled' /\ pc' = "queued"
  BY DEF DeliveryInv, SaveOf, fixed
<1>2. TypeInv'  BY <1>1 DEF TypeInv, SaveOf, SaveEffect, fixed
<1>3. VisitInv'  BY <1>1 DEF VisitInv
<1>4. ASSUME NEW r \in Rcpts
      PROVE  /\ recipients'[r] = Record(rcpts[r])
             /\ recipients'[r].status = rcpts[r].status
             /\ recipients'[r].flags = rcpts[r].flags \ {"changed"}
             /\ \/ rcpts[r] = recipients[r]
                \/ /\ r \in cancelled' /\ rcpts[r].status = "completed"
                   /\ rcpts[r].flags = recipients[r].flags \cup {"changed"}
             /\ "dsn_sent" \in recipients'[r].flags <=> "dsn_sent" \in recipients[r].flags
  BY RecordEffect DEF SaveEffect, SaveOf
<1>5. ASSUME NEW g \in file', NEW r \in Rcpts
      PROVE  \/ g.recipients[r] = recipients'[r] /\ "changed" \in rcpts[r].flags
             \/ /\ "changed" \notin rcpts[r].flags
                /\ \E f \in file : g.recipients[r] = f.recipients[r]
  BY DEF SaveEffect
<1>6. OnceInv'
  <2> SUFFICES ASSUME NEW r \in Rcpts
               PROVE  /\ delivered'[r] <= crashes' + lost'
                                            + (IF Pending(recipients'[r].status) THEN 0 ELSE 1)
                      /\ failed_dsn'[r] <= crashes'
                                            + (IF "dsn_sent" \in recipients'[r].flags THEN 1 ELSE 0)
                      /\ success_dsn'[r] <= crashes'
                                            + (IF "dsn_sent" \in recipients'[r].flags THEN 1 ELSE 0)
    BY DEF OnceInv
  <2>1. /\ delivered[r] <= crashes + lost + (IF Pending(recipients[r].status) THEN 0 ELSE 1)
        /\ failed_dsn[r] <= crashes + (IF "dsn_sent" \in recipients[r].flags THEN 1 ELSE 0)
        /\ success_dsn[r] <= crashes + (IF "dsn_sent" \in recipients[r].flags THEN 1 ELSE 0)
        /\ delivered[r] \in Nat /\ crashes \in Nat /\ lost \in Nat
    BY <1>1 DEF DeliveryInv, OnceInv, TypeInv
  <2>2. Pending(recipients'[r].status) => Pending(recipients[r].status)
    BY <1>4 DEF Pending
  <2> QED BY <1>1, <1>4, <2>1, <2>2
<1>7. CompletedInv'
  <2> SUFFICES ASSUME NEW r \in Rcpts
               PROVE  /\ recipients'[r].status = "completed" => Completed(r)'
                      /\ \A f \in file' : f.recipients[r].status = "completed" => Completed(r)'
                      /\ success_dsn'[r] > 0 => Completed(r)'
    BY DEF CompletedInv
  <2>1. Completed(r) => Completed(r)'  BY <1>1 DEF Completed
  <2>2. recipients'[r].status = "completed" => Completed(r)'
    BY <1>4, <2>1 DEF DeliveryInv, CompletedInv, Completed
  <2>3. \A f \in file' : f.recipients[r].status = "completed" => Completed(r)'
    BY <1>5, <2>1, <2>2 DEF DeliveryInv, CompletedInv
  <2> QED BY <1>1, <2>1, <2>2, <2>3 DEF DeliveryInv, CompletedInv
<1>8. HonestInv'
  <2> SUFFICES ASSUME crashes' + lost' = 0, NEW r \in Rcpts
               PROVE  /\ delivered'[r] > 0 => recipients'[r].status = "completed"
                      /\ failed_dsn'[r] > 0 => /\ delivered'[r] = 0
                                               /\ \/ ~Pending(recipients'[r].status)
                                                  \/ ~Pending(domains'[DomainOf[r]].status)
    BY DEF HonestInv
  <2>1. /\ delivered[r] > 0 => recipients[r].status = "completed"
        /\ failed_dsn[r] > 0 => /\ delivered[r] = 0
                                /\ \/ ~Pending(recipients[r].status)
                                   \/ ~Pending(domains[DomainOf[r]].status)
    BY <1>1 DEF DeliveryInv, HonestInv
  <2>2. ~Pending(domains[DomainOf[r]].status) => ~Pending(domains'[DomainOf[r]].status)
    BY DomainType DEF SaveOf, SaveEffect
  <2>3. ~Pending(recipients[r].status) => ~Pending(recipients'[r].status)
    BY <1>4 DEF Pending
  <2>4. recipients[r].status = "completed" => recipients'[r].status = "completed"
    BY <1>4
  <2> QED BY <1>1, <2>1, <2>2, <2>3, <2>4
<1>9. AnsweredInv'
  <2> SUFFICES ASSUME NEW r \in Rcpts
               PROVE  /\ \A f \in file' : f.recipients[r].status = "perm_fail" => Answered(r, f.recipients[r])'
                      /\ recipients'[r].status = "perm_fail" => Answered(r, recipients[r])'
    BY DEF AnsweredInv
  <2>1. recipients'[r].status = "perm_fail" => Answered(r, recipients[r])'
    <3>1. recipients'[r].status = "perm_fail" => recipients[r].status = "perm_fail"  BY <1>4
    <3>2. recipients[r].status = "perm_fail" => Answered(r, recipients[r])
      BY DEF DeliveryInv, AnsweredInv, SaveOf
    <3> QED BY <1>1, <1>4, <3>1, <3>2 DEF Answered
  <2>2. \A f \in file' : f.recipients[r].status = "perm_fail" => Answered(r, f.recipients[r])'
    BY <1>1, <1>5, <2>1 DEF DeliveryInv, AnsweredInv, Answered
  <2> QED BY <2>1, <2>2
<1>10. SavedInv'
  <2>1. ASSUME NEW d \in Domains  PROVE ~domains'[d].changed  BY DEF SaveEffect
  <2>2. ASSUME NEW r \in Rcpts  PROVE "changed" \notin recipients'[r].flags  BY <1>4
  <2>3. ASSUME NEW g \in file', NEW d \in Domains  PROVE g.domains[d] = domains'[d].status
    <3>1. CASE doms[d].changed  BY <3>1 DEF SaveEffect
    <3>2. CASE ~doms[d].changed
      <4>1. doms[d] = domains[d]  BY <3>2 DEF SaveOf
      <4>2. PICK f \in file : g.domains[d] = f.domains[d]  BY <3>2 DEF SaveEffect
      <4>3. f.domains[d] = domains[d].status
        BY <3>2, <4>1 DEF DeliveryInv, SavedInv
      <4> QED BY <4>1, <4>2, <4>3 DEF SaveEffect
    <3> QED BY <3>1, <3>2
  <2>4. ASSUME NEW g \in file', NEW r \in Rcpts
        PROVE  /\ "changed" \notin g.recipients[r].flags
               /\ Pending(domains'[DomainOf[r]].status) => g.recipients[r] = recipients'[r]
    <3>1. CASE "changed" \in rcpts[r].flags
      BY <1>4, <1>5, <3>1
    <3>2. CASE "changed" \notin rcpts[r].flags
      <4>1. rcpts[r] = recipients[r] /\ recipients'[r] = recipients[r]
        BY <1>4, <3>2, RecordEffect
      <4>2. PICK f \in file : g.recipients[r] = f.recipients[r]  BY <1>5, <3>2
      <4>3. Pending(domains'[DomainOf[r]].status) => Pending(domains[DomainOf[r]].status)
        BY DomainType DEF SaveOf, SaveEffect, Pending
      <4> QED BY <3>2, <4>1, <4>2, <4>3 DEF DeliveryInv, SavedInv
    <3> QED BY <3>1, <3>2
  <2> QED BY <2>1, <2>2, <2>3, <2>4 DEF SavedInv
<1> QED BY <1>2, <1>3, <1>6, <1>7, <1>8, <1>9, <1>10 DEF DeliveryInv

\* What is removed: nothing of it is left to do, or somebody cancelled it.
RemoveOf ==
  /\ remove /\ pc \in {"queued", "decide", "finish"}
  /\ UNCHANGED <<fixed, todo, delivered, failed_dsn, success_dsn, crashes, lost, errors>>
  /\ cancelled \cap Rcpts \subseteq cancelled' /\ cancels' \in Nat
  /\ pc = "queued" => cancels' > 0
  /\ \A r \in Rcpts : \/ r \in cancelled'
                      \/ ~Pending(domains[DomainOf[r]].status)
                      \/ pc = "queued" /\ ~Pending(recipients[r].status)

\* The removal of the message keeps the invariant.
LEMMA RemoveKeeps ==
  ASSUME DeliveryInv, RemoveOf
  PROVE  DeliveryInv'
<1>1. /\ UNCHANGED <<domains, recipients, notify, return_path, todo, delivered, failed_dsn,
                     success_dsn, crashes, lost, errors>>
      /\ file' = {} /\ pc' = "gone" /\ pc \in {"queued", "decide", "finish"}
      /\ cancelled \cap Rcpts \subseteq cancelled' /\ cancels' \in Nat
  BY DEF RemoveOf, remove, memory, fixed
<1>2. TypeInv'  BY <1>1 DEF DeliveryInv, TypeInv
<1>3. VisitInv'  BY <1>1 DEF VisitInv
<1>4. OnceInv'  BY <1>1 DEF DeliveryInv, OnceInv
<1>5. CompletedInv'  BY <1>1 DEF DeliveryInv, CompletedInv, Completed
<1>6. HonestInv'  BY <1>1 DEF DeliveryInv, HonestInv
<1>7. AnsweredInv'  BY <1>1 DEF DeliveryInv, AnsweredInv, Answered
<1>8. SavedInv'  BY <1>1 DEF SavedInv
<1> QED BY <1>2, <1>3, <1>4, <1>5, <1>6, <1>7, <1>8 DEF DeliveryInv

\* A restart keeps the invariant.
LEMMA LoadKeeps ==
  ASSUME DeliveryInv, DeliveryAssumption, NEW g, LoadEffect(g)
  PROVE  DeliveryInv'
<1> USE DEF Counts
<1>1. /\ TypeInv /\ pc' = "queued" /\ crashes' = crashes + 1 /\ file' = {g}
      /\ UNCHANGED <<notify, delivered, failed_dsn, success_dsn, cancelled, lost>>
  BY DEF DeliveryInv, LoadEffect, fixed, ghosts
<1>2. TypeInv'  BY <1>1 DEF TypeInv, LoadEffect, fixed
<1>3. VisitInv'  BY <1>1 DEF VisitInv
<1>4. ASSUME NEW r \in Rcpts
      PROVE  /\ recipients'[r] = g.recipients[r]
             /\ \/ \E f \in file : recipients'[r] = f.recipients[r]
                \/ /\ pc \in {"decide", "finish"}
                   /\ recipients'[r].status = recipients[r].status
                   /\ recipients'[r].flags = recipients[r].flags \ {"changed"}
  BY <1>1, RecordEffect DEF LoadEffect, TypeInv
<1>5. OnceInv'
  <2> SUFFICES ASSUME NEW r \in Rcpts
               PROVE  /\ delivered'[r] <= crashes' + lost'
                                            + (IF Pending(recipients'[r].status) THEN 0 ELSE 1)
                      /\ failed_dsn'[r] <= crashes'
                                            + (IF "dsn_sent" \in recipients'[r].flags THEN 1 ELSE 0)
                      /\ success_dsn'[r] <= crashes'
                                            + (IF "dsn_sent" \in recipients'[r].flags THEN 1 ELSE 0)
    BY DEF OnceInv
  <2>1. /\ delivered[r] <= crashes + lost + (IF Pending(recipients[r].status) THEN 0 ELSE 1)
        /\ failed_dsn[r] <= crashes + (IF "dsn_sent" \in recipients[r].flags THEN 1 ELSE 0)
        /\ success_dsn[r] <= crashes + (IF "dsn_sent" \in recipients[r].flags THEN 1 ELSE 0)
        /\ delivered[r] \in Nat /\ failed_dsn[r] \in Nat /\ success_dsn[r] \in Nat
        /\ crashes \in Nat /\ lost \in Nat
    BY <1>1 DEF DeliveryInv, OnceInv, TypeInv
  <2> QED BY <1>1, <2>1
<1>6. CompletedInv'
  BY <1>1, <1>4 DEF DeliveryInv, CompletedInv, Completed
<1>7. HonestInv'  BY <1>1 DEF HonestInv, TypeInv
<1>8. AnsweredInv'
  <2> SUFFICES ASSUME NEW r \in Rcpts, recipients'[r].status = "perm_fail"
               PROVE  Answered(r, recipients[r])'
    BY <1>1, <1>4 DEF AnsweredInv, Answered
  <2>1. CASE \E f \in file : recipients'[r] = f.recipients[r]
    BY <1>1, <2>1 DEF DeliveryInv, AnsweredInv, Answered
  <2>2. CASE /\ pc \in {"decide", "finish"}
             /\ recipients'[r].status = recipients[r].status
             /\ recipients'[r].flags = recipients[r].flags \ {"changed"}
    BY <1>1, <2>2 DEF DeliveryInv, AnsweredInv, Answered
  <2> QED BY <1>4, <2>1, <2>2
<1>9. SavedInv'
  <2>1. ASSUME NEW r \in Rcpts  PROVE "changed" \notin recipients'[r].flags
    BY <1>4 DEF DeliveryInv, SavedInv
  <2> QED BY <1>1, <1>4, <2>1 DEF SavedInv, LoadEffect
<1> QED BY <1>2, <1>3, <1>5, <1>6, <1>7, <1>8, <1>9 DEF DeliveryInv

\* The start of an attempt keeps the invariant.
LEMMA TryKeeps ==
  ASSUME DeliveryInv, DeliveryAssumption, TryEffect
  PROVE  DeliveryInv'
<1> USE DEF Counts
<1>1. /\ TypeInv /\ pc = "queued" /\ pc' = "first_dsn"
      /\ UNCHANGED <<notify, todo, file, delivered, failed_dsn, success_dsn, cancelled, crashes, lost>>
  BY DEF DeliveryInv, TryEffect, fixed, ghosts, bounds
<1>2. TypeInv'  BY <1>1 DEF TypeInv, TryEffect, fixed, ghosts, bounds
<1>3. VisitInv'  BY <1>1 DEF VisitInv
<1>4. ASSUME NEW r \in Rcpts
      PROVE  /\ recipients'[r].flags = recipients[r].flags
             /\ \/ recipients'[r] = recipients[r]
                \/ /\ recipients[r].status = "temp_fail" /\ recipients'[r].status = "perm_fail"
                   /\ ~Pending(domains'[DomainOf[r]].status)
             /\ Pending(domains'[DomainOf[r]].status) => domains'[DomainOf[r]] = domains[DomainOf[r]]
  BY DomainType DEF TryEffect, Pending
<1>5. OnceInv'
  <2> SUFFICES ASSUME NEW r \in Rcpts
               PROVE  /\ delivered'[r] <= crashes' + lost'
                                            + (IF Pending(recipients'[r].status) THEN 0 ELSE 1)
                      /\ failed_dsn'[r] <= crashes'
                                            + (IF "dsn_sent" \in recipients'[r].flags THEN 1 ELSE 0)
                      /\ success_dsn'[r] <= crashes'
                                            + (IF "dsn_sent" \in recipients'[r].flags THEN 1 ELSE 0)
    BY DEF OnceInv
  <2>1. /\ delivered[r] <= crashes + lost + (IF Pending(recipients[r].status) THEN 0 ELSE 1)
        /\ failed_dsn[r] <= crashes + (IF "dsn_sent" \in recipients[r].flags THEN 1 ELSE 0)
        /\ success_dsn[r] <= crashes + (IF "dsn_sent" \in recipients[r].flags THEN 1 ELSE 0)
        /\ delivered[r] \in Nat /\ crashes \in Nat /\ lost \in Nat
    BY <1>1 DEF DeliveryInv, OnceInv, TypeInv
  <2>2. Pending(recipients'[r].status) => Pending(recipients[r].status)
    BY <1>4 DEF Pending
  <2> QED BY <1>1, <1>4, <2>1, <2>2
<1>6. CompletedInv'
  BY <1>1, <1>4 DEF DeliveryInv, CompletedInv, Completed
<1>7. HonestInv'
  <2> SUFFICES ASSUME crashes' + lost' = 0, NEW r \in Rcpts
               PROVE  /\ delivered'[r] > 0 => recipients'[r].status = "completed"
                      /\ failed_dsn'[r] > 0 => /\ delivered'[r] = 0
                                               /\ \/ ~Pending(recipients'[r].status)
                                                  \/ ~Pending(domains'[DomainOf[r]].status)
    BY DEF HonestInv
  <2>1. /\ delivered[r] > 0 => recipients[r].status = "completed"
        /\ failed_dsn[r] > 0 => /\ delivered[r] = 0
                                /\ \/ ~Pending(recipients[r].status)
                                   \/ ~Pending(domains[DomainOf[r]].status)
    BY <1>1 DEF DeliveryInv, HonestInv
  <2> QED BY <1>1, <1>4, <2>1
<1>8. AnsweredInv'
  BY <1>1, <1>4 DEF DeliveryInv, AnsweredInv, Answered
<1>9. SavedInv'
  <2>1. ASSUME NEW f \in file', NEW d \in Domains, ~domains'[d].changed
        PROVE  f.domains[d] = domains'[d].status
    BY <1>1, <2>1 DEF DeliveryInv, SavedInv, TryEffect
  <2> QED BY <1>1, <1>4, <2>1 DEF DeliveryInv, SavedInv
<1> QED BY <1>2, <1>3, <1>5, <1>6, <1>7, <1>8, <1>9 DEF DeliveryInv

\* A step that leaves the message, its file and all accounts alone.
QuietEffect ==
  /\ UNCHANGED <<domains, recipients, fixed, file, ghosts, bounds>>
  /\ \/ UNCHANGED <<pc, todo>>
     \/ /\ pc = "decide" /\ pc' = "run"
        /\ todo' \in SUBSET {d \in Domains : Pending(domains[d].status)}
     \/ pc = "run" /\ pc' = "second_dsn" /\ UNCHANGED todo

\* A step that changes neither statuses nor files keeps the invariant.
LEMMA QuietKeeps ==
  ASSUME DeliveryInv, QuietEffect
  PROVE  DeliveryInv'
<1>1. /\ UNCHANGED <<domains, recipients, notify, return_path, file, delivered, failed_dsn,
                     success_dsn, cancelled, crashes, lost, errors, cancels>>
      /\ todo' = todo \/ todo' \in SUBSET {d \in Domains : Pending(domains[d].status)}
  BY DEF QuietEffect, fixed, ghosts, bounds
<1>2. TypeInv'  BY <1>1 DEF DeliveryInv, TypeInv
<1>3. VisitInv'  BY <1>1 DEF DeliveryInv, VisitInv, QuietEffect
<1>4. OnceInv'  BY <1>1 DEF DeliveryInv, OnceInv
<1>5. CompletedInv'  BY <1>1 DEF DeliveryInv, CompletedInv, Completed
<1>6. HonestInv'  BY <1>1 DEF DeliveryInv, HonestInv
<1>7. AnsweredInv'  BY <1>1 DEF DeliveryInv, AnsweredInv, Answered, QuietEffect
<1>8. SavedInv'  BY <1>1 DEF DeliveryInv, SavedInv, QuietEffect
<1> QED BY <1>2, <1>3, <1>4, <1>5, <1>6, <1>7, <1>8 DEF DeliveryInv

\* Every step is one of these.
StepEffect ==
  \/ QuietEffect
  \/ TryEffect
  \/ /\ DsnEffect
     /\ (pc = "first_dsn" /\ pc' = "decide") \/ (pc = "second_dsn" /\ pc' = "finish")
  \/ \E d \in Domains : VisitEffect(d)
  \/ \E doms \in [Domains -> Domain], rcpts \in [Rcpts -> Recipient] :
        SaveOf(doms, rcpts) /\ SaveEffect(doms, rcpts)
  \/ RemoveOf
  \/ \E g : LoadEffect(g)

\* The cancellation of a message or of recipients is a removal or a save.
LEMMA CancelSteps ==
  ASSUME TypeInv, DeliveryAssumption,
         Cancel \/ \E R \in SUBSET Rcpts : CancelItem(R)
  PROVE  StepEffect
<1>1. CASE Cancel
  <2>1. RemoveOf
    BY <1>1 DEF Cancel, RemoveOf, TypeInv
  <2> QED BY <2>1 DEF StepEffect
<1>2. ASSUME NEW R \in SUBSET Rcpts, CancelItem(R)  PROVE StepEffect
  <2> DEFINE rcpts == [r \in Rcpts |-> IF r \in R
                                       THEN [status |-> "completed",
                                             flags |-> recipients[r].flags \cup {"changed"}]
                                       ELSE recipients[r]]
             closed == {d \in Domains : /\ Pending(domains[d].status)
                                        /\ \A r \in RcptsOf(d) : ~Pending(rcpts[r].status)}
             doms == [d \in Domains |-> IF d \in closed
                                        THEN [status |-> "completed", changed |-> TRUE]
                                        ELSE domains[d]]
  <2>1. /\ pc = "queued" /\ cancels' = cancels + 1 /\ cancelled' = cancelled \cup R
        /\ UNCHANGED <<fixed, todo, delivered, failed_dsn, success_dsn, crashes, lost, errors>>
        /\ cancels \in Nat
    BY <1>2 DEF CancelItem, TypeInv
  <2>2. /\ rcpts \in [Rcpts -> Recipient]
        /\ \A r \in Rcpts : /\ r \notin R => rcpts[r] = recipients[r]
                            /\ r \in R => /\ rcpts[r].status = "completed"
                                          /\ rcpts[r].flags = recipients[r].flags \cup {"changed"}
    BY DEF TypeInv, Recipient, Status
  <2>3. \A d \in closed : Pending(domains[d].status)
                            /\ \A r \in RcptsOf(d) : ~Pending(rcpts[r].status)
    OBVIOUS
  <2> HIDE DEF rcpts
  <2>4. /\ doms \in [Domains -> Domain]
        /\ \A d \in Domains : /\ d \notin closed => doms[d] = domains[d]
                              /\ d \in closed => doms[d].status = "completed" /\ doms[d].changed
    BY DEF TypeInv, Domain, Status
  <2>5. \/ save_changes(doms, rcpts) /\ UNCHANGED pc
        \/ remove /\ \A d \in Domains : ~Pending(doms[d].status)
    BY <1>2 DEF CancelItem, rcpts
  <2> HIDE DEF closed, doms
  <2>6. CASE save_changes(doms, rcpts) /\ UNCHANGED pc
    <3>1. SaveEffect(doms, rcpts)  BY <2>2, <2>4, <2>6, SaveSteps
    <3>2. SaveOf(doms, rcpts)
      BY <2>1, <2>2, <2>3, <2>4, <2>6 DEF SaveOf
    <3> QED BY <2>2, <2>4, <3>1, <3>2 DEF StepEffect
  <2>7. CASE remove /\ \A d \in Domains : ~Pending(doms[d].status)
    <3>1. ASSUME NEW r \in Rcpts
          PROVE  \/ r \in cancelled'
                 \/ ~Pending(domains[DomainOf[r]].status)
                 \/ ~Pending(recipients[r].status)
      <4>1. DomainOf[r] \in Domains /\ r \in RcptsOf(DomainOf[r])  BY DomainType DEF RcptsOf
      <4>2. CASE DomainOf[r] \in closed  BY <2>1, <2>2, <2>3, <4>1, <4>2
      <4>3. CASE DomainOf[r] \notin closed  BY <2>4, <2>7, <4>1, <4>3
      <4> QED BY <4>2, <4>3
    <3>2. RemoveOf  BY <2>1, <2>7, <3>1 DEF RemoveOf
    <3> QED BY <3>2 DEF StepEffect
  <2> QED BY <2>5, <2>6, <2>7
<1> QED BY <1>1, <1>2

\* Every step has one of the effects.
LEMMA StepEffects ==
  ASSUME TypeInv, DeliveryAssumption, [Next]_vars
  PROVE  StepEffect
<1>0. /\ domains \in [Domains -> Domain] /\ recipients \in [Rcpts -> Recipient] /\ cancels \in Nat
  BY DEF TypeInv
<1>1. CASE UNCHANGED vars
  <2>1. QuietEffect  BY <1>1 DEF vars, QuietEffect, memory
  <2> QED BY <2>1 DEF StepEffect
<1>2. CASE TryDeliver
  BY <1>2, TrySteps DEF StepEffect
<1>3. CASE SendDsn("first_dsn", "decide") \/ SendDsn("second_dsn", "finish")
  <2>1. /\ DsnEffect
        /\ (pc = "first_dsn" /\ pc' = "decide") \/ (pc = "second_dsn" /\ pc' = "finish")
    <3>1. CASE SendDsn("first_dsn", "decide")  BY <3>1, DsnSteps
    <3>2. CASE SendDsn("second_dsn", "finish")  BY <3>2, DsnSteps
    <3> QED BY <1>3, <3>1, <3>2
  <2> QED BY <2>1 DEF StepEffect
<1>4. ASSUME /\ pc \in {"decide", "finish"} /\ ~HasPending /\ remove
             /\ UNCHANGED <<fixed, expired, todo, ghosts, bounds>>
      PROVE  StepEffect
  <2>1. \A r \in Rcpts : ~Pending(domains[DomainOf[r]].status)
    BY <1>4, DomainType DEF HasPending
  <2>2. RemoveOf  BY <1>0, <1>4, <2>1 DEF RemoveOf, ghosts, bounds
  <2> QED BY <2>2 DEF StepEffect
<1>5. ASSUME /\ pc \in {"decide", "finish"} /\ pc' = "queued" /\ save_changes(domains, recipients)
             /\ UNCHANGED <<fixed, expired, todo, ghosts, bounds>>
      PROVE  StepEffect
  <2>1. SaveEffect(domains, recipients)  BY <1>0, <1>5, SaveSteps
  <2>2. SaveOf(domains, recipients)  BY <1>0, <1>5 DEF SaveOf, ghosts, bounds
  <2> QED BY <1>0, <2>1, <2>2 DEF StepEffect
<1>6. CASE Expired \/ Requeue \/ Finish
  BY <1>4, <1>5, <1>6 DEF Expired, Requeue, Finish
<1>7. CASE Spawn \/ EndDomains \/ \E d \in Domains : Expire(d)
  <2>1. QuietEffect
    BY <1>7 DEF Spawn, EndDomains, Expire, QuietEffect, memory
  <2> QED BY <2>1 DEF StepEffect
<1>8. ASSUME NEW d \in Domains,
             NotStarted(d) \/ Aborted(d) \/ DataRefused(d) \/ ReplyLost(d) \/ Transacted(d)
      PROVE  StepEffect
  BY <1>8, VisitSteps DEF StepEffect
<1>9. CASE Crash \/ CrashWhileSaving
  BY <1>9, LoadSteps DEF StepEffect
<1>10. CASE Cancel \/ \E R \in SUBSET Rcpts : CancelItem(R)
  BY <1>10, CancelSteps
<1> QED BY <1>1, <1>2, <1>3, <1>6, <1>7, <1>8, <1>9, <1>10 DEF Next, InAttempt

\* Every step of the message's life keeps the invariant.
LEMMA DeliveryStep ==
  ASSUME DeliveryInv, DeliveryAssumption, [Next]_vars
  PROVE  DeliveryInv'
<1>1. TypeInv  BY DEF DeliveryInv
<1>2. StepEffect  BY <1>1, StepEffects
<1> QED BY <1>2, QuietKeeps, TryKeeps, DsnKeeps, VisitKeeps, SaveKeeps, RemoveKeeps, LoadKeeps
        DEF StepEffect

\* A new message is on disk as it is in memory.
LEMMA DeliveryInit ==
  ASSUME Init, DeliveryAssumption
  PROVE  DeliveryInv
<1>1. TypeInv
  BY DEF Init, TypeInv, Domain, Recipient, File, Counts, Status
<1>2. VisitInv  BY DEF Init, VisitInv
<1>3. OnceInv  BY DEF Init, OnceInv, Pending
<1>4. CompletedInv  BY DEF Init, CompletedInv, Completed
<1>5. HonestInv  BY DEF Init, HonestInv
<1>6. AnsweredInv  BY DEF Init, AnsweredInv
<1>7. SavedInv  BY DomainType DEF Init, SavedInv
<1> QED BY <1>1, <1>2, <1>3, <1>4, <1>5, <1>6, <1>7 DEF DeliveryInv

\* The invariant holds in every state of a message's life.
LEMMA DeliveryReachable == Spec => []DeliveryInv
<1>1. Init => DeliveryInv  BY DeliveryInit, DeliveryAssumption
<1>2. DeliveryInv /\ [Next]_vars => DeliveryInv'  BY DeliveryStep, DeliveryAssumption
<1> QED BY <1>1, <1>2, PTL DEF Spec

-----------------------------------------------------------------------------
(* Every failure is accounted for, or is one of those build_dsn passes over *)

\* Outside a report an outcome of a recipient's own is accounted for.
LEMMA OutcomeAccounted ==
  ASSUME DeliveryInv, NEW r \in Rcpts, AccountOf(r), ~Pending(recipients[r].status), ~ReportDue
  PROVE  Accounted(r)
<1>1. recipients[r].status \in {"completed", "perm_fail"}
  BY DEF DeliveryInv, TypeInv, Recipient, Status, Pending
<1>2. CASE recipients[r].status = "completed"
  BY <1>2 DEF DeliveryInv, CompletedInv, Completed, Accounted
<1>3. CASE recipients[r].status = "perm_fail"
  <2>1. Answered(r, recipients[r])  BY <1>3 DEF DeliveryInv, AnsweredInv, ReportDue
  <2> QED BY <2>1 DEF Answered, AccountOf, Accounted
<1> QED BY <1>1, <1>2, <1>3

\* A quiet step keeps the account of every recipient.
LEMMA QuietAccounts ==
  ASSUME QuietEffect, AccountInv
  PROVE  AccountInv'
<1>1. UNCHANGED <<domains, recipients, notify, return_path, file, delivered, failed_dsn,
                  cancelled, errors, crashes, cancels>>
  BY DEF QuietEffect, fixed, ghosts, bounds
<1>2. ASSUME NEW r \in Rcpts, AccountOf(r)  PROVE AccountOf(r)'
  BY <1>1, <1>2 DEF AccountOf, Accounted, ReportDue, QuietEffect
<1> QED BY <1>1, <1>2 DEF AccountInv

\* The start of an attempt keeps the account of every recipient.
LEMMA TryAccounts ==
  ASSUME DeliveryInv, DeliveryAssumption, TryEffect, AccountInv
  PROVE  AccountInv'
<1>1. /\ UNCHANGED <<notify, return_path, file, delivered, failed_dsn, cancelled, errors>>
      /\ pc = "queued" /\ pc' = "first_dsn"
  BY DEF TryEffect, fixed, ghosts, bounds
<1>2. ASSUME NEW r \in Rcpts, AccountOf(r)  PROVE AccountOf(r)'
  <2>1. Accounted(r)' <=> Accounted(r)  BY <1>1 DEF Accounted
  <2>2. recipients'[r].flags = recipients[r].flags  BY DEF TryEffect
  <2>3. domains'[DomainOf[r]].status = "completed" => domains[DomainOf[r]].status = "completed"
    BY DomainType DEF TryEffect
  <2>4. ReportDue' /\ ~ReportDue  BY <1>1 DEF ReportDue
  <2> QED BY <1>1, <1>2, <2>1, <2>2, <2>3, <2>4 DEF AccountOf
<1> QED BY <1>1, <1>2 DEF AccountInv

\* A DSN accounts for everyone who had a report to come.
LEMMA DsnAccounts ==
  ASSUME DeliveryInv, DeliveryAssumption, DsnEffect,
         (pc = "first_dsn" /\ pc' = "decide") \/ (pc = "second_dsn" /\ pc' = "finish"), AccountInv
  PROVE  AccountInv'
<1>1. /\ UNCHANGED <<domains, notify, return_path, file, delivered, cancelled>>
      /\ errors' = 0 => errors = 0
      /\ TypeInv /\ pc' # "gone"
  BY DEF DeliveryInv, DsnEffect, fixed
<1>2. ASSUME NEW r \in Rcpts, AccountOf(r), errors' = 0, return_path = "sender"
      PROVE  AccountOf(r)'
  <2>1. /\ failed_dsn[r] \in Nat /\ failed_dsn'[r] \in Nat
        /\ failed_dsn'[r] = failed_dsn[r] \/ failed_dsn'[r] = failed_dsn[r] + 1
    BY <1>1 DEF DsnEffect, TypeInv, Counts
  <2>2. Accounted(r) => Accounted(r)'  BY <1>1, <2>1 DEF Accounted
  <2>3. r \in Failed => Accounted(r)'
    <3>1. r \in Failed /\ "failure" \in notify[r] => failed_dsn'[r] = failed_dsn[r] + 1
      BY <1>2 DEF DsnEffect, Failed, Succeeded
    <3> QED BY <1>1, <2>1, <3>1 DEF Accounted
  <2>4. r \in Succeeded => Accounted(r)'
    <3>1. r \in Succeeded => Completed(r)
      BY DEF DeliveryInv, CompletedInv, Succeeded
    <3> QED BY <2>2, <3>1 DEF Completed, Accounted
  <2>5. "dsn_sent" \in recipients'[r].flags => Accounted(r)'
    BY <1>2, <2>2, <2>3, <2>4 DEF AccountOf, DsnEffect
  <2>6. ASSUME \/ recipients[r].status = "perm_fail"
               \/ recipients[r].status = "scheduled" /\ domains[DomainOf[r]].status = "perm_fail"
        PROVE  Accounted(r)'
    <3>1. CASE Answered(r, recipients[r])
      BY <1>2, <2>2, <3>1 DEF Answered, AccountOf, Accounted
    <3>2. CASE ~Answered(r, recipients[r])
      <4>1. r \in Failed  BY <2>6, <3>2 DEF Answered, Failed, Unreported
      <4> QED BY <2>3, <4>1
    <3> QED BY <3>1, <3>2
  <2>7. recipients'[r].status = recipients[r].status  BY DEF DsnEffect
  <2> QED BY <1>1, <1>2, <2>2, <2>5, <2>6, <2>7 DEF AccountOf
<1> QED BY <1>1, <1>2 DEF AccountInv

\* A visit keeps the account of every recipient.
LEMMA VisitAccounts ==
  ASSUME DeliveryInv, DeliveryAssumption, NEW d \in Domains, VisitEffect(d), AccountInv
  PROVE  AccountInv'
<1>1. /\ UNCHANGED <<notify, return_path, file, failed_dsn, cancelled, errors>>
      /\ pc = "run" /\ pc' = "run" /\ TypeInv /\ TypeInv' /\ ReportDue'
  BY VisitKeeps DEF DeliveryInv, VisitEffect, fixed, ReportDue
<1>2. ASSUME NEW r \in Rcpts, AccountOf(r)  PROVE AccountOf(r)'
  <2>1. /\ delivered[r] \in Nat /\ delivered'[r] \in Nat
        /\ delivered'[r] = delivered[r] \/ delivered'[r] = delivered[r] + 1
    BY <1>1 DEF VisitEffect, Undecided, Decided, TypeInv, Counts
  <2>2. Accounted(r) => Accounted(r)'  BY <1>1, <2>1 DEF Accounted
  <2>3. "dsn_sent" \in recipients'[r].flags => Accounted(r)'
    BY <1>2, <2>2 DEF VisitEffect, Undecided, Decided, AccountOf
  <2>4. ASSUME domains'[DomainOf[r]].status = "completed"
        PROVE  Accounted(r)' \/ recipients'[r].status = "perm_fail"
    <3>1. CASE DomainOf[r] = d
      <4>1. ~Pending(recipients'[r].status)  BY <2>4, <3>1 DEF VisitEffect, RcptsOf
      <4>2. recipients'[r].status \in {"completed", "perm_fail"}
        BY <1>1, <4>1 DEF TypeInv, Recipient, Status, Pending
      <4>3. CASE recipients'[r].status = "completed"
        <5>1. Completed(r)'  BY <4>3, VisitKeeps DEF DeliveryInv, CompletedInv
        <5> QED BY <5>1 DEF Completed, Accounted
      <4> QED BY <4>2, <4>3
    <3>2. CASE DomainOf[r] # d
      <4>1. domains'[DomainOf[r]] = domains[DomainOf[r]] /\ recipients'[r] = recipients[r]
        BY <3>2, DomainType DEF VisitEffect, Undecided, Decided
      <4> QED BY <1>2, <2>2, <2>4, <4>1 DEF AccountOf
    <3> QED BY <3>1, <3>2
  <2> QED BY <1>1, <1>2, <2>2, <2>3, <2>4 DEF AccountOf
<1> QED BY <1>1, <1>2 DEF AccountInv

\* A save keeps the account of every recipient.
LEMMA SaveAccounts ==
  ASSUME DeliveryInv, DeliveryAssumption,
         NEW doms \in [Domains -> Domain], NEW rcpts \in [Rcpts -> Recipient],
         SaveOf(doms, rcpts), SaveEffect(doms, rcpts), AccountInv
  PROVE  AccountInv'
<1>1. /\ UNCHANGED <<notify, return_path, delivered, failed_dsn, errors, crashes>>
      /\ cancelled \subseteq cancelled' /\ pc' = "queued"
      /\ pc \in {"queued", "decide", "finish"} /\ ~ReportDue
  BY DEF SaveOf, fixed, ReportDue
<1>2. ASSUME NEW r \in Rcpts, AccountOf(r)  PROVE AccountOf(r)'
  <2>1. Accounted(r) => Accounted(r)'  BY <1>1 DEF Accounted
  <2>2. /\ recipients'[r].status = rcpts[r].status
        /\ recipients'[r].flags = rcpts[r].flags \ {"changed"}
        /\ \/ rcpts[r] = recipients[r]
           \/ /\ r \in cancelled' /\ rcpts[r].status = "completed"
              /\ rcpts[r].flags = recipients[r].flags \cup {"changed"}
    BY RecordEffect DEF SaveEffect, SaveOf
  <2>3. "dsn_sent" \in recipients'[r].flags => Accounted(r)'
    BY <1>2, <2>1, <2>2 DEF AccountOf
  <2>4. ASSUME ~Pending(rcpts[r].status)  PROVE Accounted(r)'
    <3>1. CASE r \in cancelled'  BY <3>1 DEF Accounted
    <3>2. CASE rcpts[r] = recipients[r]  BY <1>1, <1>2, <2>1, <2>4, <3>2, OutcomeAccounted
    <3> QED BY <2>2, <3>1, <3>2
  <2>5. DomainOf[r] \in Domains /\ r \in RcptsOf(DomainOf[r])  BY DomainType DEF RcptsOf
  <2>6. doms[DomainOf[r]].status = "completed" => Accounted(r)'
    <3>1. CASE doms[DomainOf[r]] = domains[DomainOf[r]]
      BY <1>1, <1>2, <2>1, <3>1 DEF AccountOf
    <3>2. CASE doms[DomainOf[r]] # domains[DomainOf[r]]
      BY <2>4, <2>5, <3>2 DEF SaveOf
    <3> QED BY <3>1, <3>2
  <2>7. doms[DomainOf[r]].status = "perm_fail" /\ rcpts[r].status = "scheduled" =>
          Accounted(r)' \/ crashes' > 0
    <3>1. doms[DomainOf[r]].status = "perm_fail" => doms[DomainOf[r]] = domains[DomainOf[r]]
      BY <2>5 DEF SaveOf
    <3>2. rcpts[r].status = "scheduled" => rcpts[r] = recipients[r]  BY <2>2
    <3> QED BY <1>1, <1>2, <2>1, <3>1, <3>2 DEF AccountOf
  <2>8. domains'[DomainOf[r]].status = doms[DomainOf[r]].status  BY <2>5 DEF SaveEffect
  <2>9. ASSUME NEW g \in file'
        PROVE  /\ "dsn_sent" \in g.recipients[r].flags => Accounted(r)'
               /\ g.domains[DomainOf[r]] = "completed" => Accounted(r)'
    <3>1. PICK f \in file :
            /\ \A d \in Domains : g.domains[d] = IF doms[d].changed THEN doms[d].status
                                                 ELSE f.domains[d]
            /\ \A q \in Rcpts : g.recipients[q] = IF "changed" \in rcpts[q].flags
                                                  THEN recipients'[q] ELSE f.recipients[q]
      BY DEF SaveEffect
    <3>2. g.recipients[r] = recipients'[r] \/ g.recipients[r] = f.recipients[r]  BY <3>1
    <3>3. g.domains[DomainOf[r]] = doms[DomainOf[r]].status
            \/ g.domains[DomainOf[r]] = f.domains[DomainOf[r]]
      BY <2>5, <3>1
    <3> QED BY <1>2, <2>1, <2>3, <2>6, <3>2, <3>3 DEF AccountOf
  <2> QED BY <1>1, <2>2, <2>3, <2>6, <2>7, <2>8, <2>9 DEF AccountOf
<1> QED BY <1>1, <1>2 DEF AccountInv

\* The removal of a message keeps the account of every recipient.
LEMMA RemoveAccounts ==
  ASSUME DeliveryInv, DeliveryAssumption, RemoveOf, AccountInv
  PROVE  AccountInv'
<1>1. /\ UNCHANGED <<domains, recipients, notify, return_path, delivered, failed_dsn, errors,
                     crashes>>
      /\ file' = {} /\ pc' = "gone" /\ pc \in {"queued", "decide", "finish"} /\ ~ReportDue
      /\ cancelled \cap Rcpts \subseteq cancelled'
      /\ pc = "queued" => cancels' > 0
  BY DEF RemoveOf, remove, memory, fixed, ReportDue
<1>2. ASSUME NEW r \in Rcpts, AccountOf(r)  PROVE AccountOf(r)'
  <2>1. Accounted(r) => Accounted(r)'  BY <1>1 DEF Accounted
  <2> DEFINE status == recipients[r].status
             domain == domains[DomainOf[r]].status
  <2>2. \/ Accounted(r)'
        \/ /\ domain = "perm_fail"
           /\ status = "temp_fail" \/ (status = "scheduled" /\ crashes > 0 /\ cancels' > 0)
    <3>1. CASE r \in cancelled'  BY <3>1 DEF Accounted
    <3>2. CASE ~Pending(status)  BY <1>1, <1>2, <2>1, <3>2, OutcomeAccounted
    <3>3. CASE ~Pending(domain) /\ Pending(status)
      <4>1. domain \in {"completed", "perm_fail"}
        BY <3>3, DomainType DEF DeliveryInv, TypeInv, Domain, Status, Pending
      <4>2. CASE domain = "completed"  BY <1>1, <1>2, <2>1, <4>2 DEF AccountOf
      <4>3. CASE domain = "perm_fail"
        BY <1>1, <1>2, <2>1, <3>3, <4>3 DEF AccountOf, Pending
      <4> QED BY <4>1, <4>2, <4>3
    <3> QED BY <3>1, <3>2, <3>3 DEF RemoveOf
  <2> QED BY <1>1, <1>2, <2>1, <2>2 DEF AccountOf
<1> QED BY <1>1, <1>2 DEF AccountInv

\* A restart keeps the account of every recipient.
LEMMA LoadAccounts ==
  ASSUME DeliveryInv, DeliveryAssumption, NEW g, LoadEffect(g), AccountInv
  PROVE  AccountInv'
<1>1. /\ UNCHANGED <<notify, return_path, delivered, failed_dsn, cancelled, errors>>
      /\ pc' = "queued" /\ file' = {g} /\ TypeInv /\ crashes' > 0
  BY DEF DeliveryInv, LoadEffect, fixed, ghosts, TypeInv
<1>2. ASSUME NEW r \in Rcpts, AccountOf(r)  PROVE AccountOf(r)'
  <2>1. Accounted(r)' <=> Accounted(r)  BY <1>1 DEF Accounted
  <2>2. PICK f \in file :
          /\ \A d \in Domains : \/ g.domains[d] = f.domains[d]
                                \/ pc \in {"decide", "finish"} /\ g.domains[d] = domains[d].status
          /\ \A q \in Rcpts : \/ g.recipients[q] = f.recipients[q]
                              \/ /\ pc \in {"decide", "finish"}
                                 /\ g.recipients[q] = Record(recipients[q])
    BY DEF LoadEffect
  <2>3. "dsn_sent" \in g.recipients[r].flags => Accounted(r)
    <3>1. Record(recipients[r]).flags = recipients[r].flags \ {"changed"}
      BY <1>1, RecordEffect DEF TypeInv
    <3>2. CASE g.recipients[r] = f.recipients[r]  BY <1>2, <3>2 DEF AccountOf
    <3>3. CASE g.recipients[r] = Record(recipients[r])  BY <1>2, <3>1, <3>3 DEF AccountOf
    <3> QED BY <2>2, <3>2, <3>3
  <2>4. g.domains[DomainOf[r]] = "completed" => Accounted(r)
    BY <1>2, <2>2, DomainType DEF AccountOf, ReportDue
  <2>5. recipients'[r] = g.recipients[r] /\ domains'[DomainOf[r]].status = g.domains[DomainOf[r]]
    BY DomainType DEF LoadEffect
  <2> QED BY <1>1, <2>1, <2>3, <2>4, <2>5 DEF AccountOf
<1> QED BY <1>1, <1>2 DEF AccountInv

\* Every step keeps the accounts.
LEMMA AccountStep ==
  ASSUME DeliveryInv, DeliveryAssumption, AccountInv, [Next]_vars
  PROVE  AccountInv'
<1>1. TypeInv  BY DEF DeliveryInv
<1>2. StepEffect  BY <1>1, StepEffects
<1> QED BY <1>2, QuietAccounts, TryAccounts, DsnAccounts, VisitAccounts, SaveAccounts,
           RemoveAccounts, LoadAccounts DEF StepEffect

-----------------------------------------------------------------------------
(* Theorems                                                                *)

\* However attempts, crashes (also in the middle of an append), lost replies and
\* cancellations mix, a recipient is given the message once, and once more at most
\* for each crash and each lost reply.
THEOREM DeliveredAtMostOnce == Spec => []DeliveredOnce
<1>1. DeliveryInv => DeliveredOnce
  BY DEF DeliveryInv, TypeInv, OnceInv, DeliveredOnce, Counts
<1> QED BY <1>1, DeliveryReachable, PTL

\* RCPT_DSN_SENT keeps a recipient from being reported twice: only a crash between
\* a report and the record of it makes build_dsn report it again.
THEOREM ReportedAtMostOnce == Spec => []ReportedOnce
<1>1. DeliveryInv => ReportedOnce
  BY DEF DeliveryInv, TypeInv, OnceInv, ReportedOnce, Counts
<1> QED BY <1>1, DeliveryReachable, PTL

\* Success DSNs name only recipients that have the message or were cancelled, and
\* without a crash or a lost reply nobody who has the message is reported as failed.
THEOREM ReportsAreTrue == Spec => []DsnsAreTrue
<1>1. DeliveryInv => DsnsAreTrue
  <2> SUFFICES ASSUME DeliveryInv  PROVE DsnsAreTrue  OBVIOUS
  <2>1. \A r \in Rcpts : success_dsn[r] > 0 => delivered[r] > 0 \/ r \in cancelled
    BY DEF DeliveryInv, CompletedInv, Completed
  <2>2. crashes + lost = 0 => \A r \in Rcpts : delivered[r] = 0 \/ failed_dsn[r] = 0
    BY DEF DeliveryInv, HonestInv, TypeInv, Counts
  <2> QED BY <2>1, <2>2 DEF DsnsAreTrue
<1> QED BY <1>1, DeliveryReachable, PTL

\* Whatever save_changes appended and a crash cut short, the file of a queued message
\* says of its pending domains and their recipients what the queue has.
THEOREM QueuedIsOnDisk == Spec => []QueuedIsSaved
<1>1. DeliveryInv => QueuedIsSaved
  BY DEF DeliveryInv, SavedInv, QueuedIsSaved
<1> QED BY <1>1, DeliveryReachable, PTL

\* An attempt, a report, a save or a removal never changes the outcome of a
\* recipient.
THEOREM OutcomesAreFinal == Spec => OutcomeIsFinal
<1>1. ASSUME DeliveryInv, [Next]_vars, crashes' = crashes, cancels' = cancels,
             NEW r \in Rcpts, ~Pending(recipients[r].status)
      PROVE  recipients'[r].status = recipients[r].status
  <2>1. TypeInv  BY <1>1 DEF DeliveryInv
  <2>2. StepEffect  BY <1>1, <2>1, StepEffects, DeliveryAssumption
  <2>3. CASE QuietEffect  BY <2>3 DEF QuietEffect
  <2>4. CASE TryEffect  BY <1>1, <2>4 DEF TryEffect, Pending
  <2>5. CASE DsnEffect  BY <2>5 DEF DsnEffect
  <2>6. ASSUME NEW d \in Domains, VisitEffect(d)  PROVE recipients'[r].status = recipients[r].status
    BY <1>1, <2>6 DEF VisitEffect, Undecided, Decided
  <2>7. ASSUME NEW doms \in [Domains -> Domain], NEW rcpts \in [Rcpts -> Recipient],
               SaveOf(doms, rcpts), SaveEffect(doms, rcpts)
        PROVE  recipients'[r].status = recipients[r].status
    <3>1. rcpts[r] = recipients[r]  BY <1>1, <2>7 DEF SaveOf
    <3>2. recipients'[r] = Record(rcpts[r])  BY <2>7 DEF SaveEffect
    <3> QED BY <3>1, <3>2, RecordEffect
  <2>8. CASE RemoveOf  BY <2>8 DEF RemoveOf, remove, memory
  <2>9. ASSUME NEW g, LoadEffect(g)  PROVE FALSE
    BY <1>1, <2>1, <2>9 DEF LoadEffect, TypeInv
  <2> QED BY <2>2, <2>3, <2>4, <2>5, <2>6, <2>7, <2>8, <2>9 DEF StepEffect
<1>2. DeliveryInv /\ [Next]_vars =>
        [crashes' = crashes /\ cancels' = cancels =>
           \A r \in Rcpts : ~Pending(recipients[r].status) =>
                              recipients'[r].status = recipients[r].status]_vars
  BY <1>1
<1> QED BY <1>2, DeliveryReachable, PTL DEF Spec, OutcomeIsFinal

\* "(DSN has been already sent)" (delivery.rs), as far as it is true: whatever hosts
\* answer, and however crashes, torn appends, lost replies, expiry and cancellations
\* mix, if every DSN could be written then a recipient is lost without a word only
\* with a temporary failure of its own in a domain that failed for good, or when a
\* crash lost that outcome and a cancellation then removed the message.
THEOREM FailuresAreReported == Spec => []OnlyDeferredLost
<1>1. ASSUME Init  PROVE AccountInv
  BY <1>1, DomainType, DeliveryAssumption DEF Init, AccountInv, AccountOf
<1>2. DeliveryInv /\ AccountInv /\ [Next]_vars => AccountInv'
  BY AccountStep, DeliveryAssumption
<1>3. AccountInv => OnlyDeferredLost
  BY DEF AccountInv, AccountOf, OnlyDeferredLost
<1> QED BY <1>1, <1>2, <1>3, DeliveryReachable, PTL DEF Spec
=============================================================================
