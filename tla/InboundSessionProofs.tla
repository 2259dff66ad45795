----------------------- MODULE InboundSessionProofs -----------------------
(***************************************************************************)
(* The transactions of an SMTP or LMTP session, for every limit, any       *)
(* number of commands and messages of any size.                            *)
(***************************************************************************)
EXTENDS InboundSession, FiniteSetTheorems, TLAPS

-----------------------------------------------------------------------------
(* The inductive invariant                                                 *)

TypeInv ==
  /\ mails \in Nat /\ refused \in SUBSET Nat /\ disowned \in SUBSET Nat
  /\ mail_from \in Nat /\ params \in [Extensions -> Nat]
  /\ rcpt_to \in SUBSET Recipient /\ message \in Seq(Nat)
  /\ messages_sent \in Nat
  /\ chunk.size \in Nat

\* x belongs to the MAIL command in force.
Owned(x) == mail_from # 0 /\ x = mail_from

\* A byte of the message belongs to the MAIL command in force, unless a refused EHLO
\* took the sender of an earlier one away.
OwnByte(x) == Owned(x) \/ (disowned # {} /\ x \in refused \cup disowned)

\* What the transaction consists of belongs to the MAIL command in force, which is
\* the last one, or to one that was refused or disowned since the last reset.
OwnInv ==
  /\ mail_from # 0 => mail_from = mails
  /\ \A r \in rcpt_to : Owned(r.mail) \/ r.mail \in disowned
  /\ rcpt_to # {} => Owned(mails) \/ mails \in refused \cup disowned
  /\ \A e \in Extensions : params[e] \in {0, mail_from} \cup refused \cup disowned
  /\ \A i \in DOMAIN message : OwnByte(message[i])

\* Within DATA the conditions it was accepted under hold.
LimitInv ==
  /\ IsFiniteSet(rcpt_to)
  /\ SessionLimits
  /\ state = "data" => can_send_data

SessionInv == TypeInv /\ OwnInv /\ NoPanic /\ LimitInv /\ OwnTransaction

-----------------------------------------------------------------------------
(* The bytes of a message                                                  *)

\* The elements of a concatenation are those of its parts.
LEMMA ConcatElements ==
  ASSUME NEW s \in Seq(Nat), NEW t \in Seq(Nat), NEW i \in DOMAIN (s \o t)
  PROVE  \/ \E j \in DOMAIN s : (s \o t)[i] = s[j]
         \/ \E j \in DOMAIN t : (s \o t)[i] = t[j]
<1>1. i \in 1..(Len(s) + Len(t))  OBVIOUS
<1>2. Len(s) \in Nat /\ Len(t) \in Nat  OBVIOUS
<1>3. CASE i <= Len(s)
  <2>1. i \in DOMAIN s /\ (s \o t)[i] = s[i]  BY <1>1, <1>2, <1>3
  <2> QED BY <2>1
<1>4. CASE i > Len(s)
  <2>1. i - Len(s) \in DOMAIN t /\ (s \o t)[i] = t[i - Len(s)]  BY <1>1, <1>2, <1>4
  <2> QED BY <2>1
<1> QED BY <1>1, <1>2, <1>3, <1>4

\* A transaction that has recipients and no sender has lost its sender to an EHLO.
LEMMA NoSender ==
  ASSUME OwnInv, rcpt_to # {}, mail_from = 0
  PROVE  disowned # {}
BY DEF OwnInv, Owned

\* Bytes taken while there is a recipient belong to the transaction as the others do.
LEMMA BytesOwned ==
  ASSUME SessionInv, can_send_data, NEW n \in Nat
  PROVE  /\ message \o Bytes(n) \in Seq(Nat)
         /\ \A i \in DOMAIN (message \o Bytes(n)) : OwnByte((message \o Bytes(n))[i])
<1>1. mails \in Nat /\ message \in Seq(Nat) /\ \A i \in DOMAIN message : OwnByte(message[i])
  BY DEF SessionInv, TypeInv, OwnInv
<1>2. OwnByte(mails)
  <2>1. rcpt_to # {} /\ OwnInv  BY DEF can_send_data, SessionInv
  <2>2. CASE mail_from # 0  BY <2>1, <2>2 DEF OwnInv, OwnByte, Owned
  <2>3. CASE mail_from = 0
    <3>1. disowned # {}  BY <2>1, <2>3, NoSender
    <3> QED BY <2>1, <2>3, <3>1 DEF OwnInv, OwnByte, Owned
  <2> QED BY <2>2, <2>3
<1>3. Bytes(n) \in Seq(Nat) /\ \A i \in DOMAIN Bytes(n) : OwnByte(Bytes(n)[i])
  BY <1>1, <1>2 DEF Bytes
<1>4. ASSUME NEW i \in DOMAIN (message \o Bytes(n))  PROVE OwnByte((message \o Bytes(n))[i])
  BY <1>1, <1>3, ConcatElements
<1> QED BY <1>1, <1>3, <1>4

-----------------------------------------------------------------------------
(* Each step keeps the invariant                                           *)

\* A step that leaves the transaction alone.
LEMMA SameTransaction ==
  ASSUME SessionInv, UNCHANGED <<envelope, message, messages_sent, ghosts>>,
         chunk'.size \in Nat, state' # "panicked", state' = "data" => can_send_data,
         queued' = {} \/ UNCHANGED queued
  PROVE  SessionInv'
<1> USE DEF envelope, ghosts
<1>1. TypeInv'  BY DEF SessionInv, TypeInv
<1>2. OwnInv'  BY DEF SessionInv, OwnInv, OwnByte, Owned
<1>3. NoPanic'  BY DEF SessionInv, NoPanic
<1>4. LimitInv'  BY DEF SessionInv, LimitInv, SessionLimits, can_send_data
<1>5. OwnTransaction'
  <2>1. CASE queued' = {}  BY <2>1 DEF OwnTransaction
  <2>2. CASE UNCHANGED queued  BY <2>2 DEF SessionInv, OwnTransaction
  <2> QED BY <2>1, <2>2
<1> QED BY <1>1, <1>2, <1>3, <1>4, <1>5 DEF SessionInv

\* reset leaves nothing to be found in a later message.
LEMMA ResetOwn ==
  ASSUME SessionInv, reset, UNCHANGED mails, chunk'.size \in Nat, messages_sent' \in Nat
  PROVE  /\ TypeInv' /\ OwnInv' /\ rcpt_to' = {}
         /\ IsFiniteSet(rcpt_to') /\ Cardinality(rcpt_to') = 0
<1>1. TypeInv'
  BY DEF SessionInv, TypeInv, reset, NoParams, Extensions
<1>2. OwnInv'
  BY DEF OwnInv, OwnByte, Owned, reset, NoParams
<1>3. rcpt_to' = {}  BY DEF reset
<1>4. IsFiniteSet(rcpt_to') /\ Cardinality(rcpt_to') = 0
  BY <1>3, FS_EmptySet
<1> QED BY <1>1, <1>2, <1>3, <1>4

\* reset keeps the invariant: it leaves nothing of the transaction.
LEMMA ResetStep ==
  ASSUME SessionInv, reset, UNCHANGED <<mails, messages_sent>>, chunk'.size \in Nat,
         state' = "request", queued' = {}, SessionAssumption
  PROVE  SessionInv'
<1>1. messages_sent' \in Nat  BY DEF SessionInv, TypeInv
<1>2. /\ TypeInv' /\ OwnInv' /\ rcpt_to' = {}
      /\ IsFiniteSet(rcpt_to') /\ Cardinality(rcpt_to') = 0
  BY <1>1, ResetOwn
<1>3. NoPanic'  BY DEF NoPanic
<1>4. LimitInv'
  BY <1>2 DEF SessionInv, LimitInv, SessionLimits, SessionAssumption
<1>5. OwnTransaction'  BY DEF OwnTransaction
<1> QED BY <1>2, <1>3, <1>4, <1>5 DEF SessionInv

\* queue_message: it is called only after can_send_data, so it takes one message
\* more at most, and finds no sender only in a disowned transaction.
LEMMA QueueStep ==
  ASSUME SessionInv, SessionAssumption, can_send_data, chunk'.size \in Nat, UNCHANGED mails,
         NEW body \in Seq(Nat), \A i \in DOMAIN body : OwnByte(body[i]),
         queue_message(body)
  PROVE  SessionInv'
<1>1. CASE /\ mail_from = 0
           /\ state' = "panicked"
           /\ UNCHANGED <<envelope, message, messages_sent, dnsbl_error, refused, disowned, queued>>
  <2> USE <1>1 DEF envelope
  <2>1. TypeInv'  BY DEF SessionInv, TypeInv
  <2>2. OwnInv'  BY DEF SessionInv, OwnInv, OwnByte, Owned
  <2>3. NoPanic'  BY NoSender DEF SessionInv, NoPanic, can_send_data
  <2>4. LimitInv'  BY DEF SessionInv, LimitInv, SessionLimits
  <2>5. OwnTransaction'  BY DEF SessionInv, OwnTransaction
  <2> QED BY <2>1, <2>2, <2>3, <2>4, <2>5 DEF SessionInv
<1>2. CASE /\ state' = "request" /\ reset
           /\ Unparsed \/ Unauthentic \/ AnalyzedReport \/ Filtered \/ Built(body)
  <2>1. messages_sent \in Nat /\ messages_sent < MaxMessages /\ MaxMessages \in Nat
    BY DEF SessionInv, TypeInv, can_send_data, SessionAssumption
  <2>2. /\ messages_sent' = messages_sent \/ messages_sent' = messages_sent + 1
        /\ \/ queued' = {}
           \/ queued' = {[mail |-> mail_from, params |-> params, rcpts |-> rcpt_to,
                          body |-> body, refused |-> refused, disowned |-> disowned]}
    BY <1>2 DEF Unparsed, Unauthentic, AnalyzedReport, Filtered, Built
  <2>3. messages_sent' \in Nat /\ messages_sent' <= MaxMessages  BY <2>1, <2>2
  <2>4. /\ TypeInv' /\ OwnInv' /\ rcpt_to' = {}
        /\ IsFiniteSet(rcpt_to') /\ Cardinality(rcpt_to') = 0
    BY <1>2, <2>3, ResetOwn
  <2>5. NoPanic'  BY <1>2 DEF NoPanic
  <2>6. LimitInv'
    BY <1>2, <2>3, <2>4 DEF LimitInv, SessionLimits, SessionAssumption
  <2>7. OwnTransaction'
    <3>1. CASE queued' = {}  BY <3>1 DEF OwnTransaction
    <3>2. CASE queued' = {[mail |-> mail_from, params |-> params, rcpts |-> rcpt_to,
                           body |-> body, refused |-> refused, disowned |-> disowned]}
      <4>1. /\ rcpt_to # {} /\ \A r \in rcpt_to : r.mail \in {mail_from} \cup disowned
            /\ \A e \in Extensions : params[e] \in {0, mail_from} \cup refused \cup disowned
        BY DEF SessionInv, OwnInv, Owned, can_send_data
      <4>2. \A i \in DOMAIN body : \/ body[i] = mail_from
                                   \/ disowned # {} /\ body[i] \in refused \cup disowned
        BY DEF OwnByte, Owned
      <4> QED BY <3>2, <4>1, <4>2 DEF OwnTransaction
    <3> QED BY <2>2, <3>1, <3>2
  <2> QED BY <2>4, <2>5, <2>6, <2>7 DEF SessionInv
<1> QED BY <1>1, <1>2 DEF queue_message

\* EHLO, HELO, STARTTLS, RSET, QUIT and lines that are too long.
LEMMA GreetingStep ==
  ASSUME SessionInv, SessionAssumption,
         \/ \E h \in Helos : Helo(h) \/ Ehlo(h) \/ EhloBlocked(h) \/ EhloRefused(h)
         \/ StartTls \/ Rset \/ Close \/ LineTooLong \/ EndOfLine
  PROVE  SessionInv'
<1>0. chunk.size \in Nat  BY DEF SessionInv, TypeInv
<1>1. ASSUME NEW h \in Helos, Helo(h)  PROVE SessionInv'
  BY <1>0, <1>1, SameTransaction DEF Helo, Command, envelope, ghosts
<1>2. ASSUME NEW h \in Helos, Ehlo(h)  PROVE SessionInv'
  <2>1. CASE mail_from # 0
    <3>1. state' = "request" /\ queued' = {} /\ chunk'.size \in Nat /\ reset
            /\ UNCHANGED <<mails, messages_sent>>
      BY <1>0, <1>2, <2>1 DEF Ehlo, Command
    <3> QED BY <3>1, ResetStep
  <2>2. CASE mail_from = 0
    BY <1>0, <1>2, <2>2, SameTransaction DEF Ehlo, Command, envelope, ghosts
  <2> QED BY <2>1, <2>2
<1>3. ASSUME NEW h \in Helos, EhloBlocked(h)  PROVE SessionInv'
  BY <1>0, <1>3, SameTransaction DEF EhloBlocked, Command, envelope, ghosts
<1>4. ASSUME NEW h \in Helos, EhloRefused(h)  PROVE SessionInv'
  <2>1. /\ mail_from' = 0 /\ disowned' = disowned \cup ({mail_from} \ {0})
        /\ state' = "request" /\ queued' = {}
        /\ UNCHANGED <<chunk, params, rcpt_to, message, messages_sent, mails, refused>>
    BY <1>4 DEF EhloRefused, Command
  <2>2. TypeInv'  BY <2>1 DEF SessionInv, TypeInv
  <2>3. OwnInv'
    <3>1. \A x : Owned(x) => x \in disowned'  BY <2>1 DEF Owned
    <3>2. disowned \subseteq disowned' /\ (mail_from # 0 => mail_from \in disowned')  BY <2>1
    <3>3. \A x : OwnByte(x) => OwnByte(x)'  BY <2>1, <3>1, <3>2 DEF OwnByte
    <3> QED BY <2>1, <3>1, <3>2, <3>3 DEF SessionInv, OwnInv
  <2>4. NoPanic'  BY <2>1 DEF NoPanic
  <2>5. LimitInv'  BY <2>1 DEF SessionInv, LimitInv, SessionLimits
  <2>6. OwnTransaction'  BY <2>1 DEF OwnTransaction
  <2> QED BY <2>2, <2>3, <2>4, <2>5, <2>6 DEF SessionInv
<1>5. CASE StartTls
  BY <1>0, <1>5, SameTransaction DEF StartTls, Command, envelope, ghosts
<1>6. CASE Rset
  BY <1>0, <1>6, ResetStep DEF Rset, Command
<1>7. CASE Close
  BY <1>0, <1>7, SameTransaction DEF Close
<1>8. CASE LineTooLong
  BY <1>0, <1>8, SameTransaction DEF LineTooLong, Command
<1>9. CASE EndOfLine
  BY <1>0, <1>9, SameTransaction DEF EndOfLine
<1> QED BY <1>1, <1>2, <1>3, <1>4, <1>5, <1>6, <1>7, <1>8, <1>9

\* AUTH never touches the transaction.
LEMMA AuthStep ==
  ASSUME SessionInv, Auth \/ SaslLine
  PROVE  SessionInv'
<1>1. SaslResponse /\ (queued' = {} \/ UNCHANGED queued)
  BY DEF Auth, SaslLine, Command
<1>2. /\ state' \in {"sasl", "request", "closed"}
      /\ UNCHANGED <<chunk, envelope, message, messages_sent, ghosts>>
  BY <1>1 DEF SaslResponse, AuthError
<1> QED BY <1>1, <1>2, SameTransaction DEF SessionInv, TypeInv

\* The parameters a MAIL command leaves are its own and those that were there.
LEMMA ParamsOwned ==
  ASSUME TypeInv, NEW P, NEW kept
  PROVE  /\ SetParams(P, kept) \in [Extensions -> Nat]
         /\ \A e \in Extensions : SetParams(P, kept)[e] \in {mails + 1, params[e]}
BY DEF SetParams, TypeInv

\* MAIL, also when it is refused after it set parameters, and RCPT.
LEMMA EnvelopeStep ==
  ASSUME SessionInv, SessionAssumption,
         \/ \E P \in SUBSET Extensions : Mail(P) \/ MailRefused(P)
         \/ MailBlocked
         \/ \E a \in Addresses : Rcpt(a)
         \/ RcptError
  PROVE  SessionInv'
<1>0. TypeInv /\ OwnInv /\ NoPanic /\ LimitInv /\ chunk.size \in Nat
  BY DEF SessionInv, TypeInv
<1>1. ASSUME NEW P \in SUBSET Extensions, Mail(P)  PROVE SessionInv'
  <2>1. /\ mails' = mails + 1 /\ mail_from' = mails + 1 /\ mail_from = 0
        /\ params' = SetParams(P, Extensions)
        /\ state' = "request" /\ queued' = {}
        /\ UNCHANGED <<chunk, rcpt_to, message, messages_sent, refused, disowned>>
    BY <1>1 DEF Mail, MayMail, Command
  <2>2. TypeInv'  BY <1>0, <2>1, ParamsOwned DEF TypeInv
  <2>3. OwnInv'
    <3>1. \A e \in Extensions : params'[e] \in {mails + 1, params[e]}
      BY <1>0, <2>1, ParamsOwned
    <3>2. \A x : ~Owned(x)  BY <2>1 DEF Owned
    <3>3. \A x : OwnByte(x) => OwnByte(x)'  BY <2>1, <3>2 DEF OwnByte
    <3>4. Owned(mails)'  BY <1>0, <2>1 DEF TypeInv, Owned
    <3> QED BY <1>0, <2>1, <3>1, <3>2, <3>3, <3>4 DEF OwnInv
  <2>4. NoPanic'  BY <2>1 DEF NoPanic
  <2>5. LimitInv'  BY <1>0, <2>1 DEF LimitInv, SessionLimits
  <2>6. OwnTransaction'  BY <2>1 DEF OwnTransaction
  <2> QED BY <2>2, <2>3, <2>4, <2>5, <2>6 DEF SessionInv
<1>2. ASSUME NEW P \in SUBSET Extensions, MailRefused(P)  PROVE SessionInv'
  <2>1. PICK kept \in Reached : params' = SetParams(P, kept)
    BY <1>2 DEF MailRefused
  <2>2. /\ mails' = mails + 1 /\ refused' = refused \cup {mails + 1} /\ mail_from = 0
        /\ state' = "request" /\ queued' = {}
        /\ UNCHANGED <<chunk, mail_from, rcpt_to, message, messages_sent, disowned>>
    BY <1>2 DEF MailRefused, MayMail, Command
  <2>3. TypeInv'  BY <1>0, <2>1, <2>2, ParamsOwned DEF TypeInv
  <2>4. OwnInv'
    <3>1. \A e \in Extensions : params'[e] \in {mails + 1, params[e]}
      BY <1>0, <2>1, ParamsOwned
    <3>2. \A x : (Owned(x) => Owned(x)') /\ (OwnByte(x) => OwnByte(x)')
      BY <2>2 DEF OwnByte, Owned
    <3> QED BY <1>0, <2>2, <3>1, <3>2 DEF OwnInv
  <2>5. NoPanic'  BY <2>2 DEF NoPanic
  <2>6. LimitInv'  BY <1>0, <2>2 DEF LimitInv, SessionLimits
  <2>7. OwnTransaction'  BY <2>2 DEF OwnTransaction
  <2> QED BY <2>3, <2>4, <2>5, <2>6, <2>7 DEF SessionInv
<1>3. CASE MailBlocked
  BY <1>0, <1>3, SameTransaction DEF MailBlocked, Command
<1>4. ASSUME NEW a \in Addresses, Rcpt(a)  PROVE SessionInv'
  <2>1. /\ mail_from # 0 /\ Cardinality(rcpt_to) < RcptMax
        /\ rcpt_to' = rcpt_to \/ rcpt_to' = rcpt_to \cup {[address |-> a, mail |-> mail_from]}
        /\ state' = "request" /\ queued' = {}
        /\ UNCHANGED <<chunk, mail_from, params, message, messages_sent, ghosts>>
    BY <1>4 DEF Rcpt, MayRcpt, Command
  <2>2. TypeInv'  BY <1>0, <2>1 DEF TypeInv, Recipient, ghosts
  <2>3. OwnInv'
    <3>1. Owned(mail_from)  BY <2>1 DEF Owned
    <3>2. \A x : (Owned(x)' <=> Owned(x)) /\ (OwnByte(x)' <=> OwnByte(x))
      BY <2>1 DEF OwnByte, Owned, ghosts
    <3> QED BY <1>0, <2>1, <3>1, <3>2 DEF OwnInv, ghosts
  <2>4. NoPanic'  BY <2>1 DEF NoPanic
  <2>5. IsFiniteSet(rcpt_to') /\ Cardinality(rcpt_to') <= RcptMax
    <3>1. IsFiniteSet(rcpt_to)  BY <1>0 DEF LimitInv
    <3>2. Cardinality(rcpt_to) \in Nat /\ RcptMax \in Nat
      BY <3>1, FS_CardinalityType DEF SessionAssumption
    <3>3. CASE rcpt_to' = rcpt_to  BY <2>1, <3>1, <3>2, <3>3
    <3>4. CASE rcpt_to' = rcpt_to \cup {[address |-> a, mail |-> mail_from]}
      <4>1. /\ IsFiniteSet(rcpt_to')
            /\ Cardinality(rcpt_to') = Cardinality(rcpt_to)
                 \/ Cardinality(rcpt_to') = Cardinality(rcpt_to) + 1
        BY <3>1, <3>4, FS_AddElement
      <4> QED BY <2>1, <3>2, <4>1
    <3> QED BY <2>1, <3>3, <3>4
  <2>6. LimitInv'  BY <1>0, <2>1, <2>5 DEF LimitInv, SessionLimits
  <2>7. OwnTransaction'  BY <2>1 DEF OwnTransaction
  <2> QED BY <2>2, <2>3, <2>4, <2>6, <2>7 DEF SessionInv
<1>5. CASE RcptError
  BY <1>0, <1>5, SameTransaction DEF RcptError, Command
<1> QED BY <1>1, <1>2, <1>3, <1>4, <1>5

\* A message that grows, or is dropped, without being queued.
LEMMA MessageStep ==
  ASSUME SessionInv, UNCHANGED <<envelope, messages_sent, ghosts>>, chunk'.size \in Nat,
         message' \in Seq(Nat), \A i \in DOMAIN message' : OwnByte(message'[i]),
         state' # "panicked", state' = "data" => can_send_data,
         queued' = {} \/ UNCHANGED queued
  PROVE  SessionInv'
<1> USE DEF envelope, ghosts
<1>1. TypeInv'  BY DEF SessionInv, TypeInv
<1>2. OwnInv'  BY DEF SessionInv, OwnInv, OwnByte, Owned
<1>3. NoPanic'  BY DEF SessionInv, NoPanic
<1>4. LimitInv'  BY DEF SessionInv, LimitInv, SessionLimits, can_send_data
<1>5. OwnTransaction'
  <2>1. CASE queued' = {}  BY <2>1 DEF OwnTransaction
  <2>2. CASE UNCHANGED queued  BY <2>2 DEF SessionInv, OwnTransaction
  <2> QED BY <2>1, <2>2
<1> QED BY <1>1, <1>2, <1>3, <1>4, <1>5 DEF SessionInv

\* DATA and BDAT: the message grows only while there is a recipient.
LEMMA DataStep ==
  ASSUME SessionInv, SessionAssumption,
         \/ Data \/ BdatRead \/ TooLarge
         \/ \E n \in Chunks : DataRead(n) \/ Bdat(n, TRUE) \/ Bdat(n, FALSE)
  PROVE  SessionInv'
<1>0. /\ chunk.size \in Nat /\ NoChunk.size \in Nat
      /\ << >> \in Seq(Nat) /\ \A i \in DOMAIN << >> : OwnByte(<< >>[i])
  BY DEF SessionInv, TypeInv, NoChunk
<1>1. CASE Data
  <2>1. message' = << >> /\ state' = "data" /\ can_send_data /\ queued' = {}
          /\ UNCHANGED <<chunk, envelope, messages_sent, ghosts>>
    BY <1>1 DEF Data, Command
  <2> QED BY <1>0, <2>1, MessageStep
<1>2. ASSUME NEW n \in Chunks, DataRead(n)  PROVE SessionInv'
  <2>1. n \in Nat /\ can_send_data /\ chunk' = chunk /\ mails' = mails /\ state = "data"
    BY <1>2 DEF DataRead, SessionAssumption, SessionInv, LimitInv
  <2>2. /\ message \o Bytes(n) \in Seq(Nat)
        /\ \A i \in DOMAIN (message \o Bytes(n)) : OwnByte((message \o Bytes(n))[i])
    BY <2>1, BytesOwned
  <2>3. CASE /\ message' = message \o Bytes(n)
             /\ UNCHANGED <<state, envelope, messages_sent, dnsbl_error, refused, disowned, queued>>
    BY <1>0, <2>1, <2>2, <2>3, MessageStep DEF ghosts
  <2>4. CASE queue_message(message \o Bytes(n))
    BY <1>0, <2>1, <2>2, <2>4, QueueStep
  <2>5. CASE /\ state' = "data_too_large"
             /\ UNCHANGED <<envelope, message, messages_sent, dnsbl_error, refused, disowned,
                            queued>>
    BY <1>0, <2>1, <2>5, SameTransaction DEF ghosts
  <2> QED BY <1>2, <2>3, <2>4, <2>5 DEF DataRead
<1>3. ASSUME NEW n \in Chunks, NEW is_last \in BOOLEAN, Bdat(n, is_last)  PROVE SessionInv'
  <2>1. /\ chunk' = [size |-> n, is_last |-> is_last] /\ n \in Nat /\ queued' = {}
        /\ state' \in {"bdat", "data_too_large"}
        /\ UNCHANGED <<envelope, message, messages_sent, ghosts>>
    BY <1>3 DEF Bdat, Command, SessionAssumption
  <2> QED BY <2>1, SameTransaction
<1>4. CASE BdatRead
  <2>1. chunk'.size \in Nat /\ mails' = mails  BY <1>0, <1>4 DEF BdatRead
  <2>2. CASE can_send_data
    <3>1. /\ message \o Bytes(chunk.size) \in Seq(Nat)
          /\ \A i \in DOMAIN (message \o Bytes(chunk.size)) :
               OwnByte((message \o Bytes(chunk.size))[i])
      BY <1>0, <2>2, BytesOwned
    <3>2. CASE queue_message(message \o Bytes(chunk.size))
      BY <2>1, <2>2, <3>1, <3>2, QueueStep
    <3>3. CASE /\ message' = message \o Bytes(chunk.size)
               /\ state' = "request"
               /\ UNCHANGED <<envelope, messages_sent, dnsbl_error, refused, disowned, queued>>
      BY <2>1, <3>1, <3>3, MessageStep DEF ghosts
    <3> QED BY <1>4, <2>2, <3>2, <3>3 DEF BdatRead
  <2>3. CASE ~can_send_data
    <3>1. /\ message' = <<>> /\ state' = "request"
          /\ UNCHANGED <<envelope, messages_sent, dnsbl_error, refused, disowned, queued>>
      BY <1>4, <2>3 DEF BdatRead
    <3> QED BY <1>0, <2>1, <3>1, MessageStep DEF ghosts
  <2> QED BY <2>2, <2>3
<1>5. CASE TooLarge
  <2>1. message' = << >> /\ state' = "request" /\ chunk' = NoChunk
          /\ UNCHANGED <<envelope, messages_sent, ghosts, queued>>
    BY <1>5 DEF TooLarge
  <2> QED BY <1>0, <2>1, MessageStep
<1> QED BY <1>1, <1>2, <1>3, <1>4, <1>5

\* Every step of the session keeps the invariant.
LEMMA SessionStep ==
  ASSUME SessionInv, SessionAssumption, [Next]_vars
  PROVE  SessionInv'
<1>1. CASE UNCHANGED vars
  <2>1. UNCHANGED <<envelope, message, messages_sent, ghosts, chunk, state, queued>>
    BY <1>1 DEF vars
  <2>2. NoPanic'
    BY <2>1 DEF SessionInv, NoPanic, ghosts
  <2>3. CASE state' # "panicked"
    BY <2>1, <2>3, SameTransaction DEF SessionInv, TypeInv, LimitInv
  <2>4. CASE state' = "panicked"
    <3> USE <2>1 DEF envelope, ghosts
    <3>1. TypeInv'  BY DEF SessionInv, TypeInv
    <3>2. OwnInv'  BY DEF SessionInv, OwnInv, OwnByte, Owned
    <3>3. LimitInv'  BY DEF SessionInv, LimitInv, SessionLimits, can_send_data
    <3>4. OwnTransaction'  BY DEF SessionInv, OwnTransaction
    <3> QED BY <2>2, <2>4, <3>1, <3>2, <3>3, <3>4 DEF SessionInv
  <2> QED BY <2>3, <2>4
<1>2. CASE Next
  BY <1>2, GreetingStep, AuthStep, EnvelopeStep, DataStep DEF Next
<1> QED BY <1>1, <1>2

\* A session starts without a transaction.
LEMMA SessionInit ==
  ASSUME Init, SessionAssumption
  PROVE  SessionInv
<1>1. TypeInv  BY DEF Init, TypeInv, NoParams, NoChunk
<1>2. OwnInv  BY DEF Init, OwnInv, OwnByte, Owned, NoParams
<1>3. NoPanic  BY DEF Init, NoPanic
<1>4. LimitInv
  <2>1. IsFiniteSet(rcpt_to) /\ Cardinality(rcpt_to) = 0  BY FS_EmptySet DEF Init
  <2> QED BY <2>1 DEF Init, LimitInv, SessionLimits, SessionAssumption
<1>5. OwnTransaction  BY DEF Init, OwnTransaction
<1> QED BY <1>1, <1>2, <1>3, <1>4, <1>5 DEF SessionInv

\* The invariant holds in every state of a session.
LEMMA SessionReachable == Spec => []SessionInv
<1>1. Init => SessionInv  BY SessionInit, SessionAssumption
<1>2. SessionInv /\ [Next]_vars => SessionInv'  BY SessionStep, SessionAssumption
<1> QED BY <1>1, <1>2, PTL DEF Spec

-----------------------------------------------------------------------------
(* Theorems                                                                *)

\* In no session are there more recipients or more messages than rcpt.rs and
\* data.rs allow, whatever is reset, refused or repeated and however DATA and BDAT
\* are mixed.
THEOREM SessionKeepsLimits == Spec => []SessionLimits
<1>1. SessionInv => SessionLimits  BY DEF SessionInv, LimitInv
<1> QED BY <1>1, SessionReachable, PTL

\* A message that queue_message queues has at least one recipient, and recipients,
\* parameters and bytes of its own MAIL command only, but for the parameters of a
\* MAIL command refused since the last reset and for what an EHLO refused in the
\* middle of a transaction leaves of it.
THEOREM MessagesAreWhole == Spec => []OwnTransaction
<1>1. SessionInv => OwnTransaction  BY DEF SessionInv
<1> QED BY <1>1, SessionReachable, PTL

\* The unwrap() of mail_from in queue_message fails only in a transaction whose
\* sender an EHLO refused in the middle of it has forgotten.
THEOREM OnlyDisownedPanics == Spec => []NoPanic
<1>1. SessionInv => NoPanic  BY DEF SessionInv
<1> QED BY <1>1, SessionReachable, PTL
=============================================================================
