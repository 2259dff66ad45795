--------------------------- MODULE InboundSession ---------------------------
(***************************************************************************)
(* One SMTP or LMTP session (inbound/): the command state machine of       *)
(* ingest, the transaction its handlers build up in SessionData, and what  *)
(* queue_message makes of it.  The client may send any command at any      *)
(* time and close at any time.                                             *)
(*                                                                         *)
(* A MAIL command is known by its ordinal, and what belongs to it (an      *)
(* extension parameter, a recipient, a byte of the message) by the ordinal *)
(* of the last MAIL command when it was taken; 0 is none.  Policies        *)
(* (SPF, DNSBL, Sieve, lookups, throttles) are choices.  Commands that     *)
(* change no state (NOOP, HELP, VRFY, EXPN, a syntax error) are left out.  *)
(***************************************************************************)
EXTENDS Naturals, FiniteSets, Sequences

CONSTANTS
  IsSmtp,         \* ServerInstance::is_smtp; FALSE for LMTP
  Helos,          \* EHLO domains
  Addresses,      \* recipient addresses
  Chunks,         \* sizes of the pieces a message may come in
  EhloRequire, AuthRequire, AuthEnabled,
  EhloChecks,     \* whether SPF, DNSBL or a script may refuse EHLO
  MailChecks,     \* whether MAIL may be refused after it set parameters
  RcptMax, RcptErrorsMax, AuthErrorsMax, MaxMessages,
  MaxMessageSize,
  MaxMails,       \* bound on MAIL commands
  None            \* no EHLO domain

ASSUME SessionAssumption ==
  /\ {IsSmtp, EhloRequire, AuthRequire, AuthEnabled, EhloChecks, MailChecks} \subseteq BOOLEAN
  /\ None \notin Helos
  /\ Chunks \subseteq Nat \ {0}
  /\ RcptMax \in Nat /\ MaxMessages \in Nat /\ MaxMessageSize \in Nat
  /\ MaxMails \in Nat
  /\ RcptErrorsMax \in Nat \ {0} /\ AuthErrorsMax \in Nat \ {0}

VARIABLES
  state,          \* Session::state, or how the session ended
  chunk,          \* the BDAT chunk being read
  tls, helo_domain, authenticated,
  mail_from,      \* the ordinal of the MAIL command in force, 0: None
  params,         \* delivery_by, priority and future_release
  rcpt_to, message,
  evaluated,      \* whether eval_rcpt_params has run
  messages_sent, rcpt_errors, auth_errors,
  dnsbl_error,
  mails,          \* the number of MAIL commands so far
  refused,        \* the MAIL commands since the last reset that were refused
  disowned,       \* those whose sender a refused EHLO has forgotten
  queued          \* the message the last step queued, if it did

session == <<tls, helo_domain, authenticated, evaluated, dnsbl_error>>
errors  == <<rcpt_errors, auth_errors>>
envelope == <<mail_from, params, rcpt_to>>
ghosts == <<mails, refused, disowned>>
vars == <<state, chunk, session, envelope, message, messages_sent, errors, ghosts, queued>>

Extensions == {"delivery_by", "priority", "future_release"}
Ended == {"closed", "panicked"}
Recipient == [address : Addresses, mail : Nat]

-----------------------------------------------------------------------------

NoParams == [e \in Extensions |-> 0]
NoChunk == [size |-> 0, is_last |-> FALSE]

\* init_conn: verify_ip_dnsbl may leave an error; a script may end the session
\* at once, which is as good as a close.
Init ==
  /\ state = "request" /\ chunk = NoChunk
  /\ tls \in BOOLEAN /\ helo_domain = None /\ authenticated = FALSE
  /\ mail_from = 0 /\ params = NoParams /\ rcpt_to = {} /\ message = <<>>
  /\ evaluated = FALSE
  /\ messages_sent = 0 /\ rcpt_errors = 0 /\ auth_errors = 0
  /\ dnsbl_error \in (IF EhloChecks THEN BOOLEAN ELSE {FALSE})
  /\ mails = 0 /\ refused = {} /\ disowned = {} /\ queued = {}

\* A command arrives: what the last step queued is of no interest any more.
Command == state = "request" /\ queued' = {}

\* Fault: the recipients survive.
ResetKeepsRcpts ==
  /\ mail_from' = 0 /\ params' = NoParams /\ message' = <<>>
  /\ refused' = {} /\ disowned' = {}
  /\ UNCHANGED rcpt_to

reset ==
  /\ mail_from' = 0 /\ params' = NoParams /\ rcpt_to' = {} /\ message' = <<>>
  /\ refused' = {} /\ disowned' = {}

-----------------------------------------------------------------------------
(* EHLO, HELO, STARTTLS, RSET, QUIT                                        *)

Helo(host) ==
  /\ Command /\ IsSmtp /\ helo_domain = None
  /\ helo_domain' = host
  /\ UNCHANGED <<state, chunk, tls, authenticated, evaluated, dnsbl_error, envelope, message,
                 messages_sent, errors, ghosts>>

\* EHLO, or LHLO in LMTP, with a domain that passes or was checked before.
Ehlo(host) ==
  /\ Command
  /\ helo_domain' = host
  /\ IF mail_from # 0 THEN reset ELSE UNCHANGED <<envelope, message, refused, disowned>>
  /\ UNCHANGED <<state, chunk, tls, authenticated, evaluated, dnsbl_error, messages_sent,
                 errors, mails>>

\* The domain is in a DNSBL: the error is written and reset.
EhloBlocked(host) ==
  /\ Command /\ EhloChecks /\ host # helo_domain
  /\ dnsbl_error' = FALSE
  /\ UNCHANGED <<state, chunk, tls, helo_domain, authenticated, evaluated, envelope, message,
                 messages_sent, errors, ghosts>>

\* SPF or a script refuses the domain: the sender is forgotten.
EhloRefused(host) ==
  /\ Command /\ EhloChecks /\ host # helo_domain
  /\ mail_from' = 0
  /\ disowned' = disowned \cup ({mail_from} \ {0})
  /\ UNCHANGED <<state, chunk, session, params, rcpt_to, message, messages_sent, errors,
                 mails, refused>>

\* The session goes on over TLS with the same data.
StartTls ==
  /\ Command /\ ~tls
  /\ tls' = TRUE
  /\ UNCHANGED <<state, chunk, helo_domain, authenticated, evaluated, dnsbl_error, envelope,
                 message, messages_sent, errors, ghosts>>

Rset ==
  /\ Command /\ reset
  /\ UNCHANGED <<state, chunk, session, messages_sent, errors, mails>>

\* QUIT, and what ends a session between two reads: the peer, the timeout, the
\* transfer and duration limits, a write error and the shutdown.
Close ==
  /\ state \notin Ended
  /\ state' = "closed" /\ queued' = {}
  /\ UNCHANGED <<chunk, session, envelope, message, messages_sent, errors, ghosts>>

LineTooLong ==
  /\ Command /\ state' = "line_too_long"
  /\ UNCHANGED <<chunk, session, envelope, message, messages_sent, errors, ghosts>>

EndOfLine ==
  /\ state = "line_too_long" /\ state' = "request"
  /\ UNCHANGED <<chunk, session, envelope, message, messages_sent, errors, ghosts, queued>>

-----------------------------------------------------------------------------
(* AUTH                                                                    *)

\* auth_error: too many of them end the session.
AuthError ==
  /\ auth_errors' = auth_errors + 1
  /\ state' = IF auth_errors + 1 < AuthErrorsMax THEN "request" ELSE "closed"

\* What handle_sasl_response and authenticate make of a response: a further
\* challenge, success, a temporary failure, or an error.
SaslResponse ==
  /\ \/ state' = "sasl" /\ UNCHANGED <<authenticated, auth_errors>>
     \/ state' = "request" /\ authenticated' = TRUE /\ UNCHANGED auth_errors
     \/ state' = "request" /\ UNCHANGED <<authenticated, auth_errors>>
     \/ AuthError /\ UNCHANGED authenticated
  /\ UNCHANGED <<chunk, tls, helo_domain, evaluated, dnsbl_error, envelope, message,
                 messages_sent, rcpt_errors, ghosts>>

Auth == Command /\ AuthEnabled /\ ~authenticated /\ SaslResponse

SaslLine == state = "sasl" /\ SaslResponse /\ UNCHANGED queued

-----------------------------------------------------------------------------
(* MAIL and RCPT                                                           *)

\* The early returns of handle_mail_from.
MayMail ==
  /\ helo_domain # None \/ ~EhloRequire
  /\ mail_from = 0
  /\ authenticated \/ ~AuthRequire
  /\ ~dnsbl_error

\* The parameters P of the command, of which those in kept were reached.
SetParams(P, kept) == [e \in Extensions |-> IF e \in P \cap kept THEN mails + 1 ELSE params[e]]

Mail(P) ==
  /\ Command /\ MayMail /\ mails < MaxMails
  /\ mails' = mails + 1
  /\ mail_from' = mails + 1
  /\ params' = SetParams(P, Extensions)
  /\ evaluated' = TRUE
  /\ UNCHANGED <<state, chunk, tls, helo_domain, authenticated, dnsbl_error, rcpt_to, message,
                 messages_sent, errors, refused, disowned>>

\* The order in which handle_mail_from looks at the parameters.
Reached == {{}, {"delivery_by"}, {"delivery_by", "priority"}, Extensions}

\* A later parameter, the size, a throttle, SPF or a script refuses the sender.
MailRefused(P) ==
  /\ Command /\ MayMail /\ MailChecks /\ mails < MaxMails
  /\ mails' = mails + 1
  /\ refused' = refused \cup {mails + 1}
  /\ \E kept \in Reached : params' = SetParams(P, kept)
  /\ UNCHANGED <<state, chunk, session, mail_from, rcpt_to, message, messages_sent, errors,
                 disowned>>

\* The host's name is in a DNSBL.  The error of a sender that is in one is reset.
MailBlocked ==
  /\ Command /\ MayMail /\ EhloChecks
  /\ dnsbl_error' = TRUE
  /\ UNCHANGED <<state, chunk, tls, helo_domain, authenticated, evaluated, envelope, message,
                 messages_sent, errors, ghosts>>

\* Fault: RCPT does not wait for MAIL.
RcptFirst == Cardinality(rcpt_to) < RcptMax

MayRcpt == mail_from # 0 /\ Cardinality(rcpt_to) < RcptMax

Known(address) == \E r \in rcpt_to : r.address = address

Rcpt(address) ==
  /\ Command /\ MayRcpt
  /\ rcpt_to' = IF Known(address) THEN rcpt_to
                ELSE rcpt_to \cup {[address |-> address, mail |-> mail_from]}
  /\ UNCHANGED <<state, chunk, session, mail_from, params, message, messages_sent, errors,
                 ghosts>>

\* rcpt_error: the mailbox does not exist or relaying is not allowed.
RcptError ==
  /\ Command /\ MayRcpt
  /\ rcpt_errors' = rcpt_errors + 1
  /\ state' = IF rcpt_errors + 1 < RcptErrorsMax THEN "request" ELSE "closed"
  /\ UNCHANGED <<chunk, session, envelope, message, messages_sent, auth_errors, ghosts>>

-----------------------------------------------------------------------------
(* The message                                                             *)

\* Fault: the limit is passed by one.
CanSendOneMore == rcpt_to # {} /\ messages_sent <= MaxMessages

can_send_data == rcpt_to # {} /\ messages_sent < MaxMessages

SizeLimit == IF evaluated THEN MaxMessageSize ELSE 0

Bytes(n) == [i \in 1..n |-> mails]

\* The message cannot be parsed, or the domain of its author is blocked.
Unparsed ==
  /\ queued' = {} /\ UNCHANGED messages_sent
  /\ dnsbl_error' \in (IF EhloChecks THEN {dnsbl_error, FALSE} ELSE {dnsbl_error})

\* Too many hops, or refused for what DKIM, ARC or DMARC say of it.
Unauthentic == queued' = {} /\ UNCHANGED <<messages_sent, dnsbl_error>>

\* A report for the analyser that is not forwarded counts as a message.
AnalyzedReport ==
  /\ mail_from # 0
  /\ queued' = {} /\ messages_sent' = messages_sent + 1 /\ UNCHANGED dnsbl_error

\* The script rejects or discards the message; the commands it is piped through
\* before may only edit it.
Filtered == mail_from # 0 /\ queued' = {} /\ UNCHANGED <<messages_sent, dnsbl_error>>

\* The message is built from the transaction and queued, or refused for its
\* quotas or because its file cannot be written.
Built(body) ==
  /\ mail_from # 0
  /\ UNCHANGED dnsbl_error
  /\ \/ /\ queued' = {[mail |-> mail_from, params |-> params, rcpts |-> rcpt_to,
                        body |-> body, refused |-> refused, disowned |-> disowned]}
        /\ messages_sent' = messages_sent + 1
     \/ queued' = {} /\ UNCHANGED messages_sent

\* queue_message on the bytes body and the reset that follows its answer.  It
\* panics on a transaction without a sender unless it returns before it looks.
queue_message(body) ==
  \/ /\ mail_from = 0
     /\ state' = "panicked"
     /\ UNCHANGED <<envelope, message, messages_sent, dnsbl_error, refused, disowned, queued>>
  \/ /\ state' = "request" /\ reset
     /\ Unparsed \/ Unauthentic \/ AnalyzedReport \/ Filtered \/ Built(body)

Data ==
  /\ Command /\ can_send_data
  /\ state' = "data" /\ message' = <<>>
  /\ UNCHANGED <<chunk, session, envelope, messages_sent, errors, ghosts>>

\* A read of n bytes in DATA: more to come, the end of the message, or too much.
\* The size of the whole read counts, commands before the message included.
DataRead(n) ==
  /\ state = "data"
  /\ \/ /\ Len(message) + n < SizeLimit
        /\ message' = message \o Bytes(n)
        /\ UNCHANGED <<state, envelope, messages_sent, dnsbl_error, refused, disowned, queued>>
     \/ /\ Len(message) + n < SizeLimit
        /\ queue_message(message \o Bytes(n))
     \/ /\ \E before \in {0} \cup (IF message = <<>> THEN Chunks ELSE {}) :
              Len(message) + before + n >= SizeLimit
        /\ state' = "data_too_large"
        /\ UNCHANGED <<envelope, message, messages_sent, dnsbl_error, refused, disowned,
                       queued>>
  /\ UNCHANGED <<chunk, tls, helo_domain, authenticated, evaluated, errors, mails>>

\* BDAT is looked at only once its chunk is read.
Bdat(n, is_last) ==
  /\ Command
  /\ chunk' = [size |-> n, is_last |-> is_last]
  /\ state' = IF n + Len(message) < SizeLimit THEN "bdat" ELSE "data_too_large"
  /\ UNCHANGED <<session, envelope, message, messages_sent, errors, ghosts>>

BdatRead ==
  /\ state = "bdat" /\ chunk' = NoChunk
  /\ \/ /\ can_send_data /\ chunk.is_last
        /\ queue_message(message \o Bytes(chunk.size))
     \/ /\ can_send_data /\ ~chunk.is_last
        /\ message' = message \o Bytes(chunk.size)
        /\ state' = "request"
        /\ UNCHANGED <<envelope, messages_sent, dnsbl_error, refused, disowned, queued>>
     \/ /\ ~can_send_data
        /\ message' = <<>> /\ state' = "request"
        /\ UNCHANGED <<envelope, messages_sent, dnsbl_error, refused, disowned, queued>>
  /\ UNCHANGED <<tls, helo_domain, authenticated, evaluated, errors, mails>>

\* The rest of a message, or a chunk, that is too large has been skipped.
TooLarge ==
  /\ state = "data_too_large"
  /\ state' = "request" /\ message' = <<>> /\ chunk' = NoChunk
  /\ UNCHANGED <<session, envelope, messages_sent, errors, ghosts, queued>>

-----------------------------------------------------------------------------

Next ==
  \/ \E h \in Helos : Helo(h) \/ Ehlo(h) \/ EhloBlocked(h) \/ EhloRefused(h)
  \/ StartTls \/ Rset \/ Close \/ LineTooLong \/ EndOfLine \/ Auth \/ SaslLine
  \/ \E P \in SUBSET Extensions : Mail(P) \/ MailRefused(P)
  \/ MailBlocked
  \/ \E a \in Addresses : Rcpt(a)
  \/ RcptError \/ Data
  \/ \E n \in Chunks : DataRead(n) \/ Bdat(n, TRUE) \/ Bdat(n, FALSE)
  \/ BdatRead \/ TooLarge

Spec == Init /\ [][Next]_vars

-----------------------------------------------------------------------------
(* Properties                                                              *)

\* max_recipients and max_messages hold whatever is reset, refused or repeated in
\* the session, and however DATA and BDAT are mixed (rcpt.rs, data.rs).
SessionLimits == Cardinality(rcpt_to) <= RcptMax /\ messages_sent <= MaxMessages

\* A message is queued with the recipients, the parameters and the bytes of its own
\* MAIL command: whatever was reset, too large or aborted, nothing of an earlier
\* transaction is left in it.  Two things do get in.  A MAIL command that is refused
\* leaves the parameters it had set until the next reset (mail.rs), and an EHLO
\* refused in the middle of a transaction leaves the recipients, the parameters and
\* the BDAT chunks of the sender it forgets (ehlo.rs).
OwnTransaction ==
  \A q \in queued :
    /\ q.rcpts # {} /\ \A r \in q.rcpts : r.mail \in {q.mail} \cup q.disowned
    /\ \A e \in Extensions : q.params[e] \in {0, q.mail} \cup q.refused \cup q.disowned
    /\ \A i \in DOMAIN q.body :
         \/ q.body[i] = q.mail
         \/ q.disowned # {} /\ q.body[i] \in q.refused \cup q.disowned

\* The unwrap() of mail_from in queue_message (data.rs): a message with
\* recipients has a sender, unless an EHLO refused inside the transaction forgot
\* the sender and left the recipients (ehlo.rs).
NoPanic == state = "panicked" => disowned # {}
=============================================================================
