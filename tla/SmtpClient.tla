----------------------------- MODULE SmtpClient -----------------------------
(***************************************************************************)
(* One delivery attempt of smtp-client, as the queue's transport makes it: *)
(* Client::connect over the MX records and addresses of the destination,   *)
(* connect_to_stream with its EHLO and STARTTLS, then Sender::send of one  *)
(* message.                                                                *)
(*                                                                         *)
(* The remote servers answer the commands in turn, with any reply, or say  *)
(* goodbye, fall silent or close the connection at any point; they may     *)
(* also say something that nobody asked for, MaxUnasked times in a         *)
(* connection.  A reply travels in pieces; the last one completes it.      *)
(***************************************************************************)
EXTENDS Naturals, Sequences, FiniteSets

CONSTANTS
    Mxes,           \* the exchanges of the destination
    Preference,     \* of each exchange
    Domain,         \* the destination's own name
    Addresses,      \* the addresses of each exchange and of Domain, in order
    Blocks,         \* reads it takes to get through the mail
    Codes,          \* the codes of the replies a server may give
    Sizes,          \* how many pieces a reply may have
    Capacity,       \* size of rdbuf, in pieces
    MinFree,        \* MINIMUM_FREE_BUFSPACE
    MaxUnasked      \* bound on what a server says unasked

Connecting == {"banner", "EHLO", "STARTTLS", "tls"}
Sending == {"MAIL", "RCPT", "DATA", "body", "end"}
Steps == Connecting \cup Sending
Commands == {"EHLO", "STARTTLS", "MAIL", "RCPT", "DATA"}

Subjects == {"Mailbox", "MailSystem", "other"}
Kinds == {"PositiveCompletion", "PositiveIntermediate", "TransientNegative",
          "PermanentNegative", "garbage"}

ASSUME ClientAssumption ==
    /\ Preference \in [Mxes -> Nat]
    /\ Addresses \in [Mxes \cup {Domain} -> Seq(Nat) \ {<<>>}]
    /\ Blocks \in Nat \ {0}
    /\ Codes \subseteq [kind : Kinds, subject : Subjects]
    /\ Sizes \subseteq Nat \ {0}
    /\ Capacity \in Nat \ {0}
    /\ MinFree \in 1 .. Capacity
    /\ MaxUnasked \in Nat

\* The two time-outs on writing are not told apart from a failing write.
Errors == {"DnsMx", "HostToTrustDns", "DnsIp", "Connecting", "ReceivingReplyBytes",
           "TimedOutWaitingForReply", "ConnectionAborted", "TooLongReply",
           "SyntaxError", "SendingCommand", "NegotiatingTls", "CannotDoTls",
           "TransientMail", "TransientMailbox", "TransientMailSystem",
           "PermanentMail", "PermanentMailbox", "PermanentMailSystem",
           "UnexpectedReplyCode", "SendingData", "ReadingMail"}

VARIABLES
    can_do_tls, must_do_tls,    \* what the configuration says
    at,         \* "start", "pick", "lookup", "dial", "session" or "done"
    mx,         \* the host being tried
    mxes,       \* the exchanges left to try
    ips,        \* the addresses of mx left to try
    ip,         \* the address being tried
    first_error,    \* of connect_to_mx
    host_error,     \* first_error of connect_to_host
    result,     \* "none", "Ok" or the error returned
    step,       \* the step of the session
    waiting,    \* for the reply, rather than about to send
    starttls,   \* Extensions::STARTTLS
    did_tls,
    left,       \* blocks of the mail not yet sent
    start,      \* unhandled.start
    unhandled,  \* the pieces in rdbuf[unhandled]
    wire,       \* pieces sent by the remote and not yet read
    closed,     \* the remote closed the connection
    todo,       \* what the remote has to answer, in order
    \* What happened, for the properties
    taken,      \* addresses whose server took the mail
    inClear,    \* MAIL was sent without TLS
    unheard,    \* the hook must_do_tls failed, and its default was taken
    unasked     \* how often the remote spoke, in this connection, unasked

config == <<can_do_tls, must_do_tls>>
search == <<mx, mxes, ips, ip, first_error, host_error>>
session == <<starttls, did_tls, left>>
buffer == <<start, unhandled>>
remote == <<closed, todo, taken, unasked>>
ghosts == <<inClear, unheard>>
vars == <<config, at, search, result, step, waiting, session, buffer, wire, remote,
          ghosts>>

Hosts == Mxes \cup {Domain}
Pieces == [kind : Kinds, subject : Subjects, tls : BOOLEAN, last : BOOLEAN,
           to : Steps \cup {"bye", "nobody"}]

\* The attempt, its session and the buffer keep their types, and the unhandled
\* range lies within rdbuf.
TypeOK ==
    /\ {can_do_tls, must_do_tls, waiting} \subseteq BOOLEAN
    /\ {starttls, did_tls, closed, inClear, unheard} \subseteq BOOLEAN
    /\ at \in {"start", "pick", "lookup", "dial", "session", "done"}
    /\ mx \in Hosts
    /\ mxes \subseteq Mxes
    /\ ips \in Seq(Nat)
    /\ ip \in Nat
    /\ {first_error, host_error} \subseteq Errors \cup {"none"}
    /\ result \in Errors \cup {"none", "Ok"}
    /\ step \in Steps
    /\ left \in 0 .. Blocks
    /\ start \in Nat
    /\ unhandled \in Seq(Pieces)
    /\ start + Len(unhandled) <= Capacity
    /\ wire \in Seq(Pieces)
    /\ todo \in Seq(Steps)
    /\ unasked \in 0 .. MaxUnasked
    /\ taken \subseteq Nat

Init ==
    /\ can_do_tls \in BOOLEAN
    /\ must_do_tls \in BOOLEAN
    /\ at = "start"
    /\ mx = Domain
    /\ mxes = {}
    /\ ips = <<>>
    /\ ip = 0
    /\ first_error = "none"
    /\ host_error = "none"
    /\ result = "none"
    /\ step = "banner"
    /\ waiting = TRUE
    /\ starttls = FALSE
    /\ did_tls = FALSE
    /\ left = Blocks
    /\ start = 0
    /\ unhandled = <<>>
    /\ wire = <<>>
    /\ closed = FALSE
    /\ todo = <<>>
    /\ taken = {}
    /\ inClear = FALSE
    /\ unheard = FALSE
    /\ unasked = 0

-----------------------------------------------------------------------------
(* Finding a server                                                        *)

\* connect_to_host fails with e, and with it connect_to_mx if no exchange is
\* left.
HostFails(e) ==
    LET first == IF first_error = "none" THEN e ELSE first_error IN
    /\ IF mxes = {} THEN at' = "done" /\ result' = first
                    ELSE at' = "pick" /\ UNCHANGED result
    /\ first_error' = first

\* connect_to_ip fails with e, and the addresses `rest' are left.
AddressFails(e, rest) ==
    LET first == IF host_error = "none" THEN e ELSE host_error IN
    /\ host_error' = first
    /\ IF rest = <<>> THEN HostFails(first)
                      ELSE at' = "dial" /\ UNCHANGED <<first_error, result>>

\* connect: to an address, to the exchanges, or to the host itself if it has none.
connect ==
    /\ at = "start"
    /\ \/ /\ at' = "dial"
          /\ ips' = <<Head(Addresses[Domain])>>
          /\ UNCHANGED <<mxes, result>>
       \/ at' = "pick" /\ mxes' = Mxes /\ UNCHANGED <<ips, result>>
       \/ at' = "lookup" /\ UNCHANGED <<mxes, ips, result>>
       \/ /\ at' = "done"
          /\ result' \in {"DnsMx", "HostToTrustDns"}
          /\ UNCHANGED <<mxes, ips>>
    /\ UNCHANGED <<config, mx, ip, first_error, host_error, step, waiting, session,
                   buffer, wire, remote, ghosts>>

\* The next exchange: one of the best preference, in a random order.
connect_to_mx ==
    /\ at = "pick"
    /\ \E m \in mxes :
        /\ \A n \in mxes : Preference[m] <= Preference[n]
        /\ mx' = m
        /\ mxes' = mxes \ {m}
    /\ at' = "lookup"
    /\ UNCHANGED <<config, ips, ip, first_error, host_error, result, step, waiting,
                   session, buffer, wire, remote, ghosts>>

connect_to_host ==
    /\ at = "lookup"
    /\ \/ /\ at' = "dial"
          /\ ips' = Addresses[mx]
          /\ host_error' = "none"
          /\ UNCHANGED <<first_error, result>>
       \/ HostFails("DnsIp") /\ UNCHANGED <<ips, host_error>>
    /\ UNCHANGED <<config, mx, mxes, ip, step, waiting, session, buffer, wire, remote,
                   ghosts>>

\* Of a Sender that is dropped nothing is left, and a new one starts by reading the
\* banner.
FreshSender ==
    /\ step' = "banner"
    /\ waiting' = TRUE
    /\ starttls' = FALSE
    /\ did_tls' = FALSE
    /\ left' = Blocks
    /\ start' = 0
    /\ unhandled' = <<>>
    /\ wire' = <<>>

connect_to_ip ==
    /\ at = "dial"
    /\ ip' = Head(ips)
    /\ ips' = Tail(ips)
    /\ at' = "session"
    /\ FreshSender
    /\ closed' = FALSE
    /\ todo' = <<"banner">>
    /\ unasked' = 0
    /\ UNCHANGED <<config, mx, mxes, first_error, host_error, result, taken, ghosts>>

\* The address cannot be connected to.
connecting_fails ==
    /\ at = "dial"
    /\ ips' = Tail(ips)
    /\ AddressFails("Connecting", ips')
    /\ UNCHANGED <<config, mx, mxes, ip, step, waiting, session, buffer, wire, remote,
                   ghosts>>

\* Mutant: the next address, even if the message was being sent.
FailsOver(e) == AddressFails(e, ips)

\* Whatever goes wrong in a session: the next address, unless the message was
\* being sent.
Fails(e) ==
    IF step \in Connecting
    THEN AddressFails(e, ips)
    ELSE at' = "done" /\ result' = e /\ UNCHANGED <<first_error, host_error>>

SessionFails(e) ==
    /\ Fails(e)
    /\ FreshSender
    /\ UNCHANGED <<config, mx, mxes, ips, ip, remote, ghosts>>

-----------------------------------------------------------------------------
(* A session                                                               *)

Active == at = "session"

quiet == <<config, at, search, result>>

Rest(s, n) == SubSeq(s, n + 1, Len(s))

HasReply == \E k \in DOMAIN unhandled : unhandled[k].last
\* Mutant: only the first line of a reply is taken out of the buffer.
FirstLine == 1

ReplyEnd == CHOOSE k \in DOMAIN unhandled :
                unhandled[k].last /\ \A j \in 1 .. k - 1 : ~unhandled[j].last

Move == start # 0 /\ MinFree > Capacity - (start + Len(unhandled))
\* Mutant: the unhandled range is never moved to the start of rdbuf.
FirstInPlace == IF unhandled = <<>> THEN 0 ELSE start

First == IF unhandled = <<>> \/ Move THEN 0 ELSE start
\* Mutant: forgets that the unhandled range does not start at zero.
RoomFromZero == Capacity - Len(unhandled)

Room == Capacity - (First + Len(unhandled))

send_command ==
    /\ Active /\ ~waiting /\ step \in Commands
    /\ waiting' = TRUE
    /\ todo' = Append(todo, step)
    /\ inClear' = (inClear \/ (step = "MAIL" /\ ~did_tls))
    /\ UNCHANGED <<quiet, step, session, buffer, wire, closed, taken, unasked, unheard>>

\* Writing a command fails or times out.
sending_fails ==
    /\ Active /\ ~waiting /\ step \in Commands
    /\ SessionFails("SendingCommand")

\* The connection breaks while a reply is read.
receiving_fails ==
    /\ Active /\ waiting /\ ~HasReply
    /\ Room # 0
    /\ SessionFails("ReceivingReplyBytes")

\* The handshake takes what is on the wire for TLS; what was read before it stays
\* in rdbuf.
tls_connect ==
    /\ Active /\ step = "tls"
    /\ wire = <<>> /\ ~closed
    /\ did_tls' = TRUE
    /\ step' = "EHLO"
    /\ waiting' = FALSE
    /\ UNCHANGED <<quiet, starttls, left, buffer, wire, remote, ghosts>>

tls_connect_fails == Active /\ step = "tls" /\ SessionFails("NegotiatingTls")

\* Reply::parse is Incomplete: the buffer is compacted and more is read.
read_more ==
    /\ Active /\ waiting /\ ~HasReply
    /\ \E n \in 1 .. Len(wire) :
        /\ n <= Room
        /\ unhandled' = unhandled \o SubSeq(wire, 1, n)
        /\ wire' = Rest(wire, n)
    /\ start' = First
    /\ UNCHANGED <<quiet, step, waiting, session, remote, ghosts>>

\* Mutant: no time-out on reading.
WaitsForEver ==
    /\ Active /\ waiting /\ ~HasReply
    /\ \/ Room = 0 /\ SessionFails("TooLongReply")
       \/ Room # 0 /\ wire = <<>> /\ closed /\ SessionFails("ConnectionAborted")

\* No more can be read: the buffer is full, the connection is closed, or nothing
\* comes in time.
reading_fails ==
    /\ Active /\ waiting /\ ~HasReply
    /\ \/ Room = 0 /\ SessionFails("TooLongReply")
       \/ Room # 0 /\ wire = <<>> /\ closed /\ SessionFails("ConnectionAborted")
       \/ Room # 0 /\ wire = <<>> /\ ~closed /\ SessionFails("TimedOutWaitingForReply")

syntax_error ==
    /\ Active /\ waiting
    /\ unhandled # <<>>
    /\ unhandled[1].kind = "garbage"
    /\ SessionFails("SyntaxError")

\* Mutant: any reply that is not negative will do.
NotNegative(r, expected) ==
    CASE r.kind = "TransientNegative" -> "TransientMail"
      [] r.kind = "PermanentNegative" -> "PermanentMail"
      [] OTHER -> "Ok"

verify_reply(r, expected) ==
    CASE r.kind = expected -> "Ok"
      [] r.kind = "TransientNegative" ->
            CASE r.subject = "Mailbox" -> "TransientMailbox"
              [] r.subject = "MailSystem" -> "TransientMailSystem"
              [] OTHER -> "TransientMail"
      [] r.kind = "PermanentNegative" ->
            CASE r.subject = "Mailbox" -> "PermanentMailbox"
              [] r.subject = "MailSystem" -> "PermanentMailSystem"
              [] OTHER -> "PermanentMail"
      [] OTHER -> "UnexpectedReplyCode"

Verdict ==
    verify_reply(unhandled[1],
                 IF step = "DATA" THEN "PositiveIntermediate" ELSE "PositiveCompletion")

\* A reply was parsed, and verified.
Parsed(positive) ==
    /\ Active /\ waiting /\ HasReply
    /\ unhandled[1].kind # "garbage"
    /\ positive = (Verdict = "Ok")

\* It is taken out of the buffer, and s comes next.
GoTo(s) ==
    /\ unhandled' = Rest(unhandled, ReplyEnd)
    /\ start' = start + ReplyEnd
    /\ starttls' = IF step = "EHLO" THEN unhandled[1].tls ELSE starttls
    /\ step' = s
    /\ waiting' = FALSE
    /\ UNCHANGED <<quiet, did_tls, left, wire, remote, inClear>>

\* Mutant: falls back to clear text without asking must_do_tls.
FallBack == GoTo("MAIL") /\ UNCHANGED unheard

\* The end of connect_to_stream without TLS.  must_do_tls is a hook, taken to
\* answer no when it fails.
NoTls ==
    \/ must_do_tls /\ SessionFails("CannotDoTls")
    \/ ~must_do_tls /\ GoTo("MAIL") /\ UNCHANGED unheard
    \/ must_do_tls /\ GoTo("MAIL") /\ unheard' = TRUE

reply_negative ==
    /\ step # "STARTTLS"
    /\ Parsed(FALSE)
    /\ SessionFails(Verdict)

reply_positive ==
    /\ step \notin {"EHLO", "end"}
    /\ Parsed(TRUE)
    /\ GoTo(CASE step = "banner" -> "EHLO"
              [] step = "STARTTLS" -> "tls"
              [] step = "MAIL" -> "RCPT"
              [] step = "RCPT" -> "DATA"
              [] step = "DATA" -> "body")
    /\ UNCHANGED unheard

\* The reply to EHLO, and what follows.  can_do_tls is a hook, taken to answer
\* yes when it fails.
send_ehlo ==
    LET offered == unhandled[1].tls IN
    /\ step = "EHLO"
    /\ Parsed(TRUE)
    /\ \/ did_tls /\ GoTo("MAIL") /\ UNCHANGED unheard
       \/ ~did_tls /\ offered /\ GoTo("STARTTLS") /\ UNCHANGED unheard
       \/ ~did_tls /\ ~(offered /\ can_do_tls) /\ NoTls

\* The server refuses STARTTLS: the session goes on without, if it may.
starttls_refused == step = "STARTTLS" /\ Parsed(FALSE) /\ NoTls

reply_to_mail ==
    /\ step = "end"
    /\ Parsed(TRUE)
    /\ at' = "done"
    /\ result' = "Ok"
    /\ FreshSender
    /\ UNCHANGED <<config, search, remote, ghosts>>

\* One block of the mail is read and written.  The last one holds the final dot,
\* so that the server may answer before the client sees that nothing is left.
send_block ==
    /\ Active /\ step = "body"
    /\ left > 0
    /\ left' = left - 1
    /\ todo' = IF left = 1 THEN Append(todo, "end") ELSE todo
    /\ UNCHANGED <<quiet, step, waiting, starttls, did_tls, buffer, wire, closed, taken,
                   unasked, ghosts>>

end_of_mail ==
    /\ Active /\ step = "body"
    /\ left = 0
    /\ step' = "end"
    /\ waiting' = TRUE
    /\ UNCHANGED <<quiet, session, buffer, wire, remote, ghosts>>

\* Writing a block fails or times out, maybe when all of it was received.
sending_data_fails ==
    /\ Active /\ step = "body"
    /\ left > 0
    /\ Fails("SendingData")
    /\ \/ UNCHANGED todo
       \/ left = 1 /\ todo' = Append(todo, "end")
    /\ FreshSender
    /\ UNCHANGED <<config, mx, mxes, ips, ip, closed, taken, unasked, ghosts>>

reading_mail_fails == Active /\ step = "body" /\ SessionFails("ReadingMail")

-----------------------------------------------------------------------------
(* The remote server                                                       *)

Negative == {"TransientNegative", "PermanentNegative"}

\* The replies to `to'.  Only those to EHLO are searched for extensions, and only
\* if positive what they offer matters.
Replies(to) ==
    {r \in {[kind |-> c.kind, subject |-> c.subject, tls |-> tls, last |-> FALSE, to |-> to] :
              c \in Codes, tls \in BOOLEAN} :
        r.tls => r.kind = "PositiveCompletion" /\ to \in {"EHLO", "nobody"}}

\* Nobody hears what is said to a Sender that is gone.
Says(r) ==
    IF Active
    THEN \E n \in Sizes :
            wire' = wire \o [k \in 1 .. n |-> [r EXCEPT !.last = (k = n)]]
    ELSE UNCHANGED wire

\* The server answers what it was asked, maybe when the client is gone.  Of an
\* answer to the mail that is no proper one, nobody knows whether it was taken.
remote_answers ==
    /\ Active \/ \E k \in DOMAIN todo : todo[k] = "end"
    /\ ~closed
    /\ todo # <<>>
    /\ todo' = Tail(todo)
    /\ \E r \in Replies(Head(todo)) :
        /\ Says(r)
        /\ \/ taken' = taken /\ (r.to = "end" => r.kind # "PositiveCompletion")
           \/ taken' = taken \cup {ip} /\ r.to = "end" /\ r.kind \notin Negative
    /\ UNCHANGED <<quiet, step, waiting, session, buffer, closed, unasked, ghosts>>

\* The server says something that nobody asked for.
remote_speaks ==
    /\ Active
    /\ ~closed
    /\ unasked < MaxUnasked
    /\ unasked' = unasked + 1
    /\ \E r \in Replies("nobody") : Says(r)
    /\ UNCHANGED <<quiet, step, waiting, session, buffer, closed, todo, taken, ghosts>>

\* The server closes the connection, with a 421 reply or without.
remote_closes ==
    /\ Active
    /\ ~closed
    /\ closed' = TRUE
    /\ \/ Says([kind |-> "TransientNegative", subject |-> "other", tls |-> FALSE,
                to |-> "bye", last |-> FALSE])
       \/ UNCHANGED wire
    /\ UNCHANGED <<quiet, step, waiting, session, buffer, todo, taken, unasked, ghosts>>

-----------------------------------------------------------------------------
Client ==
    \/ connect \/ connect_to_mx \/ connect_to_host \/ connect_to_ip
    \/ send_command \/ read_more \/ reading_fails \/ syntax_error
    \/ reply_negative \/ reply_positive \/ send_ehlo \/ starttls_refused
    \/ send_block \/ end_of_mail \/ reply_to_mail

Failure ==
    \/ connecting_fails \/ sending_fails \/ receiving_fails
    \/ sending_data_fails \/ reading_mail_fails

Next ==
    \/ Client \/ Failure \/ tls_connect \/ tls_connect_fails
    \/ remote_answers \/ remote_speaks \/ remote_closes

Spec == Init /\ [][Next]_vars

\* The task is polled, the timers of each read fire, and the resolver, the
\* connection and the reads of the mail, which have no timer of their own, return:
\* the operating system sees to it.  Nothing is assumed of the remote server;
\* tls_connect, which has no timer, depends on it.
FairSpec == Spec /\ WF_vars(Client)

-----------------------------------------------------------------------------
(* Properties                                                              *)

severity(e) ==
    CASE e \in {"HostToTrustDns", "ReadingMail"} -> "Local"
      [] e = "SyntaxError" -> "MailSystemTransient"
      [] e = "TransientMail" -> "MailTransient"
      [] e = "TransientMailbox" -> "MailboxTransient"
      [] e = "TransientMailSystem" -> "MailSystemTransient"
      [] e = "PermanentMail" -> "MailPermanent"
      [] e = "PermanentMailbox" -> "MailboxPermanent"
      [] e = "PermanentMailSystem" -> "MailSystemPermanent"
      [] OTHER -> "NetworkTransient"

\* The failures after which the remote server may have the mail nevertheless.
Inconclusive == {"Local", "NetworkTransient", "MailSystemTransient"}

\* What the queue is told is true, if the server spoke only when asked: after Ok it
\* has the mail, and after a failure that is permanent, or that the server blames
\* on the mail or the mailbox, it does not have it and will not take it.
ResultIsTruthful ==
    unasked = 0 =>
        /\ result = "Ok" => taken = {ip}
        /\ (result \in Errors /\ severity(result) \notin Inconclusive) => taken = {}

\* One attempt hands the mail to one server at most: other exchanges and
\* addresses are tried only as long as no message was sent.
AtMostOneTakes == Cardinality(taken) <= 1

\* With must_do_tls no message goes out in clear, whatever the servers offer,
\* refuse or answer, and however many are tried: unless the hook could not be
\* asked.
ClearOnlyIfAllowed == inClear => ~must_do_tls \/ unheard

\* The client and the server stay in step, if the server speaks only when asked:
\* whatever is read while a reply is awaited answers the last command, or says
\* goodbye; otherwise only a goodbye can be there, or the answer to a mail that is
\* sent but not known to be at its end.
RepliesInStep ==
    Active /\ unasked = 0 =>
        \A u \in {unhandled[k] : k \in DOMAIN unhandled} \cup {wire[k] : k \in DOMAIN wire} :
            \/ u.to = "bye"
            \/ waiting /\ u.to = step
            \/ step = "body" /\ left = 0 /\ u.to = "end"

\* read_reply takes a reply for too long only if it does not fit in rdbuf,
\* wherever in rdbuf the replies before it ended.
TooLongIsTooLong ==
    Active /\ waiting /\ ~HasReply /\ Room = 0 =>
        \A k \in 1 .. Capacity : ~(unhandled \o wire)[k].last

\* What connect_to_stream says of STARTTLS: "pipelining is forbidden", nothing is
\* left of what was read in clear once TLS is on.
NothingReadAhead == [][did_tls' /\ ~did_tls => unhandled' = <<>>]_vars

\* An attempt ends, however silent the remote servers are, unless one of them is
\* silent in the TLS handshake.
AttemptEnds == <>[](at = "done" \/ (Active /\ step = "tls"))
=============================================================================
