----------------------------- MODULE SmtpServer -----------------------------
(***************************************************************************)
(* One connection of smtp-server: the loop of interact over its read       *)
(* buffer, the EscapedDataReader that reads the message through the same   *)
(* buffer, and the handle_mail that consumes it.                           *)
(*                                                                         *)
(* The client follows a script of lines.  A line travels as a few          *)
(* characters, <<number of the line, class of the character>>, and reads   *)
(* cut the stream between any two of them.  The number only serves the     *)
(* properties and gives the command a line holds; what the server does     *)
(* depends on the classes: "cmd" (the verb of a command), ".", "CR", "LF"  *)
(* and "t" (anything else).  The configuration's hooks may take any        *)
(* decision.                                                               *)
(***************************************************************************)
EXTENDS Naturals, Sequences, FiniteSets, FiniteSetsExt

CONSTANTS
    Scripts,        \* what clients send: a set of sequences of Kinds
    Protocol,       \* "Smtp" or "Lmtp"
    AlreadyTls,     \* is_already_tls
    Capacity,       \* RDBUF_SIZE
    MinFree,        \* MINIMUM_FREE_BUFSPACE
    DataBuf,        \* size of the buffer handle_mail reads into
    IgnoreBuf       \* size of ignore_buf

\* "NOOP" stands for the commands that only have a simple handler (EXPN, VRFY,
\* HELP, NOOP, QUIT); "full" is one that fills the buffer to the last character
\* and "long" one that is a character too long for it.
Hellos == {"EHLO", "HELO", "LHLO"}
Simple == {"NOOP", "full", "long"}
Commands == Hellos \cup Simple \cup {"MAIL", "RCPT", "DATA", "RSET", "STARTTLS"}
Kinds == Commands \cup {"text", "stuffed", "."}

ASSUME ServerAssumption ==
    /\ \A s \in Scripts : s \in Seq(Kinds)
    /\ Protocol \in {"Smtp", "Lmtp"}
    /\ AlreadyTls \in BOOLEAN
    /\ Capacity \in Nat \ (0 .. 3)
    /\ MinFree \in 1 .. Capacity
    /\ DataBuf \in 1 .. Capacity
    /\ IgnoreBuf \in 1 .. Capacity

VARIABLES
    script, sent, closed,   \* the client
    wire,       \* characters sent and not yet read
    tlsFrom,    \* how many lines were sent before the TLS handshake
    at,         \* where interact is
    start,      \* unhandled.start
    unhandled,  \* the characters in rdbuf[unhandled]
    crlf,       \* state of next_crlf
    hello,      \* conn_meta.hello: "none", "plain" or "extended"
    encrypted,  \* conn_meta.is_encrypted
    mail,       \* mail_meta: the MAIL line and the accepted RCPT lines
    handling,   \* the mail_meta given to handle_mail
    reader,     \* state of the EscapedDataReader
    body,       \* the lines of the message, as read by handle_mail
    answer,     \* the last line that got a reply, and how many it got
    accepted,   \* the lines that got a positive reply
    outcome     \* how interact ended

client == <<script, sent, closed>>
io == <<wire, tlsFrom>>
buffer == <<start, unhandled>>
meta == <<hello, encrypted, mail>>
data == <<handling, reader, body>>
vars == <<client, io, at, buffer, crlf, meta, data, answer, accepted, outcome>>

NoMail == [from |-> 0, to |-> {}]
Lines == 1 .. Len(script)
Chars == Lines \X {"cmd", "t", ".", "CR", "LF"}

\* Where interact is and what its variables hold; the unhandled range lies
\* within rdbuf.
TypeOK ==
    /\ sent \in 0 .. Len(script)
    /\ closed \in BOOLEAN
    /\ wire \in Seq(Chars)
    /\ tlsFrom \in 0 .. sent
    /\ at \in {"banner", "loop", "bad", "tooLong", "data", "drain", "tls", "over"}
    /\ unhandled \in Seq(Chars)
    /\ start \in Nat
    /\ start + Len(unhandled) <= Capacity
    /\ crlf \in {"Start", "CrPassed"}
    /\ hello \in {"none", "plain", "extended"}
    /\ encrypted \in BOOLEAN
    /\ {mail, handling} \subseteq [from : 0 .. sent, to : SUBSET Lines]
    /\ reader \in {"Start", "Cr", "CrLf", "CrLfDot", "CrLfDotCr", "End", "Completed"}
    /\ body \subseteq Lines
    /\ accepted \subseteq Lines
    /\ answer \in (0 .. sent) \X ({1} \cup 0 .. Len(script))
    /\ outcome \in {"none", "ok", "aborted", "failed", "killed", "timeout"}

Init ==
    /\ script \in Scripts
    /\ sent = 0
    /\ closed = FALSE
    /\ wire = <<>>
    /\ tlsFrom = 0
    /\ at = "banner"
    /\ start = 0
    /\ unhandled = <<>>
    /\ crlf = "Start"
    /\ hello = "none"
    /\ encrypted = AlreadyTls
    /\ mail = NoMail
    /\ handling = NoMail
    /\ reader = "Completed"
    /\ body = {}
    /\ answer = <<0, 0>>
    /\ accepted = {}
    /\ outcome = "none"

-----------------------------------------------------------------------------
(* The client                                                              *)

Verb(n, size) == <<<<n, "cmd">>>> \o [k \in 1 .. size - 3 |-> <<n, "t">>]

CharsOf(n) ==
    LET kind == script[n]
        text == CASE kind = "."       -> <<<<n, ".">>>>
                  [] kind = "text"    -> <<<<n, "t">>>>
                  [] kind = "stuffed" -> <<<<n, ".">>, <<n, "t">>>>
                  [] kind = "full"    -> Verb(n, Capacity)
                  [] kind = "long"    -> Verb(n, Capacity + 1)
                  [] OTHER            -> <<<<n, "cmd">>>>
    IN  text \o <<<<n, "CR">>, <<n, "LF">>>>

client_sends ==
    /\ sent < Len(script)
    /\ ~closed
    /\ at # "over"
    /\ sent' = sent + 1
    /\ wire' = wire \o CharsOf(sent')
    /\ UNCHANGED <<script, closed, tlsFrom, at, buffer, crlf, meta, data, answer,
                   accepted, outcome>>

client_closes ==
    /\ ~closed
    /\ at # "over"
    /\ closed' = TRUE
    /\ UNCHANGED <<script, sent, io, at, buffer, crlf, meta, data, answer,
                   accepted, outcome>>

-----------------------------------------------------------------------------
(* Reading and parsing                                                     *)

Rest(s, n) == SubSeq(s, n + 1, Len(s))

\* The index of the LF of the first CRLF of the buffer, 0 if there is none;
\* `before' tells what preceded the buffer.
next_crlf(before) ==
    LET IsEnd(k) == /\ unhandled[k][2] = "LF"
                    /\ IF k = 1 THEN before = "CrPassed"
                                ELSE unhandled[k - 1][2] = "CR"
    IN  IF \E k \in DOMAIN unhandled : IsEnd(k)
        THEN CHOOSE k \in DOMAIN unhandled :
                IsEnd(k) /\ \A j \in 1 .. k - 1 : ~IsEnd(j)
        ELSE 0

\* The line at the beginning of the buffer, and its end.
Line == unhandled[1][1]
LineEnd == next_crlf("Start")

\* A read into a buffer with room for `room' characters.
Read(room, into) ==
    \E n \in 1 .. Len(wire) :
        /\ n <= room
        /\ unhandled' = into \o SubSeq(wire, 1, n)
        /\ wire' = Rest(wire, n)

Eof == closed /\ wire = <<>>

\* interact returns.
Return(how) == at' = "over" /\ outcome' = how

\* send_reply: the reply to line n is written and interact goes on, or the write
\* fails or times out.
reply_sent(n, next) == answer' = <<n, 1>> /\ at' = next /\ UNCHANGED outcome
reply_fails == UNCHANGED answer /\ Return("failed")
send_reply(n, next) == reply_sent(n, next) \/ reply_fails

\* Decision::Kill, with or without a reply.
Kill(n) == answer' \in {answer, <<n, 1>>} /\ Return("killed")

welcome ==
    /\ at = "banner"
    /\ send_reply(0, "loop")
    /\ UNCHANGED <<client, io, buffer, crlf, meta, data, accepted>>

\* The loop starts with an empty buffer.
read_first ==
    /\ at = "loop"
    /\ unhandled = <<>>
    /\ \/ Read(Capacity, <<>>) /\ start' = 0 /\ UNCHANGED <<at, outcome>>
       \/ Eof /\ Return("ok") /\ UNCHANGED <<wire, buffer>>
    /\ UNCHANGED <<client, tlsFrom, crlf, meta, data, answer, accepted>>

\* Mutant: the partial line is never moved to the beginning of the buffer.
read_more_in_place ==
    LET end == start + Len(unhandled) IN
    /\ at = "loop"
    /\ unhandled # <<>>
    /\ LineEnd = 0
    /\ \/ end = Capacity /\ at' = "tooLong" /\ UNCHANGED <<wire, unhandled, outcome>>
       \/ Read(Capacity - end, unhandled) /\ UNCHANGED <<at, outcome>>
       \/ end < Capacity /\ Eof /\ Return("aborted") /\ UNCHANGED <<wire, unhandled>>
    /\ UNCHANGED <<start, client, tlsFrom, crlf, meta, data, answer, accepted>>

\* Mutant: a full buffer is not recognised, and nothing is read into it.
read_more_full ==
    LET move == start # 0 /\ MinFree > Capacity - (start + Len(unhandled))
        first == IF move THEN 0 ELSE start
        end == first + Len(unhandled) IN
    /\ at = "loop"
    /\ unhandled # <<>>
    /\ LineEnd = 0
    /\ start' = first
    /\ \/ Read(Capacity - end, unhandled) /\ UNCHANGED <<at, outcome>>
       \/ (end = Capacity \/ Eof) /\ Return("aborted")
          /\ UNCHANGED <<wire, unhandled>>
    /\ UNCHANGED <<client, tlsFrom, crlf, meta, data, answer, accepted>>

\* Mutant: the room is computed from the length of the line, not from its end.
read_more_room ==
    LET free == Capacity - Len(unhandled) IN
    /\ at = "loop"
    /\ unhandled # <<>>
    /\ LineEnd = 0
    /\ \/ free = 0 /\ at' = "tooLong" /\ UNCHANGED <<wire, unhandled, outcome>>
       \/ Read(free, unhandled) /\ UNCHANGED <<at, outcome>>
       \/ free # 0 /\ Eof /\ Return("aborted") /\ UNCHANGED <<wire, unhandled>>
    /\ UNCHANGED <<start, client, tlsFrom, crlf, meta, data, answer, accepted>>

\* Command::parse is Incomplete: the line is moved to the beginning of the buffer
\* if there is little room after it; if it fills the buffer it is too long.
read_more ==
    LET move == start # 0 /\ MinFree > Capacity - (start + Len(unhandled))
        first == IF move THEN 0 ELSE start
        end == first + Len(unhandled) IN
    /\ at = "loop"
    /\ unhandled # <<>>
    /\ LineEnd = 0
    /\ start' = first
    /\ \/ end = Capacity /\ at' = "tooLong" /\ UNCHANGED <<wire, unhandled, outcome>>
       \/ Read(Capacity - end, unhandled) /\ UNCHANGED <<at, outcome>>
       \/ end < Capacity /\ Eof /\ Return("aborted") /\ UNCHANGED <<wire, unhandled>>
    /\ UNCHANGED <<client, tlsFrom, crlf, meta, data, answer, accepted>>

\* Command::parse fails, for some lines before their CRLF is there.
syntax_error ==
    /\ at = "loop"
    /\ unhandled # <<>>
    /\ unhandled[1][2] # "cmd"
    /\ at' = "bad"
    /\ UNCHANGED <<client, io, buffer, crlf, meta, data, answer, accepted, outcome>>

\* Mutant: a CR at the end of a read is forgotten.
advance_until_crlf_stateless ==
    /\ at \in {"bad", "tooLong"}
    /\ \/ /\ LineEnd # 0
          /\ start' = start + LineEnd
          /\ unhandled' = Rest(unhandled, LineEnd)
          /\ send_reply(unhandled[LineEnd][1], "loop")
          /\ UNCHANGED wire
       \/ /\ LineEnd = 0
          /\ Read(Capacity, <<>>)
          /\ start' = 0
          /\ UNCHANGED <<at, answer, outcome>>
       \/ /\ LineEnd = 0
          /\ Eof
          /\ Return("aborted")
          /\ UNCHANGED <<wire, buffer, answer>>
    /\ UNCHANGED <<client, tlsFrom, crlf, meta, data, accepted>>

\* The rest of a line that is too long or no command is skipped, and refused.
advance_until_crlf ==
    LET end == next_crlf(crlf)
        passed == IF unhandled[Len(unhandled)][2] = "CR" THEN "CrPassed" ELSE "Start" IN
    /\ at \in {"bad", "tooLong"}
    /\ \/ /\ end # 0
          /\ start' = start + end
          /\ unhandled' = Rest(unhandled, end)
          /\ crlf' = "Start"
          /\ send_reply(unhandled[end][1], "loop")
          /\ UNCHANGED wire
       \/ /\ end = 0
          /\ crlf' = passed
          /\ Read(Capacity, <<>>)
          /\ start' = 0
          /\ UNCHANGED <<at, answer, outcome>>
       \/ /\ end = 0
          /\ Eof
          /\ Return("aborted")
          /\ UNCHANGED <<wire, buffer, crlf, answer>>
    /\ UNCHANGED <<client, tlsFrom, meta, data, accepted>>

\* interact waits for a read: for a command, for the end of a line it skips,
\* or for the rest of a message that handle_mail gave up on.
Reading ==
    \/ at = "loop" /\ (unhandled = <<>> \/ LineEnd = 0)
    \/ at \in {"bad", "tooLong"} /\ next_crlf(crlf) = 0
    \/ at = "drain" /\ unhandled = <<>> /\ reader # "End"

\* The read returns an error.
read_fails ==
    /\ Reading
    /\ Return("failed")
    /\ UNCHANGED <<client, io, buffer, crlf, meta, data, answer, accepted>>

\* Mutant: the message handle_mail left unread is read without a limit.
timed_out_not_drain ==
    /\ Reading /\ at # "drain"
    /\ wire = <<>> /\ ~closed
    /\ Return("timeout")
    /\ UNCHANGED <<client, io, buffer, crlf, meta, data, answer, accepted>>

\* read_for_command gives up on a client that sends nothing; handle_mail and
\* tls_accept have no such limit.
timed_out ==
    /\ Reading
    /\ wire = <<>> /\ ~closed
    /\ Return("timeout")
    /\ UNCHANGED <<client, io, buffer, crlf, meta, data, answer, accepted>>

-----------------------------------------------------------------------------
(* The commands                                                            *)

\* A command of one of these kinds was parsed; it is taken out of the buffer.
Parsed(kinds) ==
    /\ at = "loop"
    /\ unhandled # <<>>
    /\ unhandled[1][2] = "cmd"
    /\ LineEnd # 0
    /\ script[Line] \in kinds
    /\ start' = start + LineEnd
    /\ unhandled' = Rest(unhandled, LineEnd)
    /\ UNCHANGED <<client, crlf>>

\* A positive reply to the command.
Accept(next) == accepted' = accepted \cup {Line} /\ send_reply(Line, next)

\* A negative reply to the command, because it came at the wrong moment or by
\* the decision of its hook.
Reject == send_reply(Line, "loop") /\ UNCHANGED accepted

Die == Kill(Line) /\ UNCHANGED accepted

handle_hello ==
    LET expected == IF Protocol = "Smtp" THEN {"EHLO", "HELO"} ELSE {"LHLO"}
        allowed == script[Line] \in expected /\ hello = "none" IN
    /\ Parsed(Hellos)
    /\ \/ /\ allowed
          /\ hello' = IF script[Line] = "HELO" THEN "plain" ELSE "extended"
          /\ Accept("loop")
       \/ (Reject \/ (allowed /\ Die)) /\ UNCHANGED hello
    /\ UNCHANGED <<io, encrypted, mail, data>>

handle_mail_from ==
    LET allowed == hello # "none" /\ mail = NoMail IN
    /\ Parsed({"MAIL"})
    /\ \/ /\ allowed
          /\ mail' = [from |-> Line, to |-> {}]
          /\ Accept("loop")
       \/ (Reject \/ (allowed /\ Die)) /\ UNCHANGED mail
    /\ UNCHANGED <<io, hello, encrypted, data>>

handle_rcpt ==
    /\ Parsed({"RCPT"})
    /\ \/ /\ mail # NoMail
          /\ mail' = [mail EXCEPT !.to = @ \cup {Line}]
          /\ Accept("loop")
       \/ (Reject \/ (mail # NoMail /\ Die)) /\ UNCHANGED mail
    /\ UNCHANGED <<io, hello, encrypted, data>>

\* Mutant: an accepted RSET keeps the transaction.
handle_rset_keeps ==
    /\ Parsed({"RSET"})
    /\ Accept("loop") \/ Reject \/ Die
    /\ UNCHANGED <<io, meta, data>>

handle_rset ==
    /\ Parsed({"RSET"})
    /\ \/ mail' = NoMail /\ Accept("loop")
       \/ (Reject \/ Die) /\ UNCHANGED mail
    /\ UNCHANGED <<io, hello, encrypted, data>>

simple_handler ==
    /\ Parsed(Simple)
    /\ Accept("loop") \/ Reject \/ Die
    /\ UNCHANGED <<io, meta, data>>

\* Mutant: what the client pipelined is not looked at.
handle_starttls_pipelined ==
    /\ Parsed({"STARTTLS"})
    /\ Reject \/ Accept("tls") \/ Die
    /\ UNCHANGED <<io, meta, data>>

\* can_do_tls is a hook, and may give any answer at any time.  (When it fails it
\* panics: the session ends without a reply, as if one could not be sent.)
handle_starttls ==
    LET allowed == LineEnd = Len(unhandled) IN
    /\ Parsed({"STARTTLS"})
    /\ Reject \/ (allowed /\ (Accept("tls") \/ Die))
    /\ UNCHANGED <<io, meta, data>>

\* The handshake takes what follows on the wire for TLS and fails on anything
\* else; afterwards the session starts afresh.
tls_accept ==
    /\ at = "tls"
    /\ \/ /\ wire = <<>> /\ ~closed
          /\ tlsFrom' = sent
          /\ mail' = NoMail
          /\ encrypted' = TRUE
          /\ hello' = "none"
          /\ at' = "loop"
          /\ UNCHANGED outcome
       \/ Return("failed") /\ UNCHANGED <<tlsFrom, meta>>
    /\ UNCHANGED <<client, wire, buffer, crlf, data, answer, accepted>>

-----------------------------------------------------------------------------
(* The message                                                             *)

\* mail_meta is taken; only the hook's Reject puts it back.
handle_data ==
    LET allowed == mail # NoMail /\ mail.to # {} IN
    /\ Parsed({"DATA"})
    /\ \/ /\ allowed
          /\ reply_sent(Line, "data")
          /\ accepted' = accepted \cup {Line}
          /\ mail' = NoMail
          /\ handling' = mail
          /\ reader' = "CrLf"
          /\ body' = {}
       \/ Reject /\ mail' = (IF allowed THEN mail ELSE NoMail) /\ UNCHANGED data
       \/ allowed /\ Die /\ mail' = NoMail /\ UNCHANGED data
    /\ UNCHANGED <<io, hello, encrypted>>

\* One character through EscapedDataReader.
ReaderStep(state, c) ==
    CASE state = "End" -> "End"
      [] state = "Cr" /\ c = "LF" -> "CrLf"
      [] state = "CrLf" /\ c = "." -> "CrLfDot"
      [] state = "CrLfDot" /\ c = "CR" -> "CrLfDotCr"
      [] state = "CrLfDotCr" /\ c = "LF" -> "End"
      [] OTHER -> IF c = "CR" THEN "Cr" ELSE "Start"

\* Mutant: what a read from rdbuf took beyond the end of the message is lost.
poll_read_drops(size) ==
    LET source == IF unhandled # <<>> THEN unhandled ELSE wire IN
    \E n \in 1 .. Min({size, Len(source)}) :
        LET state[k \in 0 .. n] ==
                IF k = 0 THEN reader ELSE ReaderStep(state[k - 1], source[k][2])
            lines == {k \in 1 .. n : source[k][2] = "LF" /\ state[k] # "End"} IN
        /\ reader' = state[n]
        /\ body' = body \cup {source[k][1] : k \in lines}
        /\ unhandled' = IF unhandled # <<>> THEN Rest(source, n) ELSE <<>>
        /\ start' = 0
        /\ wire' = IF unhandled # <<>> THEN wire ELSE Rest(wire, n)

\* A read of EscapedDataReader into a buffer of the given size: from rdbuf if
\* something is left in it, from the connection otherwise; what follows the end
\* of the message goes back to rdbuf.
poll_read(size) ==
    LET buffered == unhandled # <<>>
        source == IF buffered THEN unhandled ELSE wire IN
    \E n \in 1 .. Min({size, Len(source)}) :
        LET state[k \in 0 .. n] ==
                IF k = 0 THEN reader ELSE ReaderStep(state[k - 1], source[k][2])
            used == IF state[n] = "End"
                    THEN Min({k \in 1 .. n : state[k] = "End"})
                    ELSE n
            left == IF buffered THEN Rest(source, n) ELSE <<>>
            lines == {k \in 1 .. used : source[k][2] = "LF" /\ state[k] # "End"} IN
        /\ buffered => n = Min({size, Len(source)})
        /\ reader' = state[n]
        /\ body' = body \cup {source[k][1] : k \in lines}
        /\ unhandled' = SubSeq(source, used + 1, n) \o left
        /\ start' = IF left = <<>> THEN 0 ELSE start + used
        /\ wire' = IF buffered THEN wire ELSE Rest(wire, n)

\* handle_mail reads on; if the connection is gone it returns.
handle_mail_reads ==
    /\ at = "data"
    /\ reader # "End"
    /\ \/ poll_read(DataBuf) /\ UNCHANGED at
       \/ /\ unhandled = <<>> /\ Eof
          /\ at' = "drain"
          /\ UNCHANGED <<wire, buffer, reader, body>>
    /\ UNCHANGED <<client, tlsFrom, crlf, meta, handling, answer, accepted, outcome>>

\* The queue fails, and handle_mail returns without calling complete().
handle_mail_gives_up ==
    /\ at = "data"
    /\ at' = "drain"
    /\ UNCHANGED <<client, io, buffer, crlf, meta, data, answer, accepted, outcome>>

\* The lines that are out of the buffer: all before the one that comes next.
Handled ==
    IF unhandled \o wire = <<>> THEN sent ELSE (unhandled \o wire)[1][1] - 1

\* Mutant: a single decision is expected, as for SMTP.
expected_n_decisions_smtp == 1

expected_n_decisions == IF Protocol = "Smtp" THEN 1 ELSE Cardinality(handling.to)

\* The reader is completed and the message gets its replies; interact returns
\* early if one cannot be written or a decision is Kill.
Conclude ==
    /\ reader = "End"
    /\ reader' = "Completed"
    /\ \/ /\ answer' = <<Handled, expected_n_decisions>>
          /\ at' = "loop"
          /\ UNCHANGED outcome
       \/ \E k \in 0 .. expected_n_decisions, how \in {"failed", "killed"} :
            /\ answer' = IF k = 0 THEN answer ELSE <<Handled, k>>
            /\ Return(how)
    /\ UNCHANGED <<client, io, buffer, crlf, meta, handling, body, accepted>>

handle_mail_completes == at = "data" /\ Conclude

\* interact reads the rest of a message that handle_mail gave up on.
drain ==
    /\ at = "drain"
    /\ \/ /\ reader # "End"
          /\ poll_read(IgnoreBuf)
          /\ UNCHANGED <<client, tlsFrom, at, crlf, meta, handling, answer, accepted,
                         outcome>>
       \/ /\ reader # "End"
          /\ unhandled = <<>> /\ Eof
          /\ Return("aborted")
          /\ UNCHANGED <<client, io, buffer, crlf, meta, data, answer, accepted>>
       \/ Conclude

-----------------------------------------------------------------------------
Server ==
    \/ welcome \/ read_first \/ read_more \/ syntax_error \/ advance_until_crlf
    \/ handle_hello \/ handle_mail_from \/ handle_rcpt \/ handle_rset
    \/ simple_handler \/ handle_starttls \/ handle_data \/ handle_mail_reads
    \/ handle_mail_completes \/ drain

Next ==
    \/ client_sends \/ client_closes
    \/ Server \/ timed_out \/ read_fails \/ tls_accept \/ handle_mail_gives_up

Spec == Init /\ [][Next]_vars

\* The executor keeps polling a connection that has something to do, and its
\* timers fire; the client owes nothing.
FairSpec == Spec /\ WF_vars(Server) /\ WF_vars(timed_out)

-----------------------------------------------------------------------------
(* Properties                                                              *)

\* A line is only refused as too long if it does not fit into rdbuf: the
\* compaction of the buffer makes room for any line that does, wherever in the
\* buffer the lines before it left off.
TooLongIsTooLong ==
    at = "tooLong" => script[Handled + 1] = "long"

\* What handle_mail is given is what the client was told: the last MAIL that
\* was accepted and every RCPT accepted since, with no RSET, STARTTLS or other
\* message in between, in a session that said hello (again, after STARTTLS).
EnvelopeAsAcknowledged ==
    LET Between(a, b, kinds) ==
            \E l \in accepted : a < l /\ l < b /\ script[l] \in kinds
        from == handling.from IN
    at \in {"data", "drain"} =>
        /\ from \in accepted /\ script[from] = "MAIL"
        /\ handling.to = {r \in accepted : r > from /\ script[r] = "RCPT"}
        /\ handling.to # {}
        /\ ~Between(from, answer[1], {"MAIL", "DATA", "RSET", "STARTTLS"})
        /\ \E h \in accepted :
            script[h] \in Hellos /\ h < from /\ ~Between(h, from, {"STARTTLS"})

\* Nothing the client sent in clear survives STARTTLS: neither in the buffer
\* or on the wire, to be taken for a command later, nor in the session's state.
TlsStartsAfresh ==
    encrypted =>
        /\ \A k \in DOMAIN unhandled : unhandled[k][1] > tlsFrom
        /\ \A k \in DOMAIN wire : wire[k][1] > tlsFrom
        /\ mail = NoMail \/ mail.from > tlsFrom
        /\ hello = "none" \/ \E h \in accepted : h > tlsFrom /\ script[h] \in Hellos

mode == CASE at = "over" -> "over"
          [] at \in {"data", "drain"} -> IF reader = "End" THEN "ended" ELSE "data"
          [] OTHER -> "command"

Dialogue == INSTANCE SmtpDialogue WITH handled <- Handled

\* However the stream is cut into reads, whatever the client pipelines and
\* whatever handle_mail does, the session is one in which each line is handled
\* once, in order, as a command or as a line of the message, and in which each
\* command and each message has its replies: with LMTP, the message has one for
\* each recipient the client was told is accepted.
ImplementsDialogue == Dialogue!DialogueSpec

\* The server catches up with what was sent, unless it waits for a TLS
\* handshake, a hook ends the session or the connection fails: no line, however
\* long and wherever in rdbuf it starts, makes it give up.
LinesGetHandled ==
    sent > Handled ~>
        Handled = sent \/ at = "tls" \/ outcome \in {"failed", "killed"}

\* A session comes to an end when its client falls silent, unless that happens
\* inside handle_mail or tls_accept.
SilenceEndsSession == <>[](at \in {"over", "data", "tls"})
=============================================================================
