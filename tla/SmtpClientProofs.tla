-------------------------- MODULE SmtpClientProofs --------------------------
(***************************************************************************)
(* Proofs about SmtpClient, for any exchanges and addresses, any mail, any *)
(* sizes of replies and of the buffer, and servers that speak unasked as   *)
(* often as they like: what the buffer and the stream of replies hold,     *)
(* which server has the mail, and what the attempt returns.                *)
(***************************************************************************)
EXTENDS SmtpClient, FiniteSetTheorems, TLAPS

\* What is on its way to the parser: rdbuf, then the connection.
Stream == unhandled \o wire

-----------------------------------------------------------------------------
(* Streams of pieces: what reading, parsing and answering do to one.       *)

\* Two streams put together.
LEMMA StreamTypes ==
    ASSUME NEW S, NEW u \in Seq(S), NEW w \in Seq(S)
    PROVE  /\ u \o w \in Seq(S) /\ Len(u \o w) = Len(u) + Len(w)
           /\ \A k \in 1..Len(u) : (u \o w)[k] = u[k]
           /\ \A k \in 1..Len(w) : (u \o w)[Len(u) + k] = w[k]
<1>1. Len(u) \in Nat /\ Len(w) \in Nat
  OBVIOUS
<1>2. u \o w \in Seq(S)
  OBVIOUS
<1>3. Len(u \o w) = Len(u) + Len(w)
  OBVIOUS
<1>4. \A k \in 1..Len(u) : (u \o w)[k] = u[k]
  OBVIOUS
<1>5. \A k \in 1..Len(w) : (u \o w)[Len(u) + k] = w[k]
  OBVIOUS
<1>. QED  BY <1>2, <1>3, <1>4, <1>5, Zenon

\* What is left of a stream without its first n pieces.
LEMMA RestOf ==
    ASSUME NEW S, NEW u \in Seq(S), NEW n \in 1..Len(u)
    PROVE  /\ Rest(u, n) \in Seq(S) /\ Len(Rest(u, n)) = Len(u) - n
           /\ \A k \in 1..(Len(u) - n) : Rest(u, n)[k] = u[n + k]
<1>1. /\ Len(u) \in Nat /\ n \in Nat /\ n <= Len(u) /\ 1 <= n
      /\ \A k \in (n + 1)..Len(u) : u[k] \in S
  OBVIOUS
<1>2. SubSeq(u, n + 1, Len(u)) \in Seq(S)
  BY <1>1
<1>3. Len(SubSeq(u, n + 1, Len(u))) = Len(u) - n
  BY <1>1
<1>4. \A k \in 1..(Len(u) - n) : SubSeq(u, n + 1, Len(u))[k] = u[n + k]
  BY <1>1
<1>. QED  BY <1>2, <1>3, <1>4, Zenon DEF Rest

\* The same pieces in the same order.
Same(q, p) == Len(q) = Len(p) /\ \A k \in 1..Len(q) : q[k] = p[k]

\* Reading moves the cut between the buffer and the connection.
LEMMA ReadKeepsStream ==
    ASSUME NEW S, NEW u \in Seq(S), NEW w \in Seq(S), NEW n \in 1..Len(w)
    PROVE  /\ u \o SubSeq(w, 1, n) \in Seq(S) /\ Len(u \o SubSeq(w, 1, n)) = Len(u) + n
           /\ Rest(w, n) \in Seq(S)
           /\ Same((u \o SubSeq(w, 1, n)) \o Rest(w, n), u \o w)
<1>1. Len(w) \in Nat /\ n \in Nat /\ n <= Len(w) /\ \A k \in 1..Len(w) : w[k] \in S
  OBVIOUS
<1>2. /\ SubSeq(w, 1, n) \in Seq(S) /\ Len(SubSeq(w, 1, n)) = n
      /\ \A k \in 1..n : SubSeq(w, 1, n)[k] = w[k]
  BY <1>1
<1>. DEFINE a == SubSeq(w, 1, n)
            b == Rest(w, n)
<1>3. /\ a \in Seq(S) /\ Len(a) = n /\ \A k \in 1..n : a[k] = w[k]
      /\ b \in Seq(S) /\ Len(b) = Len(w) - n /\ \A k \in 1..(Len(w) - n) : b[k] = w[n + k]
  BY <1>1, <1>2, RestOf, Zenon
<1>. HIDE DEF a, b
<1>4. /\ u \o a \in Seq(S) /\ Len(u \o a) = Len(u) + n
      /\ \A k \in 1..Len(u) : (u \o a)[k] = u[k]
      /\ \A k \in 1..n : (u \o a)[Len(u) + k] = a[k]
  <2>0. a \in Seq(S)
    BY <1>3, Zenon
  <2>1. /\ u \o a \in Seq(S) /\ Len(u \o a) = Len(u) + Len(a)
        /\ \A k \in 1..Len(u) : (u \o a)[k] = u[k]
        /\ \A k \in 1..Len(a) : (u \o a)[Len(u) + k] = a[k]
    BY <2>0, StreamTypes
  <2>. QED  BY <1>3, <2>1, Zenon
<1>. DEFINE c == u \o a
<1>c. c \in Seq(S) /\ b \in Seq(S)
  BY <1>3, <1>4, Zenon
<1>. HIDE DEF c
<1>5. /\ c \o b \in Seq(S) /\ Len(c \o b) = Len(c) + Len(b)
      /\ \A k \in 1..Len(c) : (c \o b)[k] = c[k]
      /\ \A k \in 1..Len(b) : (c \o b)[Len(c) + k] = b[k]
  BY <1>c, StreamTypes
<1>6. /\ u \o w \in Seq(S) /\ Len(u \o w) = Len(u) + Len(w)
      /\ \A k \in 1..Len(u) : (u \o w)[k] = u[k]
      /\ \A k \in 1..Len(w) : (u \o w)[Len(u) + k] = w[k]
  BY StreamTypes
<1>7. ASSUME NEW k \in 1..Len(c \o b)
      PROVE  (c \o b)[k] = (u \o w)[k]
  <2>1. CASE k \in 1..Len(u)
    BY <1>1, <1>3, <1>4, <1>5, <1>6, <2>1 DEF c
  <2>2. CASE k \in 1..Len(c) /\ k \notin 1..Len(u)
    <3>1. k - Len(u) \in 1..n /\ k = Len(u) + (k - Len(u)) /\ k - Len(u) \in 1..Len(w)
      BY <1>1, <1>3, <1>4, <2>2 DEF c
    <3>. QED  BY <1>3, <1>4, <1>5, <1>6, <2>2, <3>1, SMTT(60) DEF c
  <2>3. CASE k \notin 1..Len(c)
    <3>1. PICK j \in 1..Len(b) : /\ k = Len(c) + j /\ j \in 1..(Len(w) - n)
                                 /\ n + j \in 1..Len(w) /\ k = Len(u) + (n + j)
      <4>1. /\ k - Len(c) \in 1..Len(b) /\ k = Len(c) + (k - Len(c))
            /\ k - Len(c) \in 1..(Len(w) - n)
            /\ n + (k - Len(c)) \in 1..Len(w) /\ k = Len(u) + (n + (k - Len(c)))
        BY <1>1, <1>3, <1>4, <1>5, <2>3, SMTT(60) DEF c
      <4>. QED  BY <4>1, Zenon
    <3>2. (c \o b)[k] = b[j] /\ b[j] = w[n + j] /\ (u \o w)[k] = w[n + j]
      BY <1>3, <1>5, <1>6, <3>1, ZenonT(60)
    <3>. QED  BY <3>2, Zenon
  <2>. QED  BY <2>1, <2>2, <2>3, Zenon
<1>8. Len(c \o b) = Len(u \o w)
  BY <1>1, <1>3, <1>4, <1>5, <1>6 DEF c
<1>9. Same(c \o b, u \o w)
  BY <1>7, <1>8, Zenon DEF Same
<1>. QED  BY <1>3, <1>4, <1>9, Zenon DEF a, b, c

\* p is q without its first n pieces.
Cut(q, p, n) ==
    /\ Len(p) = Len(q) - n
    /\ \A k \in 1..Len(p) : p[k] = q[n + k]

\* Parsing takes pieces away at the front.
LEMMA ParseCutsStream ==
    ASSUME NEW S, NEW u \in Seq(S), NEW w \in Seq(S), NEW n \in 1..Len(u)
    PROVE  Cut(u \o w, Rest(u, n) \o w, n)
<1>1. Len(u) \in Nat /\ Len(w) \in Nat /\ n \in Nat /\ n <= Len(u) /\ 1 <= n
  OBVIOUS
<1>2. /\ Rest(u, n) \in Seq(S) /\ Len(Rest(u, n)) = Len(u) - n
      /\ \A k \in 1..(Len(u) - n) : Rest(u, n)[k] = u[n + k]
  BY RestOf, Zenon
<1>. DEFINE r == Rest(u, n)
<1>r. r \in Seq(S)
  BY <1>2, Zenon
<1>. HIDE DEF r
<1>3. /\ Len(r \o w) = Len(r) + Len(w)
      /\ \A k \in 1..Len(r) : (r \o w)[k] = r[k]
      /\ \A k \in 1..Len(w) : (r \o w)[Len(r) + k] = w[k]
  BY <1>r, StreamTypes
<1>4. /\ Len(u \o w) = Len(u) + Len(w)
      /\ \A k \in 1..Len(u) : (u \o w)[k] = u[k]
      /\ \A k \in 1..Len(w) : (u \o w)[Len(u) + k] = w[k]
  BY StreamTypes
<1>5. ASSUME NEW k \in 1..Len(r \o w)
      PROVE  (r \o w)[k] = (u \o w)[n + k]
  <2>1. CASE k \in 1..Len(r)
    BY <1>1, <1>2, <1>3, <1>4, <2>1 DEF r
  <2>2. CASE k \notin 1..Len(r)
    <3>1. k - Len(r) \in 1..Len(w) /\ k = Len(r) + (k - Len(r)) /\ n + k = Len(u) + (k - Len(r))
      BY <1>1, <1>2, <1>3, <2>2 DEF r
    <3>. QED  BY <1>3, <1>4, <3>1, SMTT(60)
  <2>. QED  BY <2>1, <2>2, Zenon
<1>6. Len(r \o w) = Len(u \o w) - n
  BY <1>1, <1>2, <1>3, <1>4 DEF r
<1>. QED  BY <1>5, <1>6, Zenon DEF r, Cut

\* A reply in n pieces, of which the last completes it.
Reply(r, n) == [k \in 1..n |-> [r EXCEPT !.last = (k = n)]]

\* A reply is a sequence of pieces of one kind for one command, the last of them marked.
LEMMA ReplyPieces ==
    ASSUME NEW r \in Pieces, NEW n \in Nat \ {0}
    PROVE  /\ Reply(r, n) \in Seq(Pieces) /\ Len(Reply(r, n)) = n
           /\ \A k \in 1..n : LET p == Reply(r, n)[k]
                              IN /\ p.kind = r.kind /\ p.to = r.to
                                 /\ p.last = (k = n)
<1>1. ASSUME NEW x \in BOOLEAN
      PROVE  LET p == [r EXCEPT !.last = x]
             IN p \in Pieces /\ p.kind = r.kind /\ p.to = r.to /\ p.last = x
  BY Zenon DEF Pieces
<1>2. \A k \in 1..n : (k = n) \in BOOLEAN
  BY Zenon
<1>3. Reply(r, n) \in [1..n -> Pieces]
  BY <1>1, <1>2, Zenon DEF Reply
<1>4. Reply(r, n) \in Seq(Pieces)
  BY <1>3
<1>5. Len(Reply(r, n)) = n
  BY <1>4 DEF Reply
<1>6. ASSUME NEW k \in 1..n
      PROVE  Reply(r, n)[k] = [r EXCEPT !.last = (k = n)]
  BY Zenon DEF Reply
<1>. QED  BY <1>1, <1>2, <1>4, <1>5, <1>6, Zenon
-----------------------------------------------------------------------------
(* Reading replies                                                         *)

\* A nonempty set of numbers has a smallest one.
LEMMA Smallest ==
    ASSUME NEW T, T \subseteq Nat, T # {}
    PROVE  \E x \in T : \A y \in T : x <= y
<1>. DEFINE R == OpToRel(<, Nat)
<1>1. IsWellFoundedOn(R, Nat)
  BY NatLessThanWellFounded, Zenon
<1>2. \A x, y \in Nat : y < x => <<y, x>> \in R
  BY Zenon DEF OpToRel
<1>. HIDE DEF R
<1>3. PICK x \in T : \A y \in T : ~ (<<y, x>> \in R)
  BY <1>1, WFMin, Zenon
<1>4. ASSUME NEW y \in T
      PROVE  x <= y
  <2>1. x \in Nat /\ y \in Nat
    BY <1>3, Zenon
  <2>2. ~(y < x)
    BY <1>2, <1>3, <2>1, Zenon
  <2>. QED  BY <2>1, <2>2
<1>. QED  BY <1>4, Zenon

\* The reply that is taken out of the buffer ends with the first last piece.
LEMMA ReplyEnds ==
    ASSUME unhandled \in Seq(Pieces), HasReply
    PROVE  ReplyEnd \in 1..Len(unhandled) /\ unhandled[ReplyEnd].last
<1>. DEFINE T == {k \in DOMAIN unhandled : unhandled[k].last}
<1>1. DOMAIN unhandled = 1..Len(unhandled) /\ Len(unhandled) \in Nat
  OBVIOUS
<1>2. T \subseteq Nat /\ T # {}
  BY <1>1 DEF HasReply
<1>. HIDE DEF T
<1>3. PICK x \in T : \A y \in T : x <= y
  BY <1>2, Smallest, Zenon
<1>4. x \in DOMAIN unhandled /\ unhandled[x].last /\ \A j \in 1..x - 1 : ~unhandled[j].last
  BY <1>1, <1>3 DEF T
<1>5. ReplyEnd \in DOMAIN unhandled /\ unhandled[ReplyEnd].last
  BY <1>4, Zenon DEF ReplyEnd
<1>. QED  BY <1>1, <1>5, Zenon

\* verify_reply is an error unless the reply is of the expected kind, and one that
\* leaves open what happened unless the reply is negative.
LEMMA VerifiedReply ==
    ASSUME NEW r \in Pieces, NEW expected \in {"PositiveIntermediate", "PositiveCompletion"}
    PROVE  LET v == verify_reply(r, expected)
           IN /\ v \in Errors \cup {"Ok"}
              /\ v = "Ok" <=> r.kind = expected
              /\ r.kind \notin Negative \cup {expected} => v = "UnexpectedReplyCode"
<1>. DEFINE v == verify_reply(r, expected)
<1>1. CASE r.kind = expected
  <2>1. v = "Ok"
    BY <1>1, Zenon DEF verify_reply
  <2>. QED  BY <1>1, <2>1, Zenon DEF Negative
<1>2. CASE r.kind = "TransientNegative"
  <2>1. v \in {"TransientMailbox", "TransientMailSystem", "TransientMail"}
    <3>1. r.kind # expected
      BY <1>2, Zenon
    <3>. QED  BY <1>2, <3>1, Zenon DEF verify_reply
  <2>. HIDE DEF v
  <2>2. v \in Errors /\ v # "Ok"
    BY <2>1, Zenon DEF Errors
  <2>. QED  BY <1>2, <2>2, Zenon DEF v, Negative
<1>3. CASE r.kind = "PermanentNegative"
  <2>1. v \in {"PermanentMailbox", "PermanentMailSystem", "PermanentMail"}
    <3>1. r.kind # expected /\ r.kind # "TransientNegative"
      BY <1>3, Zenon
    <3>. QED  BY <1>3, <3>1, Zenon DEF verify_reply
  <2>. HIDE DEF v
  <2>2. v \in Errors /\ v # "Ok"
    BY <2>1, Zenon DEF Errors
  <2>. QED  BY <1>3, <2>2, Zenon DEF v, Negative
<1>4. CASE r.kind \notin {expected, "TransientNegative", "PermanentNegative"}
  <2>1. v = "UnexpectedReplyCode"
    BY <1>4, Zenon DEF verify_reply
  <2>. HIDE DEF v
  <2>2. v \in Errors /\ v # "Ok"
    BY <2>1, Zenon DEF Errors
  <2>. QED  BY <1>4, <2>1, <2>2, Zenon DEF v, Negative
<1>. QED  BY <1>1, <1>2, <1>3, <1>4, Zenon

-----------------------------------------------------------------------------
(* The steps of an attempt, sorted by what they do.                        *)

\* TypeOK, with the two facts that keep it: an address is dialled only while
\* there is one, and no reply is awaited during the body and the handshake.
TypeInv ==
    /\ TypeOK
    /\ at = "dial" => ips # <<>>
    /\ step \in {"body", "tls"} => ~waiting

\* A failure leads to another address, to another exchange or to the end.
LEMMA HostFailing ==
    ASSUME TypeInv, NEW e \in Errors, HostFails(e)
    PROVE  /\ at' \in {"pick", "done"} /\ first_error' \in Errors
           /\ at' = "done" => result' \in Errors
           /\ at' # "done" => result' = result
           /\ at' = "pick" => mxes # {}
BY Zenon DEF HostFails, TypeInv, TypeOK

\* An address that fails leads to the next one, to the next exchange or to the end.
LEMMA AddressFailing ==
    ASSUME TypeInv, NEW e \in Errors, NEW rest, AddressFails(e, rest)
    PROVE  /\ at' \in {"pick", "dial", "done"}
           /\ {first_error', host_error'} \subseteq Errors \cup {"none"}
           /\ at' = "done" => result' \in Errors
           /\ at' # "done" => result' = result
           /\ at' = "dial" => rest # <<>>
<1>. DEFINE first == IF host_error = "none" THEN e ELSE host_error
<1>1. first \in Errors /\ host_error' = first
  BY Zenon DEF AddressFails, TypeInv, TypeOK
<1>2. CASE rest = <<>>
  <2>1. HostFails(first)
    BY <1>2, Zenon DEF AddressFails
  <2>. HIDE DEF first
  <2>. QED  BY <1>1, <2>1, HostFailing, Zenon
<1>3. CASE rest # <<>>
  BY <1>1, <1>3, Zenon DEF AddressFails, TypeInv, TypeOK
<1>. QED  BY <1>2, <1>3, Zenon

\* So does a failure in connect; a failure later on ends the attempt with it.
LEMMA Failing ==
    ASSUME TypeInv, NEW e \in Errors, Fails(e)
    PROVE  /\ at' \in {"pick", "dial", "done"}
           /\ {first_error', host_error'} \subseteq Errors \cup {"none"}
           /\ at' = "done" => result' \in Errors
           /\ at' # "done" => result' = result
           /\ at' = "dial" => ips # <<>>
           /\ step \notin Connecting => at' = "done" /\ result' = e
<1>1. CASE step \in Connecting
  <2>1. AddressFails(e, ips)
    BY <1>1, Zenon DEF Fails
  <2>. QED  BY <1>1, <2>1, AddressFailing, Zenon
<1>2. CASE step \notin Connecting
  BY <1>2, Zenon DEF Fails, TypeInv, TypeOK
<1>. QED  BY <1>1, <1>2, Zenon

\* The session ends before a reply is parsed: with an error that leaves open
\* whether the mail was taken.
Breaks ==
    \E e \in Errors :
        /\ Active /\ Fails(e) /\ FreshSender
        /\ severity(e) \in Inconclusive
        /\ \/ todo' = todo
           \/ step = "body" /\ left > 0 /\ todo' = Append(todo, "end")
        /\ UNCHANGED <<config, mx, mxes, ips, ip, closed, taken, unasked, ghosts>>

\* Every failure of the connection or the mail's reader breaks the session.
LEMMA Breaking ==
    ASSUME \/ sending_fails \/ receiving_fails \/ tls_connect_fails \/ reading_fails
           \/ syntax_error \/ sending_data_fails \/ reading_mail_fails
    PROVE  Breaks
<1>. DEFINE E == {"SendingCommand", "ReceivingReplyBytes", "NegotiatingTls", "TooLongReply",
                  "ConnectionAborted", "TimedOutWaitingForReply", "SyntaxError", "SendingData",
                  "ReadingMail"}
<1>1. \A e \in E : e \in Errors
  BY Zenon DEF Errors
<1>2. \A e \in E : severity(e) \in Inconclusive
  <2>1. \A e \in E \ {"ReadingMail", "SyntaxError"} : severity(e) = "NetworkTransient"
    BY Zenon DEF severity
  <2>2. severity("ReadingMail") = "Local" /\ severity("SyntaxError") = "MailSystemTransient"
    BY Zenon DEF severity
  <2>. QED  BY <2>1, <2>2, Zenon DEF Inconclusive
<1>3. CASE sending_data_fails
  <2>1. /\ Active /\ Fails("SendingData") /\ FreshSender
        /\ \/ todo' = todo
           \/ step = "body" /\ left > 0 /\ todo' = Append(todo, "end")
        /\ UNCHANGED <<config, mx, mxes, ips, ip, closed, taken, unasked, ghosts>>
    BY <1>3, Zenon DEF sending_data_fails
  <2>. QED  BY <1>1, <1>2, <2>1, Zenon DEF Breaks
<1>4. ASSUME NEW e \in E, Active, SessionFails(e)
      PROVE  Breaks
  <2>. HIDE DEF E
  <2>1. /\ Fails(e) /\ FreshSender /\ todo' = todo
        /\ UNCHANGED <<config, mx, mxes, ips, ip, closed, taken, unasked, ghosts>>
    BY <1>4, Zenon DEF SessionFails, remote
  <2>. QED  BY <1>1, <1>2, <1>4, <2>1, Zenon DEF Breaks
<1>5. CASE ~sending_data_fails
  <2>1. \E e \in E : Active /\ SessionFails(e)
    BY <1>5, Zenon DEF sending_fails, receiving_fails, tls_connect_fails, reading_fails,
           syntax_error, reading_mail_fails
  <2>. HIDE DEF E
  <2>. QED  BY <1>4, <2>1, Zenon
<1>. QED  BY <1>3, <1>5, Zenon

\* A reply that does not end the attempt with success.
Answered == reply_negative \/ reply_positive \/ send_ehlo \/ starttls_refused

\* What a parsed reply is, and where.
LEMMA ParsedPiece ==
    ASSUME TypeInv, NEW x \in BOOLEAN, Parsed(x)
    PROVE  /\ unhandled[1] \in Pieces /\ unhandled[1].tls \in BOOLEAN
           /\ step \notin {"body", "tls"}
           /\ Verdict \in Errors \cup {"Ok"}
           /\ x = (Verdict = "Ok")
<1>1. unhandled[1] \in Pieces
  BY ReplyEnds DEF Parsed, TypeInv, TypeOK
<1>2. Verdict \in Errors \cup {"Ok"}
  <2>. DEFINE expected == IF step = "DATA" THEN "PositiveIntermediate" ELSE "PositiveCompletion"
  <2>1. expected \in {"PositiveIntermediate", "PositiveCompletion"}
    BY Zenon
  <2>2. Verdict = verify_reply(unhandled[1], expected)
    BY Zenon DEF Verdict
  <2>. HIDE DEF expected
  <2>. QED  BY <1>1, <2>1, <2>2, VerifiedReply, Zenon
<1>. QED  BY <1>1, <1>2, Zenon DEF Parsed, TypeInv, Pieces

\* The session goes on with s, in clear only if that is allowed.
Proceeds(s) ==
    /\ GoTo(s) /\ step \notin {"body", "end"}
    /\ s \in Sending => step \in Sending \/ did_tls \/ ~must_do_tls \/ unheard'
    /\ unheard' = unheard \/ unheard' = TRUE

\* An answer leads on to a later step; or else it ends the session, with what
\* verify_reply says of it once a message is being sent.
LEMMA Answering ==
    ASSUME TypeInv, Answered
    PROVE  \E positive \in BOOLEAN :
              /\ Parsed(positive)
              /\ \/ \E s \in Steps \ {"banner", "end"} : Proceeds(s)
                 \/ \E e \in Errors : SessionFails(e) /\ (step \in Sending => e = Verdict)
<1>1. ASSUME NEW x \in BOOLEAN, Parsed(x)
      PROVE  /\ step \notin {"body", "tls"} /\ Verdict \in Errors \cup {"Ok"}
             /\ x = (Verdict = "Ok")
  BY <1>1, ParsedPiece, Zenon
<1>2. step \in Steps
  BY Zenon DEF TypeInv, TypeOK
<1>3. CASE reply_negative
  <2>1. Verdict \in Errors
    BY <1>1, <1>3, Zenon DEF reply_negative
  <2>. QED  BY <1>3, <2>1, Zenon DEF reply_negative
<1>4. CASE reply_positive
  <2>. DEFINE s == CASE step = "banner" -> "EHLO"
                     [] step = "STARTTLS" -> "tls"
                     [] step = "MAIL" -> "RCPT"
                     [] step = "RCPT" -> "DATA"
                     [] step = "DATA" -> "body"
  <2>1. step \in {"banner", "STARTTLS", "MAIL", "RCPT", "DATA"}
    BY <1>1, <1>2, <1>4, Zenon DEF reply_positive, Steps, Connecting, Sending
  <2>2. s \in Steps \ {"banner", "end"} /\ (s \in Sending => step \in Sending)
    <3>1. CASE step = "banner"
      BY <3>1, Zenon DEF Steps, Connecting, Sending
    <3>2. CASE step = "STARTTLS"
      BY <3>2, Zenon DEF Steps, Connecting, Sending
    <3>3. CASE step = "MAIL"
      BY <3>3, Zenon DEF Steps, Connecting, Sending
    <3>4. CASE step = "RCPT"
      BY <3>4, Zenon DEF Steps, Connecting, Sending
    <3>5. CASE step = "DATA"
      BY <3>5, Zenon DEF Steps, Connecting, Sending
    <3>. QED  BY <2>1, <3>1, <3>2, <3>3, <3>4, <3>5, Zenon
  <2>3. Parsed(TRUE) /\ GoTo(s) /\ UNCHANGED unheard
    BY <1>4, Zenon DEF reply_positive
  <2>. HIDE DEF s
  <2>4. Proceeds(s)
    BY <2>1, <2>2, <2>3, Zenon DEF Proceeds
  <2>. QED  BY <2>2, <2>3, <2>4, Zenon
<1>5. ASSUME NoTls, step \in {"EHLO", "STARTTLS"}
      PROVE  Proceeds("MAIL") \/ SessionFails("CannotDoTls")
  BY <1>5, Zenon DEF NoTls, Proceeds
<1>6. "CannotDoTls" \in Errors /\ {"MAIL", "STARTTLS"} \subseteq Steps \ {"banner", "end"}
  BY Zenon DEF Errors, Steps, Connecting, Sending
<1>7. step \in {"EHLO", "STARTTLS"} => step \notin Sending
  BY Zenon DEF Sending
<1>8. CASE send_ehlo
  <2>1. Parsed(TRUE) /\ step = "EHLO"
    BY <1>8, Zenon DEF send_ehlo
  <2>2. \/ GoTo("MAIL") /\ did_tls /\ UNCHANGED unheard
        \/ GoTo("STARTTLS") /\ UNCHANGED unheard
        \/ NoTls
    BY <1>8, Zenon DEF send_ehlo
  <2>3. GoTo("MAIL") /\ did_tls /\ UNCHANGED unheard => Proceeds("MAIL")
    BY <2>1, Zenon DEF Proceeds
  <2>4. GoTo("STARTTLS") /\ UNCHANGED unheard => Proceeds("STARTTLS")
    BY <2>1, Zenon DEF Proceeds, Sending
  <2>. QED  BY <1>5, <1>6, <1>7, <2>1, <2>2, <2>3, <2>4, Zenon
<1>9. CASE starttls_refused
  <2>1. Parsed(FALSE) /\ step = "STARTTLS" /\ NoTls
    BY <1>9, Zenon DEF starttls_refused
  <2>. QED  BY <1>5, <1>6, <1>7, <2>1, Zenon
<1>. QED  BY <1>3, <1>4, <1>8, <1>9, Zenon DEF Answered

\* Every step is one of these.
LEMMA StepKinds ==
    ASSUME Next
    PROVE  \/ connect \/ connect_to_mx \/ connect_to_host \/ connect_to_ip \/ connecting_fails
           \/ Breaks \/ Answered \/ reply_to_mail
           \/ send_command \/ tls_connect \/ read_more \/ send_block \/ end_of_mail
           \/ remote_answers \/ remote_speaks \/ remote_closes
BY Breaking, Zenon DEF Next, Client, Failure, Answered

-----------------------------------------------------------------------------
(* Types                                                                   *)

\* A new Sender has an empty buffer.
LEMMA EmptyBuffer ==
    /\ <<>> \in Seq(Pieces) /\ <<>> \in Seq(Nat) /\ <<>> \in Seq(Steps)
    /\ 0 + Len(<<>>) <= Capacity /\ Blocks \in 0..Blocks
    /\ 0 \in 0..MaxUnasked
BY ClientAssumption

\* A Sender that is new, or gone, is of its type.
LEMMA FreshTypes ==
    ASSUME FreshSender
    PROVE  /\ {waiting', starttls', did_tls'} \subseteq BOOLEAN /\ step' \in Steps
           /\ left' \in 0..Blocks /\ start' \in Nat
           /\ unhandled' \in Seq(Pieces) /\ wire' \in Seq(Pieces)
           /\ start' + Len(unhandled') <= Capacity
           /\ step' \notin {"body", "tls"}
BY EmptyBuffer, Zenon DEF FreshSender, Steps, Connecting

\* Taking the first address off the list leaves a list.
LEMMA HeadAndTail ==
    ASSUME NEW s \in Seq(Nat), s # <<>>
    PROVE  Head(s) \in Nat /\ Tail(s) \in Seq(Nat)
OBVIOUS

\* One more to answer, and one less.
LEMMA Owing ==
    ASSUME NEW q \in Seq(Steps)
    PROVE  /\ \A s \in Steps : Append(q, s) \in Seq(Steps)
           /\ q # <<>> => Head(q) \in Steps /\ Tail(q) \in Seq(Steps)
OBVIOUS

\* The initial states are of their types.
LEMMA TypeInit ==
    ASSUME Init PROVE TypeInv
BY EmptyBuffer, Zenon DEF Init, TypeInv, TypeOK, Hosts, Steps, Connecting, Errors

\* What reading and parsing leave in the buffer and on the connection.
LEMMA ReadTypes ==
    ASSUME TypeInv, read_more
    PROVE  /\ unhandled' \in Seq(Pieces) /\ wire' \in Seq(Pieces)
           /\ start' \in Nat /\ start' + Len(unhandled') <= Capacity
<1>1. PICK n \in 1..Len(wire) : /\ n <= Room
                                /\ unhandled' = unhandled \o SubSeq(wire, 1, n)
                                /\ wire' = Rest(wire, n)
  BY Zenon DEF read_more
<1>2. /\ unhandled \in Seq(Pieces) /\ wire \in Seq(Pieces) /\ Len(unhandled) \in Nat
      /\ start \in Nat /\ Capacity \in Nat
  BY ClientAssumption DEF TypeInv, TypeOK
<1>3. /\ unhandled' \in Seq(Pieces) /\ wire' \in Seq(Pieces)
      /\ Len(unhandled') = Len(unhandled) + n
  BY <1>1, <1>2, ReadKeepsStream
<1>4. First \in Nat /\ start' = First
  BY <1>2, Zenon DEF First, read_more
<1>5. n \in Nat /\ n <= Capacity - (First + Len(unhandled))
  BY <1>1 DEF Room
<1>. QED  BY <1>2, <1>3, <1>4, <1>5

\* Parsing a reply takes it out of the buffer, which stays within its capacity.
LEMMA ParseTypes ==
    ASSUME TypeInv, NEW x, Parsed(x), NEW s, GoTo(s)
    PROVE  /\ unhandled' \in Seq(Pieces) /\ wire' \in Seq(Pieces)
           /\ start' \in Nat /\ start' + Len(unhandled') <= Capacity
<1>1. ReplyEnd \in 1..Len(unhandled)
  BY ReplyEnds, Zenon DEF Parsed, TypeInv, TypeOK
<1>2. unhandled \in Seq(Pieces) /\ wire' = wire /\ wire \in Seq(Pieces) /\ Len(unhandled) \in Nat
  BY DEF GoTo, TypeInv, TypeOK
<1>3. unhandled' \in Seq(Pieces) /\ Len(unhandled') = Len(unhandled) - ReplyEnd
  BY <1>1, <1>2, RestOf, Zenon DEF GoTo
<1>4. start \in Nat /\ start' = start + ReplyEnd /\ start + Len(unhandled) <= Capacity
  BY Zenon DEF GoTo, TypeInv, TypeOK
<1>. QED  BY <1>1, <1>2, <1>3, <1>4, ClientAssumption

\* The replies are made of pieces.
LEMMA RepliesArePieces ==
    ASSUME NEW to \in Steps \cup {"bye", "nobody"}, NEW r \in Replies(to)
    PROVE  r \in Pieces /\ r.to = to
<1>1. PICK c \in Codes, tls \in BOOLEAN :
         r = [kind |-> c.kind, subject |-> c.subject, tls |-> tls, last |-> FALSE, to |-> to]
  BY DEF Replies
<1>2. c.kind \in Kinds /\ c.subject \in Subjects
  BY ClientAssumption
<1>. QED  BY <1>1, <1>2 DEF Pieces

\* What the server says is a reply, after what it said before.
LEMMA SaysTypes ==
    ASSUME NEW r \in Pieces, wire \in Seq(Pieces), Says(r), Active
    PROVE  \E n \in Sizes : /\ n \in Nat \ {0} /\ wire' = wire \o Reply(r, n)
                            /\ Reply(r, n) \in Seq(Pieces) /\ wire' \in Seq(Pieces)
<1>1. PICK n \in Sizes : wire' = wire \o Reply(r, n)
  BY ZenonT(30) DEF Says, Reply
<1>2. n \in Nat \ {0}
  BY ClientAssumption, Zenon
<1>3. Reply(r, n) \in Seq(Pieces)
  BY <1>2, ReplyPieces, Zenon
<1>. QED  BY <1>1, <1>2, <1>3, StreamTypes, Zenon

\* Every step keeps the types.
LEMMA TypeStep ==
    ASSUME TypeInv, [Next]_vars PROVE TypeInv'
<1>. USE DEF TypeInv, TypeOK, config, search, session, buffer, remote, ghosts, quiet
<1>1. CASE connect
  <2>1. Addresses[Domain] \in Seq(Nat) \ {<<>>}
    BY ClientAssumption, Zenon
  <2>2. <<Head(Addresses[Domain])>> \in Seq(Nat) \ {<<>>}
    BY <2>1, SMTT(60)
  <2>3. ips' \in Seq(Nat) /\ (at' = "dial" => ips' # <<>>)
    BY <1>1, <2>2, Zenon DEF connect
  <2>4. /\ at' \in {"dial", "pick", "lookup", "done"}
        /\ result' \in {result, "DnsMx", "HostToTrustDns"} /\ mxes' \in {mxes, Mxes}
    BY <1>1, Zenon DEF connect
  <2>. QED  BY <1>1, <2>3, <2>4 DEF connect, Errors
<1>2. CASE connect_to_mx
  BY <1>2, Zenon DEF connect_to_mx, Hosts
<1>3. CASE connect_to_host
  <2>1. Addresses[mx] \in Seq(Nat) \ {<<>>}
    BY ClientAssumption, Zenon DEF Hosts
  <2>2. "DnsIp" \in Errors
    BY Zenon DEF Errors
  <2>3. CASE HostFails("DnsIp") /\ UNCHANGED <<ips, host_error>>
    BY <1>3, <2>2, <2>3, HostFailing, Zenon DEF connect_to_host
  <2>. QED  BY <1>3, <2>1, <2>3, Zenon DEF connect_to_host
<1>4. CASE connect_to_ip
  <2>1. Head(ips) \in Nat /\ Tail(ips) \in Seq(Nat)
    BY <1>4, HeadAndTail, Zenon DEF connect_to_ip
  <2>2. <<"banner">> \in Seq(Steps)
    BY DEF Steps, Connecting
  <2>. QED  BY <1>4, <2>1, <2>2, EmptyBuffer, FreshTypes, Zenon DEF connect_to_ip
<1>5. CASE connecting_fails
  <2>1. Tail(ips) \in Seq(Nat)
    BY <1>5, HeadAndTail, Zenon DEF connecting_fails
  <2>2. "Connecting" \in Errors
    BY Zenon DEF Errors
  <2>. QED  BY <1>5, <2>1, <2>2, AddressFailing, Zenon DEF connecting_fails
<1>6. CASE Breaks
  <2>1. PICK e \in Errors :
           /\ Fails(e) /\ FreshSender
           /\ todo' = todo \/ todo' = Append(todo, "end")
           /\ UNCHANGED <<config, mx, mxes, ips, ip, closed, taken, unasked, ghosts>>
    BY <1>6, Zenon DEF Breaks
  <2>2. todo' \in Seq(Steps)
    BY <2>1, Owing, Zenon DEF Steps, Sending
  <2>. QED  BY <2>1, <2>2, Failing, FreshTypes, Zenon
<1>7. CASE Answered
  <2>1. PICK positive \in BOOLEAN :
              /\ Parsed(positive)
              /\ \/ \E s \in Steps \ {"banner", "end"} : Proceeds(s)
                 \/ \E e \in Errors : SessionFails(e)
    BY <1>7, Answering, Zenon
  <2>2. ASSUME NEW s \in Steps \ {"banner", "end"}, Proceeds(s)
        PROVE  TypeInv'
    <3>1. /\ unhandled' \in Seq(Pieces) /\ wire' \in Seq(Pieces)
          /\ start' \in Nat /\ start' + Len(unhandled') <= Capacity
      BY <2>1, <2>2, ParseTypes, Zenon DEF Proceeds
    <3>2. starttls' \in BOOLEAN
      <4>1. starttls' = unhandled[1].tls \/ starttls' = starttls
        BY <2>2, Zenon DEF Proceeds, GoTo
      <4>. QED  BY <2>1, <4>1, ParsedPiece, Zenon
    <3>3. unheard' \in BOOLEAN
      BY <2>2, Zenon DEF Proceeds
    <3>4. at' = "session"
      BY <2>1, <2>2, Zenon DEF Proceeds, GoTo, Parsed, Active
    <3>. QED  BY <2>2, <3>1, <3>2, <3>3, <3>4, Zenon DEF Proceeds, GoTo
  <2>3. ASSUME NEW e \in Errors, SessionFails(e)
        PROVE  TypeInv'
    BY <2>3, Failing, FreshTypes, Zenon DEF SessionFails
  <2>. QED  BY <2>1, <2>2, <2>3, Zenon
<1>8. CASE reply_to_mail
  BY <1>8, FreshTypes, Zenon DEF reply_to_mail
<1>9. CASE send_command
  <2>1. todo' \in Seq(Steps)
    BY <1>9, Owing, Zenon DEF send_command
  <2>2. (inClear \/ (step = "MAIL" /\ ~did_tls)) \in BOOLEAN
    BY Zenon
  <2>. QED  BY <1>9, <2>1, <2>2, Zenon DEF send_command, Active, Commands
<1>10. CASE tls_connect
  BY <1>10, Zenon DEF tls_connect, Active, Steps, Connecting
<1>11. CASE read_more
  BY <1>11, ReadTypes, Zenon DEF read_more, Active
<1>12. CASE send_block
  <2>1. left' \in 0..Blocks
    BY <1>12, ClientAssumption, SMTT(60) DEF send_block
  <2>2. todo' \in Seq(Steps)
    <3>1. todo' = todo \/ todo' = Append(todo, "end")
      BY <1>12, Zenon DEF send_block
    <3>. QED  BY <3>1, Owing, Zenon DEF Steps, Sending
  <2>. QED  BY <1>12, <2>1, <2>2, Zenon DEF send_block, Active
<1>13. CASE end_of_mail
  BY <1>13, Zenon DEF end_of_mail, Active, Steps, Sending
<1>14. CASE remote_answers
  <2>1. todo # <<>> /\ todo' = Tail(todo)
    BY <1>14, Zenon DEF remote_answers
  <2>2. Head(todo) \in Steps /\ todo' \in Seq(Steps)
    BY <2>1, Owing, Zenon
  <2>3. PICK r \in Replies(Head(todo)) : Says(r)
    BY <1>14, Zenon DEF remote_answers
  <2>4. wire' \in Seq(Pieces)
    <3>1. r \in Pieces
      BY <2>2, RepliesArePieces, Zenon
    <3>2. CASE Active
      BY <2>3, <3>1, <3>2, SaysTypes, Zenon
    <3>3. CASE ~Active
      BY <2>3, <3>3, Zenon DEF Says
    <3>. QED  BY <3>2, <3>3, Zenon
  <2>5. taken' \subseteq Nat
    BY <1>14, Zenon DEF remote_answers
  <2>. QED  BY <1>14, <2>2, <2>4, <2>5, Zenon DEF remote_answers
<1>15. CASE remote_closes
  <2>1. [kind |-> "TransientNegative", subject |-> "other", tls |-> FALSE, to |-> "bye",
         last |-> FALSE] \in Pieces
    BY Zenon DEF Pieces, Kinds, Subjects
  <2>2. wire' \in Seq(Pieces)
    BY <1>15, <2>1, SaysTypes, Zenon DEF remote_closes
  <2>. QED  BY <1>15, <2>2, Zenon DEF remote_closes, Active
<1>17. CASE remote_speaks
  <2>1. PICK r \in Replies("nobody") : Says(r)
    BY <1>17, Zenon DEF remote_speaks
  <2>2. r \in Pieces
    BY RepliesArePieces, Zenon
  <2>3. wire' \in Seq(Pieces)
    BY <1>17, <2>1, <2>2, SaysTypes, Zenon DEF remote_speaks
  <2>4. unasked' \in 0..MaxUnasked
    <3>1. /\ unasked < MaxUnasked /\ unasked' = unasked + 1 /\ unasked \in 0..MaxUnasked
          /\ MaxUnasked \in Nat
      BY <1>17, ClientAssumption, Zenon DEF remote_speaks
    <3>. QED  BY <3>1
  <2>. QED  BY <1>17, <2>3, <2>4, Zenon DEF remote_speaks, Active
<1>16. CASE UNCHANGED vars
  BY <1>16, Zenon DEF vars
<1>. QED  BY <1>1, <1>2, <1>3, <1>4, <1>5, <1>6, <1>7, <1>8, <1>9, <1>10, <1>11, <1>12, <1>13,
             <1>14, <1>15, <1>16, <1>17, StepKinds, ZenonT(60) DEF TypeInv

\* The types hold throughout, and with them the buffer's bounds.
THEOREM TypeInvariant == Spec => []TypeInv
BY TypeInit, TypeStep, PTL DEF Spec

\* The attempt, its session and the buffer keep their types: Sender::read_reply
\* never lets the unhandled range leave rdbuf, whatever sizes the replies have.
THEOREM ClientIsTyped == Spec => []TypeOK
BY TypeInvariant, PTL DEF TypeInv

\* read_reply gives up on a reply as too long only if it does not fit in rdbuf, for
\* every size of replies and of rdbuf: a rest that reaches the end of rdbuf is moved
\* to its start first.
THEOREM TooLongDoesNotFit == Spec => []TooLongIsTooLong
<1>1. TypeInv => TooLongIsTooLong
  <2>1. SUFFICES ASSUME TypeInv, ~HasReply, Room = 0, NEW k \in 1..Capacity
                 PROVE  ~(unhandled \o wire)[k].last
    BY Zenon DEF TooLongIsTooLong
  <2>2. /\ unhandled \in Seq(Pieces) /\ wire \in Seq(Pieces) /\ start \in Nat
        /\ start + Len(unhandled) <= Capacity
    BY <2>1, Zenon DEF TypeInv, TypeOK
  <2>3. /\ Len(unhandled) \in Nat /\ DOMAIN unhandled = 1..Len(unhandled)
        /\ unhandled = <<>> => Len(unhandled) = 0
    BY <2>2
  <2>4. Capacity \in Nat \ {0} /\ MinFree \in Nat \ {0}
    BY ClientAssumption
  <2>5. Capacity - (First + Len(unhandled)) = 0
    BY <2>1, Zenon DEF Room
  <2>6. First = 0
    <3>1. CASE unhandled = <<>> \/ Move
      BY <3>1, Zenon DEF First
    <3>2. CASE ~(unhandled = <<>> \/ Move)
      <4>1. First = start /\ (start = 0 \/ ~(MinFree > Capacity - (start + Len(unhandled))))
        BY <3>2, Zenon DEF First, Move
      <4>. QED  BY <2>2, <2>3, <2>4, <2>5, <4>1
    <3>. QED  BY <3>1, <3>2, Zenon
  <2>7. k \in 1..Len(unhandled)
    BY <2>3, <2>4, <2>5, <2>6
  <2>8. (unhandled \o wire)[k] = unhandled[k]
    BY <2>2, <2>7, StreamTypes, ZenonT(60)
  <2>. QED  BY <2>1, <2>3, <2>7, <2>8, Zenon DEF HasReply
<1>. QED  BY <1>1, TypeInvariant, PTL

-----------------------------------------------------------------------------
(* Mail in clear                                                           *)

\* A session without TLS gets to sending only if it may.
ClearInv ==
    /\ ClearOnlyIfAllowed
    /\ step \in Sending /\ ~did_tls => ~must_do_tls \/ unheard

\* Every step keeps it: without TLS nothing is sent where TLS is required.
LEMMA ClearStep ==
    ASSUME TypeInv, ClearInv, [Next]_vars PROVE ClearInv'
<1>. USE DEF ClearInv, ClearOnlyIfAllowed, config, search, session, buffer, remote, ghosts, quiet
<1>1. CASE connect \/ connect_to_mx \/ connect_to_host \/ connecting_fails
  <2>1. UNCHANGED <<must_do_tls, unheard, inClear, step, did_tls>>
    BY <1>1, Zenon DEF connect, connect_to_mx, connect_to_host, connecting_fails
  <2>. QED  BY <2>1, Zenon
<1>2. CASE connect_to_ip
  BY <1>2, Zenon DEF connect_to_ip, FreshSender, Sending
<1>3. CASE Breaks
  <2>1. UNCHANGED <<must_do_tls, inClear, unheard>> /\ step' = "banner"
    BY <1>3, Zenon DEF Breaks, FreshSender
  <2>. QED  BY <2>1, Zenon DEF Sending
<1>4. CASE Answered
  <2>1. \/ \E s \in Steps \ {"banner", "end"} : Proceeds(s)
        \/ \E e \in Errors : SessionFails(e)
    BY <1>4, Answering, Zenon
  <2>2. ASSUME NEW s \in Steps \ {"banner", "end"}, Proceeds(s)
        PROVE  ClearInv'
    <3>1. /\ UNCHANGED <<must_do_tls, inClear, did_tls>> /\ step' = s
          /\ s \in Sending => step \in Sending \/ did_tls \/ ~must_do_tls \/ unheard'
          /\ unheard' = unheard \/ unheard' = TRUE
      BY <2>2, Zenon DEF Proceeds, GoTo
    <3>2. CASE unheard' = unheard
      BY <3>1, <3>2, Zenon
    <3>3. CASE unheard' = TRUE
      BY <3>1, <3>3, Zenon
    <3>. QED  BY <3>1, <3>2, <3>3, Zenon
  <2>3. ASSUME NEW e \in Errors, SessionFails(e)
        PROVE  ClearInv'
    BY <2>3, Zenon DEF SessionFails, FreshSender, Sending
  <2>. QED  BY <2>1, <2>2, <2>3, Zenon
<1>5. CASE reply_to_mail
  BY <1>5, Zenon DEF reply_to_mail, FreshSender, Sending
<1>6. CASE send_command
  BY <1>6, Zenon DEF send_command, Sending
<1>7. CASE tls_connect
  BY <1>7, Zenon DEF tls_connect, Sending
<1>8. CASE read_more \/ send_block \/ end_of_mail
  BY <1>8 DEF read_more, send_block, end_of_mail, Sending
<1>9. CASE remote_answers \/ remote_speaks \/ remote_closes
  BY <1>9 DEF remote_answers, remote_speaks, remote_closes
<1>10. CASE UNCHANGED vars
  BY <1>10, Zenon DEF vars
<1>. QED  BY <1>1, <1>2, <1>3, <1>4, <1>5, <1>6, <1>7, <1>8, <1>9, <1>10, StepKinds, ZenonT(60)

\* With must_do_tls no message goes out in clear unless the hook could not be asked,
\* however many servers are tried and whatever they offer, refuse or say unasked:
\* connect_to_stream checks on each way to MAIL.
THEOREM ClearIsAllowed == Spec => []ClearOnlyIfAllowed
<1>1. Init => ClearInv
  BY Zenon DEF Init, ClearInv, ClearOnlyIfAllowed, Sending
<1>2. ClearInv => ClearOnlyIfAllowed
  BY Zenon DEF ClearInv
<1>. QED  BY <1>1, <1>2, ClearStep, TypeInvariant, PTL DEF Spec

-----------------------------------------------------------------------------
(* Who has the mail                                                        *)

\* A server has been sent all of the mail, and has not answered it.
Awaits(q) == \E k \in DOMAIN q : q[k] = "end"

\* The mail was taken by the server of this session, if by any, and nothing of it is
\* out before a session gets to its body.
MailInv ==
    /\ taken \subseteq {ip}
    /\ taken # {} \/ Awaits(todo) => at = "done" \/ (Active /\ step \in {"body", "end"})

\* What is awaited when one more answer is due, or one less.
LEMMA Awaiting ==
    ASSUME NEW q \in Seq(Steps)
    PROVE  /\ ~Awaits(<<>>) /\ ~Awaits(<<"banner">>) /\ Awaits(<<"end">>)
           /\ \A s \in Steps : /\ Awaits(Append(q, s)) <=> Awaits(q) \/ s = "end"
                               /\ q = <<>> => Append(q, s) = <<s>>
                               /\ Head(<<s>>) = s /\ Tail(<<s>>) = <<>> /\ <<s>> # <<>>
           /\ q # <<>> => /\ Head(q) = "end" => Awaits(q)
                          /\ Awaits(Tail(q)) => Awaits(q)
<1>1. ~Awaits(<<>>) /\ ~Awaits(<<"banner">>) /\ Awaits(<<"end">>)
  BY DEF Awaits
<1>2. ASSUME NEW s \in Steps
      PROVE  /\ Awaits(Append(q, s)) <=> Awaits(q) \/ s = "end"
             /\ q = <<>> => Append(q, s) = <<s>>
             /\ Head(<<s>>) = s /\ Tail(<<s>>) = <<>> /\ <<s>> # <<>>
  <2>1. /\ DOMAIN Append(q, s) = 1..(Len(q) + 1) /\ DOMAIN q = 1..Len(q) /\ Len(q) \in Nat
        /\ \A k \in 1..Len(q) : Append(q, s)[k] = q[k]
        /\ Append(q, s)[Len(q) + 1] = s
    OBVIOUS
  <2>2. Awaits(Append(q, s)) <=> Awaits(q) \/ s = "end"
    BY <2>1, SMTT(30) DEF Awaits
  <2>3. q = <<>> => Append(q, s) = <<s>>
    OBVIOUS
  <2>4. Head(<<s>>) = s /\ Tail(<<s>>) = <<>> /\ <<s>> # <<>>
    OBVIOUS
  <2>. QED  BY <2>2, <2>3, <2>4, Zenon
<1>3. ASSUME q # <<>>
      PROVE  (Head(q) = "end" => Awaits(q)) /\ (Awaits(Tail(q)) => Awaits(q))
  <2>1. /\ DOMAIN q = 1..Len(q) /\ Len(q) \in Nat \ {0} /\ Head(q) = q[1]
        /\ DOMAIN Tail(q) = 1..(Len(q) - 1)
        /\ \A k \in 1..(Len(q) - 1) : Tail(q)[k] = q[k + 1]
    BY <1>3
  <2>2. 1 \in DOMAIN q /\ \A k \in 1..(Len(q) - 1) : k + 1 \in DOMAIN q
    BY <2>1
  <2>. QED  BY <2>1, <2>2, Zenon DEF Awaits
<1>. QED  BY <1>1, <1>2, <1>3, Zenon

\* Every step keeps the mail with one server.
LEMMA MailStep ==
    ASSUME TypeInv, MailInv, [Next]_vars PROVE MailInv'
<1>. USE DEF MailInv, config, search, session, buffer, remote, ghosts, quiet
<1>a. todo \in Seq(Steps) /\ step \in Steps /\ "end" \in Steps
  BY Zenon DEF TypeInv, TypeOK, Steps, Sending
<1>b. Connecting \cap {"body", "end"} = {} /\ Commands \cap {"body", "end"} = {}
  BY Zenon DEF Connecting, Commands
<1>1. CASE connect \/ connect_to_mx \/ connect_to_host \/ connecting_fails
  <2>1. UNCHANGED <<taken, todo, ip>> /\ at \in {"start", "pick", "lookup", "dial"}
    BY <1>1, Zenon DEF connect, connect_to_mx, connect_to_host, connecting_fails
  <2>. QED  BY <2>1, Zenon DEF Active
<1>2. CASE connect_to_ip
  <2>1. at = "dial" /\ taken' = taken /\ todo' = <<"banner">>
    BY <1>2, Zenon DEF connect_to_ip
  <2>. QED  BY <1>a, <2>1, Awaiting, Zenon DEF Active
<1>3. CASE Breaks
  <2>1. PICK e \in Errors : /\ Active /\ Fails(e) /\ UNCHANGED <<taken, ip>>
                            /\ todo' = todo \/ step = "body"
    BY <1>3, Zenon DEF Breaks
  <2>. QED  BY <1>b, <2>1, Zenon DEF Fails, Active
<1>4. CASE Answered
  <2>1. /\ Active
        /\ \/ \E s \in Steps \ {"banner", "end"} : Proceeds(s)
           \/ \E e \in Errors : SessionFails(e)
    BY <1>4, Answering, Zenon DEF Parsed
  <2>2. ASSUME NEW s \in Steps \ {"banner", "end"}, Proceeds(s)
        PROVE  MailInv'
    BY <2>1, <2>2, Zenon DEF Proceeds, GoTo, Active
  <2>3. ASSUME NEW e \in Errors, SessionFails(e)
        PROVE  MailInv'
    BY <1>b, <2>1, <2>3, Zenon DEF SessionFails, Fails, Active
  <2>. QED  BY <2>1, <2>2, <2>3, Zenon
<1>5. CASE reply_to_mail
  BY <1>5, Zenon DEF reply_to_mail
<1>6. CASE send_command
  <2>1. Active /\ step \in Commands /\ UNCHANGED <<taken, ip>> /\ todo' = Append(todo, step)
    BY <1>6, Zenon DEF send_command
  <2>2. taken = {} /\ ~Awaits(todo) /\ step # "end"
    BY <1>b, <2>1, Zenon DEF Active
  <2>. QED  BY <1>a, <2>1, <2>2, Awaiting, Zenon
<1>7. CASE tls_connect
  BY <1>7, Zenon DEF tls_connect, Active
<1>8. CASE read_more \/ end_of_mail \/ remote_speaks \/ remote_closes
  BY <1>8, Zenon DEF read_more, end_of_mail, remote_speaks, remote_closes, Active
<1>9. CASE send_block
  BY <1>9, Zenon DEF send_block, Active
<1>10. CASE remote_answers
  <2>1. /\ todo # <<>> /\ todo' = Tail(todo) /\ UNCHANGED <<at, step, ip>>
    BY <1>10, Zenon DEF remote_answers
  <2>2. \/ taken' = taken
        \/ taken' = taken \cup {ip} /\ Head(todo) = "end"
    <3>1. Head(todo) \in Steps
      BY <1>a, <2>1, Owing, Zenon
    <3>. QED  BY <1>10, <3>1, RepliesArePieces, Zenon DEF remote_answers
  <2>3. (Head(todo) = "end" => Awaits(todo)) /\ (Awaits(Tail(todo)) => Awaits(todo))
    BY <1>a, <2>1, Awaiting, Zenon
  <2>. QED  BY <2>1, <2>2, <2>3, Zenon DEF Active
<1>11. CASE UNCHANGED vars
  BY <1>11, Zenon DEF vars, Active
<1>. QED  BY <1>1, <1>2, <1>3, <1>4, <1>5, <1>6, <1>7, <1>8, <1>9, <1>10, <1>11, StepKinds,
             ZenonT(60)

\* At most one server has the mail, throughout.
LEMMA MailInvariant == Spec => []MailInv
<1>1. Init => MailInv
  <2>1. <<>> \in Seq(Steps)
    OBVIOUS
  <2>. QED  BY <2>1, Awaiting, Zenon DEF Init, MailInv
<1>. QED  BY <1>1, MailStep, TypeInvariant, PTL DEF Spec

\* One attempt hands the mail to one server at most, however many exchanges and
\* addresses connect has to choose from, and however often a server speaks unasked.
THEOREM OneServerAtMost == Spec => []AtMostOneTakes
<1>1. MailInv => AtMostOneTakes
  <2>1. SUFFICES ASSUME MailInv PROVE AtMostOneTakes
    BY Zenon
  <2>2. taken = {} \/ taken = {ip}
    BY <2>1, Zenon DEF MailInv
  <2>3. Cardinality({}) = 0 /\ Cardinality({ip}) = 1
    BY FS_EmptySet, FS_Singleton, Zenon
  <2>. QED  BY <2>2, <2>3, SMTT(30) DEF AtMostOneTakes
<1>. QED  BY <1>1, MailInvariant, PTL

-----------------------------------------------------------------------------
(* Sessions in which the server speaks only when asked                     *)

\* What the remote has said and the client has not parsed: one reply at most,
\* to the command it waits for or to the mail just sent, then maybe a goodbye.
StreamInv ==
    /\ \A j, k \in 1..Len(Stream) : j < k /\ Stream[j].last => Stream[k].to = "bye"
    /\ \A k \in 1..Len(Stream) :
          IF Stream[k].to = "bye"
          THEN closed /\ Stream[k].kind = "TransientNegative"
          ELSE /\ todo = <<>>
               /\ \/ waiting /\ Stream[k].to = step
                  \/ step = "body" /\ left = 0 /\ Stream[k].to = "end"

\* What the remote will answer, is what the client is about to wait for.
TodoInv ==
    /\ ~closed /\ todo # <<>> => \/ waiting /\ todo = <<step>>
                                 \/ step = "body" /\ left = 0 /\ todo = <<"end">>
    /\ taken # {} \/ Awaits(todo) => left = 0

\* Of a mail that was taken the answer that says so comes first.
TakenInv ==
    /\ taken # {} => todo = <<>> /\ Len(Stream) > 0 /\ Stream[1].to = "end"
    /\ \A k \in 1..Len(Stream) : Stream[k].to = "end" =>
          /\ Stream[k].kind = "PositiveCompletion" => taken = {ip}
          /\ Stream[k].kind \in Negative => taken = {}

\* The attempt is over: what it returned is true, and stays so.
OverInv ==
    /\ result = "Ok" => taken = {ip}
    /\ result \in Errors /\ severity(result) \notin Inconclusive
          => taken = {} /\ (~Awaits(todo) \/ closed)

SessionInv ==
    /\ Active /\ unasked = 0 => StreamInv /\ TodoInv /\ TakenInv
    /\ at = "done" /\ unasked = 0 => OverInv
    /\ at # "done" => result = "none"

\* Reading moves bytes from the connection to the buffer, and changes no stream.
LEMMA StreamRead ==
    ASSUME TypeInv, read_more
    PROVE  /\ Len(Stream') = Len(Stream)
           /\ \A k \in 1..Len(Stream') : Stream'[k] = Stream[k]
<1>1. PICK n \in 1..Len(wire) : /\ unhandled' = unhandled \o SubSeq(wire, 1, n)
                                /\ wire' = Rest(wire, n)
  BY Zenon DEF read_more
<1>2. unhandled \in Seq(Pieces) /\ wire \in Seq(Pieces)
  BY Zenon DEF TypeInv, TypeOK
<1>3. Same((unhandled \o SubSeq(wire, 1, n)) \o Rest(wire, n), unhandled \o wire)
  BY <1>2, ReadKeepsStream, Zenon
<1>. QED  BY <1>1, <1>3, Zenon DEF Stream, Same

\* Parsing takes one reply, up to its last piece, off the stream.
LEMMA StreamParsed ==
    ASSUME TypeInv, NEW x, Parsed(x), NEW s, GoTo(s)
    PROVE  \E n \in 1..Len(Stream) :
              /\ Stream[n].last
              /\ Len(Stream') = Len(Stream) - n
              /\ \A k \in 1..Len(Stream') : Stream'[k] = Stream[n + k]
<1>1. unhandled \in Seq(Pieces) /\ wire \in Seq(Pieces) /\ HasReply
  BY Zenon DEF TypeInv, TypeOK, Parsed
<1>2. PICK n \in 1..Len(unhandled) : n = ReplyEnd /\ unhandled[n].last
  BY <1>1, ReplyEnds, Zenon
<1>3. unhandled' = Rest(unhandled, n) /\ wire' = wire
  BY <1>2, Zenon DEF GoTo
<1>4. /\ Len(unhandled \o wire) = Len(unhandled) + Len(wire)
      /\ \A k \in 1..Len(unhandled) : (unhandled \o wire)[k] = unhandled[k]
  BY <1>1, StreamTypes, ZenonT(60)
<1>5. Cut(unhandled \o wire, Rest(unhandled, n) \o wire, n)
  BY <1>1, ParseCutsStream, Zenon
<1>6. Cut(Stream, Stream', n)
  BY <1>3, <1>5, Zenon DEF Stream
<1>7. n \in 1..(Len(unhandled) + Len(wire))
  BY <1>1
<1>8. n \in 1..Len(Stream) /\ Stream[n].last
  BY <1>2, <1>4, <1>7, Zenon DEF Stream
<1>. QED  BY <1>6, <1>8, Zenon DEF Cut

\* The reply that is parsed heads the stream.
LEMMA StreamHead ==
    ASSUME TypeInv, NEW x, Parsed(x)
    PROVE  /\ 1 \in 1..Len(Stream) /\ Len(Stream) > 0
           /\ Stream[1] = unhandled[1] /\ unhandled[1] \in Pieces
<1>1. unhandled \in Seq(Pieces) /\ wire \in Seq(Pieces) /\ HasReply
  BY Zenon DEF TypeInv, TypeOK, Parsed
<1>2. PICK n \in 1..Len(unhandled) : n = ReplyEnd
  BY <1>1, ReplyEnds, Zenon
<1>3. /\ Len(Stream) = Len(unhandled) + Len(wire)
      /\ \A k \in 1..Len(unhandled) : Stream[k] = unhandled[k]
  BY <1>1, StreamTypes, ZenonT(60) DEF Stream
<1>4. 1 \in 1..Len(unhandled) /\ 1 \in 1..(Len(unhandled) + Len(wire))
      /\ Len(unhandled) + Len(wire) > 0
  BY <1>1
<1>5. unhandled[1] \in Pieces
  BY <1>1, <1>4, SMTT(30)
<1>. QED  BY <1>3, <1>4, <1>5, Zenon

\* The server's reply is put behind what is in the stream.
LEMMA StreamSays ==
    ASSUME TypeInv, NEW r \in Pieces, Active, Says(r), unhandled' = unhandled
    PROVE  \E n \in Nat \ {0} :
              /\ Len(Stream') = Len(Stream) + n
              /\ \A k \in 1..Len(Stream) : Stream'[k] = Stream[k]
              /\ \A k \in 1..n : LET p == Stream'[Len(Stream) + k]
                                 IN p.kind = r.kind /\ p.to = r.to /\ p.last = (k = n)
<1>1. unhandled \in Seq(Pieces) /\ wire \in Seq(Pieces)
  BY Zenon DEF TypeInv, TypeOK
<1>2. PICK n \in Sizes : /\ n \in Nat \ {0} /\ wire' = wire \o Reply(r, n)
                         /\ Reply(r, n) \in Seq(Pieces) /\ wire' \in Seq(Pieces)
  BY <1>1, SaysTypes, Zenon
<1>3. /\ Len(Reply(r, n)) = n
      /\ \A k \in 1..n : LET p == Reply(r, n)[k]
                         IN p.kind = r.kind /\ p.to = r.to /\ p.last = (k = n)
  BY <1>2, ReplyPieces, ZenonT(60)
<1>. DEFINE a == Reply(r, n)
<1>a. a \in Seq(Pieces) /\ Len(a) = n
  BY <1>2, <1>3, Zenon
<1>. HIDE DEF a
<1>4. /\ Len(wire') = Len(wire) + Len(a)
      /\ \A k \in 1..Len(wire) : wire'[k] = wire[k]
      /\ \A k \in 1..Len(a) : wire'[Len(wire) + k] = a[k]
  <2>1. /\ Len(wire \o a) = Len(wire) + Len(a)
        /\ \A k \in 1..Len(wire) : (wire \o a)[k] = wire[k]
        /\ \A k \in 1..Len(a) : (wire \o a)[Len(wire) + k] = a[k]
    <3>1. a \in Seq(Pieces)
      BY <1>a, Zenon
    <3>. QED  BY <1>1, <3>1, StreamTypes
  <2>2. wire' = wire \o a
    BY <1>2, Zenon DEF a
  <2>. QED  BY <2>1, <2>2, Zenon
<1>. DEFINE w == wire'
<1>w. w \in Seq(Pieces) /\ Stream' = unhandled \o w
  BY <1>2, Zenon DEF Stream
<1>. HIDE DEF w
<1>5. /\ Len(unhandled \o w) = Len(unhandled) + Len(w)
      /\ \A k \in 1..Len(unhandled) : (unhandled \o w)[k] = unhandled[k]
      /\ \A k \in 1..Len(w) : (unhandled \o w)[Len(unhandled) + k] = w[k]
  BY <1>1, <1>w, StreamTypes
<1>6. /\ Len(Stream) = Len(unhandled) + Len(wire)
      /\ \A k \in 1..Len(unhandled) : Stream[k] = unhandled[k]
      /\ \A k \in 1..Len(wire) : Stream[Len(unhandled) + k] = wire[k]
  BY <1>1, StreamTypes DEF Stream
<1>7. Len(unhandled) \in Nat /\ Len(wire) \in Nat
  BY <1>1, SMTT(30)
<1>8. Len(Stream') = Len(Stream) + n
  BY <1>4, <1>5, <1>6, <1>7, <1>a, <1>2, <1>w, SMTT(60) DEF w
<1>9. ASSUME NEW k \in 1..Len(Stream)
      PROVE  Stream'[k] = Stream[k]
  <2>1. CASE k \in 1..Len(unhandled)
    BY <1>5, <1>6, <1>w, <2>1, Zenon
  <2>2. CASE k \notin 1..Len(unhandled)
    <3>1. PICK j \in 1..Len(wire) : k = Len(unhandled) + j /\ j \in 1..Len(w)
      <4>1. Len(w) = Len(wire) + n /\ n \in Nat /\ Len(Stream) = Len(unhandled) + Len(wire)
        BY <1>2, <1>4, <1>6, <1>a, Zenon DEF w
      <4>2. /\ k - Len(unhandled) \in 1..Len(wire) /\ k = Len(unhandled) + (k - Len(unhandled))
            /\ k - Len(unhandled) \in 1..Len(w)
        BY <1>7, <2>2, <4>1
      <4>. QED  BY <4>2, Zenon
    <3>2. Stream'[k] = w[j] /\ w[j] = wire[j] /\ Stream[k] = wire[j]
      BY <1>4, <1>5, <1>6, <1>w, <3>1, Zenon DEF w
    <3>. QED  BY <3>2, Zenon
  <2>. QED  BY <2>1, <2>2, Zenon
<1>10. ASSUME NEW k \in 1..n
       PROVE  Stream'[Len(Stream) + k] = a[k]
  <2>1. /\ Len(wire) + k \in 1..Len(w) /\ k \in 1..Len(a)
        /\ Len(Stream) + k = Len(unhandled) + (Len(wire) + k)
    BY <1>2, <1>4, <1>6, <1>7, <1>a DEF w
  <2>2. /\ (unhandled \o w)[Len(unhandled) + (Len(wire) + k)] = w[Len(wire) + k]
        /\ w[Len(wire) + k] = a[k]
    BY <1>4, <1>5, <2>1, Zenon DEF w
  <2>. QED  BY <1>w, <2>1, <2>2, ZenonT(30)
<1>11. ASSUME NEW k \in 1..n
       PROVE  LET p == Stream'[Len(Stream) + k]
              IN p.kind = r.kind /\ p.to = r.to /\ p.last = (k = n)
  BY <1>3, <1>10, ZenonT(60) DEF a
<1>. QED  BY <1>2, <1>8, <1>9, <1>11, ZenonT(30)

\* The stream has a length.
LEMMA StreamLength ==
    ASSUME TypeInv PROVE Len(Stream) \in Nat
<1>1. unhandled \in Seq(Pieces) /\ wire \in Seq(Pieces)
  BY Zenon DEF TypeInv, TypeOK
<1>. QED  BY <1>1, StreamTypes DEF Stream

\* A session that fails leaves a true result, or no trace of the message.
LEMMA FailedSession ==
    ASSUME TypeInv, MailInv, SessionInv, Active, NEW e \in Errors, Fails(e),
           UNCHANGED <<ip, closed, taken, unasked>>,
           todo' = todo \/ step = "body",
           unasked = 0 /\ step \in Sending /\ severity(e) \notin Inconclusive
              => todo' = todo /\ taken = {} /\ (~Awaits(todo) \/ closed)
    PROVE  SessionInv'
<1>1. /\ at' \in {"pick", "dial", "done"}
      /\ at' = "done" => result' \in Errors
      /\ at' # "done" => result' = result
      /\ step \notin Connecting => at' = "done" /\ result' = e
  BY Failing, Zenon
<1>2. result = "none"
  BY Zenon DEF SessionInv, Active
<1>3. "Ok" \notin Errors
  BY Zenon DEF Errors
<1>4. CASE step \in Connecting
  <2>1. taken' = {} /\ ~Awaits(todo')
    BY <1>4, Zenon DEF MailInv, Connecting, Active
  <2>2. at' = "done" => OverInv'
    BY <1>1, <1>3, <2>1, Zenon DEF OverInv
  <2>. QED  BY <1>1, <1>2, <2>2, Zenon DEF SessionInv, Active
<1>5. CASE step \notin Connecting
  <2>1. step \in Sending /\ at' = "done" /\ result' = e
    BY <1>1, <1>5, Zenon DEF TypeInv, TypeOK, Steps
  <2>2. unasked = 0 => OverInv'
    BY <1>3, <2>1, Zenon DEF OverInv
  <2>. QED  BY <2>1, <2>2, Zenon DEF SessionInv, Active
<1>. QED  BY <1>4, <1>5, Zenon

\* Sessions go on.
LEMMA SessionGoesOn ==
    ASSUME Active', result' = "none", unasked' = 0 => StreamInv' /\ TodoInv' /\ TakenInv'
    PROVE  SessionInv'
BY Zenon DEF SessionInv, Active

\* What the parser gets is the answer to the command, or a goodbye.
LEMMA ParsedReply ==
    ASSUME TypeInv, SessionInv, unasked = 0, NEW x, Parsed(x)
    PROVE  /\ unhandled[1] \in Pieces
           /\ IF unhandled[1].to = "bye" THEN closed /\ unhandled[1].kind = "TransientNegative"
                                         ELSE unhandled[1].to = step /\ todo = <<>>
           /\ taken # {} => unhandled[1].to = "end"
           /\ unhandled[1].to = "end" =>
                /\ unhandled[1].kind = "PositiveCompletion" => taken = {ip}
                /\ unhandled[1].kind \in Negative => taken = {}
<1>1. 1 \in 1..Len(Stream) /\ Stream[1] = unhandled[1] /\ unhandled[1] \in Pieces
  BY StreamHead, Zenon
<1>2. StreamInv /\ TakenInv
  BY Zenon DEF SessionInv, Parsed
<1>3. step # "body"
  BY Zenon DEF Parsed, TypeInv
<1>4. IF unhandled[1].to = "bye" THEN closed /\ unhandled[1].kind = "TransientNegative"
                                 ELSE unhandled[1].to = step /\ todo = <<>>
  BY <1>1, <1>2, <1>3, ZenonT(60) DEF StreamInv
<1>5. taken # {} => unhandled[1].to = "end"
  BY <1>1, <1>2, Zenon DEF TakenInv
<1>6. unhandled[1].to = "end" =>
                /\ unhandled[1].kind = "PositiveCompletion" => taken = {ip}
                /\ unhandled[1].kind \in Negative => taken = {}
  BY <1>1, <1>2, Zenon DEF TakenInv
<1>. QED  BY <1>1, <1>4, <1>5, <1>6, Zenon

\* Once a reply is parsed, only a goodbye is left.
LEMMA ParsedRest ==
    ASSUME TypeInv, SessionInv, unasked = 0, NEW x, Parsed(x), NEW s, GoTo(s)
    PROVE  \A k \in 1..Len(Stream') :
              Stream'[k].to = "bye" /\ Stream'[k].kind = "TransientNegative" /\ closed
<1>1. PICK n \in 1..Len(Stream) :
              /\ Stream[n].last
              /\ Len(Stream') = Len(Stream) - n
              /\ \A k \in 1..Len(Stream') : Stream'[k] = Stream[n + k]
  BY StreamParsed, Zenon
<1>2. StreamInv
  BY Zenon DEF SessionInv, Parsed
<1>3. Len(Stream) \in Nat
  BY StreamLength, Zenon
<1>4. SUFFICES ASSUME NEW k \in 1..Len(Stream')
               PROVE  Stream'[k].to = "bye" /\ Stream'[k].kind = "TransientNegative" /\ closed
  BY Zenon
<1>5. n + k \in 1..Len(Stream) /\ n < n + k /\ Stream'[k] = Stream[n + k]
  BY <1>1, <1>3, SMTT(30)
<1>6. Stream[n + k].to = "bye"
  BY <1>1, <1>2, <1>5, Zenon DEF StreamInv
<1>. QED  BY <1>2, <1>5, <1>6, Zenon DEF StreamInv

\* What verify_reply concludes from a reply: success only from a positive one, a
\* conclusive error only from a negative one.
LEMMA Verdicts ==
    ASSUME TypeInv, unhandled[1] \in Pieces
    PROVE  /\ Verdict \in Errors \cup {"Ok"}
           /\ Verdict = "Ok" /\ step # "DATA" => unhandled[1].kind = "PositiveCompletion"
           /\ Verdict \in Errors /\ severity(Verdict) \notin Inconclusive
                 => unhandled[1].kind \in Negative
<1>. DEFINE expected == IF step = "DATA" THEN "PositiveIntermediate" ELSE "PositiveCompletion"
<1>1. expected \in {"PositiveIntermediate", "PositiveCompletion"}
  BY Zenon
<1>2. Verdict = verify_reply(unhandled[1], expected)
  BY Zenon DEF Verdict
<1>3. step # "DATA" => expected = "PositiveCompletion"
  BY Zenon
<1>. HIDE DEF expected
<1>4. LET v == verify_reply(unhandled[1], expected)
      IN /\ v \in Errors \cup {"Ok"}
         /\ v = "Ok" <=> unhandled[1].kind = expected
         /\ unhandled[1].kind \notin Negative \cup {expected} => v = "UnexpectedReplyCode"
  BY <1>1, VerifiedReply, Zenon
<1>5. severity("UnexpectedReplyCode") \in Inconclusive
  <2>1. severity("UnexpectedReplyCode") = "NetworkTransient"
    BY Zenon DEF severity
  <2>. QED  BY <2>1, Zenon DEF Inconclusive
<1>6. "Ok" \notin Errors
  BY Zenon DEF Errors
<1>. QED  BY <1>2, <1>3, <1>4, <1>5, <1>6, Zenon

\* The session goes on after a reply: nothing but a goodbye is left of it.
LEMMA RepliedGoesOn ==
    ASSUME TypeInv, MailInv, SessionInv, NEW x, Parsed(x), NEW s, Proceeds(s)
    PROVE  SessionInv'
<1>1. GoTo(s) /\ step \notin {"body", "end"}
  BY Zenon DEF Proceeds
<1>2. Active' /\ result' = "none"
  BY <1>1, Zenon DEF SessionInv, Parsed, GoTo, Active, quiet
<1>3. UNCHANGED <<closed, todo, taken, ip, left, unasked>>
  BY <1>1, Zenon DEF GoTo, quiet, search, remote
<1>4. ASSUME unasked = 0
      PROVE  StreamInv' /\ TodoInv' /\ TakenInv'
  <2>1. \A k \in 1..Len(Stream') :
           Stream'[k].to = "bye" /\ Stream'[k].kind = "TransientNegative" /\ closed
    BY <1>1, <1>4, ParsedRest, Zenon
  <2>2. closed \/ todo = <<>>
    BY <1>4, ParsedReply, Zenon
  <2>3. taken = {} /\ ~Awaits(todo)
    BY <1>1, Zenon DEF MailInv, Parsed, Active
  <2>4. StreamInv'
    BY <1>3, <2>1, Zenon DEF StreamInv
  <2>5. TodoInv'
    BY <1>3, <2>2, <2>3, Zenon DEF TodoInv
  <2>6. TakenInv'
    BY <1>3, <2>1, <2>3, Zenon DEF TakenInv
  <2>. QED  BY <2>4, <2>5, <2>6, Zenon
<1>. QED  BY <1>2, <1>3, <1>4, SessionGoesOn, Zenon

\* The server's answer to a command keeps the session in order.
LEMMA AnsweredStep ==
    ASSUME TypeInv, MailInv, SessionInv, Answered PROVE SessionInv'
<1>1. PICK positive \in BOOLEAN :
              /\ Parsed(positive)
              /\ \/ \E s \in Steps \ {"banner", "end"} : Proceeds(s)
                 \/ \E e \in Errors : SessionFails(e) /\ (step \in Sending => e = Verdict)
  BY Answering, Zenon
<1>2. CASE \E s \in Steps \ {"banner", "end"} : Proceeds(s)
  BY <1>1, <1>2, RepliedGoesOn, Zenon
<1>3. ASSUME NEW e \in Errors, SessionFails(e), step \in Sending => e = Verdict
      PROVE  SessionInv'
  <2>1. Fails(e) /\ UNCHANGED <<ip, closed, todo, taken, unasked>> /\ Active
    BY <1>1, <1>3, Zenon DEF Parsed, SessionFails, remote
  <2>2. ASSUME unasked = 0, step \in Sending, severity(e) \notin Inconclusive
        PROVE  taken = {} /\ (~Awaits(todo) \/ closed)
    <3>1. unhandled[1] \in Pieces
      BY <1>1, <2>2, ParsedReply, Zenon
    <3>2. unhandled[1].kind \in Negative
      BY <1>3, <2>2, <3>1, Verdicts, Zenon
    <3>3. /\ taken # {} => unhandled[1].to = "end"
          /\ unhandled[1].to = "end" => (unhandled[1].kind \in Negative => taken = {})
          /\ closed \/ todo = <<>>
      BY <1>1, <2>2, ParsedReply, Zenon
    <3>4. ~Awaits(<<>>)
      BY Zenon, Awaiting, EmptyBuffer
    <3>. QED  BY <3>2, <3>3, <3>4, Zenon
  <2>. QED  BY <1>3, <2>1, <2>2, FailedSession, Zenon
<1>. QED  BY <1>1, <1>2, <1>3, Zenon

\* So does its answer to the mail.
LEMMA MailReplied ==
    ASSUME TypeInv, SessionInv, reply_to_mail PROVE SessionInv'
<1>1. /\ Parsed(TRUE) /\ step = "end" /\ at' = "done" /\ result' = "Ok"
      /\ UNCHANGED <<ip, taken, unasked>>
  BY Zenon DEF reply_to_mail, search, remote
<1>2. ASSUME unasked = 0
      PROVE  OverInv'
  <2>1. /\ unhandled[1] \in Pieces
        /\ IF unhandled[1].to = "bye" THEN closed /\ unhandled[1].kind = "TransientNegative"
                                      ELSE unhandled[1].to = step /\ todo = <<>>
        /\ unhandled[1].to = "end" => (unhandled[1].kind = "PositiveCompletion" => taken = {ip})
    BY <1>1, <1>2, ParsedReply, Zenon
  <2>2. unhandled[1].kind = "PositiveCompletion"
    BY <1>1, <2>1, Verdicts, Zenon DEF Parsed
  <2>3. taken' = {ip'}
    BY <1>1, <2>1, <2>2, Zenon
  <2>4. "Ok" \notin Errors
    BY Zenon DEF Errors
  <2>. QED  BY <1>1, <2>3, <2>4, Zenon DEF OverInv
<1>. QED  BY <1>1, <1>2, Zenon DEF SessionInv, Active

\* The stream is what it was, and so are the answers due.
LEMMA SameStream ==
    ASSUME TypeInv, SessionInv, Active, UNCHANGED <<quiet, ip, remote>>,
           Len(Stream') = Len(Stream), \A k \in 1..Len(Stream') : Stream'[k] = Stream[k],
           \/ UNCHANGED <<step, waiting, left>>
           \/ ~waiting /\ step # "body" /\ taken = {} /\ ~Awaits(todo)
           \/ step = "body" /\ left = 0 /\ step' = "end" /\ waiting' /\ UNCHANGED left
    PROVE  SessionInv'
<1>1. Active' /\ result' = "none"
  BY Zenon DEF SessionInv, Active, quiet
<1>2. UNCHANGED <<ip, closed, todo, taken, unasked>>
  BY Zenon DEF remote
<1>3. step = "body" => ~waiting
  BY Zenon DEF TypeInv
<1>4. ASSUME unasked = 0
      PROVE  StreamInv' /\ TodoInv' /\ TakenInv'
  <2>1. StreamInv /\ TodoInv /\ TakenInv
    BY <1>4, Zenon DEF SessionInv
  <2>2. TakenInv'
    <3>1. Len(Stream) > 0 => 1 \in 1..Len(Stream')
      BY StreamLength, SMTT(30)
    <3>. QED  BY <1>2, <2>1, <3>1, Zenon DEF TakenInv
  <2>3. StreamInv'
    BY <1>2, <1>3, <2>1, SMTT(30) DEF StreamInv
  <2>4. TodoInv'
    BY <1>2, <1>3, <2>1, Zenon DEF TodoInv
  <2>. QED  BY <2>2, <2>3, <2>4, Zenon
<1>. QED  BY <1>1, <1>2, <1>4, SessionGoesOn, ZenonT(60)

\* The server answers: nothing was in the stream before.
LEMMA AnswerStep ==
    ASSUME TypeInv, SessionInv, unasked = 0, remote_answers, Active PROVE SessionInv'
<1>1. StreamInv /\ TodoInv /\ TakenInv /\ ~closed /\ todo # <<>> /\ todo' = Tail(todo)
  BY Zenon DEF SessionInv, remote_answers
<1>2. PICK r \in Pieces :
         /\ Says(r) /\ r.to = Head(todo)
         /\ \/ taken' = taken /\ (Head(todo) = "end" => r.kind # "PositiveCompletion")
            \/ taken' = taken \cup {ip} /\ Head(todo) = "end" /\ r.kind \notin Negative
  <2>1. Head(todo) \in Steps
    BY <1>1, Owing, Zenon DEF TypeInv, TypeOK
  <2>. QED  BY <2>1, RepliesArePieces, Zenon DEF remote_answers
<1>3. /\ unhandled' = unhandled /\ Active' /\ result' = "none"
      /\ UNCHANGED <<step, waiting, left, closed, ip>>
  BY Zenon DEF remote_answers, SessionInv, Active, quiet, buffer, session, search
<1>4. /\ taken = {} /\ todo' = <<>>
      /\ (waiting /\ Head(todo) = step) \/ (step = "body" /\ left = 0 /\ Head(todo) = "end")
      /\ Head(todo) = "end" => left = 0
  <2>1. /\ taken = {}
        /\ (waiting /\ todo = <<step>>) \/ (step = "body" /\ left = 0 /\ todo = <<"end">>)
        /\ Awaits(todo) => left = 0
    BY <1>1, Zenon DEF TakenInv, TodoInv
  <2>2. todo \in Seq(Steps) /\ step \in Steps /\ "end" \in Steps
    BY Zenon DEF TypeInv, TypeOK, Steps, Sending
  <2>3. \A s \in Steps : Head(<<s>>) = s /\ Tail(<<s>>) = <<>>
    BY <2>2, Awaiting, Zenon
  <2>4. Head(todo) = "end" => Awaits(todo)
    BY <1>1, <2>2, Awaiting, Zenon
  <2>. QED  BY <1>1, <2>1, <2>2, <2>3, <2>4, Zenon
<1>5. Len(Stream) = 0
  <2>1. \A k \in 1..Len(Stream) : FALSE
    BY <1>1, Zenon DEF StreamInv
  <2>. QED  BY <2>1, StreamLength, SMTT(30)
<1>6. PICK n \in Nat \ {0} :
         /\ Len(Stream') = n
         /\ \A k \in 1..n : LET p == Stream'[k]
                            IN p.kind = r.kind /\ p.to = r.to /\ p.last = (k = n)
  <2>1. PICK n \in Nat \ {0} :
              /\ Len(Stream') = Len(Stream) + n
              /\ \A k \in 1..n : LET p == Stream'[Len(Stream) + k]
                                 IN p.kind = r.kind /\ p.to = r.to /\ p.last = (k = n)
    BY <1>2, <1>3, StreamSays, ZenonT(60)
  <2>2. \A k \in 1..n : Len(Stream) + k = k
    BY <1>5
  <2>3. Len(Stream') = n
    BY <1>5, <2>1
  <2>4. \A k \in 1..n : LET p == Stream'[k]
                        IN p.kind = r.kind /\ p.to = r.to /\ p.last = (k = n)
    BY <2>1, <2>2, ZenonT(60)
  <2>. QED  BY <2>3, <2>4, ZenonT(30)
<1>7. StreamInv'
  <2>1. Head(todo) # "bye"
    BY <1>4, Zenon DEF TypeInv, TypeOK, Steps, Connecting, Sending
  <2>2. ASSUME NEW j \in 1..n, NEW k \in 1..n, j < k
        PROVE  ~Stream'[j].last
    <3>1. j # n
      BY <2>2
    <3>. QED  BY <1>6, <3>1, Zenon
  <2>. QED  BY <1>1, <1>2, <1>3, <1>4, <1>6, <2>1, <2>2, ZenonT(60) DEF StreamInv
<1>8. TodoInv'
  <2>1. ~Awaits(<<>>)
    BY Awaiting, EmptyBuffer, Zenon
  <2>2. taken' # {} => Head(todo) = "end"
    BY <1>2, <1>4, Zenon
  <2>. QED  BY <1>3, <1>4, <2>1, <2>2, Zenon DEF TodoInv
<1>9. TakenInv'
  <2>1. Len(Stream') > 0 /\ Stream'[1].to = Head(todo)
    BY <1>2, <1>6
  <2>2. taken' # {} => taken' = {ip} /\ Head(todo) = "end"
    BY <1>2, <1>4, Zenon
  <2>3. Head(todo) = "end" => /\ r.kind = "PositiveCompletion" => taken' = {ip}
                              /\ r.kind \in Negative => taken' = {}
    BY <1>2, <1>4, Zenon
  <2>4. \A k \in 1..Len(Stream') : Stream'[k].to = Head(todo) /\ Stream'[k].kind = r.kind
    BY <1>2, <1>6, Zenon
  <2>. QED  BY <1>3, <1>4, <2>1, <2>2, <2>3, <2>4, ZenonT(60) DEF TakenInv
<1>. QED  BY <1>3, <1>7, <1>8, <1>9, SessionGoesOn, ZenonT(60)

\* The server answers the mail when the attempt is over.
LEMMA LateAnswer ==
    ASSUME TypeInv, MailInv, SessionInv, remote_answers, ~Active PROVE SessionInv'
<1>1. /\ Awaits(todo) /\ ~closed
      /\ taken' = taken \/ taken' = taken \cup {ip}
      /\ UNCHANGED <<at, result, ip, unasked>>
  BY Zenon DEF remote_answers, quiet, search, Awaits
<1>2. at = "done"
  BY <1>1, Zenon DEF MailInv
<1>3. ASSUME unasked = 0
      PROVE  OverInv'
  <2>1. /\ ~(result \in Errors /\ severity(result) \notin Inconclusive)
        /\ result = "Ok" => taken = {ip}
    BY <1>1, <1>2, <1>3, Zenon DEF SessionInv, OverInv
  <2>2. taken = {ip} => taken' = {ip}
    BY <1>1, Zenon
  <2>. QED  BY <1>1, <2>1, <2>2, Zenon DEF OverInv
<1>. QED  BY <1>1, <1>2, <1>3, Zenon DEF SessionInv, Active

\* The server closes the connection: a goodbye is the last in the stream.
LEMMA CloseStep ==
    ASSUME TypeInv, SessionInv, unasked = 0, remote_closes PROVE SessionInv'
<1>1. /\ StreamInv /\ TodoInv /\ TakenInv /\ ~closed /\ closed'
      /\ unhandled' = unhandled /\ Active /\ Active' /\ result' = "none"
      /\ UNCHANGED <<step, waiting, left, ip, todo, taken>>
  BY Zenon DEF SessionInv, remote_closes, Active, quiet, buffer, session, search
<1>2. TodoInv'
  BY <1>1, Zenon DEF TodoInv
<1>3. CASE UNCHANGED wire
  <2>1. Stream' = Stream
    BY <1>1, <1>3, Zenon DEF Stream
  <2>2. StreamInv' /\ TakenInv'
    BY <1>1, <2>1, Zenon DEF StreamInv, TakenInv
  <2>. QED  BY <1>1, <1>2, <2>2, SessionGoesOn, Zenon
<1>4. CASE ~UNCHANGED wire
  <2>. DEFINE r == [kind |-> "TransientNegative", subject |-> "other", tls |-> FALSE,
                    to |-> "bye", last |-> FALSE]
  <2>1. r \in Pieces /\ r.kind = "TransientNegative" /\ r.to = "bye" /\ Says(r)
    BY <1>4, Zenon DEF remote_closes, Pieces, Kinds, Subjects
  <2>. HIDE DEF r
  <2>2. PICK n \in Nat \ {0} :
           /\ Len(Stream') = Len(Stream) + n
           /\ \A k \in 1..Len(Stream) : Stream'[k] = Stream[k]
           /\ \A k \in 1..n : LET p == Stream'[Len(Stream) + k]
                              IN p.kind = r.kind /\ p.to = r.to /\ p.last = (k = n)
    BY <1>1, <2>1, StreamSays, ZenonT(30)
  <2>3. Len(Stream) \in Nat
    BY StreamLength, Zenon
  <2>4. ASSUME NEW k \in 1..Len(Stream'), k \notin 1..Len(Stream)
        PROVE  Stream'[k].to = "bye" /\ Stream'[k].kind = "TransientNegative"
    <3>1. PICK j \in 1..n : k = Len(Stream) + j
      <4>1. k - Len(Stream) \in 1..n /\ k = Len(Stream) + (k - Len(Stream))
        BY <2>2, <2>3, <2>4
      <4>. QED  BY <4>1, Zenon
    <3>. QED  BY <2>1, <2>2, <3>1, Zenon
  <2>5. StreamInv'
    <3>1. ASSUME NEW j \in 1..Len(Stream'), NEW k \in 1..Len(Stream'), j < k, Stream'[j].last
          PROVE  Stream'[k].to = "bye"
      <4>1. CASE k \in 1..Len(Stream)
        <5>1. j \in 1..Len(Stream)
          BY <3>1, <4>1, SMTT(30)
        <5>. QED  BY <1>1, <2>2, <3>1, <4>1, <5>1, ZenonT(60) DEF StreamInv
      <4>. QED  BY <2>4, <4>1, Zenon
    <3>2. ASSUME NEW k \in 1..Len(Stream')
          PROVE  IF Stream'[k].to = "bye"
                 THEN Stream'[k].kind = "TransientNegative"
                 ELSE /\ todo = <<>>
                      /\ \/ waiting /\ Stream'[k].to = step
                         \/ step = "body" /\ left = 0 /\ Stream'[k].to = "end"
      <4>1. CASE k \in 1..Len(Stream)
        BY <1>1, <2>2, <4>1, SMTT(30) DEF StreamInv
      <4>. QED  BY <2>4, <4>1, Zenon
    <3>. QED  BY <1>1, <3>1, <3>2, Zenon DEF StreamInv
  <2>6. TakenInv'
    <3>1. taken # {} => Len(Stream') > 0 /\ Stream'[1].to = "end"
      <4>1. Len(Stream) > 0 => 1 \in 1..Len(Stream) /\ Len(Stream') > 0
        BY <2>2, <2>3, SMTT(30)
      <4>. QED  BY <1>1, <2>2, <4>1, Zenon DEF TakenInv
    <3>2. ASSUME NEW k \in 1..Len(Stream'), Stream'[k].to = "end"
          PROVE  /\ Stream'[k].kind = "PositiveCompletion" => taken = {ip}
                 /\ Stream'[k].kind \in Negative => taken = {}
      <4>1. k \in 1..Len(Stream) /\ Stream'[k] = Stream[k]
        BY <2>2, <2>4, <3>2, Zenon
      <4>. QED  BY <1>1, <3>2, <4>1, Zenon DEF TakenInv
    <3>. QED  BY <1>1, <3>1, <3>2, Zenon DEF TakenInv
  <2>. QED  BY <1>1, <1>2, <2>5, <2>6, SessionGoesOn, Zenon
<1>. QED  BY <1>3, <1>4, Zenon

\* Every step keeps the session in order: replies are read in the order of commands.
LEMMA SessionStep ==
    ASSUME TypeInv, MailInv, SessionInv, [Next]_vars PROVE SessionInv'
<1>. USE DEF config, search, session, buffer, ghosts, quiet
<1>a. todo \in Seq(Steps) /\ step \in Steps
  BY Zenon DEF TypeInv, TypeOK
<1>1. CASE connect
  <2>1. taken = {} /\ ~Awaits(todo) /\ result = "none" /\ UNCHANGED <<taken, todo>>
    BY <1>1, Zenon DEF connect, SessionInv, MailInv, Active, remote
  <2>2. \/ at' \in {"dial", "pick", "lookup"} /\ result' = result
        \/ at' = "done" /\ result' \in {"DnsMx", "HostToTrustDns"}
    BY <1>1, Zenon DEF connect
  <2>3. at' = "done" => OverInv'
    BY <2>1, <2>2, Zenon DEF OverInv
  <2>. QED  BY <2>1, <2>2, <2>3, Zenon DEF SessionInv, Active
<1>2. CASE connect_to_mx
  BY <1>2, Zenon DEF connect_to_mx, SessionInv, Active
<1>3. CASE connect_to_host \/ connecting_fails
  <2>1. taken = {} /\ ~Awaits(todo) /\ result = "none" /\ UNCHANGED <<taken, todo>>
    BY <1>3, Zenon DEF connect_to_host, connecting_fails, SessionInv, MailInv, Active, remote
  <2>2. /\ at' \in {"pick", "dial", "done"}
        /\ at' = "done" => result' \in Errors
        /\ at' # "done" => result' = result
    <3>1. {"DnsIp", "Connecting"} \subseteq Errors
      BY Zenon DEF Errors
    <3>2. CASE connecting_fails
      BY <3>1, <3>2, AddressFailing, Zenon DEF connecting_fails
    <3>3. CASE connect_to_host
      BY <3>1, <3>3, HostFailing, Zenon DEF connect_to_host
    <3>. QED  BY <1>3, <3>2, <3>3, Zenon
  <2>3. at' = "done" => OverInv'
    <3>1. "Ok" \notin Errors
      BY Zenon DEF Errors
    <3>. QED  BY <2>1, <2>2, <3>1, Zenon DEF OverInv
  <2>. QED  BY <2>1, <2>2, <2>3, Zenon DEF SessionInv, Active
<1>4. CASE connect_to_ip
  <2>1. /\ taken' = {} /\ todo' = <<"banner">> /\ step' = "banner" /\ waiting' = TRUE
        /\ Active' /\ result' = "none"
    BY <1>4, Zenon DEF connect_to_ip, FreshSender, SessionInv, MailInv, Active
  <2>2. Len(Stream') = 0
    <3>1. Stream' = <<>> \o <<>>
      BY <1>4, Zenon DEF connect_to_ip, FreshSender, Stream
    <3>. QED  BY <3>1
  <2>3. \A k : k \notin 1..Len(Stream')
    BY <2>2, SMTT(30)
  <2>4. StreamInv' /\ TakenInv'
    BY <2>1, <2>3, Zenon DEF StreamInv, TakenInv
  <2>5. TodoInv'
    BY <1>a, <2>1, Awaiting, Zenon DEF TodoInv
  <2>. QED  BY <2>1, <2>4, <2>5, SessionGoesOn, Zenon
<1>5. CASE Breaks
  <2>1. PICK e \in Errors : /\ Active /\ Fails(e) /\ severity(e) \in Inconclusive
                            /\ todo' = todo \/ step = "body"
                            /\ UNCHANGED <<ip, closed, taken, unasked>>
    BY <1>5, Zenon DEF Breaks
  <2>. QED  BY <2>1, FailedSession, Zenon
<1>6. CASE Answered
  BY <1>6, AnsweredStep, Zenon
<1>7. CASE reply_to_mail
  BY <1>7, MailReplied, Zenon
<1>8. CASE send_command
  <2>1. /\ Active /\ ~waiting /\ step \in Commands /\ waiting' /\ todo' = Append(todo, step)
        /\ UNCHANGED <<step, left, closed, taken, unasked, ip, unhandled, wire, at, result>>
    BY <1>8, Zenon DEF send_command
  <2>2. Active' /\ result' = "none"
    BY <2>1, Zenon DEF SessionInv, Active
  <2>3. step \notin {"body", "end"}
    BY <2>1, Zenon DEF Commands
  <2>4. taken = {} /\ ~Awaits(todo) /\ ~Awaits(todo')
    BY <1>a, <2>1, <2>3, Awaiting, Zenon DEF MailInv, Active
  <2>5. ASSUME unasked = 0
        PROVE  StreamInv' /\ TodoInv' /\ TakenInv'
    <3>1. StreamInv /\ TodoInv /\ Stream' = Stream
      BY <2>1, <2>5, Zenon DEF SessionInv, Stream
    <3>2. \A k \in 1..Len(Stream) : Stream[k].to = "bye"
      BY <2>1, <2>3, <3>1, Zenon DEF StreamInv
    <3>3. StreamInv'
      BY <2>1, <3>1, <3>2, Zenon DEF StreamInv
    <3>4. TodoInv'
      <4>1. closed \/ todo = <<>>
        BY <2>1, <2>3, <3>1, Zenon DEF TodoInv
      <4>2. closed \/ todo' = <<step>>
        BY <1>a, <2>1, <4>1, Awaiting, Zenon
      <4>. QED  BY <2>1, <2>4, <4>2, Zenon DEF TodoInv
    <3>5. TakenInv'
      BY <2>1, <2>4, <3>1, <3>2, Zenon DEF TakenInv
    <3>. QED  BY <3>3, <3>4, <3>5, Zenon
  <2>. QED  BY <2>1, <2>2, <2>5, SessionGoesOn, Zenon
<1>9. CASE tls_connect
  <2>1. /\ Active /\ step = "tls" /\ UNCHANGED <<quiet, ip, remote, unhandled, wire, left>>
    BY <1>9, Zenon DEF tls_connect
  <2>2. ~waiting /\ taken = {} /\ ~Awaits(todo)
    BY <2>1, Zenon DEF TypeInv, MailInv, Active
  <2>3. Stream' = Stream
    BY <2>1, Zenon DEF Stream
  <2>. QED  BY <2>1, <2>2, <2>3, SameStream, Zenon
<1>10. CASE read_more
  <2>1. Active /\ UNCHANGED <<quiet, ip, remote, step, waiting, left>>
    BY <1>10, Zenon DEF read_more
  <2>. QED  BY <1>10, <2>1, StreamRead, SameStream, Zenon
<1>11. CASE end_of_mail
  <2>1. /\ Active /\ step = "body" /\ left = 0 /\ step' = "end" /\ waiting'
        /\ UNCHANGED <<quiet, ip, remote, unhandled, wire, left>>
    BY <1>11, Zenon DEF end_of_mail
  <2>2. Stream' = Stream
    BY <2>1, Zenon DEF Stream
  <2>. QED  BY <2>1, <2>2, SameStream, Zenon
<1>12. CASE send_block
  <2>1. /\ Active /\ step = "body" /\ left > 0 /\ left' = left - 1
        /\ todo' = IF left = 1 THEN Append(todo, "end") ELSE todo
        /\ UNCHANGED <<step, waiting, closed, taken, unasked, ip, unhandled, wire, at, result>>
    BY <1>12, Zenon DEF send_block
  <2>2. Active' /\ result' = "none"
    BY <2>1, Zenon DEF SessionInv, Active
  <2>3. ~waiting /\ left \in Nat /\ left # 0
    BY <2>1, ClientAssumption DEF TypeInv, TypeOK
  <2>4. ASSUME unasked = 0
        PROVE  StreamInv' /\ TodoInv' /\ TakenInv'
    <3>1. StreamInv /\ TodoInv /\ Stream' = Stream
      BY <2>1, <2>4, Zenon DEF SessionInv, Stream
    <3>2. taken = {} /\ ~Awaits(todo) /\ (closed \/ todo = <<>>)
      BY <2>3, <3>1, Zenon DEF TodoInv
    <3>3. \A k \in 1..Len(Stream) : Stream[k].to = "bye"
      BY <2>3, <3>1, Zenon DEF StreamInv
    <3>4. StreamInv'
      BY <2>1, <3>1, <3>3, Zenon DEF StreamInv
    <3>5. TodoInv'
      <4>1. CASE left = 1
        <5>1. left' = 0 /\ todo' = Append(todo, "end")
          BY <2>1, <4>1
        <5>2. closed \/ todo' = <<"end">>
          BY <1>a, <3>2, <5>1, Awaiting, Zenon DEF Steps, Sending
        <5>. QED  BY <2>1, <5>1, <5>2, Zenon DEF TodoInv
      <4>2. CASE left # 1
        <5>1. todo' = todo
          BY <2>1, <4>2, Zenon
        <5>. QED  BY <2>1, <3>2, <5>1, Zenon DEF TodoInv
      <4>. QED  BY <4>1, <4>2, Zenon
    <3>6. TakenInv'
      BY <2>1, <3>1, <3>2, <3>3, Zenon DEF TakenInv
    <3>. QED  BY <3>4, <3>5, <3>6, Zenon
  <2>. QED  BY <2>1, <2>2, <2>4, SessionGoesOn, Zenon
<1>b. ASSUME Active, UNCHANGED <<at, result>>, unasked' # 0
      PROVE  SessionInv'
  BY <1>b, Zenon DEF SessionInv, Active
<1>13. CASE remote_answers
  <2>1. CASE Active /\ unasked = 0
    BY <1>13, <2>1, AnswerStep, Zenon
  <2>2. CASE Active /\ unasked # 0
    BY <1>13, <1>b, <2>2, Zenon DEF remote_answers
  <2>. QED  BY <1>13, <2>1, <2>2, LateAnswer, Zenon
<1>14. CASE remote_speaks
  <2>1. unasked' # 0
    BY <1>14 DEF remote_speaks, TypeInv, TypeOK
  <2>. QED  BY <1>14, <1>b, <2>1, Zenon DEF remote_speaks
<1>15. CASE remote_closes
  <2>1. CASE unasked = 0
    BY <1>15, <2>1, CloseStep, Zenon
  <2>2. CASE unasked # 0
    BY <1>15, <1>b, <2>2, Zenon DEF remote_closes
  <2>. QED  BY <2>1, <2>2, Zenon
<1>16. CASE UNCHANGED vars
  <2>1. Stream' = Stream
    BY <1>16, Zenon DEF vars, Stream
  <2>2. (StreamInv => StreamInv') /\ (TakenInv => TakenInv')
    BY <1>16, <2>1, ZenonT(30) DEF vars, remote, StreamInv, TakenInv
  <2>3. (TodoInv => TodoInv') /\ (OverInv => OverInv')
    BY <1>16, Zenon DEF vars, remote, TodoInv, OverInv
  <2>. QED  BY <1>16, <2>2, <2>3, Zenon DEF vars, remote, SessionInv, Active
<1>. QED  BY <1>1, <1>2, <1>3, <1>4, <1>5, <1>6, <1>7, <1>8, <1>9, <1>10, <1>11, <1>12, <1>13,
             <1>14, <1>15, <1>16, StepKinds, ZenonT(60)

\* The strengthened invariant of an attempt.
ClientInv == TypeInv /\ MailInv /\ SessionInv

\* Types, mail and session are in order throughout.
THEOREM ClientInvariant == Spec => []ClientInv
<1>1. Init => SessionInv
  BY Zenon DEF Init, SessionInv, Active
<1>. QED  BY <1>1, SessionStep, TypeInvariant, MailInvariant, PTL DEF ClientInv, Spec

\* What send tells the queue is true if the server spoke only when asked, for every
\* size of replies, buffer and mail:
\* Ok means that this server has it, and a failure that is permanent or blamed on
\* the mail or the mailbox means that no server has it or will take it.
THEOREM ResultsAreTruthful == Spec => []ResultIsTruthful
<1>1. ClientInv => ResultIsTruthful
  <2>1. SUFFICES ASSUME ClientInv PROVE ResultIsTruthful
    BY Zenon
  <2>2. "none" \notin Errors
    BY Zenon DEF Errors
  <2>3. CASE at = "done"
    BY <2>1, <2>3, Zenon DEF ClientInv, SessionInv, OverInv, ResultIsTruthful
  <2>4. CASE at # "done"
    BY <2>1, <2>2, <2>4, Zenon DEF ClientInv, SessionInv, ResultIsTruthful
  <2>. QED  BY <2>3, <2>4, Zenon
<1>. QED  BY <1>1, ClientInvariant, PTL

\* Whatever is read while a reply is awaited answers the last command or says
\* goodbye, if the server speaks only when asked, for every size of replies and of
\* rdbuf.
THEOREM StaysInStep == Spec => []RepliesInStep
<1>1. ClientInv => RepliesInStep
  <2>1. SUFFICES ASSUME ClientInv, Active, unasked = 0,
                        NEW u \in {unhandled[k] : k \in DOMAIN unhandled}
                                     \cup {wire[k] : k \in DOMAIN wire}
                 PROVE  \/ u.to = "bye"
                        \/ waiting /\ u.to = step
                        \/ step = "body" /\ left = 0 /\ u.to = "end"
    BY Zenon DEF RepliesInStep
  <2>2. unhandled \in Seq(Pieces) /\ wire \in Seq(Pieces) /\ StreamInv
    BY <2>1, Zenon DEF ClientInv, TypeInv, TypeOK, SessionInv
  <2>3. /\ Len(Stream) = Len(unhandled) + Len(wire)
        /\ \A k \in 1..Len(unhandled) : Stream[k] = unhandled[k]
        /\ \A k \in 1..Len(wire) : Stream[Len(unhandled) + k] = wire[k]
    BY <2>2, StreamTypes, SMTT(30) DEF Stream
  <2>4. \E k \in 1..Len(Stream) : u = Stream[k]
    <3>1. /\ DOMAIN unhandled = 1..Len(unhandled) /\ DOMAIN wire = 1..Len(wire)
          /\ Len(unhandled) \in Nat /\ Len(wire) \in Nat
      BY <2>2, SMTT(30)
    <3>2. CASE \E k \in 1..Len(unhandled) : u = unhandled[k]
      BY <2>3, <3>1, <3>2, SMTT(30)
    <3>3. ASSUME NEW k \in 1..Len(wire), u = wire[k]
          PROVE  \E j \in 1..Len(Stream) : u = Stream[j]
      <4>1. Len(unhandled) + k \in 1..Len(Stream)
        BY <2>3, <3>1
      <4>. QED  BY <2>3, <3>3, <4>1, Zenon
    <3>. QED  BY <2>1, <3>1, <3>2, <3>3, Zenon
  <2>. QED  BY <2>2, <2>4, Zenon DEF StreamInv
<1>. QED  BY <1>1, ClientInvariant, PTL

=============================================================================
