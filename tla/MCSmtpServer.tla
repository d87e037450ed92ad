---------------------------- MODULE MCSmtpServer ----------------------------
(***************************************************************************)
(* Instances of SmtpServer.  The clients follow an ordinary session in     *)
(* which any one line has been replaced, left out or added.                *)
(***************************************************************************)
EXTENDS SmtpServer, SequencesExt

Variants(s) ==
    {s} \cup {RemoveAt(s, i) : i \in DOMAIN s}
        \cup {ReplaceAt(s, i, k) : i \in DOMAIN s, k \in Kinds}
        \cup {InsertAt(s, i, k) : i \in 1 .. Len(s) + 1, k \in Kinds}

\* One message and the beginning of the next; STARTTLS and one message.
SmtpScripts ==
    Variants(<<"EHLO", "MAIL", "RCPT", "DATA", "text", ".", "MAIL">>)
        \cup Variants(<<"EHLO", "MAIL", "STARTTLS", "EHLO", "MAIL", "RCPT", "DATA">>)

\* A message for two recipients.
LmtpScripts ==
    Variants(<<"LHLO", "MAIL", "RCPT", "RCPT", "DATA", ".">>)
=============================================================================
