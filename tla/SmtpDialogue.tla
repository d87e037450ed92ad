---------------------------- MODULE SmtpDialogue ----------------------------
(***************************************************************************)
(* What an SMTP (or LMTP) server session promises its client, however the  *)
(* lines are cut into reads: lines are handled one by one in the order     *)
(* they were sent, none twice and none left out; each command has exactly  *)
(* one reply (none, at most, if the server hangs up instead); the lines    *)
(* between an accepted DATA and the line "." are the message, and are      *)
(* neither taken for commands nor answered; the message has one reply, or  *)
(* with LMTP one for each accepted recipient.                              *)
(***************************************************************************)
EXTENDS Naturals, Sequences, FiniteSets

CONSTANT Protocol

VARIABLES
    script,     \* the lines the client has to send
    sent,       \* how many it has sent
    handled,    \* how many the server is done with
    mode,       \* "command", "data", "ended" or "over"
    body,       \* the lines of the message being received
    accepted,   \* the commands the server accepted
    answer      \* the last line that was answered, and how many replies it got

dialogueVars == <<script, sent, handled, mode, body, accepted, answer>>

DialogueInit ==
    /\ sent = 0
    /\ handled = 0
    /\ mode = "command"
    /\ body = {}
    /\ accepted = {}
    /\ answer = <<0, 0>>

Send ==
    /\ sent' = sent + 1
    /\ UNCHANGED <<script, handled, mode, body, accepted, answer>>

Greet ==
    /\ answer = <<0, 0>>
    /\ answer' = <<0, 1>>
    /\ UNCHANGED <<script, sent, handled, mode, body, accepted>>

Command ==
    /\ mode = "command"
    /\ handled < sent
    /\ handled' = handled + 1
    /\ accepted' \in {accepted, accepted \cup {handled'}}
    /\ \/ /\ answer' = <<handled', 1>>
          /\ mode' \in {"command", "over"}
          /\ UNCHANGED body
       \/ /\ answer' = <<handled', 1>>
          /\ script[handled'] = "DATA"
          /\ handled' \in accepted'
          /\ mode' = "data"
          /\ body' = {}
       \/ /\ mode' = "over"
          /\ UNCHANGED <<answer, body>>
    /\ UNCHANGED <<script, sent>>

\* Some lines of the message arrive, at the latest the one that ends it.
Receive ==
    /\ mode = "data"
    /\ \E n \in handled .. sent :
        LET lines == (handled + 1) .. n
            text == {l \in lines : script[l] # "."} IN
        /\ \A l \in lines \ {n} : l \in text
        /\ handled' = n
        /\ body' = body \cup text
        /\ mode' = IF lines = text THEN "data" ELSE "ended"
    /\ UNCHANGED <<script, sent, accepted, answer>>

\* Those the client named since it last began a mail, and was not refused.
Recipients ==
    {r \in accepted :
        script[r] = "RCPT" /\ \A l \in accepted : script[l] = "MAIL" => l < r}

\* The reply to the message; with LMTP, one for each recipient.  Fewer only if
\* the session ends there.
Conclude ==
    LET expected == IF Protocol = "Smtp" THEN 1 ELSE Cardinality(Recipients) IN
    /\ mode = "ended"
    /\ \E replies \in 1 .. expected :
        /\ answer' = <<handled, replies>>
        /\ mode' = "over" \/ (mode' = "command" /\ replies = expected)
    /\ UNCHANGED <<script, sent, handled, body, accepted>>

HangUp ==
    /\ mode' = "over"
    /\ UNCHANGED <<script, sent, handled, body, accepted, answer>>

DialogueNext ==
    \/ Send
    \/ mode # "over" /\ (Greet \/ Command \/ Receive \/ Conclude \/ HangUp)

DialogueSpec == DialogueInit /\ [][DialogueNext]_dialogueVars
=============================================================================
