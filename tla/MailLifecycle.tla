--------------------------- MODULE MailLifecycle ---------------------------
(***************************************************************************)
(* What the queue promises for each recipient of a mail, whatever happens  *)
(* to the process: one attempt at a time, nothing sent outside an attempt, *)
(* and no recipient dropped unless it was delivered or given up.           *)
(***************************************************************************)
CONSTANT Dests

VARIABLES
    stage,      \* where each recipient is in its life
    delivered,  \* recipients whose mail the remote server took
    givenUp     \* recipients the configuration gave up on

lifeVars == <<stage, delivered, givenUp>>

Stages == {"absent", "queued", "sending", "handled", "forgotten"}

LifeInit ==
    /\ stage = [d \in Dests |-> "absent"]
    /\ delivered = {}
    /\ givenUp = {}

Move(d, from, to) ==
    /\ stage[d] = from
    /\ stage' = [stage EXCEPT ![d] = to]

Enter(d) == Move(d, "absent", "queued") /\ UNCHANGED <<delivered, givenUp>>

Attempt(d) == Move(d, "queued", "sending") /\ UNCHANGED <<delivered, givenUp>>

Deliver(d) ==
    /\ stage[d] = "sending"
    /\ delivered' = delivered \cup {d}
    /\ UNCHANGED <<stage, givenUp>>

Return(d) == Move(d, "sending", "queued") /\ UNCHANGED <<delivered, givenUp>>

Finish(d) ==
    /\ d \in delivered
    /\ Move(d, "sending", "handled")
    /\ UNCHANGED <<delivered, givenUp>>

GiveUp(d) ==
    /\ Move(d, "queued", "handled")
    /\ givenUp' = givenUp \cup {d}
    /\ UNCHANGED delivered

Forget(d) == Move(d, "handled", "forgotten") /\ UNCHANGED <<delivered, givenUp>>

LifeNext ==
    \E d \in Dests :
        \/ Enter(d)
        \/ Attempt(d)
        \/ Deliver(d)
        \/ Return(d)
        \/ Finish(d)
        \/ GiveUp(d)
        \/ Forget(d)

LifeSpec == LifeInit /\ [][LifeNext]_lifeVars
=============================================================================
