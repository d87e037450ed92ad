---------------------------- MODULE MCMailQueue ----------------------------
(***************************************************************************)
(* Small instances of MailQueue for TLC.                                   *)
(***************************************************************************)
EXTENDS MailQueue, TLC

CONSTANTS i1, i2, m1, d1, d2

\* One mail with two recipients.
OneMail == d1 :> m1 @@ d2 :> m1

\* One mail with one recipient.
OneDest == d1 :> m1

DestSymmetry == Permutations({d1, d2})

InstanceSymmetry == Permutations({i1, i2})
=============================================================================
