---------------------------- MODULE MCSmtpClient ----------------------------
(***************************************************************************)
(* Instances of SmtpClient: a destination with two exchanges of different  *)
(* preference or two addresses of its own, and one with a single address.  *)
(***************************************************************************)
EXTENDS SmtpClient, TLC

CONSTANTS best, backup, domain

Exchanges == {best, backup}
Preferences == best :> 10 @@ backup :> 20
AddressesOf == best :> <<1>> @@ backup :> <<2>> @@ domain :> <<3, 4>>

AllCodes ==
    {c \in [kind : Kinds, subject : Subjects] : c.kind \notin Negative => c.subject = "other"}

\* One address only, and few codes.
FewCodes ==
    [kind : {"PositiveCompletion", "PositiveIntermediate", "TransientNegative"},
     subject : {"other"}]
OnePreference == best :> 10
OneAddress == best :> <<1>> @@ domain :> <<1>>
=============================================================================
