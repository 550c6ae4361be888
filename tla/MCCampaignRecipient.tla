------------------------- MODULE MCCampaignRecipient -------------------------
(* Instances of CampaignRecipient for TLC. *)
EXTENDS CampaignRecipient, TLC

OneDelay == <<"email", "delay", "email">>

\* A delay before the first mail, and one between two mails.
TwoMails == <<"delay", "email", "delay", "email">>

\* Requests are interchangeable; used where no liveness is checked.
Symmetric == Permutations(Reporters) \cup Permutations(Operators)
=============================================================================
