-------------------------- MODULE MCCampaignContent --------------------------
(* One campaign, its contacts and the templates it chooses from. *)
EXTENDS CampaignContent, TLC

\* Contacts are interchangeable, and so are templates.
ContentSymmetry == Permutations(People) \cup Permutations(Tmpls)
=============================================================================
