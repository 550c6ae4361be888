------------------------- MODULE MCCampaignDelivery -------------------------
(* Instances of CampaignDelivery for TLC. *)
EXTENDS CampaignDelivery, TLC

\* The account is always of use; or it is used up or fails at any moment.
Ready == {[active |-> TRUE, left |-> 2]}
Changing == {[active |-> TRUE, left |-> 2], [active |-> TRUE, left |-> 0],
             [active |-> FALSE, left |-> 2]}

\* Batches and recipients are interchangeable; used where no liveness is checked.
Symmetric == Permutations(Recipients) \cup Permutations(Workers)
             \cup Permutations(Requests)
=============================================================================
