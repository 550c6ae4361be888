--------------------------- MODULE DeliveryPromise ---------------------------
(***************************************************************************)
(* What campaign delivery promises about each recipient, without batches,  *)
(* locks or retries: mails leave one at a time, another one only after all *)
(* earlier ones were lost track of; an outcome is recorded once and agrees *)
(* with what was sent; a stop is final.                                    *)
(***************************************************************************)
EXTENDS Naturals

CONSTANT Recipients

VARIABLES
    outcome,    \* recorded outcome of each recipient, "pending" until there is one
    mails,      \* mails the provider accepted
    lost,       \* accepted mails nobody has a record of
    stopped     \* the campaign was cancelled

vars == <<outcome, mails, lost, stopped>>

\* The last mail of r is neither recorded nor lost.
Unsettled(r) == mails[r] # lost[r]

Init ==
    /\ outcome = [r \in Recipients |-> "pending"]
    /\ mails = [r \in Recipients |-> 0]
    /\ lost = [r \in Recipients |-> 0]
    /\ stopped = FALSE

\* A mail leaves; its answer may get lost at once.
Send(r) ==
    /\ ~stopped
    /\ outcome[r] = "pending"
    /\ ~Unsettled(r)
    /\ mails' = [mails EXCEPT ![r] = @ + 1]
    /\ lost' \in {lost, [lost EXCEPT ![r] = @ + 1]}
    /\ UNCHANGED <<outcome, stopped>>

\* The record of mails on the way is lost with the batch that sent them.
Forget ==
    /\ lost' \in [Recipients -> Nat]
    /\ \A r \in Recipients :
         lost'[r] # lost[r] => lost'[r] = mails[r] /\ outcome[r] = "pending"
    /\ UNCHANGED <<outcome, mails, stopped>>

Agrees(r, o) == IF o = "sent" THEN mails[r] = lost[r] + 1 ELSE ~Unsettled(r)

\* A batch records outcomes of several recipients at once.
Conclude ==
    /\ outcome' \in [Recipients -> {"pending", "sent", "failed", "skipped"}]
    /\ \A r \in Recipients :
         outcome'[r] # outcome[r] => outcome[r] = "pending" /\ Agrees(r, outcome'[r])
    /\ UNCHANGED <<mails, lost, stopped>>

\* A cancel skips everyone who is left.
Stop ==
    /\ \A r \in Recipients : outcome[r] = "pending" => ~Unsettled(r)
    /\ outcome' = [r \in Recipients |-> IF outcome[r] = "pending" THEN "skipped"
                                        ELSE outcome[r]]
    /\ stopped' = TRUE
    /\ UNCHANGED <<mails, lost>>

Next == (\E r \in Recipients : Send(r)) \/ Forget \/ Conclude \/ Stop

Spec == Init /\ [][Next]_vars
=============================================================================
