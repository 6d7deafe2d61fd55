----------------------------- MODULE MCAccounts -----------------------------
(* What changes a user's tier and tokens over time: monthly grants and             *)
(* subscriptions.  A behaviour runs one part and leaves the other at its start.    *)
EXTENDS MCMonthlyGrants, Subscriptions, TLC

MCPaidTiers == {"Professional", "Business"}
CallSymmetry == Permutations(Calls)

VARIABLE part       \* fixed for a behaviour: the part that runs

AccountsInit ==
    /\ part \in {"grants", "subscriptions"}
    /\ Init /\ (part # "grants" => env = CHOOSE e \in Environments : TRUE)
    /\ SubInit /\ (part # "subscriptions" => ~overlap)

AccountsNext ==
    \/ part = "grants" /\ Next /\ UNCHANGED <<part, subVars>>
    \/ part = "subscriptions" /\ SubNext /\ UNCHANGED <<part, vars>>

AccountsSpec == AccountsInit /\ [][AccountsNext]_<<part, vars, subVars>>

\* Every variable of the part that runs has its type; the others do not change.
Types ==
    CASE part = "grants" -> TypeOK
      [] part = "subscriptions" -> SubTypeOK
=============================================================================
