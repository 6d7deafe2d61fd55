----------------------------- MODULE MCPayments -----------------------------
(* The two payment services.  They share no variable, so their interleavings show *)
(* nothing: a behaviour runs one part and leaves the other at its start.          *)
EXTENDS MCPaymentWebhooks, BotPayments

TierTokens == [Professional |-> 1, Business |-> 2]

BotPayEnv(n, o, f) == [purchases |-> n, overlap |-> o, failing |-> f]
OneCheckout == {CHOOSE p \in Checkouts : TRUE}

\* Everything goes well; one notification at a time, transactions fail; everything at once
\* for one purchase, and calls to the provider fail too.
MCBotPayEnvironments ==
    {BotPayEnv(Checkouts, FALSE, {}), BotPayEnv(Checkouts, FALSE, {"commit", "mark"}),
     BotPayEnv(OneCheckout, TRUE, {"create", "find", "commit", "answer", "mark", "cancel"})}

VARIABLE part       \* fixed for a behaviour: the part that runs

Some(S) == CHOOSE e \in S : TRUE

PaymentsInit ==
    /\ part \in {"api", "bot"}
    /\ Init /\ (part # "api" => env = Some(Environments))
    /\ BotPayInit /\ (part # "bot" => botEnv = Some(BotPayEnvironments))

PaymentsNext ==
    \/ part = "api" /\ Next /\ UNCHANGED <<part, botPayVars>>
    \/ part = "bot" /\ BotPayNext /\ UNCHANGED <<part, vars>>

PaymentsSpec ==
    /\ PaymentsInit /\ [][PaymentsNext]_<<part, vars, botPayVars>>
    /\ Fairness /\ BotPayFairness

\* Every variable of the part that runs has its type; the others do not change.
Types ==
    CASE part = "api" -> TypeOK
      [] part = "bot" -> BotPayTypeOK
=============================================================================
