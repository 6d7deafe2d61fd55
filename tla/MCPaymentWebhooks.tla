-------------------------- MODULE MCPaymentWebhooks --------------------------
(* Small instances of PaymentWebhooks. *)
EXTENDS PaymentWebhooks

Env(o, f, r, n, plans) ==
    [overlap |-> o, faults |-> f, refunds |-> r, pool |-> n, plans |-> plans]

\* Calm; calm with a payment that buys no tier; a pool that outer transactions can
\* exhaust; everything at once.
MCEnvironments ==
    {Env(FALSE, FALSE, FALSE, 3, Payments), Env(FALSE, FALSE, FALSE, 3, {}),
     Env(TRUE, FALSE, TRUE, 2, Payments), Env(TRUE, TRUE, TRUE, 3, Payments)}

OnlyOverlap == {Env(TRUE, FALSE, FALSE, 3, Payments)}
=============================================================================
