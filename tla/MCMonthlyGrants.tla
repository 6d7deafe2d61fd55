--------------------------- MODULE MCMonthlyGrants ---------------------------
(* Small instances of MonthlyGrants: a gift is one token, a paid allocation two. *)
EXTENDS MonthlyGrants

MCAllocation == [t \in Tiers |-> IF t = "Gift" THEN 1 ELSE 2]

Env(o, f, g, us) == [overlap |-> o, faults |-> f, upgrades |-> g, users |-> us]

\* One user, everything at once; two users and faults, or two users and upgrades, whose
\* grants do not overlap.
MCEnvironments ==
    {Env(TRUE, TRUE, TRUE, {u}) : u \in {CHOOSE u \in Users : TRUE}}
        \cup {Env(FALSE, TRUE, FALSE, Users), Env(FALSE, FALSE, TRUE, Users)}
=============================================================================
