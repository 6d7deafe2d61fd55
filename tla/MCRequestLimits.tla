--------------------------- MODULE MCRequestLimits ---------------------------
(* Small instances of RequestLimits. *)
EXTENDS RequestLimits

LimitEnv(p, a) == [prompt |-> p, alone |-> a]

\* Requests reach Redis at once or not, one at a time or overlapping.
MCLimitEnvironments == {LimitEnv(TRUE, TRUE), LimitEnv(TRUE, FALSE), LimitEnv(FALSE, TRUE)}
=============================================================================
