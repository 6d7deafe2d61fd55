-------------------------- MODULE MCCachedBalances --------------------------
(* Small instances of CachedBalances: three keys whose TTLs are in the order of *)
(* the code's (60, 300 and 600 seconds).                                        *)
EXTENDS CachedBalances

MCTtl == [tokens |-> 1, profile |-> 5, channel |-> 10]

CacheEnv(a, used, w, f) == [alone |-> a, used |-> used, warms |-> w, fails |-> f]

\* One call at a time, warmed or not, and with failures; deductions and additions that overlap.
MCCacheEnvironments ==
    {CacheEnv(TRUE, {"tokens", "profile"}, TRUE, FALSE), CacheEnv(TRUE, {"tokens"}, TRUE, TRUE),
     CacheEnv(FALSE, {"tokens"}, FALSE, FALSE)}

OneCallAtATime == {CacheEnv(TRUE, {"tokens", "profile"}, FALSE, FALSE)}
=============================================================================
