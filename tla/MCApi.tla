------------------------------- MODULE MCApi -------------------------------
(* Parts of the API process beside payments: the token service under concurrent    *)
(* calls, uploads, status messages, lists, cached balances and request limits.     *)
(* A behaviour runs one part and leaves the others at their start.                 *)
EXTENDS MCTokenService, MCGenerationUploads, MCStatusUpdates, MCGenerationLists,
        MCCachedBalances, MCRequestLimits

VARIABLE part       \* fixed for a behaviour: the part that runs

Pinned(e, S) == e = CHOOSE x \in S : TRUE

ApiInit ==
    /\ part \in {"tokens", "uploads", "status", "lists", "caches", "limits"}
    /\ Init
    /\ UploadInit /\ (part # "uploads" => Pinned(env, UploadEnvironments))
    /\ StatusInit /\ (part # "status" => Pinned(statusEnv, StatusEnvironments))
    /\ ListInit /\ (part # "lists" => Pinned(listEnv, ListEnvironments))
    /\ CacheInit /\ (part # "caches" => Pinned(cacheEnv, CacheEnvironments))
    /\ LimitInit /\ (part # "limits" => Pinned(limitEnv, LimitEnvironments))

ApiNext ==
    \/ /\ part = "tokens" /\ Next
       /\ UNCHANGED <<part, uploadVars, statusVars, listVars, cacheVars, limitVars>>
    \/ /\ part = "uploads" /\ UploadNext
       /\ UNCHANGED <<part, vars, statusVars, listVars, cacheVars, limitVars>>
    \/ /\ part = "status" /\ StatusNext
       /\ UNCHANGED <<part, vars, uploadVars, listVars, cacheVars, limitVars>>
    \/ /\ part = "lists" /\ ListNext
       /\ UNCHANGED <<part, vars, uploadVars, statusVars, cacheVars, limitVars>>
    \/ /\ part = "caches" /\ CacheNext
       /\ UNCHANGED <<part, vars, uploadVars, statusVars, listVars, limitVars>>
    \/ /\ part = "limits" /\ LimitNext
       /\ UNCHANGED <<part, vars, uploadVars, statusVars, listVars, cacheVars>>

ApiSpec ==
    ApiInit /\ [][ApiNext]_<<part, vars, uploadVars, statusVars, listVars, cacheVars, limitVars>>

\* Every variable of the part that runs has its type; the others do not change.
Types ==
    CASE part = "tokens" -> TypeOK
      [] part = "uploads" -> UploadTypeOK
      [] part = "status" -> StatusTypeOK
      [] part = "lists" -> ListTypeOK
      [] part = "caches" -> CacheTypeOK
      [] part = "limits" -> LimitTypeOK
=============================================================================
