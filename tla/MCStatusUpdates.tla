--------------------------- MODULE MCStatusUpdates ---------------------------
(* Small instances of StatusUpdates: the in-process followers follow one user. *)
EXTENDS StatusUpdates, FiniteSets

MCFollows == [f \in Followers |-> CHOOSE u \in StatusUsers : TRUE]

Some(S, n) == CHOOSE s \in SUBSET S : Cardinality(s) = n

StatusEnv(r, callers, browsers) ==
    [redisFails |-> r, callers |-> callers, browsers |-> browsers]

\* Followers alone, with and without failures of Redis; a follower and a browser.
MCStatusEnvironments ==
    {StatusEnv(FALSE, Followers, {}), StatusEnv(TRUE, Some(Followers, 2), {}),
     StatusEnv(FALSE, Some(Followers, 1), Some(Sockets, 1))}
=============================================================================
