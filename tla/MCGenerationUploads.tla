------------------------- MODULE MCGenerationUploads -------------------------
(* Small instances of GenerationUploads: a video costs two tokens, a card one. *)
EXTENDS GenerationUploads, FiniteSets, TLC

MCPrice == [k \in Kinds |-> IF k = "sora" THEN 2 ELSE 1]

UploadEnv(f, o, n, rs) == [faults |-> f, overlap |-> o, restarts |-> n, sent |-> rs]

\* Three requests one after another, nothing fails; two requests and everything at once.
MCUploadEnvironments ==
    {UploadEnv(FALSE, FALSE, n, Requests) : n \in 0..1}
        \cup {UploadEnv(TRUE, TRUE, 1, rs) : rs \in {rs \in SUBSET Requests : Cardinality(rs) = 2}}

RequestSymmetry == Permutations(Requests)
=============================================================================
