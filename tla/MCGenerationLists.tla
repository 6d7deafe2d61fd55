-------------------------- MODULE MCGenerationLists --------------------------
(* Small instances of GenerationLists. *)
EXTENDS GenerationLists

\* Rows change while a page is read, or not; the tokens that login issues, and
\* tokens with the claim that the handlers read.
MCListEnvironments == [moving : BOOLEAN, claim : {"userId", "id"}]

\* Only the tokens that login issues, and nothing changes while a page is read.
LoginTokens == {[moving |-> FALSE, claim |-> "userId"]}

MCFilters == {[type |-> NoFilter, status |-> NoFilter], [type |-> "chat", status |-> NoFilter],
              [type |-> NoFilter, status |-> "completed"]}
=============================================================================
