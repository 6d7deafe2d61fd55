----------------------- MODULE MCImageGenerationJobs -----------------------
(* Small instances of ImageGenerationJobs. *)
EXTENDS ImageGenerationJobs

MCClients == <<"fal", "together", "replicate">>
MCPriority == [fal |-> 1, together |-> 2, replicate |-> 2]

ImgEnv(e, s, o, f) == [enabled |-> e, simulated |-> s, overlap |-> o, failing |-> f]

\* As the worker starts it; with the service, one job after the other, and workers that fail or
\* everything else; two jobs at once with failing providers; no client.
MCImageEnvironments ==
    {ImgEnv({}, TRUE, TRUE, {"worker", "database"}),
     ImgEnv({"fal", "together"}, FALSE, FALSE, {"providers", "worker"}),
     ImgEnv({"replicate", "together"}, FALSE, FALSE, {"providers", "prompt", "storage", "database"}),
     ImgEnv(ToSet(Clients), FALSE, TRUE, {"providers"}),
     ImgEnv({"fal"}, FALSE, FALSE, {}), ImgEnv({}, FALSE, FALSE, {})}
=============================================================================
