------------------------ MODULE MC_ActivationPipeline ------------------------
(* ActivationPipeline on small sets for TLC; two slots of one worker are   *)
(* interchangeable, and so are the requests.                               *)
EXTENDS ActivationPipeline, TLC

Codes == {"ERR_BOT_INVALID", "ERR_ACTIVATION_EXPIRED", "ERR_ACTIVATION_TIMEOUT",
          "ERR_BOT_UNRECOGNIZED", "ERR_DUPLICATE_LOGIN", "ERR_COMMIT", "ERR_INTERNAL"}

Symmetric == Permutations(Requests) \cup Permutations(Workers)
=============================================================================
