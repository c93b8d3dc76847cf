--------------------------- MODULE MC_StatusStream ----------------------------
(* StatusStream for TLC: the error codes of one request.                   *)
EXTENDS StatusStream

Codes == {"ERR_BOT_INVALID", "ERR_ACTIVATION_EXPIRED", "ERR_ACTIVATION_TIMEOUT",
          "ERR_BOT_UNRECOGNIZED", "ERR_DUPLICATE_LOGIN", "ERR_COMMIT", "ERR_INTERNAL"}
=============================================================================
