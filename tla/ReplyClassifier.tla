--------------------------- MODULE ReplyClassifier ---------------------------
(***************************************************************************)
(* What the reply of the Telegram bot is taken to mean.  The collector     *)
(* (session-pool) asks whether a message is a placeholder or final, the    *)
(* worker scans and parses the final one, and the API's own Telegram       *)
(* client has a parser of its own.                                         *)
(*                                                                         *)
(* A message is the set of phrases it contains, after the fold to lower    *)
(* case without diacritics.  A regular expression is the set of phrases in *)
(* which it finds a match: "thanh cong" is found in "khong thanh cong" and *)
(* "valid", unanchored, in "invalid", while \bvalid\b is not.              *)
(***************************************************************************)
EXTENDS Naturals, FiniteSets

CONSTANT MaxPhrases   \* bound: phrases in one message

(* By what they say in plain reading: rejections, acceptances, notices     *)
(* that the bot is still working, and everything else.                     *)
Rejections == {"that bai", "khong thanh cong", "khong hop le", "het han", "bi khoa",
               "invalid", "expired", "banned", "wrong", "login failed"}
Acceptances == {"thanh cong", "da kich hoat", "hoan tat", "check mark", "activated",
                "logged in", "success", "successful", "valid", "welcome"}
Placeholders == {"dang xu ly", "please wait"}
Noise == {"another word"}
Phrases == Rejections \cup Acceptances \cup Placeholders \cup Noise

Finds(re, message) == message \cap re # {}

-----------------------------------------------------------------------------
(* packages/shared: the scanner and the two tests of the collector *)

FailedRe == {"that bai"}
SuccessRe == {"thanh cong", "khong thanh cong"}
IntermediateRe == {"dang xu ly", "please wait"}
TerminalRe == {"that bai", "thanh cong", "khong thanh cong", "da kich hoat", "banned",
               "bi khoa", "expired", "het han", "invalid", "wrong", "khong hop le",
               "hoan tat", "activated", "logged in", "success", "valid", "welcome"}

(* scanLoginResult: an empty message has failed, failure beats success.    *)
Scan(message) ==
    CASE message = {} \/ Finds(FailedRe, message)                    -> "failed"
      [] ~Finds(FailedRe, message) /\ Finds(SuccessRe, message)      -> "success"
      [] OTHER                                                       -> "unknown"

LooksTerminal(message) == Finds(TerminalRe, message)

(* isIntermediateReply *)
Intermediate(message) == ~LooksTerminal(message) /\ Finds(IntermediateRe, message)

-----------------------------------------------------------------------------
(* apps/telegram-worker: parseReply *)

WorkerFailedRe == {"that bai", "khong thanh cong"}
WorkerViSuccessRe == {"thanh cong", "khong thanh cong", "da kich hoat"}
WorkerSuccessRe == {"check mark", "activated", "logged in", "success", "successful", "valid",
                    "invalid", "welcome", "hoan tat"}
BannedRe == {"banned", "bi khoa"}
ExpiredRe == {"expired", "het han"}
InvalidRe == {"invalid", "wrong", "khong hop le"}

(* What the patterns make of a message the scanner did not know, in the    *)
(* order in which they are tried.                                          *)
ParseTerminal(message) ==
    IF Finds(WorkerFailedRe, message) THEN "failed"
    ELSE IF Finds(WorkerViSuccessRe \cup WorkerSuccessRe, message) THEN "ok"
    ELSE IF Finds(BannedRe, message) THEN "banned"
    ELSE IF Finds(ExpiredRe, message) THEN "expired"
    ELSE IF Finds(InvalidRe, message) THEN "invalid"
    ELSE "unrecognized"

ParseReply(message) ==
    CASE Scan(message) = "failed"  -> "failed"
      [] Scan(message) = "success" -> "ok"
      [] Scan(message) = "unknown" ->
           IF LooksTerminal(message) THEN ParseTerminal(message) ELSE "unrecognized"

-----------------------------------------------------------------------------
(* apps/api key-redeem: parseBotReply; its message is not folded, but none *)
(* of its words carries diacritics                                         *)

BotSuccessRe == {"check mark", "activated", "logged in", "success", "successful", "valid",
                 "invalid", "welcome"}

ParseBotReply(message) ==
    IF message # {} /\ Finds(BotSuccessRe, message) THEN "success" ELSE "bot_rejected"

-----------------------------------------------------------------------------
(* The collector and the parser at work on one login: messages arrive,     *)
(* placeholders are skipped, the first other one is parsed.                *)

VARIABLES
    message,  \* the message that arrived last
    verdict   \* "waiting", or what the job made of the message

vars == <<message, verdict>>

Messages == {m \in SUBSET Phrases : Cardinality(m) <= MaxPhrases}

Init == message = {} /\ verdict = "waiting"

(* collectReply's handler: a final message resolves, a placeholder re-arms *)
(* the timer, anything else resolves as well.                              *)
Arrive ==
    /\ verdict = "waiting"
    /\ \E m \in Messages \ {{}} :
          /\ message' = m
          /\ verdict' = IF Intermediate(m) THEN "waiting" ELSE ParseReply(m)

Next == Arrive

Spec == Init /\ [][Next]_vars

-----------------------------------------------------------------------------
(* Properties *)

(* isIntermediateReply: what is skipped asks to wait, and of the phrases   *)
(* that name an outcome only three can be lost with it: those the terminal *)
(* pattern does not know.                                                  *)
SkippedNamesNoOutcome ==
    verdict = "waiting" /\ message # {} =>
        /\ message \cap Placeholders # {}
        /\ message \cap (Rejections \cup Acceptances)
               \subseteq {"check mark", "successful", "login failed"}

(* scan-login-result.ts:43, "kept in sync with parseReply()": the worker   *)
(* accepts no message the collector would not have taken for final.        *)
AcceptedIsTerminal == verdict = "ok" => LooksTerminal(message)

(* scanLoginResult, parseReply, parseBotReply: which plain rejections are  *)
(* taken for acceptances, by either flow, and no other.                    *)
RejectionsTakenForAcceptances ==
    message # {} /\ message \subseteq Rejections =>
        /\ verdict = "ok" <=> /\ message \cap {"khong thanh cong", "invalid"} # {}
                             /\ "that bai" \notin message
        /\ ParseBotReply(message) = "success" <=> "invalid" \in message

(* The parsers of the two flows were written apart and share no pattern:   *)
(* the only messages they take differently are those that say so in words  *)
(* parseBotReply does not know, those the worker scans as failed first,    *)
(* and those the worker does not take for final.                           *)
FlowsPart ==
    message # {} =>
        /\ verdict = "ok" /\ ParseBotReply(message) # "success"
           => message \cap {"thanh cong", "khong thanh cong", "da kich hoat", "hoan tat"} # {}
        /\ verdict # "ok" /\ ParseBotReply(message) = "success"
           => \/ "that bai" \in message
              \/ ~LooksTerminal(message)

-----------------------------------------------------------------------------
(* What comments promise, and the code breaks *)

(* worker.ts:133, "Failure first so it wins when a reply mentions both     *)
(* outcomes", and the reasons of lines 139 to 142: the scanner has already *)
(* found "thanh cong" in "khong thanh cong", and "valid" is found in       *)
(* "invalid" before the pattern for invalid codes is tried.                *)
RejectionIsNotAccepted ==
    verdict = "ok" => ~(message # {} /\ message \subseteq Rejections)
=============================================================================
