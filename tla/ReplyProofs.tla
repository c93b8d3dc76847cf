----------------------------- MODULE ReplyProofs -----------------------------
(***************************************************************************)
(* What the collector, the scanner and the two parsers make of a message,  *)
(* for every message: any set of the phrases, however many it contains.    *)
(***************************************************************************)
EXTENDS ReplyClassifier, TLAPS

(* The verdict is the one the code gives the message that arrived last.    *)
VerdictOfMessage ==
    IF message = {} THEN verdict = "waiting"
    ELSE verdict = IF Intermediate(message) THEN "waiting" ELSE ParseReply(message)

LEMMA VerdictHolds == Spec => []VerdictOfMessage
<1>1. Init => VerdictOfMessage
  BY DEF Init, VerdictOfMessage
<1>2. VerdictOfMessage /\ [Next]_vars => VerdictOfMessage'
  <2>1. ASSUME VerdictOfMessage, Arrive PROVE VerdictOfMessage'
    BY <2>1 DEF Arrive, VerdictOfMessage, Intermediate, LooksTerminal, Finds, TerminalRe,
                IntermediateRe, ParseReply, ParseTerminal, Scan, FailedRe, SuccessRe,
                WorkerFailedRe, WorkerViSuccessRe, WorkerSuccessRe, BannedRe, ExpiredRe, InvalidRe
  <2>2. ASSUME VerdictOfMessage, UNCHANGED vars PROVE VerdictOfMessage'
    BY <2>2 DEF vars, VerdictOfMessage, Intermediate, LooksTerminal, Finds, TerminalRe,
                IntermediateRe, ParseReply, ParseTerminal, Scan, FailedRe, SuccessRe,
                WorkerFailedRe, WorkerViSuccessRe, WorkerSuccessRe, BannedRe, ExpiredRe, InvalidRe
  <2> QED
    BY <2>1, <2>2 DEF Next
<1> QED
  BY <1>1, <1>2, PTL DEF Spec

(* parseReply never answers "waiting".                                     *)
LEMMA ParseSettles == ASSUME NEW m PROVE ParseReply(m) # "waiting"
<1>1. Scan(m) \in {"failed", "success", "unknown"}
  BY DEF Scan, Finds
<1>2. ParseTerminal(m) # "waiting"
  BY DEF ParseTerminal
<1> QED
  BY <1>1, <1>2 DEF ParseReply

(* A skipped message asks to wait, and names no outcome but three that the *)
(* terminal pattern does not know.                                         *)
THEOREM SkippedAreSilent == Spec => []SkippedNamesNoOutcome
<1>1. ASSUME NEW m, Intermediate(m)
      PROVE  /\ m \cap Placeholders # {}
             /\ m \cap (Rejections \cup Acceptances)
                   \subseteq {"check mark", "successful", "login failed"}
  BY <1>1 DEF Intermediate, LooksTerminal, Finds, IntermediateRe, TerminalRe, Placeholders,
              Rejections, Acceptances
<1>2. VerdictOfMessage => SkippedNamesNoOutcome
  BY <1>1, ParseSettles DEF VerdictOfMessage, SkippedNamesNoOutcome
<1> QED
  BY <1>2, VerdictHolds, PTL

(* The worker accepts no message the collector had not taken for final.    *)
THEOREM AcceptedWasTerminal == Spec => []AcceptedIsTerminal
<1>1. ASSUME NEW m, Scan(m) = "success" PROVE LooksTerminal(m)
  BY <1>1 DEF Scan, Finds, SuccessRe, LooksTerminal, TerminalRe
<1>2. ASSUME NEW m, ParseReply(m) = "ok" PROVE LooksTerminal(m)
  <2>1. Scan(m) \in {"failed", "success", "unknown"}
    BY DEF Scan, Finds
  <2> QED
    BY <1>1, <1>2, <2>1 DEF ParseReply
<1>3. VerdictOfMessage => AcceptedIsTerminal
  BY <1>2 DEF VerdictOfMessage, AcceptedIsTerminal
<1> QED
  BY <1>3, VerdictHolds, PTL

(* parseReply, by cases, without the order in which patterns are tried.    *)
LEMMA ParsedOk ==
    ASSUME NEW m, m # {}
    PROVE  ParseReply(m) = "ok" <=>
              /\ "that bai" \notin m
              /\ \/ Finds(SuccessRe, m)
                 \/ LooksTerminal(m) /\ Finds(WorkerViSuccessRe \cup WorkerSuccessRe, m)
<1>1. CASE "that bai" \in m
  <2>1. Finds(FailedRe, m)
    BY <1>1 DEF Finds, FailedRe
  <2>2. Scan(m) = "failed"
    BY <2>1 DEF Scan
  <2> QED
    BY <1>1, <2>2 DEF ParseReply
<1>2. CASE "that bai" \notin m /\ Finds(SuccessRe, m)
  <2>1. ~Finds(FailedRe, m)
    BY <1>2 DEF Finds, FailedRe
  <2>2. Scan(m) = "success"
    BY <1>2, <2>1 DEF Scan
  <2> QED
    BY <1>2, <2>2 DEF ParseReply
<1>3. CASE "that bai" \notin m /\ ~Finds(SuccessRe, m)
  <2>1. ~Finds(FailedRe, m) /\ ~Finds(WorkerFailedRe, m)
    BY <1>3 DEF Finds, FailedRe, SuccessRe, WorkerFailedRe
  <2>2. Scan(m) = "unknown"
    BY <1>3, <2>1 DEF Scan
  <2>3. ParseTerminal(m) = "ok" <=> Finds(WorkerViSuccessRe \cup WorkerSuccessRe, m)
    BY <2>1 DEF ParseTerminal
  <2> QED
    BY <1>3, <2>2, <2>3 DEF ParseReply
<1> QED
  BY <1>1, <1>2, <1>3

(* parseBotReply accepts what holds one of its words.                      *)
LEMMA BotParsedOk ==
    ASSUME NEW m
    PROVE  ParseBotReply(m) = "success" <=> m # {} /\ Finds(BotSuccessRe, m)
BY DEF ParseBotReply

(* Of the messages that only reject, the worker accepts exactly those with *)
(* "khong thanh cong" or "invalid" and no "that bai", and the API's client *)
(* exactly those with "invalid".                                           *)
THEOREM RejectionsTaken == Spec => []RejectionsTakenForAcceptances
<1>1. ASSUME NEW m, m # {}, m \subseteq Rejections
      PROVE  /\ ParseReply(m) = "ok" <=> /\ m \cap {"khong thanh cong", "invalid"} # {}
                                        /\ "that bai" \notin m
             /\ ParseBotReply(m) = "success" <=> "invalid" \in m
             /\ Intermediate(m) => m \cap {"khong thanh cong", "invalid"} = {}
  <2>1. Finds(SuccessRe, m) <=> "khong thanh cong" \in m
    BY <1>1 DEF Finds, SuccessRe, Rejections
  <2>2. Finds(WorkerViSuccessRe \cup WorkerSuccessRe, m)
           <=> m \cap {"khong thanh cong", "invalid"} # {}
    BY <1>1 DEF Finds, WorkerViSuccessRe, WorkerSuccessRe, Rejections
  <2>3. m \cap {"khong thanh cong", "invalid"} # {} => LooksTerminal(m)
    BY DEF LooksTerminal, Finds, TerminalRe
  <2>4. Finds(BotSuccessRe, m) <=> "invalid" \in m
    BY <1>1 DEF Finds, BotSuccessRe, Rejections
  <2>5. Intermediate(m) => ~LooksTerminal(m)
    BY DEF Intermediate
  <2> QED
    BY <1>1, <2>1, <2>2, <2>3, <2>4, <2>5, ParsedOk, BotParsedOk
<1>2. VerdictOfMessage => RejectionsTakenForAcceptances
  BY <1>1 DEF VerdictOfMessage, RejectionsTakenForAcceptances
<1> QED
  BY <1>2, VerdictHolds, PTL

(* Where the parsers of the two flows take one message differently: words  *)
(* parseBotReply lacks, or "that bai", or a message the worker does not    *)
(* take for final.                                                         *)
THEOREM WhereFlowsPart == Spec => []FlowsPart
<1>1. ASSUME NEW m, m # {}, ParseReply(m) = "ok", ParseBotReply(m) # "success"
      PROVE  m \cap {"thanh cong", "khong thanh cong", "da kich hoat", "hoan tat"} # {}
  <2>1. ~Finds(BotSuccessRe, m)
    BY <1>1, BotParsedOk
  <2>2. Finds(SuccessRe, m) \/ Finds(WorkerViSuccessRe \cup WorkerSuccessRe, m)
    BY <1>1, ParsedOk
  <2> QED
    BY <2>1, <2>2 DEF Finds, BotSuccessRe, SuccessRe, WorkerViSuccessRe, WorkerSuccessRe
<1>2. ASSUME NEW m, m # {}, ParseReply(m) # "ok" \/ Intermediate(m),
             ParseBotReply(m) = "success"
      PROVE  "that bai" \in m \/ ~LooksTerminal(m)
  <2>1. Finds(WorkerViSuccessRe \cup WorkerSuccessRe, m)
    BY <1>2, BotParsedOk DEF Finds, BotSuccessRe, WorkerSuccessRe
  <2>2. Intermediate(m) => ~LooksTerminal(m)
    BY DEF Intermediate
  <2> QED
    BY <1>2, <2>1, <2>2, ParsedOk
<1>3. VerdictOfMessage => FlowsPart
  BY <1>1, <1>2 DEF VerdictOfMessage, FlowsPart
<1> QED
  BY <1>3, VerdictHolds, PTL
=============================================================================
