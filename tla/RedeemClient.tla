---------------------------- MODULE RedeemClient ----------------------------
(***************************************************************************)
(* GramJsTelegramService, the Telegram client of the redeem flow, put in   *)
(* the place of LicenseDesk's step "send": one connection made on first    *)
(* use and shared by the calls that wait for it, a chain of sends, and a   *)
(* handler that takes the next message of the bot for the answer to its    *)
(* own command.  MAX_ATTEMPTS is 1: a send that fails is not repeated.     *)
(***************************************************************************)
EXTENDS LicenseDesk

CONSTANTS
    LateReplies,  \* may the bot speak of a command nobody waits for any more?
    NoReply       \* no message of the bot was heard

ASSUME LateRepliesAssumption == LateReplies \in BOOLEAN

VARIABLES
    link,   \* the connection to Telegram
    call,   \* where sendLoginCommand stands, by redemption
    ahead,  \* the calls that were in the chain when this one was appended
    owed,   \* the redemptions whose command the bot has not answered
    stopping, \* has the module been destroyed?
    heard   \* history: the message that settled a call

clientVars == <<link, call, ahead, owed, stopping, heard>>
allVars == <<vars, clientVars>>

CallState == {"none", "connecting", "refused", "pacing", "queued", "listening", "deaf"}
InChain(state) == state \in {"queued", "listening", "deaf"}

(* What the bot may say: an acceptance, a rejection, one worded as         *)
(* "invalid ...", or "processing"; and what parseBotReply makes of it: the *)
(* pattern for success matches the "valid" of "invalid".  "rejected"       *)
(* stands for all that pattern does not know, acceptances among it.        *)
Says == {"accepted", "rejected", "invalid", "working"}

ParsedAsSuccess(says) == says \in {"accepted", "invalid"}

(* A reply: the command it is about and what the bot says of it.           *)
Reply == [about : Redeems, says : Says]

ClientTypeOK ==
    /\ link \in {"none", "connecting", "ready"}
    /\ call \in [Redeems -> CallState]
    /\ ahead \in [Redeems -> SUBSET Redeems]
    /\ owed \in SUBSET Redeems
    /\ stopping \in BOOLEAN
    /\ heard \in [Redeems -> Reply \cup {NoReply}]

ClientInit ==
    /\ DeskInit
    /\ link = "none"
    /\ call = [r \in Redeems |-> "none"]
    /\ ahead = [r \in Redeems |-> {}]
    /\ owed = {}
    /\ stopping = FALSE
    /\ heard = [r \in Redeems |-> NoReply]

(* The commands the bot may still answer when the calls of S are over.     *)
StillOwed(S) == IF LateReplies THEN owed ELSE owed \ S

(* The call is over without a reply: telegram_unavailable.                 *)
CallFails(r) == call' = [call EXCEPT ![r] = "none"] /\ FailRedeem(r, "telegram_failed")

-----------------------------------------------------------------------------
(* ensureConnected *)

Connecting == {r \in Redeems : call[r] = "connecting"}

(* A call finds the client ready, or waits for the connect of whoever came *)
(* first.                                                                  *)
StartCall(r) ==
    /\ At(r, "send")
    /\ call[r] = "none"
    /\ \/ link = "ready" /\ call' = [call EXCEPT ![r] = "pacing"] /\ UNCHANGED link
       \/ link # "ready" /\ call' = [call EXCEPT ![r] = "connecting"] /\ link' = "connecting"
    /\ UNCHANGED <<vars, ahead, owed, stopping, heard>>

Connected ==
    /\ link = "connecting"
    /\ link' = "ready"
    /\ call' = [r \in Redeems |-> IF r \in Connecting THEN "pacing" ELSE call[r]]
    /\ UNCHANGED <<vars, ahead, owed, stopping, heard>>

(* No session, not authorised, no bot: every call that waits is refused,   *)
(* and the next one connects anew.                                         *)
ConnectFails ==
    /\ link = "connecting"
    /\ link' = "none"
    /\ call' = [r \in Redeems |-> IF r \in Connecting THEN "refused" ELSE call[r]]
    /\ UNCHANGED <<vars, ahead, owed, stopping, heard>>

-----------------------------------------------------------------------------
(* respectRateLimit and serialisedSend *)

(* The call has slept as it must and joins the chain of sends.             *)
Enqueue(r) ==
    /\ call[r] = "pacing"
    /\ call' = [call EXCEPT ![r] = "queued"]
    /\ ahead' = [ahead EXCEPT ![r] = {q \in Redeems : InChain(call[q])}]
    /\ UNCHANGED <<vars, link, owed, stopping, heard>>

Turn(r) == call[r] = "queued" /\ \A q \in ahead[r] : ~InChain(call[q])

(* Mutant: the send does not wait for those before it.                     *)
ListenAtOnce(r) ==
    /\ call[r] = "queued" /\ link = "ready"
    /\ call' = [call EXCEPT ![r] = "listening"]
    /\ owed' = owed \cup {r}
    /\ UNCHANGED <<vars, link, ahead, stopping, heard>>

(* collectReply: the handler, then the command.                            *)
Listen(r) ==
    /\ Turn(r) /\ link = "ready"
    /\ call' = [call EXCEPT ![r] = "listening"]
    /\ owed' = owed \cup {r}
    /\ UNCHANGED <<vars, link, ahead, stopping, heard>>

(* The connect failed, or the client was shut down while the call waited   *)
(* for its turn.                                                           *)
Unconnected(r) ==
    /\ call[r] = "refused" \/ (Turn(r) /\ link # "ready")
    /\ CallFails(r)
    /\ UNCHANGED <<dbVars, handler, resets, faults, link, ahead, owed, stopping, heard>>

-----------------------------------------------------------------------------
(* collectReply: what ends it *)

(* Mutant: a failed send keeps its place in the chain.                     *)
GiveUpKeepsTurn(r) ==
    /\ call[r] \in {"listening", "deaf"} /\ At(r, "send")
    /\ FailRedeem(r, "telegram_failed")
    /\ owed' = StillOwed({r})
    /\ UNCHANGED <<dbVars, handler, resets, faults, link, call, ahead, stopping, heard>>

(* The timer, re-armed by placeholders until the deadline, or the error of *)
(* sendMessage.                                                            *)
GiveUp(r) ==
    /\ call[r] \in {"listening", "deaf"}
    /\ CallFails(r)
    /\ owed' = StillOwed({r})
    /\ UNCHANGED <<dbVars, handler, resets, faults, link, ahead, stopping, heard>>

Listening == {r \in Redeems : call[r] = "listening"}

(* Mutant: the parsed reply is the answer, the commit is left out.         *)
SettledUncommitted(r, says) ==
    [redeem[r] EXCEPT !.step = "answered",
                      !.code = IF ParsedAsSuccess(says) THEN "success" ELSE "telegram_failed"]

(* The branch of redeem on what parseBotReply returned.                    *)
Settled(r, says) ==
    IF ParsedAsSuccess(says) THEN [redeem[r] EXCEPT !.step = "commit"]
    ELSE [redeem[r] EXCEPT !.step = "markFailed", !.code = "telegram_failed"]

(* The bot says something about the command of q.  Every handler that is   *)
(* registered takes it for its own; without one it is lost.  "Processing"  *)
(* is taken for a reply at the deadline; before it, it is skipped, which   *)
(* is no step here.  The bot may go on about a command already answered.   *)
BotAnswers(q, says) ==
    /\ q \in owed
    /\ \/ owed' = StillOwed(Listening) \ {q}
       \/ LateReplies /\ UNCHANGED owed
    /\ call' = [r \in Redeems |-> IF r \in Listening THEN "none" ELSE call[r]]
    /\ heard' = [r \in Redeems |-> IF r \in Listening THEN [about |-> q, says |-> says]
                                  ELSE heard[r]]
    /\ redeem' = [r \in Redeems |-> IF r \in Listening THEN Settled(r, says) ELSE redeem[r]]
    /\ UNCHANGED <<dbVars, handler, resets, faults, link, ahead, stopping>>

-----------------------------------------------------------------------------
(* The process *)

(* onModuleDestroy: the client is dropped, the handlers hear no more and   *)
(* only their timers end the calls.  During a connect it makes the connect *)
(* fail, which ConnectFails covers.                                        *)
Shutdown ==
    /\ ~stopping /\ link = "ready"
    /\ stopping' = TRUE
    /\ link' = "none"
    /\ call' = [r \in Redeems |-> IF r \in Listening THEN "deaf" ELSE call[r]]
    /\ owed' = StillOwed(Redeems)
    /\ UNCHANGED <<vars, ahead, heard>>

(* The API process dies, and its client with it.                           *)
ClientCrash ==
    /\ ApiCrash
    /\ link' = "none"
    /\ call' = [r \in Redeems |-> "none"]
    /\ ahead' = [r \in Redeems |-> {}]
    /\ owed' = StillOwed(Redeems)
    /\ stopping' = FALSE
    /\ UNCHANGED heard

-----------------------------------------------------------------------------
(* The system *)

(* The other steps of a redemption.                                        *)
AroundSend(r) ==
    /\ \/ RefreshExpiry(r) \/ DeviceCode(r) \/ ReserveRedeem(r) \/ CommitReserved(r)
       \/ MarkRedeemFailed(r)
    /\ UNCHANGED clientVars

Request(r) == (\E k \in Keys : LookUp(r, k)) /\ UNCHANGED clientVars

(* Administrators, device logins, the sweep, the calendar, the script.     *)
Elsewhere ==
    /\ \/ \E k \in Keys : Bulk(k)
       \/ \E h \in Handlers : HandlerNext(h)
       \/ \E r \in Requests \ Redeems : DeviceLogin(r)
       \/ \E r \in Requests : RepairRun(r)
       \/ Sweep \/ Midnight
    /\ UNCHANGED clientVars

SendNext(r) == StartCall(r) \/ Enqueue(r) \/ Listen(r) \/ Unconnected(r) \/ GiveUp(r)

Connect == Connected \/ ConnectFails

ClientNext ==
    \/ \E r \in Redeems : Request(r) \/ AroundSend(r) \/ SendNext(r)
    \/ \E r \in Redeems, says \in Says : BotAnswers(r, says)
    \/ Connect \/ Shutdown \/ ClientCrash \/ Elsewhere

(* The event loop runs every handler on, the timers of collectReply fire   *)
(* and a connect ends one way or the other; the bot may stay silent.       *)
Fairness ==
    /\ \A r \in Redeems : WF_allVars(AroundSend(r)) /\ WF_allVars(SendNext(r))
    /\ WF_allVars(Connect)

ClientSpec == ClientInit /\ [][ClientNext]_allVars /\ Fairness

-----------------------------------------------------------------------------
(* Properties *)

(* gramjs-telegram.service.ts:8, "Serialises sends through a queue (one    *)
(* in-flight at a time) so replies can never be matched to the wrong job": *)
(* the message that settles a call is about its own command.  This needs a *)
(* bot that says nothing more of a command whose call is over: no answer   *)
(* after the time-out, none after the first and none after a "processing"  *)
(* that was heard at the deadline (LateReplies = FALSE).                   *)
ReplyMatchesJob ==
    \A r \in Redeems : heard[r] # NoReply => heard[r].about = r

(* The replies to the command of r that are parsed as an acceptance.       *)
OwnSuccess(r) == {m \in Reply : m.about = r /\ ParsedAsSuccess(m.says)}

(* A customer is told "redeemed" only on a reply to the command of that    *)
(* very customer which parses as accepted (a rejection as "invalid ..."    *)
(* does), whatever other redemptions, connects and shutdowns do, and with  *)
(* a bot as above.                                                         *)
RedeemedOnOwnReply ==
    \A r \in Redeems : redeem[r].code = "success" => heard[r] \in OwnSuccess(r)

(* No failed connect, silent bot, failed send or shutdown leaves a         *)
(* redemption, or one behind it in the chain, without an answer.           *)
RedemptionsEnd ==
    \A r \in Redeems : redeem[r].step # "idle" ~> redeem[r].step \in {"answered", "crashed"}

(* Seen from the desk, the client is a send that succeeds or fails.        *)
ImplementsDesk == Spec
=============================================================================
