----------------------------- MODULE LicenseDesk -----------------------------
(***************************************************************************)
(* Everyone who touches a license key outside of the login pipeline: the   *)
(* administrator's handlers, which read a row and write it by id later,    *)
(* the hourly sweep, the repair script, and the redeem flow with its own   *)
(* check, reservation, send and commit.  Device logins of the same keys are *)
(* seen as the transactions the pipeline issues (ActivationPipeline shows  *)
(* that it issues no others).                                              *)
(***************************************************************************)
EXTENDS LicenseDb

CONSTANTS
    Handlers,   \* requests of administrators being served
    Redeems,    \* the requests that are redemptions; the others are logins
    Extensions, \* the days an administrator may add
    MaxResets,  \* bound: how often a key may be put back to unused
    Faults,     \* the kinds of fault the environment may produce
    MaxFaults   \* bound: how many of them

ASSUME RedeemsAssumption == Redeems \subseteq Requests
ASSUME ExtensionsAssumption == Extensions \subseteq Nat \ {0}
ASSUME MaxResetsAssumption == MaxResets \in Nat
ASSUME FaultBoundAssumption == MaxFaults \in Nat

VARIABLES
    handler,  \* where the request of an administrator stands
    redeem,   \* where a redemption stands
    resets,   \* how often a key was put back to unused, by key
    faults    \* how many faults have occurred

vars == <<dbVars, handler, redeem, resets, faults>>

Command == {"ban", "unban", "extend", "remove"}

IdleHandler == [command |-> "none", key |-> NoKey, end |-> NoTime]

(* What redeem answers: the codes of RedeemResult, or a 500 when it throws.*)
RedeemCode == {"success", "invalid_key", "key_banned", "key_expired", "key_in_use",
               "device_code_unavailable", "telegram_failed", "internal_error", "threw"}

RedeemStep == {"idle", "refresh", "device", "reserve", "send", "commit", "markFailed",
               "answered", "crashed"}

DeskTypeOK ==
    /\ DbTypeOK
    /\ handler \in [Handlers -> [command : Command \cup {"none"}, key : Keys \cup {NoKey},
                                 end : Time]]
    /\ redeem \in [Redeems -> [step : RedeemStep, key : Keys \cup {NoKey},
                               code : RedeemCode \cup {"none"}]]
    /\ resets \in [Keys -> Nat]
    /\ faults \in 0 .. MaxFaults

DeskInit ==
    /\ DbInit
    /\ handler = [h \in Handlers |-> IdleHandler]
    /\ redeem = [r \in Redeems |-> [step |-> "idle", key |-> NoKey, code |-> "none"]]
    /\ resets = [k \in Keys |-> 0]
    /\ faults = 0

Fault(kind) == kind \in Faults /\ faults < MaxFaults /\ faults' = faults + 1
Works == UNCHANGED faults

-----------------------------------------------------------------------------
(* LicenseService: assertExists, then an update or a delete by row id *)

(* extend adds to the end of a window still running, else to today.        *)
ExtendedEnd(lic, days) ==
    (IF lic.expiredAt # NoTime /\ lic.expiredAt > now THEN lic.expiredAt ELSE now) + days

Bulk(k) ==
    /\ \E d \in Durations : CreateKey(k, d)
    /\ UNCHANGED <<handler, redeem, resets, faults>>

(* A key that is not there is answered with 404.                           *)
ReadKey(h, k) ==
    /\ handler[h] = IdleHandler
    /\ Exists(k)
    /\ \/ \E c \in Command \ {"extend"} :
             /\ c = "unban" => resets[k] < MaxResets
             /\ handler' = [handler EXCEPT ![h] = [command |-> c, key |-> k, end |-> NoTime]]
       \/ \E d \in Extensions :
             /\ ExtendedEnd(licenses[k], d) <= MaxEnd
             /\ handler' = [handler EXCEPT ![h] = [command |-> "extend", key |-> k,
                                                end |-> ExtendedEnd(licenses[k], d)]]
    /\ UNCHANGED <<dbVars, redeem, resets, faults>>

Serves(h, c) == handler[h].command = c
Done(h) == handler' = [handler EXCEPT ![h] = IdleHandler]

(* The row was deleted meanwhile: the update throws.                       *)
WriteMisses(h) ==
    /\ handler[h] # IdleHandler
    /\ ~Exists(handler[h].key)
    /\ Done(h)
    /\ UNCHANGED <<dbVars, redeem, resets, faults>>

BanKey(h) ==
    /\ Serves(h, "ban")
    /\ WriteStatus(handler[h].key, "banned")
    /\ Done(h)
    /\ UNCHANGED <<redeem, resets, faults>>

UnbanKey(h) ==
    /\ Serves(h, "unban")
    /\ WriteStatus(handler[h].key, "unused")
    /\ resets' = [resets EXCEPT ![handler[h].key] = @ + 1]
    /\ Done(h)
    /\ UNCHANGED <<redeem, faults>>

ExtendKey(h) ==
    /\ Serves(h, "extend")
    /\ WriteExtension(handler[h].key, handler[h].end)
    /\ Done(h)
    /\ UNCHANGED <<redeem, resets, faults>>

RemoveKey(h) ==
    /\ Serves(h, "remove")
    /\ DeleteKey(handler[h].key)
    /\ Done(h)
    /\ UNCHANGED <<redeem, resets, faults>>

Sweep == MarkExpired /\ UNCHANGED <<handler, redeem, resets, faults>>

Midnight == NextDay /\ UNCHANGED <<handler, redeem, resets, faults>>

-----------------------------------------------------------------------------
(* KeyRedeemService.redeem, one step per await *)

At(r, step) == redeem[r].step = step
Goto(r, step) == redeem' = [redeem EXCEPT ![r].step = step]
AnswerWith(r, code) == redeem' = [redeem EXCEPT ![r].step = "answered", ![r].code = code]

(* The refusal of a key by its status, for checkKey and reserveRedeem.     *)
Refusal(status) ==
    LET code == [banned |-> "key_banned", expired |-> "key_expired", active |-> "key_in_use"] IN
    IF status \in DOMAIN code THEN code[status] ELSE "invalid_key"

(* checkKey looks the key up.  A window that has passed is written by the  *)
(* next step, from what was read here.                                     *)
LookUp(r, k) ==
    /\ At(r, "idle")
    /\ \/ /\ Works
          /\ LET lic == licenses[k]
                 step == IF Lapsed(lic, now) THEN "refresh"
                         ELSE IF lic.status = "unused" THEN "device" ELSE "answered" IN
             redeem' = [redeem EXCEPT ![r] = [step |-> step, key |-> k,
                           code |-> IF step = "answered" THEN Refusal(lic.status) ELSE "none"]]
       \/ Fault("db") /\ AnswerWith(r, "threw")
    /\ UNCHANGED <<dbVars, handler, resets>>

(* refreshExpiry's update by row id; a row that is gone makes it throw.    *)
RefreshExpiry(r) ==
    /\ At(r, "refresh")
    /\ \/ Works /\ WriteStatus(redeem[r].key, "expired") /\ AnswerWith(r, "key_expired")
       \/ Works /\ ~Exists(redeem[r].key) /\ UNCHANGED dbVars /\ AnswerWith(r, "threw")
       \/ Fault("db") /\ UNCHANGED dbVars /\ AnswerWith(r, "threw")
    /\ UNCHANGED <<handler, resets>>

DeviceCode(r) ==
    /\ At(r, "device")
    /\ Goto(r, "reserve") \/ AnswerWith(r, "device_code_unavailable")
    /\ UNCHANGED <<dbVars, handler, resets, faults>>

(* reserveRedeem; an unused key somebody else holds is "in use".           *)
ReserveRedeem(r) ==
    LET k == redeem[r].key IN
    /\ At(r, "reserve")
    /\ \/ Works /\ Reserve(r, k) /\ Goto(r, "send")
       \/ /\ Works /\ ~Reservable(k) /\ UNCHANGED dbVars
          /\ AnswerWith(r, IF licenses[k].status = "unused" THEN "key_in_use"
                           ELSE IF Lapsed(licenses[k], now) THEN "key_expired"
                           ELSE Refusal(licenses[k].status))
       \/ Fault("db") /\ UNCHANGED dbVars /\ AnswerWith(r, "internal_error")
    /\ UNCHANGED <<handler, resets>>

FailRedeem(r, code) == redeem' = [redeem EXCEPT ![r].step = "markFailed", ![r].code = code]

(* sendLoginCommand never throws: the bot accepted, or a code tells why    *)
(* not.                                                                    *)
SendCommand(r) ==
    /\ At(r, "send")
    /\ Goto(r, "commit") \/ FailRedeem(r, "telegram_failed")
    /\ UNCHANGED <<dbVars, handler, resets, faults>>

(* Mutant: the answer is given before the commit is known to have worked.  *)
CommitUnawaited(r) ==
    LET k == redeem[r].key IN
    /\ At(r, "commit")
    /\ \/ Works /\ CommitRedeem(r, k)
       \/ Works /\ ~RedeemCommits(r, k) /\ UNCHANGED dbVars
       \/ Fault("db") /\ UNCHANGED dbVars
    /\ AnswerWith(r, "success")
    /\ UNCHANGED <<handler, resets>>

(* Mutant: the two updates of the commit are no transaction.               *)
CommitInTwoWrites(r) ==
    LET k == redeem[r].key IN
    /\ At(r, "commit")
    /\ \/ Works /\ CommitRedeem(r, k) /\ AnswerWith(r, "success")
       \/ Works /\ ~RedeemCommits(r, k) /\ UNCHANGED dbVars /\ FailRedeem(r, "internal_error")
       \/ /\ Fault("db") /\ RedeemCommits(r, k) /\ FailRedeem(r, "internal_error")
          /\ licenses' = Granted(k) /\ UNCHANGED <<activations, now>>
    /\ UNCHANGED <<handler, resets>>

(* commitReservedRedeem: done, refused or not reached, or done with its    *)
(* answer lost.                                                            *)
CommitReserved(r) ==
    LET k == redeem[r].key IN
    /\ At(r, "commit")
    /\ \/ Works /\ CommitRedeem(r, k) /\ AnswerWith(r, "success")
       \/ Works /\ ~RedeemCommits(r, k) /\ UNCHANGED dbVars /\ FailRedeem(r, "internal_error")
       \/ Fault("db") /\ UNCHANGED dbVars /\ FailRedeem(r, "internal_error")
       \/ Fault("commitLost") /\ CommitRedeem(r, k) /\ FailRedeem(r, "internal_error")
    /\ UNCHANGED <<handler, resets>>

(* Mutant: the row is marked by request id, as the worker does.            *)
MarkAnyFailed(r) ==
    /\ At(r, "markFailed")
    /\ Works /\ FailAlways(r, NoError)
    /\ AnswerWith(r, redeem[r].code)
    /\ UNCHANGED <<handler, resets>>

(* markRedeemFailed; its own failure is caught and logged.                 *)
MarkRedeemFailed(r) ==
    /\ At(r, "markFailed")
    /\ \/ Works /\ FailIfPending(r)
       \/ Fault("db") /\ UNCHANGED dbVars
    /\ AnswerWith(r, redeem[r].code)
    /\ UNCHANGED <<handler, resets>>

(* The API process dies with every handler it runs.                        *)
ApiCrash ==
    /\ Fault("apiCrash")
    /\ handler' = [h \in Handlers |-> IdleHandler]
    /\ redeem' = [r \in Redeems |-> IF redeem[r].step \in {"idle", "answered", "crashed"}
                                    THEN redeem[r] ELSE [redeem[r] EXCEPT !.step = "crashed"]]
    /\ UNCHANGED <<dbVars, resets>>

-----------------------------------------------------------------------------
(* scripts/repair-bot-success-activations.ts --write *)

(* A failed request is repaired when the log has an acceptance for its     *)
(* device code; codes are matched masked, so any failed request may have   *)
(* one.  The candidates were read earlier, but each is read again.         *)
RepairRun(r) ==
    /\ \E k \in Keys, t \in 0 .. now : RepairLogin(r, k, t)
    /\ UNCHANGED <<handler, redeem, resets, faults>>

-----------------------------------------------------------------------------
(* Device logins, as the transactions ActivationPipeline issues *)

DeviceLogin(r) ==
    /\ \/ \E k \in Keys : Reserve(r, k)
       \/ activations[r].license \in Keys /\ CommitLogin(r, activations[r].license)
       \/ FailIfPending(r)
       \/ \E code \in ErrorCode : FailAlways(r, code)
    /\ UNCHANGED <<handler, redeem, resets, faults>>

-----------------------------------------------------------------------------
(* The system *)

HandlerNext(h) ==
    \/ \E k \in Keys : ReadKey(h, k)
    \/ WriteMisses(h) \/ BanKey(h) \/ UnbanKey(h) \/ ExtendKey(h) \/ RemoveKey(h)

RedeemNext(r) ==
    \/ \E k \in Keys : LookUp(r, k)
    \/ RefreshExpiry(r) \/ DeviceCode(r) \/ ReserveRedeem(r) \/ SendCommand(r)
    \/ CommitReserved(r) \/ MarkRedeemFailed(r)

Next ==
    \/ \E k \in Keys : Bulk(k)
    \/ \E h \in Handlers : HandlerNext(h)
    \/ \E r \in Redeems : RedeemNext(r)
    \/ \E r \in Requests \ Redeems : DeviceLogin(r)
    \/ \E r \in Requests : RepairRun(r)
    \/ Sweep \/ Midnight \/ ApiCrash

Spec == DeskInit /\ [][Next]_vars

-----------------------------------------------------------------------------
(* Properties *)

(* A key is sold once per reset by an administrator, however redemptions,  *)
(* device logins, sweeps and the two halves of administration interleave.  *)
SoldOncePerReset ==
    \A k \in Keys : Cardinality(Sold[k]) <= 1 + resets[k]

(* A redemption answered with success has its receipt, for ever.           *)
RedeemedHasReceipt ==
    \A r \in Redeems : redeem[r].code = "success" => activations[r].result = "success"

(* The receipt of a redemption is not taken back, not even by the error    *)
(* path of a commit whose answer was lost. Of redemptions only: the        *)
(* receipt of a device login is taken back by the failure mark of the      *)
(* worker (worker.ts:392) when the answer of its commit is lost.           *)
ReceiptStays ==
    [][\A r \in Redeems : activations[r].result = "success"
                          => activations'[r].result = "success"]_vars

(* A banned key becomes unused or active only through an administrator who *)
(* unbans or extends it: no commit that began before the ban and no sweep  *)
(* undoes it. From "banned" to "expired" a key may also be taken by        *)
(* refreshExpiry, which writes what an earlier read called for             *)
(* (key.service.ts:208); that is not forbidden here.                       *)
BanHolds ==
    [][\A k \in Keys :
          licenses[k].status = "banned" /\ licenses'[k].status \in {"unused", "active"}
          => \E h \in Handlers : /\ handler[h].key = k
                                 /\ handler[h].command \in {"unban", "extend"}
                                 /\ handler'[h] = IdleHandler]_vars

(* The bot is given the command of a redemption only while no other        *)
(* request, redemption or login, holds the same key: the key is reserved   *)
(* after the wait for the device code, whoever reserved it meanwhile. An   *)
(* administrator may still reset the key under the sender, and the repair  *)
(* script may grant it to a failed login.                                  *)
SenderHoldsTheKey ==
    \A r \in Redeems :
        At(r, "send") /\ activations[r].license # NoKey
        => PendingOn(redeem[r].key) = {r}

(* Every step of the desk is a transaction of LicenseDb or leaves the      *)
(* tables alone.                                                           *)
ImplementsLicenseDb == DbSpec
=============================================================================
