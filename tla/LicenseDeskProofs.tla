-------------------------- MODULE LicenseDeskProofs --------------------------
(***************************************************************************)
(* Proofs about LicenseDesk, for any number of keys, requests,             *)
(* administrators, resets and faults: it only runs transactions of         *)
(* LicenseDb, and with what those guarantee a redemption that sends its    *)
(* command is the only holder of its key and keeps its receipt.            *)
(***************************************************************************)
EXTENDS LicenseDesk, LicenseDbProofs, FiniteSetTheorems

-----------------------------------------------------------------------------
(* The inductive invariant *)

(* What a handler carries from its read to its write is fit to be written. *)
HandlerHolds ==
    \A h \in Handlers :
        handler[h].command # "none"
        => /\ handler[h].key \in Keys
           /\ handler[h].command = "extend" => handler[h].end \in ExtensionEnds

Working == {"refresh", "device", "reserve", "send", "commit", "markFailed"}

RedemptionHolds(r) ==
    /\ redeem[r].step \in Working => redeem[r].key \in Keys
    /\ redeem[r].step \in {"idle", "refresh", "device", "reserve"}
       => activations[r].result = "none"
    /\ redeem[r].step \in {"send", "commit"}
       => /\ activations[r].result = "pending"
          /\ activations[r].license \in {redeem[r].key, NoKey}
    /\ redeem[r].code = "success"
       => redeem[r].step = "answered" /\ activations[r].result = "success"

(* The row of a redemption is where the handler of the redemption left it. *)
RedeemHolds == \A r \in Redeems : RedemptionHolds(r)

DeskInv == DeskTypeOK /\ OnePendingPerKey /\ HandlerHolds /\ RedeemHolds

LEMMA DeskInitHolds == DeskInit => DeskInv
<1> SUFFICES ASSUME DeskInit PROVE DeskInv
  OBVIOUS
<1>1. DbTypeOK /\ OnePendingPerKey
  BY DbInitTyped, OnePendingInit DEF DeskInit
<1>2. DeskTypeOK
  BY <1>1, FaultBoundAssumption
     DEF DeskInit, DeskTypeOK, IdleHandler, RedeemStep, Time, NoTime
<1>3. HandlerHolds
  BY DEF DeskInit, HandlerHolds, IdleHandler
<1>4. RedeemHolds
  BY RedeemsAssumption DEF DeskInit, DbInit, RedeemHolds, RedemptionHolds, Working
<1> QED
  BY <1>1, <1>2, <1>3, <1>4 DEF DeskInv

-----------------------------------------------------------------------------
(* Every step is a transaction *)

LEMMA HandlerStepIsTransaction ==
  ASSUME DeskInv, NEW h \in Handlers, HandlerNext(h)
  PROVE  [DbNext]_dbVars
<1>1. CASE (\E k \in Keys : ReadKey(h, k)) \/ WriteMisses(h)
  BY <1>1 DEF ReadKey, WriteMisses
<1>2. CASE BanKey(h)
  <2>1. handler[h].key \in Keys
    BY <1>2 DEF DeskInv, HandlerHolds, BanKey, Serves
  <2> QED
    BY <1>2, <2>1 DEF BanKey, DbNext
<1>3. CASE UnbanKey(h)
  <2>1. handler[h].key \in Keys
    BY <1>3 DEF DeskInv, HandlerHolds, UnbanKey, Serves
  <2> QED
    BY <1>3, <2>1 DEF UnbanKey, DbNext
<1>4. CASE ExtendKey(h)
  <2>1. handler[h].key \in Keys /\ handler[h].end \in ExtensionEnds
    BY <1>4 DEF DeskInv, HandlerHolds, ExtendKey, Serves
  <2> QED
    BY <1>4, <2>1 DEF ExtendKey, DbNext
<1>5. CASE RemoveKey(h)
  <2>1. handler[h].key \in Keys
    BY <1>5 DEF DeskInv, HandlerHolds, RemoveKey, Serves
  <2> QED
    BY <1>5, <2>1 DEF RemoveKey, DbNext
<1> QED
  BY <1>1, <1>2, <1>3, <1>4, <1>5 DEF HandlerNext

LEMMA RedeemStepIsTransaction ==
  ASSUME DeskInv, NEW r \in Redeems, RedeemNext(r)
  PROVE  [DbNext]_dbVars
<1>1. r \in Requests
  BY RedeemsAssumption
<1>2. redeem[r].step \in Working => redeem[r].key \in Keys
  BY DEF DeskInv, RedeemHolds, RedemptionHolds
<1>3. CASE (\E k \in Keys : LookUp(r, k)) \/ DeviceCode(r) \/ SendCommand(r)
  BY <1>3 DEF LookUp, DeviceCode, SendCommand
<1>4. CASE RefreshExpiry(r)
  BY <1>2, <1>4 DEF RefreshExpiry, At, Working, DbNext
<1>5. CASE ReserveRedeem(r)
  BY <1>1, <1>2, <1>5 DEF ReserveRedeem, At, Working, DbNext
<1>6. CASE CommitReserved(r)
  BY <1>1, <1>2, <1>6 DEF CommitReserved, At, Working, DbNext
<1>7. CASE MarkRedeemFailed(r)
  BY <1>1, <1>7 DEF MarkRedeemFailed, DbNext
<1> QED
  BY <1>3, <1>4, <1>5, <1>6, <1>7 DEF RedeemNext

LEMMA StepIsTransaction ==
  ASSUME DeskInv, [Next]_vars
  PROVE  [DbNext]_dbVars
<1>1. CASE \E k \in Keys : Bulk(k)
  BY <1>1 DEF Bulk, DbNext
<1>2. CASE \E r \in Requests \ Redeems : DeviceLogin(r)
  BY <1>2 DEF DeviceLogin, DbNext
<1>3. CASE Sweep \/ Midnight \/ ApiCrash \/ UNCHANGED vars
  BY <1>3 DEF Sweep, Midnight, ApiCrash, vars, DbNext
<1>4. CASE \E r \in Requests : RepairRun(r)
  BY <1>4 DEF RepairRun, DbNext
<1> QED
  BY <1>1, <1>2, <1>3, <1>4, HandlerStepIsTransaction, RedeemStepIsTransaction DEF Next

-----------------------------------------------------------------------------
(* The invariant is kept *)

LEMMA HandlerStepTyped ==
  ASSUME DeskInv, NEW h \in Handlers, HandlerNext(h)
  PROVE  /\ handler' \in [Handlers -> [command : Command \cup {"none"},
                                       key : Keys \cup {NoKey}, end : Time]]
         /\ HandlerHolds'
         /\ resets' \in [Keys -> Nat]
         /\ UNCHANGED <<redeem, faults>>
<1> USE DEF DeskInv, DeskTypeOK, HandlerHolds
<1>1. CASE \E k \in Keys : ReadKey(h, k)
  <2>1. PICK k \in Keys : ReadKey(h, k)
    BY <1>1
  <2>2. ExtensionEnds \subseteq Time
    BY ExtensionEndsTyped DEF Time
  <2>3. ASSUME NEW c \in Command, NEW e \in Time, c = "extend" => e \in ExtensionEnds,
               handler' = [handler EXCEPT ![h] = [command |-> c, key |-> k, end |-> e]]
        PROVE  /\ handler' \in [Handlers -> [command : Command \cup {"none"},
                                             key : Keys \cup {NoKey}, end : Time]]
               /\ HandlerHolds'
    BY <2>3 DEF ExtensionEnds
  <2>4. ASSUME NEW d \in Extensions, ExtendedEnd(licenses[k], d) <= MaxEnd
        PROVE  ExtendedEnd(licenses[k], d) \in ExtensionEnds
    BY <2>4, ExtensionsAssumption, MaxEndAssumption
       DEF ExtendedEnd, ExtensionEnds, DbTypeOK, License, Time, NoTime
  <2>5. UNCHANGED <<redeem, resets, faults>>
    BY <2>1 DEF ReadKey
  <2>6. CASE \E c \in Command \ {"extend"} :
               handler' = [handler EXCEPT ![h] = [command |-> c, key |-> k, end |-> NoTime]]
    BY <2>3, <2>5, <2>6 DEF Time
  <2>7. CASE \E d \in Extensions :
               /\ ExtendedEnd(licenses[k], d) <= MaxEnd
               /\ handler' = [handler EXCEPT ![h] = [command |-> "extend", key |-> k,
                                                    end |-> ExtendedEnd(licenses[k], d)]]
    <3>1. PICK d \in Extensions :
               /\ ExtendedEnd(licenses[k], d) <= MaxEnd
               /\ handler' = [handler EXCEPT ![h] = [command |-> "extend", key |-> k,
                                                    end |-> ExtendedEnd(licenses[k], d)]]
      BY <2>7
    <3>2. ExtendedEnd(licenses[k], d) \in ExtensionEnds /\ "extend" \in Command
      BY <2>4, <3>1 DEF Command
    <3> QED
      BY <2>2, <2>3, <2>5, <3>1, <3>2
  <2> QED
    BY <2>1, <2>6, <2>7 DEF ReadKey
<1>2. ASSUME Done(h)
      PROVE  /\ handler' \in [Handlers -> [command : Command \cup {"none"},
                                           key : Keys \cup {NoKey}, end : Time]]
             /\ HandlerHolds'
  BY <1>2 DEF Done, IdleHandler, Time, NoTime
<1>3. CASE UnbanKey(h)
  <2>1. handler[h].key \in Keys
    BY <1>3 DEF UnbanKey, Serves
  <2> QED
    BY <1>2, <1>3, <2>1 DEF UnbanKey
<1> QED
  BY <1>1, <1>2, <1>3 DEF HandlerNext, WriteMisses, BanKey, ExtendKey, RemoveKey

(* A redemption only moves itself.                                         *)
LEMMA RedeemStepTyped ==
  ASSUME DeskInv, NEW r \in Redeems, RedeemNext(r)
  PROVE  /\ redeem' \in [Redeems -> [step : RedeemStep, key : Keys \cup {NoKey},
                                     code : RedeemCode \cup {"none"}]]
         /\ \A q \in Redeems \ {r} : redeem'[q] = redeem[q]
         /\ faults' \in 0 .. MaxFaults
         /\ UNCHANGED <<handler, resets>>
<1> USE DEF DeskInv, DeskTypeOK
<1>1. faults' \in 0 .. MaxFaults
  BY FaultBoundAssumption
     DEF RedeemNext, LookUp, RefreshExpiry, DeviceCode, ReserveRedeem, SendCommand,
         CommitReserved, MarkRedeemFailed, Works, Fault
<1>2. \A s \in LicenseStatus \cup {"notIssued", "removed"} : Refusal(s) \in RedeemCode
  BY DEF Refusal, RedeemCode, LicenseStatus
<1>3. \A k \in Keys : licenses[k].status \in LicenseStatus \cup {"notIssued", "removed"}
  BY DEF DbTypeOK, License
<1>4. CASE \E k \in Keys : LookUp(r, k)
  BY <1>1, <1>2, <1>3, <1>4 DEF LookUp, AnswerWith, RedeemStep, RedeemCode
<1>5. CASE RefreshExpiry(r) \/ DeviceCode(r) \/ SendCommand(r)
  BY <1>1, <1>5
     DEF RefreshExpiry, DeviceCode, SendCommand, Goto, AnswerWith, FailRedeem, RedeemStep, RedeemCode
<1>6. CASE ReserveRedeem(r)
  <2>1. redeem[r].key \in Keys
    BY <1>6 DEF ReserveRedeem, At, RedeemHolds, RedemptionHolds, Working
  <2> QED
    BY <1>1, <1>2, <1>3, <1>6, <2>1 DEF ReserveRedeem, Goto, AnswerWith, RedeemStep, RedeemCode
<1>7. CASE CommitReserved(r)
  BY <1>1, <1>7 DEF CommitReserved, AnswerWith, FailRedeem, RedeemStep, RedeemCode
<1>8. CASE MarkRedeemFailed(r)
  BY <1>1, <1>8 DEF MarkRedeemFailed, AnswerWith, RedeemStep
<1> QED
  BY <1>4, <1>5, <1>6, <1>7, <1>8 DEF RedeemNext

LEMMA DeskStepTyped ==
  ASSUME DeskInv, [Next]_vars
  PROVE  DeskTypeOK' /\ HandlerHolds'
<1>1. DbTypeOK'
  BY StepIsTransaction, DbStepTyped DEF DeskInv, DeskTypeOK
<1>2. CASE (\E k \in Keys : Bulk(k)) \/ (\E r \in Requests \ Redeems : DeviceLogin(r))
           \/ (\E r \in Requests : RepairRun(r)) \/ Sweep \/ Midnight \/ UNCHANGED vars
  BY <1>1, <1>2
     DEF DeskInv, DeskTypeOK, HandlerHolds, Bulk, DeviceLogin, RepairRun, Sweep, Midnight, vars
<1>3. CASE \E h \in Handlers : HandlerNext(h)
  BY <1>1, <1>3, HandlerStepTyped DEF DeskInv, DeskTypeOK
<1>4. CASE \E r \in Redeems : RedeemNext(r)
  BY <1>1, <1>4, RedeemStepTyped DEF DeskInv, DeskTypeOK, HandlerHolds
<1>5. CASE ApiCrash
  BY <1>1, <1>5, FaultBoundAssumption
     DEF DeskInv, DeskTypeOK, HandlerHolds, ApiCrash, Fault, IdleHandler, RedeemStep, Time, NoTime
<1> QED
  BY <1>2, <1>3, <1>4, <1>5 DEF Next

(* Only the handler of a redemption settles its row: administrators may at *)
(* most take the key from it, by deleting it, and the repair script turns  *)
(* failures into successes.                                                *)
LEMMA RowUntouched ==
  ASSUME DeskInv, [Next]_vars, NEW r \in Redeems, ~RedeemNext(r)
  PROVE  /\ \/ activations'[r].result = activations[r].result
            \/ activations[r].result = "failed" /\ activations'[r].result = "success"
         /\ activations'[r].license \in {activations[r].license, NoKey}
<1> USE RedeemsAssumption DEF DeskInv, DeskTypeOK, DbTypeOK
<1>1. CASE (\E k \in Keys : Bulk(k)) \/ Sweep \/ Midnight \/ ApiCrash \/ UNCHANGED vars
  BY <1>1 DEF Bulk, CreateKey, Sweep, MarkExpired, Midnight, NextDay, ApiCrash, vars, dbVars
<1>2. CASE \E h \in Handlers : HandlerNext(h)
  <2>1. PICK h \in Handlers : HandlerNext(h)
    BY <1>2
  <2>2. CASE RemoveKey(h)
    BY <2>2 DEF RemoveKey, DeleteKey, Activation
  <2> QED
    BY <2>1, <2>2
       DEF HandlerNext, ReadKey, WriteMisses, BanKey, UnbanKey, ExtendKey, WriteStatus,
           WriteExtension, dbVars
<1>3. ASSUME NEW q \in Redeems \ {r}, RedeemNext(q) PROVE activations'[r] = activations[r]
  BY <1>3
     DEF RedeemNext, LookUp, RefreshExpiry, WriteStatus, DeviceCode, ReserveRedeem, Reserve,
         SendCommand, CommitReserved, CommitRedeem, MarkRedeemFailed, FailIfPending, dbVars
<1>4. ASSUME NEW q \in Requests \ Redeems, DeviceLogin(q) PROVE activations'[r] = activations[r]
  BY <1>4 DEF DeviceLogin, Reserve, CommitLogin, FailIfPending, FailAlways
<1>5. CASE \E q \in Requests : RepairRun(q)
  BY <1>5 DEF RepairRun, RepairLogin, Repairable
<1> QED
  BY <1>1, <1>2, <1>3, <1>4, <1>5 DEF Next

(* What the handler of a redemption does to its row and its step.          *)
LEMMA OwnStepHolds ==
  ASSUME DeskInv, NEW r \in Redeems, RedeemNext(r)
  PROVE  RedemptionHolds(r)'
<1> USE RedeemsAssumption DEF DeskInv, DeskTypeOK, DbTypeOK, RedeemHolds, RedemptionHolds, Working
<1>1. redeem[r].step \in RedeemStep /\ redeem[r].key \in Keys \cup {NoKey}
  OBVIOUS
<1>2. CASE \E k \in Keys : LookUp(r, k)
  <2>1. PICK k \in Keys : LookUp(r, k)
    BY <1>2
  <2>2. activations' = activations /\ activations[r].result = "none"
    BY <2>1 DEF LookUp, At, dbVars
  <2>3. Refusal(licenses[k].status) # "success"
    BY DEF Refusal, License, LicenseStatus
  <2>4. redeem'[r].step \in {"refresh", "device", "answered"} /\ redeem'[r].code # "success"
        /\ (redeem'[r].step # "answered" => redeem'[r].key \in Keys)
    BY <2>1, <2>3 DEF LookUp, At, AnswerWith
  <2> QED
    BY <2>2, <2>4
<1>3. CASE RefreshExpiry(r)
  BY <1>3 DEF RefreshExpiry, WriteStatus, At, AnswerWith, dbVars
<1>4. CASE DeviceCode(r)
  BY <1>4 DEF DeviceCode, At, Goto, AnswerWith, dbVars
<1>5. CASE ReserveRedeem(r)
  <2>1. redeem[r].key \in Keys
    BY <1>5 DEF ReserveRedeem, At
  <2>2. Refusal(licenses[redeem[r].key].status) # "success"
    BY <2>1 DEF Refusal, License, LicenseStatus
  <2>3. CASE Reserve(r, redeem[r].key) /\ Goto(r, "send")
    BY <1>5, <2>1, <2>3 DEF ReserveRedeem, At, Reserve, Goto
  <2>4. CASE redeem'[r].step = "answered" /\ redeem'[r].code # "success"
    BY <2>4
  <2> QED
    BY <1>5, <2>2, <2>3, <2>4 DEF ReserveRedeem, AnswerWith
<1>6. CASE SendCommand(r)
  BY <1>6 DEF SendCommand, At, Goto, FailRedeem, dbVars
<1>7. CASE CommitReserved(r)
  BY <1>7 DEF CommitReserved, At, CommitRedeem, AnswerWith, FailRedeem, dbVars
<1>8. CASE MarkRedeemFailed(r)
  BY <1>8 DEF MarkRedeemFailed, At, AnswerWith
<1> QED
  BY <1>2, <1>3, <1>4, <1>5, <1>6, <1>7, <1>8 DEF RedeemNext

LEMMA RedeemHoldsStep ==
  ASSUME DeskInv, [Next]_vars
  PROVE  RedeemHolds'
<1> SUFFICES ASSUME NEW r \in Redeems PROVE RedemptionHolds(r)'
  BY DEF RedeemHolds
<1>1. CASE RedeemNext(r)
  BY <1>1, OwnStepHolds
<1>2. CASE ~RedeemNext(r)
  <2>1. /\ \/ activations'[r].result = activations[r].result
           \/ activations[r].result = "failed" /\ activations'[r].result = "success"
        /\ activations'[r].license \in {activations[r].license, NoKey}
    BY <1>2, RowUntouched
  <2>2. RedemptionHolds(r)
    BY DEF DeskInv, RedeemHolds
  <2>3. redeem'[r] = redeem[r] \/ (redeem'[r] = [redeem[r] EXCEPT !.step = "crashed"]
                                  /\ redeem[r].step \notin {"answered", "crashed"})
    <3>1. CASE \E q \in Redeems : RedeemNext(q)
      BY <1>2, <3>1, RedeemStepTyped
    <3>2. CASE \E h \in Handlers : HandlerNext(h)
      BY <3>2, HandlerStepTyped
    <3>3. CASE ApiCrash
      BY <3>3 DEF ApiCrash
    <3> QED
      BY <3>1, <3>2, <3>3 DEF Next, Bulk, DeviceLogin, RepairRun, Sweep, Midnight, vars
  <2>4. CASE redeem'[r] = redeem[r]
    BY <2>1, <2>2, <2>4 DEF RedemptionHolds
  <2>5. CASE redeem'[r] = [redeem[r] EXCEPT !.step = "crashed"]
             /\ redeem[r].step \notin {"answered", "crashed"}
    <3>1. redeem'[r].step = "crashed" /\ redeem'[r].code = redeem[r].code
      BY <2>5 DEF DeskInv, DeskTypeOK
    <3> QED
      BY <2>2, <2>5, <3>1 DEF RedemptionHolds, Working
  <2> QED
    BY <2>3, <2>4, <2>5
<1> QED
  BY <1>1, <1>2

LEMMA DeskInvStep == DeskInv /\ [Next]_vars => DeskInv'
<1> SUFFICES ASSUME DeskInv, [Next]_vars PROVE DeskInv'
  OBVIOUS
<1>1. OnePendingPerKey'
  BY StepIsTransaction, OnePendingStep DEF DeskInv, DeskTypeOK
<1> QED
  BY <1>1, DeskStepTyped, RedeemHoldsStep DEF DeskInv

LEMMA DeskInvHolds == Spec => []DeskInv
  BY DeskInitHolds, DeskInvStep, PTL DEF Spec

-----------------------------------------------------------------------------
(* Theorems *)

(* Handlers and tables keep their types.                                   *)
THEOREM DeskTypeCorrect == Spec => []DeskTypeOK
<1>1. DeskInv => DeskTypeOK
  BY DEF DeskInv
<1> QED
  BY <1>1, DeskInvHolds, PTL

(* Administrators, redemptions and the sweep run no transaction LicenseDb  *)
(* does not allow, so all that is proved of DbSpec holds of the desk.      *)
THEOREM DeskImplementsLicenseDb == Spec => ImplementsLicenseDb
<1>1. DeskInit => DbInit
  BY DEF DeskInit
<1>2. DeskInv /\ [Next]_vars => [DbNext]_dbVars
  BY StepIsTransaction
<1> QED
  BY <1>1, <1>2, DeskInvHolds, PTL DEF Spec, DbSpec, ImplementsLicenseDb

(* No two requests hold a key between reservation and commit, through any  *)
(* interleaving of the handlers.                                           *)
THEOREM DeskOnePending == Spec => []OnePendingPerKey
<1>1. Spec => DbSpec
  BY DeskImplementsLicenseDb DEF ImplementsLicenseDb
<1> QED
  BY <1>1, OnePending, PTL

(* A success shown to anyone stands on a consumed key, whatever the desk   *)
(* did to the key since.                                                   *)
THEOREM DeskSuccessStands == Spec => []SuccessStandsOnConsumedKey
<1>1. Spec => DbSpec
  BY DeskImplementsLicenseDb DEF ImplementsLicenseDb
<1> QED
  BY <1>1, SuccessStands, PTL

(* The command of a redemption goes out only while no other request holds  *)
(* the key.                                                                *)
THEOREM SenderHolds == Spec => []SenderHoldsTheKey
<1>1. ASSUME DeskInv, NEW r \in Redeems, At(r, "send"), activations[r].license # NoKey
      PROVE  PendingOn(redeem[r].key) = {r}
  <2>1. r \in Requests
    BY RedeemsAssumption
  <2>2. /\ activations[r].result = "pending"
        /\ activations[r].license = redeem[r].key
    BY <1>1 DEF DeskInv, RedeemHolds, RedemptionHolds, At
  <2>3. \A q \in Requests : activations[q].result = "pending"
                           /\ activations[q].license = redeem[r].key => q = r
    BY <1>1, <2>1, <2>2 DEF DeskInv, OnePendingPerKey
  <2> QED
    BY <2>1, <2>2, <2>3 DEF PendingOn
<1>2. DeskInv => SenderHoldsTheKey
  BY <1>1 DEF SenderHoldsTheKey
<1> QED
  BY <1>2, DeskInvHolds, PTL

(* A redemption answered with success has a successful row.                *)
THEOREM RedeemedIsReceipted == Spec => []RedeemedHasReceipt
<1>1. DeskInv => RedeemedHasReceipt
  BY DEF DeskInv, RedeemHolds, RedemptionHolds, RedeemedHasReceipt
<1> QED
  BY <1>1, DeskInvHolds, PTL

(* No step takes the receipt of a redemption back, the error path of a     *)
(* commit whose answer was lost included. Rows of device logins are not    *)
(* quantified over: the failure mark of the worker may take those back.    *)
THEOREM ReceiptIsKept == Spec => ReceiptStays
<1>1. ASSUME DeskInv, [Next]_vars, NEW r \in Redeems, activations[r].result = "success"
      PROVE  activations'[r].result = "success"
  <2>1. CASE ~RedeemNext(r)
    BY <1>1, <2>1, RowUntouched
  <2>2. CASE RedeemNext(r)
    <3>1. redeem[r].step \notin {"idle", "refresh", "device", "reserve", "send", "commit"}
      BY <1>1 DEF DeskInv, RedeemHolds, RedemptionHolds
    <3>2. MarkRedeemFailed(r)
      BY <2>2, <3>1
         DEF RedeemNext, LookUp, RefreshExpiry, DeviceCode, ReserveRedeem, SendCommand,
             CommitReserved, At
    <3> QED
      BY <1>1, <3>2 DEF MarkRedeemFailed, FailIfPending, dbVars
  <2> QED
    BY <2>1, <2>2
<1>2. DeskInv /\ [Next]_vars
      => [\A r \in Redeems : activations[r].result = "success"
                             => activations'[r].result = "success"]_vars
  BY <1>1
<1> QED
  BY <1>2, DeskInvHolds, PTL DEF Spec, ReceiptStays

(* What LicenseDb promises of an active key, of consumption, of receipts   *)
(* and of the ledger, the desk keeps as well.                              *)
THEOREM DeskKeepsTheDb ==
  Spec => /\ []ActiveHasEnd
          /\ ConsumedWithReceipt
          /\ ReceiptTakenFromHolder
          /\ ImplementsKeyLedger
<1>1. Spec => DbSpec
  BY DeskImplementsLicenseDb DEF ImplementsLicenseDb
<1> QED
  BY <1>1, ActiveEnds, ConsumptionIsReceipted, ReceiptsAreTakenByHolders,
     DbImplementsKeyLedger, PTL

-----------------------------------------------------------------------------
(* A key is sold once per reset *)

(* Every key that is on sale has a sale left that a reset has paid for.    *)
SalesPaid ==
    \A k \in Keys : /\ IsFiniteSet(Sold[k])
                    /\ Cardinality(Sold[k]) <= 1 + resets[k]
                    /\ k \in OnSale => Cardinality(Sold[k]) <= resets[k]

LEMMA SalesPaidInit == DeskInit => SalesPaid
<1> SUFFICES ASSUME DeskInit, NEW k \in Keys
             PROVE  Sold[k] = {} /\ resets[k] = 0 /\ k \notin OnSale
  BY FS_EmptySet DEF SalesPaid
<1> QED
  BY DEF DeskInit, DbInit, Sold, OnSale

(* A key goes on sale when it is issued, without a receipt, or by a reset. *)
LEMMA SaleNeedsReset ==
  ASSUME DeskInv, [Next]_vars, NEW k \in Keys
  PROVE  /\ resets[k] \in Nat /\ resets'[k] \in Nat /\ resets[k] <= resets'[k]
         /\ k \in OnSale' /\ k \notin OnSale
            => resets'[k] = resets[k] + 1 \/ licenses[k].status = "notIssued"
<1> USE DEF DeskInv, DeskTypeOK, OnSale
<1>1. resets[k] \in Nat /\ DbTypeOK
  OBVIOUS
<1>2. CASE licenses'[k] = licenses[k] /\ resets' = resets
  BY <1>1, <1>2
<1>3. ASSUME NEW j \in Keys, Bulk(j)
      PROVE  resets' = resets /\ (licenses'[k] = licenses[k] \/ licenses[k].status = "notIssued")
  BY <1>3 DEF Bulk, CreateKey, DbTypeOK
<1>4. ASSUME NEW h \in Handlers, HandlerNext(h)
      PROVE  \/ resets' = resets /\ (licenses'[k] = licenses[k] \/ licenses'[k].status # "unused")
             \/ resets'[k] = resets[k] + 1
             \/ resets'[k] = resets[k] /\ licenses'[k] = licenses[k]
  <2>1. CASE UnbanKey(h)
    BY <2>1 DEF UnbanKey, WriteStatus, DbTypeOK
  <2>2. CASE BanKey(h)
    BY <2>2 DEF BanKey, WriteStatus, DbTypeOK, License
  <2>3. CASE ExtendKey(h)
    BY <2>3 DEF ExtendKey, WriteExtension, DbTypeOK, License
  <2>4. CASE RemoveKey(h)
    BY <2>4 DEF RemoveKey, DeleteKey, DbTypeOK, License
  <2> QED
    BY <1>4, <2>1, <2>2, <2>3, <2>4 DEF HandlerNext, ReadKey, WriteMisses, dbVars
<1>5. ASSUME NEW r \in Redeems, RedeemNext(r)
      PROVE  resets' = resets /\ (licenses'[k] = licenses[k] \/ licenses'[k].status # "unused")
  <2>1. CASE RefreshExpiry(r)
    BY <2>1 DEF RefreshExpiry, WriteStatus, DbTypeOK, License, dbVars
  <2>2. CASE CommitReserved(r)
    <3>1. CASE UNCHANGED dbVars
      BY <2>2, <3>1 DEF CommitReserved, dbVars
    <3>2. CASE CommitRedeem(r, redeem[r].key)
      <4>1. redeem[r].key \in Keys
        BY <2>2 DEF RedeemHolds, RedemptionHolds, CommitReserved, At, Working
      <4>2. Grant(licenses[redeem[r].key], now).status # "unused"
        BY <4>1, GrantLeavesSale DEF DbTypeOK
      <4> QED
        BY <2>2, <3>2, <4>1, <4>2, GrantedTyped DEF CommitReserved, CommitRedeem
    <3> QED
      BY <2>2, <3>1, <3>2 DEF CommitReserved
  <2> QED
    BY <1>5, <2>1, <2>2
       DEF RedeemNext, LookUp, DeviceCode, ReserveRedeem, Reserve, SendCommand, MarkRedeemFailed,
           FailIfPending, dbVars
<1>6. ASSUME NEW r \in Requests, DeviceLogin(r)
      PROVE  resets' = resets /\ (licenses'[k] = licenses[k] \/ licenses'[k].status # "unused")
  <2>1. CASE activations[r].license \in Keys /\ CommitLogin(r, activations[r].license)
    <3>1. Grant(licenses[activations[r].license], now).status # "unused"
      BY <2>1, GrantLeavesSale DEF DbTypeOK
    <3> QED
      BY <1>6, <2>1, <3>1, GrantedTyped DEF DeviceLogin, CommitLogin
  <2> QED
    BY <1>6, <2>1 DEF DeviceLogin, Reserve, FailIfPending, FailAlways
<1>7. ASSUME NEW r \in Requests, RepairRun(r)
      PROVE  resets' = resets /\ (licenses'[k] = licenses[k] \/ licenses'[k].status # "unused")
  <2>1. PICK j \in Keys, t \in 0 .. now : RepairLogin(r, j, t)
    BY <1>7 DEF RepairRun
  <2>2. t \in Nat
    BY DEF DbTypeOK
  <2>3. Grant(licenses[j], t).status # "unused"
    BY <2>2, GrantLeavesSale
  <2> QED
    BY <1>7, <2>1, <2>3 DEF RepairRun, RepairLogin, DbTypeOK
<1>8. CASE Sweep
  BY <1>1, <1>8 DEF Sweep, MarkExpired, DbTypeOK, License
<1>9. CASE Midnight \/ ApiCrash \/ UNCHANGED vars
  BY <1>2, <1>9 DEF Midnight, NextDay, ApiCrash, vars, dbVars
<1> QED
  BY <1>1, <1>2, <1>3, <1>4, <1>5, <1>6, <1>7, <1>8, <1>9 DEF Next

LEMMA SalesPaidStep ==
  DeskInv /\ SuccessStandsOnConsumedKey /\ SalesPaid /\ [Next]_vars => SalesPaid'
<1> SUFFICES ASSUME DeskInv, SuccessStandsOnConsumedKey, SalesPaid, [Next]_vars, NEW k \in Keys
             PROVE  /\ IsFiniteSet(Sold'[k])
                    /\ Cardinality(Sold'[k]) <= 1 + resets'[k]
                    /\ k \in OnSale' => Cardinality(Sold'[k]) <= resets'[k]
  BY DEF SalesPaid
<1>1. /\ IsFiniteSet(Sold[k]) /\ Cardinality(Sold[k]) \in Nat
      /\ Cardinality(Sold[k]) <= 1 + resets[k]
      /\ k \in OnSale => Cardinality(Sold[k]) <= resets[k]
  BY FS_CardinalityType DEF SalesPaid
<1>2. /\ resets[k] \in Nat /\ resets'[k] \in Nat /\ resets[k] <= resets'[k]
      /\ k \in OnSale' /\ k \notin OnSale
         => resets'[k] = resets[k] + 1 \/ licenses[k].status = "notIssued"
  BY SaleNeedsReset
<1>3. licenses[k].status = "notIssued" => Sold[k] = {}
  <2>1. ASSUME NEW r \in Sold[k], licenses[k].status = "notIssued" PROVE FALSE
    BY <2>1, NoKeyAssumption DEF Sold, SuccessStandsOnConsumedKey, LicenseStatus
  <2> QED
    BY <2>1
<1>4. CASE Sold'[k] \subseteq Sold[k]
  <2>1. IsFiniteSet(Sold'[k]) /\ Cardinality(Sold'[k]) <= Cardinality(Sold[k])
        /\ Cardinality(Sold'[k]) \in Nat
    BY <1>1, <1>4, FS_Subset, FS_CardinalityType
  <2>2. licenses[k].status = "notIssued" => Cardinality(Sold[k]) = 0
    BY <1>3, FS_EmptySet
  <2> QED
    BY <1>1, <1>2, <2>1, <2>2
<1>5. ASSUME k \in OnSale, k \notin OnSale', NEW r \in Requests, Sold'[k] = Sold[k] \cup {r}
      PROVE  /\ IsFiniteSet(Sold'[k])
             /\ Cardinality(Sold'[k]) <= 1 + resets'[k]
  <2>1. IsFiniteSet(Sold'[k]) /\ Cardinality(Sold'[k]) <= Cardinality(Sold[k]) + 1
        /\ Cardinality(Sold'[k]) \in Nat
    <3>1. /\ IsFiniteSet(Sold[k] \cup {r})
          /\ \/ Cardinality(Sold[k] \cup {r}) = Cardinality(Sold[k])
             \/ Cardinality(Sold[k] \cup {r}) = Cardinality(Sold[k]) + 1
      BY <1>1, FS_AddElement
    <3> QED
      BY <1>1, <1>5, <3>1
  <2> QED
    BY <1>1, <1>2, <1>5, <2>1
<1> QED
  BY <1>4, <1>5, StepIsTransaction, SaleTakesOffSale DEF DeskInv, DeskTypeOK

(* However many administrators, redemptions, logins and repairs meet on a  *)
(* key, it has one receipt and one more for each reset.                    *)
THEOREM SoldOnce == Spec => []SoldOncePerReset
<1>1. DeskInv /\ SuccessStandsOnConsumedKey /\ SalesPaid /\ [Next]_vars => SalesPaid'
  BY SalesPaidStep
<1>2. SalesPaid => SoldOncePerReset
  BY DEF SalesPaid, SoldOncePerReset
<1> QED
  BY <1>1, <1>2, SalesPaidInit, DeskInvHolds, DeskSuccessStands, PTL DEF Spec

-----------------------------------------------------------------------------
(* A ban holds *)

LEMMA BannedIsLeft ==
  ASSUME DbTypeOK, NEW k \in Keys, licenses[k].status = "banned",
         \/ NextDay \/ MarkExpired
         \/ \E r \in Requests :
               \/ FailIfPending(r)
               \/ \E code \in ErrorCode : FailAlways(r, code)
               \/ \E j \in Keys : Reserve(r, j) \/ CommitLogin(r, j) \/ CommitRedeem(r, j)
               \/ \E j \in Keys, t \in 0 .. now : RepairLogin(r, j, t)
         \/ \E j \in Keys : \E d \in Durations : CreateKey(j, d)
         \/ UNCHANGED dbVars
  PROVE  licenses'[k] = licenses[k]
<1> USE DEF DbTypeOK
<1>1. ASSUME NEW r \in Requests, NEW j \in Keys, CommitLogin(r, j) \/ CommitRedeem(r, j)
      PROVE  licenses'[k] = licenses[k]
  <2>1. \/ licenses' = licenses
        \/ licenses[j].status = "unused" /\ licenses' = Granted(j)
    BY <1>1 DEF CommitLogin, CommitRedeem, RedeemCommits
  <2> QED
    BY <2>1, GrantedTyped
<1>2. ASSUME NEW r \in Requests, NEW j \in Keys, NEW t \in 0 .. now, RepairLogin(r, j, t)
      PROVE  licenses'[k] = licenses[k]
  BY <1>2 DEF RepairLogin, Repairable
<1>3. ASSUME NEW j \in Keys, NEW d \in Durations, CreateKey(j, d)
      PROVE  licenses'[k] = licenses[k]
  BY <1>3 DEF CreateKey
<1>4. CASE MarkExpired
  BY <1>4 DEF MarkExpired, Lapsed
<1> QED
  BY <1>1, <1>2, <1>3, <1>4 DEF NextDay, FailIfPending, FailAlways, Reserve, dbVars

(* Of all who touch keys only an administrator who unbans or extends makes *)
(* a banned one unused or active, whatever began before the ban. The step  *)
(* from banned to expired, which refreshExpiry may take on a stale read,   *)
(* is left open.                                                           *)
THEOREM BansHold == Spec => BanHolds
<1>1. ASSUME DeskInv, Next, NEW k \in Keys, licenses[k].status = "banned",
             licenses'[k].status \in {"unused", "active"}
      PROVE  \E h \in Handlers : /\ handler[h].key = k
                                 /\ handler[h].command \in {"unban", "extend"}
                                 /\ handler'[h] = IdleHandler
  <2> USE <1>1 DEF DeskInv, DeskTypeOK
  <2>1. licenses'[k] # licenses[k]
    OBVIOUS
  <2>2. CASE \E h \in Handlers : HandlerNext(h)
    <3>1. PICK h \in Handlers : HandlerNext(h)
      BY <2>2
    <3>2. CASE UnbanKey(h) \/ ExtendKey(h)
      <4>1. handler[h].key = k
        BY <2>1, <3>2 DEF UnbanKey, ExtendKey, WriteStatus, WriteExtension, DbTypeOK
      <4>2. handler[h].command \in {"unban", "extend"} /\ handler'[h] = IdleHandler
        BY <3>2 DEF UnbanKey, ExtendKey, Serves, Done
      <4> QED
        BY <4>1, <4>2
    <3>3. CASE BanKey(h)
      BY <2>1, <3>3 DEF BanKey, WriteStatus, DbTypeOK, License
    <3>4. CASE RemoveKey(h)
      BY <2>1, <3>4 DEF RemoveKey, DeleteKey, DbTypeOK, License
    <3> QED
      BY <2>1, <3>1, <3>2, <3>3, <3>4 DEF HandlerNext, ReadKey, WriteMisses, dbVars
  <2>3. CASE \E r \in Redeems : RedeemNext(r)
    <3>1. PICK r \in Redeems : RedeemNext(r)
      BY <2>3
    <3>2. CASE RefreshExpiry(r)
      BY <2>1, <3>2 DEF RefreshExpiry, WriteStatus, DbTypeOK, License, dbVars
    <3>3. r \in Requests /\ (redeem[r].step \in Working => redeem[r].key \in Keys)
      BY RedeemsAssumption DEF RedeemHolds, RedemptionHolds
    <3> QED
      BY <2>1, <3>1, <3>2, <3>3, BannedIsLeft
         DEF RedeemNext, LookUp, DeviceCode, ReserveRedeem, SendCommand, CommitReserved,
             MarkRedeemFailed, At, Working
  <2>4. CASE \E r \in Requests \ Redeems : DeviceLogin(r)
    BY <2>1, <2>4, BannedIsLeft DEF DeviceLogin
  <2> QED
    BY <2>1, <2>2, <2>3, <2>4, BannedIsLeft
       DEF Next, Bulk, RepairRun, Sweep, Midnight, ApiCrash
<1>2. DeskInv /\ [Next]_vars
      => [\A k \in Keys :
             licenses[k].status = "banned" /\ licenses'[k].status \in {"unused", "active"}
             => \E h \in Handlers : /\ handler[h].key = k
                                    /\ handler[h].command \in {"unban", "extend"}
                                    /\ handler'[h] = IdleHandler]_vars
  BY <1>1
<1> QED
  BY <1>2, DeskInvHolds, PTL DEF Spec, BanHolds
=============================================================================
