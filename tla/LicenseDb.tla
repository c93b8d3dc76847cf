------------------------------ MODULE LicenseDb ------------------------------
(***************************************************************************)
(* The two Postgres tables the whole system turns on, licenses and         *)
(* activations, and every transaction that the API, the worker and the     *)
(* repair script run on them.                                              *)
(* Each operator below is one transaction (or one single-statement write); *)
(* a transaction that throws is rolled back, so only its committing        *)
(* outcomes are written here and its callers model the rejection.          *)
(*                                                                         *)
(* DbSpec is the database as its most permissive clients could use it: any *)
(* transaction at any moment, in any order, on stale arguments.  The       *)
(* modules that follow the handlers themselves (ActivationPipeline,        *)
(* LicenseDesk) take the same operators and implement DbSpec.            *)
(***************************************************************************)
EXTENDS Integers, FiniteSets

CONSTANTS
    Keys,       \* license keys: random, never issued twice
    NoKey,      \* SQL NULL in activations.license_id
    Requests,   \* request ids: a fresh UUID each
    Durations,  \* the duration_days a batch of keys may be created with
    MaxEnd,     \* bound: the last end an extension may write
    ErrorCode,  \* the error codes session_meta may carry
    NoError,    \* a session_meta without one
    MaxNow      \* bound: the last day of the clock

ASSUME NoKeyAssumption == NoKey \notin Keys
ASSUME DurationsAssumption == Durations \subseteq Nat
ASSUME MaxEndAssumption == MaxEnd \in Nat
ASSUME MaxNowAssumption == MaxNow \in Nat

VARIABLES
    licenses,     \* the licenses table, by key
    activations,  \* the activations table, by request id
    now           \* today: expiry is a matter of days

dbVars == <<licenses, activations, now>>

NoTime == -1
Time == Nat \cup {NoTime}

LicenseStatus == {"unused", "active", "expired", "banned"}

(* A key that has no row is "notIssued" before its creation and "removed"  *)
(* after its deletion.                                                     *)
License == [status : LicenseStatus \cup {"notIssued", "removed"},
            days : Nat, activatedAt : Time, expiredAt : Time]

(* "none" is the request id no row bears yet.                              *)
Activation == [result : {"none", "pending", "success", "failed"},
               license : Keys \cup {NoKey},
               error : ErrorCode \cup {NoError}]

DbTypeOK ==
    /\ licenses \in [Keys -> License]
    /\ activations \in [Requests -> Activation]
    /\ now \in Nat

DbInit ==
    /\ licenses = [k \in Keys |-> [status |-> "notIssued", days |-> 0,
                                   activatedAt |-> NoTime, expiredAt |-> NoTime]]
    /\ activations = [r \in Requests |-> [result |-> "none", license |-> NoKey,
                                          error |-> NoError]]
    /\ now = 0

-----------------------------------------------------------------------------
(* Reading the tables *)

Exists(k) == licenses[k].status \in LicenseStatus

Lapsed(lic, t) == lic.status = "active" /\ lic.expiredAt # NoTime /\ lic.expiredAt <= t

PendingOn(k) == {r \in Requests : activations[r].license = k /\ activations[r].result = "pending"}

(* Mutant: the look for a pending row of the key is dropped.               *)
ReservableTwice(k) == licenses[k].status = "unused"

(* reserveActivation and reserveRedeem refuse every status but "unused"; a *)
(* lapsed "active" key is flipped first, but the throw that follows undoes *)
(* the flip with the transaction.                                          *)
Reservable(k) == licenses[k].status = "unused" /\ PendingOn(k) = {}

-----------------------------------------------------------------------------
(* Reservation and its failure *)

Reserve(r, k) ==
    /\ activations[r].result = "none"
    /\ Reservable(k)
    /\ activations' = [activations EXCEPT ![r] = [result |-> "pending", license |-> k,
                                                  error |-> NoError]]
    /\ UNCHANGED <<licenses, now>>

(* failReservedActivation and markRedeemFailed: updateMany on the pending  *)
(* row; their sessionMeta carries a reason, not an error code.             *)
FailIfPending(r) ==
    /\ activations' = IF activations[r].result = "pending"
                      THEN [activations EXCEPT ![r].result = "failed", ![r].error = NoError]
                      ELSE activations
    /\ UNCHANGED <<licenses, now>>

(* The worker's activation.update: by request id alone, whatever the row   *)
(* holds by then.                                                          *)
FailAlways(r, code) ==
    /\ activations[r].result # "none"
    /\ activations' = [activations EXCEPT ![r].result = "failed", ![r].error = code]
    /\ UNCHANGED <<licenses, now>>

-----------------------------------------------------------------------------
(* Commit *)

(* Mutant: the grant stamps its dates and leaves the key unused.           *)
GrantKeepsStatus(lic, t) == [lic EXCEPT !.activatedAt = t, !.expiredAt = t + lic.days]

(* duration_days 0 is spent at once.                                       *)
Grant(lic, t) == [status |-> IF lic.days = 0 THEN "expired" ELSE "active",
                  days |-> lic.days, activatedAt |-> t, expiredAt |-> t + lic.days]

Granted(k) == [licenses EXCEPT ![k] = Grant(licenses[k], now)]

(* Mutant: a row found no longer pending does not roll the grant back.     *)
LoginCommitsUnchecked(r, k) ==
    \/ licenses[k].status = "unused" /\ activations[r].result # "none"
    \/ licenses[k].status = "active" /\ activations[r].result = "success"

(* commitLicenseActivation succeeds on an unused key whose request is      *)
(* pending, and answers a repeated call of a successful request.           *)
LoginCommits(r, k) ==
    \/ licenses[k].status = "unused" /\ activations[r].result \in {"pending", "success"}
    \/ licenses[k].status = "active" /\ activations[r].result = "success"

(* A repeated call finds the key "unused" when it was reset meanwhile: the *)
(* key is granted again and no row is pending to be turned.                *)
CommitLogin(r, k) ==
    /\ LoginCommits(r, k)
    /\ licenses' = IF licenses[k].status = "unused" THEN Granted(k) ELSE licenses
    /\ activations' = IF activations[r].result = "pending"
                      THEN [activations EXCEPT ![r].result = "success", ![r].license = k]
                      ELSE activations
    /\ UNCHANGED now

(* Mutant: the status of the key is not read again.                        *)
RedeemCommitsAnyStatus(r, k) ==
    Exists(k) /\ activations[r].result = "pending" /\ activations[r].license = k

(* commitReservedRedeem asks for an unused key and a pending row of it.     *)
RedeemCommits(r, k) ==
    /\ licenses[k].status = "unused"
    /\ activations[r].result = "pending"
    /\ activations[r].license = k

CommitRedeem(r, k) ==
    /\ RedeemCommits(r, k)
    /\ licenses' = Granted(k)
    /\ activations' = [activations EXCEPT ![r].result = "success"]
    /\ UNCHANGED now

(* Mutant: the linked license need not be unused.                          *)
RepairableUsed(r, k) == activations[r].result = "failed" /\ activations[r].license = k /\ Exists(k)

(* The repair script asks for a failed row and its unused key, not whether *)
(* another request has reserved the key since.                             *)
Repairable(r, k) ==
    /\ activations[r].result = "failed"
    /\ activations[r].license = k
    /\ licenses[k].status = "unused"

(* Mutant: the script turns the row and does not touch the key.            *)
RepairRowOnly(r, k, t) ==
    /\ Repairable(r, k)
    /\ activations' = [activations EXCEPT ![r].result = "success"]
    /\ UNCHANGED <<licenses, now>>

(* It consumes the key as of the day t the row was created.                *)
RepairLogin(r, k, t) ==
    /\ Repairable(r, k)
    /\ licenses' = [licenses EXCEPT ![k] = Grant(licenses[k], t)]
    /\ activations' = [activations EXCEPT ![r].result = "success"]
    /\ UNCHANGED now

-----------------------------------------------------------------------------
(* Administration and expiry.  ban, unban, extend and refreshExpiry write  *)
(* by row id what they computed from an earlier read.                      *)

CreateKey(k, d) ==
    /\ licenses[k].status = "notIssued"
    /\ licenses' = [licenses EXCEPT ![k].status = "unused", ![k].days = d]
    /\ UNCHANGED <<activations, now>>

WriteStatus(k, s) ==
    /\ Exists(k)
    /\ licenses' = [licenses EXCEPT ![k].status = s]
    /\ UNCHANGED <<activations, now>>

WriteExtension(k, t) ==
    /\ Exists(k)
    /\ licenses' = [licenses EXCEPT ![k].status = "active", ![k].expiredAt = t]
    /\ UNCHANGED <<activations, now>>

(* Mutant: the rows of a deleted key keep pointing at it.                  *)
DeleteKeyDangling(k) ==
    /\ Exists(k)
    /\ licenses' = [licenses EXCEPT ![k].status = "removed"]
    /\ UNCHANGED <<activations, now>>

(* The foreign key is ON DELETE SET NULL.                                  *)
DeleteKey(k) ==
    /\ Exists(k)
    /\ licenses' = [licenses EXCEPT ![k].status = "removed"]
    /\ activations' = [r \in Requests |->
                          IF activations[r].license = k
                          THEN [activations[r] EXCEPT !.license = NoKey]
                          ELSE activations[r]]
    /\ UNCHANGED now

(* The hourly sweep of ExpiryCron.                                         *)
MarkExpired ==
    /\ licenses' = [k \in Keys |-> IF Lapsed(licenses[k], now)
                                   THEN [licenses[k] EXCEPT !.status = "expired"]
                                   ELSE licenses[k]]
    /\ UNCHANGED <<activations, now>>

NextDay ==
    /\ now < MaxNow
    /\ now' = now + 1
    /\ UNCHANGED <<licenses, activations>>

-----------------------------------------------------------------------------
(* The permissive clients *)

(* The end an extension may write: computed on an earlier day from an      *)
(* earlier read, it may be any.                                            *)
ExtensionEnds == 1 .. MaxEnd

DbNext ==
    \/ NextDay
    \/ MarkExpired
    \/ \E r \in Requests :
          \/ FailIfPending(r)
          \/ \E code \in ErrorCode : FailAlways(r, code)
          \/ \E k \in Keys : Reserve(r, k)
          \/ \E k \in Keys : activations[r].license = k /\ CommitLogin(r, k)
          \/ \E k \in Keys : CommitRedeem(r, k)
          \/ \E k \in Keys, t \in 0 .. now : RepairLogin(r, k, t)
    \/ \E k \in Keys :
          \/ \E d \in Durations : CreateKey(k, d)
          \/ \E s \in {"banned", "unused", "expired"} : WriteStatus(k, s)
          \/ \E t \in ExtensionEnds : WriteExtension(k, t)
          \/ DeleteKey(k)

DbSpec == DbInit /\ [][DbNext]_dbVars

-----------------------------------------------------------------------------
(* Properties *)

(* Two requests never hold the same key: reserveActivation and             *)
(* reserveRedeem look for a pending row under the key's row lock.          *)
OnePendingPerKey ==
    \A r, s \in Requests :
        /\ activations[r].result = "pending" /\ activations[s].result = "pending"
        /\ activations[r].license = activations[s].license
        /\ activations[r].license # NoKey
        => r = s

(* A row that reports success stands on a key that was really consumed,    *)
(* whatever administrators, sweeps and failed requests did to it since.    *)
SuccessStandsOnConsumedKey ==
    \A r \in Requests :
        activations[r].result = "success" /\ activations[r].license # NoKey
        => LET lic == licenses[activations[r].license] IN
           /\ lic.status \in LicenseStatus
           /\ lic.activatedAt # NoTime
           /\ lic.expiredAt # NoTime

(* An active key has an end, so that the sweep and the reservations can    *)
(* find it lapsed: a key active without one would never expire.            *)
ActiveHasEnd ==
    \A k \in Keys : licenses[k].status = "active" => licenses[k].expiredAt # NoTime

(* A key is consumed only together with its receipt: the transaction that  *)
(* stamps activatedAt leaves a successful row of that key behind, and a    *)
(* commit that finds its row no longer pending is rolled back whole.       *)
ConsumedWithReceipt ==
    [][\A k \in Keys :
          licenses'[k].activatedAt # licenses[k].activatedAt
          => /\ licenses[k].status = "unused"
             /\ \E r \in Requests : /\ activations'[r].result = "success"
                                    /\ activations'[r].license = k]_dbVars

(* A request becomes successful by consuming its own key, as the one that  *)
(* holds the reservation or, by the repair script, after it had failed.    *)
ReceiptTakenFromHolder ==
    [][\A r \in Requests :
          activations[r].result # "success" /\ activations'[r].result = "success"
          => /\ \/ PendingOn(activations[r].license) = {r}
                \/ activations[r].result = "failed"
             /\ licenses[activations[r].license].status = "unused"
             /\ licenses'[activations[r].license].status \in {"active", "expired"}]_dbVars

(* Who holds a key, who has a receipt for it and which keys are on sale:   *)
(* what the rows say about the ledger of keys.                             *)
Holders == [k \in Keys |-> PendingOn(k)]

Sold == [k \in Keys |-> {r \in Requests : activations[r].license = k
                                          /\ activations[r].result = "success"}]

OnSale == {k \in Keys : licenses[k].status = "unused"}

Ledger == INSTANCE KeyLedger WITH free <- OnSale, holders <- Holders, sold <- Sold

(* Whatever the order of reservations, commits, failures, repairs and      *)
(* administration, the rows behave like a ledger in which a key has one    *)
(* holder at most and every sale takes it off sale.                        *)
ImplementsKeyLedger == Ledger!Spec
=============================================================================
