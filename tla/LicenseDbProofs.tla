--------------------------- MODULE LicenseDbProofs ---------------------------
(***************************************************************************)
(* What LicenseDb keeps for every set of keys and requests, every duration *)
(* and every order in which clients issue its transactions.  Each of the   *)
(* three invariants is inductive given the types.                          *)
(***************************************************************************)
EXTENDS LicenseDb, TLAPS

(* The initial tables are typed and every transaction keeps them typed.    *)
LEMMA DbInitTyped == DbInit => DbTypeOK
  BY NoKeyAssumption DEF DbInit, DbTypeOK, License, Activation, LicenseStatus, Time, NoTime

(* What a grant writes in the row of its key.                              *)
LEMMA GrantTyped ==
  ASSUME NEW lic \in License, NEW t \in Nat
  PROVE  /\ Grant(lic, t) \in License
         /\ Grant(lic, t).status \in {"active", "expired"}
         /\ Grant(lic, t).activatedAt = t
         /\ Grant(lic, t).expiredAt \in Nat
<1>1. lic.days \in Nat /\ t + lic.days \in Nat
  BY DEF License
<1> QED
  BY <1>1 DEF Grant, License, LicenseStatus, Time

LEMMA GrantedTyped ==
  ASSUME DbTypeOK, NEW k \in Keys
  PROVE  /\ Granted(k) \in [Keys -> License]
         /\ Granted(k)[k] = Grant(licenses[k], now)
         /\ \A j \in Keys \ {k} : Granted(k)[j] = licenses[j]
  BY GrantTyped DEF DbTypeOK, Granted

(* An extension ends on a day of the calendar.                             *)
LEMMA ExtensionEndsTyped == ExtensionEnds \subseteq Nat
  BY MaxEndAssumption DEF ExtensionEnds

LEMMA DbStepTyped == DbTypeOK /\ [DbNext]_dbVars => DbTypeOK'
<1> SUFFICES ASSUME DbTypeOK, [DbNext]_dbVars PROVE DbTypeOK'
  OBVIOUS
<1> USE DEF DbTypeOK
<1>1. CASE NextDay
  BY <1>1 DEF NextDay
<1>2. CASE MarkExpired
  BY <1>2 DEF MarkExpired, License, LicenseStatus
<1>3. ASSUME NEW r \in Requests, FailIfPending(r) PROVE DbTypeOK'
  BY <1>3 DEF FailIfPending, Activation
<1>4. ASSUME NEW r \in Requests, NEW code \in ErrorCode, FailAlways(r, code) PROVE DbTypeOK'
  BY <1>4 DEF FailAlways, Activation
<1>5. ASSUME NEW r \in Requests, NEW k \in Keys, Reserve(r, k) PROVE DbTypeOK'
  BY <1>5 DEF Reserve, Activation
<1>6. ASSUME NEW r \in Requests, NEW k \in Keys, CommitLogin(r, k) PROVE DbTypeOK'
  <2>1. licenses' \in [Keys -> License]
    BY <1>6, GrantedTyped DEF CommitLogin
  <2>2. activations' \in [Requests -> Activation]
    BY <1>6 DEF CommitLogin, Activation
  <2> QED
    BY <1>6, <2>1, <2>2 DEF CommitLogin
<1>7. ASSUME NEW r \in Requests, NEW k \in Keys, CommitRedeem(r, k) PROVE DbTypeOK'
  <2>1. licenses' \in [Keys -> License]
    BY <1>7, GrantedTyped DEF CommitRedeem
  <2>2. activations' \in [Requests -> Activation]
    BY <1>7 DEF CommitRedeem, Activation
  <2> QED
    BY <1>7, <2>1, <2>2 DEF CommitRedeem
<1>13. ASSUME NEW r \in Requests, NEW k \in Keys, NEW t \in 0 .. now, RepairLogin(r, k, t)
       PROVE  DbTypeOK'
  <2>1. t \in Nat
    OBVIOUS
  <2>2. licenses' \in [Keys -> License]
    BY <1>13, <2>1, GrantTyped DEF RepairLogin
  <2>3. activations' \in [Requests -> Activation]
    BY <1>13 DEF RepairLogin, Activation
  <2> QED
    BY <1>13, <2>2, <2>3 DEF RepairLogin
<1>8. ASSUME NEW k \in Keys, NEW d \in Durations, CreateKey(k, d) PROVE DbTypeOK'
  BY <1>8, DurationsAssumption DEF CreateKey, License, LicenseStatus
<1>9. ASSUME NEW k \in Keys, NEW s \in {"banned", "unused", "expired"}, WriteStatus(k, s)
      PROVE  DbTypeOK'
  BY <1>9 DEF WriteStatus, License, LicenseStatus
<1>10. ASSUME NEW k \in Keys, NEW t \in ExtensionEnds, WriteExtension(k, t) PROVE DbTypeOK'
  BY <1>10, ExtensionEndsTyped DEF WriteExtension, License, LicenseStatus, Time
<1>11. ASSUME NEW k \in Keys, DeleteKey(k) PROVE DbTypeOK'
  BY <1>11 DEF DeleteKey, License, LicenseStatus, Activation
<1>12. CASE UNCHANGED dbVars
  BY <1>12 DEF dbVars
<1> QED
  BY <1>1, <1>2, <1>3, <1>4, <1>5, <1>6, <1>7, <1>8, <1>9, <1>10, <1>11, <1>12, <1>13
     DEF DbNext

(* The tables hold what the schema declares, in every reachable state.     *)
THEOREM TypeCorrect == DbSpec => []DbTypeOK
  BY DbInitTyped, DbStepTyped, PTL DEF DbSpec

-----------------------------------------------------------------------------
(* One pending request per key *)

LEMMA OnePendingInit == DbInit => OnePendingPerKey
  BY DEF DbInit, OnePendingPerKey

(* Only a reservation makes a row pending, and it found none on its key;   *)
(* every other transaction leaves a pending row as it was or ends it, and  *)
(* a deletion takes the key out of the comparison.                         *)
LEMMA OnePendingStep ==
  DbTypeOK /\ OnePendingPerKey /\ [DbNext]_dbVars => OnePendingPerKey'
<1> SUFFICES ASSUME DbTypeOK, OnePendingPerKey, [DbNext]_dbVars,
                    NEW r \in Requests, NEW s \in Requests,
                    activations'[r].result = "pending", activations'[s].result = "pending",
                    activations'[r].license = activations'[s].license,
                    activations'[r].license # NoKey
             PROVE  r = s
  BY DEF OnePendingPerKey
<1>1. CASE UNCHANGED activations
  BY <1>1 DEF OnePendingPerKey
<1>2. ASSUME NEW q \in Requests,
             \/ FailIfPending(q)
             \/ \E code \in ErrorCode : FailAlways(q, code)
             \/ \E k \in Keys : CommitLogin(q, k)
             \/ \E k \in Keys : CommitRedeem(q, k)
             \/ \E k \in Keys, t \in 0 .. now : RepairLogin(q, k, t)
      PROVE  r = s
  <2>1. ASSUME NEW p \in Requests, activations'[p].result = "pending"
        PROVE  activations'[p] = activations[p]
    BY <1>2, <2>1 DEF DbTypeOK, Activation, FailIfPending, FailAlways, CommitLogin, CommitRedeem,
                     RepairLogin
  <2> QED
    BY <2>1 DEF OnePendingPerKey
<1>3. ASSUME NEW q \in Requests, NEW k \in Keys, Reserve(q, k) PROVE r = s
  <2>1. activations'[q].license = k
    BY <1>3 DEF Reserve, DbTypeOK
  <2>2. \A p \in Requests \ {q} : activations'[p] = activations[p]
    BY <1>3 DEF Reserve, DbTypeOK
  <2>3. \A p \in Requests : ~(activations[p].license = k /\ activations[p].result = "pending")
    BY <1>3 DEF Reserve, Reservable, PendingOn
  <2> QED
    BY <2>1, <2>2, <2>3 DEF OnePendingPerKey
<1>4. ASSUME NEW k \in Keys, DeleteKey(k) PROVE r = s
  <2>1. ASSUME NEW p \in Requests, activations'[p].license # NoKey
        PROVE  activations'[p] = activations[p]
    BY <1>4, <2>1 DEF DeleteKey, DbTypeOK, Activation
  <2> QED
    BY <2>1 DEF OnePendingPerKey
<1> QED
  BY <1>1, <1>2, <1>3, <1>4
     DEF DbNext, dbVars, NextDay, MarkExpired, CreateKey, WriteStatus, WriteExtension

(* However the clients interleave, no key is ever reserved twice: neither  *)
(* by two logins, nor by a login and a redemption.                         *)
THEOREM OnePending == DbSpec => []OnePendingPerKey
<1>1. DbTypeOK /\ OnePendingPerKey /\ [DbNext]_dbVars => OnePendingPerKey'
  BY OnePendingStep
<1> QED
  BY TypeCorrect, OnePendingInit, <1>1, PTL DEF DbSpec

-----------------------------------------------------------------------------
(* Success stands on a consumed key *)

LEMMA SuccessStandsInit == DbInit => SuccessStandsOnConsumedKey
  BY DEF DbInit, SuccessStandsOnConsumedKey

(* A row of licenses that was consumed and is not deleted stays consumed.  *)
Consumed(lic) == lic.status \in LicenseStatus /\ lic.activatedAt # NoTime /\ lic.expiredAt # NoTime

LEMMA GrantConsumes ==
  ASSUME NEW lic \in License, NEW t \in Nat
  PROVE  Consumed(Grant(lic, t))
<1>1. t # NoTime /\ Grant(lic, t).expiredAt # NoTime
  BY GrantTyped DEF NoTime
<1> QED
  BY GrantTyped, <1>1 DEF Consumed, LicenseStatus

LEMMA ConsumedStays ==
  ASSUME DbTypeOK, DbNext, NEW k \in Keys, Consumed(licenses[k]), ~DeleteKey(k)
  PROVE  Consumed(licenses'[k])
<1>1. CASE UNCHANGED licenses
  BY <1>1
<1>2. CASE MarkExpired
  BY <1>2 DEF MarkExpired, Consumed, LicenseStatus, DbTypeOK, License
<1>3. ASSUME NEW r \in Requests, NEW j \in Keys, CommitLogin(r, j) \/ CommitRedeem(r, j)
      PROVE  Consumed(licenses'[k])
  <2>1. licenses' = licenses \/ licenses' = Granted(j)
    BY <1>3 DEF CommitLogin, CommitRedeem
  <2>2. Consumed(Granted(j)[k])
    BY GrantedTyped, GrantConsumes DEF DbTypeOK
  <2> QED
    BY <2>1, <2>2
<1>8. ASSUME NEW r \in Requests, NEW j \in Keys, NEW t \in 0 .. now, RepairLogin(r, j, t)
      PROVE  Consumed(licenses'[k])
  <2>1. t \in Nat
    BY DEF DbTypeOK
  <2>2. Consumed(Grant(licenses[j], t))
    BY <2>1, GrantConsumes DEF DbTypeOK
  <2> QED
    BY <1>8, <2>2 DEF RepairLogin, DbTypeOK
<1>4. ASSUME NEW j \in Keys, NEW d \in Durations, CreateKey(j, d)
      PROVE  Consumed(licenses'[k])
  BY <1>4 DEF CreateKey, Consumed, LicenseStatus, DbTypeOK, License
<1>5. ASSUME NEW j \in Keys, NEW s \in {"banned", "unused", "expired"}, WriteStatus(j, s)
      PROVE  Consumed(licenses'[k])
  BY <1>5 DEF WriteStatus, Consumed, LicenseStatus, DbTypeOK, License
<1>6. ASSUME NEW j \in Keys, NEW t \in ExtensionEnds, WriteExtension(j, t)
      PROVE  Consumed(licenses'[k])
  <2>1. t # NoTime
    BY ExtensionEndsTyped DEF NoTime
  <2> QED
    BY <1>6, <2>1 DEF WriteExtension, Consumed, LicenseStatus, DbTypeOK, License
<1>7. ASSUME NEW j \in Keys, DeleteKey(j) PROVE Consumed(licenses'[k])
  BY <1>7 DEF DeleteKey, DbTypeOK
<1> QED
  BY <1>1, <1>2, <1>3, <1>4, <1>5, <1>6, <1>7, <1>8
     DEF DbNext, NextDay, FailIfPending, FailAlways, Reserve

LEMMA SuccessStandsStep ==
  DbTypeOK /\ SuccessStandsOnConsumedKey /\ [DbNext]_dbVars => SuccessStandsOnConsumedKey'
<1> SUFFICES ASSUME DbTypeOK, SuccessStandsOnConsumedKey, DbNext,
                    NEW r \in Requests, activations'[r].result = "success",
                    activations'[r].license # NoKey
             PROVE  Consumed(licenses'[activations'[r].license])
  BY DEF SuccessStandsOnConsumedKey, Consumed, dbVars
<1>1. CASE activations'[r] = activations[r]
  <2> DEFINE k == activations[r].license
  <2>1. k \in Keys /\ Consumed(licenses[k])
    BY <1>1 DEF SuccessStandsOnConsumedKey, Consumed, DbTypeOK, Activation
  <2>2. ~DeleteKey(k)
    BY <1>1, <2>1 DEF DeleteKey, DbTypeOK, Activation
  <2> QED
    BY <1>1, <2>1, <2>2, ConsumedStays
<1>2. ASSUME NEW k \in Keys, NEW t \in 0 .. now, RepairLogin(r, k, t)
      PROVE  Consumed(licenses'[activations'[r].license])
  <2>1. activations'[r].license = k /\ licenses'[k] = Grant(licenses[k], t)
    BY <1>2 DEF RepairLogin, Repairable, DbTypeOK
  <2>2. t \in Nat
    BY DEF DbTypeOK
  <2> QED
    BY <2>1, <2>2, GrantConsumes DEF DbTypeOK
<1>3. CASE /\ activations'[r] # activations[r]
           /\ ~\E k \in Keys, t \in 0 .. now : RepairLogin(r, k, t)
  <2>1. PICK k \in Keys : \/ CommitLogin(r, k)
                           \/ CommitRedeem(r, k)
    <3>1. ASSUME NEW k \in Keys, DeleteKey(k) PROVE FALSE
      BY <1>3, <3>1 DEF DeleteKey, DbTypeOK, Activation
    <3>2. ASSUME NEW q \in Requests, NEW k \in Keys, Reserve(q, k) PROVE FALSE
      BY <1>3, <3>2 DEF Reserve, DbTypeOK, Activation
    <3>3. ASSUME NEW q \in Requests, FailIfPending(q) PROVE FALSE
      BY <1>3, <3>3 DEF FailIfPending, DbTypeOK, Activation
    <3>4. ASSUME NEW q \in Requests, NEW code \in ErrorCode, FailAlways(q, code) PROVE FALSE
      BY <1>3, <3>4 DEF FailAlways, DbTypeOK, Activation
    <3>5. ASSUME NEW q \in Requests, NEW k \in Keys, CommitLogin(q, k) \/ CommitRedeem(q, k)
          PROVE  q = r
      BY <1>3, <3>5 DEF CommitLogin, CommitRedeem, DbTypeOK
    <3>6. ASSUME NEW q \in Requests, NEW k \in Keys, NEW t \in 0 .. now, RepairLogin(q, k, t)
          PROVE  FALSE
      BY <1>3, <3>6 DEF RepairLogin, DbTypeOK
    <3> QED
      BY <1>3, <3>1, <3>2, <3>3, <3>4, <3>5, <3>6
         DEF DbNext, NextDay, MarkExpired, CreateKey, WriteStatus, WriteExtension
  <2>2. activations[r].result = "pending"
    BY <1>3, <2>1 DEF CommitLogin, CommitRedeem, RedeemCommits
  <2>3. activations'[r].license = k /\ licenses[k].status = "unused" /\ licenses' = Granted(k)
    BY <2>1, <2>2 DEF CommitLogin, LoginCommits, CommitRedeem, RedeemCommits, DbTypeOK, Activation
  <2> QED
    BY <2>3, GrantedTyped, GrantConsumes DEF DbTypeOK
<1>4. CASE \E k \in Keys, t \in 0 .. now : RepairLogin(r, k, t)
  BY <1>2, <1>4
<1> QED
  BY <1>1, <1>3, <1>4

(* No order of commits, bans, resets, extensions, sweeps and deletions     *)
(* leaves a successful request whose key was never consumed.               *)
THEOREM SuccessStands == DbSpec => []SuccessStandsOnConsumedKey
<1>1. DbTypeOK /\ SuccessStandsOnConsumedKey /\ [DbNext]_dbVars => SuccessStandsOnConsumedKey'
  BY SuccessStandsStep
<1> QED
  BY TypeCorrect, SuccessStandsInit, <1>1, PTL DEF DbSpec

-----------------------------------------------------------------------------
(* An active key has an end *)

LEMMA ActiveHasEndInit == DbInit => ActiveHasEnd
  BY DEF DbInit, ActiveHasEnd

(* A key becomes active by a grant or by an extension, and both write an   *)
(* end; nothing takes an end away.                                         *)
LEMMA ActiveHasEndStep == DbTypeOK /\ ActiveHasEnd /\ [DbNext]_dbVars => ActiveHasEnd'
<1> SUFFICES ASSUME DbTypeOK, ActiveHasEnd, [DbNext]_dbVars,
                    NEW k \in Keys, licenses'[k].status = "active"
             PROVE  licenses'[k].expiredAt # NoTime
  BY DEF ActiveHasEnd
<1> USE DEF DbTypeOK, License
<1>1. CASE licenses'[k] = licenses[k]
  BY <1>1 DEF ActiveHasEnd
<1>2. ASSUME NEW j \in Keys, NEW t \in Nat, licenses'[k] = Grant(licenses[j], t)
      PROVE  licenses'[k].expiredAt # NoTime
  BY <1>2, GrantTyped DEF NoTime
<1>3. ASSUME NEW r \in Requests, NEW j \in Keys, CommitLogin(r, j) \/ CommitRedeem(r, j)
      PROVE  licenses'[k].expiredAt # NoTime
  <2>1. licenses'[k] = licenses[k] \/ licenses'[k] = Grant(licenses[j], now)
    BY <1>3, GrantedTyped DEF CommitLogin, CommitRedeem
  <2> QED
    BY <1>1, <1>2, <2>1
<1>4. ASSUME NEW r \in Requests, NEW j \in Keys, NEW t \in 0 .. now, RepairLogin(r, j, t)
      PROVE  licenses'[k].expiredAt # NoTime
  <2>1. t \in Nat
    OBVIOUS
  <2>2. licenses'[k] = licenses[k] \/ licenses'[k] = Grant(licenses[j], t)
    BY <1>4 DEF RepairLogin
  <2> QED
    BY <1>1, <1>2, <2>1, <2>2
<1>5. ASSUME NEW j \in Keys, NEW t \in ExtensionEnds, WriteExtension(j, t)
      PROVE  licenses'[k].expiredAt # NoTime
  <2>1. t # NoTime
    BY ExtensionEndsTyped DEF NoTime
  <2> QED
    BY <1>1, <1>5, <2>1 DEF WriteExtension
<1>6. ASSUME NEW j \in Keys,
             \/ \E d \in Durations : CreateKey(j, d)
             \/ \E s \in {"banned", "unused", "expired"} : WriteStatus(j, s)
             \/ DeleteKey(j)
      PROVE  licenses'[k].expiredAt # NoTime
  <2>1. licenses'[k] = licenses[k] \/ licenses'[k].status # "active"
    BY <1>6 DEF CreateKey, WriteStatus, DeleteKey
  <2> QED
    BY <1>1, <2>1
<1>7. CASE MarkExpired
  BY <1>1, <1>7 DEF MarkExpired
<1> QED
  BY <1>1, <1>3, <1>4, <1>5, <1>6, <1>7
     DEF DbNext, dbVars, NextDay, FailIfPending, FailAlways, Reserve

(* Every key that is active can be found lapsed one day.                   *)
THEOREM ActiveEnds == DbSpec => []ActiveHasEnd
<1>1. DbTypeOK /\ ActiveHasEnd /\ [DbNext]_dbVars => ActiveHasEnd'
  BY ActiveHasEndStep
<1> QED
  BY TypeCorrect, ActiveHasEndInit, <1>1, PTL DEF DbSpec

-----------------------------------------------------------------------------
(* Consumption and receipt *)

(* Only a commit or a repair stamps a key, and it leaves a receipt.        *)
THEOREM ConsumptionIsReceipted == DbSpec => ConsumedWithReceipt
<1>1. ASSUME DbTypeOK, DbNext, NEW k \in Keys,
             licenses'[k].activatedAt # licenses[k].activatedAt
      PROVE  /\ licenses[k].status = "unused"
             /\ \E r \in Requests : /\ activations'[r].result = "success"
                                    /\ activations'[r].license = k
  <2> USE <1>1 DEF DbTypeOK, License
  <2>1. ASSUME NEW r \in Requests, NEW j \in Keys, activations[r].license = j,
               CommitLogin(r, j)
        PROVE  /\ licenses[k].status = "unused"
               /\ activations'[r].result = "success" /\ activations'[r].license = k
    <3>1. licenses[j].status = "unused" /\ licenses' = Granted(j)
      BY <2>1 DEF CommitLogin
    <3>2. j = k
      BY <3>1, GrantedTyped
    <3> QED
      BY <2>1, <3>1, <3>2 DEF CommitLogin, LoginCommits, Activation
  <2>2. ASSUME NEW r \in Requests, NEW j \in Keys, CommitRedeem(r, j)
        PROVE  /\ licenses[k].status = "unused"
               /\ activations'[r].result = "success" /\ activations'[r].license = k
    <3>1. j = k
      BY <2>2, GrantedTyped DEF CommitRedeem
    <3> QED
      BY <2>2, <3>1 DEF CommitRedeem, RedeemCommits, Activation
  <2>3. ASSUME NEW r \in Requests, NEW j \in Keys, NEW t \in 0 .. now, RepairLogin(r, j, t)
        PROVE  /\ licenses[k].status = "unused"
               /\ activations'[r].result = "success" /\ activations'[r].license = k
    <3>1. j = k
      BY <2>3 DEF RepairLogin
    <3> QED
      BY <2>3, <3>1 DEF RepairLogin, Repairable, Activation
  <2>4. ASSUME NEW j \in Keys,
               \/ \E d \in Durations : CreateKey(j, d)
               \/ \E s \in {"banned", "unused", "expired"} : WriteStatus(j, s)
               \/ \E t \in ExtensionEnds : WriteExtension(j, t)
               \/ DeleteKey(j)
        PROVE  FALSE
    BY <2>4 DEF CreateKey, WriteStatus, WriteExtension, DeleteKey
  <2>5. ~MarkExpired
    BY DEF MarkExpired
  <2> QED
    BY <2>1, <2>2, <2>3, <2>4, <2>5
       DEF DbNext, NextDay, FailIfPending, FailAlways, Reserve
<1>2. DbTypeOK /\ [DbNext]_dbVars
      => [\A k \in Keys :
             licenses'[k].activatedAt # licenses[k].activatedAt
             => /\ licenses[k].status = "unused"
                /\ \E r \in Requests : /\ activations'[r].result = "success"
                                       /\ activations'[r].license = k]_dbVars
  BY <1>1
<1> QED
  BY <1>2, TypeCorrect, PTL DEF DbSpec, ConsumedWithReceipt

LEMMA GrantLeavesSale ==
  ASSUME DbTypeOK, NEW k \in Keys, NEW t \in Nat
  PROVE  Grant(licenses[k], t).status \in {"active", "expired"}
  BY GrantTyped DEF DbTypeOK

(* A success comes from the one holder of a key on sale, or by a repair of *)
(* a failed request.                                                       *)
THEOREM ReceiptsAreTakenByHolders == DbSpec => ReceiptTakenFromHolder
<1>1. ASSUME DbTypeOK, OnePendingPerKey, DbNext, NEW r \in Requests,
             activations[r].result # "success", activations'[r].result = "success"
      PROVE  /\ \/ PendingOn(activations[r].license) = {r}
                \/ activations[r].result = "failed"
             /\ licenses[activations[r].license].status = "unused"
             /\ licenses'[activations[r].license].status \in {"active", "expired"}
  <2> USE <1>1 DEF DbTypeOK
  <2>1. ASSUME NEW k \in Keys, activations[r].license = k, activations[r].result = "pending"
        PROVE  PendingOn(activations[r].license) = {r}
    <3>1. k # NoKey
      BY NoKeyAssumption
    <3> QED
      BY <2>1, <3>1 DEF PendingOn, OnePendingPerKey
  <2>2. ASSUME NEW q \in Requests, NEW k \in Keys, activations[q].license = k, CommitLogin(q, k)
        PROVE  /\ PendingOn(activations[r].license) = {r}
               /\ licenses[activations[r].license].status = "unused"
               /\ licenses'[activations[r].license].status \in {"active", "expired"}
    <3>1. q = r /\ activations[r].result = "pending"
      BY <2>2 DEF CommitLogin
    <3>2. licenses[k].status = "unused" /\ licenses' = Granted(k)
      BY <2>2, <3>1 DEF CommitLogin, LoginCommits
    <3> QED
      BY <2>1, <2>2, <3>1, <3>2, GrantedTyped, GrantLeavesSale
  <2>3. ASSUME NEW q \in Requests, NEW k \in Keys, CommitRedeem(q, k)
        PROVE  /\ PendingOn(activations[r].license) = {r}
               /\ licenses[activations[r].license].status = "unused"
               /\ licenses'[activations[r].license].status \in {"active", "expired"}
    <3>1. q = r
      BY <2>3 DEF CommitRedeem
    <3>2. /\ activations[r].result = "pending" /\ activations[r].license = k
          /\ licenses[k].status = "unused" /\ licenses' = Granted(k)
      BY <2>3, <3>1 DEF CommitRedeem, RedeemCommits
    <3> QED
      BY <2>1, <3>2, GrantedTyped, GrantLeavesSale
  <2>4. ASSUME NEW q \in Requests, NEW k \in Keys, NEW t \in 0 .. now, RepairLogin(q, k, t)
        PROVE  /\ activations[r].result = "failed"
               /\ licenses[activations[r].license].status = "unused"
               /\ licenses'[activations[r].license].status \in {"active", "expired"}
    <3>1. q = r
      BY <2>4 DEF RepairLogin
    <3>2. t \in Nat
      OBVIOUS
    <3>3. licenses'[k] = Grant(licenses[k], t)
      BY <2>4 DEF RepairLogin
    <3> QED
      BY <2>4, <3>1, <3>2, <3>3, GrantLeavesSale DEF RepairLogin, Repairable
  <2>5. ASSUME NEW q \in Requests,
               \/ FailIfPending(q)
               \/ \E code \in ErrorCode : FailAlways(q, code)
               \/ \E k \in Keys : Reserve(q, k)
        PROVE  FALSE
    BY <2>5 DEF FailIfPending, FailAlways, Reserve, Activation
  <2>6. ASSUME NEW k \in Keys, DeleteKey(k) PROVE FALSE
    BY <2>6 DEF DeleteKey
  <2> QED
    BY <2>2, <2>3, <2>4, <2>5, <2>6
       DEF DbNext, NextDay, MarkExpired, CreateKey, WriteStatus, WriteExtension
<1>2. DbTypeOK /\ OnePendingPerKey /\ [DbNext]_dbVars
      => [\A r \in Requests :
             activations[r].result # "success" /\ activations'[r].result = "success"
             => /\ \/ PendingOn(activations[r].license) = {r}
                   \/ activations[r].result = "failed"
                /\ licenses[activations[r].license].status = "unused"
                /\ licenses'[activations[r].license].status \in {"active", "expired"}]_dbVars
  BY <1>1
<1> QED
  BY <1>2, TypeCorrect, OnePending, PTL DEF DbSpec, ReceiptTakenFromHolder

-----------------------------------------------------------------------------
(* The ledger of keys *)

LEMMA LedgerInit == DbInit => Ledger!Init
<1> SUFFICES ASSUME DbInit PROVE Ledger!Init
  OBVIOUS
<1>1. OnSale = {} /\ \A k \in Keys : PendingOn(k) = {}
  BY DEF DbInit, OnSale, PendingOn
<1>2. Holders = [k \in Keys |-> {}] /\ Sold = [k \in Keys |-> {}]
  BY <1>1 DEF DbInit, Holders, Sold
<1> QED
  BY <1>1, <1>2 DEF Ledger!Init

(* A row that is neither pending nor successful is in no column of the     *)
(* ledger, and a row is in the column of its own key only.                 *)
LEMMA LedgerColumns ==
  ASSUME DbTypeOK, NEW r \in Requests, NEW k \in Keys
  PROVE  /\ r \in Holders[k] <=> activations[r].license = k /\ activations[r].result = "pending"
         /\ r \in Sold[k] <=> activations[r].license = k /\ activations[r].result = "success"
  BY DEF Holders, Sold, PendingOn

(* What the columns become when one row turns and keeps its key.           *)
LEMMA RowTurns ==
  ASSUME DbTypeOK, NEW r \in Requests, NEW k \in Keys,
         activations[r].license = k, activations'[r].license = k,
         \A q \in Requests \ {r} : activations'[q] = activations[q]
  PROVE  /\ Holders' = [Holders EXCEPT ![k] = IF activations'[r].result = "pending"
                                              THEN @ \cup {r} ELSE @ \ {r}]
         /\ Sold' = [Sold EXCEPT ![k] = IF activations'[r].result = "success"
                                        THEN @ \cup {r} ELSE @ \ {r}]
<1> USE DEF DbTypeOK
<1>1. ASSUME NEW j \in Keys
      PROVE  /\ Holders'[j] = [Holders EXCEPT ![k] = IF activations'[r].result = "pending"
                                                     THEN @ \cup {r} ELSE @ \ {r}][j]
             /\ Sold'[j] = [Sold EXCEPT ![k] = IF activations'[r].result = "success"
                                               THEN @ \cup {r} ELSE @ \ {r}][j]
  <2>1. CASE j = k
    BY <2>1 DEF Holders, Sold, PendingOn
  <2>2. CASE j # k
    BY <2>2 DEF Holders, Sold, PendingOn
  <2> QED
    BY <2>1, <2>2
<1> QED
  BY <1>1 DEF Holders, Sold

(* A row that bears no key is in no column, before and after.              *)
LEMMA RowWithoutKeyTurns ==
  ASSUME DbTypeOK, NEW r \in Requests, activations[r].license = NoKey,
         NEW a \in Activation, a.license = NoKey,
         activations' = [activations EXCEPT ![r] = a]
  PROVE  UNCHANGED <<Holders, Sold>>
<1>1. \A k \in Keys : k # NoKey
  BY NoKeyAssumption
<1> QED
  BY <1>1 DEF DbTypeOK, Holders, Sold, PendingOn

LEMMA GrantWithdraws ==
  ASSUME DbTypeOK, NEW k \in Keys, NEW t \in Nat,
         licenses' = [licenses EXCEPT ![k] = Grant(licenses[k], t)]
  PROVE  OnSale' = OnSale \ {k}
<1>1. licenses'[k].status # "unused"
  BY GrantLeavesSale DEF DbTypeOK
<1>2. \A j \in Keys \ {k} : licenses'[j] = licenses[j]
  BY DEF DbTypeOK
<1> QED
  BY <1>1, <1>2 DEF OnSale

LEMMA StatusMovesSale ==
  ASSUME DbTypeOK, NEW k \in Keys, \A j \in Keys \ {k} : licenses'[j] = licenses[j]
  PROVE  OnSale' = IF licenses'[k].status = "unused" THEN OnSale \cup {k} ELSE OnSale \ {k}
  BY DEF OnSale

(* A reservation is a hold: its row was new and the key had no holder.     *)
LEMMA ReserveHolds ==
  ASSUME DbTypeOK, NEW r \in Requests, NEW k \in Keys, Reserve(r, k)
  PROVE  Ledger!Hold(k, r)
<1> USE DEF DbTypeOK
<1>1. k \in OnSale /\ Holders[k] = {}
  BY DEF Reserve, Reservable, OnSale, Holders
<1>2. Ledger!Unknown(r)
  BY LedgerColumns DEF Ledger!Unknown, Reserve
<1>3. /\ activations'[r].result = "pending" /\ activations'[r].license = k
      /\ \A q \in Requests \ {r} : activations'[q] = activations[q]
  BY DEF Reserve
<1>4. Holders' = [Holders EXCEPT ![k] = {r}]
  <2>1. ASSUME NEW j \in Keys PROVE Holders'[j] = [Holders EXCEPT ![k] = {r}][j]
    <3>1. CASE j = k
      BY <1>1, <1>3, <3>1 DEF Holders, PendingOn
    <3>2. CASE j # k
      BY <1>3, <3>2 DEF Holders, PendingOn, Reserve
    <3> QED
      BY <3>1, <3>2
  <2> QED
    BY <2>1 DEF Holders
<1>5. UNCHANGED <<OnSale, Sold>>
  BY <1>3 DEF OnSale, Sold, Reserve
<1> QED
  BY <1>1, <1>2, <1>4, <1>5 DEF Ledger!Hold

(* A failure releases the key of a pending row, revokes the receipt of a   *)
(* successful one and leaves the ledger alone otherwise.                   *)
LEMMA FailureReleases ==
  ASSUME DbTypeOK, NEW r \in Requests, NEW a \in Activation, a.result = "failed",
         a.license = activations[r].license,
         activations' = [activations EXCEPT ![r] = a], UNCHANGED licenses
  PROVE  [Ledger!Next]_(Ledger!vars)
<1>1. UNCHANGED OnSale
  BY DEF OnSale
<1>2. activations[r].license \in Keys \cup {NoKey}
  BY DEF DbTypeOK, Activation
<1>3. CASE activations[r].license = NoKey
  BY <1>1, <1>3, RowWithoutKeyTurns DEF Ledger!vars
<1>4. ASSUME NEW k \in Keys, activations[r].license = k
      PROVE  [Ledger!Next]_(Ledger!vars)
  <2>1. /\ Holders' = [Holders EXCEPT ![k] = @ \ {r}]
        /\ Sold' = [Sold EXCEPT ![k] = @ \ {r}]
    <3>1. /\ activations'[r].result = "failed" /\ activations'[r].license = k
          /\ \A q \in Requests \ {r} : activations'[q] = activations[q]
      BY <1>4 DEF DbTypeOK
    <3>2. /\ Holders' = [Holders EXCEPT ![k] = IF activations'[r].result = "pending"
                                               THEN @ \cup {r} ELSE @ \ {r}]
          /\ Sold' = [Sold EXCEPT ![k] = IF activations'[r].result = "success"
                                         THEN @ \cup {r} ELSE @ \ {r}]
      BY <1>4, <3>1, RowTurns
    <3> QED
      BY <3>1, <3>2
  <2>2. CASE activations[r].result = "pending"
    <3>1. Sold[k] \ {r} = Sold[k]
      BY <2>2, LedgerColumns
    <3>2. UNCHANGED Sold
      BY <2>1, <3>1, Zenon DEF Sold
    <3>3. Ledger!Release(k, r)
      BY <1>1, <2>1, <3>2 DEF Ledger!Release
    <3> QED
      BY <3>3 DEF Ledger!Next
  <2>3. CASE activations[r].result # "pending"
    <3>1. Holders[k] \ {r} = Holders[k]
      BY <2>3, LedgerColumns
    <3>2. UNCHANGED Holders
      BY <2>1, <3>1, Zenon DEF Holders
    <3>3. Ledger!Revoke(k, r)
      BY <1>1, <2>1, <3>2 DEF Ledger!Revoke
    <3> QED
      BY <3>3 DEF Ledger!Next
  <2> QED
    BY <2>2, <2>3
<1> QED
  BY <1>2, <1>3, <1>4

(* A request that turns successful on a key on sale, as its one holder or  *)
(* as one that holds nothing, buys it.                                     *)
LEMMA TurningSells ==
  ASSUME DbTypeOK, NEW r \in Requests, NEW k \in Keys, NEW t \in Nat,
         licenses[k].status = "unused", activations[r].license = k,
         PendingOn(k) = {r} \/ activations[r].result # "pending",
         licenses' = [licenses EXCEPT ![k] = Grant(licenses[k], t)],
         activations' = [activations EXCEPT ![r].result = "success"]
  PROVE  Ledger!Sell(k, r)
<1>1. k \in OnSale /\ OnSale' = OnSale \ {k}
  BY GrantWithdraws DEF OnSale
<1>2. Holders[k] = {r} \/ ~Ledger!Holds(r)
  BY LedgerColumns DEF Holders, Ledger!Holds
<1>3. /\ activations'[r].result = "success" /\ activations'[r].license = k
      /\ \A q \in Requests \ {r} : activations'[q] = activations[q]
  BY DEF DbTypeOK, Activation
<1>4. /\ Holders' = [Holders EXCEPT ![k] = @ \ {r}]
      /\ Sold' = [Sold EXCEPT ![k] = @ \cup {r}]
  <2>1. /\ Holders' = [Holders EXCEPT ![k] = IF activations'[r].result = "pending"
                                             THEN @ \cup {r} ELSE @ \ {r}]
        /\ Sold' = [Sold EXCEPT ![k] = IF activations'[r].result = "success"
                                       THEN @ \cup {r} ELSE @ \ {r}]
    BY <1>3, RowTurns
  <2> QED
    BY <1>3, <2>1
<1> QED
  BY <1>1, <1>2, <1>4 DEF Ledger!Sell

LEMMA CommitLoginInLedger ==
  ASSUME DbTypeOK, OnePendingPerKey, NEW r \in Requests, NEW k \in Keys,
         activations[r].license = k, CommitLogin(r, k)
  PROVE  [Ledger!Next]_(Ledger!vars)
<1>1. CASE activations[r].result = "pending"
  <2>1. k # NoKey
    BY NoKeyAssumption
  <2>2. PendingOn(k) = {r}
    BY <1>1, <2>1 DEF PendingOn, OnePendingPerKey
  <2>3. licenses[k].status = "unused" /\ licenses' = [licenses EXCEPT ![k] = Grant(licenses[k], now)]
    BY <1>1 DEF CommitLogin, LoginCommits, Granted
  <2>4. activations' = [activations EXCEPT ![r].result = "success"]
    BY <1>1 DEF CommitLogin, DbTypeOK, Activation
  <2>5. Ledger!Sell(k, r)
    BY <2>2, <2>3, <2>4, TurningSells DEF DbTypeOK
  <2> QED
    BY <2>5 DEF Ledger!Next
<1>2. CASE activations[r].result # "pending"
  <2>1. UNCHANGED <<Holders, Sold>>
    BY <1>2 DEF CommitLogin, Holders, Sold, PendingOn
  <2>2. CASE licenses' = licenses
    BY <2>1, <2>2 DEF Ledger!vars, OnSale
  <2>3. CASE licenses' = Granted(k)
    <3>1. Ledger!Withdraw(k)
      BY <2>1, <2>3, GrantWithdraws DEF Ledger!Withdraw, Granted, DbTypeOK
    <3> QED
      BY <3>1 DEF Ledger!Next
  <2> QED
    BY <2>2, <2>3 DEF CommitLogin
<1> QED
  BY <1>1, <1>2

LEMMA CommitRedeemInLedger ==
  ASSUME DbTypeOK, OnePendingPerKey, NEW r \in Requests, NEW k \in Keys, CommitRedeem(r, k)
  PROVE  Ledger!Next
<1>1. k # NoKey
  BY NoKeyAssumption
<1>2. PendingOn(k) = {r}
  BY <1>1 DEF CommitRedeem, RedeemCommits, PendingOn, OnePendingPerKey
<1>3. Ledger!Sell(k, r)
  BY <1>2, TurningSells DEF CommitRedeem, RedeemCommits, Granted, DbTypeOK
<1> QED
  BY <1>3 DEF Ledger!Next

LEMMA RepairInLedger ==
  ASSUME DbTypeOK, NEW r \in Requests, NEW k \in Keys, NEW t \in 0 .. now, RepairLogin(r, k, t)
  PROVE  Ledger!Next
<1>1. t \in Nat
  BY DEF DbTypeOK
<1>2. Ledger!Sell(k, r)
  BY <1>1, TurningSells DEF RepairLogin, Repairable
<1> QED
  BY <1>2 DEF Ledger!Next

(* Administration moves one key on sale or off it; a lapsed key was not.   *)
LEMMA AdministrationInLedger ==
  ASSUME DbTypeOK, NEW k \in Keys, UNCHANGED activations,
         \A j \in Keys \ {k} : licenses'[j] = licenses[j]
  PROVE  Ledger!Next
<1>1. UNCHANGED <<Holders, Sold>>
  BY DEF Holders, Sold, PendingOn
<1>2. Ledger!Offer(k) \/ Ledger!Withdraw(k)
  BY <1>1, StatusMovesSale DEF Ledger!Offer, Ledger!Withdraw
<1> QED
  BY <1>2 DEF Ledger!Next

LEMMA DeletionInLedger ==
  ASSUME DbTypeOK, NEW k \in Keys, DeleteKey(k)
  PROVE  Ledger!Next
<1> USE DEF DbTypeOK
<1>1. OnSale' = OnSale \ {k}
  <2>1. licenses'[k].status # "unused" /\ \A j \in Keys \ {k} : licenses'[j] = licenses[j]
    BY DEF DeleteKey, License
  <2> QED
    BY <2>1, StatusMovesSale
<1>2. \A r \in Requests : IF activations[r].license = k THEN activations'[r].license = NoKey
                          ELSE activations'[r] = activations[r]
  BY DEF DeleteKey, Activation
<1>3. ASSUME NEW j \in Keys
      PROVE  /\ Holders'[j] = [Holders EXCEPT ![k] = {}][j]
             /\ Sold'[j] = [Sold EXCEPT ![k] = {}][j]
  BY <1>2, NoKeyAssumption DEF Holders, Sold, PendingOn
<1>4. Holders' = [Holders EXCEPT ![k] = {}] /\ Sold' = [Sold EXCEPT ![k] = {}]
  BY <1>3 DEF Holders, Sold
<1>5. Ledger!Remove(k)
  BY <1>1, <1>4 DEF Ledger!Remove
<1> QED
  BY <1>5 DEF Ledger!Next

LEMMA LedgerStep ==
  DbTypeOK /\ OnePendingPerKey /\ [DbNext]_dbVars => [Ledger!Next]_(Ledger!vars)
<1> SUFFICES ASSUME DbTypeOK, OnePendingPerKey, [DbNext]_dbVars
             PROVE  [Ledger!Next]_(Ledger!vars)
  OBVIOUS
<1>1. CASE UNCHANGED <<licenses, activations>>
  BY <1>1 DEF Ledger!vars, OnSale, Holders, Sold, PendingOn
<1>2. CASE MarkExpired
  <2>1. UNCHANGED OnSale
    BY <1>2 DEF MarkExpired, Lapsed, OnSale, DbTypeOK, License
  <2> QED
    BY <1>2, <2>1 DEF MarkExpired, Ledger!vars, Holders, Sold, PendingOn
<1>3. ASSUME NEW r \in Requests, FailIfPending(r) PROVE [Ledger!Next]_(Ledger!vars)
  <2>1. CASE activations[r].result = "pending"
    <3> DEFINE a == [activations[r] EXCEPT !.result = "failed", !.error = NoError]
    <3>1. /\ a \in Activation /\ a.result = "failed" /\ a.license = activations[r].license
          /\ activations' = [activations EXCEPT ![r] = a] /\ UNCHANGED licenses
      BY <1>3, <2>1 DEF FailIfPending, DbTypeOK, Activation
    <3> HIDE DEF a
    <3> QED
      BY <3>1, FailureReleases
  <2> QED
    BY <1>1, <1>3, <2>1 DEF FailIfPending
<1>4. ASSUME NEW r \in Requests, NEW code \in ErrorCode, FailAlways(r, code)
      PROVE  [Ledger!Next]_(Ledger!vars)
  <2> DEFINE a == [activations[r] EXCEPT !.result = "failed", !.error = code]
  <2>1. /\ a \in Activation /\ a.result = "failed" /\ a.license = activations[r].license
        /\ activations' = [activations EXCEPT ![r] = a] /\ UNCHANGED licenses
    BY <1>4 DEF FailAlways, DbTypeOK, Activation
  <2> HIDE DEF a
  <2> QED
    BY <2>1, FailureReleases
<1>5. ASSUME NEW r \in Requests, NEW k \in Keys, Reserve(r, k) PROVE Ledger!Next
  BY <1>5, ReserveHolds DEF Ledger!Next
<1>6. ASSUME NEW k \in Keys,
             \/ \E d \in Durations : CreateKey(k, d)
             \/ \E s \in {"banned", "unused", "expired"} : WriteStatus(k, s)
             \/ \E t \in ExtensionEnds : WriteExtension(k, t)
      PROVE  Ledger!Next
  BY <1>6, AdministrationInLedger DEF CreateKey, WriteStatus, WriteExtension, DbTypeOK
<1> QED
  BY <1>1, <1>2, <1>3, <1>4, <1>5, <1>6, CommitLoginInLedger, CommitRedeemInLedger,
     RepairInLedger, DeletionInLedger
     DEF DbNext, dbVars, NextDay

(* The tables are a ledger of keys, for any number of keys and requests:   *)
(* no two holders of a key, and no sale of a key that is not on sale.      *)
THEOREM DbImplementsKeyLedger == DbSpec => ImplementsKeyLedger
<1>1. DbInit => Ledger!Init
  BY LedgerInit
<1>2. DbTypeOK /\ OnePendingPerKey /\ [DbNext]_dbVars => [Ledger!Next]_(Ledger!vars)
  BY LedgerStep
<1> QED
  BY <1>1, <1>2, TypeCorrect, OnePending, PTL DEF DbSpec, Ledger!Spec, ImplementsKeyLedger

(* A key gains a receipt only by leaving sale, and one at a time.          *)
LEMMA SaleTakesOffSale ==
  ASSUME DbTypeOK, OnePendingPerKey, [DbNext]_dbVars, NEW k \in Keys
  PROVE  \/ Sold'[k] \subseteq Sold[k]
         \/ /\ k \in OnSale /\ k \notin OnSale'
            /\ \E r \in Requests : Sold'[k] = Sold[k] \cup {r}
<1> USE DEF Sold
<1>1. [Ledger!Next]_(Ledger!vars)
  BY LedgerStep
<1>2. CASE UNCHANGED Ledger!vars
  BY <1>2 DEF Ledger!vars
<1>3. ASSUME NEW j \in Keys, Ledger!Offer(j) \/ Ledger!Withdraw(j) \/ Ledger!Remove(j)
      PROVE  Sold'[k] \subseteq Sold[k]
  BY <1>3 DEF Ledger!Offer, Ledger!Withdraw, Ledger!Remove
<1>4. ASSUME NEW j \in Keys, NEW r \in Requests,
             Ledger!Hold(j, r) \/ Ledger!Release(j, r) \/ Ledger!Revoke(j, r)
      PROVE  Sold'[k] \subseteq Sold[k]
  BY <1>4 DEF Ledger!Hold, Ledger!Release, Ledger!Revoke
<1>5. ASSUME NEW j \in Keys, NEW r \in Requests, Ledger!Sell(j, r)
      PROVE  \/ Sold'[k] \subseteq Sold[k]
             \/ /\ k \in OnSale /\ k \notin OnSale'
                /\ Sold'[k] = Sold[k] \cup {r}
  BY <1>5 DEF Ledger!Sell
<1> QED
  BY <1>1, <1>2, <1>3, <1>4, <1>5 DEF Ledger!Next
=============================================================================
