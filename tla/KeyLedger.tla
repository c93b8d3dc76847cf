------------------------------ MODULE KeyLedger ------------------------------
(***************************************************************************)
(* What the two tables promise about a license key, without the tables: a  *)
(* key on sale is held by at most one request, and a sale takes the key    *)
(* off sale.  A request that was refused may still be sold its key later,  *)
(* while another request holds it: that is what the repair script does.    *)
(* LicenseDb implements this with statuses, rows and dates.                *)
(***************************************************************************)
CONSTANTS
    Keys,      \* license keys
    Requests   \* logins and redemptions

VARIABLES
    free,      \* the keys on sale
    holders,   \* who holds a key until its sale or release, by key
    sold       \* who has a receipt for a key, by key

vars == <<free, holders, sold>>

Init ==
    /\ free = {}
    /\ holders = [k \in Keys |-> {}]
    /\ sold = [k \in Keys |-> {}]

Unknown(r) == \A k \in Keys : r \notin holders[k] \cup sold[k]

Holds(r) == \E k \in Keys : r \in holders[k]

-----------------------------------------------------------------------------
(* An administrator issues or resets a key, takes it off sale, deletes it  *)

Offer(k) == free' = free \cup {k} /\ UNCHANGED <<holders, sold>>

Withdraw(k) == free' = free \ {k} /\ UNCHANGED <<holders, sold>>

Remove(k) ==
    /\ free' = free \ {k}
    /\ holders' = [holders EXCEPT ![k] = {}]
    /\ sold' = [sold EXCEPT ![k] = {}]

-----------------------------------------------------------------------------
(* A request *)

(* A request that was never seen takes a free key nobody holds.            *)
Hold(k, r) ==
    /\ k \in free
    /\ holders[k] = {}
    /\ Unknown(r)
    /\ holders' = [holders EXCEPT ![k] = {r}]
    /\ UNCHANGED <<free, sold>>

Release(k, r) == holders' = [holders EXCEPT ![k] = @ \ {r}] /\ UNCHANGED <<free, sold>>

(* The buyer holds the key, or held it and holds nothing now.              *)
Sell(k, r) ==
    /\ k \in free
    /\ holders[k] = {r} \/ ~Holds(r)
    /\ free' = free \ {k}
    /\ holders' = [holders EXCEPT ![k] = @ \ {r}]
    /\ sold' = [sold EXCEPT ![k] = @ \cup {r}]

(* A receipt is taken back; the key stays off sale.                        *)
Revoke(k, r) == sold' = [sold EXCEPT ![k] = @ \ {r}] /\ UNCHANGED <<free, holders>>

Next ==
    \E k \in Keys :
        \/ Offer(k) \/ Withdraw(k) \/ Remove(k)
        \/ \E r \in Requests : Hold(k, r) \/ Release(k, r) \/ Sell(k, r) \/ Revoke(k, r)

Spec == Init /\ [][Next]_vars
=============================================================================
