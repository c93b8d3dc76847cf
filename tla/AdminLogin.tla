----------------------------- MODULE AdminLogin -----------------------------
(***************************************************************************)
(* AdminService.login: the account lock of an administrator.  A counter of *)
(* wrong passwords in Redis is read, incremented, given its expiry and     *)
(* deleted by separate commands of requests that run side by side.         *)
(***************************************************************************)
EXTENDS Naturals, FiniteSets

CONSTANTS
    Tabs,    \* the browsers that try to log in
    MaxFails \* MAX_FAILS

ASSUME TabsAssumption == IsFiniteSet(Tabs)
ASSUME MaxFailsAssumption == MaxFails \in Nat \ {0}

VARIABLES
    fails,    \* the counter, 0 when Redis has no such key
    expiring, \* does the counter have an expiry?
    login,    \* where the login of a tab stands
    cut       \* history: did the login that was to set the expiry not get there?

loginVars == <<fails, expiring, login, cut>>

LoginStep == {"out", "verify", "count", "expire", "reset", "audit", "in"}

LoginTypeOK ==
    /\ fails \in Nat
    /\ expiring \in BOOLEAN
    /\ login \in [Tabs -> LoginStep]
    /\ cut \in BOOLEAN

LoginInit ==
    /\ fails = 0
    /\ expiring = FALSE
    /\ login = [t \in Tabs |-> "out"]
    /\ cut = FALSE

Advance(t, from, to) == login[t] = from /\ login' = [login EXCEPT ![t] = to]

(* The tabs whose request the API is serving.                              *)
InLogin == {t \in Tabs : login[t] \notin {"out", "in"}}

-----------------------------------------------------------------------------

(* Mutant: the counter is not looked at.                                   *)
ReadCounterUnchecked(t) == Advance(t, "out", "verify") /\ UNCHANGED <<fails, expiring, cut>>

(* A locked account is refused before the password is looked at.           *)
ReadCounter(t) ==
    /\ fails < MaxFails
    /\ Advance(t, "out", "verify")
    /\ UNCHANGED <<fails, expiring, cut>>

(* findUnique and argon2.verify.                                           *)
Verify(t) ==
    /\ Advance(t, "verify", "count") \/ Advance(t, "verify", "reset")
    /\ UNCHANGED <<fails, expiring, cut>>

(* Mutant: the expiry is set first, on a key that does not exist yet.      *)
CountAfterExpiry(t) ==
    /\ Advance(t, "count", "out")
    /\ fails' = fails + 1
    /\ UNCHANGED <<expiring, cut>>

(* INCR: whoever creates the counter gives it its expiry.                  *)
Count(t) ==
    /\ Advance(t, "count", IF fails = 0 THEN "expire" ELSE "out")
    /\ fails' = fails + 1
    /\ UNCHANGED <<expiring, cut>>

(* EXPIRE, which does nothing when the counter is gone again.              *)
SetExpiry(t) ==
    /\ Advance(t, "expire", "out")
    /\ expiring' = (fails > 0) /\ cut' = FALSE
    /\ UNCHANGED fails

(* DEL on success.                                                         *)
Reset(t) ==
    /\ Advance(t, "reset", "audit")
    /\ fails' = 0 /\ expiring' = FALSE /\ cut' = FALSE

(* The audit row and the token.                                            *)
Audit(t) == Advance(t, "audit", "in") /\ UNCHANGED <<fails, expiring, cut>>

(* The token expires, or its tab is closed.                                *)
SignOut(t) == Advance(t, "in", "out") /\ UNCHANGED <<fails, expiring, cut>>

(* Redis or the database throws: 500.                                      *)
LoginThrows(t) ==
    /\ t \in InLogin
    /\ login' = [login EXCEPT ![t] = "out"]
    /\ cut' = (cut \/ login[t] = "expire")
    /\ UNCHANGED <<fails, expiring>>

(* Redis took the INCR and its answer was lost.                            *)
CountUnanswered(t) ==
    /\ Advance(t, "count", "out")
    /\ fails' = fails + 1
    /\ cut' = (cut \/ fails = 0)
    /\ UNCHANGED expiring

(* Every login under way dies with the API.                                *)
LoginsDie ==
    /\ login' = [t \in Tabs |-> IF t \in InLogin THEN "out" ELSE login[t]]
    /\ cut' = (cut \/ \E t \in Tabs : login[t] = "expire")
    /\ UNCHANGED <<fails, expiring>>

(* LOCK_TTL has passed.                                                    *)
LockExpires ==
    /\ expiring
    /\ fails' = 0 /\ expiring' = FALSE /\ cut' = FALSE
    /\ UNCHANGED login

(* What the API does for a tab once it was asked.                          *)
LoginServed(t) == Verify(t) \/ Count(t) \/ SetExpiry(t) \/ Reset(t) \/ Audit(t)

-----------------------------------------------------------------------------
(* Properties *)

(* However many logins pass the test before the first of them is counted,  *)
(* a lock is overrun by at most one counted password for each other tab.   *)
GuessesBounded == fails <= MaxFails + Cardinality(Tabs) - 1
=============================================================================
