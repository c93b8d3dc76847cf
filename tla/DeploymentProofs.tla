-------------------------- MODULE DeploymentProofs --------------------------
(***************************************************************************)
(* Proofs about AdminLogin and Deployment, for any number of tabs, any     *)
(* limit and any sessions: how far a lock is overrun, when a counter may   *)
(* be left without an expiry, and that the stored session is served.       *)
(***************************************************************************)
EXTENDS Deployment, FiniteSetTheorems, TLAPS

-----------------------------------------------------------------------------
(* The inductive invariant *)

(* The tabs that passed the test and are not counted yet.                  *)
Guessing == {t \in Tabs : login[t] \in {"verify", "count"}}

(* Who passed the test saw a counter below the limit.                      *)
GuessesLeft == fails + Cardinality(Guessing) <= MaxFails + Cardinality(Tabs) - 1

(* A counter has its expiry, or a login on its way to set it, or was cut.  *)
CounterEnds == fails > 0 => expiring \/ cut \/ \E t \in Tabs : login[t] = "expire"

(* A worker that is booting has read nothing yet, and one that has read    *)
(* holds what is stored, unless that is newer.                             *)
ReadStored ==
    worker \in {"resolved", "running", "closing"} /\ ~stale /\ stored # NoString
    => stored \in found

Inv == DeploymentTypeOK /\ GuessesLeft /\ CounterEnds /\ ReadStored

LEMMA GuessingFinite ==
  ASSUME NEW S \in SUBSET Tabs
  PROVE  IsFiniteSet(S) /\ Cardinality(S) \in Nat /\ Cardinality(S) <= Cardinality(Tabs)
         /\ Cardinality(Tabs) \in Nat
  BY TabsAssumption, FS_Subset, FS_CardinalityType

LEMMA InitHolds == Init => Inv
<1> SUFFICES ASSUME Init PROVE Inv
  OBVIOUS
<1>1. DeploymentTypeOK
  <2>1. LoginTypeOK
    BY DEF Init, LoginInit, LoginTypeOK, LoginStep
  <2>2. faults \in 0 .. MaxFaults /\ age \in 0 .. StaleAge
    BY MaxFaultsAssumption DEF Init, StaleAge
  <2>3. form \in [Tabs -> Strings \cup {NoString, Placeholder}]
    BY DEF Init
  <2> QED
    BY <2>1, <2>2, <2>3 DEF Init, DeploymentTypeOK
<1>2. GuessesLeft
  <2>1. Guessing = {}
    BY DEF Init, LoginInit, Guessing
  <2> QED
    BY <2>1, FS_EmptySet, GuessingFinite, MaxFailsAssumption
       DEF Init, LoginInit, GuessesLeft
<1>3. CounterEnds /\ ReadStored
  BY DEF Init, LoginInit, CounterEnds, ReadStored
<1> QED
  BY <1>1, <1>2, <1>3 DEF Inv

-----------------------------------------------------------------------------
(* The lock *)

LoginInv == LoginTypeOK /\ GuessesLeft /\ CounterEnds

(* All that a step of the deployment may do to the logins.                 *)
LoginMove(t) ==
    ReadCounter(t) \/ LoginServed(t) \/ SignOut(t) \/ LoginThrows(t) \/ CountUnanswered(t)

LEMMA LoginMoves ==
  ASSUME [Next]_vars
  PROVE  (\E t \in Tabs : LoginMove(t)) \/ LoginsDie \/ LockExpires \/ UNCHANGED loginVars
<1>1. ASSUME NEW t \in Tabs, TabNext(t) PROVE LoginMove(t) \/ UNCHANGED loginVars
  BY <1>1 DEF TabNext, Ask, Serve, Throw, Leave, OpenForm, Save, Enter, LoginMove
<1>2. CASE Boot
  BY <1>2 DEF Boot, Start, ApiListens, ResolveSessions, InitPool, BootFails, Stopped, ContainerEnds
<1>3. CASE Stop \/ Dies \/ Beat \/ HealthCheck \/ HalfMinute \/ Lock \/ UNCHANGED vars
  BY <1>3 DEF Stop, Dies, ContainerEnds, Beat, HealthCheck, HalfMinute, Lock, vars
<1> QED
  BY <1>1, <1>2, <1>3 DEF Next

LEMMA LoginTyped ==
  ASSUME LoginTypeOK,
         (\E t \in Tabs : LoginMove(t)) \/ LoginsDie \/ LockExpires \/ UNCHANGED loginVars
  PROVE  LoginTypeOK'
<1> USE DEF LoginTypeOK
<1>1. ASSUME NEW t \in Tabs, LoginMove(t) PROVE LoginTypeOK'
  <2> USE <1>1 DEF LoginMove, LoginServed, ReadCounter, Verify, Count, SetExpiry, Reset, Audit,
                   SignOut, LoginThrows, CountUnanswered, Advance
  <2>1. fails' \in Nat
    OBVIOUS
  <2>2. login' \in [Tabs -> LoginStep]
    BY DEF LoginStep
  <2>3. cut' \in BOOLEAN
    BY Zenon
  <2>4. (fails > 0) \in BOOLEAN
    OBVIOUS
  <2>5. expiring' \in BOOLEAN
    BY <2>4, Zenon
  <2> QED
    BY <2>1, <2>2, <2>3, <2>5
<1>2. CASE LoginsDie \/ LockExpires \/ UNCHANGED loginVars
  <2>1. fails' \in Nat /\ login' \in [Tabs -> LoginStep]
    BY <1>2 DEF LoginStep, LoginsDie, LockExpires, loginVars
  <2>2. cut' \in BOOLEAN /\ expiring' \in BOOLEAN
    BY <1>2, Zenon DEF LoginsDie, LockExpires, loginVars
  <2> QED
    BY <2>1, <2>2
<1> QED
  BY <1>1, <1>2

(* Whoever is counted leaves those who are still guessing.                 *)
LEMMA CountedOnce ==
  ASSUME LoginInv, NEW t \in Tabs, login[t] = "count", login' = [login EXCEPT ![t] = "out"]
                                                      \/ login' = [login EXCEPT ![t] = "expire"],
         fails' = fails + 1
  PROVE  GuessesLeft'
<1> USE DEF LoginInv, LoginTypeOK
<1>1. t \in Guessing /\ Guessing' = Guessing \ {t}
  BY DEF Guessing
<1>2. Cardinality(Guessing') = Cardinality(Guessing) - 1
  BY <1>1, GuessingFinite, FS_RemoveElement DEF Guessing
<1>3. Cardinality(Guessing) \in Nat /\ Cardinality(Tabs) \in Nat
  BY GuessingFinite DEF Guessing
<1> QED
  BY <1>2, <1>3, MaxFailsAssumption DEF GuessesLeft

(* Nobody new guesses and the counter does not grow.                       *)
LEMMA NoNewGuess ==
  ASSUME LoginInv, fails' <= fails, fails' \in Nat, Guessing' \subseteq Guessing
  PROVE  GuessesLeft'
<1>1. Cardinality(Guessing') <= Cardinality(Guessing)
  BY GuessingFinite, FS_Subset DEF Guessing
<1>2. Cardinality(Guessing) \in Nat /\ Cardinality(Tabs) \in Nat
  BY GuessingFinite DEF Guessing
<1>3. Cardinality(Guessing') \in Nat
  BY GuessingFinite DEF Guessing
<1> QED
  BY <1>1, <1>2, <1>3, MaxFailsAssumption DEF LoginInv, LoginTypeOK, GuessesLeft

LEMMA GuessesLeftKept ==
  ASSUME LoginInv,
         (\E t \in Tabs : LoginMove(t)) \/ LoginsDie \/ LockExpires \/ UNCHANGED loginVars
  PROVE  GuessesLeft'
<1> USE DEF LoginInv, LoginTypeOK
<1>1. ASSUME NEW t \in Tabs, ReadCounter(t) PROVE GuessesLeft'
  <2>1. /\ Cardinality(Guessing') \in Nat /\ Cardinality(Tabs) \in Nat
        /\ Cardinality(Guessing') <= Cardinality(Tabs)
    BY GuessingFinite DEF Guessing
  <2> QED
    BY <1>1, <2>1, MaxFailsAssumption DEF ReadCounter, GuessesLeft
<1>2. ASSUME NEW t \in Tabs, Count(t) \/ CountUnanswered(t) PROVE GuessesLeft'
  BY <1>2, CountedOnce DEF Count, CountUnanswered, Advance
<1>3. ASSUME NEW t \in Tabs,
             Verify(t) \/ SetExpiry(t) \/ Reset(t) \/ Audit(t) \/ SignOut(t) \/ LoginThrows(t)
      PROVE  GuessesLeft'
  <2>1. fails' <= fails /\ fails' \in Nat
    BY <1>3 DEF Verify, SetExpiry, Reset, Audit, SignOut, LoginThrows
  <2>2. Guessing' \subseteq Guessing
    BY <1>3 DEF Verify, SetExpiry, Reset, Audit, SignOut, LoginThrows, Advance, Guessing
  <2> QED
    BY <2>1, <2>2, NoNewGuess
<1>4. CASE LoginsDie \/ LockExpires \/ UNCHANGED loginVars
  <2>1. fails' <= fails /\ fails' \in Nat
    BY <1>4 DEF LoginsDie, LockExpires, loginVars
  <2>2. Guessing' \subseteq Guessing
    BY <1>4 DEF LoginsDie, LockExpires, loginVars, Guessing
  <2> QED
    BY <2>1, <2>2, NoNewGuess
<1> QED
  BY <1>1, <1>2, <1>3, <1>4 DEF LoginMove, LoginServed

LEMMA CounterEndsKept ==
  ASSUME LoginInv,
         (\E t \in Tabs : LoginMove(t)) \/ LoginsDie \/ LockExpires \/ UNCHANGED loginVars
  PROVE  CounterEnds'
<1> USE DEF LoginInv, LoginTypeOK, CounterEnds
<1>1. ASSUME NEW t \in Tabs, Count(t) \/ CountUnanswered(t) PROVE CounterEnds'
  <2>1. CASE fails = 0
    <3>1. CASE Count(t)
      BY <2>1, <3>1 DEF Count, Advance
    <3>2. CASE CountUnanswered(t)
      <4>1. cut'
        BY <2>1, <3>2, Zenon DEF CountUnanswered
      <4> QED
        BY <4>1, Zenon
    <3> QED
      BY <1>1, <3>1, <3>2
  <2>2. CASE fails > 0
    <3>1. \A u \in Tabs : login[u] = "expire" => login'[u] = "expire"
      BY <1>1, <2>2 DEF Count, CountUnanswered, Advance
    <3> QED
      BY <1>1, <2>2, <3>1 DEF Count, CountUnanswered
  <2> QED
    BY <2>1, <2>2
<1>2. ASSUME NEW t \in Tabs, SetExpiry(t) \/ Reset(t) PROVE CounterEnds'
  <2>1. CASE SetExpiry(t)
    BY <2>1, Zenon DEF SetExpiry
  <2>2. CASE Reset(t)
    BY <2>2 DEF Reset
  <2> QED
    BY <1>2, <2>1, <2>2
<1>3. ASSUME NEW t \in Tabs, ReadCounter(t) \/ Verify(t) \/ Audit(t) \/ SignOut(t)
      PROVE  CounterEnds'
  <2>1. \A u \in Tabs : login[u] = "expire" => login'[u] = "expire"
    BY <1>3 DEF ReadCounter, Verify, Audit, SignOut, Advance
  <2> QED
    BY <1>3, <2>1 DEF ReadCounter, Verify, Audit, SignOut
<1>4. ASSUME NEW t \in Tabs, LoginThrows(t) PROVE CounterEnds'
  <2>1. \A u \in Tabs \ {t} : login'[u] = login[u]
    BY <1>4 DEF LoginThrows
  <2>2. CASE login[t] = "expire"
    <3>1. cut'
      BY <1>4, <2>2, Zenon DEF LoginThrows
    <3> QED
      BY <3>1, Zenon
  <2>3. CASE login[t] # "expire"
    BY <1>4, <2>1, <2>3 DEF LoginThrows
  <2> QED
    BY <2>2, <2>3
<1>5. CASE LoginsDie
  BY <1>5, Zenon DEF LoginsDie
<1>6. CASE LockExpires \/ UNCHANGED loginVars
  BY <1>6 DEF LockExpires, loginVars
<1> QED
  BY <1>1, <1>2, <1>3, <1>4, <1>5, <1>6 DEF LoginMove, LoginServed

-----------------------------------------------------------------------------
(* The rest *)

LEMMA TypeKept ==
  ASSUME Inv, [Next]_vars
  PROVE  DeploymentTypeOK'
<1> USE DEF Inv, DeploymentTypeOK
<1>1. LoginTypeOK'
  BY LoginMoves, LoginTyped
<1>2. Fault \/ UNCHANGED faults => faults' \in 0 .. MaxFaults
  BY MaxFaultsAssumption DEF Fault
<1>3. ASSUME ContainerEnds, UNCHANGED <<age, settingsVars>>, Fault \/ UNCHANGED faults
      PROVE  DeploymentTypeOK'
  BY <1>1, <1>2, <1>3 DEF ContainerEnds, settingsVars
<1>4. CASE Start \/ ApiListens \/ Stop
  BY <1>1, <1>2, <1>4 DEF Start, ApiListens, Stop, settingsVars
<1>5. CASE ResolveSessions
  <2>1. found' \subseteq Strings /\ healthy' \subseteq Strings
    BY <1>5, StringsAssumption DEF ResolveSessions, InDb
  <2>2. UNCHANGED <<main, api, age, stored, form>> /\ worker' = "resolved"
    BY <1>5 DEF ResolveSessions, settingsVars
  <2>3. stale' \in BOOLEAN /\ faults' \in 0 .. MaxFaults
    BY <1>2, <1>5 DEF ResolveSessions
  <2> QED
    BY <1>1, <2>1, <2>2, <2>3
<1>6. CASE InitPool \/ Beat \/ HealthCheck \/ HalfMinute \/ Lock \/ UNCHANGED vars
  BY <1>1, <1>2, <1>6 DEF InitPool, Beat, HealthCheck, HalfMinute, Lock, vars, bootVars,
                         settingsVars, StaleAge
<1>7. ASSUME NEW t \in Tabs, TabNext(t) PROVE DeploymentTypeOK'
  <2>1. CASE Ask(t) \/ Serve(t) \/ Throw(t)
    BY <1>1, <1>2, <2>1 DEF Ask, Serve, Throw, bootVars, settingsVars
  <2>2. CASE Leave(t) \/ OpenForm(t) \/ (\E s \in Strings : Enter(t, s))
    BY <1>1, <2>2 DEF Leave, OpenForm, Masked, Enter, bootVars
  <2>3. CASE Save(t)
    BY <1>1, <2>3 DEF Save, Update
  <2> QED
    BY <1>7, <2>1, <2>2, <2>3 DEF TabNext
<1> QED
  BY <1>3, <1>4, <1>5, <1>6, <1>7 DEF Next, Boot, Stopped, BootFails, Dies

LEMMA ReadStoredKept ==
  ASSUME Inv, [Next]_vars
  PROVE  ReadStored'
<1> USE DEF Inv, ReadStored, DeploymentTypeOK
<1>1. CASE Boot
  BY <1>1 DEF Boot, Start, ApiListens, ResolveSessions, InitPool, BootFails, Stopped,
              ContainerEnds, InDb, settingsVars
<1>2. CASE Stop \/ Dies \/ Beat \/ HealthCheck \/ HalfMinute \/ Lock \/ UNCHANGED vars
  BY <1>2 DEF Stop, Dies, ContainerEnds, Beat, HealthCheck, HalfMinute, Lock, vars, bootVars,
              settingsVars
<1>3. ASSUME NEW t \in Tabs, TabNext(t), ~Save(t) PROVE ReadStored'
  BY <1>3 DEF TabNext, Ask, Serve, Throw, Leave, OpenForm, Enter, bootVars, settingsVars
<1>4. ASSUME NEW t \in Tabs, Save(t) PROVE ReadStored'
  <2>1. UNCHANGED <<worker, found>> /\ stored' = form[t]
    BY <1>4 DEF Save, Update
  <2>2. CASE stored' \in found \/ worker \in {"none", "booting"}
    BY <2>1, <2>2
  <2>3. CASE stored' \notin found /\ worker \notin {"none", "booting"}
    <3>1. stale'
      BY <1>4, <2>1, <2>3, Zenon DEF Save, Update
    <3> QED
      BY <3>1, Zenon
  <2> QED
    BY <2>2, <2>3
<1> QED
  BY <1>1, <1>2, <1>3, <1>4 DEF Next

LEMMA InvHolds == Spec => []Inv
<1>1. Inv /\ [Next]_vars => Inv'
  <2> SUFFICES ASSUME Inv, [Next]_vars PROVE Inv'
    OBVIOUS
  <2>1. LoginInv
    BY DEF Inv, LoginInv, DeploymentTypeOK
  <2> QED
    BY <2>1, LoginMoves, TypeKept, GuessesLeftKept, CounterEndsKept, ReadStoredKept DEF Inv
<1> QED
  BY <1>1, InitHolds, PTL DEF Spec

-----------------------------------------------------------------------------
(* Theorems *)

(* Container, worker, sessions, form and logins keep their types.          *)
THEOREM DeploymentTypeCorrect == Spec => []DeploymentTypeOK
  BY InvHolds, PTL DEF Inv

(* However many tabs try at once, a lock is overrun by less than one       *)
(* counted password for each of them.                                      *)
THEOREM LockIsTight == Spec => []GuessesBounded
<1>1. Inv => GuessesBounded
  BY GuessingFinite, MaxFailsAssumption
     DEF Inv, DeploymentTypeOK, LoginTypeOK, GuessesLeft, GuessesBounded, Guessing
<1> QED
  BY <1>1, InvHolds, PTL

(* INCR, EXPIRE and DEL of different logins in any order leave no counter  *)
(* without an expiry for good, unless the login that made it was cut off.  *)
THEOREM CountersEnd == Spec => []CounterEnds
  BY InvHolds, PTL DEF Inv

(* A worker holds the stored session whatever the environment has, unless  *)
(* it was stored since the worker booted.                                  *)
THEOREM FreshIsServed == Spec => []FreshSessionServes
<1>1. Inv => FreshSessionServes
  BY DEF Inv, ReadStored, FreshSessionServes
<1> QED
  BY <1>1, InvHolds, PTL
=============================================================================
