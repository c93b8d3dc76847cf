----------------------------- MODULE Deployment -----------------------------
(***************************************************************************)
(* The container: start-combined.js forks the API and the worker and ends  *)
(* with whichever ends first; the worker resolves its Telegram sessions    *)
(* from the environment and the settings row once, at boot, and beats; an  *)
(* administrator logs in and saves a fresh session in the settings form,   *)
(* which the next worker takes up.                                         *)
(***************************************************************************)
EXTENDS AdminLogin

CONSTANTS
    Strings,     \* session strings
    Authorised,  \* those Telegram accepts
    Malformed,   \* those StringSession throws on; in EnvSessions, also those
                 \* that cannot be decrypted
    EnvSessions, \* TG_SESSIONS and TG_SESSION
    NoString,    \* no session: an empty field, a null column
    Placeholder, \* the bullets the API shows for a stored session
    MaxFaults    \* bound: how many deaths and failures

ASSUME StringsAssumption ==
    /\ Authorised \subseteq Strings /\ Malformed \subseteq Strings /\ EnvSessions \subseteq Strings
    /\ Authorised \cap Malformed = {}
    /\ NoString \notin Strings /\ Placeholder \notin Strings
ASSUME MaxFaultsAssumption == MaxFaults \in Nat

VARIABLES
    main,    \* the container
    api,     \* does the API listen?
    worker,  \* where the worker stands
    found,   \* the sessions resolveSessions found
    healthy, \* those the pool can use
    age,     \* half minutes since the last beat, up to StaleAge
    stored,  \* the session in the settings row
    form,    \* the session field of a tab's settings form
    stale,   \* history: was a session stored that this worker did not read?
    faults   \* how many faults have occurred

bootVars == <<main, api, worker, found, healthy, stale>>
settingsVars == <<stored, form>>
vars == <<loginVars, bootVars, age, settingsVars, faults>>

(* HEARTBEAT_STALE_MS: a beat counts for 90 s.                             *)
StaleAge == 3

DeploymentTypeOK ==
    /\ LoginTypeOK
    /\ main \in {"down", "up", "stopping"}
    /\ api \in BOOLEAN
    /\ worker \in {"none", "booting", "resolved", "running", "closing"}
    /\ found \subseteq Strings /\ healthy \subseteq Strings
    /\ age \in 0 .. StaleAge
    /\ stored \in Strings \cup {NoString}
    /\ form \in [Tabs -> Strings \cup {NoString, Placeholder}]
    /\ stale \in BOOLEAN
    /\ faults \in 0 .. MaxFaults

Init ==
    /\ LoginInit
    /\ main = "down" /\ api = FALSE /\ worker = "none"
    /\ found = {} /\ healthy = {}
    /\ age = StaleAge
    /\ stored = NoString
    /\ form = [t \in Tabs |-> NoString]
    /\ stale = FALSE
    /\ faults = 0

Fault == faults < MaxFaults /\ faults' = faults + 1

-----------------------------------------------------------------------------
(* start-combined.js *)

(* The platform starts the container, which forks both.                    *)
Start ==
    /\ main = "down"
    /\ main' = "up" /\ worker' = "booting"
    /\ UNCHANGED <<loginVars, api, found, healthy, stale, age, settingsVars, faults>>

(* Mutant: the parent outlives the child.                                  *)
ContainerStays ==
    /\ worker' = "none" /\ found' = {} /\ healthy' = {} /\ stale' = FALSE
    /\ UNCHANGED <<loginVars, main, api>>

(* A child exits: the parent follows, and takes the other child with it.   *)
ContainerEnds ==
    /\ main' = "down" /\ api' = FALSE /\ worker' = "none"
    /\ found' = {} /\ healthy' = {} /\ stale' = FALSE
    /\ LoginsDie

(* SIGTERM is passed on to both children.                                  *)
Stop ==
    /\ main = "up" /\ Fault
    /\ main' = "stopping"
    /\ worker' = IF worker = "running" THEN "closing" ELSE worker
    /\ UNCHANGED <<loginVars, api, found, healthy, stale, age, settingsVars>>

(* The shutdown hooks of the API, or those of the worker, are through: the *)
(* first to exit ends the other one.  A worker still booting has none.     *)
Stopped ==
    /\ main = "stopping"
    /\ ContainerEnds
    /\ UNCHANGED <<age, settingsVars, faults>>

(* A child dies.                                                           *)
Dies ==
    /\ main # "down" /\ Fault
    /\ ContainerEnds
    /\ UNCHANGED <<age, settingsVars>>

ApiListens ==
    /\ main = "up" /\ ~api
    /\ api' = TRUE
    /\ UNCHANGED <<loginVars, main, worker, found, healthy, stale, age, settingsVars, faults>>

-----------------------------------------------------------------------------
(* worker.ts: main *)

(* SettingsService encrypts with the key the worker decrypts with.         *)
InDb == IF stored = NoString THEN {} ELSE {stored}

(* Mutant: the settings row is read only when the environment has none.    *)
ResolveFirstSource ==
    /\ worker = "booting"
    /\ worker' = "resolved"
    /\ found' = IF EnvSessions # {} THEN EnvSessions ELSE InDb
    /\ UNCHANGED <<loginVars, main, api, healthy, stale, age, settingsVars, faults>>

(* resolveSessions; a database that cannot be read is left out.            *)
ResolveSessions ==
    /\ worker = "booting"
    /\ worker' = "resolved"
    /\ \/ found' = EnvSessions \cup InDb /\ UNCHANGED <<stale, faults>>
       \/ Fault /\ found' = EnvSessions /\ stale' = TRUE
    /\ UNCHANGED <<loginVars, main, api, healthy, age, settingsVars>>

Bootable(strings) == strings # {} /\ strings \cap Malformed = {}

(* No session at all, or one of them is none: Fatal worker error.          *)
BootFails ==
    /\ worker = "resolved" /\ ~Bootable(found)
    /\ ContainerEnds
    /\ UNCHANGED <<age, settingsVars, faults>>

(* pool.init, where any session may fail to connect, and the first beat.   *)
InitPool ==
    /\ worker = "resolved" /\ Bootable(found)
    /\ worker' = "running"
    /\ healthy' \in SUBSET (found \cap Authorised)
    /\ age' = 0
    /\ UNCHANGED <<loginVars, main, api, found, stale, settingsVars, faults>>

(* Every half minute.                                                      *)
Beat ==
    /\ worker = "running"
    /\ age' = 0
    /\ UNCHANGED <<loginVars, bootVars, settingsVars, faults>>

(* Every minute: a session that is authorised, and can be connected, is    *)
(* healthy again.                                                          *)
HealthCheck ==
    /\ worker = "running"
    /\ \/ healthy' = found \cap Authorised /\ UNCHANGED faults
       \/ Fault /\ healthy' \in SUBSET (found \cap Authorised)
    /\ UNCHANGED <<loginVars, main, api, worker, found, stale, age, settingsVars>>

-----------------------------------------------------------------------------
(* Time, and GET /health *)

HalfMinute ==
    /\ age < StaleAge
    /\ age' = age + 1
    /\ UNCHANGED <<loginVars, bootVars, settingsVars, faults>>

(* Mutant: any beat will do.                                               *)
ReportedOnce == TRUE

(* checks.worker.                                                          *)
WorkerReported == age < StaleAge

-----------------------------------------------------------------------------
(* The settings form, behind the administrator's login *)

Lock ==
    /\ LockExpires
    /\ UNCHANGED <<bootVars, age, settingsVars, faults>>

(* A request of a tab reaches the API and is served.                       *)
Ask(t) ==
    /\ api /\ ReadCounter(t)
    /\ UNCHANGED <<bootVars, age, settingsVars, faults>>

Serve(t) == LoginServed(t) /\ UNCHANGED <<bootVars, age, settingsVars, faults>>

Throw(t) ==
    /\ Fault
    /\ LoginThrows(t) \/ CountUnanswered(t)
    /\ UNCHANGED <<bootVars, age, settingsVars>>

Leave(t) ==
    /\ SignOut(t)
    /\ form' = [form EXCEPT ![t] = NoString]
    /\ UNCHANGED <<bootVars, age, stored, faults>>

(* JwtAuthGuard: only with a token.                                        *)
Authenticated(t) == api /\ login[t] = "in"

(* SettingsService.get never shows the session itself.                     *)
Masked == IF stored = NoString THEN NoString ELSE Placeholder

OpenForm(t) ==
    /\ Authenticated(t)
    /\ form' = [form EXCEPT ![t] = Masked]
    /\ UNCHANGED <<loginVars, bootVars, age, stored, faults>>

Enter(t, s) ==
    /\ login[t] = "in"
    /\ form' = [form EXCEPT ![t] = s]
    /\ UNCHANGED <<loginVars, bootVars, age, stored, faults>>

(* SettingsService.update; the worker that runs does not hear of it.       *)
Update(s) ==
    /\ stored' = s
    /\ stale' = (stale \/ (worker \notin {"none", "booting"} /\ s \notin found))

(* onSave: an empty or masked field is not sent.                           *)
Save(t) ==
    /\ Authenticated(t)
    /\ form[t] \in Strings /\ Update(form[t])
    /\ UNCHANGED <<loginVars, main, api, worker, found, healthy, age, form, faults>>

-----------------------------------------------------------------------------
(* The system *)

TabNext(t) ==
    \/ Ask(t) \/ Serve(t) \/ Throw(t) \/ Leave(t) \/ OpenForm(t) \/ Save(t)
    \/ \E s \in Strings : Enter(t, s)

Boot == Start \/ ApiListens \/ ResolveSessions \/ InitPool \/ BootFails \/ Stopped

Next ==
    \/ Boot \/ Stop \/ Dies \/ Beat \/ HealthCheck \/ HalfMinute \/ Lock
    \/ \E t \in Tabs : TabNext(t)

Spec == Init /\ [][Next]_vars

(* The platform restarts what ended, boots go on, timers fire, the API     *)
(* serves what it was asked and Redis expires keys.                        *)
FairSpec ==
    /\ Spec
    /\ WF_vars(Start) /\ WF_vars(ResolveSessions) /\ WF_vars(InitPool \/ BootFails)
    /\ WF_vars(ApiListens) /\ WF_vars(Stopped)
    /\ WF_vars(Beat) /\ WF_vars(HealthCheck) /\ WF_vars(HalfMinute) /\ WF_vars(Lock)
    /\ \A t \in Tabs : WF_vars(Serve(t))

-----------------------------------------------------------------------------
(* Properties *)

(* worker.ts:83, "Env sessions and the admin Settings session are all      *)
(* tried so one stale env value cannot block a fresh DB-stored session":   *)
(* the stored session is in the pool of every worker that could read it.   *)
(* The stale value is one Telegram refuses; a malformed one, on which the  *)
(* pool cannot be built, keeps the worker from running at all.             *)
FreshSessionServes ==
    worker = "running" /\ ~stale /\ stored # NoString => stored \in found

(* A lock ends, unless the login that made the counter was cut off, by a   *)
(* death of the container or of Redis, before it gave it an expiry.        *)
LockEnds == fails >= MaxFails ~> fails < MaxFails \/ cut

(* Whatever died, a worker comes back with every good session among those  *)
(* it found at its boot, unless a session is stored on which the pool      *)
(* cannot be built. A session stored later, or missed by a failed read of  *)
(* the settings row, waits for the next boot.                              *)
WorkerComesBack ==
    []Bootable(EnvSessions \cup InDb)
    => []<>(worker = "running" /\ healthy = found \cap Authorised)

(* A worker that stays away is reported: nobody else beats for it, and its *)
(* last beat counts for one age, that of HEARTBEAT_STALE_MS.               *)
DeadWorkerShows == worker # "running" ~> worker = "running" \/ ~WorkerReported
=============================================================================
