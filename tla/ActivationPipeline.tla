-------------------------- MODULE ActivationPipeline --------------------------
(***************************************************************************)
(* A device login from POST /login to its final status: the API reserves   *)
(* the key, enqueues a job and caches "pending"; a worker takes the job,   *)
(* sends /login to the Telegram bot, commits the licence and caches the    *)
(* outcome.  The handlers are split at their awaits.  Postgres is          *)
(* LicenseDb; Redis holds the idempotency keys and the status cache.       *)
(*                                                                         *)
(* Whatever the environment may do wrong is a fault of a named kind: a run *)
(* chooses the kinds (Faults) and how many may occur (MaxFaults).          *)
(***************************************************************************)
EXTENDS LicenseDb

CONSTANTS
    Workers,     \* job slots of the worker process (WORKER_CONCURRENCY)
    Nobody,      \* the owner of a job whose lock nobody holds
    NoRequest,   \* what an idle slot works on
    Verdicts,    \* what parseReply may make of the bot's reply
    SendErrors,  \* how sendAndAwaitReply may throw
    Attempts,    \* attempts of a job (3 in the queue's options)
    MaxStalled,  \* BullMQ's maxStalledCount (1 unless configured)
    Faults,      \* the kinds of fault the environment may produce
    MaxFaults    \* bound: how many of them

ASSUME WorkersAssumption == IsFiniteSet(Workers)
ASSUME NobodyAssumption == Nobody \notin Workers
ASSUME NoRequestAssumption == NoRequest \notin Requests
ASSUME AttemptsAssumption == Attempts \in Nat \ {0}
ASSUME MaxStalledAssumption == MaxStalled \in Nat
ASSUME MaxFaultsAssumption == MaxFaults \in Nat
ASSUME VerdictsAssumption == Verdicts \subseteq {"ok", "invalid", "expired", "unrecognized"}
ASSUME ErrorCodeAssumption ==
    {"ERR_BOT_INVALID", "ERR_ACTIVATION_EXPIRED", "ERR_ACTIVATION_TIMEOUT",
     "ERR_BOT_UNRECOGNIZED", "ERR_DUPLICATE_LOGIN", "ERR_COMMIT", "ERR_INTERNAL"} \subseteq ErrorCode
ASSUME NoErrorAssumption == NoError \notin ErrorCode
ASSUME SendErrorsAssumption ==
    SendErrors \subseteq {"NO_HEALTHY_SESSION", "FLOOD_WAIT", "TG_TIMEOUT"}

VARIABLES
    api,     \* where ActivationService.activate stands, by request
    job,     \* the BullMQ job whose id is the request id
    slot,    \* where processJob stands, by worker slot
    sent,    \* Redis login:sent:<request>
    stored,  \* Redis login:reply:<request>
    cache,   \* Redis status:<request>
    logins,  \* how many /login commands of a request the bot was given
    lost,    \* history: how many marks and locks of a request were lost
    aged,    \* the requests older than PENDING_TIMEOUT_MS
    faults   \* how many faults have occurred

apiVars == <<api, aged>>
queueVars == <<job, slot>>
redisVars == <<sent, stored, cache>>
vars == <<dbVars, apiVars, queueVars, redisVars, logins, lost, faults>>

-----------------------------------------------------------------------------
(* States, codes and what they map to *)

Terminal == {"success", "invalid_code", "activation_expired", "server_error", "timeout"}

Outcome == [state : Terminal, code : ErrorCode \cup {NoError}]

NoOutcome == [state |-> "server_error", code |-> NoError]

(* mapBotFailureStatus *)
BotFailure(verdict) ==
    IF verdict = "expired" THEN [state |-> "activation_expired", code |-> "ERR_ACTIVATION_EXPIRED"]
    ELSE IF verdict = "invalid" THEN [state |-> "invalid_code", code |-> "ERR_BOT_INVALID"]
    ELSE [state |-> "server_error", code |-> "ERR_BOT_UNRECOGNIZED"]

(* mapCommitFailureStatus: the code is the message of whatever was thrown. *)
CommitFailure == [state |-> "server_error", code |-> "ERR_COMMIT"]

DuplicateLogin == [state |-> "server_error", code |-> "ERR_DUPLICATE_LOGIN"]

(* mapExhaustedJobError *)
ExhaustedError(err) ==
    IF err = "TG_TIMEOUT"
    THEN [state |-> "timeout", code |-> "ERR_ACTIVATION_TIMEOUT"]
    ELSE [state |-> "server_error", code |-> "ERR_INTERNAL"]

(* The second half of getStatus: what the activations row says.            *)
FailedState(error) ==
    IF error = "ERR_ACTIVATION_EXPIRED" THEN "activation_expired"
    ELSE IF error = "ERR_ACTIVATION_TIMEOUT" THEN "timeout"
    ELSE IF error = "ERR_BOT_INVALID" THEN "invalid_code" ELSE "server_error"

DbState(r) ==
    LET row == activations[r] IN
    IF row.result = "none" THEN "not_found"
    ELSE IF row.result = "pending" THEN IF aged[r] THEN "timeout" ELSE "pending"
    ELSE IF row.result = "failed" THEN FailedState(row.error) ELSE "success"

(* GET /status: the cache when it holds anything, else the row.            *)
Answer(r) == IF cache[r] # "none" THEN cache[r] ELSE DbState(r)

-----------------------------------------------------------------------------
(* Types and initial state *)

ApiStep == {"idle", "enqueue", "markFailed", "setError", "setPending", "returned",
            "rejected", "crashed"}

SlotStep == {"idle", "read", "getReply", "getSent", "setSent", "send", "storeReply",
             "commit", "success", "clean", "dlq", "failDb", "failStatus", "finish"}

Job == [state : {"none", "waiting", "active", "completed", "failed"},
        key : Keys \cup {NoKey}, owner : Workers \cup {Nobody},
        made : Nat, stalls : Nat]

Slot == [step : SlotStep, req : Requests \cup {NoRequest}, reply : Verdicts \cup {"none"}, outcome : Outcome]

IdleSlot == [step |-> "idle", req |-> NoRequest, reply |-> "none", outcome |-> NoOutcome]

PipelineTypeOK ==
    /\ DbTypeOK
    /\ api \in [Requests -> ApiStep]
    /\ job \in [Requests -> Job]
    /\ slot \in [Workers -> Slot]
    /\ sent \in [Requests -> BOOLEAN]
    /\ stored \in [Requests -> Verdicts \cup {"none"}]
    /\ cache \in [Requests -> Terminal \cup {"pending", "none"}]
    /\ logins \in [Requests -> Nat]
    /\ lost \in [Requests -> Nat]
    /\ aged \in [Requests -> BOOLEAN]
    /\ faults \in 0 .. MaxFaults

PipelineInit ==
    /\ DbInit
    /\ api = [r \in Requests |-> "idle"]
    /\ job = [r \in Requests |-> [state |-> "none", key |-> NoKey, owner |-> Nobody,
                                  made |-> 0, stalls |-> 0]]
    /\ slot = [w \in Workers |-> IdleSlot]
    /\ sent = [r \in Requests |-> FALSE]
    /\ stored = [r \in Requests |-> "none"]
    /\ cache = [r \in Requests |-> "none"]
    /\ logins = [r \in Requests |-> 0]
    /\ lost = [r \in Requests |-> 0]
    /\ aged = [r \in Requests |-> FALSE]
    /\ faults = 0

Fault(kind) == kind \in Faults /\ faults < MaxFaults /\ faults' = faults + 1
Works == UNCHANGED faults

(* A mark that is not written or expires, or a lock not renewed in time.   *)
Loses(r) == lost' = [lost EXCEPT ![r] = @ + 1]

-----------------------------------------------------------------------------
(* The API: ActivationService.activate, one step per await *)

(* An administrator creates the key the user will type.                    *)
IssueKey(k) ==
    /\ \E d \in Durations : CreateKey(k, d)
    /\ UNCHANGED <<apiVars, queueVars, redisVars, logins, lost, faults>>

(* An administrator bans the key; the second half of LicenseService.ban.   *)
Ban(k) ==
    /\ Fault("ban")
    /\ WriteStatus(k, "banned")
    /\ UNCHANGED <<apiVars, queueVars, redisVars, logins, lost>>

(* reserveActivation; a refused reservation answers an error and leaves    *)
(* nothing behind, neither row nor cache entry.                            *)
Activate(r, k) ==
    /\ api[r] = "idle"
    /\ Reserve(r, k)
    /\ api' = [api EXCEPT ![r] = "enqueue"]
    /\ UNCHANGED <<aged, queueVars, redisVars, logins, lost, faults>>

(* The license key travels in the job's data; the job id is the request id.*)
AddJob(r) == [job EXCEPT ![r].state = "waiting", ![r].key = activations[r].license]

Enqueue(r) ==
    /\ api[r] = "enqueue"
    /\ job' = AddJob(r)
    /\ api' = [api EXCEPT ![r] = "setPending"]
    /\ UNCHANGED <<dbVars, aged, slot, redisVars, logins, lost, faults>>

(* Mutant: the handler gives up on a job it has already added.             *)
EnqueueThrowsAfterAdd(r) ==
    /\ api[r] = "enqueue"
    /\ Fault("enqueue") /\ job' = AddJob(r)
    /\ api' = [api EXCEPT ![r] = "markFailed"]
    /\ UNCHANGED <<dbVars, aged, slot, redisVars, logins, lost>>

(* queue.add throws: Redis refused the job, or took it and the answer was  *)
(* lost.                                                                   *)
EnqueueThrows(r) ==
    /\ api[r] = "enqueue"
    /\ \/ Fault("enqueue") /\ UNCHANGED job
       \/ Fault("enqueueLost") /\ job' = AddJob(r)
    /\ api' = [api EXCEPT ![r] = "markFailed"]
    /\ UNCHANGED <<dbVars, aged, slot, redisVars, logins, lost>>

(* failReservedActivation; its own failure is caught and logged.           *)
MarkReservationFailed(r) ==
    /\ api[r] = "markFailed"
    /\ \/ Works /\ FailIfPending(r)
       \/ Fault("db") /\ UNCHANGED dbVars
    /\ api' = [api EXCEPT ![r] = "setError"]
    /\ UNCHANGED <<aged, queueVars, redisVars, logins, lost>>

(* StatusStore.set; its failure is caught and logged wherever the API or   *)
(* the worker calls it.                                                    *)
WriteCache(r, state) ==
    \/ Works /\ cache' = [cache EXCEPT ![r] = state]
    \/ Fault("redis") /\ UNCHANGED cache

SetEnqueueError(r) ==
    /\ api[r] = "setError"
    /\ WriteCache(r, "server_error")
    /\ api' = [api EXCEPT ![r] = "rejected"]
    /\ UNCHANGED <<dbVars, aged, queueVars, sent, stored, logins, lost>>

(* The pending status is written after the job was enqueued.               *)
SetPending(r) ==
    /\ api[r] = "setPending"
    /\ WriteCache(r, "pending")
    /\ api' = [api EXCEPT ![r] = "returned"]
    /\ UNCHANGED <<dbVars, aged, queueVars, sent, stored, logins, lost>>

InFlight == {"enqueue", "markFailed", "setError", "setPending"}

(* The API process dies with every handler it runs.                        *)
ApiCrash ==
    /\ Fault("apiCrash")
    /\ \E r \in Requests : api[r] \in InFlight
    /\ api' = [r \in Requests |-> IF api[r] \in InFlight THEN "crashed" ELSE api[r]]
    /\ UNCHANGED <<dbVars, aged, queueVars, redisVars, logins, lost>>

(* Two minutes have passed since the row was created.                      *)
Age(r) ==
    /\ "age" \in Faults
    /\ activations[r].result = "pending" /\ ~aged[r]
    /\ aged' = [aged EXCEPT ![r] = TRUE]
    /\ UNCHANGED <<dbVars, api, queueVars, redisVars, logins, lost, faults>>

-----------------------------------------------------------------------------
(* BullMQ: handing out a job, settling it, recovering a stalled one *)

At(w, step) == slot[w].step = step
Goto(w, step) == slot' = [slot EXCEPT ![w].step = step]
Req(w) == slot[w].req
Owns(w) == job[Req(w)].owner = w

Take(w, r) ==
    /\ At(w, "idle")
    /\ job[r].state = "waiting"
    /\ job' = [job EXCEPT ![r].state = "active", ![r].owner = w]
    /\ slot' = [slot EXCEPT ![w] = [IdleSlot EXCEPT !.step = "read", !.req = r]]
    /\ UNCHANGED <<dbVars, apiVars, redisVars, logins, lost, faults>>

(* The processor returned: the job completes, unless its lock was lost.    *)
Finish(w) ==
    /\ At(w, "finish")
    /\ job' = IF Owns(w)
              THEN [job EXCEPT ![Req(w)].state = "completed", ![Req(w)].owner = Nobody]
              ELSE job
    /\ slot' = [slot EXCEPT ![w] = IdleSlot]
    /\ UNCHANGED <<dbVars, apiVars, redisVars, logins, lost, faults>>

(* The 'failed' event acts only when attemptsMade has reached attempts.    *)
JobFails(w, r, err) ==
    IF job[r].made + 1 >= Attempts
    THEN [IdleSlot EXCEPT !.step = "dlq", !.req = r, !.outcome = ExhaustedError(err)]
    ELSE IdleSlot

(* The processor threw: another attempt after the backoff, or the job has  *)
(* failed and its 'failed' event runs.                                     *)
Throw(w, err) ==
    LET r == Req(w) IN
    IF Owns(w)
    THEN /\ job' = [job EXCEPT ![r].made = @ + 1, ![r].owner = Nobody,
                               ![r].state = IF job[r].made + 1 >= Attempts
                                            THEN "failed" ELSE "waiting"]
         /\ slot' = [slot EXCEPT ![w] = JobFails(w, r, err)]
    ELSE /\ slot' = [slot EXCEPT ![w] = IdleSlot]
         /\ UNCHANGED job

(* A job whose lock ran out is put back, at most MaxStalled times; then    *)
(* the worker that finds it fails it without ever running the processor.   *)
RecoverStalled(r) ==
    /\ job[r].state = "active" /\ job[r].owner = Nobody
    /\ job[r].stalls < MaxStalled
    /\ job' = [job EXCEPT ![r].state = "waiting", ![r].stalls = @ + 1]
    /\ UNCHANGED <<dbVars, apiVars, slot, redisVars, logins, lost, faults>>

FailStalled(w, r) ==
    /\ At(w, "idle")
    /\ job[r].state = "active" /\ job[r].owner = Nobody
    /\ job[r].stalls >= MaxStalled
    /\ job' = [job EXCEPT ![r].state = "failed", ![r].made = @ + 1]
    /\ slot' = [slot EXCEPT ![w] = JobFails(w, r, "stalled")]
    /\ UNCHANGED <<dbVars, apiVars, redisVars, logins, lost, faults>>

(* The worker process dies; its jobs keep a lock that nobody renews.       *)
WorkerCrash ==
    /\ Fault("workerCrash")
    /\ \E w \in Workers : ~At(w, "idle")
    /\ slot' = [w \in Workers |-> IdleSlot]
    /\ job' = [r \in Requests |-> [job[r] EXCEPT !.owner = Nobody]]
    /\ UNCHANGED <<dbVars, apiVars, redisVars, logins, lost>>

(* A slot that is alive fails to renew its lock in time and keeps running. *)
LoseLock(w) ==
    /\ ~At(w, "idle") /\ Owns(w)
    /\ Fault("lockLost")
    /\ job' = [job EXCEPT ![Req(w)].owner = Nobody]
    /\ Loses(Req(w))
    /\ UNCHANGED <<dbVars, apiVars, slot, redisVars, logins>>

-----------------------------------------------------------------------------
(* The worker: processJob, one step per await *)

(* The database or Redis does not answer a read: nothing catches it.       *)
ReadThrows(w) ==
    /\ \/ At(w, "read") /\ Fault("db")
       \/ slot[w].step \in {"getReply", "getSent"} /\ Fault("redis")
    /\ Throw(w, "read")
    /\ UNCHANGED <<dbVars, apiVars, redisVars, logins, lost>>

(* Mutant: the test for a terminal state is dropped.                       *)
ReadActivationNoSkip(w) ==
    /\ At(w, "read")
    /\ Goto(w, "getReply")
    /\ UNCHANGED <<dbVars, apiVars, job, redisVars, logins, lost, faults>>

(* A request already in a terminal state is skipped.                       *)
ReadActivation(w) ==
    /\ At(w, "read")
    /\ Goto(w, IF activations[Req(w)].result = "pending" THEN "getReply" ELSE "finish")
    /\ UNCHANGED <<dbVars, apiVars, job, redisVars, logins, lost, faults>>

FailWith(w, outcome) ==
    slot' = [slot EXCEPT ![w].step = "failDb", ![w].outcome = outcome]

(* What parseReply made of the reply decides between commit and failure.   *)
Judge(w, verdict) ==
    IF verdict = "ok" THEN Goto(w, "commit") ELSE FailWith(w, BotFailure(verdict))

(* Mutant: the kept reply is never looked up.                              *)
IgnoreStoredReply(w) ==
    /\ At(w, "getReply")
    /\ Goto(w, "getSent")
    /\ UNCHANGED <<dbVars, apiVars, job, redisVars, logins, lost, faults>>

(* A reply kept by an earlier attempt is used again, nothing is sent.      *)
GetStoredReply(w) ==
    /\ At(w, "getReply")
    /\ IF stored[Req(w)] = "none" THEN Goto(w, "getSent") ELSE Judge(w, stored[Req(w)])
    /\ UNCHANGED <<dbVars, apiVars, job, redisVars, logins, lost, faults>>

(* Mutant: the mark is not looked at.                                      *)
IgnoreSentKey(w) ==
    /\ At(w, "getSent")
    /\ Goto(w, "setSent")
    /\ UNCHANGED <<dbVars, apiVars, job, redisVars, logins, lost, faults>>

(* Mutant: a marked request is dropped without being marked failed.        *)
DropWhenSent(w) ==
    /\ At(w, "getSent")
    /\ Goto(w, IF sent[Req(w)] THEN "finish" ELSE "setSent")
    /\ UNCHANGED <<dbVars, apiVars, job, redisVars, logins, lost, faults>>

(* An earlier attempt marked the command as sent and kept no reply.        *)
GetSentKey(w) ==
    /\ At(w, "getSent")
    /\ IF sent[Req(w)] THEN FailWith(w, DuplicateLogin) ELSE Goto(w, "setSent")
    /\ UNCHANGED <<dbVars, apiVars, job, redisVars, logins, lost, faults>>

(* The mark is set before the command goes out; its failure is ignored.    *)
SetSentKey(w) ==
    /\ At(w, "setSent")
    /\ \/ Works /\ sent' = [sent EXCEPT ![Req(w)] = TRUE] /\ UNCHANGED lost
       \/ Fault("redis") /\ UNCHANGED sent /\ Loses(Req(w))
    /\ Goto(w, "send")
    /\ UNCHANGED <<dbVars, apiVars, job, stored, cache, logins>>

Deliver(w) == logins' = [logins EXCEPT ![Req(w)] = @ + 1]

(* The bot was given the command and its reply came back in time.          *)
SendLogin(w) ==
    /\ At(w, "send")
    /\ Deliver(w)
    /\ \E v \in Verdicts : slot' = [slot EXCEPT ![w].step = "storeReply", ![w].reply = v]
    /\ UNCHANGED <<dbVars, apiVars, job, redisVars, lost, faults>>

(* Nothing was sent (no session, flood wait), or no reply came in time;    *)
(* either way processJob rethrows.                                         *)
SendThrows(w) ==
    /\ At(w, "send")
    /\ \E err \in SendErrors :
          /\ IF err = "TG_TIMEOUT" THEN Deliver(w) ELSE UNCHANGED logins
          /\ Throw(w, err)
    /\ UNCHANGED <<dbVars, apiVars, redisVars, lost, faults>>

StoreReply(w) ==
    /\ At(w, "storeReply")
    /\ \/ Works /\ stored' = [stored EXCEPT ![Req(w)] = slot[w].reply]
       \/ Fault("redis") /\ UNCHANGED stored
    /\ Judge(w, slot[w].reply)
    /\ UNCHANGED <<dbVars, apiVars, job, sent, cache, logins, lost>>

(* Mutant: licence and row are written outside of one transaction and the  *)
(* second write is lost.                                                   *)
CommitWithoutTransaction(w) ==
    LET r == Req(w)
        k == job[r].key IN
    /\ At(w, "commit")
    /\ licenses[k].status = "unused"
    /\ licenses' = Granted(k)
    /\ Goto(w, "success")
    /\ UNCHANGED <<activations, now, apiVars, job, redisVars, logins, lost, faults>>

(* Mutant: success is reported although the commit threw.                  *)
CommitErrorIgnored(w) ==
    LET r == Req(w)
        k == job[r].key IN
    /\ At(w, "commit")
    /\ \/ Works /\ CommitLogin(r, k)
       \/ Works /\ ~LoginCommits(r, k) /\ UNCHANGED dbVars
       \/ Fault("db") /\ UNCHANGED dbVars
    /\ Goto(w, "success")
    /\ UNCHANGED <<apiVars, job, redisVars, logins, lost>>

(* The transaction of commitLicenseActivation: done, refused or never      *)
(* reached the database, or done with its answer lost on the way back.     *)
Commit(w) ==
    LET r == Req(w)
        k == job[r].key IN
    /\ At(w, "commit")
    /\ \/ Works /\ CommitLogin(r, k) /\ Goto(w, "success")
       \/ Works /\ ~LoginCommits(r, k) /\ UNCHANGED dbVars /\ FailWith(w, CommitFailure)
       \/ Fault("db") /\ UNCHANGED dbVars /\ FailWith(w, CommitFailure)
       \/ Fault("commitLost") /\ CommitLogin(r, k) /\ FailWith(w, CommitFailure)
    /\ UNCHANGED <<apiVars, job, redisVars, logins, lost>>

WriteSuccess(w) ==
    /\ At(w, "success")
    /\ WriteCache(Req(w), "success")
    /\ Goto(w, "clean")
    /\ UNCHANGED <<dbVars, apiVars, job, sent, stored, logins, lost>>

(* Two commands on one connection, neither awaited nor retried.            *)
CleanUp(w) ==
    /\ At(w, "clean")
    /\ \/ Works /\ sent' = [sent EXCEPT ![Req(w)] = TRUE]
                /\ stored' = [stored EXCEPT ![Req(w)] = "none"]
       \/ Fault("redis") /\ UNCHANGED <<sent, stored>>
    /\ Goto(w, "finish")
    /\ UNCHANGED <<dbVars, apiVars, job, cache, logins, lost>>

(* The 'failed' event: the job is copied to the dead-letter queue; when    *)
(* that throws, the handler ends there.                                    *)
DeadLetter(w) ==
    /\ At(w, "dlq")
    /\ \/ Works /\ Goto(w, "failDb")
       \/ Fault("redis") /\ Goto(w, "finish")
    /\ UNCHANGED <<dbVars, apiVars, job, redisVars, logins, lost>>

(* Mutant: the error code is left out of session_meta.                     *)
MarkFailedWithoutCode(w) ==
    /\ At(w, "failDb")
    /\ FailAlways(Req(w), NoError)
    /\ Goto(w, "failStatus")
    /\ UNCHANGED <<apiVars, job, redisVars, logins, lost, faults>>

(* Every failure path ends alike: the row is marked failed by request id,  *)
(* an error of that write is caught, and the status is cached.             *)
MarkFailed(w) ==
    /\ At(w, "failDb")
    /\ \/ Works /\ FailAlways(Req(w), slot[w].outcome.code)
       \/ Fault("db") /\ UNCHANGED dbVars
    /\ Goto(w, "failStatus")
    /\ UNCHANGED <<apiVars, job, redisVars, logins, lost>>

WriteFailure(w) ==
    /\ At(w, "failStatus")
    /\ WriteCache(Req(w), slot[w].outcome.state)
    /\ Goto(w, "finish")
    /\ UNCHANGED <<dbVars, apiVars, job, sent, stored, logins, lost>>

-----------------------------------------------------------------------------
(* Redis drops what has outlived its time to live *)

IdempotencyKeyExpires(r) ==
    /\ Fault("ttl")
    /\ \/ sent[r] /\ sent' = [sent EXCEPT ![r] = FALSE] /\ Loses(r) /\ UNCHANGED stored
       \/ /\ stored[r] # "none" /\ stored' = [stored EXCEPT ![r] = "none"]
          /\ UNCHANGED <<sent, lost>>
    /\ UNCHANGED <<dbVars, apiVars, queueVars, cache, logins>>

(* Mutant: the status is set without an expiry.                            *)
StatusNeverExpires(r) ==
    /\ "statusTtl" \in Faults /\ cache[r] = "expiring"
    /\ UNCHANGED vars

StatusExpires(r) ==
    /\ "statusTtl" \in Faults
    /\ cache[r] # "none"
    /\ cache' = [cache EXCEPT ![r] = "none"]
    /\ UNCHANGED <<dbVars, apiVars, queueVars, sent, stored, logins, lost, faults>>

-----------------------------------------------------------------------------
(* The system *)

ApiNext(r) ==
    \/ \E k \in Keys : Activate(r, k)
    \/ Enqueue(r) \/ EnqueueThrows(r) \/ MarkReservationFailed(r)
    \/ SetEnqueueError(r) \/ SetPending(r) \/ Age(r)

WorkerNext(w) ==
    \/ Finish(w) \/ ReadThrows(w) \/ ReadActivation(w)
    \/ GetStoredReply(w) \/ GetSentKey(w) \/ SetSentKey(w)
    \/ SendLogin(w) \/ SendThrows(w) \/ StoreReply(w)
    \/ Commit(w) \/ WriteSuccess(w) \/ CleanUp(w)
    \/ DeadLetter(w) \/ MarkFailed(w) \/ WriteFailure(w)

QueueNext ==
    \/ \E w \in Workers, r \in Requests : Take(w, r) \/ FailStalled(w, r)
    \/ \E r \in Requests : RecoverStalled(r)

Environment ==
    \/ ApiCrash \/ WorkerCrash
    \/ \E w \in Workers : LoseLock(w)
    \/ \E k \in Keys : IssueKey(k) \/ Ban(k)
    \/ \E r \in Requests : IdempotencyKeyExpires(r) \/ StatusExpires(r)

Next ==
    \/ \E r \in Requests : ApiNext(r)
    \/ \E w \in Workers : WorkerNext(w)
    \/ QueueNext
    \/ Environment

Spec == PipelineInit /\ [][Next]_vars

(* The API's handlers and the worker's slots go on while their process     *)
(* lives, BullMQ hands out what waits and recovers what stalled, and Redis *)
(* does drop what has expired.                                             *)
Fairness ==
    /\ \A r \in Requests : /\ WF_vars(Enqueue(r) \/ EnqueueThrows(r) \/ MarkReservationFailed(r)
                                      \/ SetEnqueueError(r) \/ SetPending(r))
                           /\ WF_vars(\E w \in Workers : Take(w, r) \/ FailStalled(w, r))
                           /\ WF_vars(RecoverStalled(r))
                           /\ WF_vars(StatusExpires(r))
    /\ \A w \in Workers : WF_vars(WorkerNext(w))

FairSpec == Spec /\ Fairness

-----------------------------------------------------------------------------
(* Properties *)

Receipts(k) == {r \in Requests : activations[r].result = "success" /\ activations[r].license = k}

(* The mark in Redis keeps a request from reaching the bot twice, through  *)
(* retries, crashes and redelivered jobs.                                  *)
SingleLogin == \A r \in Requests : logins[r] <= 1

(* A second command of a request costs that request a mark that expired or *)
(* was refused, or a lock its slot failed to renew: each pays for one.  A  *)
(* retry, a crash, a redelivered job and a database error pay for none.    *)
LoginsCostLosses == \A r \in Requests : logins[r] <= 1 + lost[r]

(* A consumed key has exactly one successful request, a key not consumed   *)
(* has none: nobody loses a key to a request reported as failed.           *)
OneReceiptPerConsumedKey ==
    \A k \in Keys : Cardinality(Receipts(k)) = IF licenses[k].activatedAt = NoTime THEN 0 ELSE 1

(* Whatever final state the cache shows is the one the row would give, so  *)
(* the answer survives the expiry of the cache entry.                      *)
CacheTellsTheRow == \A r \in Requests : cache[r] \in Terminal => cache[r] = DbState(r)

(* The reservation covers the whole of the processing: no two slots handle *)
(* the same key between taking the decision to send and the commit.        *)
KeyInOneSlot ==
    \A v, w \in Workers :
        /\ v # w
        /\ {slot[v].step, slot[w].step} \subseteq {"setSent", "send", "storeReply", "commit"}
        => job[Req(v)].key # job[Req(w)].key

(* Users are told "success" only when their key was consumed, whatever     *)
(* else fails.                                                             *)
SuccessMeansConsumed ==
    \A r \in Requests :
        "success" \in {cache[r], DbState(r)}
        => \E k \in Keys : job[r].key = k /\ licenses[k].activatedAt # NoTime

(* A settled row stays settled the way it was: no redelivered job, retry   *)
(* or late failure path rewrites it.                                       *)
OutcomeIsFinal ==
    [][\A r \in Requests : activations[r].result \in {"success", "failed"}
                           => activations'[r] = activations[r]]_vars

(* The bot is only given the command of a request that still holds its     *)
(* key.                                                                    *)
LoginWhileReserved ==
    [][\A r \in Requests : logins'[r] # logins[r] => activations[r].result = "pending"]_vars

(* Every step of the handlers is a transaction of LicenseDb or leaves the  *)
(* tables alone.                                                           *)
ImplementsLicenseDb == DbSpec

(* A reservation ends, the key consumed or free again, after one fault of  *)
(* these kinds: a crash of the worker, a lock not renewed, a refused       *)
(* enqueue, a failed Redis command of the worker, a mark or reply that     *)
(* expires, a commit whose answer is lost. Faults of other kinds can leave *)
(* a row pending for ever: the API dying between reservation and enqueue   *)
(* (activation.service.ts:47), a failed database write that should have    *)
(* marked the row, and a second stall of one job (TimeoutFreesTheKey).     *)
ReservationEnds ==
    \A r \in Requests : activations[r].result = "pending" ~> activations[r].result # "pending"

(* A user whose login was accepted for processing gets a final answer.     *)
AnswerComes == \A r \in Requests : api[r] = "returned" ~> Answer(r) \in Terminal

(* An acceptance by the bot that was kept in Redis is not lost: the retry  *)
(* takes it up and commits. Checked under the same faults; a database      *)
(* command that fails, a ban before the commit, or an enqueue that was     *)
(* taken but reported as refused makes the row failed instead.             *)
StoredAcceptanceCounts ==
    \A r \in Requests :
        stored[r] = "ok" /\ activations[r].result = "pending" ~> activations[r].result = "success"

-----------------------------------------------------------------------------
(* What comments, messages and documents promise, and the code breaks *)

(* worker.ts:196, "the DB committed but the response was lost - return     *)
(* success": the catch around the commit marks the row failed first, and   *)
(* no attempt follows that would find it successful.                       *)
LostResponseIsSuccess ==
    \A r \in Requests, k \in Keys :
        activations[r].result = "failed" /\ activations[r].license = k
        => licenses[k].activatedAt = NoTime \/ Receipts(k) # {}

(* activation.service.ts:116, "Please start a new login request": a row    *)
(* nobody works on any more stays pending and refuses every new request.   *)
TimeoutFreesTheKey ==
    \A r \in Requests : Answer(r) = "timeout" ~> activations[r].result # "pending"
=============================================================================
