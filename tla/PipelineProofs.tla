---------------------------- MODULE PipelineProofs ----------------------------
(***************************************************************************)
(* Proofs about ActivationPipeline, for any number of keys, requests,      *)
(* slots, attempts and faults of any kind: its handlers run no transaction *)
(* LicenseDb does not allow, and nobody is told "success" whose key was    *)
(* not consumed.  The second part excludes some kinds of fault, each in    *)
(* the statement of its theorems (MarksHold, QueueAnswers, OnlyCrashes).   *)
(* The third excludes none: a further login of a request costs it a mark   *)
(* or a lock, no key pays twice, and the work for a request runs out.      *)
(***************************************************************************)
EXTENDS ActivationPipeline, LicenseDbProofs, FiniteSetTheorems

-----------------------------------------------------------------------------
(* The inductive invariant *)

(* A job carries the key its request reserved.                             *)
JobHoldsKey ==
    \A r \in Requests :
        job[r].state # "none" => /\ job[r].key \in Keys
                                 /\ job[r].key = activations[r].license
                                 /\ activations[r].result # "none"

(* The handler of activate that is about to enqueue has its reservation.   *)
ApiHoldsRow ==
    \A r \in Requests :
        api[r] = "enqueue" => activations[r].license \in Keys /\ activations[r].result # "none"

(* A busy slot works on a job of the queue.                                *)
SlotHoldsJob ==
    \A w \in Workers :
        slot[w].step # "idle" => slot[w].req \in Requests /\ job[slot[w].req].state # "none"

(* What the failure paths write is a failure with a code.                  *)
OutcomeFails(outcome) == outcome.code \in ErrorCode /\ outcome.state # "success"

FailuresFail ==
    \A w \in Workers :
        slot[w].step \in {"dlq", "failDb", "failStatus"} => OutcomeFails(slot[w].outcome)

KeyConsumed(r) == job[r].state # "none" /\ licenses[job[r].key].activatedAt # NoTime

(* Wherever a success is written or about to be, the key was consumed.     *)
SuccessConsumed ==
    /\ \A r \in Requests :
          cache[r] = "success" \/ activations[r].result = "success" => KeyConsumed(r)
    /\ \A w \in Workers : slot[w].step = "success" => KeyConsumed(slot[w].req)

PipelineInv ==
    /\ PipelineTypeOK
    /\ JobHoldsKey /\ ApiHoldsRow /\ SlotHoldsJob /\ FailuresFail /\ SuccessConsumed

LEMMA PipelineInitHolds == PipelineInit => PipelineInv
<1> SUFFICES ASSUME PipelineInit PROVE PipelineInv
  OBVIOUS
<1>1. DbTypeOK
  BY DbInitTyped DEF PipelineInit
<1>2. IdleSlot \in Slot /\ IdleSlot.step = "idle"
  BY DEF IdleSlot, Slot, SlotStep, NoOutcome, Outcome, Terminal
<1>3. PipelineTypeOK
  BY <1>1, <1>2, MaxFaultsAssumption DEF PipelineInit, PipelineTypeOK, ApiStep, Job
<1> QED
  BY <1>2, <1>3
     DEF PipelineInit, DbInit, PipelineInv, JobHoldsKey, ApiHoldsRow, SlotHoldsJob,
         FailuresFail, SuccessConsumed

-----------------------------------------------------------------------------
(* Every step is a transaction *)

(* A commit is that of a job, and of the key its request reserved.         *)
CommitsJob(r, k) ==
    job[r].state # "none" /\ activations[r].license = k /\ CommitLogin(r, k)

(* The transactions the handlers of the pipeline run.                      *)
PipelineTransaction ==
    \/ UNCHANGED dbVars
    \/ \E k \in Keys, d \in Durations : CreateKey(k, d)
    \/ \E k \in Keys : WriteStatus(k, "banned")
    \/ \E r \in Requests, k \in Keys : Reserve(r, k)
    \/ \E r \in Requests : FailIfPending(r)
    \/ \E r \in Requests, code \in ErrorCode : FailAlways(r, code)
    \/ \E r \in Requests, k \in Keys : CommitsJob(r, k)

LEMMA TransactionIsDbStep == PipelineTransaction => [DbNext]_dbVars
  BY DEF PipelineTransaction, CommitsJob, DbNext

LEMMA ApiStepIsTransaction ==
  ASSUME NEW r \in Requests, ApiNext(r)
  PROVE  PipelineTransaction
<1>1. CASE \E k \in Keys : Activate(r, k)
  BY <1>1 DEF Activate, PipelineTransaction
<1>2. CASE MarkReservationFailed(r)
  BY <1>2 DEF MarkReservationFailed, PipelineTransaction
<1> QED
  BY <1>1, <1>2
     DEF ApiNext, Enqueue, EnqueueThrows, SetEnqueueError, SetPending, Age, PipelineTransaction

LEMMA WorkerStepIsTransaction ==
  ASSUME PipelineInv, NEW w \in Workers, WorkerNext(w)
  PROVE  PipelineTransaction
<1>1. CASE Commit(w)
  <2>1. /\ Req(w) \in Requests
        /\ job[Req(w)].key \in Keys
        /\ job[Req(w)].state # "none"
        /\ activations[Req(w)].license = job[Req(w)].key
    BY <1>1 DEF Commit, At, Req, PipelineInv, SlotHoldsJob, JobHoldsKey
  <2> QED
    BY <1>1, <2>1 DEF Commit, CommitsJob, PipelineTransaction
<1>2. CASE MarkFailed(w)
  <2>1. Req(w) \in Requests /\ slot[w].outcome.code \in ErrorCode
    BY <1>2 DEF MarkFailed, At, Req, PipelineInv, SlotHoldsJob, FailuresFail, OutcomeFails
  <2> QED
    BY <1>2, <2>1 DEF MarkFailed, PipelineTransaction
<1>3. CASE \/ Finish(w) \/ ReadThrows(w) \/ ReadActivation(w)
           \/ GetStoredReply(w) \/ GetSentKey(w) \/ SetSentKey(w)
           \/ SendLogin(w) \/ SendThrows(w) \/ StoreReply(w)
           \/ WriteSuccess(w) \/ CleanUp(w) \/ DeadLetter(w) \/ WriteFailure(w)
  BY <1>3
     DEF Finish, ReadThrows, ReadActivation, GetStoredReply, GetSentKey, SetSentKey, SendLogin,
         SendThrows, StoreReply, WriteSuccess, CleanUp, DeadLetter, WriteFailure,
         PipelineTransaction
<1> QED
  BY <1>1, <1>2, <1>3 DEF WorkerNext

LEMMA StepIsTransaction ==
  ASSUME PipelineInv, [Next]_vars
  PROVE  PipelineTransaction
<1>1. CASE QueueNext
  BY <1>1 DEF QueueNext, Take, FailStalled, RecoverStalled, PipelineTransaction
<1>2. CASE Environment
  BY <1>2
     DEF Environment, ApiCrash, WorkerCrash, LoseLock, IssueKey, Ban, IdempotencyKeyExpires,
         StatusExpires, PipelineTransaction
<1>3. CASE UNCHANGED vars
  BY <1>3 DEF vars, PipelineTransaction
<1> QED
  BY <1>1, <1>2, <1>3, ApiStepIsTransaction, WorkerStepIsTransaction DEF Next

-----------------------------------------------------------------------------
(* What a transaction keeps *)

LEMMA RowsKeepTheirKey ==
  ASSUME PipelineInv, PipelineTransaction, NEW r \in Requests, activations[r].result # "none"
  PROVE  activations'[r].result # "none" /\ activations'[r].license = activations[r].license
<1> USE DEF PipelineInv, PipelineTypeOK, DbTypeOK, Activation
<1>1. CASE UNCHANGED dbVars
  BY <1>1 DEF dbVars
<1>2. CASE (\E k \in Keys, d \in Durations : CreateKey(k, d))
           \/ (\E k \in Keys : WriteStatus(k, "banned"))
  BY <1>2 DEF CreateKey, WriteStatus
<1>3. CASE \E q \in Requests, k \in Keys : Reserve(q, k)
  BY <1>3 DEF Reserve
<1>4. CASE \E q \in Requests : FailIfPending(q)
  BY <1>4 DEF FailIfPending
<1>5. CASE \E q \in Requests, code \in ErrorCode : FailAlways(q, code)
  BY <1>5 DEF FailAlways
<1>6. CASE \E q \in Requests, k \in Keys : CommitsJob(q, k)
  BY <1>6 DEF CommitsJob, CommitLogin
<1> QED
  BY <1>1, <1>2, <1>3, <1>4, <1>5, <1>6 DEF PipelineTransaction

LEMMA GrantStamps ==
  ASSUME DbTypeOK, NEW k \in Keys
  PROVE  /\ Granted(k)[k].activatedAt # NoTime
         /\ \A j \in Keys \ {k} : Granted(k)[j] = licenses[j]
  BY DEF DbTypeOK, Granted, Grant, NoTime

(* A stamp is never taken back.                                            *)
LEMMA StampStays ==
  ASSUME PipelineInv, PipelineTransaction, NEW k \in Keys, licenses[k].activatedAt # NoTime
  PROVE  licenses'[k].activatedAt # NoTime
<1> USE DEF PipelineInv, PipelineTypeOK
<1>1. CASE \E q \in Requests, j \in Keys : CommitsJob(q, j)
  BY <1>1, GrantStamps DEF CommitsJob, CommitLogin
<1>2. CASE \E j \in Keys, d \in Durations : CreateKey(j, d)
  BY <1>2 DEF CreateKey, DbTypeOK, License
<1>3. CASE \E j \in Keys : WriteStatus(j, "banned")
  BY <1>3 DEF WriteStatus, DbTypeOK, License
<1>4. CASE UNCHANGED dbVars \/ (\E q \in Requests, j \in Keys : Reserve(q, j))
  BY <1>4 DEF dbVars, Reserve
<1>5. CASE (\E q \in Requests : FailIfPending(q))
           \/ (\E q \in Requests, code \in ErrorCode : FailAlways(q, code))
  BY <1>5 DEF FailIfPending, FailAlways
<1> QED
  BY <1>1, <1>2, <1>3, <1>4, <1>5 DEF PipelineTransaction

(* A row only turns successful together with a grant of its key.           *)
LEMMA SuccessIsGranted ==
  ASSUME PipelineInv, PipelineTransaction, NEW r \in Requests,
         activations[r].result # "success", activations'[r].result = "success"
  PROVE  job[r].state # "none" /\ licenses'[job[r].key].activatedAt # NoTime
<1> USE DEF PipelineInv, PipelineTypeOK, DbTypeOK, Activation
<1>1. CASE \E q \in Requests, k \in Keys : CommitsJob(q, k)
  <2>1. PICK q \in Requests, k \in Keys : CommitsJob(q, k)
    BY <1>1
  <2>2. q = r /\ activations[r].result = "pending"
    BY <2>1 DEF CommitsJob, CommitLogin
  <2>3. licenses' = Granted(k)
    BY <2>1, <2>2 DEF CommitsJob, CommitLogin, LoginCommits
  <2> QED
    BY <2>1, <2>2, <2>3, GrantStamps DEF CommitsJob, JobHoldsKey
<1>2. CASE \/ UNCHANGED dbVars
           \/ \E k \in Keys, d \in Durations : CreateKey(k, d)
           \/ \E k \in Keys : WriteStatus(k, "banned")
  BY <1>2 DEF dbVars, CreateKey, WriteStatus
<1>3. CASE \E q \in Requests, k \in Keys : Reserve(q, k)
  BY <1>3 DEF Reserve
<1>4. CASE \E q \in Requests : FailIfPending(q)
  BY <1>4 DEF FailIfPending
<1>5. CASE \E q \in Requests, code \in ErrorCode : FailAlways(q, code)
  BY <1>5 DEF FailAlways
<1> QED
  BY <1>1, <1>2, <1>3, <1>4, <1>5 DEF PipelineTransaction

(* After a commit, repeated or not, the key is stamped.                    *)
LEMMA CommitStamps ==
  ASSUME PipelineInv, NEW r \in Requests, job[r].state # "none", CommitLogin(r, job[r].key)
  PROVE  licenses'[job[r].key].activatedAt # NoTime
<1> USE DEF PipelineInv, PipelineTypeOK
<1>1. job[r].key \in Keys
  BY DEF JobHoldsKey
<1>2. CASE licenses[job[r].key].status = "unused"
  BY <1>1, <1>2, GrantStamps DEF CommitLogin
<1>3. CASE licenses[job[r].key].status # "unused"
  <2>1. activations[r].result = "success" /\ licenses' = licenses
    BY <1>3 DEF CommitLogin, LoginCommits
  <2> QED
    BY <2>1 DEF SuccessConsumed, KeyConsumed
<1> QED
  BY <1>2, <1>3

-----------------------------------------------------------------------------
(* What the steps do to jobs and slots *)

(* A job is never dropped and keeps its key; a new one is added by activate*)
(* with the key it reserved.                                               *)
LEMMA JobsStay ==
  ASSUME PipelineInv, [Next]_vars, NEW r \in Requests
  PROVE  /\ job[r].state # "none" => job'[r].state # "none" /\ job'[r].key = job[r].key
         /\ job[r].state = "none" /\ job'[r].state # "none"
            => /\ api[r] = "enqueue" /\ UNCHANGED dbVars
               /\ job'[r].key = activations[r].license
<1> USE DEF PipelineInv, PipelineTypeOK, Job
<1>1. CASE \E q \in Requests : ApiNext(q)
  <2>1. CASE \E q \in Requests : api[q] = "enqueue" /\ job' = AddJob(q) /\ UNCHANGED dbVars
    BY <2>1 DEF AddJob, JobHoldsKey
  <2> QED
    BY <1>1, <2>1
       DEF ApiNext, Activate, Enqueue, EnqueueThrows, MarkReservationFailed, SetEnqueueError,
           SetPending, Age, queueVars
<1>2. ASSUME NEW w \in Workers, slot[w].step # "idle"
      PROVE  slot[w].req \in Requests /\ job[slot[w].req].state # "none"
  BY <1>2 DEF SlotHoldsJob
<1>3. CASE \E w \in Workers : WorkerNext(w)
  <2>1. PICK w \in Workers : WorkerNext(w)
    BY <1>3
  <2>2. CASE UNCHANGED job
    BY <2>2
  <2>3. CASE Finish(w)
    BY <1>2, <2>3 DEF Finish, At, Req
  <2>4. ASSUME NEW err, Throw(w, err), slot[w].step # "idle"
        PROVE  \/ job[r].state # "none" /\ job'[r].state # "none" /\ job'[r].key = job[r].key
               \/ job'[r] = job[r]
    BY <1>2, <2>4 DEF Throw, Req
  <2>5. CASE ReadThrows(w) \/ SendThrows(w)
    BY <2>4, <2>5 DEF ReadThrows, SendThrows, At
  <2>6. CASE \/ ReadActivation(w) \/ GetStoredReply(w) \/ GetSentKey(w) \/ SetSentKey(w)
             \/ SendLogin(w) \/ StoreReply(w) \/ Commit(w) \/ WriteSuccess(w) \/ CleanUp(w)
             \/ DeadLetter(w) \/ MarkFailed(w) \/ WriteFailure(w)
    <3>1. UNCHANGED job
      BY <2>6
         DEF ReadActivation, GetStoredReply, GetSentKey, SetSentKey, SendLogin, StoreReply,
             Commit, WriteSuccess, CleanUp, DeadLetter, MarkFailed, WriteFailure
    <3> QED
      BY <2>2, <3>1
  <2> QED
    BY <2>1, <2>3, <2>5, <2>6 DEF WorkerNext
<1>4. CASE QueueNext
  <2>1. CASE \E w \in Workers, q \in Requests : Take(w, q)
    BY <2>1 DEF Take
  <2>2. CASE \E w \in Workers, q \in Requests : FailStalled(w, q)
    BY <2>2 DEF FailStalled
  <2>3. CASE \E q \in Requests : RecoverStalled(q)
    BY <2>3 DEF RecoverStalled
  <2> QED
    BY <1>4, <2>1, <2>2, <2>3 DEF QueueNext
<1>5. CASE Environment
  <2>1. CASE WorkerCrash
    BY <2>1 DEF WorkerCrash
  <2>2. CASE \E w \in Workers : LoseLock(w)
    BY <1>2, <2>2 DEF LoseLock, At, Req
  <2> QED
    BY <1>5, <2>1, <2>2
       DEF Environment, ApiCrash, IssueKey, Ban, IdempotencyKeyExpires, StatusExpires, queueVars
<1>6. CASE UNCHANGED vars
  BY <1>6 DEF vars, queueVars
<1> QED
  BY <1>1, <1>3, <1>4, <1>5, <1>6 DEF Next

(* What a step must leave in the slots.  A slot about to report success    *)
(* has just committed, or was there before.                                *)
SlotsKept ==
    /\ slot' \in [Workers -> Slot]
    /\ \A v \in Workers :
          slot'[v].step # "idle" => slot'[v].req \in Requests /\ job[slot'[v].req].state # "none"
    /\ FailuresFail'
    /\ \A v \in Workers :
          slot'[v].step = "success"
          => \/ slot[v].step = "success" /\ slot'[v].req = slot[v].req
             \/ CommitLogin(slot'[v].req, job[slot'[v].req].key)

LEMMA AssignKeeps ==
  ASSUME PipelineInv, NEW w \in Workers, NEW x \in Slot, slot' = [slot EXCEPT ![w] = x],
         x.step # "idle" => x.req \in Requests /\ job[x.req].state # "none",
         x.step \in {"dlq", "failDb", "failStatus"} => OutcomeFails(x.outcome),
         x.step = "success" => CommitLogin(x.req, job[x.req].key)
  PROVE  SlotsKept
  BY DEF PipelineInv, PipelineTypeOK, SlotHoldsJob, FailuresFail, SlotsKept

LEMMA SameSlotsKept ==
  ASSUME PipelineInv, UNCHANGED slot
  PROVE  SlotsKept
  BY DEF PipelineInv, PipelineTypeOK, SlotHoldsJob, FailuresFail, SlotsKept

LEMMA GotoKeeps ==
  ASSUME PipelineInv, NEW w \in Workers, slot[w].step # "idle",
         NEW s \in SlotStep \ {"idle"}, Goto(w, s),
         s \in {"dlq", "failDb", "failStatus"} => OutcomeFails(slot[w].outcome),
         s = "success" => CommitLogin(slot[w].req, job[slot[w].req].key)
  PROVE  SlotsKept
<1> DEFINE x == [slot[w] EXCEPT !.step = s]
<1>1. slot[w] \in Slot
  BY DEF PipelineInv, PipelineTypeOK
<1>2. x \in Slot /\ x.step = s /\ x.req = slot[w].req /\ x.outcome = slot[w].outcome
  BY <1>1 DEF Slot
<1>3. slot' = [slot EXCEPT ![w] = x]
  BY DEF Goto
<1>4. x.req \in Requests /\ job[x.req].state # "none"
  BY <1>2 DEF PipelineInv, SlotHoldsJob
<1> HIDE DEF x
<1> QED
  BY <1>2, <1>3, <1>4, AssignKeeps

LEMMA FailWithKeeps ==
  ASSUME PipelineInv, NEW w \in Workers, slot[w].step # "idle",
         NEW outcome \in Outcome, OutcomeFails(outcome), FailWith(w, outcome)
  PROVE  SlotsKept
<1> DEFINE x == [slot[w] EXCEPT !.step = "failDb", !.outcome = outcome]
<1>1. slot[w] \in Slot
  BY DEF PipelineInv, PipelineTypeOK
<1>2. x \in Slot /\ x.step = "failDb" /\ x.req = slot[w].req /\ x.outcome = outcome
  BY <1>1 DEF Slot, SlotStep
<1>3. slot' = [slot EXCEPT ![w] = x]
  BY DEF FailWith
<1>4. x.req \in Requests /\ job[x.req].state # "none"
  BY <1>2 DEF PipelineInv, SlotHoldsJob
<1> HIDE DEF x
<1> QED
  BY <1>2, <1>3, <1>4, AssignKeeps

(* The failures a job may end with.                                        *)
LEMMA FailuresTyped ==
  /\ \A v : BotFailure(v) \in Outcome /\ OutcomeFails(BotFailure(v))
  /\ \A err : ExhaustedError(err) \in Outcome /\ OutcomeFails(ExhaustedError(err))
  /\ CommitFailure \in Outcome /\ OutcomeFails(CommitFailure)
  /\ DuplicateLogin \in Outcome /\ OutcomeFails(DuplicateLogin)
  BY ErrorCodeAssumption
     DEF BotFailure, ExhaustedError, CommitFailure, DuplicateLogin, Outcome, OutcomeFails, Terminal

LEMMA IdleSlotTyped == IdleSlot \in Slot /\ IdleSlot.step = "idle"
  BY DEF IdleSlot, Slot, SlotStep, NoOutcome, Outcome, Terminal

LEMMA JobFailsTyped ==
  ASSUME NEW w, NEW r \in Requests, NEW err
  PROVE  /\ JobFails(w, r, err) \in Slot
         /\ JobFails(w, r, err).step \in {"idle", "dlq"}
         /\ JobFails(w, r, err).step = "dlq"
            => JobFails(w, r, err).req = r /\ OutcomeFails(JobFails(w, r, err).outcome)
<1>1. ExhaustedError(err) \in Outcome /\ OutcomeFails(ExhaustedError(err))
  BY FailuresTyped
<1> QED
  BY <1>1, IdleSlotTyped DEF JobFails, IdleSlot, Slot, SlotStep

LEMMA ThrowKeeps ==
  ASSUME PipelineInv, NEW w \in Workers, slot[w].step # "idle", NEW err, Throw(w, err)
  PROVE  SlotsKept
<1>1. slot[w].req \in Requests /\ job[slot[w].req].state # "none"
  BY DEF PipelineInv, SlotHoldsJob
<1>2. PICK x \in {IdleSlot, JobFails(w, slot[w].req, err)} : slot' = [slot EXCEPT ![w] = x]
  BY DEF Throw, Req
<1>3. x \in Slot /\ x.step \in {"idle", "dlq"}
      /\ (x.step = "dlq" => x.req = slot[w].req /\ OutcomeFails(x.outcome))
  BY <1>1, <1>2, IdleSlotTyped, JobFailsTyped
<1> QED
  BY <1>1, <1>2, <1>3, AssignKeeps

LEMMA JudgeKeeps ==
  ASSUME PipelineInv, NEW w \in Workers, slot[w].step # "idle", NEW v, Judge(w, v)
  PROVE  SlotsKept
<1>1. CASE Goto(w, "commit")
  BY <1>1, GotoKeeps DEF SlotStep
<1>2. CASE FailWith(w, BotFailure(v))
  BY <1>2, FailWithKeeps, FailuresTyped
<1> QED
  BY <1>1, <1>2 DEF Judge

LEMMA WorkerStepKeeps ==
  ASSUME PipelineInv, NEW w \in Workers, WorkerNext(w)
  PROVE  SlotsKept
<1> USE DEF SlotStep
<1>1. CASE Finish(w)
  BY <1>1, IdleSlotTyped, AssignKeeps DEF Finish
<1>2. CASE ReadThrows(w) \/ SendThrows(w)
  BY <1>2, ThrowKeeps DEF ReadThrows, SendThrows, At
<1>3. CASE ReadActivation(w)
  BY <1>3, GotoKeeps DEF ReadActivation, At
<1>4. CASE GetStoredReply(w)
  BY <1>4, GotoKeeps, JudgeKeeps DEF GetStoredReply, At
<1>5. CASE GetSentKey(w)
  BY <1>5, GotoKeeps, FailWithKeeps, FailuresTyped DEF GetSentKey, At
<1>6. CASE SetSentKey(w)
  BY <1>6, GotoKeeps DEF SetSentKey, At
<1>7. CASE SendLogin(w)
  <2>1. PICK v \in Verdicts : slot' = [slot EXCEPT ![w].step = "storeReply", ![w].reply = v]
    BY <1>7 DEF SendLogin
  <2>2. slot[w] \in Slot /\ slot[w].req \in Requests /\ job[slot[w].req].state # "none"
    BY <1>7 DEF SendLogin, At, PipelineInv, PipelineTypeOK, SlotHoldsJob
  <2> DEFINE x == [slot[w] EXCEPT !.step = "storeReply", !.reply = v]
  <2>3. x \in Slot /\ x.step = "storeReply" /\ x.req = slot[w].req
    BY <2>2 DEF Slot
  <2>4. slot' = [slot EXCEPT ![w] = x]
    BY <2>1
  <2> HIDE DEF x
  <2> QED
    BY <2>2, <2>3, <2>4, AssignKeeps
<1>8. CASE StoreReply(w)
  BY <1>8, JudgeKeeps DEF StoreReply, At
<1>9. CASE Commit(w)
  <2>1. slot[w].step = "commit" /\ Req(w) = slot[w].req
    BY <1>9 DEF Commit, At, Req
  <2>2. CASE Goto(w, "success") /\ CommitLogin(Req(w), job[Req(w)].key)
    BY <2>1, <2>2, GotoKeeps
  <2>3. CASE FailWith(w, CommitFailure)
    BY <2>1, <2>3, FailWithKeeps, FailuresTyped
  <2> QED
    BY <1>9, <2>2, <2>3 DEF Commit
<1>10. CASE WriteSuccess(w)
  BY <1>10, GotoKeeps DEF WriteSuccess, At
<1>11. CASE CleanUp(w)
  BY <1>11, GotoKeeps DEF CleanUp, At
<1>12. CASE DeadLetter(w)
  <2>1. OutcomeFails(slot[w].outcome)
    BY <1>12 DEF DeadLetter, At, PipelineInv, FailuresFail
  <2> QED
    BY <1>12, <2>1, GotoKeeps DEF DeadLetter, At
<1>13. CASE MarkFailed(w)
  <2>1. OutcomeFails(slot[w].outcome)
    BY <1>13 DEF MarkFailed, At, PipelineInv, FailuresFail
  <2> QED
    BY <1>13, <2>1, GotoKeeps DEF MarkFailed, At
<1>14. CASE WriteFailure(w)
  BY <1>14, GotoKeeps DEF WriteFailure, At
<1> QED
  BY <1>1, <1>2, <1>3, <1>4, <1>5, <1>6, <1>7, <1>8, <1>9, <1>10, <1>11, <1>12, <1>13, <1>14
     DEF WorkerNext

LEMMA StepKeepsSlots ==
  ASSUME PipelineInv, [Next]_vars
  PROVE  SlotsKept
<1>1. CASE \E w \in Workers : WorkerNext(w)
  BY <1>1, WorkerStepKeeps
<1>2. CASE \E w \in Workers, r \in Requests : Take(w, r)
  <2>1. PICK w \in Workers, r \in Requests : Take(w, r)
    BY <1>2
  <2> DEFINE x == [IdleSlot EXCEPT !.step = "read", !.req = r]
  <2>2. x \in Slot /\ x.step = "read" /\ x.req = r
    BY DEF IdleSlot, Slot, SlotStep, NoOutcome, Outcome, Terminal
  <2>3. slot' = [slot EXCEPT ![w] = x] /\ job[r].state # "none"
    BY <2>1 DEF Take
  <2> HIDE DEF x
  <2> QED
    BY <2>2, <2>3, AssignKeeps
<1>3. CASE \E w \in Workers, r \in Requests : FailStalled(w, r)
  <2>1. PICK w \in Workers, r \in Requests : FailStalled(w, r)
    BY <1>3
  <2> DEFINE x == JobFails(w, r, "stalled")
  <2>2. slot' = [slot EXCEPT ![w] = x] /\ job[r].state # "none"
    BY <2>1 DEF FailStalled
  <2>3. x \in Slot /\ x.step \in {"idle", "dlq"}
        /\ (x.step = "dlq" => x.req = r /\ OutcomeFails(x.outcome))
    BY JobFailsTyped
  <2> HIDE DEF x
  <2> QED
    BY <2>2, <2>3, AssignKeeps
<1>4. CASE WorkerCrash
  BY <1>4, IdleSlotTyped DEF WorkerCrash, SlotsKept, FailuresFail
<1>5. CASE \E r \in Requests : ApiNext(r) \/ RecoverStalled(r)
  BY <1>5, SameSlotsKept
     DEF ApiNext, Activate, Enqueue, EnqueueThrows, MarkReservationFailed, SetEnqueueError,
         SetPending, Age, RecoverStalled, queueVars
<1>6. CASE Environment
  BY <1>4, <1>6, SameSlotsKept
     DEF Environment, ApiCrash, LoseLock, IssueKey, Ban, IdempotencyKeyExpires, StatusExpires,
         queueVars
<1>7. CASE UNCHANGED vars
  BY <1>7, SameSlotsKept DEF vars, queueVars
<1> QED
  BY <1>1, <1>2, <1>3, <1>5, <1>6, <1>7 DEF Next, QueueNext

-----------------------------------------------------------------------------
(* The other variables *)

LEMMA WorkerLeavesApi ==
  ASSUME NEW w \in Workers, WorkerNext(w)
  PROVE  UNCHANGED apiVars
<1>1. CASE Finish(w) \/ ReadThrows(w) \/ ReadActivation(w) \/ GetStoredReply(w) \/ GetSentKey(w)
  BY <1>1 DEF Finish, ReadThrows, ReadActivation, GetStoredReply, GetSentKey
<1>2. CASE SetSentKey(w) \/ SendLogin(w) \/ SendThrows(w) \/ StoreReply(w) \/ Commit(w)
  BY <1>2 DEF SetSentKey, SendLogin, SendThrows, StoreReply, Commit
<1>3. CASE WriteSuccess(w) \/ CleanUp(w) \/ DeadLetter(w) \/ MarkFailed(w) \/ WriteFailure(w)
  BY <1>3 DEF WriteSuccess, CleanUp, DeadLetter, MarkFailed, WriteFailure
<1> QED
  BY <1>1, <1>2, <1>3 DEF WorkerNext

LEMMA ApiTyped ==
  ASSUME PipelineInv, [Next]_vars
  PROVE  /\ api' \in [Requests -> ApiStep]
         /\ aged' \in [Requests -> BOOLEAN]
<1> USE DEF PipelineInv, PipelineTypeOK, ApiStep
<1>1. CASE \E r \in Requests : ApiNext(r)
  BY <1>1
     DEF ApiNext, Activate, Enqueue, EnqueueThrows, MarkReservationFailed, SetEnqueueError,
         SetPending, Age
<1>2. CASE ApiCrash
  BY <1>2 DEF ApiCrash
<1>3. CASE (\E w \in Workers : WorkerNext(w)) \/ QueueNext
  <2>1. UNCHANGED apiVars
    BY <1>3, WorkerLeavesApi DEF QueueNext, Take, FailStalled, RecoverStalled
  <2> QED
    BY <2>1 DEF apiVars
<1>4. CASE Environment
  BY <1>2, <1>4
     DEF Environment, WorkerCrash, LoseLock, IssueKey, Ban, IdempotencyKeyExpires, StatusExpires,
         apiVars
<1> QED
  BY <1>1, <1>3, <1>4 DEF Next, vars, apiVars

(* A job that was taken is a job.                                          *)
LEMMA TakenIsJob ==
    ASSUME NEW x \in Job, NEW w \in Workers
    PROVE  [x EXCEPT !.state = "active", !.owner = w] \in Job
BY DEF Job

(* A step of the queue writes fields of one job.                           *)
LEMMA JobUpdateTyped ==
  ASSUME PipelineInv, NEW r \in Requests, NEW y \in Job, job' = [job EXCEPT ![r] = y]
  PROVE  job' \in [Requests -> Job]
  BY DEF PipelineInv, PipelineTypeOK

LEMMA AddJobTyped ==
  ASSUME PipelineInv, NEW r \in Requests, activations[r].license \in Keys, job' = AddJob(r)
  PROVE  job' \in [Requests -> Job]
<1> DEFINE y == [job[r] EXCEPT !.state = "waiting", !.key = activations[r].license]
<1>1. job[r] \in Job
  BY DEF PipelineInv, PipelineTypeOK
<1>2. y \in Job
  BY <1>1 DEF Job
<1>3. job' = [job EXCEPT ![r] = y]
  BY DEF AddJob
<1> HIDE DEF y
<1> QED
  BY <1>2, <1>3, JobUpdateTyped

LEMMA ThrowTyped ==
  ASSUME PipelineInv, NEW w \in Workers, slot[w].step # "idle", NEW err, Throw(w, err)
  PROVE  job' \in [Requests -> Job]
<1>1. CASE UNCHANGED job
  BY <1>1 DEF PipelineInv, PipelineTypeOK
<1>2. CASE Owns(w)
  <2> DEFINE r == Req(w)
             s == IF job[r].made + 1 >= Attempts THEN "failed" ELSE "waiting"
             n == job[r].made + 1
             y == [job[r] EXCEPT !.made = n, !.owner = Nobody, !.state = s]
  <2>1. r \in Requests
    BY DEF Req, PipelineInv, SlotHoldsJob
  <2>2. job[r] \in Job
    BY <2>1 DEF PipelineInv, PipelineTypeOK
  <2>3. s \in {"failed", "waiting"}
    OBVIOUS
  <2>4. job' = [job EXCEPT ![r] = y]
    BY <1>2 DEF Throw
  <2>5. n \in Nat
    BY <2>2 DEF Job
  <2> HIDE DEF s, n
  <2>6. y \in Job
    BY <2>2, <2>3, <2>5 DEF Job
  <2> HIDE DEF y, r
  <2> QED
    BY <2>1, <2>4, <2>6, JobUpdateTyped
<1> QED
  BY <1>1, <1>2 DEF Throw

LEMMA JobTyped ==
  ASSUME PipelineInv, [Next]_vars
  PROVE  job' \in [Requests -> Job]
<1> USE DEF PipelineInv, PipelineTypeOK
<1>1. CASE UNCHANGED job
  BY <1>1
<1>2. CASE \E r \in Requests : ApiNext(r)
  <2>1. CASE \E r \in Requests : api[r] = "enqueue" /\ job' = AddJob(r)
    BY <2>1, AddJobTyped DEF ApiHoldsRow
  <2> QED
    BY <1>1, <1>2, <2>1
       DEF ApiNext, Activate, Enqueue, EnqueueThrows, MarkReservationFailed, SetEnqueueError,
           SetPending, Age, queueVars
<1>3. CASE \E w \in Workers : WorkerNext(w)
  <2>1. PICK w \in Workers : WorkerNext(w)
    BY <1>3
  <2>2. CASE Finish(w)
    <3> DEFINE y == [job[Req(w)] EXCEPT !.state = "completed", !.owner = Nobody]
    <3>1. Req(w) \in Requests /\ job[Req(w)] \in Job
      BY <2>2 DEF Finish, At, Req, SlotHoldsJob
    <3>2. y \in Job
      BY <3>1 DEF Job
    <3>3. UNCHANGED job \/ job' = [job EXCEPT ![Req(w)] = y]
      BY <2>2 DEF Finish
    <3> HIDE DEF y
    <3> QED
      BY <1>1, <3>1, <3>2, <3>3, JobUpdateTyped
  <2>3. CASE ReadThrows(w) \/ SendThrows(w)
    BY <2>3, ThrowTyped DEF ReadThrows, SendThrows, At
  <2>4. CASE \/ ReadActivation(w) \/ GetStoredReply(w) \/ GetSentKey(w) \/ SetSentKey(w)
             \/ SendLogin(w) \/ StoreReply(w) \/ Commit(w) \/ WriteSuccess(w) \/ CleanUp(w)
             \/ DeadLetter(w) \/ MarkFailed(w) \/ WriteFailure(w)
    <3>1. UNCHANGED job
      BY <2>4
         DEF ReadActivation, GetStoredReply, GetSentKey, SetSentKey, SendLogin, StoreReply,
             Commit, WriteSuccess, CleanUp, DeadLetter, MarkFailed, WriteFailure
    <3> QED
      BY <1>1, <3>1
  <2> QED
    BY <2>1, <2>2, <2>3, <2>4 DEF WorkerNext
<1>4. CASE QueueNext
  <2>1. ASSUME NEW w \in Workers, NEW r \in Requests, Take(w, r)
        PROVE  job' \in [Requests -> Job]
    <3> DEFINE y == [job[r] EXCEPT !.state = "active", !.owner = w]
    <3>1. job' = [job EXCEPT ![r] = y]
      BY <2>1 DEF Take
    <3>2. job[r] \in Job
      OBVIOUS
    <3>3. y \in Job
      BY <3>2, TakenIsJob
    <3> HIDE DEF y
    <3> QED
      BY <3>1, <3>3, JobUpdateTyped
  <2>2. ASSUME NEW w \in Workers, NEW r \in Requests, FailStalled(w, r)
        PROVE  job' \in [Requests -> Job]
    <3> DEFINE n == job[r].made + 1
               y == [job[r] EXCEPT !.state = "failed", !.made = n]
    <3>1. job[r] \in Job
      OBVIOUS
    <3>2. n \in Nat
      BY <3>1 DEF Job
    <3>3. job' = [job EXCEPT ![r] = y]
      BY <2>2 DEF FailStalled
    <3> HIDE DEF n
    <3>4. y \in Job
      BY <3>1, <3>2 DEF Job
    <3> HIDE DEF y
    <3> QED
      BY <3>3, <3>4, JobUpdateTyped
  <2>3. ASSUME NEW r \in Requests, RecoverStalled(r)
        PROVE  job' \in [Requests -> Job]
    <3> DEFINE n == job[r].stalls + 1
               y == [job[r] EXCEPT !.state = "waiting", !.stalls = n]
    <3>1. job[r] \in Job
      OBVIOUS
    <3>2. n \in Nat
      BY <3>1 DEF Job
    <3>3. job' = [job EXCEPT ![r] = y]
      BY <2>3 DEF RecoverStalled
    <3> HIDE DEF n
    <3>4. y \in Job
      BY <3>1, <3>2 DEF Job
    <3> HIDE DEF y
    <3> QED
      BY <3>3, <3>4, JobUpdateTyped
  <2> QED
    BY <1>4, <2>1, <2>2, <2>3 DEF QueueNext
<1>5. CASE Environment
  <2>1. ASSUME NEW r \in Requests PROVE [job[r] EXCEPT !.owner = Nobody] \in Job
    BY DEF Job
  <2>2. CASE WorkerCrash
    BY <2>1, <2>2 DEF WorkerCrash
  <2>3. ASSUME NEW w \in Workers, LoseLock(w) PROVE job' \in [Requests -> Job]
    <3> DEFINE y == [job[Req(w)] EXCEPT !.owner = Nobody]
    <3>1. Req(w) \in Requests
      BY <2>3 DEF LoseLock, At, Req, SlotHoldsJob
    <3>2. y \in Job /\ job' = [job EXCEPT ![Req(w)] = y]
      BY <2>1, <2>3, <3>1 DEF LoseLock
    <3> HIDE DEF y
    <3> QED
      BY <3>1, <3>2, JobUpdateTyped
  <2> QED
    BY <1>1, <1>5, <2>2, <2>3
       DEF Environment, ApiCrash, IssueKey, Ban, IdempotencyKeyExpires, StatusExpires, queueVars
<1> QED
  BY <1>1, <1>2, <1>3, <1>4, <1>5 DEF Next, vars, queueVars

(* The cache only takes up "success" from a slot that is about to report.  *)
LEMMA CacheKept ==
  ASSUME PipelineInv, [Next]_vars
  PROVE  /\ cache' \in [Requests -> Terminal \cup {"pending", "none"}]
         /\ \A r \in Requests :
               cache'[r] = "success"
               => \/ cache[r] = "success"
                  \/ \E w \in Workers : slot[w].step = "success" /\ slot[w].req = r
<1> USE DEF PipelineInv, PipelineTypeOK, Terminal
<1>1. CASE UNCHANGED cache
  BY <1>1
<1>2. CASE \E r \in Requests : ApiNext(r)
  <2>1. CASE \E r \in Requests : SetEnqueueError(r) \/ SetPending(r)
    BY <2>1 DEF SetEnqueueError, SetPending, WriteCache
  <2> QED
    BY <1>1, <1>2, <2>1
       DEF ApiNext, Activate, Enqueue, EnqueueThrows, MarkReservationFailed, Age, redisVars
<1>3. CASE \E w \in Workers : WorkerNext(w)
  <2>1. PICK w \in Workers : WorkerNext(w)
    BY <1>3
  <2>2. CASE WriteSuccess(w)
    BY <1>1, <2>2 DEF WriteSuccess, WriteCache, At, Req
  <2>3. CASE WriteFailure(w)
    <3>1. slot[w].outcome.state \in Terminal \ {"success"}
      BY <2>3 DEF WriteFailure, At, FailuresFail, OutcomeFails, Slot, Outcome
    <3> QED
      BY <1>1, <2>3, <3>1 DEF WriteFailure, WriteCache
  <2>4. CASE Finish(w) \/ ReadThrows(w) \/ ReadActivation(w) \/ GetStoredReply(w) \/ GetSentKey(w)
    BY <1>1, <2>4 DEF Finish, ReadThrows, ReadActivation, GetStoredReply, GetSentKey, redisVars
  <2>5. CASE SetSentKey(w) \/ SendLogin(w) \/ SendThrows(w) \/ StoreReply(w) \/ Commit(w)
    BY <1>1, <2>5 DEF SetSentKey, SendLogin, SendThrows, StoreReply, Commit, redisVars
  <2>6. CASE CleanUp(w) \/ DeadLetter(w) \/ MarkFailed(w)
    BY <1>1, <2>6 DEF CleanUp, DeadLetter, MarkFailed, redisVars
  <2> QED
    BY <2>1, <2>2, <2>3, <2>4, <2>5, <2>6 DEF WorkerNext
<1>4. CASE QueueNext
  BY <1>1, <1>4 DEF QueueNext, Take, FailStalled, RecoverStalled, redisVars
<1>5. CASE Environment
  <2>1. CASE \E r \in Requests : StatusExpires(r)
    BY <2>1 DEF StatusExpires
  <2> QED
    BY <1>1, <1>5, <2>1
       DEF Environment, ApiCrash, WorkerCrash, LoseLock, IssueKey, Ban, IdempotencyKeyExpires,
           redisVars
<1> QED
  BY <1>1, <1>2, <1>3, <1>4, <1>5 DEF Next, vars, redisVars

LEMMA RedisTyped ==
  ASSUME PipelineInv, [Next]_vars
  PROVE  /\ sent' \in [Requests -> BOOLEAN]
         /\ stored' \in [Requests -> Verdicts \cup {"none"}]
         /\ logins' \in [Requests -> Nat]
<1> USE DEF PipelineInv, PipelineTypeOK
<1>1. CASE UNCHANGED <<sent, stored, logins>>
  BY <1>1
<1>2. CASE \E w \in Workers : WorkerNext(w)
  <2>1. PICK w \in Workers : WorkerNext(w)
    BY <1>2
  <2>2. ASSUME Deliver(w) PROVE logins' \in [Requests -> Nat]
    <3>1. \A r \in Requests : logins[r] + 1 \in Nat
      OBVIOUS
    <3> QED
      BY <2>2, <3>1 DEF Deliver
  <2>3. CASE SetSentKey(w)
    BY <2>3 DEF SetSentKey
  <2>4. CASE SendLogin(w)
    BY <2>2, <2>4 DEF SendLogin, redisVars
  <2>5. CASE SendThrows(w)
    BY <2>2, <2>5 DEF SendThrows, redisVars
  <2>6. CASE StoreReply(w)
    <3>1. slot[w].reply \in Verdicts \cup {"none"}
      BY DEF Slot
    <3> QED
      BY <2>6, <3>1 DEF StoreReply
  <2>7. CASE CleanUp(w)
    BY <2>7 DEF CleanUp
  <2>8. CASE Finish(w) \/ ReadThrows(w) \/ ReadActivation(w) \/ GetStoredReply(w) \/ GetSentKey(w)
    BY <1>1, <2>8 DEF Finish, ReadThrows, ReadActivation, GetStoredReply, GetSentKey, redisVars
  <2>9. CASE Commit(w) \/ WriteSuccess(w) \/ DeadLetter(w) \/ MarkFailed(w) \/ WriteFailure(w)
    BY <1>1, <2>9 DEF Commit, WriteSuccess, DeadLetter, MarkFailed, WriteFailure, redisVars
  <2> QED
    BY <2>1, <2>3, <2>4, <2>5, <2>6, <2>7, <2>8, <2>9 DEF WorkerNext
<1>3. CASE \E r \in Requests : ApiNext(r)
  BY <1>1, <1>3
     DEF ApiNext, Activate, Enqueue, EnqueueThrows, MarkReservationFailed, SetEnqueueError,
         SetPending, Age, redisVars
<1>4. CASE QueueNext
  BY <1>1, <1>4 DEF QueueNext, Take, FailStalled, RecoverStalled, redisVars
<1>5. CASE Environment
  <2>1. CASE \E r \in Requests : IdempotencyKeyExpires(r)
    BY <2>1 DEF IdempotencyKeyExpires
  <2> QED
    BY <1>1, <1>5, <2>1
       DEF Environment, ApiCrash, WorkerCrash, LoseLock, IssueKey, Ban, StatusExpires, redisVars
<1> QED
  BY <1>1, <1>2, <1>3, <1>4, <1>5 DEF Next, vars, redisVars

LEMMA FaultsTyped ==
  ASSUME PipelineInv, [Next]_vars
  PROVE  faults' \in 0 .. MaxFaults
<1> USE MaxFaultsAssumption DEF PipelineInv, PipelineTypeOK
<1>1. CASE UNCHANGED faults
  BY <1>1
<1>2. ASSUME NEW kind, Fault(kind) PROVE faults' \in 0 .. MaxFaults
  BY <1>2 DEF Fault
<1>3. CASE \E w \in Workers : WorkerNext(w)
  <2>1. PICK w \in Workers : WorkerNext(w)
    BY <1>3
  <2>2. CASE Finish(w) \/ ReadThrows(w) \/ ReadActivation(w) \/ GetStoredReply(w) \/ GetSentKey(w)
    BY <1>1, <1>2, <2>2 DEF Finish, ReadThrows, ReadActivation, GetStoredReply, GetSentKey
  <2>3. CASE SetSentKey(w) \/ SendLogin(w) \/ SendThrows(w) \/ StoreReply(w) \/ Commit(w)
    BY <1>1, <1>2, <2>3 DEF SetSentKey, SendLogin, SendThrows, StoreReply, Commit, Works
  <2>4. CASE WriteSuccess(w) \/ CleanUp(w) \/ DeadLetter(w) \/ MarkFailed(w) \/ WriteFailure(w)
    BY <1>1, <1>2, <2>4
       DEF WriteSuccess, CleanUp, DeadLetter, MarkFailed, WriteFailure, WriteCache, Works
  <2> QED
    BY <2>1, <2>2, <2>3, <2>4 DEF WorkerNext
<1>4. CASE \E r \in Requests : ApiNext(r)
  BY <1>1, <1>2, <1>4
     DEF ApiNext, Activate, Enqueue, EnqueueThrows, MarkReservationFailed, SetEnqueueError,
         SetPending, Age, WriteCache, Works
<1>5. CASE QueueNext
  BY <1>1, <1>5 DEF QueueNext, Take, FailStalled, RecoverStalled
<1>6. CASE Environment
  BY <1>1, <1>2, <1>6
     DEF Environment, ApiCrash, WorkerCrash, LoseLock, IssueKey, Ban, IdempotencyKeyExpires,
         StatusExpires
<1> QED
  BY <1>1, <1>3, <1>4, <1>5, <1>6 DEF Next, vars

(* Marks and locks are lost one at a time.                                 *)
LEMMA LossesTyped ==
  ASSUME PipelineInv, [Next]_vars
  PROVE  /\ lost' \in [Requests -> Nat]
         /\ \A r \in Requests : lost[r] \in Nat /\ lost'[r] \in {lost[r], lost[r] + 1}
<1> USE DEF PipelineInv, PipelineTypeOK
<1>0. \A r \in Requests : lost[r] \in Nat /\ lost[r] + 1 \in Nat
  OBVIOUS
<1>1. CASE UNCHANGED lost
  BY <1>1
<1>2. ASSUME NEW q \in Requests, Loses(q)
      PROVE  /\ lost' \in [Requests -> Nat]
             /\ \A r \in Requests : lost[r] \in Nat /\ lost'[r] \in {lost[r], lost[r] + 1}
  BY <1>0, <1>2 DEF Loses
<1>3. CASE \E w \in Workers : WorkerNext(w)
  <2>1. PICK w \in Workers : WorkerNext(w)
    BY <1>3
  <2>2. CASE Finish(w) \/ ReadThrows(w) \/ ReadActivation(w) \/ GetStoredReply(w) \/ GetSentKey(w)
    BY <1>1, <2>2 DEF Finish, ReadThrows, ReadActivation, GetStoredReply, GetSentKey
  <2>3. CASE SetSentKey(w)
    <3>1. Req(w) \in Requests
      BY <2>3 DEF SetSentKey, At, Req, SlotHoldsJob
    <3> QED
      BY <1>1, <1>2, <2>3, <3>1 DEF SetSentKey
  <2>4. CASE SendLogin(w) \/ SendThrows(w) \/ StoreReply(w) \/ Commit(w)
    BY <1>1, <2>4 DEF SendLogin, SendThrows, StoreReply, Commit
  <2>5. CASE WriteSuccess(w) \/ CleanUp(w) \/ DeadLetter(w) \/ MarkFailed(w) \/ WriteFailure(w)
    BY <1>1, <2>5 DEF WriteSuccess, CleanUp, DeadLetter, MarkFailed, WriteFailure
  <2> QED
    BY <2>1, <2>2, <2>3, <2>4, <2>5 DEF WorkerNext
<1>4. CASE \E r \in Requests : ApiNext(r)
  BY <1>1, <1>4
     DEF ApiNext, Activate, Enqueue, EnqueueThrows, MarkReservationFailed, SetEnqueueError,
         SetPending, Age
<1>5. CASE QueueNext
  BY <1>1, <1>5 DEF QueueNext, Take, FailStalled, RecoverStalled
<1>6. ASSUME NEW w \in Workers, LoseLock(w)
      PROVE  /\ lost' \in [Requests -> Nat]
             /\ \A r \in Requests : lost[r] \in Nat /\ lost'[r] \in {lost[r], lost[r] + 1}
  <2>1. Req(w) \in Requests
    BY <1>6 DEF LoseLock, At, Req, SlotHoldsJob
  <2> QED
    BY <1>2, <1>6, <2>1 DEF LoseLock
<1>7. CASE Environment
  BY <1>1, <1>2, <1>6, <1>7
     DEF Environment, ApiCrash, WorkerCrash, IssueKey, Ban, IdempotencyKeyExpires, StatusExpires
<1> QED
  BY <1>1, <1>3, <1>4, <1>5, <1>7 DEF Next, vars

-----------------------------------------------------------------------------
(* The invariant is kept *)

LEMMA TypeStep ==
  ASSUME PipelineInv, [Next]_vars
  PROVE  PipelineTypeOK'
<1>1. DbTypeOK'
  BY StepIsTransaction, TransactionIsDbStep, DbStepTyped DEF PipelineInv, PipelineTypeOK
<1>2. slot' \in [Workers -> Slot]
  BY StepKeepsSlots DEF SlotsKept
<1> QED
  BY <1>1, <1>2, ApiTyped, JobTyped, CacheKept, RedisTyped, FaultsTyped, LossesTyped
     DEF PipelineTypeOK

LEMMA JobHoldsKeyStep ==
  ASSUME PipelineInv, [Next]_vars
  PROVE  JobHoldsKey'
<1> SUFFICES ASSUME NEW r \in Requests, job'[r].state # "none"
             PROVE  /\ job'[r].key \in Keys
                    /\ job'[r].key = activations'[r].license
                    /\ activations'[r].result # "none"
  BY DEF JobHoldsKey
<1>1. CASE job[r].state # "none"
  BY <1>1, JobsStay, StepIsTransaction, RowsKeepTheirKey DEF PipelineInv, JobHoldsKey
<1>2. CASE job[r].state = "none"
  BY <1>2, JobsStay DEF PipelineInv, ApiHoldsRow, dbVars
<1> QED
  BY <1>1, <1>2

LEMMA ApiHoldsRowStep ==
  ASSUME PipelineInv, [Next]_vars
  PROVE  ApiHoldsRow'
<1> SUFFICES ASSUME NEW r \in Requests, api'[r] = "enqueue"
             PROVE  activations'[r].license \in Keys /\ activations'[r].result # "none"
  BY DEF ApiHoldsRow
<1>1. CASE api[r] = "enqueue"
  BY <1>1, StepIsTransaction, RowsKeepTheirKey DEF PipelineInv, ApiHoldsRow
<1>2. CASE \E k \in Keys : Activate(r, k)
  BY <1>2 DEF Activate, Reserve, PipelineInv, PipelineTypeOK, DbTypeOK
<1>3. ASSUME api[r] # "enqueue" PROVE \E k \in Keys : Activate(r, k)
  <2> USE DEF PipelineInv, PipelineTypeOK
  <2>1. CASE UNCHANGED api
    BY <1>3, <2>1
  <2>2. ASSUME NEW q \in Requests, NEW s \in ApiStep \ {"enqueue"}, api' = [api EXCEPT ![q] = s]
        PROVE  FALSE
    BY <1>3, <2>2
  <2>3. ASSUME NEW q \in Requests, NEW k \in Keys, Activate(q, k)
        PROVE  q = r
    BY <1>3, <2>3 DEF Activate
  <2>4. CASE \E q \in Requests : ApiNext(q)
    BY <2>1, <2>2, <2>3, <2>4
       DEF ApiNext, Enqueue, EnqueueThrows, MarkReservationFailed, SetEnqueueError, SetPending,
           Age, ApiStep
  <2>5. CASE ApiCrash
    BY <1>3, <2>5 DEF ApiCrash
  <2>6. CASE \E w \in Workers : WorkerNext(w)
    BY <2>1, <2>6, WorkerLeavesApi DEF apiVars
  <2>7. CASE QueueNext
    BY <2>1, <2>7 DEF QueueNext, Take, FailStalled, RecoverStalled, apiVars
  <2>8. CASE Environment
    BY <2>1, <2>5, <2>8
       DEF Environment, WorkerCrash, LoseLock, IssueKey, Ban, IdempotencyKeyExpires,
           StatusExpires, apiVars
  <2> QED
    BY <2>1, <2>4, <2>6, <2>7, <2>8 DEF Next, vars, apiVars
<1> QED
  BY <1>1, <1>2, <1>3

LEMMA SuccessConsumedStep ==
  ASSUME PipelineInv, [Next]_vars
  PROVE  SuccessConsumed'
<1>1. ASSUME NEW r \in Requests, KeyConsumed(r) PROVE KeyConsumed(r)'
  <2>1. job[r].key \in Keys /\ licenses[job[r].key].activatedAt # NoTime
    BY <1>1 DEF KeyConsumed, PipelineInv, JobHoldsKey
  <2>2. licenses'[job[r].key].activatedAt # NoTime
    BY <2>1, StepIsTransaction, StampStays
  <2> QED
    BY <1>1, <2>2, JobsStay DEF KeyConsumed
<1>2. ASSUME NEW r \in Requests, job[r].state # "none", licenses'[job[r].key].activatedAt # NoTime
      PROVE  KeyConsumed(r)'
  BY <1>2, JobsStay DEF KeyConsumed
<1>3. ASSUME NEW r \in Requests, cache'[r] = "success" PROVE KeyConsumed(r)'
  <2>1. KeyConsumed(r)
    BY <1>3, CacheKept DEF PipelineInv, SuccessConsumed
  <2> QED
    BY <1>1, <2>1
<1>4. ASSUME NEW r \in Requests, activations'[r].result = "success" PROVE KeyConsumed(r)'
  <2>1. CASE activations[r].result = "success"
    BY <1>1, <2>1 DEF PipelineInv, SuccessConsumed
  <2>2. CASE activations[r].result # "success"
    BY <1>2, <1>4, <2>2, StepIsTransaction, SuccessIsGranted
  <2> QED
    BY <2>1, <2>2
<1>5. ASSUME NEW w \in Workers, slot'[w].step = "success"
      PROVE  job'[slot'[w].req].state # "none"
             /\ licenses'[job'[slot'[w].req].key].activatedAt # NoTime
  <2>1. slot'[w].req \in Requests /\ job[slot'[w].req].state # "none"
    BY <1>5, StepKeepsSlots DEF SlotsKept
  <2> DEFINE r == slot'[w].req
  <2>2. CASE slot[w].step = "success" /\ r = slot[w].req
    <3>1. job[r].state # "none" /\ licenses[job[r].key].activatedAt # NoTime
      BY <2>2 DEF PipelineInv, SuccessConsumed, KeyConsumed
    <3>2. licenses'[job[r].key].activatedAt # NoTime
      BY <2>1, <3>1, StepIsTransaction, StampStays DEF PipelineInv, JobHoldsKey
    <3> QED
      BY <2>1, <3>2, JobsStay
  <2>3. CASE CommitLogin(r, job[r].key)
    <3>1. licenses'[job[r].key].activatedAt # NoTime
      BY <2>1, <2>3, CommitStamps
    <3> QED
      BY <2>1, <3>1, JobsStay
  <2> QED
    BY <1>5, <2>2, <2>3, StepKeepsSlots DEF SlotsKept
<1> QED
  BY <1>3, <1>4, <1>5 DEF SuccessConsumed, KeyConsumed

LEMMA PipelineInvStep == PipelineInv /\ [Next]_vars => PipelineInv'
<1> SUFFICES ASSUME PipelineInv, [Next]_vars PROVE PipelineInv'
  OBVIOUS
<1>1. SlotHoldsJob' /\ FailuresFail'
  BY StepKeepsSlots, JobsStay DEF SlotsKept, SlotHoldsJob
<1> QED
  BY <1>1, TypeStep, JobHoldsKeyStep, ApiHoldsRowStep, SuccessConsumedStep DEF PipelineInv

LEMMA PipelineInvHolds == Spec => []PipelineInv
  BY PipelineInitHolds, PipelineInvStep, PTL DEF Spec

-----------------------------------------------------------------------------
(* Theorems *)

(* Handlers, queue, Redis and tables keep their types.                     *)
THEOREM PipelineTypeCorrect == Spec => []PipelineTypeOK
<1>1. PipelineInv => PipelineTypeOK
  BY DEF PipelineInv
<1> QED
  BY <1>1, PipelineInvHolds, PTL

(* The activation pipeline runs no transaction LicenseDb does not allow,   *)
(* through crashes, redelivered jobs, lost locks and lost answers.         *)
THEOREM PipelineImplementsLicenseDb == Spec => ImplementsLicenseDb
<1>1. PipelineInit => DbInit
  BY DEF PipelineInit
<1>2. PipelineInv /\ [Next]_vars => [DbNext]_dbVars
  BY StepIsTransaction, TransactionIsDbStep
<1> QED
  BY <1>1, <1>2, PipelineInvHolds, PTL DEF Spec, DbSpec, ImplementsLicenseDb

(* Two requests of the pipeline never hold the same key.                   *)
THEOREM PipelineOnePending == Spec => []OnePendingPerKey
<1>1. Spec => DbSpec
  BY PipelineImplementsLicenseDb DEF ImplementsLicenseDb
<1> QED
  BY <1>1, OnePending, PTL

(* So all that LicenseDb promises holds of the pipeline: a key is consumed *)
(* with a receipt, by the request that held it, a success stands on a key  *)
(* that was consumed, and the tables keep the ledger of keys.              *)
THEOREM PipelineKeepsTheDb ==
  Spec => /\ []SuccessStandsOnConsumedKey
          /\ []ActiveHasEnd
          /\ ConsumedWithReceipt
          /\ ReceiptTakenFromHolder
          /\ ImplementsKeyLedger
<1>1. Spec => DbSpec
  BY PipelineImplementsLicenseDb DEF ImplementsLicenseDb
<1> QED
  BY <1>1, SuccessStands, ActiveEnds, ConsumptionIsReceipted, ReceiptsAreTakenByHolders,
     DbImplementsKeyLedger, PTL

(* Nobody reads "success", from the cache or from the row, whose key was   *)
(* not consumed, whatever fails.                                           *)
THEOREM SuccessIsConsumed == Spec => []SuccessMeansConsumed
<1>1. ASSUME PipelineInv, NEW r \in Requests, DbState(r) = "success"
      PROVE  activations[r].result = "success"
  <2>1. activations[r].result \in {"none", "pending", "success", "failed"}
    BY <1>1 DEF PipelineInv, PipelineTypeOK, DbTypeOK, Activation
  <2> QED
    BY <1>1, <2>1 DEF DbState, FailedState
<1>2. PipelineInv => SuccessMeansConsumed
  BY <1>1 DEF PipelineInv, SuccessConsumed, SuccessMeansConsumed, KeyConsumed, JobHoldsKey
<1> QED
  BY <1>2, PipelineInvHolds, PTL

-----------------------------------------------------------------------------
(* Who changes what *)

Busy(w) == slot[w].step # "idle"

(* A step of a slot goes on or ends its work, and touches nothing of any   *)
(* other request.                                                          *)
LEMMA SlotMoves ==
  ASSUME PipelineInv, NEW w \in Workers, WorkerNext(w)
  PROVE  /\ Busy(w) /\ Req(w) \in Requests
         /\ \A v \in Workers : v # w => slot'[v] = slot[v]
         /\ slot'[w].step = "idle" \/ slot'[w].req = slot[w].req
         /\ slot'[w].step # "read"
<1> USE DEF PipelineInv, PipelineTypeOK
<1>1. Busy(w) /\ Req(w) \in Requests /\ slot[w] \in Slot
  <2>1. slot[w].step # "idle"
    BY DEF WorkerNext, Finish, ReadThrows, ReadActivation, GetStoredReply, GetSentKey, SetSentKey,
           SendLogin, SendThrows, StoreReply, Commit, WriteSuccess, CleanUp, DeadLetter,
           MarkFailed, WriteFailure, At
  <2> QED
    BY <2>1 DEF Busy, Req, SlotHoldsJob
<1>2. ASSUME NEW s \in SlotStep \ {"read"}, Goto(w, s)
      PROVE  /\ \A v \in Workers : v # w => slot'[v] = slot[v]
             /\ slot'[w].req = slot[w].req /\ slot'[w].step = s
  BY <1>2 DEF Goto, Slot
<1>3. ASSUME NEW outcome, FailWith(w, outcome)
      PROVE  /\ \A v \in Workers : v # w => slot'[v] = slot[v]
             /\ slot'[w].req = slot[w].req /\ slot'[w].step = "failDb"
  BY <1>3 DEF FailWith, Slot
<1>4. ASSUME NEW err, Throw(w, err)
      PROVE  /\ \A v \in Workers : v # w => slot'[v] = slot[v]
             /\ slot'[w].step \in {"idle", "dlq"}
             /\ slot'[w].step = "idle" \/ slot'[w].req = slot[w].req
  <2>1. PICK x \in {IdleSlot, JobFails(w, Req(w), err)} : slot' = [slot EXCEPT ![w] = x]
    BY <1>4 DEF Throw
  <2>2. x.step \in {"idle", "dlq"} /\ (x.step = "dlq" => x.req = slot[w].req)
    BY <1>1, <2>1, IdleSlotTyped, JobFailsTyped DEF Req
  <2> QED
    BY <2>1, <2>2
<1>5. ASSUME NEW v, Judge(w, v)
      PROVE  /\ \A u \in Workers : u # w => slot'[u] = slot[u]
             /\ slot'[w].req = slot[w].req /\ slot'[w].step \in {"commit", "failDb"}
  BY <1>2, <1>3, <1>5 DEF Judge, SlotStep
<1>6. CASE ReadThrows(w) \/ SendThrows(w)
  BY <1>1, <1>4, <1>6 DEF ReadThrows, SendThrows
<1>7. CASE GetStoredReply(w) \/ StoreReply(w)
  BY <1>1, <1>2, <1>5, <1>7 DEF GetStoredReply, StoreReply, SlotStep
<1>8. CASE Commit(w) \/ GetSentKey(w)
  BY <1>1, <1>2, <1>3, <1>8 DEF Commit, GetSentKey, SlotStep
<1>9. CASE Finish(w)
  BY <1>1, <1>9, IdleSlotTyped DEF Finish
<1>10. CASE SendLogin(w)
  BY <1>1, <1>10 DEF SendLogin, Slot
<1>11. CASE \/ ReadActivation(w) \/ SetSentKey(w) \/ WriteSuccess(w) \/ CleanUp(w) \/ DeadLetter(w)
            \/ MarkFailed(w) \/ WriteFailure(w)
  BY <1>1, <1>2, <1>11
     DEF ReadActivation, SetSentKey, WriteSuccess, CleanUp, DeadLetter, MarkFailed, WriteFailure,
         SlotStep
<1> QED
  BY <1>6, <1>7, <1>8, <1>9, <1>10, <1>11 DEF WorkerNext
LEMMA OtherRequestsKept ==
  ASSUME PipelineInv, NEW w \in Workers, WorkerNext(w), NEW r \in Requests, r # Req(w)
  PROVE  /\ job'[r] = job[r] /\ activations'[r] = activations[r]
         /\ sent'[r] = sent[r] /\ cache'[r] = cache[r] /\ logins'[r] = logins[r]
<1> USE DEF PipelineInv, PipelineTypeOK, DbTypeOK
<1>1. Req(w) \in Requests
  BY SlotMoves
<1>2. ASSUME NEW err, Throw(w, err) PROVE job'[r] = job[r]
  BY <1>1, <1>2 DEF Throw
<1>3. CASE ReadThrows(w) \/ SendThrows(w)
  BY <1>1, <1>2, <1>3 DEF ReadThrows, SendThrows, Deliver, dbVars, redisVars
<1>4. CASE Finish(w) \/ SendLogin(w)
  BY <1>1, <1>4 DEF Finish, SendLogin, Deliver, dbVars, redisVars
<1>5. CASE ReadActivation(w) \/ GetStoredReply(w) \/ GetSentKey(w) \/ DeadLetter(w)
  BY <1>5 DEF ReadActivation, GetStoredReply, GetSentKey, DeadLetter, dbVars, redisVars
<1>6. CASE SetSentKey(w) \/ CleanUp(w) \/ StoreReply(w)
  BY <1>1, <1>6 DEF SetSentKey, CleanUp, StoreReply, dbVars
<1>7. CASE WriteSuccess(w) \/ WriteFailure(w)
  BY <1>1, <1>7 DEF WriteSuccess, WriteFailure, WriteCache, dbVars
<1>8. CASE Commit(w) \/ MarkFailed(w)
  BY <1>1, <1>8 DEF Commit, MarkFailed, CommitLogin, FailAlways, redisVars, dbVars
<1> QED
  BY <1>3, <1>4, <1>5, <1>6, <1>7, <1>8 DEF WorkerNext

(* A step of the API works on one request and on no slot.                  *)
LEMMA ApiTouchesOwn ==
  ASSUME PipelineInv, NEW q \in Requests, ApiNext(q)
  PROVE  /\ UNCHANGED <<slot, sent, logins>>
         /\ \A r \in Requests : r # q => /\ job'[r] = job[r] /\ activations'[r] = activations[r]
                                       /\ cache'[r] = cache[r] /\ api'[r] = api[r]
<1> USE DEF PipelineInv, PipelineTypeOK, DbTypeOK
<1>1. CASE \E k \in Keys : Activate(q, k)
  BY <1>1 DEF Activate, Reserve, queueVars, redisVars
<1>2. CASE Enqueue(q) \/ EnqueueThrows(q)
  BY <1>2 DEF Enqueue, EnqueueThrows, AddJob, dbVars, redisVars
<1>3. CASE MarkReservationFailed(q)
  BY <1>3 DEF MarkReservationFailed, FailIfPending, dbVars, queueVars, redisVars
<1>4. CASE SetEnqueueError(q) \/ SetPending(q) \/ Age(q)
  BY <1>4 DEF SetEnqueueError, SetPending, Age, WriteCache, dbVars, queueVars, redisVars
<1> QED
  BY <1>1, <1>2, <1>3, <1>4 DEF ApiNext

-----------------------------------------------------------------------------
(* A job is in one slot, unless a lock was lost *)

(* A job is added once.                                                    *)
NotYetQueued == \A r \in Requests : api[r] = "enqueue" => job[r].state = "none"

(* A busy slot owns its job, or is about the failure of one that failed.   *)
SlotOwns ==
    \A w \in Workers : Busy(w) =>
        \/ job[Req(w)].state = "active" /\ job[Req(w)].owner = w
        \/ /\ job[Req(w)].state = "failed"
           /\ slot[w].step \in {"dlq", "failDb", "failStatus", "finish"}

OneSlotPerJob == \A v, w \in Workers : v # w /\ Busy(v) /\ Busy(w) => Req(v) # Req(w)

LockInv == NotYetQueued /\ SlotOwns /\ OneSlotPerJob

(* Where a handler of activate goes in a step.                             *)
LEMMA ApiMoves ==
  ASSUME PipelineInv, [Next]_vars, NEW r \in Requests
  PROVE  api'[r] \in {api[r], "crashed"} \/ ApiNext(r)
<1> USE DEF PipelineInv, PipelineTypeOK
<1>1. ASSUME NEW q \in Requests, ApiNext(q), q # r PROVE api'[r] = api[r]
  BY <1>1, ApiTouchesOwn
<1>2. CASE ApiCrash
  BY <1>2 DEF ApiCrash
<1>3. CASE \E w \in Workers : WorkerNext(w)
  BY <1>3, WorkerLeavesApi DEF apiVars
<1>4. CASE QueueNext
  BY <1>4 DEF QueueNext, Take, FailStalled, RecoverStalled, apiVars
<1>5. CASE Environment
  BY <1>2, <1>5
     DEF Environment, WorkerCrash, LoseLock, IssueKey, Ban, IdempotencyKeyExpires, StatusExpires,
         apiVars
<1> QED
  BY <1>1, <1>3, <1>4, <1>5 DEF Next, vars, apiVars

(* Whatever a job goes through, it is added by its own handler only.       *)
LEMMA OnlyAddsQueue ==
  ASSUME PipelineInv, [Next]_vars, NEW r \in Requests, job[r].state = "none", job'[r].state # "none"
  PROVE  ApiNext(r) /\ api[r] = "enqueue" /\ api'[r] \in {"setPending", "markFailed"}
         /\ (api'[r] = "markFailed" => "enqueueLost" \in Faults)
<1> USE DEF PipelineInv, PipelineTypeOK
<1>1. CASE ApiNext(r)
  <2>1. CASE Enqueue(r)
    BY <1>1, <2>1 DEF Enqueue
  <2>2. CASE EnqueueThrows(r)
    BY <1>1, <2>2 DEF EnqueueThrows, Fault
  <2>3. Enqueue(r) \/ EnqueueThrows(r)
    BY <1>1 DEF ApiNext, Activate, MarkReservationFailed, SetEnqueueError, SetPending, Age, queueVars
  <2> QED
    BY <1>1, <2>1, <2>2, <2>3
<1>2. ASSUME NEW q \in Requests, ApiNext(q), q # r PROVE FALSE
  BY <1>2, ApiTouchesOwn
<1>3. ASSUME NEW w \in Workers, WorkerNext(w) PROVE FALSE
  <2>1. Busy(w) /\ Req(w) # r
    BY <1>3, SlotMoves DEF SlotHoldsJob, Busy, Req
  <2> QED
    BY <1>3, <2>1, OtherRequestsKept
<1>4. CASE QueueNext
  BY <1>4 DEF QueueNext, Take, FailStalled, RecoverStalled, Job
<1>5. CASE Environment
  <2>1. CASE WorkerCrash
    BY <2>1 DEF WorkerCrash, Job
  <2>2. CASE \E w \in Workers : LoseLock(w)
    <3>1. PICK q : job' = [job EXCEPT ![q].owner = Nobody]
      BY <2>2 DEF LoseLock
    <3> QED
      BY <3>1 DEF Job
  <2>3. CASE UNCHANGED queueVars
    BY <2>3 DEF queueVars
  <2> QED
    BY <1>5, <2>1, <2>2, <2>3
       DEF Environment, ApiCrash, IssueKey, Ban, IdempotencyKeyExpires, StatusExpires
<1> QED
  BY <1>1, <1>2, <1>3, <1>4, <1>5 DEF Next, vars, queueVars

LEMMA NotYetQueuedStep ==
  ASSUME PipelineInv, NotYetQueued, [Next]_vars
  PROVE  NotYetQueued'
<1> SUFFICES ASSUME NEW r \in Requests, api'[r] = "enqueue" PROVE job'[r].state = "none"
  BY DEF NotYetQueued
<1>1. job[r].state = "none"
  <2>1. CASE api[r] = "enqueue"
    BY <2>1 DEF NotYetQueued
  <2>2. CASE ApiNext(r) /\ api[r] # "enqueue"
    <3>1. \E k \in Keys : Activate(r, k)
      BY <2>2
         DEF ApiNext, Enqueue, EnqueueThrows, MarkReservationFailed, SetEnqueueError, SetPending,
             Age, PipelineInv, PipelineTypeOK
    <3> QED
      BY <3>1 DEF Activate, Reserve, PipelineInv, JobHoldsKey
  <2> QED
    BY <2>1, <2>2, ApiMoves
<1> QED
  BY <1>1, OnlyAddsQueue

(* How a slot's own step leaves its job.                                   *)
LEMMA SlotOwnsItsStep ==
  ASSUME PipelineInv, SlotOwns, NEW w \in Workers, WorkerNext(w), slot'[w].step # "idle"
  PROVE  \/ job'[Req(w)].state = "active" /\ job'[Req(w)].owner = w
         \/ /\ job'[Req(w)].state = "failed"
            /\ slot'[w].step \in {"dlq", "failDb", "failStatus", "finish"}
<1> USE DEF PipelineInv, PipelineTypeOK
<1>1. Busy(w) /\ Req(w) \in Requests /\ slot[w] \in Slot
      /\ \/ job[Req(w)].state = "active" /\ job[Req(w)].owner = w
         \/ /\ job[Req(w)].state = "failed"
            /\ slot[w].step \in {"dlq", "failDb", "failStatus", "finish"}
  BY SlotMoves DEF SlotOwns
<1>2. ASSUME NEW err, Throw(w, err)
      PROVE  job'[Req(w)].state = "failed" /\ slot'[w].step = "dlq"
  <2>1. slot'[w] # IdleSlot
    BY IdleSlotTyped
  <2>2. Owns(w) /\ job[Req(w)].made + 1 >= Attempts
        /\ slot' = [slot EXCEPT ![w] = [IdleSlot EXCEPT !.step = "dlq", !.req = Req(w),
                                                     !.outcome = ExhaustedError(err)]]
        /\ job' = [job EXCEPT ![Req(w)].made = @ + 1, ![Req(w)].owner = Nobody,
                              ![Req(w)].state = "failed"]
    BY <1>1, <1>2, <2>1 DEF Throw, JobFails
  <2> QED
    BY <1>1, <2>2 DEF Job, Slot, IdleSlot
<1>3. CASE ReadThrows(w) \/ SendThrows(w)
  BY <1>2, <1>3 DEF ReadThrows, SendThrows
<1>4. CASE Finish(w)
  BY <1>1, <1>4, IdleSlotTyped DEF Finish
<1>5. CASE DeadLetter(w) \/ MarkFailed(w) \/ WriteFailure(w)
  <2>1. job' = job /\ slot[w].step \in {"dlq", "failDb", "failStatus"}
    BY <1>5 DEF DeadLetter, MarkFailed, WriteFailure, At
  <2>2. \E s \in {"failDb", "finish", "failStatus"} : Goto(w, s)
    BY <1>5 DEF DeadLetter, MarkFailed, WriteFailure
  <2>3. slot'[w].step \in {"failDb", "finish", "failStatus"}
    BY <1>1, <2>2 DEF Goto, Slot
  <2> QED
    BY <1>1, <2>1, <2>3
<1>6. CASE ReadActivation(w) \/ GetStoredReply(w) \/ GetSentKey(w) \/ SetSentKey(w)
  BY <1>1, <1>6 DEF ReadActivation, GetStoredReply, GetSentKey, SetSentKey, At
<1>7. CASE SendLogin(w) \/ StoreReply(w) \/ Commit(w) \/ WriteSuccess(w) \/ CleanUp(w)
  BY <1>1, <1>7 DEF SendLogin, StoreReply, Commit, WriteSuccess, CleanUp, At
<1> QED
  BY <1>3, <1>4, <1>5, <1>6, <1>7 DEF WorkerNext

LEMMA LockInvStep ==
  ASSUME PipelineInv, LockInv, [Next]_vars, "lockLost" \notin Faults
  PROVE  LockInv'
<1> USE DEF PipelineInv, PipelineTypeOK
<1>1. NotYetQueued'
  BY NotYetQueuedStep DEF LockInv
<1>2. CASE \E w \in Workers : WorkerNext(w)
  <2>1. PICK w \in Workers : WorkerNext(w)
    BY <1>2
  <2>2. /\ Busy(w) /\ Req(w) \in Requests
        /\ \A v \in Workers : v # w => slot'[v] = slot[v]
        /\ slot'[w].step # "idle" => slot'[w].req = slot[w].req
    BY <2>1, SlotMoves
  <2>3. \A v \in Workers : v # w /\ Busy(v) => Req(v) # Req(w) /\ Req(v) \in Requests
    BY <2>2 DEF LockInv, OneSlotPerJob, SlotHoldsJob, Busy, Req
  <2>4. \A v \in Workers : v # w /\ Busy(v) => job'[Req(v)] = job[Req(v)]
    BY <2>1, <2>3, OtherRequestsKept
  <2>5. SlotOwns'
    <3> SUFFICES ASSUME NEW v \in Workers, slot'[v].step # "idle"
                 PROVE  \/ job'[slot'[v].req].state = "active" /\ job'[slot'[v].req].owner = v
                        \/ /\ job'[slot'[v].req].state = "failed"
                           /\ slot'[v].step \in {"dlq", "failDb", "failStatus", "finish"}
      BY DEF SlotOwns, Busy, Req
    <3>1. CASE v = w
      <4>1. \/ job'[Req(w)].state = "active" /\ job'[Req(w)].owner = w
            \/ /\ job'[Req(w)].state = "failed"
               /\ slot'[w].step \in {"dlq", "failDb", "failStatus", "finish"}
        BY <2>1, <3>1, SlotOwnsItsStep DEF LockInv
      <4>2. slot'[v].step # "idle" /\ slot'[v].req = Req(w)
        BY <2>2, <3>1 DEF Req
      <4> QED
        BY <3>1, <4>1, <4>2
    <3>2. CASE v # w
      <4>1. slot'[v] = slot[v] /\ job'[slot[v].req] = job[slot[v].req]
        BY <2>2, <2>4, <3>2 DEF Busy, Req
      <4> QED
        BY <3>2, <4>1 DEF LockInv, SlotOwns, Busy, Req
    <3> QED
      BY <3>1, <3>2
  <2>6. OneSlotPerJob'
    BY <2>2, <2>3 DEF LockInv, OneSlotPerJob, Busy, Req
  <2> QED
    BY <1>1, <2>5, <2>6 DEF LockInv
<1>3. ASSUME NEW r \in Requests, ApiNext(r) PROVE LockInv'
  <2>1. slot' = slot /\ \A q \in Requests : q # r => job'[q] = job[q]
    BY <1>3, ApiTouchesOwn
  <2>2. job'[r] = job[r] \/ job[r].state = "none"
    BY <1>3
       DEF ApiNext, Activate, Enqueue, EnqueueThrows, MarkReservationFailed, SetEnqueueError,
           SetPending, Age, queueVars, LockInv, NotYetQueued
  <2>3. \A w \in Workers : Busy(w) => Req(w) \in Requests /\ job'[Req(w)] = job[Req(w)]
    BY <2>1, <2>2 DEF SlotHoldsJob, Busy, Req
  <2> QED
    BY <1>1, <2>1, <2>3 DEF LockInv, SlotOwns, OneSlotPerJob, Busy, Req
<1>4. ASSUME NEW w \in Workers, NEW r \in Requests, Take(w, r) \/ FailStalled(w, r) PROVE LockInv'
  <2>1. PICK x : /\ slot' = [slot EXCEPT ![w] = x]
                 /\ x.step = "idle" \/ x.req = r
                 /\ \/ x.step = "read" /\ job'[r].state = "active" /\ job'[r].owner = w
                    \/ x.step = "idle"
                    \/ x.step = "dlq" /\ job'[r].state = "failed"
    <3>1. CASE Take(w, r)
      <4> DEFINE x == [IdleSlot EXCEPT !.step = "read", !.req = r]
      <4>1. slot' = [slot EXCEPT ![w] = x] /\ x.req = r /\ x.step = "read"
        BY <3>1 DEF Take, IdleSlot
      <4>2. job'[r].state = "active" /\ job'[r].owner = w
        BY <3>1 DEF Take, Job
      <4> QED
        BY <4>1, <4>2
    <3>2. CASE FailStalled(w, r)
      <4>1. /\ slot' = [slot EXCEPT ![w] = JobFails(w, r, "stalled")]
            /\ job'[r].state = "failed"
        BY <3>2 DEF FailStalled, Job
      <4> DEFINE x == JobFails(w, r, "stalled")
      <4>2. x.step \in {"idle", "dlq"} /\ (x.step = "dlq" => x.req = r)
        BY JobFailsTyped
      <4> HIDE DEF x
      <4> QED
        BY <4>1, <4>2 DEF x
    <3> QED
      BY <1>4, <3>1, <3>2
  <2>2. \A q \in Requests : q # r => job'[q] = job[q]
    BY <1>4 DEF Take, FailStalled
  <2>3. \A v \in Workers : Busy(v) => Req(v) # r /\ Req(v) \in Requests
    BY <1>4, NobodyAssumption DEF Take, FailStalled, LockInv, SlotOwns, SlotHoldsJob, Busy, Req
  <2>4. ~Busy(w)
    BY <1>4 DEF Take, FailStalled, At, Busy
  <2>5. SlotOwns'
    BY <2>1, <2>2, <2>3 DEF LockInv, SlotOwns, Busy, Req
  <2>6. OneSlotPerJob'
    BY <2>1, <2>3 DEF LockInv, OneSlotPerJob, Busy, Req
  <2> QED
    BY <1>1, <2>5, <2>6 DEF LockInv
<1>5. ASSUME NEW r \in Requests, RecoverStalled(r) PROVE LockInv'
  <2>1. slot' = slot /\ \A q \in Requests : q # r => job'[q] = job[q]
    BY <1>5 DEF RecoverStalled
  <2>2. \A v \in Workers : Busy(v) => Req(v) # r /\ Req(v) \in Requests
    BY <1>5, NobodyAssumption DEF RecoverStalled, LockInv, SlotOwns, SlotHoldsJob, Busy, Req
  <2> QED
    BY <1>1, <2>1, <2>2 DEF LockInv, SlotOwns, OneSlotPerJob, Busy, Req
<1>6. CASE WorkerCrash
  BY <1>1, <1>6, IdleSlotTyped DEF WorkerCrash, LockInv, SlotOwns, OneSlotPerJob, Busy
<1>7. CASE UNCHANGED queueVars
  BY <1>1, <1>7 DEF queueVars, LockInv, SlotOwns, OneSlotPerJob, Busy, Req
<1>8. CASE Environment
  BY <1>6, <1>7, <1>8
     DEF Environment, ApiCrash, LoseLock, IssueKey, Ban, IdempotencyKeyExpires, StatusExpires, Fault
<1> QED
  BY <1>2, <1>3, <1>4, <1>5, <1>7, <1>8 DEF Next, QueueNext, vars
-----------------------------------------------------------------------------
(* One login per request, unless a lock or a mark was lost *)

(* The mark precedes the command.                                          *)
LoginsMarked ==
    /\ \A r \in Requests : logins[r] <= 1 /\ (logins[r] # 0 => sent[r])
    /\ \A w \in Workers : /\ slot[w].step \in {"setSent", "send"} => logins[Req(w)] = 0
                          /\ slot[w].step = "send" => sent[Req(w)]

(* Redis keeps and takes the marks, and no lock is lost.                   *)
MarksHold == {"lockLost", "ttl", "redis"} \cap Faults = {}

LEMMA SlotMarks ==
  ASSUME PipelineInv, LoginsMarked, MarksHold, NEW w \in Workers, WorkerNext(w)
  PROVE  /\ sent[Req(w)] => sent'[Req(w)]
         /\ logins'[Req(w)] <= 1 /\ (logins'[Req(w)] # 0 => sent'[Req(w)])
         /\ slot'[w].step \in {"setSent", "send"} => logins'[Req(w)] = 0
         /\ slot'[w].step = "send" => sent'[Req(w)]
<1> USE DEF PipelineInv, PipelineTypeOK
<1>1. /\ Req(w) \in Requests /\ slot[w] \in Slot
      /\ logins[Req(w)] \in Nat /\ logins[Req(w)] <= 1 /\ (logins[Req(w)] # 0 => sent[Req(w)])
      /\ slot[w].step \in {"setSent", "send"} => logins[Req(w)] = 0
      /\ slot[w].step = "send" => sent[Req(w)]
  BY SlotMoves DEF LoginsMarked
<1>2. ASSUME NEW err, Throw(w, err) PROVE slot'[w].step \in {"idle", "dlq"}
  <2>1. PICK x \in {IdleSlot, JobFails(w, Req(w), err)} : slot' = [slot EXCEPT ![w] = x]
    BY <1>2 DEF Throw
  <2> QED
    BY <1>1, <2>1, IdleSlotTyped, JobFailsTyped
<1>3. CASE SendThrows(w)
  <2>1. slot'[w].step \in {"idle", "dlq"} /\ slot[w].step = "send" /\ sent' = sent
    BY <1>2, <1>3 DEF SendThrows, At, redisVars
  <2>2. logins' = logins \/ Deliver(w)
    BY <1>3 DEF SendThrows
  <2> QED
    BY <1>1, <2>1, <2>2 DEF Deliver
<1>4. CASE SendLogin(w)
  <2>1. slot'[w].step = "storeReply" /\ slot[w].step = "send" /\ sent' = sent
    BY <1>1, <1>4 DEF SendLogin, At, redisVars, Slot
  <2> QED
    BY <1>1, <1>4, <2>1 DEF SendLogin, Deliver
<1>5. CASE SetSentKey(w)
  BY <1>1, <1>5 DEF SetSentKey, At, Goto, Slot, Fault, MarksHold
<1>6. CASE GetSentKey(w)
  BY <1>1, <1>6 DEF GetSentKey, At, Goto, FailWith, Slot, redisVars
<1>7. ASSUME slot'[w].step \notin {"setSent", "send"}, UNCHANGED logins,
             UNCHANGED sent \/ sent' = [sent EXCEPT ![Req(w)] = TRUE]
      PROVE  /\ sent[Req(w)] => sent'[Req(w)]
             /\ logins'[Req(w)] <= 1 /\ (logins'[Req(w)] # 0 => sent'[Req(w)])
             /\ slot'[w].step \in {"setSent", "send"} => logins'[Req(w)] = 0
             /\ slot'[w].step = "send" => sent'[Req(w)]
  BY <1>1, <1>7
<1>8. ASSUME NEW s, Goto(w, s) PROVE slot'[w].step = s
  BY <1>1, <1>8 DEF Goto, Slot
<1>9. ASSUME NEW outcome, FailWith(w, outcome) PROVE slot'[w].step = "failDb"
  BY <1>1, <1>9 DEF FailWith, Slot
<1>10. CASE ReadThrows(w)
  BY <1>2, <1>7, <1>10 DEF ReadThrows, redisVars
<1>11. CASE Finish(w)
  BY <1>7, <1>11, IdleSlotTyped DEF Finish, redisVars
<1>12. CASE ReadActivation(w) \/ DeadLetter(w) \/ MarkFailed(w) \/ WriteFailure(w) \/ WriteSuccess(w)
  BY <1>7, <1>8, <1>12
     DEF ReadActivation, DeadLetter, MarkFailed, WriteFailure, WriteSuccess, redisVars
<1>13. CASE GetStoredReply(w) \/ StoreReply(w)
  BY <1>7, <1>8, <1>9, <1>13 DEF GetStoredReply, StoreReply, Judge, redisVars
<1>14. CASE Commit(w) \/ CleanUp(w)
  BY <1>7, <1>8, <1>9, <1>14 DEF Commit, CleanUp, redisVars
<1> QED
  BY <1>3, <1>4, <1>5, <1>6, <1>10, <1>11, <1>12, <1>13, <1>14 DEF WorkerNext
(* The slots that did not just step are where they were, or idle, or have  *)
(* just been given a job.                                                  *)
LEMMA SlotComesFrom ==
  ASSUME PipelineInv, [Next]_vars, NEW w \in Workers, slot'[w] # slot[w]
  PROVE  WorkerNext(w) \/ slot'[w].step \in {"idle", "read", "dlq"}
<1> USE DEF PipelineInv, PipelineTypeOK
<1>1. ASSUME NEW v \in Workers, WorkerNext(v), v # w PROVE FALSE
  BY <1>1, SlotMoves
<1>2. ASSUME NEW v \in Workers, NEW r \in Requests, Take(v, r)
      PROVE  slot'[w].step \in {"idle", "read", "dlq"}
  BY <1>2, IdleSlotTyped DEF Take, Slot
<1>3. ASSUME NEW v \in Workers, NEW r \in Requests, FailStalled(v, r)
      PROVE  slot'[w].step \in {"idle", "read", "dlq"}
  BY <1>3, JobFailsTyped DEF FailStalled
<1>4. CASE WorkerCrash
  BY <1>4, IdleSlotTyped DEF WorkerCrash
<1>5. ASSUME NEW r \in Requests, ApiNext(r) PROVE FALSE
  BY <1>5, ApiTouchesOwn
<1>6. CASE UNCHANGED queueVars
  BY <1>6 DEF queueVars
<1> QED
  BY <1>1, <1>2, <1>3, <1>4, <1>5, <1>6
     DEF Next, QueueNext, RecoverStalled, Environment, ApiCrash, LoseLock, IssueKey, Ban,
         IdempotencyKeyExpires, StatusExpires, vars, queueVars

(* What is in Redis and what the bot was given changes in a slot's step or *)
(* by a fault.                                                             *)
LEMMA MarksChange ==
  ASSUME PipelineInv, [Next]_vars, ~\E w \in Workers : WorkerNext(w)
  PROVE  UNCHANGED logins /\ ("ttl" \notin Faults => UNCHANGED sent)
<1>1. CASE \E r \in Requests : ApiNext(r)
  BY <1>1, ApiTouchesOwn
<1>2. CASE QueueNext
  BY <1>2 DEF QueueNext, Take, FailStalled, RecoverStalled, redisVars
<1>3. CASE Environment
  BY <1>3
     DEF Environment, ApiCrash, WorkerCrash, LoseLock, IssueKey, Ban, IdempotencyKeyExpires,
         StatusExpires, redisVars, Fault
<1> QED
  BY <1>1, <1>2, <1>3 DEF Next, vars, redisVars

LEMMA LoginsMarkedStep ==
  ASSUME PipelineInv, LockInv, LoginsMarked, MarksHold, [Next]_vars
  PROVE  LoginsMarked'
<1>1. CASE \E w \in Workers : WorkerNext(w)
  <2>1. PICK w \in Workers : WorkerNext(w)
    BY <1>1
  <2>2. /\ Busy(w) /\ Req(w) \in Requests
        /\ \A v \in Workers : v # w => slot'[v] = slot[v]
        /\ slot'[w].step = "idle" \/ slot'[w].req = slot[w].req
    BY <2>1, SlotMoves
  <2>3. /\ logins'[Req(w)] <= 1 /\ (logins'[Req(w)] # 0 => sent'[Req(w)])
        /\ slot'[w].step \in {"setSent", "send"} => logins'[Req(w)] = 0
        /\ slot'[w].step = "send" => sent'[Req(w)]
    BY <2>1, SlotMarks
  <2>4. \A r \in Requests : r # Req(w) => sent'[r] = sent[r] /\ logins'[r] = logins[r]
    BY <2>1, OtherRequestsKept
  <2>5. \A r \in Requests : logins'[r] <= 1 /\ (logins'[r] # 0 => sent'[r])
    BY <2>3, <2>4 DEF LoginsMarked
  <2>6. ASSUME NEW v \in Workers, slot'[v].step # "idle"
        PROVE  /\ slot'[v].step \in {"setSent", "send"} => logins'[slot'[v].req] = 0
               /\ slot'[v].step = "send" => sent'[slot'[v].req]
    <3>1. CASE v = w
      BY <2>2, <2>3, <2>6, <3>1 DEF Req
    <3>2. CASE v # w
      <4>1. slot'[v] = slot[v] /\ Busy(v)
        BY <2>2, <2>6, <3>2 DEF Busy
      <4>2. Req(v) \in Requests /\ Req(v) # Req(w)
        BY <2>2, <3>2, <4>1 DEF LockInv, OneSlotPerJob, PipelineInv, SlotHoldsJob, Busy, Req
      <4> QED
        BY <2>4, <4>1, <4>2 DEF LoginsMarked, Req
    <3> QED
      BY <3>1, <3>2
  <2> QED
    BY <2>5, <2>6 DEF LoginsMarked, Req
<1>2. CASE ~\E w \in Workers : WorkerNext(w)
  <2>1. UNCHANGED <<sent, logins>>
    BY <1>2, MarksChange DEF MarksHold
  <2>2. \A w \in Workers : slot'[w] = slot[w] \/ slot'[w].step \notin {"setSent", "send"}
    BY <1>2, SlotComesFrom
  <2> QED
    BY <2>1, <2>2 DEF LoginsMarked, Req
<1> QED
  BY <1>1, <1>2

LEMMA LockInvInit == PipelineInit => LockInv
  BY IdleSlotTyped DEF PipelineInit, LockInv, NotYetQueued, SlotOwns, OneSlotPerJob, Busy

(* A request reaches the bot at most once, unless Redis drops or refuses   *)
(* the mark, or a slot that lost its lock goes on.                         *)
THEOREM LoginsAreSingle ==
  ASSUME MarksHold
  PROVE  Spec => []SingleLogin
<1>1. PipelineInit => PipelineInv /\ LockInv /\ LoginsMarked
  <2> SUFFICES ASSUME PipelineInit PROVE LoginsMarked
    BY PipelineInitHolds, LockInvInit
  <2> QED
    BY IdleSlotTyped DEF PipelineInit, LoginsMarked
<1>2. PipelineInv /\ LockInv /\ LoginsMarked /\ [Next]_vars
      => (PipelineInv /\ LockInv /\ LoginsMarked)'
  BY PipelineInvStep, LockInvStep, LoginsMarkedStep DEF MarksHold
<1>3. LoginsMarked => SingleLogin
  BY DEF LoginsMarked, SingleLogin
<1> QED
  BY <1>1, <1>2, <1>3, PTL DEF Spec

-----------------------------------------------------------------------------
(* Decisions are taken for rows that stand *)

Deciding == {"getReply", "getSent", "setSent", "send", "storeReply", "commit"}

(* The handler gives up a reservation only when it has no job.             *)
GivenUpUnqueued == \A r \in Requests : api[r] = "markFailed" => job[r].state = "none"

(* What a slot decides about is pending, from its read to its commit.      *)
DecidesPending ==
    \A w \in Workers : slot[w].step \in Deciding => activations[Req(w)].result = "pending"

(* No lock is lost, and queue.add does not throw over a job it took.       *)
QueueAnswers == {"lockLost", "enqueueLost"} \cap Faults = {}

LEMMA GivenUpUnqueuedStep ==
  ASSUME PipelineInv, NotYetQueued, GivenUpUnqueued, QueueAnswers, [Next]_vars
  PROVE  GivenUpUnqueued'
<1> SUFFICES ASSUME NEW r \in Requests, api'[r] = "markFailed" PROVE job'[r].state = "none"
  BY DEF GivenUpUnqueued
<1>1. job[r].state = "none"
  <2>1. CASE api[r] = "markFailed"
    BY <2>1 DEF GivenUpUnqueued
  <2>2. CASE ApiNext(r) /\ api[r] # "markFailed"
    <3>1. EnqueueThrows(r)
      BY <2>2
         DEF ApiNext, Activate, Enqueue, MarkReservationFailed, SetEnqueueError, SetPending,
             Age, PipelineInv, PipelineTypeOK
    <3> QED
      BY <3>1 DEF EnqueueThrows, NotYetQueued
  <2> QED
    BY <2>1, <2>2, ApiMoves
<1> QED
  BY <1>1, OnlyAddsQueue DEF QueueAnswers

(* Rows change in the step of a slot that commits or fails them, or of a   *)
(* handler whose job is not there.                                         *)
LEMMA RowChanges ==
  ASSUME PipelineInv, [Next]_vars, NEW r \in Requests, activations'[r] # activations[r]
  PROVE  \/ \E w \in Workers : (Commit(w) \/ MarkFailed(w)) /\ Req(w) = r
         \/ \E k \in Keys : Activate(r, k)
         \/ MarkReservationFailed(r)
<1>1. ASSUME NEW w \in Workers, WorkerNext(w)
      PROVE  (Commit(w) \/ MarkFailed(w)) /\ Req(w) = r
  <2>1. Req(w) = r
    BY <1>1, OtherRequestsKept
  <2>2. Commit(w) \/ MarkFailed(w)
    BY <1>1
       DEF WorkerNext, Finish, ReadThrows, ReadActivation, GetStoredReply, GetSentKey, SetSentKey,
           SendLogin, SendThrows, StoreReply, WriteSuccess, CleanUp, DeadLetter, WriteFailure, dbVars
  <2> QED
    BY <2>1, <2>2
<1>2. ASSUME NEW q \in Requests, ApiNext(q)
      PROVE  (\E k \in Keys : Activate(r, k)) \/ MarkReservationFailed(r)
  <2>1. q = r
    BY <1>2, ApiTouchesOwn
  <2> QED
    BY <1>2, <2>1 DEF ApiNext, Enqueue, EnqueueThrows, SetEnqueueError, SetPending, Age, dbVars
<1>3. CASE QueueNext
  BY <1>3 DEF QueueNext, Take, FailStalled, RecoverStalled, dbVars
<1>4. CASE Environment
  BY <1>4
     DEF Environment, ApiCrash, WorkerCrash, LoseLock, IssueKey, CreateKey, Ban, WriteStatus,
         IdempotencyKeyExpires, StatusExpires, dbVars
<1> QED
  BY <1>1, <1>2, <1>3, <1>4 DEF Next, vars, dbVars

(* The pending row of a busy slot is left to its slot.                     *)
LEMMA PendingStays ==
  ASSUME PipelineInv, LockInv, GivenUpUnqueued, [Next]_vars, NEW w \in Workers, Busy(w),
         activations[Req(w)].result = "pending", ~Commit(w), ~MarkFailed(w)
  PROVE  activations'[Req(w)] = activations[Req(w)]
<1> SUFFICES ASSUME activations'[Req(w)] # activations[Req(w)] PROVE FALSE
  OBVIOUS
<1>1. Req(w) \in Requests /\ job[Req(w)].state # "none"
  BY DEF PipelineInv, SlotHoldsJob, Busy, Req
<1>2. ASSUME NEW u \in Workers, Commit(u) \/ MarkFailed(u), Req(u) = Req(w) PROVE FALSE
  <2>1. WorkerNext(u)
    BY <1>2 DEF WorkerNext
  <2> QED
    BY <1>2, <2>1, SlotMoves DEF LockInv, OneSlotPerJob
<1>3. ASSUME NEW k \in Keys, Activate(Req(w), k) PROVE FALSE
  BY <1>3 DEF Activate, Reserve
<1>4. ~MarkReservationFailed(Req(w))
  BY <1>1 DEF MarkReservationFailed, GivenUpUnqueued
<1> QED
  BY <1>1, <1>2, <1>3, <1>4, RowChanges

(* A step that leaves a slot deciding began there, or read a pending row.  *)
LEMMA BackToDeciding ==
  ASSUME PipelineInv, NEW w \in Workers, WorkerNext(w), slot'[w].step \in Deciding
  PROVE  slot[w].step \in Deciding \/ ReadActivation(w)
<1>1. slot[w] \in Slot
  BY DEF PipelineInv, PipelineTypeOK
<1>2. ASSUME NEW err, Throw(w, err) PROVE FALSE
  <2>1. PICK x \in {IdleSlot, JobFails(w, Req(w), err)} : slot' = [slot EXCEPT ![w] = x]
    BY <1>2 DEF Throw
  <2> QED
    BY <2>1, SlotMoves, IdleSlotTyped, JobFailsTyped DEF Deciding, PipelineInv, PipelineTypeOK
<1>3. ~ReadThrows(w) /\ ~Finish(w)
  BY <1>2, IdleSlotTyped DEF ReadThrows, Finish, Deciding, PipelineInv, PipelineTypeOK
<1>4. ASSUME NEW s, Goto(w, s) PROVE s \in Deciding
  BY <1>1, <1>4 DEF Goto, Slot, PipelineInv, PipelineTypeOK
<1>5. ~WriteSuccess(w) /\ ~CleanUp(w) /\ ~MarkFailed(w) /\ ~WriteFailure(w) /\ ~DeadLetter(w)
  BY <1>4 DEF WriteSuccess, CleanUp, MarkFailed, WriteFailure, DeadLetter, Deciding
<1> QED
  BY <1>3, <1>5
     DEF WorkerNext, GetStoredReply, GetSentKey, SetSentKey, SendLogin, SendThrows, StoreReply,
         Commit, At, Deciding

LEMMA DecidesPendingStep ==
  ASSUME PipelineInv, LockInv, GivenUpUnqueued, DecidesPending, QueueAnswers, [Next]_vars
  PROVE  DecidesPending'
<1> SUFFICES ASSUME NEW w \in Workers, slot'[w].step \in Deciding
             PROVE  activations'[slot'[w].req].result = "pending"
  BY DEF DecidesPending, Req
<1> USE DEF PipelineInv, PipelineTypeOK
<1>1. /\ slot'[w].req = Req(w) /\ Busy(w) /\ Req(w) \in Requests
      /\ activations[Req(w)].result = "pending" /\ ~Commit(w) /\ ~MarkFailed(w)
  <2>1. CASE slot'[w] = slot[w]
    <3>1. Busy(w) /\ Req(w) \in Requests /\ activations[Req(w)].result = "pending"
      BY <2>1 DEF DecidesPending, Deciding, SlotHoldsJob, Busy, Req
    <3>2. ~Commit(w) /\ ~MarkFailed(w)
      BY <2>1 DEF Commit, MarkFailed, At, Goto, FailWith, Deciding, Slot
    <3> QED
      BY <2>1, <3>1, <3>2 DEF Req
  <2>2. CASE WorkerNext(w)
    <3>1. Busy(w) /\ Req(w) \in Requests /\ slot'[w].req = Req(w) /\ slot[w] \in Slot
      BY <2>2, SlotMoves DEF Deciding, Req
    <3>2. ~Commit(w) /\ ~MarkFailed(w)
      BY DEF Commit, MarkFailed, Goto, FailWith, Deciding, Slot
    <3>3. slot[w].step \in Deciding \/ ReadActivation(w)
      BY <2>2, <3>1, BackToDeciding DEF Deciding
    <3>4. activations[Req(w)].result = "pending"
      <4>1. CASE slot[w].step \in Deciding
        BY <4>1 DEF DecidesPending
      <4>2. CASE ReadActivation(w)
        BY <3>1, <4>2 DEF ReadActivation, Goto, Deciding, Slot
      <4> QED
        BY <3>3, <4>1, <4>2
    <3> QED
      BY <3>1, <3>2, <3>4
  <2> QED
    BY <2>1, <2>2, SlotComesFrom DEF Deciding
<1> QED
  BY <1>1, PendingStays

DecidingInv == PipelineInv /\ LockInv /\ GivenUpUnqueued /\ DecidesPending

LEMMA DecidingInvHolds ==
  ASSUME QueueAnswers
  PROVE  Spec => []DecidingInv
<1>1. PipelineInit => DecidingInv
  <2> SUFFICES ASSUME PipelineInit PROVE GivenUpUnqueued /\ DecidesPending
    BY PipelineInitHolds, LockInvInit DEF DecidingInv
  <2> QED
    BY IdleSlotTyped DEF PipelineInit, GivenUpUnqueued, DecidesPending, Deciding
<1>2. DecidingInv /\ [Next]_vars => DecidingInv'
  BY PipelineInvStep, LockInvStep, GivenUpUnqueuedStep, DecidesPendingStep
     DEF QueueAnswers, LockInv, DecidingInv
<1> QED
  BY <1>1, <1>2, PTL DEF Spec

(* The slots that decide about a key still have a pending row of it.       *)
THEOREM DecidersHoldTheirKey ==
  ASSUME QueueAnswers
  PROVE  Spec => []KeyInOneSlot
<1>1. DecidingInv /\ OnePendingPerKey => KeyInOneSlot
  <2> SUFFICES ASSUME DecidingInv, OnePendingPerKey,
                      NEW v \in Workers, NEW w \in Workers, v # w,
                      {slot[v].step, slot[w].step} \subseteq {"setSent", "send", "storeReply", "commit"}
               PROVE  job[Req(v)].key # job[Req(w)].key
    BY DEF KeyInOneSlot
  <2>1. ASSUME NEW u \in {v, w}
        PROVE  /\ Busy(u) /\ Req(u) \in Requests
               /\ activations[Req(u)].license = job[Req(u)].key /\ job[Req(u)].key \in Keys
               /\ activations[Req(u)].result = "pending"
    BY DEF DecidingInv, DecidesPending, Deciding, PipelineInv, SlotHoldsJob, JobHoldsKey, Busy, Req
  <2>2. Req(v) # Req(w)
    BY <2>1 DEF DecidingInv, LockInv, OneSlotPerJob
  <2> QED
    BY <2>1, <2>2, NoKeyAssumption DEF OnePendingPerKey
<1> QED
  BY <1>1, DecidingInvHolds, PipelineOnePending, PTL DEF Spec

(* The bot is given the command of a request whose row is pending.         *)
THEOREM LoginsAreReserved ==
  ASSUME QueueAnswers
  PROVE  Spec => LoginWhileReserved
<1>1. ASSUME DecidingInv, [Next]_vars
      PROVE  [\A r \in Requests : logins'[r] # logins[r] => activations[r].result = "pending"]_vars
  <2> SUFFICES ASSUME NEW r \in Requests, logins'[r] # logins[r]
               PROVE  activations[r].result = "pending"
    OBVIOUS
  <2>1. PICK w \in Workers : WorkerNext(w)
    BY <1>1, MarksChange DEF DecidingInv
  <2>2. Req(w) = r
    BY <1>1, <2>1, OtherRequestsKept DEF DecidingInv
  <2>3. At(w, "send")
    BY <2>1
       DEF WorkerNext, Finish, ReadThrows, ReadActivation, GetStoredReply, GetSentKey, SetSentKey,
           SendLogin, SendThrows, StoreReply, Commit, WriteSuccess, CleanUp, DeadLetter,
           MarkFailed, WriteFailure
  <2> QED
    BY <1>1, <2>2, <2>3 DEF DecidingInv, DecidesPending, Deciding, At
<1> QED
  BY <1>1, DecidingInvHolds, PTL DEF Spec, LoginWhileReserved

-----------------------------------------------------------------------------
(* A job is never exhausted, as long as nothing but processes fails *)

(* Postgres and Redis answer, locks are renewed and three attempts are     *)
(* configured; processes die, the queue may refuse a job.                  *)
OnlyCrashes ==
    /\ Faults \subseteq {"workerCrash", "apiCrash", "enqueue", "age", "statusTtl", "ban"}
    /\ Attempts >= 3

(* The first attempt that throws has marked the request, and the next one  *)
(* ends at the mark: no job reaches its third.                             *)
Attempted ==
    /\ \A r \in Requests :
          job[r].state # "failed" => job[r].made <= 1 /\ (job[r].made # 0 => sent[r])
    /\ \A w \in Workers :
          Busy(w) => /\ slot[w].step # "dlq" /\ job[Req(w)].state = "active"
                     /\ slot[w].step \in {"setSent", "send"} => job[Req(w)].made = 0

LEMMA SlotAttempts ==
  ASSUME PipelineInv, LockInv, LoginsMarked, Attempted, OnlyCrashes, NEW w \in Workers, WorkerNext(w)
  PROVE  /\ job'[Req(w)].made <= 1 /\ (job'[Req(w)].made # 0 => sent'[Req(w)])
         /\ slot'[w].step # "idle" =>
               /\ slot'[w].step # "dlq" /\ job'[Req(w)].state = "active"
               /\ slot'[w].step \in {"setSent", "send"} => job'[Req(w)].made = 0
<1> USE DEF PipelineInv, PipelineTypeOK
<1>1. /\ Req(w) \in Requests /\ slot[w] \in Slot /\ job[Req(w)] \in Job
      /\ job[Req(w)].state = "active" /\ Owns(w)
      /\ slot[w].step # "dlq" /\ slot[w].step # "idle"
      /\ job[Req(w)].made <= 1 /\ (job[Req(w)].made # 0 => sent[Req(w)])
      /\ slot[w].step \in {"setSent", "send"} => job[Req(w)].made = 0
      /\ slot[w].step = "send" => sent[Req(w)]
  BY SlotMoves DEF Attempted, LockInv, SlotOwns, Busy, Owns, LoginsMarked
<1>2. sent[Req(w)] => sent'[Req(w)]
  BY SlotMarks DEF OnlyCrashes, MarksHold
<1>3. ASSUME NEW s, Goto(w, s) PROVE slot'[w].step = s
  BY <1>1, <1>3 DEF Goto, Slot
<1>4. ASSUME NEW outcome, FailWith(w, outcome) PROVE slot'[w].step = "failDb"
  BY <1>1, <1>4 DEF FailWith, Slot
<1>5. ASSUME UNCHANGED job, slot'[w].step \notin {"dlq", "setSent", "send"}
      PROVE  /\ job'[Req(w)].made <= 1 /\ (job'[Req(w)].made # 0 => sent'[Req(w)])
             /\ slot'[w].step # "idle" =>
                   /\ slot'[w].step # "dlq" /\ job'[Req(w)].state = "active"
                   /\ slot'[w].step \in {"setSent", "send"} => job'[Req(w)].made = 0
  BY <1>1, <1>2, <1>5
<1>6. CASE SendThrows(w)
  <2>1. slot[w].step = "send" /\ \E err : Throw(w, err)
    BY <1>6 DEF SendThrows, At
  <2>2. job'[Req(w)].made = 1 /\ slot' = [slot EXCEPT ![w] = IdleSlot]
    BY <1>1, <2>1 DEF Throw, JobFails, OnlyCrashes, Job
  <2> QED
    BY <1>1, <1>2, <2>1, <2>2, IdleSlotTyped
<1>7. CASE Finish(w)
  BY <1>1, <1>2, <1>7, IdleSlotTyped DEF Finish, Job
<1>8. CASE SetSentKey(w)
  <2>1. UNCHANGED job /\ slot[w].step = "setSent" /\ slot'[w].step = "send"
    BY <1>3, <1>8 DEF SetSentKey, At
  <2> QED
    BY <1>1, <1>2, <2>1
<1>9. CASE GetSentKey(w)
  <2>1. /\ UNCHANGED job
        /\ slot'[w].step = "failDb" \/ (slot'[w].step = "setSent" /\ ~sent[Req(w)])
    BY <1>3, <1>4, <1>9 DEF GetSentKey
  <2> QED
    BY <1>1, <1>2, <2>1
<1>10. ~ReadThrows(w) /\ ~DeadLetter(w)
  BY <1>1 DEF ReadThrows, DeadLetter, At, Fault, OnlyCrashes
<1>11. CASE SendLogin(w)
  BY <1>1, <1>5, <1>11 DEF SendLogin, Slot
<1>12. CASE ReadActivation(w) \/ MarkFailed(w) \/ WriteFailure(w) \/ WriteSuccess(w) \/ CleanUp(w)
  BY <1>3, <1>5, <1>12 DEF ReadActivation, MarkFailed, WriteFailure, WriteSuccess, CleanUp
<1>13. CASE GetStoredReply(w) \/ StoreReply(w) \/ Commit(w)
  <2>1. UNCHANGED job
    BY <1>13 DEF GetStoredReply, StoreReply, Commit
  <2>2. slot'[w].step \in {"getSent", "commit", "failDb", "success"}
    BY <1>3, <1>4, <1>13 DEF GetStoredReply, StoreReply, Commit, Judge
  <2> QED
    BY <1>5, <2>1, <2>2
<1> QED
  BY <1>6, <1>7, <1>8, <1>9, <1>10, <1>11, <1>12, <1>13 DEF WorkerNext

LEMMA AttemptedStep ==
  ASSUME PipelineInv, LockInv, LoginsMarked, Attempted, OnlyCrashes, [Next]_vars
  PROVE  Attempted'
<1> USE DEF PipelineInv, PipelineTypeOK
<1>1. CASE \E w \in Workers : WorkerNext(w)
  <2>1. PICK w \in Workers : WorkerNext(w)
    BY <1>1
  <2>2. /\ Busy(w) /\ Req(w) \in Requests
        /\ \A v \in Workers : v # w => slot'[v] = slot[v]
        /\ slot'[w].step = "idle" \/ slot'[w].req = Req(w)
    BY <2>1, SlotMoves DEF Req
  <2>3. /\ job'[Req(w)].made <= 1 /\ (job'[Req(w)].made # 0 => sent'[Req(w)])
        /\ slot'[w].step # "idle" =>
              /\ slot'[w].step # "dlq" /\ job'[Req(w)].state = "active"
              /\ slot'[w].step \in {"setSent", "send"} => job'[Req(w)].made = 0
    BY <2>1, SlotAttempts
  <2>4. \A r \in Requests : r # Req(w) => job'[r] = job[r] /\ sent'[r] = sent[r]
    BY <2>1, OtherRequestsKept
  <2>5. \A r \in Requests : job'[r].state # "failed"
                            => job'[r].made <= 1 /\ (job'[r].made # 0 => sent'[r])
    BY <2>3, <2>4 DEF Attempted
  <2>6. ASSUME NEW v \in Workers, slot'[v].step # "idle"
        PROVE  /\ slot'[v].step # "dlq" /\ job'[slot'[v].req].state = "active"
               /\ slot'[v].step \in {"setSent", "send"} => job'[slot'[v].req].made = 0
    <3>1. CASE v = w
      BY <2>2, <2>3, <2>6, <3>1
    <3>2. CASE v # w
      <4>1. slot'[v] = slot[v] /\ Busy(v)
        BY <2>2, <2>6, <3>2 DEF Busy
      <4>2. Req(v) \in Requests /\ Req(v) # Req(w)
        BY <2>2, <3>2, <4>1 DEF LockInv, OneSlotPerJob, SlotHoldsJob, Busy, Req
      <4> QED
        BY <2>4, <4>1, <4>2 DEF Attempted, Req
    <3> QED
      BY <3>1, <3>2
  <2> QED
    BY <2>5, <2>6 DEF Attempted, Busy, Req
<1>2. ASSUME ~\E w \in Workers : WorkerNext(w) PROVE UNCHANGED sent
  BY <1>2, MarksChange DEF OnlyCrashes
<1>3. ASSUME NEW q \in Requests, ApiNext(q), UNCHANGED sent PROVE Attempted'
  <2>1. slot' = slot /\ \A r \in Requests : r # q => job'[r] = job[r]
    BY <1>3, ApiTouchesOwn
  <2>2. job'[q] = job[q] \/ (job[q].state = "none" /\ job'[q].made = job[q].made)
    BY <1>3
       DEF ApiNext, Activate, Enqueue, EnqueueThrows, MarkReservationFailed, SetEnqueueError,
           SetPending, Age, queueVars, LockInv, NotYetQueued, AddJob, Job
  <2>3. \A w \in Workers : Busy(w) => Req(w) \in Requests /\ job'[Req(w)] = job[Req(w)]
    BY <2>1, <2>2 DEF SlotHoldsJob, Busy, Req
  <2> QED
    BY <1>3, <2>1, <2>2, <2>3 DEF Attempted, Busy, Req
<1>4. ASSUME NEW w \in Workers, NEW q \in Requests, Take(w, q), UNCHANGED sent PROVE Attempted'
  <2>1. /\ slot'[w].step = "read" /\ slot'[w].req = q
        /\ \A v \in Workers : v # w => slot'[v] = slot[v]
    BY <1>4, IdleSlotTyped DEF Take, Slot
  <2>2. /\ job'[q].state = "active" /\ job'[q].made = job[q].made
        /\ job[q].state = "waiting"
        /\ \A r \in Requests : r # q => job'[r] = job[r]
    BY <1>4 DEF Take, Job
  <2>3. \A r \in Requests : job'[r].state # "failed"
                            => job'[r].made <= 1 /\ (job'[r].made # 0 => sent'[r])
    BY <1>4, <2>2 DEF Attempted
  <2>4. \A v \in Workers : v # w /\ Busy(v) => job'[Req(v)] = job[Req(v)]
    BY <2>2 DEF Attempted, SlotHoldsJob, Busy, Req
  <2> QED
    BY <2>1, <2>2, <2>3, <2>4 DEF Attempted, Busy, Req
<1>5. ASSUME NEW q \in Requests, RecoverStalled(q) \/ (\E w \in Workers : FailStalled(w, q)),
             UNCHANGED sent
      PROVE  Attempted'
  <2>1. \A v \in Workers : slot'[v] = slot[v] \/ slot'[v].step = "idle"
    BY <1>5, IdleSlotTyped DEF RecoverStalled, FailStalled, JobFails, Attempted, OnlyCrashes, Job
  <2>2. /\ job[q].owner = Nobody /\ job[q].state = "active"
        /\ job'[q].state = "failed" \/ job'[q].made = job[q].made
        /\ \A r \in Requests : r # q => job'[r] = job[r]
    BY <1>5 DEF RecoverStalled, FailStalled, Job
  <2>3. \A v \in Workers : Busy(v) => Req(v) # q /\ Req(v) \in Requests
    BY <2>2, NobodyAssumption DEF LockInv, SlotOwns, SlotHoldsJob, Busy, Req
  <2> QED
    BY <1>5, <2>1, <2>2, <2>3 DEF Attempted, Busy, Req
<1>6. ASSUME WorkerCrash, UNCHANGED sent PROVE Attempted'
  <2>1. \A v \in Workers : slot'[v].step = "idle"
    BY <1>6, IdleSlotTyped DEF WorkerCrash
  <2>2. \A r \in Requests : job'[r].state = job[r].state /\ job'[r].made = job[r].made
    BY <1>6 DEF WorkerCrash, Job
  <2> QED
    BY <1>6, <2>1, <2>2 DEF Attempted, Busy
<1>7. ASSUME UNCHANGED queueVars, UNCHANGED sent PROVE Attempted'
  BY <1>7 DEF Attempted, queueVars, Busy, Req
<1>8. \A w \in Workers : ~LoseLock(w)
  BY DEF LoseLock, Fault, OnlyCrashes
<1> QED
  BY <1>1, <1>2, <1>3, <1>4, <1>5, <1>6, <1>7, <1>8
     DEF Next, QueueNext, Environment, ApiCrash, IssueKey, Ban, IdempotencyKeyExpires,
         StatusExpires, vars, queueVars, redisVars

-----------------------------------------------------------------------------
(* What is settled stays settled *)

Settled(r) == activations[r].result \in {"success", "failed"}

(* The row a failure path is about to fail is pending.                     *)
FailsPending ==
    \A w \in Workers : slot[w].step = "failDb" => activations[Req(w)].result = "pending"

CalmInv == DecidingInv /\ LoginsMarked /\ Attempted /\ FailsPending

(* Without exhausted jobs and lost answers, only what was being decided    *)
(* fails, and its row still stands.                                        *)
LEMMA FailsPendingStep ==
  ASSUME CalmInv, OnlyCrashes, [Next]_vars
  PROVE  FailsPending'
<1> SUFFICES ASSUME NEW w \in Workers, slot'[w].step = "failDb"
             PROVE  activations'[slot'[w].req].result = "pending"
  BY DEF FailsPending, Req
<1> USE DEF CalmInv, DecidingInv, PipelineInv, PipelineTypeOK
<1>1. CASE slot'[w] = slot[w]
  <2>1. Busy(w) /\ activations[Req(w)].result = "pending"
    BY <1>1 DEF FailsPending, Busy
  <2>2. ~Commit(w) /\ ~MarkFailed(w)
    BY <1>1 DEF Commit, MarkFailed, At, Goto, Slot
  <2> QED
    BY <1>1, <2>1, <2>2, PendingStays DEF Req
<1>2. CASE WorkerNext(w)
  <2>1. Busy(w) /\ Req(w) \in Requests /\ slot'[w].req = Req(w) /\ slot[w] \in Slot
    BY <1>2, SlotMoves DEF Req
  <2>2. ASSUME NEW s, Goto(w, s) PROVE s = "failDb"
    BY <2>1, <2>2 DEF Goto, Slot
  <2>3. ASSUME NEW err, Throw(w, err) PROVE FALSE
    <3>1. PICK x \in {IdleSlot, JobFails(w, Req(w), err)} : slot' = [slot EXCEPT ![w] = x]
      BY <2>3 DEF Throw
    <3> QED
      BY <2>1, <3>1, IdleSlotTyped, JobFailsTyped
  <2>4. slot[w].step \in Deciding /\ UNCHANGED dbVars
    <3>1. ~DeadLetter(w) /\ ~SendLogin(w)
      BY <2>1 DEF Attempted, Busy, DeadLetter, At, SendLogin, Slot
    <3>2. ~ReadThrows(w) /\ ~SendThrows(w)
      BY <2>3 DEF ReadThrows, SendThrows
    <3>3. ~Finish(w)
      BY <2>1, IdleSlotTyped DEF Finish
    <3>4. /\ ~ReadActivation(w) /\ ~SetSentKey(w) /\ ~WriteSuccess(w) /\ ~CleanUp(w)
          /\ ~MarkFailed(w) /\ ~WriteFailure(w)
      BY <2>2 DEF ReadActivation, SetSentKey, WriteSuccess, CleanUp, MarkFailed, WriteFailure
    <3>5. CASE Commit(w)
      BY <2>2, <3>5 DEF Commit, At, Deciding, Fault, OnlyCrashes
    <3>6. CASE GetStoredReply(w) \/ GetSentKey(w) \/ StoreReply(w)
      BY <3>6 DEF GetStoredReply, GetSentKey, StoreReply, At, Deciding
    <3> QED
      BY <1>2, <3>1, <3>2, <3>3, <3>4, <3>5, <3>6 DEF WorkerNext
  <2> QED
    BY <2>1, <2>4 DEF DecidesPending, dbVars
<1> QED
  BY <1>1, <1>2, SlotComesFrom

LEMMA CalmInvHolds ==
  ASSUME OnlyCrashes
  PROVE  Spec => []CalmInv
<1>1. QueueAnswers /\ MarksHold /\ "lockLost" \notin Faults
  BY DEF OnlyCrashes, QueueAnswers, MarksHold
<1>2. PipelineInit => CalmInv
  <2> SUFFICES ASSUME PipelineInit PROVE CalmInv
    OBVIOUS
  <2>1. PipelineInv /\ LockInv
    BY PipelineInitHolds, LockInvInit
  <2>2. IdleSlot.step = "idle"
    BY IdleSlotTyped
  <2>3. GivenUpUnqueued /\ DecidesPending /\ LoginsMarked /\ FailsPending
    BY <2>2 DEF PipelineInit, GivenUpUnqueued, DecidesPending, Deciding, LoginsMarked, FailsPending
  <2>4. Attempted
    BY <2>2 DEF PipelineInit, Attempted, Busy
  <2> QED
    BY <2>1, <2>3, <2>4 DEF CalmInv, DecidingInv
<1>3. CalmInv /\ [Next]_vars => CalmInv'
  <2> SUFFICES ASSUME CalmInv, [Next]_vars PROVE CalmInv'
    OBVIOUS
  <2>1. PipelineInv' /\ LockInv'
    BY <1>1, PipelineInvStep, LockInvStep DEF CalmInv, DecidingInv
  <2>2. GivenUpUnqueued' /\ DecidesPending'
    BY <1>1, GivenUpUnqueuedStep, DecidesPendingStep DEF CalmInv, DecidingInv, LockInv
  <2>3. LoginsMarked' /\ Attempted' /\ FailsPending'
    BY <1>1, LoginsMarkedStep, AttemptedStep, FailsPendingStep DEF CalmInv, DecidingInv
  <2> QED
    BY <2>1, <2>2, <2>3 DEF CalmInv, DecidingInv
<1> QED
  BY <1>2, <1>3, PTL DEF Spec

LEMMA SettledStays ==
  ASSUME CalmInv, [Next]_vars, NEW r \in Requests, Settled(r)
  PROVE  activations'[r] = activations[r]
<1> SUFFICES ASSUME activations'[r] # activations[r] PROVE FALSE
  OBVIOUS
<1>1. ASSUME NEW w \in Workers, Commit(w) \/ MarkFailed(w), Req(w) = r PROVE FALSE
  BY <1>1 DEF Commit, MarkFailed, At, CalmInv, DecidingInv, DecidesPending, Deciding,
              FailsPending, Settled
<1>2. ASSUME NEW k \in Keys, Activate(r, k) PROVE FALSE
  BY <1>2 DEF Activate, Reserve, Settled
<1>3. ~MarkReservationFailed(r)
  BY DEF MarkReservationFailed, FailIfPending, Settled, dbVars
<1> QED
  BY <1>1, <1>2, <1>3, RowChanges DEF CalmInv, DecidingInv

(* With processes failing alone, an outcome once written is never          *)
(* rewritten.                                                              *)
THEOREM OutcomesAreFinal ==
  ASSUME OnlyCrashes
  PROVE  Spec => OutcomeIsFinal
<1>1. ASSUME CalmInv, [Next]_vars
      PROVE  [\A r \in Requests : activations[r].result \in {"success", "failed"}
                                  => activations'[r] = activations[r]]_vars
  BY <1>1, SettledStays DEF Settled
<1> QED
  BY <1>1, CalmInvHolds, PTL DEF Spec, OutcomeIsFinal

-----------------------------------------------------------------------------
(* A key and its receipt *)

KeyUntouched(k) == licenses[k].status \in {"notIssued", "unused"} => licenses[k].activatedAt = NoTime

OneReceipt(k) == licenses[k].activatedAt # NoTime => \E r \in Requests : Receipts(k) = {r}

ReceiptInv == \A k \in Keys : KeyUntouched(k) /\ OneReceipt(k)

(* A key without a stamp has no receipt.                                   *)
LEMMA NoStampNoReceipt ==
  ASSUME PipelineInv, NEW k \in Keys, licenses[k].activatedAt = NoTime
  PROVE  Receipts(k) = {}
  BY DEF Receipts, PipelineInv, SuccessConsumed, KeyConsumed, JobHoldsKey

(* Receipts and stamps are written together, by the commit of a slot.      *)
LEMMA ReceiptsAreCommitted ==
  ASSUME CalmInv, OnlyCrashes, [Next]_vars
  PROVE  \/ /\ \A k \in Keys : Receipts(k)' = Receipts(k)
            /\ \A k \in Keys : licenses'[k].activatedAt = licenses[k].activatedAt
            /\ \A k \in Keys : licenses'[k].status \in {"notIssued", "unused"}
                               => licenses[k].status \in {"notIssued", "unused"}
         \/ \E w \in Workers : CommitLogin(Req(w), job[Req(w)].key) /\ At(w, "commit")
<1> USE DEF CalmInv, DecidingInv, PipelineInv, PipelineTypeOK, DbTypeOK
<1>1. CASE \E w \in Workers : Commit(w)
  <2>1. PICK w \in Workers : Commit(w)
    BY <1>1
  <2>2. CASE UNCHANGED dbVars
    BY <2>2 DEF dbVars, Receipts
  <2> QED
    BY <2>1, <2>2 DEF Commit
<1>2. CASE ~\E w \in Workers : Commit(w)
  <2>1. ASSUME NEW r \in Requests, activations'[r] # activations[r]
        PROVE  activations[r].result # "success" /\ activations'[r].result # "success"
    <3>1. activations[r].result # "success"
      BY <2>1, SettledStays DEF Settled
    <3>2. CASE \E w \in Workers : MarkFailed(w) /\ Req(w) = r
      <4>1. activations'[r].result = "failed"
        BY <2>1, <3>2 DEF MarkFailed, FailAlways, Activation, dbVars
      <4> QED
        BY <3>1, <4>1
    <3>3. CASE \E k \in Keys : Activate(r, k)
      BY <3>1, <3>3 DEF Activate, Reserve
    <3>4. CASE MarkReservationFailed(r)
      BY <2>1, <3>1, <3>4 DEF MarkReservationFailed, FailIfPending, Activation, dbVars
    <3> QED
      BY <1>2, <2>1, <3>2, <3>3, <3>4, RowChanges
  <2>2. \A k \in Keys : Receipts(k)' = Receipts(k)
    BY <2>1 DEF Receipts
  <2>3. licenses' = licenses \/ (\E k \in Keys : IssueKey(k) \/ Ban(k))
    <3>1. ASSUME NEW w \in Workers, WorkerNext(w) PROVE licenses' = licenses
      BY <1>2, <3>1
         DEF WorkerNext, Finish, ReadThrows, ReadActivation, GetStoredReply, GetSentKey, SetSentKey,
             SendLogin, SendThrows, StoreReply, WriteSuccess, CleanUp, DeadLetter, MarkFailed,
             FailAlways, WriteFailure, dbVars
    <3>2. ASSUME NEW r \in Requests, ApiNext(r) PROVE licenses' = licenses
      BY <3>2
         DEF ApiNext, Activate, Reserve, Enqueue, EnqueueThrows, MarkReservationFailed, FailIfPending,
             SetEnqueueError, SetPending, Age, dbVars
    <3>3. CASE QueueNext
      BY <3>3 DEF QueueNext, Take, FailStalled, RecoverStalled, dbVars
    <3>4. CASE Environment
      BY <3>4
         DEF Environment, ApiCrash, WorkerCrash, LoseLock, IdempotencyKeyExpires, StatusExpires, dbVars
    <3> QED
      BY <3>1, <3>2, <3>3, <3>4 DEF Next, vars, dbVars
  <2>4. ASSUME NEW j \in Keys, IssueKey(j) \/ Ban(j), NEW k \in Keys
        PROVE  /\ licenses'[k].activatedAt = licenses[k].activatedAt
               /\ licenses'[k].status \in {"notIssued", "unused"}
                  => licenses[k].status \in {"notIssued", "unused"}
    BY <2>4 DEF IssueKey, CreateKey, Ban, WriteStatus, License
  <2> QED
    BY <2>2, <2>3, <2>4
<1> QED
  BY <1>1, <1>2

LEMMA ReceiptInvStep ==
  ASSUME CalmInv, ReceiptInv, OnlyCrashes, [Next]_vars
  PROVE  ReceiptInv'
<1> USE DEF CalmInv, DecidingInv, PipelineInv, PipelineTypeOK, DbTypeOK
<1>1. CASE /\ \A k \in Keys : Receipts(k)' = Receipts(k)
           /\ \A k \in Keys : licenses'[k].activatedAt = licenses[k].activatedAt
           /\ \A k \in Keys : licenses'[k].status \in {"notIssued", "unused"}
                              => licenses[k].status \in {"notIssued", "unused"}
  BY <1>1 DEF ReceiptInv, KeyUntouched, OneReceipt
<1>2. ASSUME NEW w \in Workers, CommitLogin(Req(w), job[Req(w)].key), At(w, "commit")
      PROVE  ReceiptInv'
  <2>1. PICK r \in Requests, k \in Keys :
           /\ CommitLogin(r, k)
           /\ activations[r].license = k /\ activations[r].result = "pending"
    BY <1>2 DEF At, SlotHoldsJob, Req, JobHoldsKey, DecidesPending, Deciding
  <2>2. /\ licenses[k].status = "unused" /\ licenses' = Granted(k)
        /\ activations' = [activations EXCEPT ![r].result = "success", ![r].license = k]
    BY <2>1 DEF CommitLogin, LoginCommits
  <2>3. Receipts(k) = {}
    BY <2>1, <2>2, NoStampNoReceipt DEF ReceiptInv, KeyUntouched
  <2>4. /\ activations'[r].result = "success" /\ activations'[r].license = k
        /\ \A q \in Requests : q # r => activations'[q] = activations[q]
    BY <2>1, <2>2 DEF Activation
  <2>5. Receipts(k)' = {r}
    BY <2>1, <2>3, <2>4 DEF Receipts
  <2>6. \A j \in Keys : j # k => Receipts(j)' = Receipts(j)
    BY <2>1, <2>4 DEF Receipts
  <2>7. /\ licenses'[k].status \in {"active", "expired"}
        /\ \A j \in Keys : j # k => licenses'[j] = licenses[j]
    BY <2>1, <2>2 DEF Granted, Grant
  <2>8. ASSUME NEW j \in Keys PROVE KeyUntouched(j)' /\ OneReceipt(j)'
    <3>1. CASE j = k
      BY <2>1, <2>5, <2>7, <3>1 DEF KeyUntouched, OneReceipt
    <3>2. CASE j # k
      BY <2>6, <2>7, <3>2 DEF ReceiptInv, KeyUntouched, OneReceipt
    <3> QED
      BY <3>1, <3>2
  <2> QED
    BY <2>8 DEF ReceiptInv
<1> QED
  BY <1>1, <1>2, ReceiptsAreCommitted

(* With processes failing alone, nobody loses a key to a request reported  *)
(* as failed, and no key pays for two.                                     *)
THEOREM OneReceiptEach ==
  ASSUME OnlyCrashes
  PROVE  Spec => []OneReceiptPerConsumedKey
<1>1. PipelineInit => ReceiptInv
  BY DEF PipelineInit, DbInit, ReceiptInv, KeyUntouched, OneReceipt
<1>2. CalmInv /\ ReceiptInv /\ [Next]_vars => ReceiptInv'
  BY ReceiptInvStep
<1>3. CalmInv /\ ReceiptInv => OneReceiptPerConsumedKey
  <2> SUFFICES ASSUME CalmInv, ReceiptInv, NEW k \in Keys
               PROVE  Cardinality(Receipts(k)) = IF licenses[k].activatedAt = NoTime THEN 0 ELSE 1
    BY DEF OneReceiptPerConsumedKey
  <2>1. CASE licenses[k].activatedAt = NoTime
    BY <2>1, NoStampNoReceipt, FS_EmptySet DEF CalmInv, DecidingInv
  <2>2. CASE licenses[k].activatedAt # NoTime
    BY <2>2, FS_Singleton DEF ReceiptInv, OneReceipt
  <2> QED
    BY <2>1, <2>2
<1> QED
  BY <1>1, <1>2, <1>3, CalmInvHolds, PTL DEF Spec

-----------------------------------------------------------------------------
(* The cache and the row tell the same *)

(* The handler that has not enqueued holds its reservation, and the one    *)
(* about to report the failure has given it up.                            *)
ApiKeepsRow ==
    \A r \in Requests :
        /\ api[r] \in {"enqueue", "markFailed"} => activations[r].result = "pending"
        /\ api[r] = "setError"
           => activations[r].result = "failed" /\ activations[r].error = NoError

CacheKeepsRow ==
    \A r \in Requests : cache[r] \in Terminal => Settled(r) /\ cache[r] = DbState(r)

(* What a slot is about to cache is what it has written to the row.        *)
SlotKeepsRow ==
    \A w \in Workers :
        /\ slot[w].step \in {"failDb", "failStatus"}
           => slot[w].outcome.state = FailedState(slot[w].outcome.code)
        /\ slot[w].step = "failStatus"
           => /\ activations[Req(w)].result = "failed"
              /\ activations[Req(w)].error = slot[w].outcome.code
        /\ slot[w].step = "success" => activations[Req(w)].result = "success"

OutcomeKept == ApiKeepsRow /\ CacheKeepsRow /\ SlotKeepsRow

LEMMA ApiKeepsRowStep ==
  ASSUME CalmInv, OnlyCrashes, ApiKeepsRow, [Next]_vars
  PROVE  ApiKeepsRow'
<1> USE DEF CalmInv, DecidingInv, PipelineInv, PipelineTypeOK, DbTypeOK
<1> SUFFICES ASSUME NEW r \in Requests
             PROVE  /\ api'[r] \in {"enqueue", "markFailed"} => activations'[r].result = "pending"
                    /\ api'[r] = "setError"
                       => activations'[r].result = "failed" /\ activations'[r].error = NoError
  BY DEF ApiKeepsRow
<1>1. CASE ApiNext(r)
  <2>1. CASE \E k \in Keys : Activate(r, k)
    BY <2>1 DEF Activate, Reserve
  <2>2. CASE Enqueue(r) \/ EnqueueThrows(r)
    BY <2>2 DEF Enqueue, EnqueueThrows, ApiKeepsRow, dbVars
  <2>3. CASE MarkReservationFailed(r)
    <3>1. /\ api'[r] = "setError" /\ activations[r].result = "pending"
          /\ FailIfPending(r)
      BY <2>3 DEF MarkReservationFailed, ApiKeepsRow, Fault, OnlyCrashes
    <3> QED
      BY <3>1 DEF FailIfPending, Activation
  <2>4. CASE SetEnqueueError(r) \/ SetPending(r)
    BY <2>4 DEF SetEnqueueError, SetPending
  <2>5. CASE Age(r)
    BY <2>5 DEF Age, ApiKeepsRow, dbVars
  <2> QED
    BY <1>1, <2>1, <2>2, <2>3, <2>4, <2>5 DEF ApiNext
<1>2. CASE ~ApiNext(r) /\ api'[r] = api[r]
  <2>1. CASE api[r] \in {"enqueue", "markFailed"}
    <3>1. job[r].state = "none"
      BY <2>1 DEF LockInv, NotYetQueued, GivenUpUnqueued
    <3>2. ASSUME NEW w \in Workers, Commit(w) \/ MarkFailed(w), Req(w) = r PROVE FALSE
      BY <3>1, <3>2 DEF Commit, MarkFailed, At, SlotHoldsJob, Req
    <3>3. activations'[r] = activations[r]
      BY <1>2, <3>2, RowChanges DEF ApiNext
    <3> QED
      BY <1>2, <2>1, <3>3 DEF ApiKeepsRow
  <2>2. CASE api[r] = "setError"
    BY <1>2, <2>2, SettledStays DEF ApiKeepsRow, Settled
  <2> QED
    BY <1>2, <2>1, <2>2
<1> QED
  BY <1>1, <1>2, ApiMoves

LEMMA OutcomesMapBack ==
  ASSUME NEW v
  PROVE  /\ BotFailure(v).state = FailedState(BotFailure(v).code)
         /\ CommitFailure.state = FailedState(CommitFailure.code)
         /\ DuplicateLogin.state = FailedState(DuplicateLogin.code)
  BY DEF BotFailure, CommitFailure, DuplicateLogin, FailedState

LEMMA SlotWritesRow ==
  ASSUME CalmInv, OnlyCrashes, SlotKeepsRow, NEW w \in Workers, WorkerNext(w)
  PROVE  /\ slot'[w].step \in {"failDb", "failStatus"}
            => slot'[w].outcome.state = FailedState(slot'[w].outcome.code)
         /\ slot'[w].step = "failStatus"
            => /\ activations'[Req(w)].result = "failed"
               /\ activations'[Req(w)].error = slot'[w].outcome.code
         /\ slot'[w].step = "success" => activations'[Req(w)].result = "success"
<1> USE DEF CalmInv, DecidingInv, PipelineInv, PipelineTypeOK, DbTypeOK
<1>1. Req(w) \in Requests /\ slot[w] \in Slot /\ Busy(w) /\ activations[Req(w)] \in Activation
  BY SlotMoves
<1>2. ASSUME NEW s, Goto(w, s) PROVE slot'[w].step = s /\ slot'[w].outcome = slot[w].outcome
  BY <1>1, <1>2 DEF Goto, Slot
<1>3. ASSUME NEW outcome, FailWith(w, outcome)
      PROVE  slot'[w].step = "failDb" /\ slot'[w].outcome = outcome
  BY <1>1, <1>3 DEF FailWith, Slot
<1>4. ASSUME NEW v, Judge(w, v)
      PROVE  \/ slot'[w].step = "commit"
             \/ /\ slot'[w].step = "failDb"
                /\ slot'[w].outcome.state = FailedState(slot'[w].outcome.code)
  BY <1>2, <1>3, <1>4, OutcomesMapBack DEF Judge
<1>5. CASE GetStoredReply(w)
  BY <1>1, <1>2, <1>4, <1>5 DEF GetStoredReply
<1>6. CASE StoreReply(w)
  BY <1>1, <1>4, <1>6 DEF StoreReply, At
<1>7. CASE GetSentKey(w)
  BY <1>2, <1>3, <1>7, OutcomesMapBack DEF GetSentKey
<1>8. CASE Commit(w)
  <2>1. activations[Req(w)].result = "pending"
    BY <1>8 DEF Commit, At, DecidesPending, Deciding
  <2>2. CASE CommitLogin(Req(w), job[Req(w)].key) /\ Goto(w, "success")
    BY <1>1, <1>2, <2>1, <2>2 DEF CommitLogin, Activation
  <2>3. CASE FailWith(w, CommitFailure) /\ UNCHANGED dbVars
    BY <1>3, <2>3, OutcomesMapBack
  <2> QED
    BY <1>8, <2>2, <2>3 DEF Commit, Fault, OnlyCrashes
<1>9. CASE MarkFailed(w)
  <2>1. /\ slot[w].step = "failDb" /\ FailAlways(Req(w), slot[w].outcome.code)
        /\ slot'[w].step = "failStatus" /\ slot'[w].outcome = slot[w].outcome
    BY <1>2, <1>9 DEF MarkFailed, At, Fault, OnlyCrashes
  <2> QED
    BY <1>1, <2>1 DEF SlotKeepsRow, FailAlways, Activation
<1>10. ASSUME NEW err, Throw(w, err) PROVE slot'[w].step \in {"idle", "dlq"}
  <2>1. PICK x \in {IdleSlot, JobFails(w, Req(w), err)} : slot' = [slot EXCEPT ![w] = x]
    BY <1>10 DEF Throw
  <2> QED
    BY <1>1, <2>1, IdleSlotTyped, JobFailsTyped
<1>11. CASE ReadThrows(w) \/ SendThrows(w)
  BY <1>10, <1>11 DEF ReadThrows, SendThrows
<1>12. CASE Finish(w)
  BY <1>12, IdleSlotTyped DEF Finish
<1>13. CASE SendLogin(w)
  BY <1>1, <1>13 DEF SendLogin, Slot
<1>14. ~DeadLetter(w)
  BY <1>1 DEF DeadLetter, At, Attempted
<1>15. CASE ReadActivation(w) \/ SetSentKey(w) \/ WriteSuccess(w) \/ CleanUp(w) \/ WriteFailure(w)
  <2>1. \E s \in {"getReply", "finish", "send", "clean"} : Goto(w, s)
    BY <1>15 DEF ReadActivation, SetSentKey, WriteSuccess, CleanUp, WriteFailure
  <2> QED
    BY <1>2, <2>1
<1> QED
  BY <1>5, <1>6, <1>7, <1>8, <1>9, <1>11, <1>12, <1>13, <1>14, <1>15 DEF WorkerNext

LEMMA SlotKeepsRowStep ==
  ASSUME CalmInv, OnlyCrashes, SlotKeepsRow, [Next]_vars
  PROVE  SlotKeepsRow'
<1> USE DEF CalmInv, DecidingInv, PipelineInv, PipelineTypeOK
<1> SUFFICES ASSUME NEW w \in Workers
             PROVE  /\ slot'[w].step \in {"failDb", "failStatus"}
                       => slot'[w].outcome.state = FailedState(slot'[w].outcome.code)
                    /\ slot'[w].step = "failStatus"
                       => /\ activations'[slot'[w].req].result = "failed"
                          /\ activations'[slot'[w].req].error = slot'[w].outcome.code
                    /\ slot'[w].step = "success" => activations'[slot'[w].req].result = "success"
  BY DEF SlotKeepsRow, FailedState, Req
<1>1. CASE WorkerNext(w)
  BY <1>1, SlotMoves, SlotWritesRow DEF Req
<1>2. CASE slot'[w] = slot[w]
  <2>1. slot[w].step \in {"failStatus", "success"}
        => activations'[Req(w)] = activations[Req(w)]
    BY SettledStays DEF SlotKeepsRow, Settled, SlotHoldsJob, Req
  <2> QED
    BY <1>2, <2>1 DEF SlotKeepsRow, Req
<1> QED
  BY <1>1, <1>2, SlotComesFrom

(* The entries of the cache are written by a slot that is done, or by the  *)
(* handler.                                                                *)
LEMMA CacheChanges ==
  ASSUME PipelineInv, [Next]_vars, NEW r \in Requests, cache'[r] # cache[r], cache'[r] \in Terminal
  PROVE  /\ UNCHANGED dbVars
         /\ \/ api[r] = "setError" /\ cache'[r] = "server_error"
            \/ \E w \in Workers :
                  /\ Req(w) = r
                  /\ \/ slot[w].step = "success" /\ cache'[r] = "success"
                     \/ slot[w].step = "failStatus" /\ cache'[r] = slot[w].outcome.state
<1> USE DEF PipelineInv, PipelineTypeOK
<1>1. ASSUME NEW w \in Workers, WorkerNext(w)
      PROVE  /\ UNCHANGED dbVars /\ Req(w) = r
             /\ \/ slot[w].step = "success" /\ cache'[r] = "success"
                \/ slot[w].step = "failStatus" /\ cache'[r] = slot[w].outcome.state
  <2>1. Req(w) = r
    BY <1>1, OtherRequestsKept
  <2>2. WriteSuccess(w) \/ WriteFailure(w)
    BY <1>1
       DEF WorkerNext, Finish, ReadThrows, ReadActivation, GetStoredReply, GetSentKey, SetSentKey,
           SendLogin, SendThrows, StoreReply, Commit, CleanUp, DeadLetter, MarkFailed, redisVars
  <2> QED
    BY <2>1, <2>2 DEF WriteSuccess, WriteFailure, WriteCache, At
<1>2. ASSUME NEW q \in Requests, ApiNext(q)
      PROVE  UNCHANGED dbVars /\ api[r] = "setError" /\ cache'[r] = "server_error"
  <2>1. q = r
    BY <1>2, ApiTouchesOwn
  <2>2. SetEnqueueError(r) \/ SetPending(r)
    BY <1>2, <2>1 DEF ApiNext, Activate, Enqueue, EnqueueThrows, MarkReservationFailed, Age, redisVars
  <2>3. ~SetPending(r)
    BY DEF SetPending, WriteCache, Terminal
  <2> QED
    BY <2>2, <2>3 DEF SetEnqueueError, WriteCache
<1>3. ~QueueNext
  BY DEF QueueNext, Take, FailStalled, RecoverStalled, redisVars
<1>4. ~Environment
  BY DEF Environment, ApiCrash, WorkerCrash, LoseLock, IssueKey, Ban, IdempotencyKeyExpires,
         StatusExpires, Terminal, redisVars
<1> QED
  BY <1>1, <1>2, <1>3, <1>4 DEF Next, vars, redisVars

LEMMA CacheKeepsRowStep ==
  ASSUME CalmInv, OutcomeKept, [Next]_vars
  PROVE  CacheKeepsRow'
<1> USE DEF CalmInv, DecidingInv, PipelineInv, PipelineTypeOK
<1> SUFFICES ASSUME NEW r \in Requests, cache'[r] \in Terminal
             PROVE  Settled(r)' /\ cache'[r] = DbState(r)'
  BY DEF CacheKeepsRow
<1>1. Settled(r) /\ cache'[r] = DbState(r)
  <2>1. CASE cache'[r] = cache[r]
    BY <2>1 DEF OutcomeKept, CacheKeepsRow
  <2>2. CASE api[r] = "setError" /\ cache'[r] = "server_error"
    <3>1. activations[r].result = "failed" /\ activations[r].error = NoError
      BY <2>2 DEF OutcomeKept, ApiKeepsRow
    <3> QED
      BY <2>2, <3>1, NoErrorAssumption, ErrorCodeAssumption DEF Settled, DbState, FailedState
  <2>3. ASSUME NEW w \in Workers, Req(w) = r,
               \/ slot[w].step = "success" /\ cache'[r] = "success"
               \/ slot[w].step = "failStatus" /\ cache'[r] = slot[w].outcome.state
        PROVE  Settled(r) /\ cache'[r] = DbState(r)
    BY <2>3 DEF OutcomeKept, SlotKeepsRow, Settled, DbState
  <2> QED
    BY <2>1, <2>2, <2>3, CacheChanges
<1>2. activations'[r] = activations[r]
  BY <1>1, SettledStays
<1> QED
  BY <1>1, <1>2 DEF Settled, DbState, FailedState

LEMMA OutcomeKeptHolds ==
  ASSUME OnlyCrashes
  PROVE  Spec => []OutcomeKept
<1>1. PipelineInit => OutcomeKept
  BY IdleSlotTyped DEF PipelineInit, OutcomeKept, ApiKeepsRow, CacheKeepsRow, SlotKeepsRow, Terminal
<1>2. CalmInv /\ OutcomeKept /\ [Next]_vars => OutcomeKept'
  BY ApiKeepsRowStep, SlotKeepsRowStep, CacheKeepsRowStep DEF OutcomeKept
<1> QED
  BY <1>1, <1>2, CalmInvHolds, PTL DEF Spec

(* With processes failing alone, the final state the cache shows is the    *)
(* one the row gives, before and after the entry expires.                  *)
THEOREM CacheIsTheRow ==
  ASSUME OnlyCrashes
  PROVE  Spec => []CacheTellsTheRow
<1>1. OutcomeKept => CacheTellsTheRow
  BY DEF OutcomeKept, CacheKeepsRow, CacheTellsTheRow
<1> QED
  BY <1>1, OutcomeKeptHolds, PTL

-----------------------------------------------------------------------------
(* A further login costs a mark or a lock *)

(* A lock is held by a slot at work on an active job.                      *)
OwnersWork ==
    \A r \in Requests :
        /\ job[r].owner # Nobody => job[r].state = "active"
        /\ \A w \in Workers : job[r].owner = w => Busy(w) /\ Req(w) = r

(* The steps from which a slot may yet give the bot the command.           *)
BeforeSend == {"read", "getReply", "getSent", "setSent", "send"}

(* The slots that lost the lock of the request's job and go on.            *)
Strays(r) ==
    {w \in Workers : Req(w) = r /\ slot[w].step \in BeforeSend /\ job[r].owner # w}

(* Where the slot stands that holds the lock, if one does.                 *)
HolderStep(r) == IF job[r].owner \in Workers THEN slot[job[r].owner].step ELSE "idle"

(* The logins a request may yet come to without another loss: one while it *)
(* is not marked, one when the slot that marked it has still to send.      *)
Unmarked(r) == IF sent[r] THEN 0 ELSE 1
Sending(r) == IF HolderStep(r) = "send" \/ (HolderStep(r) = "setSent" /\ sent[r]) THEN 1 ELSE 0

LoginsPaid ==
    \A r \in Requests :
        logins[r] + Cardinality(Strays(r)) + Unmarked(r) + Sending(r) <= 1 + lost[r]

PaidInv == PipelineInv /\ NotYetQueued /\ OwnersWork /\ LoginsPaid

(* What the slots of a request have spent and may yet spend.               *)
Spent(r) == logins[r] + Cardinality(Strays(r)) + Unmarked(r) + Sending(r)

LEMMA StraysCounted ==
  ASSUME NEW r \in Requests
  PROVE  IsFiniteSet(Strays(r)) /\ Cardinality(Strays(r)) \in Nat
  BY WorkersAssumption, FS_Subset, FS_CardinalityType DEF Strays

LEMMA StraysCounted2 ==
  ASSUME NEW r \in Requests
  PROVE  IsFiniteSet(Strays(r)') /\ Cardinality(Strays(r)') \in Nat
<1>1. Strays(r)' \subseteq Workers
  BY DEF Strays
<1> QED
  BY <1>1, WorkersAssumption, FS_Subset, FS_CardinalityType

(* The holder of the lock stays where it is and the mark is at most set.   *)
LEMMA SameHolder ==
  ASSUME PipelineInv, NEW r \in Requests,
         HolderStep(r)' = HolderStep(r), sent'[r] = sent[r] \/ sent'[r] = TRUE
  PROVE  Unmarked(r)' + Sending(r)' <= Unmarked(r) + Sending(r)
  BY DEF Unmarked, Sending, PipelineInv, PipelineTypeOK

(* A slot gives its lock up when it ends, and only then.                   *)
LEMMA SlotLocks ==
  ASSUME PipelineInv, NEW w \in Workers, WorkerNext(w)
  PROVE  \/ job'[Req(w)] = job[Req(w)] /\ (Owns(w) => slot'[w].step # "idle")
         \/ Owns(w) /\ job'[Req(w)].owner = Nobody /\ slot'[w].step \in {"idle", "dlq"}
<1> USE DEF PipelineInv, PipelineTypeOK
<1>1. Busy(w) /\ Req(w) \in Requests /\ slot[w] \in Slot
  BY SlotMoves
<1>2. ASSUME NEW s \in SlotStep \ {"idle"}, Goto(w, s) PROVE slot'[w].step # "idle"
  BY <1>2 DEF Goto, Slot
<1>3. ASSUME NEW outcome, FailWith(w, outcome) PROVE slot'[w].step # "idle"
  BY <1>3 DEF FailWith, Slot
<1>4. ASSUME NEW v, Judge(w, v) PROVE slot'[w].step # "idle"
  BY <1>2, <1>3, <1>4 DEF Judge, SlotStep
<1>5. ASSUME NEW err, Throw(w, err)
      PROVE  \/ job' = job /\ ~Owns(w)
             \/ /\ Owns(w) /\ job'[Req(w)].owner = Nobody
                /\ slot'[w].step \in {"idle", "dlq"}
  BY <1>1, <1>5, JobFailsTyped DEF Throw, Job
<1>6. CASE ReadThrows(w) \/ SendThrows(w)
  BY <1>5, <1>6 DEF ReadThrows, SendThrows
<1>7. CASE Finish(w)
  BY <1>1, <1>7, IdleSlotTyped DEF Finish, Job
<1>8. CASE GetStoredReply(w) \/ StoreReply(w)
  BY <1>2, <1>4, <1>8 DEF GetStoredReply, StoreReply, SlotStep
<1>9. CASE Commit(w) \/ GetSentKey(w)
  BY <1>2, <1>3, <1>9 DEF Commit, GetSentKey, SlotStep
<1>10. CASE SendLogin(w)
  BY <1>1, <1>10 DEF SendLogin, Slot
<1>11. CASE \/ ReadActivation(w) \/ SetSentKey(w) \/ WriteSuccess(w) \/ CleanUp(w) \/ DeadLetter(w)
            \/ MarkFailed(w) \/ WriteFailure(w)
  BY <1>2, <1>11
     DEF ReadActivation, SetSentKey, WriteSuccess, CleanUp, DeadLetter, MarkFailed, WriteFailure,
         SlotStep
<1> QED
  BY <1>6, <1>7, <1>8, <1>9, <1>10, <1>11 DEF WorkerNext

(* What a slot's step costs its request.                                   *)
LEMMA SlotSpends ==
  ASSUME PipelineInv, NEW w \in Workers, WorkerNext(w)
  PROVE  /\ slot'[w].step \in BeforeSend => slot[w].step \in BeforeSend \ {"send"}
         /\ \/ logins'[Req(w)] = logins[Req(w)]
            \/ slot[w].step = "send" /\ logins'[Req(w)] = logins[Req(w)] + 1
         /\ sent'[Req(w)] = sent[Req(w)] \/ sent'[Req(w)] = TRUE
         /\ slot'[w].step = "send"
            => /\ slot[w].step = "setSent"
               /\ sent'[Req(w)] = TRUE \/ lost'[Req(w)] = lost[Req(w)] + 1
         /\ slot'[w].step = "setSent" => sent[Req(w)] = FALSE /\ sent'[Req(w)] = FALSE
<1> USE DEF PipelineInv, PipelineTypeOK
<1>1. Busy(w) /\ Req(w) \in Requests /\ slot[w] \in Slot
  BY SlotMoves
<1>2. ASSUME NEW s \in SlotStep \ {"idle"}, Goto(w, s) PROVE slot'[w].step = s
  BY <1>2 DEF Goto, Slot
<1>3. ASSUME NEW outcome, FailWith(w, outcome) PROVE slot'[w].step = "failDb"
  BY <1>3 DEF FailWith, Slot
<1>4. ASSUME NEW v, Judge(w, v) PROVE slot'[w].step \in {"commit", "failDb"}
  BY <1>2, <1>3, <1>4 DEF Judge, SlotStep
<1>5. ASSUME NEW err, Throw(w, err) PROVE slot'[w].step \in {"idle", "dlq"}
  <2>1. PICK x \in {IdleSlot, JobFails(w, Req(w), err)} : slot' = [slot EXCEPT ![w] = x]
    BY <1>5 DEF Throw
  <2> QED
    BY <1>1, <2>1, IdleSlotTyped, JobFailsTyped
<1> USE DEF BeforeSend, Works, Fault
<1>6. CASE ReadThrows(w)
  BY <1>5, <1>6 DEF ReadThrows, redisVars
<1>7. CASE SendThrows(w)
  BY <1>1, <1>5, <1>7 DEF SendThrows, redisVars, Deliver, At
<1>8. CASE Finish(w)
  BY <1>1, <1>8, IdleSlotTyped DEF Finish, redisVars
<1>9. CASE GetStoredReply(w) \/ StoreReply(w)
  BY <1>2, <1>4, <1>9 DEF GetStoredReply, StoreReply, SlotStep, At, redisVars
<1>10. CASE GetSentKey(w)
  BY <1>2, <1>3, <1>10, <1>1 DEF GetSentKey, SlotStep, At, redisVars
<1>11. CASE Commit(w)
  BY <1>2, <1>3, <1>11 DEF Commit, SlotStep, redisVars
<1>12. CASE SendLogin(w)
  BY <1>1, <1>12 DEF SendLogin, Slot, redisVars, Deliver, At
<1>13. CASE ReadActivation(w)
  BY <1>2, <1>13 DEF ReadActivation, SlotStep, At, redisVars
<1>14. CASE SetSentKey(w)
  BY <1>1, <1>2, <1>14 DEF SetSentKey, SlotStep, At, Loses
<1>15. CASE CleanUp(w)
  BY <1>1, <1>2, <1>15 DEF CleanUp, SlotStep
<1>16. CASE WriteSuccess(w) \/ WriteFailure(w)
  BY <1>2, <1>16 DEF WriteSuccess, WriteFailure, WriteCache, SlotStep
<1>17. CASE DeadLetter(w) \/ MarkFailed(w)
  BY <1>2, <1>17 DEF DeadLetter, MarkFailed, SlotStep, redisVars
<1> QED
  BY <1>6, <1>7, <1>8, <1>9, <1>10, <1>11, <1>12, <1>13, <1>14, <1>15, <1>16, <1>17
     DEF WorkerNext

LEMMA OwnersWorkStep ==
  ASSUME PipelineInv, NotYetQueued, OwnersWork, [Next]_vars
  PROVE  OwnersWork'
<1> USE DEF PipelineInv, PipelineTypeOK
<1> SUFFICES ASSUME NEW r \in Requests
             PROVE  /\ job'[r].owner # Nobody => job'[r].state = "active"
                    /\ \A w \in Workers :
                          job'[r].owner = w => slot'[w].step # "idle" /\ slot'[w].req = r
  BY DEF OwnersWork, Busy, Req
<1>1. /\ job[r].owner # Nobody => job[r].state = "active"
      /\ \A w \in Workers : job[r].owner = w => slot[w].step # "idle" /\ slot[w].req = r
      /\ job[r] \in Job
  BY DEF OwnersWork, Busy, Req
<1>2. ASSUME NEW w \in Workers, WorkerNext(w)
      PROVE  /\ job'[r].owner # Nobody => job'[r].state = "active"
             /\ \A v \in Workers :
                   job'[r].owner = v => slot'[v].step # "idle" /\ slot'[v].req = r
  <2>1. /\ Busy(w) /\ Req(w) \in Requests
        /\ \A v \in Workers : v # w => slot'[v] = slot[v]
        /\ slot'[w].step = "idle" \/ slot'[w].req = slot[w].req
    BY <1>2, SlotMoves
  <2>2. CASE r # Req(w)
    <3>1. job'[r] = job[r]
      BY <1>2, <2>2, OtherRequestsKept
    <3>2. job[r].owner # w
      BY <1>1, <2>2 DEF Req
    <3> QED
      BY <1>1, <2>1, <3>1, <3>2
  <2>3. CASE r = Req(w)
    <3>1. \/ job'[r] = job[r] /\ (job[r].owner = w => slot'[w].step # "idle")
          \/ job'[r].owner = Nobody
      BY <1>2, <2>3, SlotLocks DEF Owns
    <3>2. job'[r].owner = Nobody => \A v \in Workers : job'[r].owner # v
      BY NobodyAssumption
    <3> QED
      BY <1>1, <2>1, <2>3, <3>1, <3>2 DEF Req
  <2> QED
    BY <2>2, <2>3
<1>3. ASSUME NEW q \in Requests, ApiNext(q)
      PROVE  slot' = slot /\ job'[r].owner = job[r].owner
             /\ (job'[r].state = job[r].state \/ job[r].owner = Nobody)
  <2>1. slot' = slot /\ (q # r => job'[r] = job[r])
    BY <1>3, ApiTouchesOwn
  <2>2. \/ UNCHANGED job
        \/ job' = AddJob(q) /\ job[q].state = "none"
    BY <1>3
       DEF ApiNext, Activate, Enqueue, EnqueueThrows, MarkReservationFailed, SetEnqueueError,
           SetPending, Age, queueVars, NotYetQueued
  <2>3. CASE job' = AddJob(q) /\ job[q].state = "none" /\ q = r
    BY <1>1, <2>1, <2>3 DEF AddJob, Job
  <2> QED
    BY <2>1, <2>2, <2>3
<1>4. ASSUME NEW w \in Workers, NEW q \in Requests, Take(w, q) \/ FailStalled(w, q)
      PROVE  /\ job'[r].owner # Nobody => job'[r].state = "active"
             /\ \A v \in Workers :
                   job'[r].owner = v => slot'[v].step # "idle" /\ slot'[v].req = r
  <2>1. slot[w].step = "idle" /\ \A v \in Workers : v # w => slot'[v] = slot[v]
    BY <1>4 DEF Take, FailStalled, At
  <2>2. q # r => job'[r] = job[r]
    BY <1>4 DEF Take, FailStalled
  <2>3. CASE q = r /\ Take(w, q)
    <3>1. job'[r].state = "active" /\ job'[r].owner = w
      BY <1>1, <2>3 DEF Take, Job
    <3>2. slot'[w].step = "read" /\ slot'[w].req = r
      BY <2>3 DEF Take, IdleSlot
    <3> QED
      BY <3>1, <3>2
  <2>4. CASE q = r /\ FailStalled(w, q)
    BY <1>1, <2>4, NobodyAssumption DEF FailStalled, Job
  <2> QED
    BY <1>1, <1>4, <2>1, <2>2, <2>3, <2>4
<1>5. ASSUME NEW q \in Requests, RecoverStalled(q)
      PROVE  slot' = slot /\ (job'[r] = job[r] \/ job'[r].owner = Nobody)
  BY <1>1, <1>5 DEF RecoverStalled, Job
<1>6. CASE WorkerCrash
  BY <1>1, <1>6, NobodyAssumption DEF WorkerCrash, Job
<1>7. ASSUME NEW w \in Workers, LoseLock(w)
      PROVE  slot' = slot /\ (job'[r] = job[r] \/ job'[r].owner = Nobody)
  BY <1>1, <1>7 DEF LoseLock, Job
<1>8. CASE UNCHANGED queueVars
  BY <1>1, <1>8 DEF queueVars
<1> QED
  BY <1>1, <1>2, <1>3, <1>4, <1>5, <1>6, <1>7, <1>8, NobodyAssumption
     DEF Next, QueueNext, Environment, ApiCrash, IssueKey, Ban, IdempotencyKeyExpires,
         StatusExpires, vars, queueVars

LEMMA WorkerSpends ==
  ASSUME PipelineInv, OwnersWork, NEW w \in Workers, WorkerNext(w), NEW r \in Requests
  PROVE  Spent(r)' - lost'[r] <= Spent(r) - lost[r]
<1> USE DEF PipelineInv, PipelineTypeOK
<1>1. /\ Busy(w) /\ Req(w) \in Requests
      /\ \A v \in Workers : v # w => slot'[v] = slot[v]
      /\ slot'[w].step = "idle" \/ slot'[w].req = slot[w].req
  BY SlotMoves
<1>2. /\ IsFiniteSet(Strays(r)) /\ Cardinality(Strays(r)) \in Nat
      /\ Cardinality(Strays(r)') \in Nat
  BY StraysCounted, StraysCounted2
<1>3. lost[r] \in Nat /\ lost'[r] \in {lost[r], lost[r] + 1}
  BY LossesTyped DEF Next
<1>4. /\ logins[r] \in Nat /\ sent[r] \in BOOLEAN
      /\ Unmarked(r) \in {0, 1} /\ Sending(r) \in {0, 1}
      /\ Unmarked(r)' \in {0, 1} /\ Sending(r)' \in {0, 1}
  BY DEF Unmarked, Sending
<1>5. ASSUME NEW v \in Workers, job[r].owner = v PROVE slot[v].step # "idle" /\ slot[v].req = r
  BY <1>5 DEF OwnersWork, Busy, Req
<1>6. CASE r # Req(w)
  <2>1. job'[r] = job[r] /\ sent'[r] = sent[r] /\ logins'[r] = logins[r]
    BY <1>6, OtherRequestsKept
  <2>2. Strays(r)' = Strays(r)
    BY <1>1, <1>6, <2>1 DEF Strays, Req, BeforeSend
  <2>3. HolderStep(r)' = HolderStep(r)
    BY <1>1, <1>5, <1>6, <2>1 DEF HolderStep, Req
  <2>4. Unmarked(r)' + Sending(r)' <= Unmarked(r) + Sending(r)
    BY <2>1, <2>3, SameHolder
  <2> QED
    BY <1>2, <1>3, <1>4, <2>1, <2>2, <2>4 DEF Spent
<1>7. CASE r = Req(w) /\ job[r].owner # w
  <2>1. job'[r] = job[r]
    BY <1>7, SlotLocks DEF Owns
  <2>2. HolderStep(r)' = HolderStep(r)
    BY <1>1, <1>7, <2>1 DEF HolderStep
  <2>3. Unmarked(r)' + Sending(r)' <= Unmarked(r) + Sending(r)
    BY <1>7, <2>2, SlotSpends, SameHolder
  <2>4. Strays(r)' \subseteq Strays(r)
    BY <1>1, <1>7, <2>1, SlotSpends DEF Strays, Req, BeforeSend
  <2>5. CASE slot[w].step = "send"
    <3>1. w \in Strays(r) /\ Strays(r)' \subseteq Strays(r) \ {w}
      BY <1>7, <2>1, <2>4, <2>5, SlotSpends DEF Strays, BeforeSend, Req
    <3>2. Cardinality(Strays(r)') <= Cardinality(Strays(r)) - 1
      <4>1. /\ IsFiniteSet(Strays(r) \ {w})
            /\ Cardinality(Strays(r) \ {w}) = Cardinality(Strays(r)) - 1
        BY <1>2, <3>1, FS_RemoveElement
      <4> QED
        BY <3>1, <4>1, FS_Subset
    <3>3. logins'[r] = logins[r] \/ logins'[r] = logins[r] + 1
      BY <1>7, SlotSpends
    <3> QED
      BY <1>2, <1>3, <1>4, <2>3, <3>2, <3>3 DEF Spent
  <2>6. CASE slot[w].step # "send"
    <3>1. Cardinality(Strays(r)') <= Cardinality(Strays(r))
      BY <1>2, <2>4, FS_Subset
    <3>2. logins'[r] = logins[r]
      BY <1>7, <2>6, SlotSpends
    <3> QED
      BY <1>2, <1>3, <1>4, <2>3, <3>1, <3>2 DEF Spent
  <2> QED
    BY <2>5, <2>6
<1>8. CASE r = Req(w) /\ job[r].owner = w
  <2>1. \/ job'[r] = job[r]
        \/ job'[r].owner = Nobody /\ slot'[w].step \in {"idle", "dlq"}
    BY <1>8, SlotLocks DEF Owns
  <2>2. Strays(r)' = Strays(r)
    BY <1>1, <1>8, <2>1, NobodyAssumption DEF Strays, Req, BeforeSend
  <2>3. HolderStep(r) = slot[w].step
    BY <1>8 DEF HolderStep
  <2>4. HolderStep(r)' \in {slot'[w].step, "idle"}
    BY <1>8, <2>1, NobodyAssumption DEF HolderStep
  <2>5. logins'[r] + Unmarked(r)' + Sending(r)' - lost'[r]
        <= logins[r] + Unmarked(r) + Sending(r) - lost[r]
    <3>1. /\ slot'[w].step \in {"setSent", "send"} => slot[w].step # "send"
          /\ logins'[r] = logins[r] \/ (slot[w].step = "send" /\ logins'[r] = logins[r] + 1)
          /\ sent'[r] = sent[r] \/ sent'[r] = TRUE
          /\ slot'[w].step = "send"
             => slot[w].step = "setSent" /\ (sent'[r] = TRUE \/ lost'[r] = lost[r] + 1)
          /\ slot'[w].step = "setSent" => sent[r] = FALSE /\ sent'[r] = FALSE
      BY <1>8, SlotSpends DEF BeforeSend
    <3>2. Sending(r) = IF slot[w].step = "send" \/ (slot[w].step = "setSent" /\ sent[r])
                        THEN 1 ELSE 0
      BY <2>3 DEF Sending
    <3>3. /\ Unmarked(r) = IF sent[r] THEN 0 ELSE 1
          /\ Unmarked(r)' = IF sent'[r] THEN 0 ELSE 1
      BY DEF Unmarked
    <3>4. Sending(r)' = 1 => slot'[w].step = "send"
      BY <2>4, <3>1 DEF Sending
    <3> QED
      BY <1>3, <1>4, <3>1, <3>2, <3>3, <3>4
  <2>6. logins'[r] = logins[r] \/ logins'[r] = logins[r] + 1
    BY <1>8, SlotSpends
  <2> QED
    BY <1>2, <1>3, <1>4, <2>2, <2>5, <2>6 DEF Spent
<1> QED
  BY <1>6, <1>7, <1>8

(* The queue hands jobs out for nothing, and a crash takes the slots along *)
(* that lost their locks; a lost lock and an expired mark are counted.     *)
LEMMA OthersSpend ==
  ASSUME PipelineInv, NotYetQueued, OwnersWork, [Next]_vars, ~\E w \in Workers : WorkerNext(w),
         NEW r \in Requests
  PROVE  Spent(r)' - lost'[r] <= Spent(r) - lost[r]
<1> USE DEF PipelineInv, PipelineTypeOK
<1>1. /\ IsFiniteSet(Strays(r)) /\ Cardinality(Strays(r)) \in Nat
      /\ Cardinality(Strays(r)') \in Nat
  BY StraysCounted, StraysCounted2
<1>2. /\ logins' = logins /\ logins[r] \in Nat /\ sent[r] \in BOOLEAN
      /\ Unmarked(r) \in {0, 1} /\ Sending(r) \in {0, 1}
      /\ Unmarked(r)' \in {0, 1} /\ Sending(r)' \in {0, 1}
  BY MarksChange DEF Unmarked, Sending
<1>3. lost[r] \in Nat /\ lost'[r] \in {lost[r], lost[r] + 1}
  BY LossesTyped
<1>4. ASSUME NEW v \in Workers, job[r].owner = v PROVE slot[v].step # "idle" /\ slot[v].req = r
  BY <1>4 DEF OwnersWork, Busy, Req
<1>5. job[r].owner # Nobody => job[r].state = "active"
  BY DEF OwnersWork
<1>6. ASSUME Strays(r)' \subseteq Strays(r), HolderStep(r)' = HolderStep(r), UNCHANGED sent
      PROVE  Spent(r)' - lost'[r] <= Spent(r) - lost[r]
  <2>1. Unmarked(r)' + Sending(r)' <= Unmarked(r) + Sending(r)
    BY <1>6, SameHolder
  <2>2. Cardinality(Strays(r)') <= Cardinality(Strays(r))
    BY <1>1, <1>6, FS_Subset
  <2> QED
    BY <1>1, <1>2, <1>3, <1>6, <2>1, <2>2 DEF Spent
<1>7. ASSUME job'[r].owner = job[r].owner, UNCHANGED slot
      PROVE  Strays(r)' = Strays(r) /\ HolderStep(r)' = HolderStep(r)
  BY <1>7 DEF Strays, HolderStep, Req
<1>8. ASSUME NEW q \in Requests, ApiNext(q)
      PROVE  Spent(r)' - lost'[r] <= Spent(r) - lost[r]
  <2>1. UNCHANGED <<slot, sent>> /\ (q # r => job'[r] = job[r])
    BY <1>8, ApiTouchesOwn
  <2>2. job'[r].owner = job[r].owner
    <3>1. UNCHANGED job \/ job' = AddJob(q)
      BY <1>8
         DEF ApiNext, Activate, Enqueue, EnqueueThrows, MarkReservationFailed, SetEnqueueError,
             SetPending, Age, queueVars
    <3> QED
      BY <2>1, <3>1 DEF AddJob, Job
  <2> QED
    BY <1>6, <1>7, <2>1, <2>2
<1>9. ASSUME NEW w \in Workers, NEW q \in Requests, Take(w, q)
      PROVE  Spent(r)' - lost'[r] <= Spent(r) - lost[r]
  <2>1. /\ slot[w].step = "idle" /\ job[q].state = "waiting"
        /\ \A v \in Workers : v # w => slot'[v] = slot[v]
        /\ slot'[w].step = "read" /\ slot'[w].req = q
        /\ UNCHANGED sent
    BY <1>9 DEF Take, At, IdleSlot, redisVars
  <2>2. CASE q = r
    <3>1. job[r].owner = Nobody /\ job'[r].owner = w
      BY <1>5, <1>9, <2>1, <2>2 DEF Take, Job
    <3>2. Strays(r)' \subseteq Strays(r)
      BY <2>1, <3>1, NobodyAssumption DEF Strays, Req
    <3>3. HolderStep(r) = "idle" /\ HolderStep(r)' = "read"
      BY <2>1, <3>1, NobodyAssumption DEF HolderStep
    <3>4. Sending(r)' = 0 /\ Unmarked(r)' = Unmarked(r)
      BY <2>1, <3>3 DEF Sending, Unmarked
    <3>5. Cardinality(Strays(r)') <= Cardinality(Strays(r))
      BY <1>1, <3>2, FS_Subset
    <3> QED
      BY <1>1, <1>2, <1>3, <2>1, <3>4, <3>5 DEF Spent
  <2>3. CASE q # r
    <3>1. job'[r] = job[r] /\ job[r].owner # w
      BY <1>4, <1>9, <2>1, <2>3 DEF Take
    <3>2. Strays(r)' \subseteq Strays(r) /\ HolderStep(r)' = HolderStep(r)
      BY <2>1, <2>3, <3>1 DEF Strays, HolderStep, Req
    <3> QED
      BY <1>3, <1>6, <2>1, <3>2
  <2> QED
    BY <2>2, <2>3
<1>10. ASSUME NEW w \in Workers, NEW q \in Requests, FailStalled(w, q)
       PROVE  Spent(r)' - lost'[r] <= Spent(r) - lost[r]
  <2>1. /\ slot[w].step = "idle" /\ job'[r].owner = job[r].owner
        /\ \A v \in Workers : v # w => slot'[v] = slot[v]
        /\ slot'[w].step \in {"idle", "dlq"}
        /\ UNCHANGED sent
    BY <1>10, JobFailsTyped DEF FailStalled, At, Job, redisVars
  <2>2. Strays(r)' \subseteq Strays(r) /\ HolderStep(r)' = HolderStep(r)
    BY <1>4, <2>1 DEF Strays, HolderStep, Req, BeforeSend
  <2> QED
    BY <1>3, <1>6, <2>1, <2>2
<1>11. ASSUME NEW q \in Requests, RecoverStalled(q)
       PROVE  Spent(r)' - lost'[r] <= Spent(r) - lost[r]
  <2>1. job'[r].owner = job[r].owner /\ UNCHANGED <<slot, sent>>
    BY <1>11 DEF RecoverStalled, Job, redisVars
  <2> QED
    BY <1>3, <1>6, <1>7, <2>1
<1>12. CASE WorkerCrash
  <2>1. /\ job'[r].owner = Nobody /\ UNCHANGED sent
        /\ \A v \in Workers : slot'[v].step = "idle"
    BY <1>12, IdleSlotTyped DEF WorkerCrash, Job, redisVars
  <2>2. Strays(r)' = {} /\ HolderStep(r)' = "idle"
    BY <2>1, NobodyAssumption DEF Strays, HolderStep, BeforeSend
  <2>3. Sending(r)' = 0 /\ Unmarked(r)' = Unmarked(r) /\ Cardinality(Strays(r)') = 0
    BY <2>1, <2>2, FS_EmptySet DEF Sending, Unmarked
  <2> QED
    BY <1>1, <1>2, <1>3, <2>1, <2>3 DEF Spent
<1>13. ASSUME NEW w \in Workers, LoseLock(w)
       PROVE  Spent(r)' - lost'[r] <= Spent(r) - lost[r]
  <2>1. UNCHANGED <<slot, sent>>
    BY <1>13 DEF LoseLock, redisVars
  <2>2. CASE r # Req(w)
    <3>1. job'[r] = job[r]
      BY <1>13, <2>2 DEF LoseLock
    <3> QED
      BY <1>3, <1>6, <1>7, <2>1, <3>1
  <2>3. CASE r = Req(w)
    <3>1. job[r].owner = w /\ job'[r].owner = Nobody
      BY <1>13, <2>3 DEF LoseLock, Owns, Job
    <3>2. Strays(r)' \subseteq Strays(r) \cup {w}
      BY <2>1, <3>1 DEF Strays, Req
    <3>3. Cardinality(Strays(r)') <= Cardinality(Strays(r)) + 1
      <4>1. /\ IsFiniteSet(Strays(r) \cup {w})
            /\ Cardinality(Strays(r) \cup {w}) \in Nat
            /\ Cardinality(Strays(r) \cup {w}) <= Cardinality(Strays(r)) + 1
        <5>1. IsFiniteSet(Strays(r) \cup {w})
          BY <1>1, FS_AddElement
        <5>2. Cardinality(Strays(r) \cup {w})
                 \in {Cardinality(Strays(r)), Cardinality(Strays(r)) + 1}
          BY <1>1, FS_AddElement
        <5> QED
          BY <1>1, <5>1, <5>2
      <4>2. Cardinality(Strays(r)') <= Cardinality(Strays(r) \cup {w})
        BY <3>2, <4>1, FS_Subset
      <4> QED
        BY <1>1, <4>1, <4>2
    <3>4. HolderStep(r)' = "idle"
      BY <3>1, NobodyAssumption DEF HolderStep
    <3>5. Sending(r)' = 0 /\ Unmarked(r)' = Unmarked(r)
      BY <2>1, <3>4 DEF Sending, Unmarked
    <3>6. lost'[r] = lost[r] + 1
      BY <1>13, <2>3 DEF LoseLock, Loses
    <3> QED
      BY <1>1, <1>2, <1>3, <2>1, <3>3, <3>5, <3>6 DEF Spent
  <2> QED
    BY <2>2, <2>3
<1>14. ASSUME NEW q \in Requests, IdempotencyKeyExpires(q)
       PROVE  Spent(r)' - lost'[r] <= Spent(r) - lost[r]
  <2>1. /\ UNCHANGED <<job, slot>>
        /\ sent'[r] = sent[r] \/ (sent'[r] = FALSE /\ lost'[r] = lost[r] + 1)
    BY <1>14 DEF IdempotencyKeyExpires, Loses, queueVars
  <2>2. Strays(r)' = Strays(r) /\ HolderStep(r)' = HolderStep(r)
    BY <1>7, <2>1
  <2>3. Unmarked(r)' + Sending(r)' - lost'[r] <= Unmarked(r) + Sending(r) - lost[r]
    BY <1>2, <1>3, <2>1, <2>2 DEF Unmarked, Sending
  <2> QED
    BY <1>1, <1>2, <1>3, <2>1, <2>2, <2>3 DEF Spent
<1>15. CASE UNCHANGED <<queueVars, sent>>
  BY <1>6, <1>7, <1>15 DEF queueVars
<1>16. CASE Environment
  BY <1>3, <1>12, <1>13, <1>14, <1>15, <1>16
     DEF Environment, ApiCrash, IssueKey, Ban, StatusExpires, redisVars
<1>17. CASE QueueNext
  BY <1>9, <1>10, <1>11, <1>17 DEF QueueNext
<1> QED
  BY <1>3, <1>8, <1>15, <1>16, <1>17 DEF Next, vars, redisVars

LEMMA PaidInvStep == PaidInv /\ [Next]_vars => PaidInv'
<1> SUFFICES ASSUME PaidInv, [Next]_vars PROVE PaidInv'
  OBVIOUS
<1>1. PipelineInv' /\ NotYetQueued' /\ OwnersWork'
  BY PipelineInvStep, NotYetQueuedStep, OwnersWorkStep DEF PaidInv
<1>2. ASSUME NEW r \in Requests PROVE Spent(r)' <= 1 + lost'[r]
  <2>1. Spent(r)' - lost'[r] <= Spent(r) - lost[r]
    BY WorkerSpends, OthersSpend DEF PaidInv
  <2>2. Spent(r) <= 1 + lost[r]
    BY DEF PaidInv, LoginsPaid, Spent
  <2>3. Spent(r) \in Int /\ Spent(r)' \in Int /\ lost[r] \in Int /\ lost'[r] \in Int
    <3>1. PipelineTypeOK /\ PipelineTypeOK'
      BY <1>1 DEF PaidInv, PipelineInv
    <3> QED
      BY <3>1, StraysCounted, StraysCounted2
         DEF Spent, Unmarked, Sending, PipelineTypeOK
  <2> QED
    BY <2>1, <2>2, <2>3
<1>3. LoginsPaid'
  BY <1>2 DEF LoginsPaid, Spent
<1> QED
  BY <1>1, <1>3 DEF PaidInv

LEMMA PaidInvInit == PipelineInit => PaidInv
<1> SUFFICES ASSUME PipelineInit PROVE PaidInv
  OBVIOUS
<1>1. NotYetQueued /\ OwnersWork
  BY NobodyAssumption DEF PipelineInit, NotYetQueued, OwnersWork
<1>2. ASSUME NEW r \in Requests
      PROVE  logins[r] + Cardinality(Strays(r)) + Unmarked(r) + Sending(r) <= 1 + lost[r]
  <2>1. Strays(r) = {} /\ HolderStep(r) = "idle"
    BY IdleSlotTyped, NobodyAssumption DEF PipelineInit, Strays, HolderStep, BeforeSend
  <2>2. Cardinality(Strays(r)) = 0 /\ Sending(r) = 0 /\ Unmarked(r) = 1
    BY <2>1, FS_EmptySet DEF Sending, Unmarked, PipelineInit
  <2> QED
    BY <2>2 DEF PipelineInit
<1> QED
  BY <1>1, <1>2, PipelineInitHolds DEF PaidInv, LoginsPaid

(* Whatever fails, a request reaches the bot at most once more than it     *)
(* lost marks and locks: attempts, crashes, redelivered jobs and errors of *)
(* the database pay for no command.                                        *)
THEOREM LoginsArePaid == Spec => []LoginsCostLosses
<1>1. PaidInv => LoginsCostLosses
  <2> SUFFICES ASSUME PaidInv, NEW r \in Requests PROVE logins[r] <= 1 + lost[r]
    BY DEF LoginsCostLosses
  <2>1. logins[r] + Cardinality(Strays(r)) + Unmarked(r) + Sending(r) <= 1 + lost[r]
    BY DEF PaidInv, LoginsPaid
  <2>2. /\ logins[r] \in Nat /\ lost[r] \in Nat /\ Cardinality(Strays(r)) \in Nat
        /\ Unmarked(r) \in Nat /\ Sending(r) \in Nat
    BY StraysCounted
       DEF PaidInv, PipelineInv, PipelineTypeOK, Unmarked, Sending
  <2> QED
    BY <2>1, <2>2
<1> QED
  BY <1>1, PaidInvInit, PaidInvStep, PTL DEF Spec

-----------------------------------------------------------------------------
(* No key pays for two requests, whatever fails *)

AtMostOneReceipt == \A k \in Keys : Cardinality(Receipts(k)) <= 1

(* A key is consumed once for all: nothing stamps it again.                *)
ConsumedOnce ==
    [][\A k \in Keys : licenses[k].activatedAt # NoTime
                       => licenses'[k].activatedAt = licenses[k].activatedAt]_vars

ReceiptsAlone(k) == \A q, r \in Receipts(k) : q = r

PaysOnceInv == \A k \in Keys : KeyUntouched(k) /\ ReceiptsAlone(k)

(* The transactions that touch no stamp add no receipt.                    *)
LEMMA OnlyCommitsPay ==
  ASSUME PipelineInv, PipelineTransaction, ~\E q \in Requests, j \in Keys : CommitsJob(q, j),
         NEW k \in Keys
  PROVE  /\ Receipts(k)' \subseteq Receipts(k)
         /\ licenses'[k].activatedAt = licenses[k].activatedAt
         /\ licenses'[k].status \in {"notIssued", "unused"}
            => licenses[k].status \in {"notIssued", "unused"}
<1> USE DEF PipelineInv, PipelineTypeOK, DbTypeOK, Activation, License, Receipts
<1>1. CASE UNCHANGED dbVars
  BY <1>1 DEF dbVars
<1>2. CASE \E j \in Keys, d \in Durations : CreateKey(j, d)
  BY <1>2 DEF CreateKey
<1>3. CASE \E j \in Keys : WriteStatus(j, "banned")
  BY <1>3 DEF WriteStatus
<1>4. CASE \E q \in Requests, j \in Keys : Reserve(q, j)
  BY <1>4 DEF Reserve
<1>5. CASE \E q \in Requests : FailIfPending(q)
  BY <1>5 DEF FailIfPending
<1>6. CASE \E q \in Requests, code \in ErrorCode : FailAlways(q, code)
  BY <1>6 DEF FailAlways
<1> QED
  BY <1>1, <1>2, <1>3, <1>4, <1>5, <1>6 DEF PipelineTransaction

(* A commit stamps a key without receipts, or repeats an answer.           *)
LEMMA CommitPays ==
  ASSUME PipelineInv, PaysOnceInv, NEW q \in Requests, NEW j \in Keys, CommitsJob(q, j),
         NEW k \in Keys
  PROVE  \/ /\ Receipts(k)' = Receipts(k)
            /\ licenses'[k] = licenses[k]
         \/ /\ Receipts(k)' \subseteq {q} /\ licenses[k].activatedAt = NoTime
            /\ licenses'[k].status \in {"active", "expired"}
<1> USE DEF PipelineInv, PipelineTypeOK, DbTypeOK, Activation
<1>1. CASE licenses[j].status = "unused"
  <2>1. licenses[j].activatedAt = NoTime /\ Receipts(j) = {}
    BY <1>1, NoStampNoReceipt DEF PaysOnceInv, KeyUntouched
  <2>2. activations[q].result = "pending" /\ activations[q].license = j
    BY <1>1, <2>1 DEF CommitsJob, CommitLogin, LoginCommits, Receipts
  <2>3. /\ licenses' = Granted(j)
        /\ activations' = [activations EXCEPT ![q].result = "success", ![q].license = j]
    BY <1>1, <2>2 DEF CommitsJob, CommitLogin
  <2>4. /\ activations'[q].license = j
        /\ \A r \in Requests : r # q => activations'[r] = activations[r]
    BY <2>3
  <2>5. CASE k = j
    BY <2>1, <2>3, <2>4, <2>5 DEF Receipts, Granted, Grant
  <2>6. CASE k # j
    BY <2>2, <2>3, <2>4, <2>6 DEF Receipts, Granted
  <2> QED
    BY <2>5, <2>6
<1>2. CASE licenses[j].status # "unused"
  BY <1>2 DEF CommitsJob, CommitLogin, LoginCommits, Receipts
<1> QED
  BY <1>1, <1>2

LEMMA PaysOnceStep ==
  ASSUME PipelineInv, PaysOnceInv, [Next]_vars
  PROVE  /\ PaysOnceInv'
         /\ \A k \in Keys : licenses[k].activatedAt # NoTime
                            => licenses'[k].activatedAt = licenses[k].activatedAt
<1>1. PipelineTransaction
  BY StepIsTransaction
<1>2. ASSUME NEW k \in Keys
      PROVE  /\ KeyUntouched(k)' /\ ReceiptsAlone(k)'
             /\ licenses[k].activatedAt # NoTime
                => licenses'[k].activatedAt = licenses[k].activatedAt
  <2>1. KeyUntouched(k) /\ ReceiptsAlone(k)
    BY DEF PaysOnceInv
  <2>2. CASE ~\E q \in Requests, j \in Keys : CommitsJob(q, j)
    BY <1>1, <2>1, <2>2, OnlyCommitsPay DEF KeyUntouched, ReceiptsAlone
  <2>3. CASE \E q \in Requests, j \in Keys : CommitsJob(q, j)
    <3>1. PICK q \in Requests, j \in Keys : CommitsJob(q, j)
      BY <2>3
    <3>2. \/ Receipts(k)' = Receipts(k) /\ licenses'[k] = licenses[k]
          \/ /\ Receipts(k)' \subseteq {q} /\ licenses[k].activatedAt = NoTime
             /\ licenses'[k].status \in {"active", "expired"}
      BY <3>1, CommitPays
    <3> QED
      BY <2>1, <3>2 DEF KeyUntouched, ReceiptsAlone
  <2> QED
    BY <2>2, <2>3
<1> QED
  BY <1>2 DEF PaysOnceInv

LEMMA PaysOnceHolds == Spec => []PaysOnceInv
<1>1. PipelineInit => PaysOnceInv
  BY DEF PipelineInit, DbInit, PaysOnceInv, KeyUntouched, ReceiptsAlone, Receipts
<1>2. PipelineInv /\ PaysOnceInv /\ [Next]_vars => PaysOnceInv'
  BY PaysOnceStep
<1> QED
  BY <1>1, <1>2, PipelineInvHolds, PTL DEF Spec

(* No key pays for two requests: lost locks, lost answers and exhausted    *)
(* jobs may cost a user the receipt, never a key a second one.             *)
THEOREM ReceiptsAreSingle == Spec => []AtMostOneReceipt
<1>1. PaysOnceInv => AtMostOneReceipt
  <2> SUFFICES ASSUME PaysOnceInv, NEW k \in Keys PROVE Cardinality(Receipts(k)) <= 1
    BY DEF AtMostOneReceipt
  <2>1. CASE Receipts(k) = {}
    BY <2>1, FS_EmptySet
  <2>2. CASE Receipts(k) # {}
    <3>1. PICK r : Receipts(k) = {r}
      BY <2>2 DEF PaysOnceInv, ReceiptsAlone
    <3> QED
      BY <3>1, FS_Singleton
  <2> QED
    BY <2>1, <2>2
<1> QED
  BY <1>1, PaysOnceHolds, PTL

(* The stamp of a consumed key is never written again, through repeated    *)
(* commits of redelivered jobs and answers that were lost.                 *)
THEOREM KeysAreConsumedOnce == Spec => ConsumedOnce
<1>1. PipelineInv /\ PaysOnceInv /\ [Next]_vars
      => [\A k \in Keys : licenses[k].activatedAt # NoTime
                          => licenses'[k].activatedAt = licenses[k].activatedAt]_vars
  BY PaysOnceStep
<1> QED
  BY <1>1, PipelineInvHolds, PaysOnceHolds, PTL DEF Spec, ConsumedOnce

-----------------------------------------------------------------------------
(* The work for a request runs out, whatever fails *)

(* A job may be tried Attempts times and recovered MaxStalled times.       *)
JobCounts ==
    \A r \in Requests :
        /\ job[r].made <= Attempts /\ job[r].stalls <= MaxStalled
        /\ job[r].state # "failed" => job[r].made < Attempts

(* A job is added, taken, finished, tried again, recovered or failed.      *)
SameCounts(r) == job'[r].made = job[r].made /\ job'[r].stalls = job[r].stalls
OneMoreAttempt(r) == job'[r].made = job[r].made + 1 /\ job'[r].stalls = job[r].stalls
OneMoreStall(r) == job'[r].made = job[r].made /\ job'[r].stalls = job[r].stalls + 1

JobMove(r) ==
    \/ job'[r].state = job[r].state /\ SameCounts(r)
    \/ job[r].state = "none" /\ job'[r].state = "waiting" /\ SameCounts(r)
    \/ job[r].state = "waiting" /\ job'[r].state = "active" /\ SameCounts(r)
    \/ job[r].state = "active" /\ job'[r].state = "completed" /\ SameCounts(r)
    \/ job[r].state = "active" /\ job'[r].state = "failed" /\ OneMoreAttempt(r)
    \/ /\ job[r].state = "active" /\ job'[r].state = "waiting" /\ OneMoreAttempt(r)
       /\ job[r].made + 1 < Attempts
    \/ /\ job[r].state = "active" /\ job'[r].state = "waiting" /\ OneMoreStall(r)
       /\ job[r].stalls < MaxStalled

LEMMA SlotMovesJob ==
  ASSUME PipelineInv, OwnersWork, NEW w \in Workers, WorkerNext(w)
  PROVE  JobMove(Req(w))
<1> USE DEF PipelineInv, PipelineTypeOK, Job, SameCounts, OneMoreAttempt, OneMoreStall
<1>1. Req(w) \in Requests
  BY SlotMoves
<1>2. Owns(w) => job[Req(w)].state = "active"
  BY <1>1, NobodyAssumption DEF OwnersWork, Owns
<1>3. ASSUME NEW err, Throw(w, err) PROVE JobMove(Req(w))
  <2>1. CASE Owns(w) /\ job[Req(w)].made + 1 >= Attempts
    <3>1. job' = [job EXCEPT ![Req(w)].made = @ + 1, ![Req(w)].owner = Nobody,
                             ![Req(w)].state = "failed"]
      BY <1>3, <2>1 DEF Throw
    <3> QED
      BY <1>1, <1>2, <2>1, <3>1 DEF JobMove
  <2>2. CASE Owns(w) /\ ~(job[Req(w)].made + 1 >= Attempts)
    <3>1. job' = [job EXCEPT ![Req(w)].made = @ + 1, ![Req(w)].owner = Nobody,
                             ![Req(w)].state = "waiting"]
      BY <1>3, <2>2 DEF Throw
    <3> QED
      BY <1>1, <1>2, <2>2, <3>1, AttemptsAssumption DEF JobMove
  <2>3. CASE ~Owns(w)
    BY <1>3, <2>3 DEF Throw, JobMove
  <2> QED
    BY <2>1, <2>2, <2>3
<1>4. CASE ReadThrows(w) \/ SendThrows(w)
  BY <1>3, <1>4 DEF ReadThrows, SendThrows
<1>5. CASE Finish(w)
  BY <1>1, <1>2, <1>5 DEF Finish, JobMove
<1>6. CASE UNCHANGED job
  BY <1>6 DEF JobMove
<1> QED
  BY <1>4, <1>5, <1>6
     DEF WorkerNext, ReadActivation, GetStoredReply, GetSentKey, SetSentKey, SendLogin, StoreReply,
         Commit, WriteSuccess, CleanUp, DeadLetter, MarkFailed, WriteFailure

LEMMA JobMoves ==
  ASSUME PipelineInv, NotYetQueued, OwnersWork, JobCounts, [Next]_vars, NEW r \in Requests
  PROVE  JobMove(r)
<1> USE DEF PipelineInv, PipelineTypeOK, Job, SameCounts, OneMoreAttempt, OneMoreStall
<1>0. CASE job'[r] = job[r]
  BY <1>0 DEF JobMove
<1>1. ASSUME NEW w \in Workers, WorkerNext(w) PROVE JobMove(r)
  BY <1>0, <1>1, SlotMovesJob, OtherRequestsKept
<1>2. ASSUME NEW q \in Requests, ApiNext(q) PROVE JobMove(r)
  <2>1. q # r => job'[r] = job[r]
    BY <1>2, ApiTouchesOwn
  <2>2. UNCHANGED job \/ (job' = AddJob(q) /\ job[q].state = "none")
    BY <1>2
       DEF ApiNext, Activate, Enqueue, EnqueueThrows, MarkReservationFailed, SetEnqueueError,
           SetPending, Age, queueVars, NotYetQueued
  <2>3. CASE job' = AddJob(q) /\ job[q].state = "none" /\ q = r
    BY <2>3 DEF AddJob, JobMove
  <2> QED
    BY <1>0, <2>1, <2>2, <2>3
<1>3. ASSUME NEW w \in Workers, NEW q \in Requests, Take(w, q) PROVE JobMove(r)
  BY <1>0, <1>3 DEF Take, JobMove
<1>4. ASSUME NEW w \in Workers, NEW q \in Requests, FailStalled(w, q) PROVE JobMove(r)
  BY <1>0, <1>4 DEF FailStalled, JobMove
<1>5. ASSUME NEW q \in Requests, RecoverStalled(q) PROVE JobMove(r)
  BY <1>0, <1>5, MaxStalledAssumption DEF RecoverStalled, JobMove
<1>6. CASE WorkerCrash
  BY <1>6 DEF WorkerCrash, JobMove
<1>7. ASSUME NEW w \in Workers, LoseLock(w) PROVE JobMove(r)
  BY <1>0, <1>7 DEF LoseLock, JobMove
<1>8. CASE UNCHANGED queueVars
  BY <1>0, <1>8 DEF queueVars
<1> QED
  BY <1>1, <1>2, <1>3, <1>4, <1>5, <1>6, <1>7, <1>8
     DEF Next, QueueNext, Environment, ApiCrash, IssueKey, Ban, IdempotencyKeyExpires,
         StatusExpires, vars, queueVars

LEMMA JobCountsStep ==
  ASSUME PipelineInv, NotYetQueued, OwnersWork, JobCounts, [Next]_vars
  PROVE  JobCounts'
<1> SUFFICES ASSUME NEW r \in Requests
             PROVE  /\ job'[r].made <= Attempts /\ job'[r].stalls <= MaxStalled
                    /\ job'[r].state # "failed" => job'[r].made < Attempts
  BY DEF JobCounts
<1>1. /\ job[r].made <= Attempts /\ job[r].stalls <= MaxStalled
      /\ job[r].state # "failed" => job[r].made < Attempts
  BY DEF JobCounts
<1>2. job[r].made \in Nat /\ job[r].stalls \in Nat
  BY DEF PipelineInv, PipelineTypeOK, Job
<1> QED
  BY <1>1, <1>2, JobMoves, AttemptsAssumption, MaxStalledAssumption
     DEF JobMove, SameCounts, OneMoreAttempt, OneMoreStall

(* A slot that ended its work keeps nothing of it.                         *)
IdleIsBlank == \A w \in Workers : slot[w].step = "idle" => slot[w] = IdleSlot

LEMMA IdleIsBlankStep ==
  ASSUME PipelineInv, IdleIsBlank, [Next]_vars
  PROVE  IdleIsBlank'
<1> USE DEF PipelineInv, PipelineTypeOK
<1>1. ASSUME NEW w \in Workers, WorkerNext(w), slot'[w].step = "idle" PROVE slot'[w] = IdleSlot
  <2>1. slot[w] \in Slot /\ Req(w) \in Requests
    BY <1>1, SlotMoves
  <2>2. ASSUME NEW s \in SlotStep \ {"idle"}, Goto(w, s) PROVE FALSE
    BY <1>1, <2>1, <2>2 DEF Goto, Slot
  <2>3. ASSUME NEW outcome, FailWith(w, outcome) PROVE FALSE
    BY <1>1, <2>1, <2>3 DEF FailWith, Slot
  <2>4. ASSUME NEW v, Judge(w, v) PROVE FALSE
    BY <2>2, <2>3, <2>4 DEF Judge, SlotStep
  <2>5. ASSUME NEW err, Throw(w, err) PROVE slot'[w] = IdleSlot
    <3>1. PICK x \in {IdleSlot, JobFails(w, Req(w), err)} : slot' = [slot EXCEPT ![w] = x]
      BY <2>5 DEF Throw
    <3> QED
      BY <1>1, <3>1 DEF JobFails, IdleSlot
  <2>6. CASE ReadThrows(w) \/ SendThrows(w)
    BY <2>5, <2>6 DEF ReadThrows, SendThrows
  <2>7. CASE GetStoredReply(w) \/ StoreReply(w)
    BY <2>2, <2>4, <2>7 DEF GetStoredReply, StoreReply, SlotStep
  <2>8. CASE GetSentKey(w) \/ Commit(w)
    BY <2>2, <2>3, <2>8 DEF GetSentKey, Commit, SlotStep
  <2>9. CASE SendLogin(w)
    BY <1>1, <2>1, <2>9 DEF SendLogin, Slot
  <2>10. CASE \/ ReadActivation(w) \/ SetSentKey(w) \/ WriteSuccess(w) \/ CleanUp(w)
              \/ DeadLetter(w) \/ MarkFailed(w) \/ WriteFailure(w)
    BY <2>2, <2>10
       DEF ReadActivation, SetSentKey, WriteSuccess, CleanUp, DeadLetter, MarkFailed, WriteFailure,
           SlotStep
  <2>11. CASE Finish(w)
    BY <2>11 DEF Finish
  <2> QED
    BY <1>1, <2>6, <2>7, <2>8, <2>9, <2>10, <2>11 DEF WorkerNext
<1>2. ASSUME NEW v \in Workers, WorkerNext(v) PROVE IdleIsBlank'
  BY <1>1, <1>2, SlotMoves DEF IdleIsBlank
<1>3. ASSUME NEW v \in Workers, NEW r \in Requests, Take(v, r) \/ FailStalled(v, r)
      PROVE  IdleIsBlank'
  <2>1. PICK x \in {[IdleSlot EXCEPT !.step = "read", !.req = r], JobFails(v, r, "stalled")} :
           slot' = [slot EXCEPT ![v] = x]
    BY <1>3 DEF Take, FailStalled
  <2>2. x.step = "idle" => x = IdleSlot
    BY <2>1 DEF JobFails, IdleSlot
  <2> QED
    BY <2>1, <2>2 DEF IdleIsBlank
<1>4. ASSUME NEW r \in Requests, ApiNext(r) PROVE IdleIsBlank'
  BY <1>4, ApiTouchesOwn DEF IdleIsBlank
<1>5. CASE UNCHANGED slot
  BY <1>5 DEF IdleIsBlank
<1>6. CASE WorkerCrash
  BY <1>6 DEF WorkerCrash, IdleIsBlank
<1> QED
  BY <1>2, <1>3, <1>4, <1>5, <1>6
     DEF Next, QueueNext, RecoverStalled, Environment, ApiCrash, LoseLock, IssueKey, Ban,
         IdempotencyKeyExpires, StatusExpires, vars, queueVars

WorkInv == PipelineInv /\ NotYetQueued /\ OwnersWork /\ JobCounts /\ IdleIsBlank

LEMMA WorkInvStep == WorkInv /\ [Next]_vars => WorkInv'
  BY PipelineInvStep, NotYetQueuedStep, OwnersWorkStep, JobCountsStep, IdleIsBlankStep DEF WorkInv

LEMMA WorkInvHolds == Spec => []WorkInv
<1>1. PipelineInit => WorkInv
  <2> SUFFICES ASSUME PipelineInit PROVE WorkInv
    OBVIOUS
  <2>1. NotYetQueued /\ OwnersWork /\ JobCounts /\ IdleIsBlank
    BY NobodyAssumption, AttemptsAssumption, MaxStalledAssumption
       DEF PipelineInit, NotYetQueued, OwnersWork, JobCounts, IdleIsBlank
  <2> QED
    BY <2>1, PipelineInitHolds DEF WorkInv
<1> QED
  BY <1>1, WorkInvStep, PTL DEF Spec

(* What is left of a job: the attempts and recoveries it may still come to,*)
(* and how far it is in this one.                                          *)
Claims(r) == (Attempts - job[r].made) + (MaxStalled - job[r].stalls)

JobRank(r) ==
    IF job[r].state = "none" THEN 2 * Claims(r) + 3
    ELSE IF job[r].state = "waiting" THEN 2 * Claims(r) + 2
    ELSE IF job[r].state = "active" THEN 2 * Claims(r) + 1 ELSE 0

(* How many steps of processJob and of the 'failed' event are left.        *)
StepRank == [idle |-> 0, finish |-> 1, failStatus |-> 2, clean |-> 2, failDb |-> 3, success |-> 3,
             dlq |-> 4, commit |-> 4, storeReply |-> 5, send |-> 6, setSent |-> 7, getSent |-> 8,
             getReply |-> 9, read |-> 10]

(* What remains of a job never grows, and every change of its state uses   *)
(* some of it up.                                                          *)
JobsRunOut ==
    [][\A r \in Requests :
          /\ JobRank(r)' <= JobRank(r)
          /\ job'[r].state # job[r].state => JobRank(r)' < JobRank(r)]_vars

(* A slot comes nearer to its end with every step, or takes up a job and   *)
(* uses up some of what remains of that.                                   *)
SlotsRunOut ==
    [][\A w \in Workers : slot'[w] # slot[w] =>
          \/ StepRank[slot'[w].step] < StepRank[slot[w].step]
          \/ /\ slot[w].step = "idle"
             /\ \E r \in Requests : slot'[w].req = r /\ JobRank(r)' < JobRank(r)]_vars

LEMMA RankFalls ==
  ASSUME WorkInv, [Next]_vars, NEW r \in Requests
  PROVE  /\ JobRank(r)' \in Nat /\ JobRank(r) \in Nat
         /\ JobRank(r)' <= JobRank(r)
         /\ job'[r].state # job[r].state => JobRank(r)' < JobRank(r)
<1>1. WorkInv'
  BY WorkInvStep
<1>2. /\ job[r].made \in Nat /\ job[r].stalls \in Nat
      /\ job[r].state \in {"none", "waiting", "active", "completed", "failed"}
      /\ job[r].made <= Attempts /\ job[r].stalls <= MaxStalled
  BY DEF WorkInv, PipelineInv, PipelineTypeOK, Job, JobCounts
<1>3. /\ job'[r].made \in Nat /\ job'[r].stalls \in Nat
      /\ job'[r].state \in {"none", "waiting", "active", "completed", "failed"}
      /\ job'[r].made <= Attempts /\ job'[r].stalls <= MaxStalled
  BY <1>1 DEF WorkInv, PipelineInv, PipelineTypeOK, Job, JobCounts
<1>4. Claims(r) \in Nat /\ Claims(r)' \in Nat
  BY <1>2, <1>3, AttemptsAssumption, MaxStalledAssumption DEF Claims
<1>5. JobMove(r)
  BY JobMoves DEF WorkInv
<1>6. /\ SameCounts(r) => Claims(r)' = Claims(r)
      /\ OneMoreAttempt(r) \/ OneMoreStall(r) => Claims(r)' = Claims(r) - 1
  BY <1>2, <1>3, AttemptsAssumption, MaxStalledAssumption
     DEF Claims, SameCounts, OneMoreAttempt, OneMoreStall
<1> QED
  BY <1>2, <1>3, <1>4, <1>5, <1>6 DEF JobMove, JobRank

LEMMA StepRankFalls ==
  ASSUME PipelineInv, NEW w \in Workers, WorkerNext(w)
  PROVE  StepRank[slot'[w].step] < StepRank[slot[w].step]
<1> USE DEF PipelineInv, PipelineTypeOK
<1>1. Busy(w) /\ Req(w) \in Requests /\ slot[w] \in Slot
  BY SlotMoves
<1>2. ASSUME NEW s \in SlotStep \ {"idle"}, Goto(w, s) PROVE slot'[w].step = s
  BY <1>2 DEF Goto, Slot
<1>3. ASSUME NEW outcome, FailWith(w, outcome) PROVE slot'[w].step = "failDb"
  BY <1>3 DEF FailWith, Slot
<1>4. ASSUME NEW v, Judge(w, v) PROVE slot'[w].step \in {"commit", "failDb"}
  BY <1>2, <1>3, <1>4 DEF Judge, SlotStep
<1>5. ASSUME NEW err, Throw(w, err) PROVE slot'[w].step \in {"idle", "dlq"}
  <2>1. PICK x \in {IdleSlot, JobFails(w, Req(w), err)} : slot' = [slot EXCEPT ![w] = x]
    BY <1>5 DEF Throw
  <2> QED
    BY <1>1, <2>1, IdleSlotTyped, JobFailsTyped
<1>6. CASE ReadThrows(w)
  BY <1>5, <1>6 DEF ReadThrows, StepRank, At
<1>7. CASE SendThrows(w)
  BY <1>5, <1>7 DEF SendThrows, StepRank, At
<1>8. CASE Finish(w)
  BY <1>1, <1>8, IdleSlotTyped DEF Finish, StepRank, At
<1>9. CASE GetStoredReply(w) \/ StoreReply(w)
  BY <1>2, <1>4, <1>9 DEF GetStoredReply, StoreReply, SlotStep, StepRank, At
<1>10. CASE GetSentKey(w) \/ Commit(w)
  BY <1>2, <1>3, <1>10 DEF GetSentKey, Commit, SlotStep, StepRank, At
<1>11. CASE SendLogin(w)
  BY <1>1, <1>11 DEF SendLogin, Slot, StepRank, At
<1>12. CASE ReadActivation(w) \/ SetSentKey(w) \/ CleanUp(w)
  BY <1>2, <1>12 DEF ReadActivation, SetSentKey, CleanUp, SlotStep, StepRank, At
<1>13. CASE WriteSuccess(w) \/ WriteFailure(w) \/ DeadLetter(w) \/ MarkFailed(w)
  BY <1>2, <1>13
     DEF WriteSuccess, WriteFailure, DeadLetter, MarkFailed, SlotStep, StepRank, At
<1> QED
  BY <1>6, <1>7, <1>8, <1>9, <1>10, <1>11, <1>12, <1>13 DEF WorkerNext

LEMMA SlotFalls ==
  ASSUME WorkInv, [Next]_vars, NEW w \in Workers, slot'[w] # slot[w]
  PROVE  \/ StepRank[slot'[w].step] < StepRank[slot[w].step]
         \/ /\ slot[w].step = "idle"
            /\ \E r \in Requests : slot'[w].req = r /\ JobRank(r)' < JobRank(r)
<1> USE DEF WorkInv, PipelineInv, PipelineTypeOK
<1>1. ASSUME NEW v \in Workers, WorkerNext(v)
      PROVE  StepRank[slot'[w].step] < StepRank[slot[w].step]
  BY <1>1, SlotMoves, StepRankFalls
<1>2. ASSUME NEW v \in Workers, NEW r \in Requests, Take(v, r)
      PROVE  slot[w].step = "idle" /\ slot'[w].req = r /\ JobRank(r)' < JobRank(r)
  <2>1. v = w /\ slot[w].step = "idle" /\ slot'[w].req = r
    BY <1>2 DEF Take, At, IdleSlot
  <2>2. job'[r].state # job[r].state
    BY <1>2 DEF Take, Job
  <2> QED
    BY <2>1, <2>2, RankFalls
<1>3. ASSUME NEW v \in Workers, NEW r \in Requests, FailStalled(v, r)
      PROVE  slot[w].step = "idle" /\ slot'[w].req = r /\ JobRank(r)' < JobRank(r)
  <2>1. v = w /\ slot[w].step = "idle" /\ slot'[w] = JobFails(w, r, "stalled")
    BY <1>3 DEF FailStalled, At
  <2>2. slot'[w] # IdleSlot
    BY <2>1 DEF IdleIsBlank
  <2>3. slot'[w].req = r
    BY <2>1, <2>2 DEF JobFails, IdleSlot
  <2>4. job'[r].state # job[r].state
    BY <1>3 DEF FailStalled, Job
  <2> QED
    BY <2>1, <2>3, <2>4, RankFalls
<1>4. ASSUME NEW r \in Requests, ApiNext(r) PROVE FALSE
  BY <1>4, ApiTouchesOwn
<1>5. CASE WorkerCrash
  <2>1. slot'[w] = IdleSlot /\ slot[w].step \in SlotStep
    BY <1>5 DEF WorkerCrash, Slot
  <2>2. slot[w].step # "idle"
    BY <2>1 DEF IdleIsBlank
  <2> QED
    BY <2>1, <2>2 DEF StepRank, SlotStep, IdleSlot
<1>6. ~UNCHANGED slot
  OBVIOUS
<1> QED
  BY <1>1, <1>2, <1>3, <1>4, <1>5, <1>6
     DEF Next, QueueNext, RecoverStalled, Environment, ApiCrash, LoseLock, IssueKey, Ban,
         IdempotencyKeyExpires, StatusExpires, vars, queueVars

(* Through crashes, stalls, retries and lost locks, what remains of a job  *)
(* only shrinks: no fault makes the queue start over.                      *)
THEOREM JobsEndAtLast == Spec => JobsRunOut
<1>1. WorkInv /\ [Next]_vars
      => [\A r \in Requests :
             /\ JobRank(r)' <= JobRank(r)
             /\ job'[r].state # job[r].state => JobRank(r)' < JobRank(r)]_vars
  BY RankFalls
<1> QED
  BY <1>1, WorkInvHolds, PTL DEF Spec, JobsRunOut

(* No slot goes round in circles: each step of processJob brings it nearer *)
(* to its end, and each new job costs that job an attempt or a recovery.   *)
THEOREM SlotsEndAtLast == Spec => SlotsRunOut
<1>1. WorkInv /\ [Next]_vars
      => [\A w \in Workers : slot'[w] # slot[w] =>
             \/ StepRank[slot'[w].step] < StepRank[slot[w].step]
             \/ /\ slot[w].step = "idle"
                /\ \E r \in Requests : slot'[w].req = r /\ JobRank(r)' < JobRank(r)]_vars
  BY SlotFalls
<1> QED
  BY <1>1, WorkInvHolds, PTL DEF Spec, SlotsRunOut

-----------------------------------------------------------------------------
(* However many faults there are, the logins of a request are bounded *)

(* Whatever fails and however often, a request reaches the bot at most     *)
(* once for each attempt and each recovery of its job.                     *)
LoginsBounded == \A r \in Requests : logins[r] <= Attempts + MaxStalled

(* The slots that may yet send the request's command, and how often its    *)
(* job was handed to one.                                                  *)
Senders(r) == {w \in Workers : Req(w) = r /\ slot[w].step \in BeforeSend}

HandedOut(r) ==
    job[r].made + job[r].stalls + IF job[r].state \in {"active", "completed"} THEN 1 ELSE 0

LoginsHandedOut == \A r \in Requests : logins[r] + Cardinality(Senders(r)) <= HandedOut(r)

LEMMA SendersCounted ==
  ASSUME NEW r \in Requests
  PROVE  /\ IsFiniteSet(Senders(r)) /\ Cardinality(Senders(r)) \in Nat
         /\ IsFiniteSet(Senders(r)') /\ Cardinality(Senders(r)') \in Nat
<1>1. Senders(r) \subseteq Workers /\ Senders(r)' \subseteq Workers
  BY DEF Senders
<1> QED
  BY <1>1, WorkersAssumption, FS_Subset, FS_CardinalityType

LEMMA HandedOutGrows ==
  ASSUME WorkInv, [Next]_vars, NEW r \in Requests
  PROVE  /\ HandedOut(r) \in Nat /\ HandedOut(r)' \in Nat /\ HandedOut(r)' >= HandedOut(r)
         /\ job[r].state = "waiting" /\ job'[r].state = "active" => HandedOut(r)' = HandedOut(r) + 1
<1>1. WorkInv'
  BY WorkInvStep
<1>2. /\ job[r].made \in Nat /\ job[r].stalls \in Nat
      /\ job'[r].made \in Nat /\ job'[r].stalls \in Nat
  BY <1>1 DEF WorkInv, PipelineInv, PipelineTypeOK, Job
<1>3. JobMove(r)
  BY JobMoves DEF WorkInv
<1> QED
  BY <1>2, <1>3 DEF HandedOut, JobMove, SameCounts, OneMoreAttempt, OneMoreStall

LEMMA SendersChange ==
  ASSUME WorkInv, [Next]_vars, NEW r \in Requests
  PROVE  \/ Senders(r)' \subseteq Senders(r) /\ logins'[r] = logins[r]
         \/ /\ \E w \in Senders(r) : Senders(r)' \subseteq Senders(r) \ {w}
            /\ logins'[r] = logins[r] + 1
         \/ /\ \E w \in Workers : Senders(r)' \subseteq Senders(r) \cup {w}
            /\ logins'[r] = logins[r]
            /\ job[r].state = "waiting" /\ job'[r].state = "active"
<1> USE DEF WorkInv, PipelineInv, PipelineTypeOK
<1>1. ASSUME NEW w \in Workers, WorkerNext(w)
      PROVE  \/ Senders(r)' \subseteq Senders(r) /\ logins'[r] = logins[r]
             \/ /\ w \in Senders(r) /\ Senders(r)' \subseteq Senders(r) \ {w}
                /\ logins'[r] = logins[r] + 1
  <2>1. /\ Busy(w) /\ Req(w) \in Requests
        /\ \A v \in Workers : v # w => slot'[v] = slot[v]
        /\ slot'[w].step = "idle" \/ slot'[w].req = slot[w].req
    BY <1>1, SlotMoves
  <2>2. slot'[w].step \in BeforeSend => slot[w].step \in BeforeSend \ {"send"}
    BY <1>1, SlotSpends
  <2>3. CASE r # Req(w)
    <3>1. logins'[r] = logins[r]
      BY <1>1, <2>3, OtherRequestsKept
    <3> QED
      BY <2>1, <2>2, <2>3, <3>1 DEF Senders, BeforeSend, Req
  <2>4. CASE r = Req(w)
    <3>1. Senders(r)' \subseteq Senders(r)
      BY <2>1, <2>2, <2>4 DEF Senders, Req
    <3>2. CASE logins'[r] = logins[r]
      BY <3>1, <3>2
    <3>3. CASE slot[w].step = "send" /\ logins'[r] = logins[r] + 1
      <4>1. w \in Senders(r) /\ w \notin Senders(r)'
        BY <2>2, <2>4, <3>3 DEF Senders, BeforeSend, Req
      <4> QED
        BY <3>1, <3>3, <4>1
    <3>4. \/ logins'[r] = logins[r]
          \/ slot[w].step = "send" /\ logins'[r] = logins[r] + 1
      BY <1>1, <2>4, SlotSpends
    <3> QED
      BY <3>2, <3>3, <3>4
  <2> QED
    BY <2>3, <2>4
<1>2. CASE ~\E w \in Workers : WorkerNext(w)
  <2>1. logins'[r] = logins[r]
    BY <1>2, MarksChange
  <2>2. ASSUME NEW w \in Workers, Take(w, r)
        PROVE  /\ Senders(r)' \subseteq Senders(r) \cup {w}
               /\ job[r].state = "waiting" /\ job'[r].state = "active"
    BY <2>2 DEF Take, Senders, Req, Job
  <2>3. CASE ~\E w \in Workers : Take(w, r)
    <3> SUFFICES ASSUME NEW w \in Workers, slot'[w].req = r, slot'[w].step \in BeforeSend,
                        slot'[w] # slot[w]
                 PROVE  FALSE
      BY <2>1 DEF Senders, Req
    <3>1. ASSUME NEW v \in Workers, NEW q \in Requests, Take(v, q) PROVE FALSE
      BY <2>3, <3>1 DEF Take, IdleSlot
    <3>2. ASSUME NEW v \in Workers, NEW q \in Requests, FailStalled(v, q) PROVE FALSE
      BY <3>2, JobFailsTyped DEF FailStalled, BeforeSend
    <3>3. ASSUME NEW q \in Requests, ApiNext(q) PROVE FALSE
      BY <3>3, ApiTouchesOwn
    <3>4. ~WorkerCrash
      BY IdleSlotTyped DEF WorkerCrash, BeforeSend
    <3> QED
      BY <1>2, <3>1, <3>2, <3>3, <3>4
         DEF Next, QueueNext, RecoverStalled, Environment, ApiCrash, LoseLock, IssueKey, Ban,
             IdempotencyKeyExpires, StatusExpires, vars, queueVars
  <2> QED
    BY <2>1, <2>2, <2>3
<1> QED
  BY <1>1, <1>2

LEMMA LoginsHandedOutStep ==
  ASSUME WorkInv, LoginsHandedOut, [Next]_vars
  PROVE  LoginsHandedOut'
<1> SUFFICES ASSUME NEW r \in Requests
             PROVE  logins'[r] + Cardinality(Senders(r)') <= HandedOut(r)'
  BY DEF LoginsHandedOut
<1>1. logins[r] + Cardinality(Senders(r)) <= HandedOut(r) /\ logins[r] \in Nat
  BY DEF LoginsHandedOut, WorkInv, PipelineInv, PipelineTypeOK
<1>2. /\ IsFiniteSet(Senders(r)) /\ Cardinality(Senders(r)) \in Nat
      /\ Cardinality(Senders(r)') \in Nat
  BY SendersCounted
<1>3. HandedOut(r) \in Nat /\ HandedOut(r)' \in Nat /\ HandedOut(r)' >= HandedOut(r)
  BY HandedOutGrows
<1>4. CASE Senders(r)' \subseteq Senders(r) /\ logins'[r] = logins[r]
  <2>1. Cardinality(Senders(r)') <= Cardinality(Senders(r))
    BY <1>2, <1>4, FS_Subset
  <2> QED
    BY <1>1, <1>2, <1>3, <1>4, <2>1
<1>5. ASSUME NEW w \in Senders(r), Senders(r)' \subseteq Senders(r) \ {w},
             logins'[r] = logins[r] + 1
      PROVE  logins'[r] + Cardinality(Senders(r)') <= HandedOut(r)'
  <2>1. IsFiniteSet(Senders(r) \ {w}) /\ Cardinality(Senders(r) \ {w}) = Cardinality(Senders(r)) - 1
    BY <1>2, FS_RemoveElement
  <2>2. Cardinality(Senders(r)') <= Cardinality(Senders(r)) - 1
    BY <1>5, <2>1, FS_Subset
  <2> QED
    BY <1>1, <1>2, <1>3, <1>5, <2>2
<1>6. ASSUME NEW w \in Workers, Senders(r)' \subseteq Senders(r) \cup {w},
             logins'[r] = logins[r], job[r].state = "waiting", job'[r].state = "active"
      PROVE  logins'[r] + Cardinality(Senders(r)') <= HandedOut(r)'
  <2>1. IsFiniteSet(Senders(r) \cup {w})
    BY <1>2, FS_AddElement
  <2>2. Cardinality(Senders(r) \cup {w}) \in {Cardinality(Senders(r)), Cardinality(Senders(r)) + 1}
    BY <1>2, FS_AddElement
  <2>3. Cardinality(Senders(r)') <= Cardinality(Senders(r) \cup {w})
    BY <1>6, <2>1, FS_Subset
  <2>4. HandedOut(r)' = HandedOut(r) + 1
    BY <1>6, HandedOutGrows
  <2> QED
    BY <1>1, <1>2, <1>3, <1>6, <2>2, <2>3, <2>4
<1> QED
  BY <1>4, <1>5, <1>6, SendersChange

(* LoginsBounded: no combination of crashes, lost locks, lost marks and    *)
(* retries makes the bot see a request more often than that.               *)
THEOREM LoginsAreBounded == Spec => []LoginsBounded
<1>1. PipelineInit => LoginsHandedOut
  <2> SUFFICES ASSUME PipelineInit, NEW r \in Requests
               PROVE  logins[r] + Cardinality(Senders(r)) <= HandedOut(r)
    BY DEF LoginsHandedOut
  <2>1. Senders(r) = {}
    BY IdleSlotTyped DEF PipelineInit, Senders, BeforeSend
  <2>2. Cardinality(Senders(r)) = 0
    BY <2>1, FS_EmptySet
  <2> QED
    BY <2>2 DEF PipelineInit, HandedOut
<1>2. WorkInv /\ LoginsHandedOut => LoginsBounded
  <2> SUFFICES ASSUME WorkInv, LoginsHandedOut, NEW r \in Requests
               PROVE  logins[r] <= Attempts + MaxStalled
    BY DEF LoginsBounded
  <2>1. logins[r] + Cardinality(Senders(r)) <= HandedOut(r) /\ Cardinality(Senders(r)) \in Nat
    BY SendersCounted DEF LoginsHandedOut
  <2>2. /\ job[r].made \in Nat /\ job[r].stalls \in Nat /\ logins[r] \in Nat
        /\ job[r].made <= Attempts /\ job[r].stalls <= MaxStalled
        /\ job[r].state # "failed" => job[r].made < Attempts
    BY DEF WorkInv, PipelineInv, PipelineTypeOK, Job, JobCounts
  <2>3. HandedOut(r) <= Attempts + MaxStalled
    BY <2>2, AttemptsAssumption, MaxStalledAssumption DEF HandedOut
  <2> QED
    BY <2>1, <2>2, <2>3, AttemptsAssumption, MaxStalledAssumption DEF HandedOut
<1> QED
  BY <1>1, <1>2, LoginsHandedOutStep, WorkInvHolds, PTL DEF Spec
=============================================================================
