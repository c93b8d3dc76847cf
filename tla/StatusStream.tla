---------------------------- MODULE StatusStream -----------------------------
(***************************************************************************)
(* What the customer sees of a login: the page opens an event stream and   *)
(* polls beside it until it shows a final state.  The stream subscribes to *)
(* the status writes in Redis, reads the current status once subscribed,   *)
(* and passes on what it hears.  The two race: a status read earlier may   *)
(* be pushed, or a poll answered, after a later one was shown.             *)
(*                                                                         *)
(* The writes are those of ActivationPipeline, step by step.  The event    *)
(* stream keeps its own order, so that a push is shown at once; what is    *)
(* late is late in the inbox, in a read, or in the answer to a poll.       *)
(***************************************************************************)
EXTENDS ActivationPipeline, Sequences

CONSTANT MaxWebFaults   \* bound: how often a connection or a read of the page fails

ASSUME MaxWebFaultsAssumption == MaxWebFaults \in Nat

VARIABLES
    page,    \* whether the status view of a request is shown
    shown,   \* the state in the query cache of the page
    stream,  \* the stream of the page, at the server
    inbox,   \* the published states on their way to the stream
    pushed,  \* what this stream has pushed since it was opened
    poll,    \* the GET /status of the page
    isError, \* the error of the last poll, rendered as a failure whatever is shown
    broken   \* how often a connection or a read of the page has failed

webVars == <<page, shown, stream, inbox, pushed, poll, isError, broken>>
allVars == <<vars, webVars>>

(* What getStatus may answer; it throws for "not_found", which no page     *)
(* meets, since it opens after the row was written.                        *)
Status == Terminal \cup {"pending", "not_found"}
NoStatus == "none"

(* A getStatus under way: it reads the cache, then the row if it must.     *)
ReadStep == {"cache", "row", "answer"}

(* A stream whose getStatus threw hears events ("unread"), one whose       *)
(* SUBSCRIBE failed only pings ("silent"); a refused one is not retried.   *)
StreamStep == ReadStep \cup {"closed", "subscribing", "live", "completing",
                             "unread", "silent", "refused"}

Step(step) == [step |-> step, got |-> NoStatus]

StreamTypeOK ==
    /\ PipelineTypeOK
    /\ page \in [Requests -> {"form", "open", "left"}]
    /\ shown \in [Requests -> Status \cup {NoStatus}]
    /\ stream \in [Requests -> [step : StreamStep, got : Status \cup {NoStatus}]]
    /\ \A r \in Requests : stream[r].step = "answer" => stream[r].got \in Status
    /\ inbox \in [Requests -> Seq(Status)]
    /\ pushed \in [Requests -> SUBSET Status]
    /\ poll \in [Requests -> [step : ReadStep \cup {"idle"}, got : Status \cup {NoStatus}]]
    /\ isError \in [Requests -> {"none", "early", "late"}]
    /\ broken \in 0 .. MaxWebFaults

StreamInit ==
    /\ PipelineInit
    /\ page = [r \in Requests |-> "form"]
    /\ shown = [r \in Requests |-> NoStatus]
    /\ stream = [r \in Requests |-> Step("closed")]
    /\ inbox = [r \in Requests |-> <<>>]
    /\ pushed = [r \in Requests |-> {}]
    /\ poll = [r \in Requests |-> Step("idle")]
    /\ isError = [r \in Requests |-> "none"]
    /\ broken = 0

Breaks == broken < MaxWebFaults /\ broken' = broken + 1
Holds == UNCHANGED broken

-----------------------------------------------------------------------------
(* The writes and their publication *)

(* Mutant: the snapshot is read before the subscription takes effect.      *)
SubscribedAfterSnapshot(r) == stream[r].step \in {"completing", "live", "unread"}

(* From the reply to SUBSCRIBE until the stream is closed.                 *)
Subscribed(r) == stream[r].step \in ReadStep \cup {"completing", "live", "unread"}

(* StatusStore.set and writeStatus set and publish in one MULTI.  Writing  *)
(* what is cached already tells a subscriber nothing and is left out (it   *)
(* could only clear an error of the page sooner), and so are messages lost *)
(* while the subscriber's connection to Redis is down.                     *)
Publish ==
    inbox' = [r \in Requests |->
                 IF Subscribed(r) /\ cache'[r] \notin {cache[r], "none"}
                 THEN Append(inbox[r], cache'[r]) ELSE inbox[r]]

PipelineStep ==
    Next /\ Publish /\ UNCHANGED <<page, shown, stream, pushed, poll, isError, broken>>

(* Where getStatus stands after its next read.                             *)
ReadOn(r, reader) ==
    IF reader.step = "row" THEN [step |-> "answer", got |-> DbState(r)]
    ELSE IF cache[r] = "none" THEN Step("row")
    ELSE [step |-> "answer", got |-> cache[r]]

Reading(reader) == reader.step \in {"cache", "row"}

-----------------------------------------------------------------------------
(* ActivationController.stream *)

StreamAt(r, step) == stream[r].step = step

Goes(r, step) == stream' = [stream EXCEPT ![r] = Step(step)]

(* Data that arrives, set by the stream or answered, clears the error.     *)
Show(r, status) ==
    /\ shown' = [shown EXCEPT ![r] = status]
    /\ isError' = [isError EXCEPT ![r] = "none"]

Push(r, status) == Show(r, status) /\ pushed' = [pushed EXCEPT ![r] = @ \cup {status}]

(* The subscription takes effect, or SUBSCRIBE fails: an error event goes  *)
(* out and nothing but pings after it.                                     *)
Subscribe(r) ==
    /\ StreamAt(r, "subscribing")
    /\ \/ Holds /\ Goes(r, "cache")
       \/ Breaks /\ Goes(r, "silent")
    /\ UNCHANGED <<vars, page, shown, inbox, pushed, poll, isError>>

(* The snapshot is read; when that throws, the events are still heard.     *)
ReadSnapshot(r) ==
    /\ Reading(stream[r])
    /\ \/ Holds /\ stream' = [stream EXCEPT ![r] = ReadOn(r, @)]
       \/ Breaks /\ Goes(r, "unread")
    /\ UNCHANGED <<vars, page, shown, inbox, pushed, poll, isError>>

PushSnapshot(r) ==
    /\ StreamAt(r, "answer")
    /\ Push(r, stream[r].got)
    /\ Goes(r, IF stream[r].got = "pending" THEN "live" ELSE "completing")
    /\ UNCHANGED <<vars, page, inbox, poll, broken>>

(* The handler of the subscription passes on whatever is published, a      *)
(* state older than the snapshot included.                                 *)
Hear(r) ==
    /\ Subscribed(r) /\ inbox[r] # <<>>
    /\ Push(r, Head(inbox[r]))
    /\ inbox' = [inbox EXCEPT ![r] = Tail(@)]
    /\ UNCHANGED <<vars, page, stream, poll, broken>>

Close(r, step) == Goes(r, step) /\ inbox' = [inbox EXCEPT ![r] = <<>>]

(* The stream completes one turn of the event loop after a final snapshot, *)
(* never after a final event.                                              *)
Complete(r) ==
    /\ StreamAt(r, "completing")
    /\ Close(r, "closed")
    /\ UNCHANGED <<vars, page, shown, pushed, poll, isError, broken>>

(* The network, a proxy, or the API process with all its streams.          *)
Drop(r) ==
    /\ ~StreamAt(r, "closed") /\ ~StreamAt(r, "refused")
    /\ Breaks
    /\ Close(r, "closed")
    /\ UNCHANGED <<vars, page, shown, pushed, poll, isError>>

-----------------------------------------------------------------------------
(* The page: useStatusStream and useStatus *)

(* activate answered and the page shows the status view, now or later.     *)
OpenPage(r) ==
    /\ page[r] = "form" /\ api[r] = "returned"
    /\ page' = [page EXCEPT ![r] = "open"]
    /\ UNCHANGED <<vars, shown, stream, inbox, pushed, poll, isError, broken>>

(* The EventSource connects, again whenever the server closed the stream;  *)
(* an answer that is no stream (the throttler's 429) ends it for good.     *)
Connect(r) ==
    /\ page[r] = "open" /\ StreamAt(r, "closed")
    /\ \/ Holds /\ Goes(r, "subscribing")
       \/ Breaks /\ Goes(r, "refused")
    /\ pushed' = [pushed EXCEPT ![r] = {}]
    /\ UNCHANGED <<vars, page, shown, inbox, poll, isError>>

(* Mutant: polling stops as soon as there is something to show.            *)
PollDueOnce(r) == page[r] = "open" /\ shown[r] = NoStatus

(* refetchInterval: every 1.5 seconds until a final state is shown.        *)
PollDue(r) == page[r] = "open" /\ shown[r] \notin Terminal

(* Asking again forgets an error only while there is nothing to show.      *)
StartPoll(r) ==
    /\ PollDue(r) /\ poll[r].step = "idle"
    /\ poll' = [poll EXCEPT ![r] = Step("cache")]
    /\ isError' = [isError EXCEPT ![r] = IF shown[r] = NoStatus THEN "none" ELSE @]
    /\ UNCHANGED <<vars, page, shown, stream, inbox, pushed, broken>>

(* A poll that fails, its one retry too, leaves an error beside what is    *)
(* shown: an early one is asked again, a late one, with a final state      *)
(* there already, is not.                                                  *)
ReadPoll(r) ==
    /\ Reading(poll[r])
    /\ \/ /\ Holds
          /\ poll' = [poll EXCEPT ![r] = ReadOn(r, @)]
          /\ UNCHANGED isError
       \/ /\ Breaks
          /\ poll' = [poll EXCEPT ![r] = Step("idle")]
          /\ isError' = [isError EXCEPT ![r] = IF shown[r] \in Terminal THEN "late" ELSE "early"]
    /\ UNCHANGED <<vars, page, shown, stream, inbox, pushed>>

(* The answer replaces what the stream showed meanwhile.                   *)
AnswerPoll(r) ==
    /\ poll[r].step = "answer"
    /\ Show(r, poll[r].got)
    /\ poll' = [poll EXCEPT ![r] = Step("idle")]
    /\ UNCHANGED <<vars, page, stream, inbox, pushed, broken>>

Leave(r) ==
    /\ page[r] = "open"
    /\ page' = [page EXCEPT ![r] = "left"]
    /\ Close(r, "closed")
    /\ poll' = [poll EXCEPT ![r] = Step("idle")]
    /\ UNCHANGED <<vars, shown, pushed, isError, broken>>

-----------------------------------------------------------------------------
(* The system *)

ServerNext(r) == Subscribe(r) \/ ReadSnapshot(r) \/ PushSnapshot(r) \/ Complete(r)

PollNext(r) == StartPoll(r) \/ ReadPoll(r) \/ AnswerPoll(r)

StreamNext ==
    \/ PipelineStep
    \/ \E r \in Requests : \/ ServerNext(r) \/ Hear(r) \/ Drop(r)
                           \/ OpenPage(r) \/ Connect(r) \/ PollNext(r) \/ Leave(r)

StreamSpec == StreamInit /\ [][StreamNext]_allVars

(* The pipeline's fairness, and timers, sockets and promises of an open    *)
(* page and its stream that do go on.                                      *)
StreamFairSpec ==
    /\ StreamSpec
    /\ Fairness
    /\ \A r \in Requests : /\ WF_allVars(ServerNext(r)) /\ WF_allVars(Hear(r))
                           /\ WF_allVars(Connect(r)) /\ WF_allVars(PollNext(r))

-----------------------------------------------------------------------------
(* Properties *)

(* activation.controller.ts, "CRITICAL: await SUBSCRIBE before doing       *)
(* anything else": a stream that pushed its snapshot and has nothing on    *)
(* its way has pushed what is cached now, whatever was written meanwhile   *)
(* (as long as its connection to Redis lasts).                             *)
NothingMissed ==
    \A r \in Requests :
        StreamAt(r, "live") /\ inbox[r] = <<>> /\ cache[r] # "none" => cache[r] \in pushed[r]

(* Whatever way a success came to the page, live, as a snapshot or by a    *)
(* poll, the key of that request was consumed.                             *)
ShownSuccessIsConsumed ==
    \A r \in Requests :
        shown[r] = "success"
        => \E k \in Keys : job[r].key = k /\ licenses[k].activatedAt # NoTime

(* However reads, events and polls overtake one another, and although      *)
(* polling stops at the first final state shown, an open page comes to     *)
(* hold the true final state for good, with no earlier error left over it. *)
(* One thing may still hide it: a poll under way as the state came, which  *)
(* fails with its retry.  Nobody asks again, and until the stream pushes   *)
(* once more the page renders a failure.                                   *)
PageSettles ==
    \A r \in Requests :
        page[r] = "open"
        ~> [](\/ page[r] = "left"
              \/ shown[r] \in Terminal \cap {DbState(r)} /\ isError[r] # "early")
=============================================================================
