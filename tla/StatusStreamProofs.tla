------------------------- MODULE StatusStreamProofs --------------------------
(***************************************************************************)
(* Proofs about StatusStream, for any number of requests, workers and      *)
(* faults: the page and its stream leave the pipeline alone, a success     *)
(* shown is one whose key was consumed, and a stream that subscribed       *)
(* before it read its snapshot misses nothing.                             *)
(***************************************************************************)
EXTENDS StatusStream, PipelineProofs

-----------------------------------------------------------------------------
(* The pipeline goes on as if nobody watched *)

WebNext(r) == \/ ServerNext(r) \/ Hear(r) \/ Drop(r)
              \/ OpenPage(r) \/ Connect(r) \/ PollNext(r) \/ Leave(r)

LEMMA WebLeavesPipeline == ASSUME NEW r \in Requests, WebNext(r) PROVE UNCHANGED vars
  BY DEF WebNext, ServerNext, Subscribe, ReadSnapshot, PushSnapshot, Complete, Hear, Drop,
         OpenPage, Connect, PollNext, StartPoll, ReadPoll, AnswerPoll, Leave

LEMMA StreamStepCases ==
  ASSUME [StreamNext]_allVars
  PROVE  PipelineStep \/ (\E r \in Requests : WebNext(r)) \/ UNCHANGED allVars
  BY DEF StreamNext, WebNext

(* Watching a login changes nothing of it: every behaviour of pages and    *)
(* streams is one of the pipeline, so what is proved of that is inherited. *)
THEOREM WatchingIsPassive == StreamSpec => Spec
<1>1. StreamInit => PipelineInit
  BY DEF StreamInit
<1>2. [StreamNext]_allVars => [Next]_vars
  BY StreamStepCases, WebLeavesPipeline DEF PipelineStep, allVars
<1> QED
  BY <1>1, <1>2, PTL DEF StreamSpec, Spec

-----------------------------------------------------------------------------
(* What is on its way *)

Coming(r) == {inbox[r][i] : i \in DOMAIN inbox[r]}

LEMMA AppendComes ==
  ASSUME NEW S, NEW q \in Seq(S), NEW x
  PROVE  {Append(q, x)[i] : i \in DOMAIN Append(q, x)} = {q[i] : i \in DOMAIN q} \cup {x}
<1>1. /\ DOMAIN q = 1 .. Len(q) /\ Len(q) \in Nat
      /\ DOMAIN Append(q, x) = 1 .. Len(q) + 1
      /\ \A i \in DOMAIN q : Append(q, x)[i] = q[i]
      /\ Append(q, x)[Len(q) + 1] = x
  OBVIOUS
<1> QED
  BY <1>1

LEMMA TailComes ==
  ASSUME NEW S, NEW q \in Seq(S), q # <<>>
  PROVE  {q[i] : i \in DOMAIN q} = {Tail(q)[i] : i \in DOMAIN Tail(q)} \cup {Head(q)}
<1>1. /\ DOMAIN q = 1 .. Len(q) /\ Len(q) \in Nat \ {0}
      /\ DOMAIN Tail(q) = 1 .. Len(q) - 1
      /\ \A i \in DOMAIN Tail(q) : Tail(q)[i] = q[i + 1]
      /\ Head(q) = q[1]
  OBVIOUS
<1>2. \A i \in DOMAIN q : i # 1 => /\ i - 1 \in DOMAIN Tail(q)
                                  /\ q[i] = Tail(q)[i - 1]
  BY <1>1
<1>3. ASSUME NEW i \in DOMAIN q
      PROVE  q[i] \in {Tail(q)[j] : j \in DOMAIN Tail(q)} \cup {Head(q)}
  BY <1>1, <1>2
<1>4. ASSUME NEW j \in DOMAIN Tail(q) PROVE Tail(q)[j] \in {q[i] : i \in DOMAIN q}
  <2>1. j + 1 \in DOMAIN q
    BY <1>1
  <2> QED
    BY <1>1, <2>1
<1>5. Head(q) \in {q[i] : i \in DOMAIN q}
  BY <1>1
<1> QED
  BY <1>3, <1>4, <1>5

LEMMA PublishComes ==
  ASSUME StreamTypeOK, Publish, NEW r \in Requests
  PROVE  Coming(r)' = IF Subscribed(r) /\ cache'[r] \notin {cache[r], "none"}
                      THEN Coming(r) \cup {cache'[r]} ELSE Coming(r)
<1>1. inbox[r] \in Seq(Status)
  BY DEF StreamTypeOK
<1>2. CASE Subscribed(r) /\ cache'[r] \notin {cache[r], "none"}
  <2>1. inbox'[r] = Append(inbox[r], cache'[r])
    BY <1>2 DEF Publish
  <2> QED
    BY <1>1, <1>2, <2>1, AppendComes DEF Coming
<1>3. CASE ~(Subscribed(r) /\ cache'[r] \notin {cache[r], "none"})
  BY <1>3 DEF Publish, Coming
<1> QED
  BY <1>2, <1>3

LEMMA HearComes ==
  ASSUME StreamTypeOK, NEW r \in Requests, Hear(r)
  PROVE  /\ Coming(r) = Coming(r)' \cup {Head(inbox[r])}
         /\ \A q \in Requests \ {r} : Coming(q)' = Coming(q)
<1>1. inbox[r] \in Seq(Status) /\ inbox[r] # <<>> /\ inbox' = [inbox EXCEPT ![r] = Tail(@)]
  BY DEF StreamTypeOK, Hear
<1>2. inbox'[r] = Tail(inbox[r]) /\ \A q \in Requests \ {r} : inbox'[q] = inbox[q]
  BY <1>1 DEF StreamTypeOK
<1> QED
  BY <1>1, <1>2, TailComes DEF Coming

(* Closing a stream forgets what was on its way to it.                     *)
LEMMA CloseComes ==
  ASSUME StreamTypeOK, NEW r \in Requests, NEW step, Close(r, step)
  PROVE  \A q \in Requests : Coming(q)' \subseteq Coming(q)
<1>1. \A q \in Requests : inbox'[q] \in {inbox[q], <<>>}
  BY DEF StreamTypeOK, Close
<1> QED
  BY <1>1 DEF Coming

-----------------------------------------------------------------------------
(* Types *)

LEMMA ReadTyped ==
  ASSUME PipelineInv, NEW r \in Requests, NEW reader, reader.step \in ReadStep \ {"answer"}
  PROVE  /\ ReadOn(r, reader).step \in ReadStep
         /\ ReadOn(r, reader).step = "answer" => ReadOn(r, reader).got \in Status
         /\ ReadOn(r, reader) \in [step : ReadStep, got : Status \cup {NoStatus}]
<1>1. cache[r] \in Status \cup {NoStatus}
  BY DEF PipelineInv, PipelineTypeOK, Status, NoStatus
<1>2. DbState(r) \in Status
  BY DEF DbState, FailedState, Status, Terminal
<1>3. Step("row") = [step |-> "row", got |-> NoStatus]
  BY DEF Step
<1> QED
  BY <1>1, <1>2, <1>3 DEF ReadOn, ReadStep, NoStatus

LEMMA StreamTypeInit == StreamInit => StreamTypeOK
<1>1. StreamInit => PipelineTypeOK
  BY PipelineInitHolds DEF StreamInit, PipelineInv
<1> QED
  BY <1>1, MaxWebFaultsAssumption
     DEF StreamInit, StreamTypeOK, Step, StreamStep, ReadStep, NoStatus

StreamTyped(f) ==
    /\ f \in [Requests -> [step : StreamStep, got : Status \cup {NoStatus}]]
    /\ \A r \in Requests : f[r].step = "answer" => f[r].got \in Status

LEMMA BrokenTyped ==
  ASSUME StreamTypeOK, Breaks \/ Holds PROVE broken' \in 0 .. MaxWebFaults
  BY MaxWebFaultsAssumption DEF StreamTypeOK, Breaks, Holds

LEMMA GoesTyped ==
  ASSUME StreamTypeOK, NEW r \in Requests, NEW step \in StreamStep \ {"answer"}, Goes(r, step)
  PROVE  StreamTyped(stream')
  BY DEF StreamTypeOK, StreamTyped, Goes, Step

LEMMA WebTyped ==
  ASSUME PipelineInv, StreamTypeOK, NEW r \in Requests, WebNext(r)
  PROVE  StreamTypeOK'
<1> USE DEF StreamTypeOK, StreamTyped, StreamStep, ReadStep, Step, Goes, Show, Push, Close
<1>0. /\ PipelineTypeOK'
      /\ UNCHANGED vars
  BY WebLeavesPipeline DEF PipelineTypeOK, vars, dbVars, apiVars, queueVars, redisVars,
                           DbTypeOK
<1>1. CASE Subscribe(r)
  <2>1. broken' \in 0 .. MaxWebFaults
    BY <1>1, BrokenTyped DEF Subscribe
  <2>2. StreamTyped(stream')
    BY <1>1, GoesTyped DEF Subscribe
  <2> QED
    BY <1>0, <1>1, <2>1, <2>2 DEF Subscribe
<1>2. CASE ReadSnapshot(r)
  <2>1. broken' \in 0 .. MaxWebFaults
    BY <1>2, BrokenTyped DEF ReadSnapshot
  <2>2. /\ ReadOn(r, stream[r]) \in [step : StreamStep, got : Status \cup {NoStatus}]
        /\ ReadOn(r, stream[r]).step = "answer" => ReadOn(r, stream[r]).got \in Status
    BY <1>2, ReadTyped DEF ReadSnapshot, Reading
  <2>3. ASSUME stream' = [stream EXCEPT ![r] = ReadOn(r, stream[r])] PROVE StreamTyped(stream')
    BY <2>2, <2>3
  <2>4. ASSUME Goes(r, "unread") PROVE StreamTyped(stream')
    BY <2>4, GoesTyped
  <2>5. StreamTyped(stream')
    BY <1>2, <2>3, <2>4 DEF ReadSnapshot
  <2> QED
    BY <1>0, <1>2, <2>1, <2>5 DEF ReadSnapshot
<1>3. CASE PushSnapshot(r)
  <2>1. stream[r].got \in Status
    BY <1>3 DEF PushSnapshot, StreamAt
  <2>2. StreamTyped(stream')
    BY <1>3, GoesTyped DEF PushSnapshot
  <2> QED
    BY <1>0, <1>3, <2>1, <2>2 DEF PushSnapshot
<1>4. CASE Complete(r)
  BY <1>0, <1>4 DEF Complete, NoStatus
<1>5. CASE Hear(r)
  <2>1. Head(inbox[r]) \in Status /\ Tail(inbox[r]) \in Seq(Status)
    BY <1>5 DEF Hear
  <2> QED
    BY <1>0, <1>5, <2>1 DEF Hear
<1>6. CASE Drop(r)
  BY <1>0, <1>6, MaxWebFaultsAssumption DEF Drop, Breaks, NoStatus
<1>7. CASE OpenPage(r)
  BY <1>0, <1>7 DEF OpenPage
<1>8. CASE Connect(r)
  <2>1. broken' \in 0 .. MaxWebFaults
    BY <1>8, BrokenTyped DEF Connect
  <2>2. StreamTyped(stream')
    BY <1>8, GoesTyped DEF Connect
  <2> QED
    BY <1>0, <1>8, <2>1, <2>2 DEF Connect
<1>9. CASE StartPoll(r)
  BY <1>0, <1>9 DEF StartPoll, NoStatus
<1>10. CASE ReadPoll(r)
  <2>1. broken' \in 0 .. MaxWebFaults
    BY <1>10, BrokenTyped DEF ReadPoll
  <2>2. ReadOn(r, poll[r]) \in [step : ReadStep \cup {"idle"}, got : Status \cup {NoStatus}]
    BY <1>10, ReadTyped DEF ReadPoll, Reading
  <2>3. Step("idle") \in [step : ReadStep \cup {"idle"}, got : Status \cup {NoStatus}]
    OBVIOUS
  <2>4. \/ poll' = [poll EXCEPT ![r] = ReadOn(r, poll[r])]
        \/ poll' = [poll EXCEPT ![r] = Step("idle")]
    BY <1>10 DEF ReadPoll
  <2> HIDE DEF Step, ReadStep
  <2>5. PICK x \in [step : ReadStep \cup {"idle"}, got : Status \cup {NoStatus}] :
           poll' = [poll EXCEPT ![r] = x]
    BY <2>2, <2>3, <2>4
  <2>6. poll' \in [Requests -> [step : ReadStep \cup {"idle"}, got : Status \cup {NoStatus}]]
    BY <2>5
  <2> QED
    BY <1>0, <1>10, <2>1, <2>6 DEF ReadPoll
<1>11. CASE AnswerPoll(r)
  BY <1>0, <1>11 DEF AnswerPoll, NoStatus
<1>12. CASE Leave(r)
  BY <1>0, <1>12 DEF Leave, NoStatus
<1> QED
  BY <1>1, <1>2, <1>3, <1>4, <1>5, <1>6, <1>7, <1>8, <1>9, <1>10, <1>11, <1>12
     DEF WebNext, ServerNext, PollNext

LEMMA PipelineStepTyped ==
  ASSUME PipelineInv, StreamTypeOK, PipelineStep
  PROVE  StreamTypeOK'
<1>1. PipelineTypeOK'
  BY PipelineInvStep DEF PipelineStep, PipelineInv
<1>2. ASSUME NEW r \in Requests PROVE cache'[r] \in Status \cup {"none"}
  BY <1>1 DEF PipelineTypeOK, Status
<1>3. inbox' \in [Requests -> Seq(Status)]
  BY <1>2 DEF PipelineStep, Publish, StreamTypeOK
<1> QED
  BY <1>1, <1>3 DEF PipelineStep, StreamTypeOK

LEMMA StreamTypeStep ==
  ASSUME PipelineInv, StreamTypeOK, [StreamNext]_allVars
  PROVE  StreamTypeOK'
<1>1. CASE UNCHANGED allVars
  <2>1. PipelineTypeOK'
    BY <1>1, PipelineInvStep DEF allVars, PipelineInv
  <2> QED
    BY <1>1, <2>1 DEF allVars, webVars, StreamTypeOK
<1> QED
  BY <1>1, StreamStepCases, WebTyped, PipelineStepTyped

LEMMA StreamTypesHold == StreamSpec => [](PipelineInv /\ StreamTypeOK)
<1>1. StreamSpec => []PipelineInv
  BY WatchingIsPassive, PipelineInvHolds, PTL
<1> QED
  BY <1>1, StreamTypeInit, StreamTypeStep, PTL DEF StreamSpec

(* StreamTypeOK: among others, a snapshot is pushed, and a poll answered,  *)
(* with a state the page knows, never with an empty answer.                *)
THEOREM StreamTypeCorrect == StreamSpec => []StreamTypeOK
  BY StreamTypesHold, PTL

-----------------------------------------------------------------------------
(* A step of one page *)

LEMMA OthersUntouched ==
  ASSUME StreamTypeOK, NEW r \in Requests, WebNext(r), NEW q \in Requests \ {r}
  PROVE  /\ stream'[q] = stream[q] /\ pushed'[q] = pushed[q] /\ shown'[q] = shown[q]
         /\ poll'[q] = poll[q] /\ Coming(q)' = Coming(q)
<1>1. stream'[q] = stream[q] /\ pushed'[q] = pushed[q] /\ shown'[q] = shown[q]
      /\ poll'[q] = poll[q] /\ inbox'[q] = inbox[q]
  <2> USE DEF StreamTypeOK, Goes, Show, Push, Close
  <2>1. CASE ServerNext(r)
    BY <2>1 DEF ServerNext, Subscribe, ReadSnapshot, PushSnapshot, Complete
  <2>2. CASE Hear(r) \/ Drop(r) \/ OpenPage(r) \/ Connect(r) \/ Leave(r)
    BY <2>2 DEF Hear, Drop, OpenPage, Connect, Leave
  <2>3. CASE PollNext(r)
    BY <2>3 DEF PollNext, StartPoll, ReadPoll, AnswerPoll
  <2> QED
    BY <2>1, <2>2, <2>3 DEF WebNext
<1> QED
  BY <1>1 DEF Coming

-----------------------------------------------------------------------------
(* The stream misses nothing *)

(* What is cached while a stream reads the row, holds a snapshot or is     *)
(* live has been pushed, is on its way, or is that snapshot.               *)
Heard(r) ==
    stream[r].step \in {"row", "answer", "live"}
    => \/ cache[r] = "none"
       \/ cache[r] \in pushed[r] \cup Coming(r)
       \/ StreamAt(r, "answer") /\ stream[r].got = cache[r]

AllHeard == \A r \in Requests : Heard(r)

LEMMA PipelineStepHeard ==
  ASSUME StreamTypeOK, AllHeard, PipelineStep
  PROVE  AllHeard'
<1> SUFFICES ASSUME NEW r \in Requests PROVE Heard(r)'
  BY DEF AllHeard
<1>1. stream' = stream /\ pushed' = pushed /\ Heard(r)
  BY DEF PipelineStep, AllHeard
<1>2. Coming(r)' = IF Subscribed(r) /\ cache'[r] \notin {cache[r], "none"}
                   THEN Coming(r) \cup {cache'[r]} ELSE Coming(r)
  BY PublishComes DEF PipelineStep
<1>3. stream[r].step \in {"row", "answer", "live"} => Subscribed(r)
  BY DEF Subscribed, ReadStep
<1> QED
  BY <1>1, <1>2, <1>3 DEF Heard, StreamAt

LEMMA WebHeard ==
  ASSUME StreamTypeOK, AllHeard, NEW r \in Requests, WebNext(r)
  PROVE  AllHeard'
<1>1. cache' = cache
  BY WebLeavesPipeline DEF vars, redisVars
<1>2. ASSUME NEW q \in Requests \ {r} PROVE Heard(q)'
  BY <1>1, <1>2, OthersUntouched DEF AllHeard, Heard, StreamAt
<1>3. Heard(r)'
  <2>0. Heard(r)
    BY DEF AllHeard
  <2>1. ASSUME NEW step \in StreamStep \ {"row", "answer", "live"}, Goes(r, step) PROVE Heard(r)'
    BY <2>1 DEF Heard, StreamAt, Goes, Step, StreamTypeOK
  <2>2. CASE Subscribe(r)
    BY <2>1, <2>2 DEF Subscribe, StreamStep, ReadStep
  <2>3. CASE ReadSnapshot(r)
    <3>1. CASE Goes(r, "unread")
      BY <2>1, <3>1 DEF StreamStep
    <3>2. CASE stream' = [stream EXCEPT ![r] = ReadOn(r, stream[r])]
      <4>1. /\ stream'[r] = ReadOn(r, stream[r])
            /\ pushed' = pushed /\ inbox' = inbox
            /\ stream[r].step \in {"cache", "row"}
        BY <2>3, <3>2 DEF ReadSnapshot, Reading, StreamTypeOK
      <4>2. CASE stream[r].step = "row"
        BY <1>1, <2>0, <4>1, <4>2 DEF Heard, StreamAt, Coming
      <4>3. CASE stream[r].step = "cache"
        BY <1>1, <4>1, <4>3 DEF Heard, StreamAt, Coming, ReadOn, Step
      <4> QED
        BY <4>1, <4>2, <4>3
    <3> QED
      BY <2>3, <3>1, <3>2 DEF ReadSnapshot
  <2>4. CASE PushSnapshot(r)
    <3>1. /\ pushed'[r] = pushed[r] \cup {stream[r].got}
          /\ inbox' = inbox
          /\ stream[r].step = "answer"
      BY <2>4 DEF PushSnapshot, Push, StreamAt, StreamTypeOK
    <3> QED
      BY <1>1, <2>0, <3>1 DEF Heard, StreamAt, Coming
  <2>5. CASE Hear(r)
    <3>1. /\ pushed'[r] = pushed[r] \cup {Head(inbox[r])}
          /\ Coming(r) = Coming(r)' \cup {Head(inbox[r])}
          /\ stream' = stream
      BY <2>5, HearComes DEF Hear, Push, StreamTypeOK
    <3> QED
      BY <1>1, <2>0, <3>1 DEF Heard, StreamAt
  <2>6. CASE Complete(r) \/ Drop(r) \/ Connect(r) \/ Leave(r)
    BY <2>1, <2>6 DEF Complete, Drop, Connect, Leave, Close, StreamStep
  <2>7. CASE OpenPage(r) \/ PollNext(r)
    <3>1. stream' = stream /\ pushed' = pushed /\ inbox' = inbox
      BY <2>7 DEF OpenPage, PollNext, StartPoll, ReadPoll, AnswerPoll
    <3> QED
      BY <1>1, <2>0, <3>1 DEF Heard, StreamAt, Coming
  <2> QED
    BY <2>2, <2>3, <2>4, <2>5, <2>6, <2>7 DEF WebNext, ServerNext
<1> QED
  BY <1>2, <1>3 DEF AllHeard

LEMMA HeardImpliesNothingMissed == StreamTypeOK /\ AllHeard => NothingMissed
<1> SUFFICES ASSUME StreamTypeOK, AllHeard, NEW r \in Requests,
                    StreamAt(r, "live"), inbox[r] = <<>>, cache[r] # "none"
             PROVE  cache[r] \in pushed[r]
  BY DEF NothingMissed
<1>1. Coming(r) = {}
  BY DEF Coming
<1> QED
  BY <1>1 DEF AllHeard, Heard, StreamAt

(* NothingMissed: SUBSCRIBE is awaited before the snapshot is read, so no  *)
(* status written in between is lost to a live stream.                     *)
THEOREM StreamMissesNothing == StreamSpec => []NothingMissed
<1>1. StreamInit => AllHeard
  BY DEF StreamInit, AllHeard, Heard, Step
<1>2. StreamTypeOK /\ AllHeard /\ [StreamNext]_allVars => AllHeard'
  <2>1. ASSUME AllHeard, UNCHANGED allVars PROVE AllHeard'
    BY <2>1 DEF AllHeard, Heard, StreamAt, Coming, allVars, webVars, vars, redisVars
  <2> QED
    BY <2>1, StreamStepCases, PipelineStepHeard, WebHeard
<1> QED
  BY <1>1, <1>2, StreamTypesHold, HeardImpliesNothingMissed, PTL DEF StreamSpec

-----------------------------------------------------------------------------
(* A success shown is a key consumed *)

(* The states on their way to the page of a request or shown there.        *)
Seen(r) == {shown[r], stream[r].got, poll[r].got} \cup Coming(r)

SeenIsConsumed == \A r \in Requests : "success" \in Seen(r) => KeyConsumed(r)

LEMMA ConsumptionStays ==
  ASSUME PipelineInv, [Next]_vars, NEW r \in Requests, KeyConsumed(r)
  PROVE  KeyConsumed(r)'
<1>1. job[r].key \in Keys /\ job'[r].state # "none" /\ job'[r].key = job[r].key
  BY JobsStay DEF KeyConsumed, PipelineInv, JobHoldsKey
<1>2. licenses'[job[r].key].activatedAt # NoTime
  BY <1>1, StepIsTransaction, StampStays DEF KeyConsumed
<1> QED
  BY <1>1, <1>2 DEF KeyConsumed

LEMMA ReadIsConsumed ==
  ASSUME PipelineInv, NEW r \in Requests, NEW reader, ReadOn(r, reader).got = "success"
  PROVE  KeyConsumed(r)
<1>1. DbState(r) = "success" => activations[r].result = "success"
  BY DEF DbState, FailedState, PipelineInv, PipelineTypeOK, DbTypeOK, Activation
<1>2. cache[r] = "success" \/ DbState(r) = "success"
  BY DEF ReadOn, Step, NoStatus
<1> QED
  BY <1>1, <1>2 DEF PipelineInv, SuccessConsumed

LEMMA PipelineStepConsumed ==
  ASSUME PipelineInv, StreamTypeOK, SeenIsConsumed, PipelineStep
  PROVE  SeenIsConsumed'
<1> SUFFICES ASSUME NEW r \in Requests, "success" \in Seen(r)' PROVE KeyConsumed(r)'
  BY DEF SeenIsConsumed
<1>1. Coming(r)' = Coming(r) \/ Coming(r)' = Coming(r) \cup {cache'[r]}
  BY PublishComes DEF PipelineStep
<1>2. "success" \in Seen(r) \/ cache'[r] = "success"
  BY <1>1 DEF PipelineStep, Seen
<1>3. CASE "success" \in Seen(r)
  BY <1>3, ConsumptionStays DEF SeenIsConsumed, PipelineStep
<1>4. CASE cache'[r] = "success"
  BY <1>4, PipelineInvStep DEF PipelineStep, PipelineInv, SuccessConsumed
<1> QED
  BY <1>2, <1>3, <1>4

(* What comes to a page was there, or has just been read.                  *)
LEMMA WebSees ==
  ASSUME StreamTypeOK, NEW r \in Requests, WebNext(r)
  PROVE  /\ \A q \in Requests \ {r} : Seen(q)' = Seen(q)
         /\ Seen(r)' \subseteq Seen(r) \cup {NoStatus}
                              \cup {ReadOn(r, stream[r]).got, ReadOn(r, poll[r]).got}
<1>0. ASSUME NEW q \in Requests \ {r} PROVE Seen(q)' = Seen(q)
  BY <1>0, OthersUntouched DEF Seen
<1> SUFFICES Seen(r)' \subseteq Seen(r) \cup {NoStatus}
                               \cup {ReadOn(r, stream[r]).got, ReadOn(r, poll[r]).got}
  BY <1>0
<1> USE DEF StreamTypeOK, Goes, Show, Push, Step, Seen
<1>1. CASE Subscribe(r)
  BY <1>1 DEF Subscribe, Coming
<1>2. CASE ReadSnapshot(r)
  BY <1>2 DEF ReadSnapshot, Coming
<1>3. CASE PushSnapshot(r)
  BY <1>3 DEF PushSnapshot, Coming
<1>4. CASE Hear(r)
  BY <1>4, HearComes DEF Hear
<1>5. CASE Complete(r) \/ Drop(r)
  <2>1. Close(r, "closed") /\ UNCHANGED <<shown, poll>>
    BY <1>5 DEF Complete, Drop
  <2>2. Coming(r)' \subseteq Coming(r)
    BY <2>1, CloseComes
  <2> QED
    BY <2>1, <2>2 DEF Close
<1>6. CASE OpenPage(r) \/ Connect(r)
  BY <1>6 DEF OpenPage, Connect, Coming
<1>7. CASE Leave(r)
  BY <1>7, CloseComes DEF Leave, Close
<1>8. CASE StartPoll(r) \/ AnswerPoll(r)
  BY <1>8 DEF StartPoll, AnswerPoll, Coming
<1>9. CASE ReadPoll(r)
  BY <1>9 DEF ReadPoll, Coming
<1> QED
  BY <1>1, <1>2, <1>3, <1>4, <1>5, <1>6, <1>7, <1>8, <1>9 DEF WebNext, ServerNext, PollNext

LEMMA WebConsumed ==
  ASSUME PipelineInv, StreamTypeOK, SeenIsConsumed, NEW r \in Requests, WebNext(r)
  PROVE  SeenIsConsumed'
<1>1. \A q \in Requests : KeyConsumed(q)' = KeyConsumed(q)
  BY WebLeavesPipeline DEF vars, dbVars, queueVars, KeyConsumed
<1>2. "success" \in Seen(r)' => KeyConsumed(r)
  BY WebSees, ReadIsConsumed DEF SeenIsConsumed, NoStatus
<1> QED
  BY <1>1, <1>2, WebSees DEF SeenIsConsumed

(* ShownSuccessIsConsumed: no push, snapshot or answer to a poll, however  *)
(* late it is, makes a page report a login that did not happen.            *)
THEOREM ShownIsConsumed == StreamSpec => []ShownSuccessIsConsumed
<1>1. StreamInit => SeenIsConsumed
  BY DEF StreamInit, SeenIsConsumed, Seen, Coming, Step, NoStatus
<1>2. PipelineInv /\ StreamTypeOK /\ SeenIsConsumed /\ [StreamNext]_allVars => SeenIsConsumed'
  <2>1. ASSUME SeenIsConsumed, UNCHANGED allVars PROVE SeenIsConsumed'
    BY <2>1 DEF SeenIsConsumed, Seen, Coming, KeyConsumed, allVars, webVars, vars, dbVars, queueVars
  <2> QED
    BY <2>1, StreamStepCases, PipelineStepConsumed, WebConsumed
<1>3. PipelineInv /\ SeenIsConsumed => ShownSuccessIsConsumed
  BY DEF SeenIsConsumed, Seen, KeyConsumed, PipelineInv, JobHoldsKey, ShownSuccessIsConsumed
<1> QED
  BY <1>1, <1>2, <1>3, StreamTypesHold, PTL DEF StreamSpec

-----------------------------------------------------------------------------
(* A final state shown is the outcome *)

(* Processes fail alone, and no row is reported as timed out for its age   *)
(* while its job goes on.                                                  *)
NothingAges == OnlyCrashes /\ "age" \notin Faults

NobodyAged == \A r \in Requests : aged[r] = FALSE

SeenIsTrue ==
    \A r \in Requests : \A status \in Seen(r) \cap Terminal : Settled(r) /\ status = DbState(r)

TrueInv == CalmInv /\ OutcomeKept /\ NobodyAged

(* Whatever final state a page holds is that of the settled row.           *)
FinalIsTrue ==
    \A r \in Requests :
        shown[r] \in Terminal
        => activations[r].result \in {"success", "failed"} /\ shown[r] = DbState(r)

(* A page never holds two different final states, one after the other.     *)
FinalIsShownOnce ==
    [][\A r \in Requests :
          shown[r] \in Terminal /\ shown'[r] \in Terminal => shown'[r] = shown[r]]_allVars

LEMMA NobodyAgedStep ==
  ASSUME NobodyAged, "age" \notin Faults, [Next]_vars
  PROVE  NobodyAged'
<1>1. ASSUME NEW r \in Requests, ApiNext(r) PROVE UNCHANGED aged
  BY <1>1 DEF ApiNext, Activate, Enqueue, EnqueueThrows, MarkReservationFailed, SetEnqueueError,
              SetPending, Age
<1>2. ASSUME NEW w \in Workers, WorkerNext(w) PROVE UNCHANGED aged
  BY <1>2, WorkerLeavesApi DEF apiVars
<1>3. CASE QueueNext
  BY <1>3 DEF QueueNext, Take, FailStalled, RecoverStalled, apiVars, NobodyAged
<1>4. CASE Environment
  BY <1>4 DEF Environment, ApiCrash, WorkerCrash, LoseLock, IssueKey, Ban, IdempotencyKeyExpires,
              StatusExpires, apiVars, NobodyAged
<1> QED
  BY <1>1, <1>2, <1>3, <1>4 DEF Next, vars, apiVars, NobodyAged

(* The state of a settled row is final.                                    *)
LEMMA OutcomeStays ==
  ASSUME CalmInv, [Next]_vars, NEW r \in Requests, Settled(r)
  PROVE  Settled(r)' /\ DbState(r)' = DbState(r)
<1>1. activations'[r] = activations[r]
  BY SettledStays
<1> QED
  BY <1>1 DEF Settled, DbState

(* A final state that is read is that of a settled row.                    *)
LEMMA ReadIsTrue ==
  ASSUME TrueInv, NEW r \in Requests, NEW reader, ReadOn(r, reader).got \in Terminal
  PROVE  Settled(r) /\ ReadOn(r, reader).got = DbState(r)
<1>1. cache[r] \in Terminal => Settled(r) /\ cache[r] = DbState(r)
  BY DEF TrueInv, OutcomeKept, CacheKeepsRow
<1>2. DbState(r) \in Terminal => Settled(r)
  <2>1. activations[r].result \in {"none", "pending", "success", "failed"} /\ aged[r] = FALSE
    BY DEF TrueInv, NobodyAged, CalmInv, DecidingInv, PipelineInv, PipelineTypeOK, DbTypeOK, Activation
  <2> QED
    BY <2>1 DEF DbState, Terminal, Settled
<1>3. NoStatus \notin Terminal
  BY DEF NoStatus, Terminal
<1> QED
  BY <1>1, <1>2, <1>3 DEF ReadOn, Step

LEMMA PipelineStepTrue ==
  ASSUME TrueInv, TrueInv', StreamTypeOK, SeenIsTrue, PipelineStep
  PROVE  SeenIsTrue'
<1> SUFFICES ASSUME NEW r \in Requests, NEW status \in Seen(r)', status \in Terminal
             PROVE  Settled(r)' /\ status = DbState(r)'
  BY DEF SeenIsTrue
<1>1. Coming(r)' = Coming(r) \/ Coming(r)' = Coming(r) \cup {cache'[r]}
  BY PublishComes DEF PipelineStep
<1>2. status \in Seen(r) \/ status = cache'[r]
  BY <1>1 DEF PipelineStep, Seen
<1>3. CASE status \in Seen(r)
  BY <1>3, OutcomeStays DEF SeenIsTrue, PipelineStep, TrueInv
<1>4. CASE status = cache'[r]
  BY <1>4 DEF TrueInv, OutcomeKept, CacheKeepsRow
<1> QED
  BY <1>2, <1>3, <1>4

LEMMA WebTrue ==
  ASSUME TrueInv, StreamTypeOK, SeenIsTrue, NEW r \in Requests, WebNext(r)
  PROVE  SeenIsTrue'
<1> SUFFICES ASSUME NEW q \in Requests, NEW status \in Seen(q)', status \in Terminal
             PROVE  Settled(q)' /\ status = DbState(q)'
  BY DEF SeenIsTrue
<1>1. Settled(q)' = Settled(q) /\ DbState(q)' = DbState(q)
  BY WebLeavesPipeline DEF vars, dbVars, apiVars, Settled, DbState
<1>2. CASE status \in Seen(q)
  BY <1>1, <1>2 DEF SeenIsTrue
<1>3. CASE status \notin Seen(q)
  <2>1. q = r /\ status # NoStatus
    BY <1>3, WebSees DEF NoStatus, Terminal
  <2>2. status \in {ReadOn(r, stream[r]).got, ReadOn(r, poll[r]).got}
    BY <1>3, <2>1, WebSees
  <2> QED
    BY <1>1, <2>1, <2>2, ReadIsTrue
<1> QED
  BY <1>2, <1>3

LEMMA SeenIsTrueHolds ==
  ASSUME NothingAges
  PROVE  StreamSpec => [](TrueInv /\ SeenIsTrue)
<1>1. StreamSpec => []TrueInv
  <2>1. PipelineInit => NobodyAged
    BY DEF PipelineInit, NobodyAged
  <2>2. NobodyAged /\ [Next]_vars => NobodyAged'
    BY NobodyAgedStep DEF NothingAges
  <2>3. OnlyCrashes
    BY DEF NothingAges
  <2>4. Spec => []CalmInv
    BY <2>3, CalmInvHolds
  <2>5. Spec => []OutcomeKept
    BY <2>3, OutcomeKeptHolds
  <2>6. Spec => []NobodyAged
    BY <2>1, <2>2, PTL DEF Spec
  <2>7. CalmInv /\ OutcomeKept /\ NobodyAged => TrueInv
    BY DEF TrueInv
  <2> QED
    BY <2>4, <2>5, <2>6, <2>7, WatchingIsPassive, PTL
<1>2. StreamInit => SeenIsTrue
  BY DEF StreamInit, SeenIsTrue, Seen, Coming, Step, NoStatus, Terminal
<1>3. TrueInv /\ TrueInv' /\ StreamTypeOK /\ SeenIsTrue /\ [StreamNext]_allVars => SeenIsTrue'
  <2>1. ASSUME SeenIsTrue, UNCHANGED allVars PROVE SeenIsTrue'
    BY <2>1 DEF SeenIsTrue, Seen, Coming, Settled, DbState, allVars, webVars, vars, dbVars, apiVars
  <2> QED
    BY <2>1, StreamStepCases, PipelineStepTrue, WebTrue
<1> QED
  BY <1>1, <1>2, <1>3, StreamTypesHold, PTL DEF StreamSpec

(* With processes failing alone, a final state that came to a page, pushed,*)
(* read or polled and however late, is the outcome of the login.           *)
THEOREM ShownIsTrue ==
  ASSUME NothingAges
  PROVE  StreamSpec => []FinalIsTrue
<1>1. SeenIsTrue => FinalIsTrue
  BY DEF SeenIsTrue, Seen, FinalIsTrue, Settled
<1> QED
  BY <1>1, SeenIsTrueHolds, PTL

(* Nor is a page ever given a second, different outcome: no reordering of  *)
(* pushes and answers turns a success into a failure.  (The error of a     *)
(* failed poll may still be rendered over the one it has.)                 *)
THEOREM OneOutcomeShown ==
  ASSUME NothingAges
  PROVE  StreamSpec => FinalIsShownOnce
<1>1. TrueInv /\ SeenIsTrue /\ (SeenIsTrue)' /\ [StreamNext]_allVars
      => [\A r \in Requests :
             shown[r] \in Terminal /\ shown'[r] \in Terminal => shown'[r] = shown[r]]_allVars
  <2> SUFFICES ASSUME TrueInv, SeenIsTrue, SeenIsTrue', [StreamNext]_allVars, NEW r \in Requests,
                      shown[r] \in Terminal, shown'[r] \in Terminal
               PROVE  shown'[r] = shown[r]
    OBVIOUS
  <2>1. Settled(r) /\ shown[r] = DbState(r) /\ shown'[r] = DbState(r)'
    BY DEF SeenIsTrue, Seen
  <2>2. [Next]_vars
    BY StreamStepCases, WebLeavesPipeline DEF PipelineStep, allVars
  <2> QED
    BY <2>1, <2>2, OutcomeStays DEF TrueInv
<1> QED
  BY <1>1, SeenIsTrueHolds, PTL DEF StreamSpec, FinalIsShownOnce
=============================================================================
