------------------------- MODULE RedeemClientProofs -------------------------
(***************************************************************************)
(* Proofs about RedeemClient, for any number of redemptions: one call      *)
(* listens at a time, so that the desk sees a send that succeeds or fails, *)
(* and while the bot says nothing of a call that is over, every message    *)
(* settles the call whose command it is about.  The chain of calls never   *)
(* stands still on itself and runs out.                                    *)
(***************************************************************************)
EXTENDS RedeemClient, LicenseDeskProofs, WellFoundedInduction

-----------------------------------------------------------------------------
(* The inductive invariant *)

(* A call is under way only while its redemption waits for it.             *)
CallsAtSend == \A r \in Redeems : call[r] # "none" => At(r, "send")

(* Of two calls in the chain one waits for the other.                      *)
ChainIsOrdered ==
    \A r, q \in Redeems :
        r # q /\ InChain(call[r]) /\ InChain(call[q]) => q \in ahead[r] \/ r \in ahead[q]

(* A call whose command is out waits for nobody any more.                  *)
SendersAreFirst ==
    \A r \in Redeems : call[r] \in {"listening", "deaf"} => \A q \in ahead[r] : ~InChain(call[q])

(* Who was in the chain once does not come back to it.                     *)
AheadIsPast ==
    \A r \in Redeems : \A q \in ahead[r] :
        InChain(call[q]) \/ redeem[q].step \in {"commit", "markFailed", "answered", "crashed"}

ClientInv == /\ DeskInv /\ ClientTypeOK
             /\ CallsAtSend /\ ChainIsOrdered /\ SendersAreFirst /\ AheadIsPast

LEMMA ClientInitHolds == ClientInit => ClientInv
<1> SUFFICES ASSUME ClientInit PROVE ClientInv
  OBVIOUS
<1>1. DeskInv
  BY DeskInitHolds DEF ClientInit
<1>2. ClientTypeOK /\ CallsAtSend /\ ChainIsOrdered /\ SendersAreFirst /\ AheadIsPast
  BY DEF ClientInit, ClientTypeOK, CallState, CallsAtSend, ChainIsOrdered, SendersAreFirst,
         AheadIsPast, InChain
<1> QED
  BY <1>1, <1>2 DEF ClientInv

(* No two calls listen at once.                                            *)
LEMMA OneListener ==
  ASSUME ClientInv, NEW r \in Listening, NEW q \in Listening
  PROVE  r = q
  BY DEF ClientInv, ChainIsOrdered, SendersAreFirst, Listening, InChain

-----------------------------------------------------------------------------
(* What the steps do *)

(* A reply moves the one redemption that listens, or none.                 *)
LEMMA AnswerMovesOne ==
  ASSUME ClientInv, NEW q \in Redeems, NEW v \in Says, BotAnswers(q, v)
  PROVE  \/ Listening = {} /\ redeem' = redeem
         \/ \E r \in Redeems : /\ Listening = {r}
                               /\ redeem' = [redeem EXCEPT ![r] = Settled(r, v)]
<1>1. redeem \in [Redeems -> [step : RedeemStep, key : Keys \cup {NoKey},
                              code : RedeemCode \cup {"none"}]]
  BY DEF ClientInv, DeskInv, DeskTypeOK
<1>2. CASE Listening = {}
  BY <1>1, <1>2 DEF BotAnswers
<1>3. ASSUME NEW r \in Listening
      PROVE  r \in Redeems /\ Listening = {r} /\ redeem' = [redeem EXCEPT ![r] = Settled(r, v)]
  <2>1. r \in Redeems /\ Listening = {r}
    BY <1>3, OneListener DEF Listening
  <2> QED
    BY <1>1, <2>1 DEF BotAnswers
<1> QED
  BY <1>2, <1>3

LEMMA SettledIsSend ==
  ASSUME ClientInv, NEW r \in Redeems, NEW v, At(r, "send"),
         redeem' = [redeem EXCEPT ![r] = Settled(r, v)],
         UNCHANGED <<dbVars, handler, resets, faults>>
  PROVE  SendCommand(r)
<1>1. redeem \in [Redeems -> [step : RedeemStep, key : Keys \cup {NoKey},
                              code : RedeemCode \cup {"none"}]]
  BY DEF ClientInv, DeskInv, DeskTypeOK
<1> QED
  BY <1>1 DEF Settled, SendCommand, Goto, FailRedeem

(* Each step of the client is a step of the desk or leaves it alone.       *)
LEMMA ClientStepIsDesk ==
  ASSUME ClientInv, [ClientNext]_allVars
  PROVE  [Next]_vars
<1> USE DEF ClientInv
<1>1. ASSUME NEW r \in Redeems, Request(r) \/ AroundSend(r) PROVE Next
  BY <1>1 DEF Request, AroundSend, Next, RedeemNext
<1>2. ASSUME NEW r \in Redeems, StartCall(r) \/ Enqueue(r) \/ Listen(r) PROVE UNCHANGED vars
  BY <1>2 DEF StartCall, Enqueue, Listen
<1>3. ASSUME NEW r \in Redeems, Unconnected(r) \/ GiveUp(r) PROVE Next
  <2>1. At(r, "send")
    BY <1>3 DEF Unconnected, GiveUp, Turn, CallsAtSend
  <2>2. SendCommand(r)
    BY <1>3, <2>1 DEF Unconnected, GiveUp, CallFails, SendCommand
  <2> QED
    BY <2>2 DEF Next, RedeemNext
<1>4. ASSUME NEW q \in Redeems, NEW v \in Says, BotAnswers(q, v)
      PROVE  [Next]_vars
  <2>1. CASE redeem' = redeem
    BY <1>4, <2>1 DEF BotAnswers, vars
  <2>2. ASSUME NEW r \in Redeems, Listening = {r}, redeem' = [redeem EXCEPT ![r] = Settled(r, v)]
        PROVE  Next
    <3>1. At(r, "send")
      BY <2>2 DEF Listening, CallsAtSend
    <3>2. SendCommand(r)
      BY <1>4, <2>2, <3>1, SettledIsSend DEF BotAnswers
    <3> QED
      BY <3>2 DEF Next, RedeemNext
  <2> QED
    BY <1>4, <2>1, <2>2, AnswerMovesOne
<1>5. CASE Connect \/ Shutdown \/ UNCHANGED allVars
  BY <1>5 DEF Connect, Connected, ConnectFails, Shutdown, allVars
<1>6. CASE ClientCrash
  BY <1>6 DEF ClientCrash, Next
<1>7. CASE Elsewhere
  BY <1>7 DEF Elsewhere, Next
<1> QED
  BY <1>1, <1>2, <1>3, <1>4, <1>5, <1>6, <1>7 DEF ClientNext, SendNext

LEMMA ClientStepTyped ==
  ASSUME ClientInv, [ClientNext]_allVars
  PROVE  ClientTypeOK'
<1> USE DEF ClientInv, ClientTypeOK
<1>1. \A S : StillOwed(S) \subseteq owed
  BY DEF StillOwed
<1>2. ASSUME NEW r \in Redeems, Request(r) \/ AroundSend(r) PROVE ClientTypeOK'
  BY <1>2 DEF Request, AroundSend, clientVars
<1>3. ASSUME NEW r \in Redeems, SendNext(r) PROVE ClientTypeOK'
  <2>1. CASE StartCall(r) \/ Listen(r) \/ Unconnected(r)
    BY <2>1 DEF StartCall, Listen, Unconnected, CallFails, CallState
  <2>2. CASE Enqueue(r)
    BY <2>2 DEF Enqueue, CallState
  <2>3. CASE GiveUp(r)
    BY <1>1, <2>3 DEF GiveUp, CallFails, CallState
  <2> QED
    BY <1>3, <2>1, <2>2, <2>3 DEF SendNext
<1>4. ASSUME NEW q \in Redeems, NEW v \in Says, BotAnswers(q, v)
      PROVE  ClientTypeOK'
  <2>1. [about |-> q, says |-> v] \in Reply
    BY DEF Reply
  <2>2. owed' \in SUBSET Redeems
    BY <1>1, <1>4 DEF BotAnswers
  <2>3. heard' \in [Redeems -> Reply \cup {NoReply}]
    BY <1>4, <2>1 DEF BotAnswers
  <2> QED
    BY <1>4, <2>2, <2>3 DEF BotAnswers, CallState
<1>5. CASE Connect
  BY <1>5 DEF Connect, Connected, ConnectFails, CallState
<1>6. CASE Shutdown
  BY <1>1, <1>6 DEF Shutdown, CallState
<1>7. CASE ClientCrash
  BY <1>1, <1>7 DEF ClientCrash, CallState
<1>8. CASE Elsewhere \/ UNCHANGED allVars
  BY <1>8 DEF Elsewhere, clientVars, allVars
<1> QED
  BY <1>2, <1>3, <1>4, <1>5, <1>6, <1>7, <1>8 DEF ClientNext

(* A step that leaves the client alone leaves waiting redemptions alone,   *)
(* and takes none back behind its send.                                    *)
LEMMA OutsideStep ==
  ASSUME ClientInv,
         \/ \E r \in Redeems : Request(r) \/ AroundSend(r)
         \/ Elsewhere \/ UNCHANGED allVars
  PROVE  /\ UNCHANGED clientVars
         /\ \A q \in Redeems :
               /\ At(q, "send") => redeem'[q] = redeem[q]
               /\ redeem[q].step \in {"commit", "markFailed", "answered", "crashed"}
                  => redeem'[q].step \in {"commit", "markFailed", "answered", "crashed"}
<1> USE DEF ClientInv
<1>1. ASSUME NEW r \in Redeems, Request(r) \/ AroundSend(r), NEW q \in Redeems
      PROVE  /\ At(q, "send") => redeem'[q] = redeem[q]
             /\ redeem[q].step \in {"commit", "markFailed", "answered", "crashed"}
                => redeem'[q].step \in {"commit", "markFailed", "answered", "crashed"}
  <2>1. CASE q # r
    BY <1>1, <2>1, RedeemStepTyped DEF Request, AroundSend, RedeemNext
  <2>2. CASE q = r
    <3>1. redeem \in [Redeems -> [step : RedeemStep, key : Keys \cup {NoKey},
                                  code : RedeemCode \cup {"none"}]]
      BY DEF DeskInv, DeskTypeOK
    <3> QED
      BY <1>1, <2>2, <3>1
         DEF Request, AroundSend, LookUp, RefreshExpiry, DeviceCode, ReserveRedeem,
             CommitReserved, MarkRedeemFailed, At, Goto, AnswerWith, FailRedeem
  <2> QED
    BY <2>1, <2>2
<1>2. CASE Elsewhere
  <2>1. redeem' = redeem
    BY <1>2, HandlerStepTyped DEF Elsewhere, Bulk, DeviceLogin, RepairRun, Sweep, Midnight
  <2> QED
    BY <1>2, <2>1 DEF Elsewhere
<1>3. CASE UNCHANGED allVars
  BY <1>3 DEF allVars, vars
<1> QED
  BY <1>1, <1>2, <1>3 DEF Request, AroundSend

-----------------------------------------------------------------------------
(* The chain *)

ChainInv == CallsAtSend /\ ChainIsOrdered /\ SendersAreFirst /\ AheadIsPast

(* A call that ends leaves the others' order as it was.                    *)
LEMMA CallEnds ==
  ASSUME ClientInv, NEW S \in SUBSET Redeems, UNCHANGED ahead,
         call' = [r \in Redeems |-> IF r \in S THEN "none" ELSE call[r]],
         \A r \in S : redeem'[r].step \in {"commit", "markFailed"},
         \A r \in Redeems \ S : redeem'[r] = redeem[r]
  PROVE  ChainInv'
  BY DEF ClientInv, ClientTypeOK, ChainInv, CallsAtSend, ChainIsOrdered, SendersAreFirst,
         AheadIsPast, InChain, At

LEMMA ChainKept ==
  ASSUME ClientInv, [ClientNext]_allVars
  PROVE  ChainInv'
<1> USE DEF ClientInv, ClientTypeOK
<1>0. redeem \in [Redeems -> [step : RedeemStep, key : Keys \cup {NoKey},
                              code : RedeemCode \cup {"none"}]]
  BY DEF DeskInv, DeskTypeOK
<1>1. CASE \/ \E r \in Redeems : Request(r) \/ AroundSend(r)
           \/ Elsewhere \/ UNCHANGED allVars
  <2>1. /\ UNCHANGED clientVars
        /\ \A q \in Redeems :
              /\ At(q, "send") => redeem'[q] = redeem[q]
              /\ redeem[q].step \in {"commit", "markFailed", "answered", "crashed"}
                 => redeem'[q].step \in {"commit", "markFailed", "answered", "crashed"}
    BY <1>1, OutsideStep
  <2> QED
    BY <2>1 DEF clientVars, ChainInv, CallsAtSend, ChainIsOrdered, SendersAreFirst, AheadIsPast, At
<1>2. ASSUME NEW r \in Redeems, StartCall(r) PROVE ChainInv'
  <2>1. /\ redeem' = redeem /\ ahead' = ahead /\ At(r, "send") /\ call[r] = "none"
        /\ call'[r] \in {"pacing", "connecting"}
        /\ \A q \in Redeems \ {r} : call'[q] = call[q]
    BY <1>2 DEF StartCall, vars
  <2> QED
    BY <2>1 DEF ChainInv, CallsAtSend, ChainIsOrdered, SendersAreFirst, AheadIsPast, InChain, At
<1>3. CASE Connect
  <2>1. /\ redeem' = redeem /\ ahead' = ahead
        /\ \A q \in Redeems : call'[q] = call[q]
                              \/ (call[q] = "connecting" /\ call'[q] \in {"pacing", "refused"})
    BY <1>3 DEF Connect, Connected, ConnectFails, Connecting, vars
  <2> QED
    BY <2>1 DEF ChainInv, CallsAtSend, ChainIsOrdered, SendersAreFirst, AheadIsPast, InChain, At
<1>4. ASSUME NEW r \in Redeems, Enqueue(r) PROVE ChainInv'
  <2>1. /\ redeem' = redeem /\ call[r] = "pacing" /\ call'[r] = "queued"
        /\ ahead'[r] = {q \in Redeems : InChain(call[q])}
        /\ \A q \in Redeems \ {r} : call'[q] = call[q] /\ ahead'[q] = ahead[q]
    BY <1>4 DEF Enqueue, vars
  <2>2. \A q \in Redeems : r \notin ahead[q]
    <3>1. At(r, "send")
      BY <2>1 DEF CallsAtSend
    <3> QED
      BY <2>1, <3>1 DEF AheadIsPast, InChain, At
  <2>3. CallsAtSend' /\ ChainIsOrdered'
    BY <2>1 DEF CallsAtSend, ChainIsOrdered, InChain, At
  <2>4. SendersAreFirst' /\ AheadIsPast'
    BY <2>1, <2>2 DEF SendersAreFirst, AheadIsPast, InChain
  <2> QED
    BY <2>3, <2>4 DEF ChainInv
<1>5. ASSUME NEW r \in Redeems, Listen(r) PROVE ChainInv'
  <2>1. /\ redeem' = redeem /\ ahead' = ahead /\ call[r] = "queued" /\ call'[r] = "listening"
        /\ \A q \in ahead[r] : ~InChain(call[q])
        /\ \A q \in Redeems \ {r} : call'[q] = call[q]
    BY <1>5 DEF Listen, Turn, vars
  <2> QED
    BY <2>1 DEF ChainInv, CallsAtSend, ChainIsOrdered, SendersAreFirst, AheadIsPast, InChain, At
<1>6. ASSUME NEW r \in Redeems, CallFails(r), UNCHANGED ahead PROVE ChainInv'
  <2>1. /\ call' = [q \in Redeems |-> IF q \in {r} THEN "none" ELSE call[q]]
        /\ redeem'[r].step = "markFailed"
        /\ \A q \in Redeems \ {r} : redeem'[q] = redeem[q]
    BY <1>0, <1>6 DEF CallFails, FailRedeem
  <2>2. {r} \in SUBSET Redeems /\ \A q \in {r} : redeem'[q].step \in {"commit", "markFailed"}
    BY <2>1
  <2> QED
    BY <1>6, <2>1, <2>2, CallEnds
<1>7. ASSUME NEW q \in Redeems, NEW v \in Says, BotAnswers(q, v)
      PROVE  ChainInv'
  <2>1. /\ call' = [r \in Redeems |-> IF r \in Listening THEN "none" ELSE call[r]]
        /\ \A r \in Redeems : redeem'[r] = IF r \in Listening THEN Settled(r, v) ELSE redeem[r]
        /\ UNCHANGED ahead
    BY <1>7 DEF BotAnswers
  <2>2. \A r \in Redeems : Settled(r, v).step \in {"commit", "markFailed"}
    BY <1>0 DEF Settled
  <2>3. Listening \in SUBSET Redeems
    BY DEF Listening
  <2>4. \A r \in Listening : redeem'[r].step \in {"commit", "markFailed"}
    BY <2>1, <2>2, <2>3
  <2>5. \A r \in Redeems \ Listening : redeem'[r] = redeem[r]
    BY <2>1
  <2> QED
    BY <2>1, <2>3, <2>4, <2>5, CallEnds
<1>8. CASE Shutdown
  <2>1. /\ redeem' = redeem /\ ahead' = ahead
        /\ \A q \in Redeems : call'[q] = call[q]
                              \/ (call[q] = "listening" /\ call'[q] = "deaf")
    BY <1>8 DEF Shutdown, Listening, vars
  <2> QED
    BY <2>1 DEF ChainInv, CallsAtSend, ChainIsOrdered, SendersAreFirst, AheadIsPast, InChain, At
<1>9. CASE ClientCrash
  BY <1>9 DEF ClientCrash, ChainInv, CallsAtSend, ChainIsOrdered, SendersAreFirst, AheadIsPast,
              InChain
<1> QED
  BY <1>1, <1>2, <1>3, <1>4, <1>5, <1>6, <1>7, <1>8, <1>9
     DEF ClientNext, SendNext, Unconnected, GiveUp

LEMMA ClientInvStep == ClientInv /\ [ClientNext]_allVars => ClientInv'
<1> SUFFICES ASSUME ClientInv, [ClientNext]_allVars PROVE ClientInv'
  OBVIOUS
<1>1. DeskInv'
  BY ClientStepIsDesk, DeskInvStep DEF ClientInv
<1> QED
  BY <1>1, ClientStepTyped, ChainKept DEF ClientInv, ChainInv

LEMMA ClientInvHolds == ClientSpec => []ClientInv
  BY ClientInitHolds, ClientInvStep, PTL DEF ClientSpec

-----------------------------------------------------------------------------
(* The replies, while the bot answers nothing that was given up *)

(* Only a call that listens has its answer still to come.                  *)
OwedListen == owed \subseteq Listening

(* Who commits, or has been told "redeemed", heard what parses as success. *)
AcceptanceHeard ==
    \A r \in Redeems : At(r, "commit") \/ redeem[r].code = "success" => heard[r] \in OwnSuccess(r)

ReplyInv == ClientInv /\ OwedListen /\ ReplyMatchesJob /\ AcceptanceHeard

(* The desk alone sends nobody to the commit, and tells nobody "redeemed"  *)
(* who was not there.                                                      *)
LEMMA DeskAcceptsNobody ==
  ASSUME ClientInv, NEW q \in Redeems,
         \/ \E r \in Redeems : Request(r) \/ AroundSend(r)
         \/ Elsewhere \/ UNCHANGED allVars \/ ClientCrash \/ (\E r \in Redeems : CallFails(r)),
         redeem'[q].step = "commit" \/ redeem'[q].code = "success"
  PROVE  redeem[q].step = "commit" \/ redeem[q].code = "success"
<1>0. redeem \in [Redeems -> [step : RedeemStep, key : Keys \cup {NoKey},
                              code : RedeemCode \cup {"none"}]]
  BY DEF ClientInv, DeskInv, DeskTypeOK
<1>1. \A status : Refusal(status) # "success"
  BY DEF Refusal
<1>2. ASSUME NEW r \in Redeems, Request(r) \/ AroundSend(r)
      PROVE  redeem[q].step = "commit" \/ redeem[q].code = "success"
  <2>1. CASE Request(r)
    <3>1. PICK k \in Keys : LookUp(r, k)
      BY <2>1 DEF Request
    <3> QED
      BY <1>0, <1>1, <3>1 DEF LookUp, At, AnswerWith
  <2>2. CASE AroundSend(r)
    BY <1>0, <1>1, <2>2
       DEF AroundSend, RefreshExpiry, DeviceCode, ReserveRedeem, CommitReserved,
           MarkRedeemFailed, At, Goto, AnswerWith, FailRedeem
  <2> QED
    BY <1>2, <2>1, <2>2
<1>3. CASE Elsewhere \/ UNCHANGED allVars
  <2>1. redeem' = redeem
    BY <1>3, HandlerStepTyped
       DEF ClientInv, Elsewhere, Bulk, DeviceLogin, RepairRun, Sweep, Midnight, allVars, vars
  <2> QED
    BY <2>1
<1>4. CASE ClientCrash
  BY <1>0, <1>4 DEF ClientCrash, ApiCrash
<1>5. ASSUME NEW r \in Redeems, CallFails(r)
      PROVE  redeem[q].step = "commit" \/ redeem[q].code = "success"
  BY <1>0, <1>5 DEF CallFails, FailRedeem
<1> QED
  BY <1>2, <1>3, <1>4, <1>5

(* A reply comes to the call it is for.                                    *)
LEMMA AnswerIsOwn ==
  ASSUME LateReplies = FALSE, ReplyInv,
         NEW q \in Redeems, NEW v \in Says, BotAnswers(q, v)
  PROVE  ReplyInv'
<1>0. redeem \in [Redeems -> [step : RedeemStep, key : Keys \cup {NoKey},
                              code : RedeemCode \cup {"none"}]]
  BY DEF ReplyInv, ClientInv, DeskInv, DeskTypeOK
<1>1. ClientInv'
  BY ClientInvStep DEF ReplyInv, ClientNext
<1>2. Listening = {q}
  <2>1. q \in Listening
    BY DEF ReplyInv, OwedListen, BotAnswers
  <2> QED
    BY <2>1, OneListener DEF ReplyInv
<1>3. owed' = {}
  BY <1>2 DEF ReplyInv, OwedListen, BotAnswers, StillOwed
<1>4. /\ heard' = [r \in Redeems |-> IF r = q THEN [about |-> q, says |-> v] ELSE heard[r]]
      /\ redeem' = [r \in Redeems |-> IF r = q THEN Settled(q, v) ELSE redeem[r]]
  BY <1>2 DEF BotAnswers
<1>5. OwedListen' /\ ReplyMatchesJob'
  BY <1>3, <1>4 DEF OwedListen, ReplyInv, ReplyMatchesJob
<1>6. AcceptanceHeard'
  <2>1. ASSUME NEW r \in Redeems, r # q, redeem'[r].step = "commit" \/ redeem'[r].code = "success"
        PROVE  heard'[r] \in OwnSuccess(r)
    BY <1>4, <2>1 DEF ReplyInv, AcceptanceHeard, At
  <2>2. redeem'[q].step = "commit" \/ redeem'[q].code = "success"
        => [about |-> q, says |-> v] \in OwnSuccess(q)
    BY <1>0, <1>4 DEF Settled, OwnSuccess, Reply
  <2> QED
    BY <1>4, <2>1, <2>2 DEF AcceptanceHeard, At
<1> QED
  BY <1>1, <1>5, <1>6 DEF ReplyInv

LEMMA ReplyInvStep ==
  ASSUME LateReplies = FALSE, ReplyInv, [ClientNext]_allVars
  PROVE  ReplyInv'
<1> USE DEF ReplyInv
<1>1. ClientInv'
  BY ClientInvStep
<1>2. ASSUME NEW r \in Redeems, StartCall(r) \/ Enqueue(r) \/ Listen(r) PROVE ReplyInv'
  <2>1. UNCHANGED <<redeem, heard>>
    BY <1>2 DEF StartCall, Enqueue, Listen, vars
  <2>2. OwedListen'
    BY <1>2 DEF ClientInv, ClientTypeOK, StartCall, Enqueue, Listen, Turn, OwedListen, Listening
  <2> QED
    BY <1>1, <2>1, <2>2 DEF ReplyMatchesJob, AcceptanceHeard, At
<1>3. ASSUME UNCHANGED heard, OwedListen',
             \A q \in Redeems : redeem'[q].step = "commit" \/ redeem'[q].code = "success"
                               => redeem[q].step = "commit" \/ redeem[q].code = "success"
      PROVE  ReplyInv'
  BY <1>1, <1>3 DEF ReplyMatchesJob, AcceptanceHeard, At
<1>4. ASSUME NEW r \in Redeems, Unconnected(r) \/ GiveUp(r) PROVE ReplyInv'
  <2>1. OwedListen'
    BY <1>4 DEF ClientInv, ClientTypeOK, Unconnected, GiveUp, Turn, CallFails, StillOwed,
                OwedListen, Listening
  <2> QED
    BY <1>3, <1>4, <2>1, DeskAcceptsNobody DEF Unconnected, GiveUp
<1>5. CASE Connect
  <2>1. OwedListen' /\ UNCHANGED <<heard, redeem>>
    BY <1>5 DEF Connect, Connected, ConnectFails, Connecting, OwedListen, Listening, vars
  <2> QED
    BY <1>3, <2>1
<1>6. CASE Shutdown
  <2>1. OwedListen' /\ UNCHANGED <<heard, redeem>>
    BY <1>6 DEF ClientInv, ClientTypeOK, Shutdown, StillOwed, OwedListen, vars
  <2> QED
    BY <1>3, <2>1
<1>7. CASE ClientCrash
  <2>1. OwedListen' /\ UNCHANGED heard
    BY <1>7 DEF ClientInv, ClientTypeOK, ClientCrash, StillOwed, OwedListen
  <2> QED
    BY <1>3, <1>7, <2>1, DeskAcceptsNobody
<1>8. CASE \/ \E r \in Redeems : Request(r) \/ AroundSend(r)
           \/ Elsewhere \/ UNCHANGED allVars
  <2>1. UNCHANGED clientVars
    BY <1>8, OutsideStep
  <2>2. OwedListen' /\ UNCHANGED heard
    BY <2>1 DEF clientVars, OwedListen, Listening
  <2> QED
    BY <1>3, <1>8, <2>2, DeskAcceptsNobody
<1> QED
  BY <1>2, <1>4, <1>5, <1>6, <1>7, <1>8, AnswerIsOwn DEF ClientNext, SendNext

LEMMA ReplyInvHolds == ASSUME LateReplies = FALSE PROVE ClientSpec => []ReplyInv
<1>1. ClientInit => ReplyInv
  BY ClientInitHolds
     DEF ClientInit, DeskInit, ReplyInv, OwedListen, ReplyMatchesJob, AcceptanceHeard, At
<1>2. ReplyInv /\ [ClientNext]_allVars => ReplyInv'
  BY ReplyInvStep
<1> QED
  BY <1>1, <1>2, PTL DEF ClientSpec

-----------------------------------------------------------------------------
(* Theorems *)

(* Connection, chain, calls and replies keep their types.                  *)
THEOREM ClientTypeCorrect == ClientSpec => []ClientTypeOK
<1>1. ClientInv => ClientTypeOK
  BY DEF ClientInv
<1> QED
  BY <1>1, ClientInvHolds, PTL

(* However calls connect, queue, listen and fail, whatever the bot says    *)
(* and when, the desk sees its step "send": all that is proved of the desk *)
(* holds with the real client in it.                                       *)
THEOREM ClientImplementsDesk == ClientSpec => ImplementsDesk
<1>1. ClientInit => DeskInit
  BY DEF ClientInit
<1>2. ClientInv /\ [ClientNext]_allVars => [Next]_vars
  BY ClientStepIsDesk
<1> QED
  BY <1>1, <1>2, ClientInvHolds, PTL DEF ClientSpec, Spec, ImplementsDesk

(* With a bot that says nothing more of a command whose call is over,      *)
(* connects, shutdowns, crashes and other calls never give a call the      *)
(* answer to another one's command.                                        *)
THEOREM RepliesAreMatched ==
  ASSUME LateReplies = FALSE PROVE ClientSpec => []ReplyMatchesJob
<1>1. ReplyInv => ReplyMatchesJob
  BY DEF ReplyInv
<1> QED
  BY <1>1, ReplyInvHolds, PTL

(* Nor is a customer told "redeemed" on anything but a reply to the own    *)
(* command that parseBotReply takes for an acceptance.                     *)
THEOREM RedeemedWasHeard ==
  ASSUME LateReplies = FALSE PROVE ClientSpec => []RedeemedOnOwnReply
<1>1. ReplyInv => RedeemedOnOwnReply
  BY DEF ReplyInv, AcceptanceHeard, RedeemedOnOwnReply
<1> QED
  BY <1>1, ReplyInvHolds, PTL

(* Seen with its real client, the desk loses nothing: however calls wait   *)
(* for the connection and for each other, a key is sold once per reset, a  *)
(* command goes out for the only holder of its key, only an administrator  *)
(* makes a banned key unused or active, and no receipt of a redemption is  *)
(* lost or taken back.                                                     *)
THEOREM ClientKeepsTheDesk ==
  ClientSpec => /\ []SoldOncePerReset
                /\ []SenderHoldsTheKey
                /\ []RedeemedHasReceipt
                /\ []SuccessStandsOnConsumedKey
                /\ ReceiptStays
                /\ BanHolds
                /\ ImplementsKeyLedger
<1>1. ClientSpec => Spec
  BY ClientImplementsDesk DEF ImplementsDesk
<1> QED
  BY <1>1, SoldOnce, SenderHolds, RedeemedIsReceipted, DeskSuccessStands, ReceiptIsKept,
     BansHold, DeskKeepsTheDb, PTL

-----------------------------------------------------------------------------
(* A redemption from end to end *)

(* Whoever is told "redeemed" has the three things the code checks off for *)
(* it: a reply to the own command that parsed as accepted, a row that      *)
(* records it, and a key that, unless it was deleted since, is off sale    *)
(* and has an end.                                                         *)
RedeemedIsWhole ==
    \A r \in Redeems :
        redeem[r].code = "success"
        => /\ heard[r] \in OwnSuccess(r)
           /\ activations[r].result = "success"
           /\ activations[r].license # NoKey
              => /\ licenses[activations[r].license].activatedAt # NoTime
                 /\ licenses[activations[r].license].expiredAt # NoTime

(* The chain of redeem.service.ts and gramjs-telegram.service.ts joins up: *)
(* no connect, shutdown, crash, lost answer of a commit or second customer *)
(* leaves a "redeemed" one of whose three parts is missing.                *)
THEOREM RedemptionsAreWhole ==
  ASSUME LateReplies = FALSE PROVE ClientSpec => []RedeemedIsWhole
<1>1. RedeemedOnOwnReply /\ RedeemedHasReceipt /\ SuccessStandsOnConsumedKey => RedeemedIsWhole
  BY RedeemsAssumption
     DEF RedeemedOnOwnReply, RedeemedHasReceipt, SuccessStandsOnConsumedKey, RedeemedIsWhole
<1>2. ClientSpec => []RedeemedHasReceipt /\ []SuccessStandsOnConsumedKey
  BY ClientKeepsTheDesk, PTL
<1> QED
  BY <1>1, <1>2, RedeemedWasHeard, PTL

-----------------------------------------------------------------------------
(* The chain of sends runs out *)

Queue == {q \in Redeems : InChain(call[q])}

(* Those a call still waits for.                                           *)
Waits(r) == ahead[r] \cap Queue

(* Nobody waits for itself, and who waits for a call waits for all that    *)
(* are before that one: the promises of serialisedSend are in one row.     *)
ChainIsNested ==
    \A r \in Queue : r \notin Waits(r) /\ \A q \in Waits(r) : Waits(q) \subseteq Waits(r)

(* While calls are chained one of them is at work: it listens until its    *)
(* timer, or nobody is before it and its send is next.  No wait for each   *)
(* other leaves the chain to stand still.                                  *)
SomebodyIsServed ==
    Queue # {} => \E r \in Queue : call[r] \in {"listening", "deaf"} \/ Turn(r)

Left(state) == IF state = "queued" THEN 2 ELSE IF InChain(state) THEN 1 ELSE 0

(* Nobody gets before a call that is in the chain, and every send brings   *)
(* its own call nearer to its end.                                         *)
QueueRunsOut ==
    [][\A r \in Queue :
          /\ r \in Queue' => Waits(r)' \subseteq Waits(r)
          /\ Left(call'[r]) <= Left(call[r])
          /\ SendNext(r) => Left(call'[r]) < Left(call[r])]_allVars

QueueInv == ClientInv /\ IsFiniteSet(Queue) /\ ChainIsNested

(* A call in the chain stays as it is, begins, goes deaf or leaves.        *)
LEMMA CallMoves ==
  ASSUME ClientInv, [ClientNext]_allVars, NEW r \in Redeems
  PROVE  /\ r \in Queue => \/ call'[r] \in {call[r], "none"}
                           \/ call[r] = "queued" /\ call'[r] = "listening"
                           \/ call[r] = "listening" /\ call'[r] = "deaf"
         /\ r \notin Queue /\ r \in Queue' => Enqueue(r)
<1> USE DEF ClientInv, ClientTypeOK, Queue, InChain
<1>1. CASE call'[r] = call[r]
  BY <1>1
<1>2. ASSUME NEW q \in Redeems, StartCall(q) \/ Connect \/ ClientCrash
      PROVE  \/ call'[r] = call[r]
             \/ ~InChain(call'[r]) /\ (InChain(call[r]) => call'[r] = "none")
  BY <1>2 DEF StartCall, Connect, Connected, ConnectFails, Connecting, ClientCrash
<1>3. ASSUME NEW q \in Redeems, Enqueue(q)
      PROVE  call'[r] = call[r] \/ (r = q /\ call[r] = "pacing")
  BY <1>3 DEF Enqueue
<1>4. ASSUME NEW q \in Redeems, Listen(q)
      PROVE  call'[r] = call[r] \/ (call[r] = "queued" /\ call'[r] = "listening")
  BY <1>4 DEF Listen, Turn
<1>5. ASSUME NEW q \in Redeems, Unconnected(q) \/ GiveUp(q)
      PROVE  call'[r] \in {call[r], "none"}
  BY <1>5 DEF Unconnected, GiveUp, CallFails
<1>6. ASSUME NEW q \in Redeems, NEW v \in Says, BotAnswers(q, v)
      PROVE  call'[r] \in {call[r], "none"}
  BY <1>6 DEF BotAnswers
<1>7. CASE Shutdown
  BY <1>7 DEF Shutdown, Listening
<1>8. CASE (\E q \in Redeems : Request(q) \/ AroundSend(q)) \/ Elsewhere \/ UNCHANGED allVars
  <2>1. call' = call
    BY <1>8, OutsideStep DEF clientVars
  <2> QED
    BY <1>1, <2>1
<1> QED
  BY <1>1, <1>2, <1>3, <1>4, <1>5, <1>6, <1>7, <1>8 DEF ClientNext, SendNext

(* The chain loses calls, or one joins it behind all the others.           *)
LEMMA QueueMoves ==
  ASSUME ClientInv, [ClientNext]_allVars
  PROVE  \/ Queue' \subseteq Queue /\ \A r \in Queue' : ahead'[r] = ahead[r]
         \/ \E r \in Redeems \ Queue :
               /\ Queue' = Queue \cup {r}
               /\ ahead'[r] = Queue
               /\ \A q \in Queue : ahead'[q] = ahead[q] /\ r \notin ahead[q]
<1> USE DEF ClientInv, ClientTypeOK
<1>1. ASSUME NEW r \in Redeems, Enqueue(r)
      PROVE  /\ r \notin Queue
             /\ Queue' = Queue \cup {r}
             /\ ahead'[r] = Queue
             /\ \A q \in Queue : ahead'[q] = ahead[q] /\ r \notin ahead[q]
  <2>1. /\ call[r] = "pacing" /\ call'[r] = "queued" /\ ahead'[r] = Queue
        /\ \A q \in Redeems \ {r} : call'[q] = call[q] /\ ahead'[q] = ahead[q]
    BY <1>1 DEF Enqueue, Queue
  <2>2. r \notin Queue /\ Queue' = Queue \cup {r}
    BY <2>1 DEF Queue, InChain
  <2>3. \A q \in Redeems : r \notin ahead[q]
    <3>1. At(r, "send")
      BY <2>1 DEF CallsAtSend
    <3> QED
      BY <2>1, <3>1 DEF AheadIsPast, InChain, At
  <2> QED
    BY <2>1, <2>2, <2>3 DEF Queue
<1>2. CASE ~\E r \in Redeems : Enqueue(r)
  <2>1. Queue' \subseteq Queue
    BY <1>2, CallMoves DEF Queue
  <2>2. ahead' = ahead \/ ClientCrash
    <3>1. CASE (\E q \in Redeems : Request(q) \/ AroundSend(q)) \/ Elsewhere \/ UNCHANGED allVars
      BY <3>1, OutsideStep DEF clientVars
    <3> QED
      BY <1>2, <3>1
         DEF ClientNext, SendNext, StartCall, Listen, Unconnected, GiveUp, BotAnswers, Connect,
             Connected, ConnectFails, Shutdown
  <2>3. ClientCrash => Queue' = {}
    BY DEF ClientCrash, Queue, InChain
  <2> QED
    BY <2>1, <2>2, <2>3
<1> QED
  BY <1>1, <1>2

LEMMA QueueInvStep == QueueInv /\ [ClientNext]_allVars => QueueInv'
<1> SUFFICES ASSUME QueueInv, [ClientNext]_allVars PROVE QueueInv'
  OBVIOUS
<1>1. ClientInv /\ ClientInv'
  BY ClientInvStep DEF QueueInv
<1>2. CASE Queue' \subseteq Queue /\ \A r \in Queue' : ahead'[r] = ahead[r]
  <2>1. IsFiniteSet(Queue')
    BY <1>2, FS_Subset DEF QueueInv
  <2>2. \A r \in Queue' : Waits(r)' = ahead[r] \cap Queue'
    BY <1>2 DEF Waits
  <2>3. ChainIsNested'
    BY <1>2, <2>2 DEF QueueInv, ChainIsNested, Waits
  <2> QED
    BY <1>1, <2>1, <2>3 DEF QueueInv
<1>3. ASSUME NEW r \in Redeems \ Queue, Queue' = Queue \cup {r}, ahead'[r] = Queue,
             \A q \in Queue : ahead'[q] = ahead[q] /\ r \notin ahead[q]
      PROVE  QueueInv'
  <2>1. IsFiniteSet(Queue')
    BY <1>3, FS_AddElement DEF QueueInv
  <2>2. Waits(r)' = Queue /\ \A q \in Queue : Waits(q)' = Waits(q)
    BY <1>3 DEF Waits
  <2>3. \A q \in Queue : Waits(q) \subseteq Queue
    BY DEF Waits
  <2>4. ChainIsNested'
    BY <1>3, <2>2, <2>3 DEF QueueInv, ChainIsNested
  <2> QED
    BY <1>1, <2>1, <2>4 DEF QueueInv
<1> QED
  BY <1>1, <1>2, <1>3, QueueMoves

LEMMA QueueInvHolds == ClientSpec => []QueueInv
<1>1. ClientInit => QueueInv
  <2> SUFFICES ASSUME ClientInit PROVE QueueInv
    OBVIOUS
  <2>1. Queue = {}
    BY DEF ClientInit, Queue, InChain
  <2> QED
    BY <2>1, ClientInitHolds, FS_EmptySet DEF QueueInv, ChainIsNested
<1> QED
  BY <1>1, QueueInvStep, PTL DEF ClientSpec

(* Of a set of numbers one is least: the induction the next proof needs.   *)
Below == {pair \in Nat \X Nat : pair[1] < pair[2]}

LEMMA Least ==
  ASSUME NEW S \in SUBSET Nat, S # {}
  PROVE  \E n \in S : \A m \in S : ~(m < n)
<1>1. IsWellFoundedOn(Below, Nat)
  BY NatLessThanWellFounded DEF OpToRel, Below
<1>2. \E n \in S : \A m \in S : <<m, n>> \notin Below
  BY <1>1, WFMin
<1> QED
  BY <1>2 DEF Below

(* The call that waits for the fewest waits for none.                      *)
LEMMA FirstIsServed ==
  ASSUME QueueInv, Queue # {}
  PROVE  \E r \in Queue : Waits(r) = {}
<1> DEFINE S == {Cardinality(Waits(r)) : r \in Queue}
<1>1. \A r \in Queue : IsFiniteSet(Waits(r)) /\ Cardinality(Waits(r)) \in Nat
  BY FS_Subset, FS_CardinalityType DEF QueueInv, Waits
<1>2. S \in SUBSET Nat /\ S # {}
  BY <1>1
<1>3. PICK n \in S : \A m \in S : ~(m < n)
  <2> HIDE DEF S
  <2> QED
    BY <1>2, Least
<1>4. PICK r \in Queue : n = Cardinality(Waits(r))
  OBVIOUS
<1>5. ASSUME NEW q \in Waits(r) PROVE FALSE
  <2>1. q \in Queue /\ Waits(q) \subseteq Waits(r) /\ q \notin Waits(q)
    BY <1>4 DEF QueueInv, ChainIsNested, Waits
  <2>2. Cardinality(Waits(q)) < Cardinality(Waits(r))
    BY <1>1, <1>4, <1>5, <2>1, FS_Subset
  <2> QED
    BY <1>3, <1>4, <2>1, <2>2
<1> QED
  BY <1>4, <1>5

(* However many calls are chained in gramjs-telegram.service.ts and        *)
(* whatever ended those before them, one is served: the chain has no       *)
(* circle of waits and no call in it waits for one that has left.          *)
THEOREM ChainIsServed == ClientSpec => []SomebodyIsServed
<1>1. ASSUME QueueInv, Queue # {}
      PROVE  \E r \in Queue : call[r] \in {"listening", "deaf"} \/ Turn(r)
  <2>1. PICK r \in Queue : Waits(r) = {}
    BY <1>1, FirstIsServed
  <2>2. InChain(call[r]) /\ \A q \in ahead[r] : ~InChain(call[q])
    BY <1>1, <2>1 DEF Queue, Waits, QueueInv, ClientInv, ClientTypeOK
  <2> QED
    BY <2>2 DEF InChain, Turn
<1>2. QueueInv => SomebodyIsServed
  BY <1>1 DEF SomebodyIsServed
<1> QED
  BY <1>2, QueueInvHolds, PTL

(* And it runs out: those who come later stay behind, so a call waits for  *)
(* fewer and fewer, each of which has at most two steps to go.             *)
THEOREM QueueEndsAtLast == ClientSpec => QueueRunsOut
<1>1. ASSUME QueueInv, [ClientNext]_allVars, NEW r \in Queue
      PROVE  /\ r \in Queue' => Waits(r)' \subseteq Waits(r)
             /\ Left(call'[r]) <= Left(call[r])
             /\ SendNext(r) => Left(call'[r]) < Left(call[r])
  <2> USE DEF QueueInv, ClientInv, ClientTypeOK
  <2>1. r \in Redeems /\ InChain(call[r])
    BY DEF Queue
  <2>2. r \in Queue' => Waits(r)' \subseteq Waits(r)
    BY <1>1, QueueMoves DEF Waits
  <2>3. \/ call'[r] \in {call[r], "none"}
        \/ call[r] = "queued" /\ call'[r] = "listening"
        \/ call[r] = "listening" /\ call'[r] = "deaf"
    BY <1>1, <2>1, CallMoves
  <2>4. Left(call'[r]) <= Left(call[r])
    BY <2>1, <2>3 DEF Left, InChain
  <2>5. ASSUME SendNext(r) PROVE Left(call'[r]) < Left(call[r])
    <3>1. ~StartCall(r) /\ ~Enqueue(r)
      BY <2>1 DEF StartCall, Enqueue, InChain
    <3>2. CASE Listen(r)
      <4>1. call[r] = "queued" /\ call'[r] = "listening"
        BY <1>1, <2>1, <3>2 DEF Listen, Turn
      <4> QED
        BY <4>1 DEF Left, InChain
    <3>3. CASE Unconnected(r) \/ GiveUp(r)
      <4>1. call'[r] = "none"
        BY <1>1, <2>1, <3>3 DEF Unconnected, GiveUp, CallFails
      <4> QED
        BY <2>1, <4>1 DEF Left, InChain
    <3> QED
      BY <2>5, <3>1, <3>2, <3>3 DEF SendNext
  <2> QED
    BY <2>2, <2>4, <2>5
<1>2. QueueInv /\ [ClientNext]_allVars
      => [\A r \in Queue : /\ r \in Queue' => Waits(r)' \subseteq Waits(r)
                           /\ Left(call'[r]) <= Left(call[r])
                           /\ SendNext(r) => Left(call'[r]) < Left(call[r])]_allVars
  BY <1>1
<1> QED
  BY <1>2, QueueInvHolds, PTL DEF ClientSpec, QueueRunsOut
=============================================================================
