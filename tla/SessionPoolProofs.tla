-------------------------- MODULE SessionPoolProofs --------------------------
(***************************************************************************)
(* Proofs about SessionPool, for any number of sessions, calls and faults: *)
(* the chains hold the open calls and nothing else, commands of a chat     *)
(* take turns, with an orderly bot a reply settles its own call, and the   *)
(* place of a call bounds the steps until it ends.                         *)
(***************************************************************************)
EXTENDS SessionPool, SequenceTheorems, TLAPS

-----------------------------------------------------------------------------
(* Chains *)

(* The next call's turn.                                                   *)
LEMMA DropFirst ==
  ASSUME NEW S, NEW q \in Seq(S), q # <<>>, IsInjective(q)
  PROVE  /\ Tail(q) \in Seq(S) /\ IsInjective(Tail(q))
         /\ Head(q) \in Range(q) /\ Head(q) \in S
         /\ Range(Tail(q)) = Range(q) \ {Head(q)}
<1>1. /\ Head(q) \in S /\ Tail(q) \in Seq(S) /\ Len(Tail(q)) = Len(q) - 1
      /\ \A i \in 1 .. Len(Tail(q)) : Tail(q)[i] = q[i + 1]
  BY HeadTailProperties
<1>2. Len(q) \in Nat /\ Len(q) >= 1 /\ DOMAIN q = 1 .. Len(q) /\ DOMAIN Tail(q) = 1 .. Len(q) - 1
      /\ Head(q) = q[1]
  BY <1>1, EmptySeq, LenProperties
<1>3. IsInjective(Tail(q))
  BY <1>1, <1>2 DEF IsInjective
<1>4. Head(q) \in Range(q)
  BY <1>2 DEF Range
<1>5. ASSUME NEW x \in Range(Tail(q)) PROVE x \in Range(q) /\ x # Head(q)
  <2>1. PICK i \in 1 .. Len(q) - 1 : x = Tail(q)[i]
    BY <1>2 DEF Range
  <2>2. x = q[i + 1] /\ i + 1 \in DOMAIN q /\ i + 1 # 1 /\ 1 \in DOMAIN q
    BY <1>1, <1>2, <2>1
  <2> QED
    BY <1>2, <2>2 DEF Range, IsInjective
<1>6. ASSUME NEW x \in Range(q), x # Head(q) PROVE x \in Range(Tail(q))
  <2>1. PICK i \in 1 .. Len(q) : x = q[i]
    BY <1>2 DEF Range
  <2>2. i - 1 \in 1 .. Len(q) - 1 /\ x = Tail(q)[i - 1]
    BY <1>1, <1>2, <1>6, <2>1
  <2> QED
    BY <1>2, <2>2 DEF Range
<1> QED
  BY <1>1, <1>3, <1>4, <1>5, <1>6

(* A call joins a chain.                                                   *)
LEMMA AddLast ==
  ASSUME NEW S, NEW q \in Seq(S), NEW e \in S, e \notin Range(q), IsInjective(q)
  PROVE  /\ Append(q, e) \in Seq(S) /\ IsInjective(Append(q, e)) /\ Append(q, e) # <<>>
         /\ Range(Append(q, e)) = Range(q) \cup {e}
         /\ Head(Append(q, e)) = IF q = <<>> THEN e ELSE Head(q)
<1>1. /\ Append(q, e) \in Seq(S) /\ Append(q, e) # <<>> /\ Len(Append(q, e)) = Len(q) + 1
      /\ \A i \in 1 .. Len(q) : Append(q, e)[i] = q[i]
      /\ Append(q, e)[Len(q) + 1] = e
      /\ Head(Append(q, e)) = IF q = <<>> THEN e ELSE Head(q)
  BY AppendProperties, HeadTailAppend
<1>2. Len(q) \in Nat /\ DOMAIN q = 1 .. Len(q) /\ DOMAIN Append(q, e) = 1 .. Len(q) + 1
  BY <1>1, LenProperties
<1>3. \A i \in DOMAIN q : q[i] # e
  BY DEF Range
<1>4. IsInjective(Append(q, e))
  BY <1>1, <1>2, <1>3 DEF IsInjective
<1>5. ASSUME NEW x \in Range(Append(q, e)) PROVE x \in Range(q) \cup {e}
  <2>1. PICK i \in 1 .. Len(q) + 1 : x = Append(q, e)[i]
    BY <1>2 DEF Range
  <2>2. CASE i = Len(q) + 1
    BY <1>1, <2>1, <2>2
  <2>3. CASE i \in 1 .. Len(q)
    BY <1>1, <1>2, <2>1, <2>3 DEF Range
  <2> QED
    BY <1>2, <2>2, <2>3
<1>6. ASSUME NEW x \in Range(q) \cup {e} PROVE x \in Range(Append(q, e))
  <2>1. CASE x = e
    BY <1>1, <1>2, <2>1 DEF Range
  <2>2. CASE x \in Range(q)
    <3>1. PICK i \in 1 .. Len(q) : x = q[i]
      BY <1>2, <2>2 DEF Range
    <3> QED
      BY <1>1, <1>2, <3>1 DEF Range
  <2> QED
    BY <1>6, <2>1, <2>2
<1> QED
  BY <1>1, <1>4, <1>5, <1>6

LEMMA SomebodyInFront ==
  ASSUME NEW S, NEW q \in Seq(S)
  PROVE  /\ \A x \in Range(q) : q # <<>> /\ x \in S
         /\ q # <<>> => Head(q) \in Range(q) /\ Head(q) \in S
<1>1. /\ Len(q) \in Nat /\ DOMAIN q = 1 .. Len(q) /\ (q = <<>> <=> Len(q) = 0)
      /\ \A i \in 1 .. Len(q) : q[i] \in S
  BY LenProperties, EmptySeq, ElementOfSeq
<1>2. ASSUME NEW x \in Range(q) PROVE q # <<>> /\ x \in S
  BY <1>1 DEF Range
<1>3. ASSUME q # <<>> PROVE Head(q) \in Range(q) /\ Head(q) \in S
  <2>1. 1 \in DOMAIN q /\ Head(q) = q[1]
    BY <1>1, <1>3
  <2> QED
    BY <1>1, <2>1 DEF Range
<1> QED
  BY <1>2, <1>3

-----------------------------------------------------------------------------
(* Types *)

LEMMA NoMessageIsNone == NoMessage \notin Message
  BY DEF NoMessage, Message

LEMMA InitTyped == Init => TypeOK
<1> SUFFICES ASSUME Init PROVE TypeOK
  OBVIOUS
<1>1. call \in [Calls -> [state : CallState, session : Sessions \cup {NoSession}, code : Codes,
                          got : Message \cup {NoMessage}]]
  BY DEF Init, CallState
<1>2. \A c \in Calls : call[c].got = NoMessage /\ call[c].state = "idle"
  BY DEF Init
<1>3. chain \in [Sessions -> Seq(Calls)] /\ chat \in [Sessions -> Seq(Message)]
  BY DEF Init
<1> QED
  BY <1>1, <1>2, <1>3, MaxFaultsAssumption DEF Init, TypeOK

(* The end of a call, with the reply or without one.                       *)
LEMMA SettleTyped ==
  ASSUME TypeOK, NEW s \in Sessions, NEW state, NEW message, chain[s] # <<>>,
         \/ state = "replied" /\ message \in Message
         \/ state = "threw" /\ message = NoMessage,
         Settle(s, state, message)
  PROVE  /\ chain' \in [Sessions -> Seq(Calls)]
         /\ call' \in [Calls -> [state : CallState, session : Sessions \cup {NoSession},
                                 code : Codes, got : Message \cup {NoMessage}]]
         /\ \A c \in Calls : call'[c].got = NoMessage <=> call'[c].state # "replied"
<1>1. chain[s] \in Seq(Calls) /\ Head(chain[s]) \in Calls /\ Tail(chain[s]) \in Seq(Calls)
  BY HeadTailProperties DEF TypeOK
<1>2. state \in CallState /\ message \in Message \cup {NoMessage}
      /\ (message = NoMessage <=> state # "replied")
  BY NoMessageIsNone DEF CallState
<1> DEFINE h == Head(chain[s])
<1>3. call' = [call EXCEPT ![h] = [@ EXCEPT !.state = state, !.got = message]]
  BY <1>1 DEF TypeOK, Settle
<1>4. chain' \in [Sessions -> Seq(Calls)]
  BY <1>1 DEF TypeOK, Settle
<1> QED
  BY <1>1, <1>2, <1>3, <1>4 DEF TypeOK

(* A message is added to a chat.                                           *)
LEMMA PostTyped ==
  ASSUME TypeOK, NEW s \in Sessions, NEW c \in Calls, NEW named \in BOOLEAN,
         NEW kind \in {"command", "placeholder", "final", "notice"}, Post(s, c, kind, named)
  PROVE  /\ chat' \in [Sessions -> Seq(Message)]
         /\ \A t \in Sessions : t # s => chat'[t] = chat[t]
         /\ DOMAIN chat[s] = 1 .. Len(chat[s]) /\ Len(chat[s]) \in Nat
         /\ DOMAIN chat'[s] = 1 .. Len(chat[s]) + 1
         /\ \A i \in 1 .. Len(chat[s]) : chat'[s][i] = chat[s][i]
         /\ chat'[s][Len(chat[s]) + 1] = [about |-> c, kind |-> kind, named |-> named]
<1> DEFINE m == [about |-> c, kind |-> kind, named |-> named]
<1>1. m \in Message
  BY DEF Message
<1>2. chat[s] \in Seq(Message) /\ chat' = [chat EXCEPT ![s] = Append(@, m)]
  BY DEF TypeOK, Post
<1> HIDE DEF m
<1>3. /\ Append(chat[s], m) \in Seq(Message) /\ Len(Append(chat[s], m)) = Len(chat[s]) + 1
      /\ \A i \in 1 .. Len(chat[s]) : Append(chat[s], m)[i] = chat[s][i]
      /\ Append(chat[s], m)[Len(chat[s]) + 1] = m
  BY <1>1, <1>2, AppendProperties
<1>4. /\ Len(chat[s]) \in Nat /\ DOMAIN chat[s] = 1 .. Len(chat[s])
      /\ DOMAIN Append(chat[s], m) = 1 .. Len(chat[s]) + 1
  BY <1>2, <1>3, LenProperties
<1>5. chat'[s] = Append(chat[s], m) /\ \A t \in Sessions : t # s => chat'[t] = chat[t]
  BY <1>2 DEF TypeOK
<1>6. chat' \in [Sessions -> Seq(Message)]
  BY <1>2, <1>3 DEF TypeOK
<1>7. chat'[s][Len(chat[s]) + 1] = m
  BY <1>3, <1>5
<1> QED
  BY <1>3, <1>4, <1>5, <1>6, <1>7 DEF m

(* The first call of a chain goes on.                                      *)
LEMMA AdvanceTyped ==
  ASSUME TypeOK, NEW c \in Calls, call[c].state # "replied",
         NEW state \in CallState \ {"replied"}, call' = [call EXCEPT ![c].state = state]
  PROVE  /\ call' \in [Calls -> [state : CallState, session : Sessions \cup {NoSession},
                                 code : Codes, got : Message \cup {NoMessage}]]
         /\ \A d \in Calls : call'[d].got = NoMessage <=> call'[d].state # "replied"
  BY DEF TypeOK

(* Where a message of a chat comes from, and that none is taken back.      *)
LEMMA Posted ==
  ASSUME TypeOK, NEW s \in Sessions, NEW m \in Message,
         chat' = [chat EXCEPT ![s] = Append(@, m)], NEW t \in Sessions
  PROVE  /\ \A i \in DOMAIN chat[t] : i \in DOMAIN chat'[t] /\ chat'[t][i] = chat[t][i]
         /\ \A i \in DOMAIN chat'[t] :
               \/ i \in DOMAIN chat[t] /\ chat'[t][i] = chat[t][i]
               \/ t = s /\ chat'[t][i] = m /\ \A j \in DOMAIN chat'[t] : j <= i
<1>1. chat[s] \in Seq(Message) /\ chat'[s] = Append(chat[s], m)
      /\ \A u \in Sessions : u # s => chat'[u] = chat[u]
  BY DEF TypeOK
<1>2. /\ Append(chat[s], m) \in Seq(Message) /\ Len(Append(chat[s], m)) = Len(chat[s]) + 1
      /\ \A i \in 1 .. Len(chat[s]) : Append(chat[s], m)[i] = chat[s][i]
      /\ Append(chat[s], m)[Len(chat[s]) + 1] = m
  BY <1>1, AppendProperties
<1>3. /\ Len(chat[s]) \in Nat /\ DOMAIN chat[s] = 1 .. Len(chat[s])
      /\ DOMAIN chat'[s] = 1 .. Len(chat[s]) + 1
  BY <1>1, <1>2, LenProperties
<1>4. CASE t # s
  BY <1>1, <1>4
<1>5. CASE t = s
  BY <1>1, <1>2, <1>3, <1>5
<1> QED
  BY <1>4, <1>5

LEMMA PostedLast ==
  ASSUME TypeOK, NEW s \in Sessions, NEW m \in Message,
         chat' = [chat EXCEPT ![s] = Append(@, m)]
  PROVE  \E i \in DOMAIN chat'[s] :
            chat'[s][i] = m /\ \A j \in DOMAIN chat'[s] : i <= j => j = i
<1>1. chat[s] \in Seq(Message) /\ chat'[s] = Append(chat[s], m)
  BY DEF TypeOK
<1>2. /\ Append(chat[s], m) \in Seq(Message) /\ Len(Append(chat[s], m)) = Len(chat[s]) + 1
      /\ Append(chat[s], m)[Len(chat[s]) + 1] = m
  BY <1>1, AppendProperties
<1>3. Len(chat[s]) \in Nat /\ DOMAIN chat'[s] = 1 .. Len(chat[s]) + 1
  BY <1>1, <1>2, LenProperties
<1> DEFINE i == Len(chat[s]) + 1
<1>4. i \in DOMAIN chat'[s] /\ \A j \in DOMAIN chat'[s] : i <= j => j = i
  BY <1>3
<1> QED
  BY <1>1, <1>2, <1>4

LEMMA RunningFirst ==
  ASSUME TypeOK, NEW s \in Sessions, NEW state, Running(s, state)
  PROVE  /\ chain[s] # <<>> /\ chain[s] \in Seq(Calls)
         /\ Head(chain[s]) \in Calls /\ Head(chain[s]) \in Range(chain[s])
         /\ call[Head(chain[s])].state = state
  BY SomebodyInFront DEF TypeOK, Running

LEMMA StepTyped == TypeOK /\ [Next]_vars => TypeOK'
<1> SUFFICES ASSUME TypeOK, [Next]_vars PROVE TypeOK'
  OBVIOUS
<1>1. CASE UNCHANGED vars
  BY <1>1 DEF vars, TypeOK
<1>2. ASSUME NEW c \in Calls, Pick(c) PROVE TypeOK'
  <2>1. call[c].state # "replied" /\ call[c].got = NoMessage
    BY <1>2 DEF Pick, TypeOK
  <2>2. CASE healthy = {}
    BY <1>2, <2>1, <2>2, AdvanceTyped DEF Pick, TypeOK, CallState
  <2>3. ASSUME NEW t \in Candidates,
               call' = [call EXCEPT ![c].state = "queued", ![c].session = t],
               chain' = [chain EXCEPT ![t] = Append(@, c)]
        PROVE  TypeOK'
    <3>1. t \in Sessions
      BY DEF Candidates, TypeOK
    <3>2. Append(chain[t], c) \in Seq(Calls)
      BY <3>1, AppendProperties DEF TypeOK
    <3>3. /\ chain' \in [Sessions -> Seq(Calls)]
          /\ call' = [call EXCEPT ![c] = [@ EXCEPT !.state = "queued", !.session = t]]
      BY <2>3, <3>1, <3>2 DEF TypeOK
    <3>4. /\ call' \in [Calls -> [state : CallState, session : Sessions \cup {NoSession},
                                  code : Codes, got : Message \cup {NoMessage}]]
          /\ \A d \in Calls : call'[d].got = NoMessage <=> call'[d].state # "replied"
      <4>1. [call[c] EXCEPT !.state = "queued", !.session = t]
            \in [state : CallState, session : Sessions \cup {NoSession}, code : Codes,
                 got : Message \cup {NoMessage}]
        BY <3>1 DEF TypeOK, CallState
      <4>2. /\ [call[c] EXCEPT !.state = "queued", !.session = t].got = NoMessage
            /\ [call[c] EXCEPT !.state = "queued", !.session = t].state # "replied"
        BY <2>1 DEF TypeOK
      <4> QED
        BY <3>3, <4>1, <4>2 DEF TypeOK
    <3> QED
      BY <1>2, <3>3, <3>4 DEF Pick, TypeOK
  <2> QED
    BY <1>2, <2>2, <2>3 DEF Pick
<1>3. ASSUME NEW c \in Calls, Announce(c) PROVE TypeOK'
  <2>1. call[c].session \in Sessions
    BY <1>3, NoSessionAssumption DEF Announce, TypeOK
  <2> QED
    BY <1>3, <2>1, PostTyped DEF Announce, TypeOK
<1>4. ASSUME NEW s \in Sessions, Send(s) PROVE TypeOK'
  <2> DEFINE c == Head(chain[s])
  <2>1. c \in Calls /\ call[c].state = "queued"
    BY <1>4, RunningFirst DEF Send
  <2>2. /\ call' = [call EXCEPT ![c].state = "waiting"]
        /\ Post(s, c, "command", TRUE)
        /\ owed' = [owed EXCEPT ![s] = @ \cup {c}]
    BY <1>4 DEF Send
  <2> HIDE DEF c
  <2>3. /\ call' \in [Calls -> [state : CallState, session : Sessions \cup {NoSession},
                                code : Codes, got : Message \cup {NoMessage}]]
        /\ \A d \in Calls : call'[d].got = NoMessage <=> call'[d].state # "replied"
    BY <2>1, <2>2, AdvanceTyped DEF CallState
  <2>4. chat' \in [Sessions -> Seq(Message)] /\ owed' \in [Sessions -> SUBSET Calls]
    BY <2>1, <2>2, PostTyped DEF TypeOK
  <2> QED
    BY <1>4, <2>3, <2>4 DEF Send, TypeOK
<1>5. ASSUME NEW s \in Sessions, SendFails(s) PROVE TypeOK'
  <2>1. chain[s] # <<>> /\ Settle(s, "threw", NoMessage)
    BY <1>5, RunningFirst DEF SendFails
  <2>2. /\ chain' \in [Sessions -> Seq(Calls)]
        /\ call' \in [Calls -> [state : CallState, session : Sessions \cup {NoSession},
                                code : Codes, got : Message \cup {NoMessage}]]
        /\ \A c \in Calls : call'[c].got = NoMessage <=> call'[c].state # "replied"
    BY <2>1, SettleTyped
  <2> QED
    BY <1>5, <2>2 DEF SendFails, TypeOK
<1>6. ASSUME NEW s \in Sessions, Timeout(s) \/ EndDrain(s) PROVE TypeOK'
  <2> DEFINE c == Head(chain[s])
  <2>1. /\ c \in Calls /\ call[c].state # "replied"
        /\ \E state \in {"draining", "searching"} : call' = [call EXCEPT ![c].state = state]
    BY <1>6, RunningFirst DEF Timeout, EndDrain
  <2> HIDE DEF c
  <2>2. /\ call' \in [Calls -> [state : CallState, session : Sessions \cup {NoSession},
                                code : Codes, got : Message \cup {NoMessage}]]
        /\ \A d \in Calls : call'[d].got = NoMessage <=> call'[d].state # "replied"
    BY <2>1, AdvanceTyped DEF CallState
  <2> QED
    BY <1>6, <2>2 DEF Timeout, EndDrain, TypeOK
<1>7. ASSUME NEW s \in Sessions, Search(s) PROVE TypeOK'
  <2>1. ASSUME NEW i \in DOMAIN chat[s] PROVE chat[s][i] \in Message
    BY ElementOfSeq, LenProperties DEF TypeOK
  <2>2. chain[s] # <<>>
    BY <1>7, RunningFirst DEF Search
  <2>3. \/ \E i \in DOMAIN chat[s] : Settle(s, "replied", chat[s][i])
        \/ Settle(s, "threw", NoMessage)
    BY <1>7 DEF Search
  <2>4. /\ chain' \in [Sessions -> Seq(Calls)]
        /\ call' \in [Calls -> [state : CallState, session : Sessions \cup {NoSession},
                                code : Codes, got : Message \cup {NoMessage}]]
        /\ \A c \in Calls : call'[c].got = NoMessage <=> call'[c].state # "replied"
    BY <2>1, <2>2, <2>3, SettleTyped
  <2> QED
    BY <1>7, <2>4 DEF Search, TypeOK
<1>8. ASSUME NEW s \in Sessions, NEW c \in Calls, BotAcknowledges(s, c) PROVE TypeOK'
  <2>1. chat' \in [Sessions -> Seq(Message)]
    BY <1>8, PostTyped DEF BotAcknowledges
  <2>2. [about |-> c, kind |-> "placeholder", named |-> TRUE] \in Message
    BY DEF Message
  <2>3. CASE UNCHANGED <<call, chain>>
    BY <1>8, <2>1, <2>3 DEF BotAcknowledges, TypeOK
  <2>4. CASE Running(s, "waiting")
             /\ Settle(s, "replied", [about |-> c, kind |-> "placeholder", named |-> TRUE])
    <3>1. /\ chain' \in [Sessions -> Seq(Calls)]
          /\ call' \in [Calls -> [state : CallState, session : Sessions \cup {NoSession},
                                  code : Codes, got : Message \cup {NoMessage}]]
          /\ \A d \in Calls : call'[d].got = NoMessage <=> call'[d].state # "replied"
      BY <2>2, <2>4, RunningFirst, SettleTyped
    <3> QED
      BY <1>8, <2>1, <3>1 DEF BotAcknowledges, TypeOK
  <2> QED
    BY <1>8, <2>3, <2>4 DEF BotAcknowledges, Hear
<1>9. ASSUME NEW s \in Sessions, NEW c \in Calls, BotAnswers(s, c) PROVE TypeOK'
  <2>1. PICK named \in BOOLEAN :
           /\ Post(s, c, "final", named)
           /\ Hear(s, [about |-> c, kind |-> "final", named |-> named])
    BY <1>9 DEF BotAnswers
  <2>2. [about |-> c, kind |-> "final", named |-> named] \in Message
    BY DEF Message
  <2>3. chat' \in [Sessions -> Seq(Message)]
    BY <2>1, PostTyped
  <2>4. owed' \in [Sessions -> SUBSET Calls] /\ faults' \in 0 .. MaxFaults
    <3>1. faults + 1 \in 0 .. MaxFaults \/ ~(faults < MaxFaults)
      BY MaxFaultsAssumption DEF TypeOK
    <3> QED
      BY <1>9, <3>1 DEF BotAnswers, TypeOK
  <2>5. CASE ~Running(s, "waiting")
    BY <1>9, <2>1, <2>3, <2>5, <2>4 DEF BotAnswers, Hear, TypeOK
  <2>6. CASE Running(s, "waiting")
    <3>1. /\ chain' \in [Sessions -> Seq(Calls)]
          /\ call' \in [Calls -> [state : CallState, session : Sessions \cup {NoSession},
                                  code : Codes, got : Message \cup {NoMessage}]]
          /\ \A d \in Calls : call'[d].got = NoMessage <=> call'[d].state # "replied"
      BY <2>1, <2>2, <2>6, RunningFirst, SettleTyped DEF Hear
    <3> QED
      BY <1>9, <2>3, <2>4, <3>1 DEF BotAnswers, TypeOK
  <2> QED
    BY <2>5, <2>6
<1>10. ASSUME NEW s \in Sessions, Fail(s) \/ Recover(s) \/ HealthCheck(s) PROVE TypeOK'
  BY <1>10, MaxFaultsAssumption DEF Fail, Recover, HealthCheck, TypeOK
<1> QED
  BY <1>1, <1>2, <1>3, <1>4, <1>5, <1>6, <1>7, <1>8, <1>9, <1>10 DEF Next, SessionNext, BotNext

-----------------------------------------------------------------------------
(* The chains hold the open calls *)

Begun(c) == call[c].state \notin {"idle", "queued"}
Over(c) == call[c].state \in {"replied", "threw"}

ChainsDistinct == \A s \in Sessions : IsInjective(chain[s])

PoolInv == TypeOK /\ ChainsDistinct /\ ChainsHoldTheOpenCalls

(* What a step does to calls and chains.                                   *)
GoesOn(s) ==
    /\ chain[s] # <<>> /\ chain' = chain
    /\ ~Over(Head(chain[s])) /\ call[Head(chain[s])].state # "idle"
    /\ \E state \in {"waiting", "draining", "searching"} :
          call' = [call EXCEPT ![Head(chain[s])].state = state]

Ends(s) ==
    /\ chain[s] # <<>>
    /\ \E state \in {"replied", "threw"} : \E message : Settle(s, state, message)

Moves ==
    \/ UNCHANGED <<call, chain>>
    \/ \E s \in Sessions : GoesOn(s) \/ Ends(s)
    \/ \E c \in Calls : Pick(c)

LEMMA StepMoves == TypeOK /\ [Next]_vars => Moves
<1> SUFFICES ASSUME TypeOK, [Next]_vars PROVE Moves
  OBVIOUS
<1>1. CASE UNCHANGED vars
  BY <1>1 DEF vars, Moves
<1>2. ASSUME NEW s \in Sessions, Send(s) \/ Timeout(s) \/ EndDrain(s) PROVE GoesOn(s)
  BY <1>2, RunningFirst DEF Send, Timeout, EndDrain, GoesOn, Over, Running
<1>3. ASSUME NEW s \in Sessions, SendFails(s) \/ Search(s) PROVE Ends(s)
  BY <1>3 DEF SendFails, Search, Ends, Running
<1>4. ASSUME NEW s \in Sessions, BotNext(s) PROVE UNCHANGED <<call, chain>> \/ Ends(s)
  BY <1>4 DEF BotNext, BotAcknowledges, BotAnswers, Hear, Ends, Running
<1>5. ASSUME NEW s \in Sessions, Fail(s) \/ Recover(s) \/ HealthCheck(s)
      PROVE  UNCHANGED <<call, chain>>
  BY <1>5 DEF Fail, Recover, HealthCheck
<1>6. ASSUME NEW c \in Calls, Announce(c) PROVE UNCHANGED <<call, chain>>
  BY <1>6 DEF Announce
<1> QED
  BY <1>1, <1>2, <1>3, <1>4, <1>5, <1>6 DEF Next, SessionNext, Moves

(* The end of a call frees its place, and only that.                       *)
LEMMA EndsOrderly ==
  ASSUME PoolInv, NEW s \in Sessions, Ends(s)
  PROVE  ChainsDistinct' /\ ChainsHoldTheOpenCalls'
<1> DEFINE h == Head(chain[s])
<1>0. PICK state \in {"replied", "threw"} : \E message : Settle(s, state, message)
  BY DEF Ends
<1>1. PICK message : Settle(s, state, message)
  BY <1>0
<1>2. /\ chain[s] \in Seq(Calls) /\ IsInjective(Tail(chain[s]))
      /\ h \in Range(chain[s]) /\ h \in Calls
      /\ Range(Tail(chain[s])) = Range(chain[s]) \ {h}
  BY DropFirst DEF PoolInv, TypeOK, ChainsDistinct, Ends
<1>3. /\ chain' = [chain EXCEPT ![s] = Tail(@)]
      /\ call' = [call EXCEPT ![h] = [@ EXCEPT !.state = state, !.got = message]]
  BY <1>1, <1>2 DEF Settle, PoolInv, TypeOK
<1>4. /\ chain'[s] = Tail(chain[s]) /\ \A t \in Sessions : t # s => chain'[t] = chain[t]
      /\ call'[h].state = state /\ call'[h].session = call[h].session
      /\ \A c \in Calls : c # h => call'[c] = call[c]
  BY <1>2, <1>3 DEF PoolInv, TypeOK
<1>5. call[h].session = s
  BY <1>2 DEF PoolInv, ChainsHoldTheOpenCalls
<1> HIDE DEF h
<1>6. ChainsDistinct'
  BY <1>2, <1>4 DEF PoolInv, ChainsDistinct
<1>7. ASSUME NEW c \in Calls, NEW t \in Sessions
      PROVE  /\ c \in Range(chain'[t]) <=> /\ call'[c].session = t
                                           /\ call'[c].state \notin {"idle", "replied", "threw"}
             /\ c \in Range(chain'[t]) /\ call'[c].state # "queued" => c = Head(chain'[t])
  <2>1. /\ c \in Range(chain[t]) <=> /\ call[c].session = t
                                     /\ call[c].state \notin {"idle", "replied", "threw"}
        /\ c \in Range(chain[t]) /\ call[c].state # "queued" => c = Head(chain[t])
    BY DEF PoolInv, ChainsHoldTheOpenCalls
  <2>2. CASE c = h
    BY <1>1, <1>2, <1>4, <1>5, <2>1, <2>2
  <2>3. CASE c # h
    BY <1>2, <1>4, <2>1, <2>3 DEF h
  <2> QED
    BY <2>2, <2>3
<1> QED
  BY <1>6, <1>7 DEF ChainsHoldTheOpenCalls

LEMMA GoesOnOrderly ==
  ASSUME PoolInv, NEW s \in Sessions, GoesOn(s)
  PROVE  ChainsDistinct' /\ ChainsHoldTheOpenCalls'
<1> DEFINE h == Head(chain[s])
<1>1. PICK state \in {"waiting", "draining", "searching"} :
         call' = [call EXCEPT ![h].state = state]
  BY DEF GoesOn
<1>2. h \in Range(chain[s]) /\ h \in Calls /\ chain' = chain
  BY SomebodyInFront DEF PoolInv, TypeOK, GoesOn
<1>3. /\ call'[h].state = state /\ call'[h].session = call[h].session
      /\ \A c \in Calls : c # h => call'[c] = call[c]
  BY <1>1, <1>2 DEF PoolInv, TypeOK
<1>4. /\ call[h].session = s /\ call[h].state \notin {"idle", "replied", "threw"}
  BY <1>2 DEF PoolInv, ChainsHoldTheOpenCalls
<1> HIDE DEF h
<1>5. ASSUME NEW c \in Calls, NEW t \in Sessions
      PROVE  /\ c \in Range(chain'[t]) <=> /\ call'[c].session = t
                                           /\ call'[c].state \notin {"idle", "replied", "threw"}
             /\ c \in Range(chain'[t]) /\ call'[c].state # "queued" => c = Head(chain'[t])
  <2>1. /\ c \in Range(chain[t]) <=> /\ call[c].session = t
                                     /\ call[c].state \notin {"idle", "replied", "threw"}
        /\ c \in Range(chain[t]) /\ call[c].state # "queued" => c = Head(chain[t])
    BY DEF PoolInv, ChainsHoldTheOpenCalls
  <2>2. CASE c = h
    BY <1>1, <1>2, <1>3, <1>4, <2>1, <2>2 DEF h
  <2>3. CASE c # h
    BY <1>2, <1>3, <2>1, <2>3
  <2> QED
    BY <2>2, <2>3
<1>6. ChainsDistinct'
  BY <1>2 DEF PoolInv, ChainsDistinct
<1> QED
  BY <1>5, <1>6 DEF ChainsHoldTheOpenCalls

LEMMA PickOrderly ==
  ASSUME PoolInv, NEW c \in Calls, Pick(c)
  PROVE  ChainsDistinct' /\ ChainsHoldTheOpenCalls'
<1>1. call[c].state = "idle" /\ \A t \in Sessions : c \notin Range(chain[t])
  BY DEF PoolInv, ChainsHoldTheOpenCalls, Pick
<1>2. CASE healthy = {}
  <2>1. chain' = chain /\ call' = [call EXCEPT ![c].state = "threw"]
    BY <1>2 DEF Pick
  <2>2. call'[c].state = "threw" /\ \A d \in Calls : d # c => call'[d] = call[d]
    BY <2>1 DEF PoolInv, TypeOK
  <2> QED
    BY <1>1, <2>1, <2>2 DEF PoolInv, ChainsDistinct, ChainsHoldTheOpenCalls
<1>3. ASSUME NEW s \in Candidates,
             call' = [call EXCEPT ![c].state = "queued", ![c].session = s],
             chain' = [chain EXCEPT ![s] = Append(@, c)]
      PROVE  ChainsDistinct' /\ ChainsHoldTheOpenCalls'
  <2>1. s \in Sessions /\ chain[s] \in Seq(Calls)
    BY DEF Candidates, PoolInv, TypeOK
  <2>2. /\ IsInjective(Append(chain[s], c))
        /\ Range(Append(chain[s], c)) = Range(chain[s]) \cup {c}
        /\ Head(Append(chain[s], c)) = IF chain[s] = <<>> THEN c ELSE Head(chain[s])
    BY <1>1, <2>1, AddLast DEF PoolInv, ChainsDistinct
  <2>3. /\ chain'[s] = Append(chain[s], c)
        /\ \A t \in Sessions : t # s => chain'[t] = chain[t]
        /\ call'[c].state = "queued" /\ call'[c].session = s
        /\ \A d \in Calls : d # c => call'[d] = call[d]
    BY <1>3, <2>1 DEF PoolInv, TypeOK
  <2>4. ChainsDistinct'
    BY <2>2, <2>3 DEF PoolInv, ChainsDistinct
  <2>5. ASSUME NEW d \in Calls, NEW t \in Sessions
        PROVE  /\ d \in Range(chain'[t]) <=> /\ call'[d].session = t
                                             /\ call'[d].state \notin {"idle", "replied", "threw"}
               /\ d \in Range(chain'[t]) /\ call'[d].state # "queued" => d = Head(chain'[t])
    <3>1. /\ d \in Range(chain[t]) <=> /\ call[d].session = t
                                       /\ call[d].state \notin {"idle", "replied", "threw"}
          /\ d \in Range(chain[t]) /\ call[d].state # "queued" => d = Head(chain[t])
          /\ d \in Range(chain[t]) => chain[t] # <<>>
      BY SomebodyInFront DEF PoolInv, TypeOK, ChainsHoldTheOpenCalls
    <3>2. CASE d = c
      BY <1>1, <2>2, <2>3, <3>2
    <3>3. CASE d # c
      BY <2>2, <2>3, <3>1, <3>3
    <3> QED
      BY <3>2, <3>3
  <2> QED
    BY <2>4, <2>5 DEF ChainsHoldTheOpenCalls
<1> QED
  BY <1>2, <1>3 DEF Pick

LEMMA PoolInvStep == PoolInv /\ [Next]_vars => PoolInv'
<1> SUFFICES ASSUME PoolInv, [Next]_vars PROVE PoolInv'
  OBVIOUS
<1>1. TypeOK' /\ Moves
  BY StepTyped, StepMoves DEF PoolInv
<1>2. CASE UNCHANGED <<call, chain>>
  BY <1>1, <1>2 DEF PoolInv, ChainsDistinct, ChainsHoldTheOpenCalls
<1> QED
  BY <1>1, <1>2, EndsOrderly, GoesOnOrderly, PickOrderly DEF Moves, PoolInv

LEMMA PoolInvInit == Init => PoolInv
<1> SUFFICES ASSUME Init PROVE PoolInv
  OBVIOUS
<1>1. \A s \in Sessions : chain[s] = <<>> /\ Range(chain[s]) = {} /\ IsInjective(chain[s])
  BY DEF Init, Range, IsInjective
<1>2. \A c \in Calls : call[c].state = "idle"
  BY DEF Init
<1> QED
  BY <1>1, <1>2, InitTyped DEF PoolInv, ChainsDistinct, ChainsHoldTheOpenCalls

(* A chain holds exactly the calls of its session that have not ended, and *)
(* all but its first still wait for their turn.                            *)
THEOREM ChainsAreOpenCalls == Spec => []ChainsHoldTheOpenCalls
<1>1. PoolInv => ChainsHoldTheOpenCalls
  BY DEF PoolInv
<1> QED
  BY <1>1, PoolInvInit, PoolInvStep, PTL DEF Spec

LEMMA PoolInvHolds == Spec => []PoolInv
  BY PoolInvInit, PoolInvStep, PTL DEF Spec

-----------------------------------------------------------------------------
(* Calls only go forward, and chats only grow *)

LEMMA CallsGoForward ==
  ASSUME PoolInv, [Next]_vars, NEW c \in Calls
  PROVE  /\ call'[c].code = call[c].code
         /\ Begun(c) => Begun(c)' /\ call'[c].session = call[c].session
         /\ Over(c) => call'[c] = call[c]
<1> USE DEF Begun, Over
<1>1. CASE UNCHANGED <<call, chain>>
  BY <1>1
<1>2. ASSUME NEW s \in Sessions, GoesOn(s) \/ Ends(s)
      PROVE  /\ call'[c].code = call[c].code
             /\ Begun(c) => Begun(c)' /\ call'[c].session = call[c].session
             /\ Over(c) => call'[c] = call[c]
  <2> DEFINE h == Head(chain[s])
  <2>1. h \in Calls /\ h \in Range(chain[s])
    BY <1>2, SomebodyInFront DEF PoolInv, TypeOK, GoesOn, Ends
  <2>2. ~Over(h)
    BY <2>1 DEF PoolInv, ChainsHoldTheOpenCalls
  <2>3. \E state \in {"waiting", "draining", "searching", "replied", "threw"} : \E message :
           \/ call' = [call EXCEPT ![h].state = state]
           \/ call' = [call EXCEPT ![h].state = state, ![h].got = message]
    BY <1>2 DEF GoesOn, Ends, Settle
  <2> HIDE DEF h
  <2> QED
    BY <2>1, <2>2, <2>3 DEF PoolInv, TypeOK
<1>3. ASSUME NEW d \in Calls, Pick(d)
      PROVE  /\ call'[c].code = call[c].code
             /\ Begun(c) => Begun(c)' /\ call'[c].session = call[c].session
             /\ Over(c) => call'[c] = call[c]
  BY <1>3 DEF Pick, PoolInv, TypeOK
<1> QED
  BY <1>1, <1>2, <1>3, StepMoves DEF Moves, PoolInv

(* Chats and the messages owed change only as a message is sent.           *)
SentStep(s) ==
    \/ Send(s)
    \/ \E c \in owed[s] : BotAcknowledges(s, c) \/ BotAnswers(s, c)
    \/ \E c \in Calls : call[c].session = s /\ Announce(c)

LEMMA StepsSend ==
  TypeOK /\ [Next]_vars
  => (\E s \in Sessions : SentStep(s)) \/ UNCHANGED <<chat, owed, orderly>>
<1> SUFFICES ASSUME TypeOK, [Next]_vars
             PROVE  (\E s \in Sessions : SentStep(s)) \/ UNCHANGED <<chat, owed, orderly>>
  OBVIOUS
<1>1. CASE UNCHANGED vars
  BY <1>1 DEF vars
<1>2. ASSUME NEW c \in Calls, Pick(c) PROVE UNCHANGED <<chat, owed, orderly>>
  BY <1>2 DEF Pick
<1>3. ASSUME NEW s \in Sessions, SendFails(s) \/ Timeout(s) \/ EndDrain(s) \/ Search(s)
      PROVE  UNCHANGED <<chat, owed, orderly>>
  BY <1>3 DEF SendFails, Timeout, EndDrain, Search
<1>4. ASSUME NEW s \in Sessions, Fail(s) \/ Recover(s) \/ HealthCheck(s)
      PROVE  UNCHANGED <<chat, owed, orderly>>
  BY <1>4 DEF Fail, Recover, HealthCheck
<1>5. ASSUME NEW s \in Sessions, BotNext(s) PROVE SentStep(s)
  BY <1>5 DEF BotNext, BotAcknowledges, BotAnswers, SentStep
<1>6. ASSUME NEW c \in Calls, Announce(c) PROVE \E s \in Sessions : SentStep(s)
  BY <1>6 DEF Announce, SentStep, TypeOK
<1>7. ASSUME NEW s \in Sessions, Send(s) PROVE SentStep(s)
  BY <1>7 DEF SentStep
<1> QED
  BY <1>1, <1>2, <1>3, <1>4, <1>5, <1>6, <1>7 DEF Next, SessionNext

(* Which message is sent, by whom, and who is owed another one after it.   *)
Posts(s, m) ==
    /\ chat' = [chat EXCEPT ![s] = Append(@, m)]
    /\ \/ m.kind = "command" /\ m.named /\ Running(s, "queued") /\ m.about = Head(chain[s])
          /\ call' = [call EXCEPT ![m.about].state = "waiting"] /\ chain' = chain
          /\ owed' = [owed EXCEPT ![s] = @ \cup {m.about}]
       \/ m.kind \in {"placeholder", "final"} /\ m.about \in owed[s]
          /\ owed' \in {owed, [owed EXCEPT ![s] = @ \ {m.about}]}
       \/ m.kind = "notice" /\ call[m.about].session = s /\ call[m.about].state = "replied"
          /\ owed' = [owed EXCEPT ![s] = @ \cup {m.about}]
    /\ orderly' = orderly

LEMMA SentPosts ==
  ASSUME TypeOK, NEW s \in Sessions, SentStep(s)
  PROVE  \E m \in Message : Posts(s, m)
<1>1. ASSUME NEW c \in Calls, NEW kind \in {"command", "placeholder", "final", "notice"},
             NEW named \in BOOLEAN
      PROVE  [about |-> c, kind |-> kind, named |-> named] \in Message
  BY DEF Message
<1>2. CASE Send(s)
  <2> DEFINE m == [about |-> Head(chain[s]), kind |-> "command", named |-> TRUE]
  <2>1. m \in Message
    BY <1>1, <1>2, RunningFirst DEF Send
  <2>2. Posts(s, m)
    BY <1>2 DEF Send, Post, Posts
  <2> QED
    BY <2>1, <2>2
<1>3. ASSUME NEW c \in owed[s], BotAcknowledges(s, c) PROVE \E m \in Message : Posts(s, m)
  <2> DEFINE m == [about |-> c, kind |-> "placeholder", named |-> TRUE]
  <2>1. m \in Message
    BY <1>1 DEF TypeOK
  <2>2. Posts(s, m)
    BY <1>3 DEF BotAcknowledges, Post, Posts
  <2> QED
    BY <2>1, <2>2
<1>4. ASSUME NEW c \in owed[s], BotAnswers(s, c) PROVE \E m \in Message : Posts(s, m)
  <2>1. PICK named \in BOOLEAN : Post(s, c, "final", named)
    BY <1>4 DEF BotAnswers
  <2> DEFINE m == [about |-> c, kind |-> "final", named |-> named]
  <2>2. m \in Message
    BY <1>1 DEF TypeOK
  <2>3. Posts(s, m)
    BY <1>4, <2>1 DEF BotAnswers, Post, Posts
  <2> QED
    BY <2>2, <2>3
<1>5. ASSUME NEW c \in Calls, call[c].session = s, Announce(c)
      PROVE  \E m \in Message : Posts(s, m)
  <2> DEFINE m == [about |-> c, kind |-> "notice", named |-> TRUE]
  <2>1. m \in Message
    BY <1>1
  <2>2. Posts(s, m)
    BY <1>5 DEF Announce, Post, Posts
  <2> QED
    BY <2>1, <2>2
<1> QED
  BY <1>2, <1>3, <1>4, <1>5 DEF SentStep

(* Messages are never taken back.                                          *)
LEMMA ChatsGrow ==
  ASSUME TypeOK, [Next]_vars, NEW s \in Sessions
  PROVE  \A i \in DOMAIN chat[s] : i \in DOMAIN chat'[s] /\ chat'[s][i] = chat[s][i]
<1>1. ASSUME NEW t \in Sessions, SentStep(t)
      PROVE  \A i \in DOMAIN chat[s] : i \in DOMAIN chat'[s] /\ chat'[s][i] = chat[s][i]
  <2>1. PICK m \in Message : Posts(t, m)
    BY <1>1, SentPosts
  <2>2. chat' = [chat EXCEPT ![t] = Append(@, m)]
    BY <2>1 DEF Posts
  <2> QED
    BY <2>2, Posted
<1>2. CASE UNCHANGED chat
  BY <1>2
<1> QED
  BY <1>1, <1>2, StepsSend

-----------------------------------------------------------------------------
(* Turns *)

(* Every message is about a call of that chat's session which has begun,   *)
(* and so is every answer that is owed.                                    *)
ChatsAreOfBegun ==
    \A s \in Sessions :
        /\ \A i \in DOMAIN chat[s] : Begun(chat[s][i].about) /\ call[chat[s][i].about].session = s
        /\ \A c \in owed[s] : Begun(c) /\ call[c].session = s

TurnInv == PoolInv /\ ChatsAreOfBegun /\ TurnsAreTaken

LEMMA AboutCalls ==
  ASSUME TypeOK, NEW s \in Sessions, NEW i \in DOMAIN chat[s]
  PROVE  chat[s][i] \in Message /\ chat[s][i].about \in Calls
<1>1. chat[s][i] \in Message
  BY ElementOfSeq, LenProperties DEF TypeOK
<1> QED
  BY <1>1 DEF Message

LEMMA ChatsAreOfBegunStep == PoolInv /\ ChatsAreOfBegun /\ [Next]_vars => ChatsAreOfBegun'
<1> SUFFICES ASSUME PoolInv, ChatsAreOfBegun, [Next]_vars PROVE ChatsAreOfBegun'
  OBVIOUS
<1> TypeOK
  BY DEF PoolInv
<1>1. \A c \in Calls : Begun(c) => Begun(c)' /\ call'[c].session = call[c].session
  BY CallsGoForward
<1>2. CASE UNCHANGED <<chat, owed, orderly>>
  <2>1. \A s \in Sessions : \A i \in DOMAIN chat[s] : chat[s][i].about \in Calls
    BY AboutCalls
  <2>2. \A s \in Sessions : owed[s] \subseteq Calls
    BY DEF TypeOK
  <2> QED
    BY <1>1, <1>2, <2>1, <2>2 DEF ChatsAreOfBegun, Begun
<1>3. ASSUME NEW s \in Sessions, SentStep(s) PROVE ChatsAreOfBegun'
  <2>1. PICK m \in Message : Posts(s, m)
    BY <1>3, SentPosts
  <2> DEFINE c == m.about
  <2>2. c \in Calls /\ chat' = [chat EXCEPT ![s] = Append(@, m)]
    BY <2>1 DEF Posts, Message
  <2>3. Begun(c)' /\ call'[c].session = s
    <3>1. CASE m.kind = "command"
      <4>1. c \in Range(chain[s]) /\ call' = [call EXCEPT ![c].state = "waiting"]
        BY <2>1, <3>1, RunningFirst DEF Posts, Message
      <4>2. call[c].session = s
        BY <2>2, <4>1 DEF PoolInv, ChainsHoldTheOpenCalls
      <4> QED
        BY <2>2, <4>1, <4>2 DEF Begun, TypeOK
    <3> QED
      BY <1>1, <2>1, <2>2, <3>1 DEF Posts, ChatsAreOfBegun, Begun
  <2>4. ASSUME NEW t \in Sessions, NEW i \in DOMAIN chat'[t]
        PROVE  /\ call'[chat'[t][i].about].state \notin {"idle", "queued"}
               /\ call'[chat'[t][i].about].session = t
    <3>1. CASE i \in DOMAIN chat[t] /\ chat'[t][i] = chat[t][i]
      <4>1. chat[t][i].about \in Calls /\ Begun(chat[t][i].about)
            /\ call[chat[t][i].about].session = t
        BY <3>1, AboutCalls DEF ChatsAreOfBegun
      <4> QED
        BY <1>1, <3>1, <4>1 DEF Begun
    <3>2. CASE t = s /\ chat'[t][i].about = c
      BY <2>3, <3>2 DEF Begun
    <3>3. \/ i \in DOMAIN chat[t] /\ chat'[t][i] = chat[t][i]
          \/ t = s /\ chat'[t][i] = m
      BY <2>2, <2>4, Posted
    <3> QED
      BY <3>1, <3>2, <3>3
  <2>5. ASSUME NEW t \in Sessions, NEW d \in owed'[t]
        PROVE  Begun(d)' /\ call'[d].session = t
    <3>1. d \in owed[t] \/ (t = s /\ d = c)
      BY <2>1, <2>5 DEF Posts, TypeOK
    <3> QED
      BY <1>1, <2>3, <3>1 DEF ChatsAreOfBegun, TypeOK
  <2> QED
    BY <2>4, <2>5 DEF ChatsAreOfBegun, Begun
<1> QED
  BY <1>2, <1>3, StepsSend

LEMMA TurnsStep == TurnInv /\ [Next]_vars => TurnsAreTaken'
<1> SUFFICES ASSUME TurnInv, [Next]_vars, NEW s \in Sessions,
                    NEW i \in DOMAIN chat'[s], NEW j \in DOMAIN chat'[s],
                    i < j, chat'[s][i].kind = "command", chat'[s][j].kind = "command"
             PROVE  call'[chat'[s][i].about].state \in {"replied", "threw"}
  BY DEF TurnsAreTaken
<1> TypeOK /\ PoolInv
  BY DEF TurnInv, PoolInv
<1>1. \A c \in Calls : Over(c) => call'[c] = call[c]
  BY CallsGoForward
<1>2. CASE i \in DOMAIN chat[s] /\ j \in DOMAIN chat[s]
  <2>1. chat'[s][i] = chat[s][i] /\ chat'[s][j] = chat[s][j]
    BY <1>2, ChatsGrow
  <2>2. Over(chat[s][i].about) /\ chat[s][i].about \in Calls
    BY <1>2, <2>1, AboutCalls DEF TurnInv, TurnsAreTaken, Over
  <2> QED
    BY <1>1, <2>1, <2>2 DEF Over
<1>3. CASE ~(i \in DOMAIN chat[s] /\ j \in DOMAIN chat[s])
  <2>1. PICK t \in Sessions : SentStep(t)
    BY <1>3, StepsSend
  <2>2. PICK m \in Message : Posts(t, m)
    BY <2>1, SentPosts
  <2> DEFINE c == m.about
  <2>3. chat' = [chat EXCEPT ![t] = Append(@, m)]
    BY <2>2 DEF Posts
  <2>4. t = s /\ i \in DOMAIN chat[s] /\ chat'[s][i] = chat[s][i] /\ m.kind = "command"
    <3>1. \A k \in DOMAIN chat'[s] :
             \/ k \in DOMAIN chat[s] /\ chat'[s][k] = chat[s][k]
             \/ s = t /\ chat'[s][k] = m /\ \A l \in DOMAIN chat'[s] : l <= k
      BY <2>3, Posted
    <3>2. i \in Nat /\ j \in Nat
      <4>1. chat'[s] \in Seq(Message)
        BY StepTyped DEF TypeOK
      <4> QED
        BY <4>1, LenProperties
    <3>3. i \in DOMAIN chat[s] /\ chat'[s][i] = chat[s][i]
      BY <3>1, <3>2
    <3> QED
      BY <1>3, <3>1, <3>3
  <2> DEFINE d == chat[s][i].about
  <2>5. d \in Calls /\ Begun(d) /\ call[d].session = s
    BY <2>4, AboutCalls DEF TurnInv, ChatsAreOfBegun
  <2>6. chain[s] # <<>> /\ c = Head(chain[s]) /\ call[c].state = "queued"
    BY <2>2, <2>4, RunningFirst DEF Posts
  <2>7. Over(d)
    <3>1. CASE d \in Range(chain[s])
      BY <2>5, <2>6, <3>1 DEF PoolInv, ChainsHoldTheOpenCalls, Begun
    <3>2. CASE d \notin Range(chain[s])
      BY <2>5, <3>2 DEF PoolInv, ChainsHoldTheOpenCalls, Begun, Over
    <3> QED
      BY <3>1, <3>2
  <2> QED
    BY <1>1, <2>4, <2>5, <2>7 DEF Over
<1> QED
  BY <1>2, <1>3

LEMMA TurnInvHolds == Spec => []TurnInv
<1>1. Init => TurnInv
  <2> SUFFICES ASSUME Init PROVE ChatsAreOfBegun /\ TurnsAreTaken
    BY PoolInvInit DEF TurnInv
  <2>1. \A s \in Sessions : DOMAIN chat[s] = {} /\ owed[s] = {}
    BY DEF Init
  <2> QED
    BY <2>1 DEF ChatsAreOfBegun, TurnsAreTaken
<1>2. TurnInv /\ [Next]_vars => TurnInv'
  BY PoolInvStep, ChatsAreOfBegunStep, TurnsStep DEF TurnInv
<1> QED
  BY <1>1, <1>2, PTL DEF Spec

(* A command goes out only when every earlier one of its chat is settled.  *)
THEOREM CommandsTakeTurns == Spec => []TurnsAreTaken
<1>1. TurnInv => TurnsAreTaken
  BY DEF TurnInv
<1> QED
  BY <1>1, TurnInvHolds, PTL

-----------------------------------------------------------------------------
(* Replies *)

Busy(c, s) == call[c].session = s /\ call[c].state \in {"waiting", "draining", "searching"}

(* The chat says nothing else from the command of c on.                    *)
HasTheFloor(c, s) ==
    \E i \in DOMAIN chat[s] :
        /\ chat[s][i].about = c /\ chat[s][i].kind = "command" /\ chat[s][i].named
        /\ \A j \in DOMAIN chat[s] : i <= j => chat[s][j].about = c

(* What an orderly bot still owes is the running call's, whose command was *)
(* the last thing said in the chat that is not about it.                   *)
OwnTurn(s) ==
    /\ \A c \in owed[s] : call[c].session = s /\ call[c].state \in {"waiting", "draining"}
    /\ \A c \in Calls : Busy(c, s) => HasTheFloor(c, s)

FloorInv == \A s \in Sessions : orderly /\ ~Noticed(s) => OwnTurn(s)

RepliesHaveChats == \A c \in Calls : call[c].state = "replied" => call[c].session \in Sessions

ReplyInv == TurnInv /\ FloorInv /\ RepliesHaveChats /\ ReplyIsOwn

LEMMA OneIsBusy ==
  ASSUME PoolInv, NEW s \in Sessions, NEW c \in Calls, Busy(c, s)
  PROVE  c = Head(chain[s]) /\ chain[s] # <<>>
<1>1. c \in Range(chain[s]) /\ call[c].state # "queued"
  BY DEF Busy, PoolInv, ChainsHoldTheOpenCalls
<1> QED
  BY <1>1, SomebodyInFront DEF PoolInv, TypeOK, ChainsHoldTheOpenCalls

LEMMA RunningIsOfSession ==
  ASSUME PoolInv, NEW s \in Sessions, NEW state, Running(s, state)
  PROVE  Head(chain[s]) \in Calls /\ call[Head(chain[s])].session = s
         /\ call[Head(chain[s])].state = state
<1>1. Head(chain[s]) \in Calls /\ Head(chain[s]) \in Range(chain[s])
      /\ call[Head(chain[s])].state = state
  BY RunningFirst DEF PoolInv
<1> QED
  BY <1>1 DEF PoolInv, ChainsHoldTheOpenCalls

(* A call is settled that is owed nothing, or a call times out.            *)
LEMMA FloorKept ==
  ASSUME PoolInv, NEW s \in Sessions, OwnTurn(s), chat'[s] = chat[s], owed'[s] = owed[s],
         NEW h \in Calls, \A c \in Calls : c # h => call'[c] = call[c],
         call'[h].session = call[h].session \/ call'[h].state = "queued",
         h \in owed[s] => call'[h].session = s /\ call'[h].state \in {"waiting", "draining"},
         call'[h].state \in {"waiting", "draining", "searching"}
         => call[h].state \in {"waiting", "draining", "searching"}
  PROVE  OwnTurn(s)'
<1>1. owed[s] \subseteq Calls
  BY DEF PoolInv, TypeOK
<1>2. \A c \in owed[s] : call'[c].session = s /\ call'[c].state \in {"waiting", "draining"}
  BY <1>1 DEF OwnTurn
<1>3. ASSUME NEW c \in Calls, Busy(c, s)' PROVE HasTheFloor(c, s)'
  <2>1. Busy(c, s)
    BY <1>3 DEF Busy
  <2> QED
    BY <2>1 DEF OwnTurn, HasTheFloor
<1> QED
  BY <1>2, <1>3 DEF OwnTurn

(* A message about the only busy call, or its command, is sent.            *)
LEMMA FloorTaken ==
  ASSUME PoolInv, NEW s \in Sessions, OwnTurn(s), NEW m \in Message,
         chat' = [chat EXCEPT ![s] = Append(@, m)],
         (m.kind = "command" /\ m.named) \/ HasTheFloor(m.about, s)
  PROVE  HasTheFloor(m.about, s)'
<1> TypeOK
  BY DEF PoolInv
<1>1. /\ \A i \in DOMAIN chat[s] : i \in DOMAIN chat'[s] /\ chat'[s][i] = chat[s][i]
      /\ \A i \in DOMAIN chat'[s] :
            (i \in DOMAIN chat[s] /\ chat'[s][i] = chat[s][i]) \/ chat'[s][i] = m
  BY Posted
<1>2. CASE m.kind = "command" /\ m.named
  <2>1. PICK i \in DOMAIN chat'[s] :
           chat'[s][i] = m /\ \A j \in DOMAIN chat'[s] : i <= j => j = i
    BY PostedLast
  <2>2. \A j \in DOMAIN chat'[s] : i <= j => chat'[s][j].about = m.about
    BY <2>1
  <2> QED
    BY <1>2, <2>1, <2>2 DEF HasTheFloor
<1>3. CASE HasTheFloor(m.about, s)
  BY <1>1, <1>3 DEF HasTheFloor
<1> QED
  BY <1>2, <1>3

LEMMA FloorStep == TurnInv /\ FloorInv /\ [Next]_vars => FloorInv'
<1> SUFFICES ASSUME TurnInv, FloorInv, [Next]_vars, NEW s \in Sessions, orderly', ~Noticed(s)'
             PROVE  OwnTurn(s)'
  BY DEF FloorInv
<1> PoolInv /\ TypeOK
  BY DEF TurnInv, PoolInv
<1>1. orderly
  BY StepsSend, SentPosts DEF Posts
<1>2. ~Noticed(s)
  BY ChatsGrow DEF Noticed
<1>3. OwnTurn(s) /\ owed[s] \subseteq Calls
  BY <1>1, <1>2 DEF FloorInv, TypeOK
<1>4. \A c \in owed[s] : Busy(c, s) /\ c = Head(chain[s])
  BY <1>3, OneIsBusy DEF OwnTurn, Busy
<1>5. CASE UNCHANGED <<call, chat, owed>>
  BY <1>3, <1>5 DEF OwnTurn, Busy, HasTheFloor
<1>6. ASSUME NEW c \in Calls, Pick(c) PROVE OwnTurn(s)'
  <2>1. /\ chat' = chat /\ owed' = owed /\ \A d \in Calls : d # c => call'[d] = call[d]
        /\ call[c].state = "idle" /\ call'[c].state \in {"queued", "threw"}
        /\ call'[c].session = call[c].session \/ call'[c].state = "queued"
    BY <1>6 DEF Pick, TypeOK
  <2>2. c \notin owed[s]
    BY <1>4, <2>1 DEF Busy
  <2> QED
    BY <1>3, <2>1, <2>2, FloorKept
<1>7. ASSUME NEW u \in Sessions, SendFails(u) \/ Timeout(u) \/ EndDrain(u) \/ Search(u)
      PROVE  OwnTurn(s)'
  <2> DEFINE h == Head(chain[u])
  <2>1. h \in Calls /\ call[h].session = u
    BY <1>7, RunningIsOfSession DEF SendFails, Timeout, EndDrain, Search
  <2>2. chat' = chat /\ owed' = owed
    BY <1>7 DEF SendFails, Timeout, EndDrain, Search
  <2>3. \E state : \E message :
           /\ \/ call' = [call EXCEPT ![h].state = state, ![h].got = message]
              \/ call' = [call EXCEPT ![h].state = state]
           /\ \/ call[h].state = "queued" /\ state = "threw"
              \/ call[h].state = "waiting" /\ state = "draining"
              \/ call[h].state = "draining" /\ owed[u] = {} /\ state = "searching"
              \/ call[h].state = "searching" /\ state \in {"replied", "threw"}
    <3>1. CASE SendFails(u)
      BY <3>1, RunningIsOfSession DEF SendFails, Settle
    <3>2. CASE Timeout(u)
      BY <3>2, RunningIsOfSession DEF Timeout
    <3>3. CASE EndDrain(u)
      BY <1>1, <3>3, RunningIsOfSession DEF EndDrain
    <3>4. CASE Search(u)
      <4>1. call[h].state = "searching"
        BY <3>4, RunningIsOfSession DEF Search
      <4>2. \E state \in {"replied", "threw"} : \E message : Settle(u, state, message)
        BY <3>4 DEF Search
      <4> QED
        BY <4>1, <4>2 DEF Settle
    <3> QED
      BY <1>7, <3>1, <3>2, <3>3, <3>4
  <2>4. h \in owed[s] => u = s /\ call[h].state \in {"waiting", "draining"}
    BY <1>3, <2>1 DEF OwnTurn
  <2> HIDE DEF h
  <2>5. /\ \A d \in Calls : d # h => call'[d] = call[d]
        /\ call'[h].session = call[h].session
        /\ \/ call[h].state = "queued" /\ call'[h].state = "threw"
           \/ call[h].state = "waiting" /\ call'[h].state = "draining"
           \/ call[h].state = "draining" /\ owed[u] = {} /\ call'[h].state = "searching"
           \/ call[h].state = "searching" /\ call'[h].state \in {"replied", "threw"}
    BY <2>1, <2>3 DEF TypeOK
  <2> QED
    BY <1>3, <2>1, <2>2, <2>4, <2>5, FloorKept
<1>8. ASSUME NEW u \in Sessions, Send(u) PROVE OwnTurn(s)'
  <2>1. PICK h \in Calls : h = Head(chain[u]) /\ call[h].session = u /\ call[h].state = "queued"
    BY <1>8, RunningIsOfSession DEF Send
  <2> DEFINE m == [about |-> h, kind |-> "command", named |-> TRUE]
  <2>2. /\ chat' = [chat EXCEPT ![u] = Append(@, m)]
        /\ owed' = [owed EXCEPT ![u] = @ \cup {h}]
        /\ call' = [call EXCEPT ![h].state = "waiting"]
    BY <1>8, <2>1 DEF Send, Post
  <2>3. m \in Message /\ m.about = h /\ m.kind = "command" /\ m.named
    BY <2>1 DEF Message
  <2> HIDE DEF m
  <2>4. /\ \A d \in Calls : d # h => call'[d] = call[d]
        /\ call'[h].session = u /\ call'[h].state = "waiting"
    BY <2>1, <2>2 DEF TypeOK
  <2>5. h \notin owed[s]
    BY <1>4, <2>1 DEF Busy
  <2>6. CASE u # s
    <3>1. chat'[s] = chat[s] /\ owed'[s] = owed[s]
      BY <2>2, <2>6 DEF TypeOK
    <3>2. \A c \in owed[s] : call'[c].session = s /\ call'[c].state \in {"waiting", "draining"}
      BY <1>3, <2>4, <2>5 DEF OwnTurn
    <3>3. ASSUME NEW c \in Calls, Busy(c, s)' PROVE HasTheFloor(c, s)'
      <4>1. Busy(c, s)
        BY <2>4, <2>6, <3>3 DEF Busy
      <4> QED
        BY <1>3, <3>1, <4>1 DEF OwnTurn, HasTheFloor
    <3> QED
      BY <3>1, <3>2, <3>3 DEF OwnTurn
  <2>7. CASE u = s
    <3>1. h = Head(chain[s])
      BY <2>1, <2>7
    <3>2. owed'[s] = {h}
      BY <1>4, <2>2, <2>5, <2>7, <3>1 DEF TypeOK
    <3>3. HasTheFloor(h, s)'
      <4>1. HasTheFloor(m.about, s)'
        BY <1>3, <2>2, <2>3, <2>7, FloorTaken
      <4> QED
        BY <2>3, <4>1 DEF HasTheFloor
    <3>4. ASSUME NEW c \in Calls, Busy(c, s)' PROVE c = h
      <4>1. c # h => Busy(c, s)
        BY <2>4, <3>4 DEF Busy
      <4> QED
        BY <3>1, <4>1, OneIsBusy
    <3> QED
      BY <2>4, <2>7, <3>2, <3>3, <3>4 DEF OwnTurn
  <2> QED
    BY <2>6, <2>7
<1>9. ASSUME NEW u \in Sessions, NEW c \in Calls, BotAcknowledges(u, c) PROVE OwnTurn(s)'
  <2> DEFINE m == [about |-> c, kind |-> "placeholder", named |-> TRUE]
  <2>1. /\ chat' = [chat EXCEPT ![u] = Append(@, m)] /\ c \in owed[u]
        /\ owed' = owed /\ call' = call
    BY <1>1, <1>9 DEF BotAcknowledges, Post
  <2>2. m \in Message /\ m.about = c
    BY DEF Message
  <2> HIDE DEF m
  <2>3. CASE u # s
    BY <1>3, <2>1, <2>3 DEF OwnTurn, Busy, HasTheFloor, TypeOK
  <2>4. CASE u = s
    <3>1. c = Head(chain[s]) /\ HasTheFloor(c, s)
      BY <1>3, <1>4, <2>1, <2>4 DEF OwnTurn
    <3>2. HasTheFloor(c, s)'
      BY <1>3, <2>1, <2>2, <2>4, <3>1, FloorTaken
    <3>3. ASSUME NEW d \in Calls, Busy(d, s)' PROVE d = c
      <4>1. Busy(d, s)
        BY <2>1, <3>3 DEF Busy
      <4> QED
        BY <3>1, <4>1, OneIsBusy
    <3> QED
      BY <1>3, <2>1, <3>2, <3>3 DEF OwnTurn
  <2> QED
    BY <2>3, <2>4
<1>10. ASSUME NEW u \in Sessions, NEW c \in Calls, BotAnswers(u, c) PROVE OwnTurn(s)'
  <2>1. PICK named \in BOOLEAN :
           /\ Post(u, c, "final", named)
           /\ Hear(u, [about |-> c, kind |-> "final", named |-> named])
    BY <1>10 DEF BotAnswers
  <2> DEFINE m == [about |-> c, kind |-> "final", named |-> named]
             h == Head(chain[u])
  <2>2. /\ chat' = [chat EXCEPT ![u] = Append(@, m)] /\ c \in owed[u]
        /\ owed' = [owed EXCEPT ![u] = @ \ {c}]
    BY <1>1, <1>10, <2>1 DEF BotAnswers, Post
  <2>3. m \in Message /\ m.about = c
    BY DEF Message
  <2>4. \/ /\ h \in Calls /\ call[h].session = u /\ call[h].state = "waiting"
           /\ call' = [call EXCEPT ![h].state = "replied", ![h].got = m]
        \/ ~Running(u, "waiting") /\ call' = call
    BY <2>1, RunningIsOfSession DEF Hear, Settle
  <2> HIDE DEF m
  <2>5. \A d \in Calls : \/ call'[d] = call[d]
                         \/ d = h /\ call[d].session = u /\ call'[d].state = "replied"
    BY <2>4 DEF TypeOK
  <2> HIDE DEF h
  <2>6. CASE u # s
    <3>1. chat'[s] = chat[s] /\ owed'[s] = owed[s]
      BY <2>2, <2>6 DEF TypeOK
    <3>2. \A d \in Calls : call[d].session = s => call'[d] = call[d]
      BY <2>5, <2>6
    <3>3. ASSUME NEW d \in Calls, Busy(d, s)' PROVE Busy(d, s)
      BY <2>5, <3>3 DEF Busy
    <3> QED
      BY <1>3, <3>1, <3>2, <3>3 DEF OwnTurn, HasTheFloor
  <2>7. CASE u = s
    <3>1. c = Head(chain[s]) /\ HasTheFloor(c, s) /\ owed'[s] = {}
      BY <1>3, <1>4, <2>2, <2>7 DEF OwnTurn, TypeOK
    <3>2. HasTheFloor(c, s)'
      BY <1>3, <2>2, <2>3, <2>7, <3>1, FloorTaken
    <3>3. ASSUME NEW d \in Calls, Busy(d, s)' PROVE d = c
      <4>1. Busy(d, s)
        BY <2>5, <3>3 DEF Busy
      <4> QED
        BY <3>1, <4>1, OneIsBusy
    <3> QED
      BY <3>1, <3>2, <3>3 DEF OwnTurn
  <2> QED
    BY <2>6, <2>7
<1>11. ASSUME NEW c \in Calls, Announce(c) PROVE OwnTurn(s)'
  <2> DEFINE m == [about |-> c, kind |-> "notice", named |-> TRUE]
             u == call[c].session
  <2>1. /\ u \in Sessions /\ call' = call
        /\ chat' = [chat EXCEPT ![u] = Append(@, m)]
        /\ owed' = [owed EXCEPT ![u] = @ \cup {c}]
    BY <1>11 DEF Announce, Post, TypeOK
  <2>2. m \in Message /\ m.kind = "notice"
    BY DEF Message
  <2> HIDE DEF m, u
  <2>3. u # s
    <3>1. u = s => \E i \in DOMAIN chat'[s] : chat'[s][i] = m
      BY <2>1, <2>2, PostedLast
    <3> QED
      BY <2>2, <3>1 DEF Noticed
  <2> QED
    BY <1>3, <2>1, <2>3 DEF OwnTurn, Busy, HasTheFloor, TypeOK
<1>12. ASSUME NEW u \in Sessions, Fail(u) \/ Recover(u) \/ HealthCheck(u) PROVE OwnTurn(s)'
  BY <1>5, <1>12 DEF Fail, Recover, HealthCheck
<1>13. CASE UNCHANGED vars
  BY <1>5, <1>13 DEF vars
<1> QED
  BY <1>6, <1>7, <1>8, <1>9, <1>10, <1>11, <1>12, <1>13 DEF Next, SessionNext, BotNext

(* A message that is searched for is at least as new as the command.       *)
LEMMA SearchFindsOwn ==
  ASSUME PoolInv, NEW s \in Sessions, Running(s, "searching"),
         OwnTurn(s), NEW i \in DOMAIN chat[s], Newest(Recent(s, call[Head(chain[s])].code), i)
  PROVE  chat[s][i].about = Head(chain[s])
<1> DEFINE h == Head(chain[s])
<1>1. h \in Calls /\ Busy(h, s)
  BY RunningIsOfSession DEF Busy
<1>2. HasTheFloor(h, s)
  BY <1>1 DEF OwnTurn
<1> HIDE DEF h
<1>3. PICK k \in DOMAIN chat[s] :
         /\ chat[s][k].about = h /\ chat[s][k].kind = "command" /\ chat[s][k].named
         /\ \A j \in DOMAIN chat[s] : k <= j => chat[s][j].about = h
  BY <1>2 DEF HasTheFloor
<1>4. k \in Recent(s, call[h].code)
  BY <1>3 DEF Recent, Names
<1>5. k <= i
  BY <1>4 DEF Newest, h
<1> QED
  BY <1>3, <1>5 DEF h

(* Only a search and a message of the bot settle a call with a reply.      *)
LEMMA WhoReplies ==
  ASSUME PoolInv, [Next]_vars, NEW c \in Calls, call[c].state # "replied", call'[c].state = "replied"
  PROVE  \E s \in Sessions :
            /\ c = Head(chain[s]) /\ call[c].session = s /\ call'[c].session = s
            /\ \/ Search(s)
               \/ \E d \in Calls : BotAnswers(s, d) /\ Running(s, "waiting")
               \/ ~orderly
<1> TypeOK
  BY DEF PoolInv
<1>1. ~UNCHANGED call
  OBVIOUS
<1>2. ASSUME NEW s \in Sessions, Send(s) \/ SendFails(s) \/ Timeout(s) \/ EndDrain(s) PROVE FALSE
  <2> DEFINE h == Head(chain[s])
  <2>1. \E state \in {"waiting", "threw", "draining", "searching"} : \E message :
           \/ call' = [call EXCEPT ![h].state = state]
           \/ call' = [call EXCEPT ![h].state = state, ![h].got = message]
    BY <1>2 DEF Send, SendFails, Settle, Timeout, EndDrain
  <2> HIDE DEF h
  <2> QED
    BY <2>1 DEF TypeOK
<1>3. ASSUME NEW d \in Calls, Pick(d) PROVE FALSE
  BY <1>3 DEF Pick, TypeOK
<1>4. ASSUME NEW s \in Sessions, NEW state, NEW message, chain[s] # <<>>, Settle(s, state, message)
      PROVE  c = Head(chain[s]) /\ call[c].session = s /\ call'[c].session = s
  <2> DEFINE h == Head(chain[s])
  <2>1. h \in Calls /\ h \in Range(chain[s])
    BY <1>4, SomebodyInFront DEF TypeOK
  <2>2. call[h].session = s
    BY <2>1 DEF PoolInv, ChainsHoldTheOpenCalls
  <2>3. call' = [call EXCEPT ![h].state = state, ![h].got = message]
    BY <1>4 DEF Settle
  <2> HIDE DEF h
  <2>4. c = h /\ call'[h].session = call[h].session
    BY <2>1, <2>3 DEF TypeOK
  <2> QED
    BY <2>2, <2>4 DEF h
<1>5. ASSUME NEW s \in Sessions, Search(s)
      PROVE  c = Head(chain[s]) /\ call[c].session = s /\ call'[c].session = s
  BY <1>4, <1>5, RunningFirst DEF Search
<1>6. ASSUME NEW s \in Sessions, NEW d \in Calls, BotAnswers(s, d) \/ BotAcknowledges(s, d)
      PROVE  /\ c = Head(chain[s]) /\ call[c].session = s /\ call'[c].session = s
             /\ Running(s, "waiting")
  <2>1. PICK message : Hear(s, message)
    BY <1>1, <1>6 DEF BotAnswers, BotAcknowledges
  <2>2. Running(s, "waiting") /\ Settle(s, "replied", message)
    BY <1>1, <2>1 DEF Hear
  <2> QED
    BY <1>4, <2>2, RunningFirst
<1>7. ASSUME NEW s \in Sessions, NEW d \in Calls, BotAcknowledges(s, d) PROVE ~orderly
  BY <1>1, <1>7 DEF BotAcknowledges
<1>8. ASSUME NEW d \in Calls, Announce(d) PROVE FALSE
  BY <1>1, <1>8 DEF Announce
<1>9. ASSUME NEW s \in Sessions, Fail(s) \/ Recover(s) \/ HealthCheck(s) PROVE FALSE
  BY <1>1, <1>9 DEF Fail, Recover, HealthCheck
<1>10. ~UNCHANGED vars
  BY <1>1 DEF vars
<1> QED
  BY <1>2, <1>3, <1>5, <1>6, <1>7, <1>8, <1>9, <1>10 DEF Next, SessionNext, BotNext

LEMMA ReplyIsOwnStep == ReplyInv /\ [Next]_vars => (RepliesHaveChats /\ ReplyIsOwn)'
<1> SUFFICES ASSUME ReplyInv, [Next]_vars, NEW c \in Calls, call'[c].state = "replied"
             PROVE  /\ call'[c].session \in Sessions
                    /\ orderly' => /\ call'[c].got.kind # "placeholder"
                                   /\ call'[c].got.about = c \/ Noticed(call[c].session)'
  BY DEF RepliesHaveChats, ReplyIsOwn
<1> PoolInv /\ TypeOK
  BY DEF ReplyInv, TurnInv, PoolInv
<1>1. orderly' = orderly
  BY StepsSend, SentPosts DEF Posts
<1>2. \A s \in Sessions : Noticed(s) => Noticed(s)'
  BY ChatsGrow DEF Noticed
<1>3. CASE call[c].state = "replied"
  <2>1. call'[c] = call[c] /\ call[c].session \in Sessions
    BY <1>3, CallsGoForward DEF Over, ReplyInv, RepliesHaveChats
  <2>2. PICK s \in Sessions : s = call[c].session /\ s = call'[c].session
    BY <2>1
  <2>3. orderly => /\ call[c].got.kind # "placeholder"
                   /\ call[c].got.about = c \/ Noticed(s)
    BY <1>3, <2>2 DEF ReplyInv, ReplyIsOwn
  <2>4. Noticed(s)' => Noticed(call[c].session)'
    BY <2>2 DEF Noticed
  <2> QED
    BY <1>1, <1>2, <2>1, <2>3, <2>4
<1>4. CASE call[c].state # "replied"
  <2>1. PICK s \in Sessions :
           /\ c = Head(chain[s]) /\ call[c].session = s /\ call'[c].session = s
           /\ \/ Search(s)
              \/ \E d \in Calls : BotAnswers(s, d) /\ Running(s, "waiting")
              \/ ~orderly
    BY <1>4, WhoReplies
  <2>2. Noticed(s)' => Noticed(call[c].session)'
    BY <2>1 DEF Noticed
  <2>3. orderly /\ ~Noticed(s) => OwnTurn(s)
    BY DEF ReplyInv, FloorInv
  <2>4. CASE Search(s)
    <3>1. Running(s, "searching")
      BY <2>4 DEF Search
    <3>2. \E i \in DOMAIN chat[s] :
             /\ Newest(Recent(s, call[Head(chain[s])].code), i)
             /\ Settle(s, "replied", chat[s][i])
      <4>1. ~Settle(s, "threw", NoMessage)
        BY <2>1 DEF Settle, TypeOK
      <4> QED
        BY <2>4, <4>1 DEF Search
    <3>3. PICK i \in DOMAIN chat[s] :
             /\ Newest(Recent(s, call[c].code), i)
             /\ Settle(s, "replied", chat[s][i])
      BY <2>1, <3>2
    <3>4. call'[c].got = chat[s][i]
      BY <2>1, <3>3 DEF Settle, TypeOK
    <3>5. chat[s][i].kind # "placeholder"
      BY <3>3 DEF Newest, Recent
    <3>6. OwnTurn(s) => chat[s][i].about = c
      BY <2>1, <3>1, <3>3, SearchFindsOwn
    <3> QED
      BY <1>1, <1>2, <2>1, <2>2, <2>3, <3>4, <3>5, <3>6
  <2>5. ASSUME NEW d \in Calls, BotAnswers(s, d), Running(s, "waiting")
        PROVE  call'[c].got.kind # "placeholder" /\ (OwnTurn(s) => call'[c].got.about = c)
    <3>1. PICK named \in BOOLEAN :
             Settle(s, "replied", [about |-> d, kind |-> "final", named |-> named])
      BY <2>5 DEF BotAnswers, Hear
    <3>2. call'[c].got = [about |-> d, kind |-> "final", named |-> named]
      BY <2>1, <3>1 DEF Settle, TypeOK
    <3>3. ASSUME OwnTurn(s) PROVE d = c
      <4>1. Busy(d, s)
        BY <2>5, <3>3 DEF BotAnswers, OwnTurn, Busy
      <4> QED
        BY <2>1, <4>1, OneIsBusy
    <3> QED
      BY <3>2, <3>3
  <2> QED
    BY <1>1, <1>2, <2>1, <2>2, <2>3, <2>4, <2>5
<1> QED
  BY <1>3, <1>4

(* With a bot that answers a command once and in time, and says            *)
(* "processing" before the deadline, no call is settled by "processing",   *)
(* and as long as no notice of a failed commit was sent in its chat, a     *)
(* call is settled by a message about its own command.                     *)
THEOREM RepliesAreOwn == Spec => []ReplyIsOwn
<1>1. Init => ReplyInv
  <2> SUFFICES ASSUME Init PROVE ReplyInv
    OBVIOUS
  <2>1. \A s \in Sessions : DOMAIN chat[s] = {} /\ owed[s] = {}
    BY DEF Init
  <2>2. \A c \in Calls : call[c].state = "idle"
    BY DEF Init
  <2> QED
    BY <2>1, <2>2, PoolInvInit
    DEF ReplyInv, TurnInv, ChatsAreOfBegun, TurnsAreTaken, FloorInv, OwnTurn, Busy,
        RepliesHaveChats, ReplyIsOwn
<1>2. ReplyInv /\ [Next]_vars => ReplyInv'
  BY PoolInvStep, ChatsAreOfBegunStep, TurnsStep, FloorStep, ReplyIsOwnStep DEF ReplyInv, TurnInv
<1>3. ReplyInv => ReplyIsOwn
  BY DEF ReplyInv
<1> QED
  BY <1>1, <1>2, <1>3, PTL DEF Spec

-----------------------------------------------------------------------------
(* The turns run out *)

(* What a call has left to do, and with it everybody in front of the i-th  *)
(* call of a chain: four steps each, fewer for the call that runs.         *)
Stage(state) ==
    IF state = "queued" THEN 4
    ELSE IF state = "waiting" THEN 3
    ELSE IF state = "draining" THEN 2
    ELSE IF state = "searching" THEN 1 ELSE 0

Work(s, i) == 4 * (i - 1) + Stage(call[Head(chain[s])].state)

(* A call in a chain ends or keeps a place with no more work before it,    *)
(* whoever joins, answers or fails; and every step of the session takes    *)
(* work away.  So the i-th call ends within 4 * i steps of its session.    *)
TurnsRunOut ==
    [][\A s \in Sessions : \A i \in DOMAIN chain[s] :
          \/ call'[chain[s][i]].state \in {"replied", "threw"}
          \/ \E j \in DOMAIN chain'[s] :
                /\ chain'[s][j] = chain[s][i]
                /\ Work(s, j)' <= Work(s, i)
                /\ SessionNext(s) => Work(s, j)' < Work(s, i)]_vars

(* Who is in a chain, and what the first of it has left.                   *)
LEMMA InTheChain ==
  ASSUME PoolInv, NEW s \in Sessions, NEW i \in DOMAIN chain[s]
  PROVE  /\ chain[s] # <<>> /\ chain[s] \in Seq(Calls)
         /\ Len(chain[s]) \in Nat /\ i \in 1 .. Len(chain[s])
         /\ DOMAIN chain[s] = 1 .. Len(chain[s])
         /\ chain[s][i] \in Calls /\ chain[s][1] = Head(chain[s])
         /\ Head(chain[s]) \in Calls /\ Head(chain[s]) \in Range(chain[s])
         /\ call[Head(chain[s])].session = s
         /\ Stage(call[Head(chain[s])].state) \in 1 .. 4
         /\ i # 1 => call[chain[s][i]].state = "queued" /\ chain[s][i] # Head(chain[s])
<1>1. chain[s] \in Seq(Calls)
  BY DEF PoolInv, TypeOK
<1>2. /\ Len(chain[s]) \in Nat /\ DOMAIN chain[s] = 1 .. Len(chain[s])
      /\ (chain[s] = <<>> <=> Len(chain[s]) = 0)
      /\ \A j \in 1 .. Len(chain[s]) : chain[s][j] \in Calls
  BY <1>1, LenProperties, EmptySeq, ElementOfSeq
<1>3. i \in 1 .. Len(chain[s]) /\ chain[s] # <<>> /\ Head(chain[s]) = chain[s][1]
      /\ 1 \in DOMAIN chain[s]
  BY <1>1, <1>2
<1>4. Head(chain[s]) \in Range(chain[s]) /\ chain[s][i] \in Range(chain[s])
  BY <1>3 DEF Range
<1>5. Head(chain[s]) \in Calls /\ call[Head(chain[s])].session = s
      /\ call[Head(chain[s])].state \in {"queued", "waiting", "draining", "searching"}
  BY <1>1, <1>2, <1>3, <1>4 DEF PoolInv, TypeOK, CallState, ChainsHoldTheOpenCalls
<1>6. i # 1 => chain[s][i] # Head(chain[s])
  BY <1>3 DEF PoolInv, ChainsDistinct, IsInjective
<1>7. i # 1 => call[chain[s][i]].state = "queued"
  BY <1>2, <1>3, <1>4, <1>6 DEF PoolInv, ChainsHoldTheOpenCalls
<1> QED
  BY <1>1, <1>2, <1>3, <1>4, <1>5, <1>6, <1>7 DEF Stage

(* A session settles its first call or brings it a stage further.          *)
LEMMA SessionStepFalls ==
  ASSUME PoolInv, NEW s \in Sessions, SessionNext(s)
  PROVE  \/ Ends(s)
         \/ /\ GoesOn(s)
            /\ Stage(call'[Head(chain[s])].state) < Stage(call[Head(chain[s])].state)
<1> DEFINE h == Head(chain[s])
<1>1. CASE SendFails(s) \/ Search(s)
  BY <1>1 DEF SendFails, Search, Ends, Running
<1>2. CASE Send(s) \/ Timeout(s) \/ EndDrain(s)
  <2>1. GoesOn(s) /\ h \in Calls
    BY <1>2, RunningFirst DEF Send, Timeout, EndDrain, GoesOn, Over, Running, PoolInv
  <2>2. \/ call[h].state = "queued" /\ call' = [call EXCEPT ![h].state = "waiting"]
        \/ call[h].state = "waiting" /\ call' = [call EXCEPT ![h].state = "draining"]
        \/ call[h].state = "draining" /\ call' = [call EXCEPT ![h].state = "searching"]
    BY <1>2 DEF Send, Timeout, EndDrain, Running
  <2> HIDE DEF h
  <2>3. Stage(call'[h].state) < Stage(call[h].state)
    BY <2>1, <2>2 DEF Stage, PoolInv, TypeOK
  <2> QED
    BY <2>1, <2>3 DEF h
<1> QED
  BY <1>1, <1>2 DEF SessionNext

(* The place of a call after a step, and the work before it.               *)
Advances(s, i) ==
    \/ call'[chain[s][i]].state \in {"replied", "threw"}
    \/ \E j \in DOMAIN chain'[s] :
          /\ chain'[s][j] = chain[s][i]
          /\ Work(s, j)' <= Work(s, i)
          /\ SessionNext(s) => Work(s, j)' < Work(s, i)

(* When the first call of a chain ends, the next one has all its stages    *)
(* before it, which is less than what was left in front of it.             *)
LEMMA EndAdvances ==
  ASSUME PoolInv, NEW s \in Sessions, NEW i \in DOMAIN chain[s], Ends(s)
  PROVE  Advances(s, i)
<1> DEFINE h == Head(chain[s])
           q == Tail(chain[s])
<1>1. PICK state \in {"replied", "threw"} : \E message : Settle(s, state, message)
  BY DEF Ends
<1>2. PICK message : Settle(s, state, message)
  BY <1>1
<1>3. /\ h \in Calls /\ chain[s] \in Seq(Calls) /\ chain[s] # <<>>
      /\ Len(chain[s]) \in Nat /\ i \in 1 .. Len(chain[s])
      /\ chain[s][i] \in Calls /\ chain[s][1] = h
      /\ Stage(call[h].state) \in 1 .. 4
  BY InTheChain
<1>4. chain'[s] = q /\ call'[h].state = state /\ \A c \in Calls : c # h => call'[c] = call[c]
  BY <1>2, <1>3 DEF Settle, PoolInv, TypeOK
<1>5. CASE i = 1
  BY <1>1, <1>3, <1>4, <1>5 DEF Advances
<1>6. CASE i # 1
  <2>1. /\ Len(q) = Len(chain[s]) - 1 /\ q \in Seq(Calls)
        /\ \A j \in 1 .. Len(q) : q[j] = chain[s][j + 1]
    BY <1>3, HeadTailProperties
  <2>2. DOMAIN q = 1 .. Len(q) /\ i - 1 \in 1 .. Len(q) /\ 2 \in DOMAIN chain[s] /\ 2 # 1
    BY <1>3, <1>6, <2>1, LenProperties
  <2>3. q[i - 1] = chain[s][i] /\ Head(q) = chain[s][2]
    BY <1>3, <2>1, <2>2
  <2>4. chain[s][2] \in Calls /\ call[chain[s][2]].state = "queued" /\ chain[s][2] # h
    BY <2>2, InTheChain
  <2>5. call'[Head(q)].state = "queued"
    BY <1>4, <2>3, <2>4
  <2> HIDE DEF q, h
  <2>6. Work(s, i - 1)' = 4 * (i - 2) + 4
    BY <1>3, <1>4, <2>5 DEF Work, Stage
  <2>7. Work(s, i) > 4 * (i - 1) /\ Work(s, i) \in Nat
    BY <1>3 DEF Work, h
  <2>8. Work(s, i - 1)' < Work(s, i) /\ Work(s, i - 1)' <= Work(s, i)
    BY <1>3, <2>6, <2>7
  <2> QED
    BY <1>4, <2>2, <2>3, <2>8 DEF Advances
<1> QED
  BY <1>5, <1>6

(* A chain that nobody leaves keeps its places.                            *)
LEMMA PlaceKept ==
  ASSUME PoolInv, NEW s \in Sessions, NEW i \in DOMAIN chain[s],
         \/ chain'[s] = chain[s]
         \/ \E c \in Calls : chain'[s] = Append(chain[s], c),
         ~SessionNext(s) => call'[Head(chain[s])].state = call[Head(chain[s])].state,
         SessionNext(s) => Stage(call'[Head(chain[s])].state) < Stage(call[Head(chain[s])].state),
         Stage(call'[Head(chain[s])].state) \in 0 .. 4
  PROVE  Advances(s, i)
<1> DEFINE h == Head(chain[s])
<1>1. /\ chain[s] \in Seq(Calls) /\ chain[s] # <<>>
      /\ Len(chain[s]) \in Nat /\ i \in 1 .. Len(chain[s])
      /\ DOMAIN chain[s] = 1 .. Len(chain[s])
      /\ Stage(call[h].state) \in 1 .. 4
  BY InTheChain
<1>2. i \in DOMAIN chain'[s] /\ chain'[s][i] = chain[s][i] /\ Head(chain'[s]) = h
  <2>1. CASE chain'[s] = chain[s]
    BY <2>1
  <2>2. ASSUME NEW c \in Calls, chain'[s] = Append(chain[s], c)
        PROVE  i \in DOMAIN chain'[s] /\ chain'[s][i] = chain[s][i] /\ Head(chain'[s]) = h
    <3>1. /\ Append(chain[s], c) \in Seq(Calls) /\ Len(Append(chain[s], c)) = Len(chain[s]) + 1
          /\ \A j \in 1 .. Len(chain[s]) : Append(chain[s], c)[j] = chain[s][j]
          /\ Head(Append(chain[s], c)) = h
      BY <1>1, AppendProperties, HeadTailAppend
    <3>2. DOMAIN Append(chain[s], c) = 1 .. Len(chain[s]) + 1
      BY <3>1, LenProperties
    <3> QED
      BY <1>1, <2>2, <3>1, <3>2
  <2> QED
    BY <2>1, <2>2
<1>3. /\ Work(s, i) = 4 * (i - 1) + Stage(call[h].state)
      /\ Work(s, i)' = 4 * (i - 1) + Stage(call'[h].state)
  BY <1>2 DEF Work
<1> HIDE DEF h
<1>4. Work(s, i)' <= Work(s, i) /\ (SessionNext(s) => Work(s, i)' < Work(s, i))
  BY <1>1, <1>3 DEF h
<1> QED
  BY <1>2, <1>4 DEF Advances

(* The steps that leave the calls of a chain as they are.                  *)
LEMMA OthersKeepPlace ==
  ASSUME PoolInv, NEW s \in Sessions, NEW i \in DOMAIN chain[s], ~SessionNext(s), [Next]_vars
  PROVE  Advances(s, i)
<1> DEFINE h == Head(chain[s])
<1>1. h \in Calls /\ h \in Range(chain[s]) /\ call[h].session = s
      /\ call[h].state \notin {"idle", "replied", "threw"} /\ Stage(call[h].state) \in 0 .. 4
  BY InTheChain DEF PoolInv, ChainsHoldTheOpenCalls
<1>2. CASE UNCHANGED <<call, chain>>
  BY <1>1, <1>2, PlaceKept
<1>3. ASSUME NEW c \in Calls, Pick(c) PROVE Advances(s, i)
  <2>1. c # h
    BY <1>1, <1>3 DEF Pick
  <2>2. call'[h].state = call[h].state
    BY <1>1, <1>3, <2>1 DEF Pick, PoolInv, TypeOK
  <2>3. chain'[s] = chain[s] \/ chain'[s] = Append(chain[s], c)
    BY <1>3 DEF Pick, PoolInv, TypeOK
  <2> QED
    BY <1>1, <2>2, <2>3, PlaceKept
<1>4. CASE Ends(s)
  BY <1>4, EndAdvances
<1>5. ASSUME NEW t \in Sessions, t # s, GoesOn(t) \/ Ends(t) PROVE Advances(s, i)
  <2> DEFINE g == Head(chain[t])
  <2>1. g \in Calls /\ g \in Range(chain[t])
    BY <1>5, SomebodyInFront DEF PoolInv, TypeOK, GoesOn, Ends
  <2>2. g # h
    BY <1>1, <1>5, <2>1 DEF PoolInv, ChainsHoldTheOpenCalls
  <2>3. \/ \E state : call' = [call EXCEPT ![g].state = state]
        \/ \E state, message : call' = [call EXCEPT ![g].state = state, ![g].got = message]
    BY <1>5 DEF GoesOn, Ends, Settle
  <2>4. chain'[s] = chain[s]
    BY <1>5 DEF GoesOn, Ends, Settle, PoolInv, TypeOK
  <2> HIDE DEF g, h
  <2>5. call'[h] = call[h]
    BY <1>1, <2>1, <2>2, <2>3 DEF PoolInv, TypeOK
  <2> QED
    BY <1>1, <2>4, <2>5, PlaceKept DEF h
<1>6. ASSUME NEW t \in Sessions, SessionNext(t) PROVE Advances(s, i)
  BY <1>5, <1>6, SessionStepFalls
<1>7. ASSUME NEW t \in Sessions, BotNext(t) PROVE Advances(s, i)
  <2>1. UNCHANGED <<call, chain>> \/ Ends(t)
    BY <1>7 DEF BotNext, BotAcknowledges, BotAnswers, Hear, Ends, Running
  <2> QED
    BY <1>2, <1>4, <1>5, <2>1
<1>8. CASE \/ \E c \in Calls : Announce(c)
           \/ \E t \in Sessions : Fail(t) \/ Recover(t) \/ HealthCheck(t)
           \/ UNCHANGED vars
  BY <1>2, <1>8 DEF Announce, Fail, Recover, HealthCheck, vars
<1> QED
  BY <1>3, <1>6, <1>7, <1>8 DEF Next

LEMMA TurnsAdvance ==
  ASSUME PoolInv, [Next]_vars, NEW s \in Sessions, NEW i \in DOMAIN chain[s]
  PROVE  Advances(s, i)
<1> DEFINE h == Head(chain[s])
<1>1. CASE ~SessionNext(s)
  BY <1>1, OthersKeepPlace
<1>2. CASE SessionNext(s) /\ Ends(s)
  BY <1>2, EndAdvances
<1>3. CASE /\ SessionNext(s) /\ GoesOn(s)
           /\ Stage(call'[h].state) < Stage(call[h].state)
  <2>1. Stage(call'[h].state) \in 0 .. 4
    BY DEF Stage
  <2>2. chain'[s] = chain[s]
    BY <1>3 DEF GoesOn
  <2> QED
    BY <1>3, <2>1, <2>2, PlaceKept
<1> QED
  BY <1>1, <1>2, <1>3, SessionStepFalls

(* The timers and promises of session-pool.ts settle every call that is    *)
(* chained in a number of steps its place bounds: runExclusive never hands *)
(* a place back, no error in front of a call adds to its wait, and nobody  *)
(* who comes later gets before it.                                         *)
THEOREM TurnsEndAtLast == Spec => TurnsRunOut
<1>1. PoolInv /\ [Next]_vars
      => [\A s \in Sessions : \A i \in DOMAIN chain[s] : Advances(s, i)]_vars
  BY TurnsAdvance
<1> QED
  BY <1>1, PoolInvHolds, PTL DEF Spec, TurnsRunOut, Advances
=============================================================================
