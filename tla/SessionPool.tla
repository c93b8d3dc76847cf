----------------------------- MODULE SessionPool -----------------------------
(***************************************************************************)
(* The Telegram session pool of the worker: sendAndAwaitReply picks the    *)
(* least busy healthy session and queues on it; one call at a time         *)
(* attaches a handler, sends /login and takes the bot's next message for   *)
(* its reply.  After a timeout late messages are drained and the chat      *)
(* history is searched.  The bot answers when it likes; sessions fail.     *)
(***************************************************************************)
EXTENDS Naturals, FiniteSets, Sequences, SequencesExt

CONSTANTS
    Sessions,    \* the MTProto sessions of the pool
    Calls,       \* the calls of sendAndAwaitReply
    NoSession,   \* the session of a call that has none
    Codes,       \* device codes
    Uncommitted, \* the calls whose login, if accepted, will not be committed
    MaxFaults    \* bound: how often sessions fail and the bot repeats itself

ASSUME NoSessionAssumption == NoSession \notin Sessions
ASSUME UncommittedAssumption == Uncommitted \subseteq Calls
ASSUME MaxFaultsAssumption == MaxFaults \in Nat

VARIABLES
    up,        \* the sessions Telegram would accept
    healthy,   \* the sessions the pool believes in
    chain,     \* the calls queued on a session, the running one first
    call,      \* what became of each call
    chat,      \* the chat of a session with the bot, oldest message first
    owed,      \* the calls whose command the bot has not fully answered
    faults,    \* how often a session failed or the bot repeated itself
    orderly    \* whether this bot is the one the pool is built for

vars == <<up, healthy, chain, call, chat, owed, faults, orderly>>

(* A message of a chat: the call it is about, whether it names the code.   *)
Message == [about : Calls, kind : {"command", "placeholder", "final", "notice"},
            named : BOOLEAN]

NoMessage == [about |-> "none", kind |-> "none", named |-> FALSE]

CallState == {"idle", "queued", "waiting", "draining", "searching", "replied", "threw"}

TypeOK ==
    /\ up \subseteq Sessions /\ healthy \subseteq Sessions
    /\ chain \in [Sessions -> Seq(Calls)]
    /\ call \in [Calls -> [state : CallState, session : Sessions \cup {NoSession}, code : Codes,
                          got : Message \cup {NoMessage}]]
    /\ \A c \in Calls : call[c].got = NoMessage <=> call[c].state # "replied"
    /\ chat \in [Sessions -> Seq(Message)]
    /\ owed \in [Sessions -> SUBSET Calls]
    /\ faults \in 0 .. MaxFaults
    /\ orderly \in BOOLEAN

Init ==
    /\ up = Sessions /\ healthy = Sessions
    /\ chain = [s \in Sessions |-> <<>>]
    /\ call \in [Calls -> [state : {"idle"}, session : {NoSession}, code : Codes,
                           got : {NoMessage}]]
    /\ chat = [s \in Sessions |-> <<>>]
    /\ owed = [s \in Sessions |-> {}]
    /\ faults = 0
    /\ orderly \in BOOLEAN

(* An orderly bot says "processing" while the call still waits, answers a  *)
(* command once and never later than a drain ends.  Another may repeat     *)
(* itself, say first what no pattern knows, and be as late as it likes.    *)

-----------------------------------------------------------------------------
(* Picking a session *)

(* Every candidate of the round robin: least inFlight among the healthy.   *)
Candidates == {s \in healthy : \A t \in healthy : Len(chain[s]) <= Len(chain[t])}

Pick(c) ==
    /\ call[c].state = "idle"
    /\ IF healthy = {}
       THEN /\ call' = [call EXCEPT ![c].state = "threw"]
            /\ UNCHANGED chain
       ELSE \E s \in Candidates :
                /\ call' = [call EXCEPT ![c].state = "queued", ![c].session = s]
                /\ chain' = [chain EXCEPT ![s] = Append(@, c)]
    /\ UNCHANGED <<up, healthy, chat, owed, faults, orderly>>

-----------------------------------------------------------------------------
(* The call at the head of a session's chain *)

Running(s, state) == chain[s] # <<>> /\ call[Head(chain[s])].state = state

(* Mutant: runExclusive chains the next call on success only.              *)
SettleOnlyReplies(s, state, message) ==
    /\ call' = [call EXCEPT ![Head(chain[s])].state = state, ![Head(chain[s])].got = message]
    /\ chain' = IF state = "replied" THEN [chain EXCEPT ![s] = Tail(@)] ELSE chain

Settle(s, state, message) ==
    /\ call' = [call EXCEPT ![Head(chain[s])].state = state, ![Head(chain[s])].got = message]
    /\ chain' = [chain EXCEPT ![s] = Tail(@)]

Post(s, c, kind, named) ==
    chat' = [chat EXCEPT ![s] = Append(@, [about |-> c, kind |-> kind, named |-> named])]

(* Mutant: the calls of a session do not wait for each other.              *)
SendOutOfTurn(s) ==
    /\ s \in up
    /\ \E c \in Range(chain[s]) :
          /\ call[c].state = "queued"
          /\ call' = [call EXCEPT ![c].state = "waiting"]
          /\ Post(s, c, "command", TRUE)
          /\ owed' = [owed EXCEPT ![s] = @ \cup {c}]
    /\ UNCHANGED <<up, healthy, chain, faults, orderly>>

(* collectReply attaches its handler and sends the command.                *)
Send(s) ==
    /\ Running(s, "queued")
    /\ s \in up
    /\ LET c == Head(chain[s]) IN
       /\ call' = [call EXCEPT ![c].state = "waiting"]
       /\ Post(s, c, "command", TRUE)
       /\ owed' = [owed EXCEPT ![s] = @ \cup {c}]
    /\ UNCHANGED <<up, healthy, chain, faults, orderly>>

(* sendMessage is rejected and the call throws.  The error of a dead       *)
(* session takes it out of the pool, another (flood wait) does not.        *)
SendFails(s) ==
    /\ Running(s, "queued")
    /\ Settle(s, "threw", NoMessage)
    /\ healthy' = IF s \in up THEN healthy ELSE healthy \ {s}
    /\ UNCHANGED <<up, chat, owed, faults, orderly>>

(* Mutant: the call leaves the chain when it times out, not when it ends.  *)
TimeoutReleases(s) ==
    /\ Running(s, "waiting")
    /\ call' = [call EXCEPT ![Head(chain[s])].state = "draining"]
    /\ chain' = [chain EXCEPT ![s] = Tail(@)]
    /\ UNCHANGED <<up, healthy, chat, owed, faults, orderly>>

(* Neither a reply in time nor a rejection.                                *)
Timeout(s) ==
    /\ Running(s, "waiting")
    /\ call' = [call EXCEPT ![Head(chain[s])].state = "draining"]
    /\ UNCHANGED <<up, healthy, chain, chat, owed, faults, orderly>>

(* Mutant: the chain is released without draining.                         *)
EndDrainAtOnce(s) ==
    /\ Running(s, "draining")
    /\ call' = [call EXCEPT ![Head(chain[s])].state = "searching"]
    /\ UNCHANGED <<up, healthy, chain, chat, owed, faults, orderly>>

(* Three seconds later.  An orderly bot has said all it had to say.        *)
EndDrain(s) ==
    /\ Running(s, "draining")
    /\ orderly => owed[s] = {}
    /\ call' = [call EXCEPT ![Head(chain[s])].state = "searching"]
    /\ UNCHANGED <<up, healthy, chain, chat, owed, faults, orderly>>

Names(message, code) == message.named /\ call[message.about].code = code

(* findRecentBotReply: newest first, messages that name the code and are   *)
(* no mere placeholder; it does not look at who wrote them.                *)
Recent(s, code) ==
    {i \in DOMAIN chat[s] : Names(chat[s][i], code) /\ chat[s][i].kind # "placeholder"}

Newest(found, i) == i \in found /\ \A j \in found : j <= i

(* The newest such message is the reply; without one, or when the history  *)
(* cannot be fetched, the timeout is thrown after all.                     *)
Search(s) ==
    /\ Running(s, "searching")
    /\ LET found == Recent(s, call[Head(chain[s])].code) IN
       \/ s \in up /\ \E i \in DOMAIN chat[s] :
             Newest(found, i) /\ Settle(s, "replied", chat[s][i])
       \/ (found = {} \/ s \notin up) /\ Settle(s, "threw", NoMessage)
    /\ UNCHANGED <<up, healthy, chat, owed, faults, orderly>>

-----------------------------------------------------------------------------
(* The bot *)

(* A message reaches the handler of the call that waits on this session,   *)
(* whichever command it answers; nobody else listens.                      *)
Hear(s, message) ==
    IF Running(s, "waiting")
    THEN Settle(s, "replied", message)
    ELSE UNCHANGED <<call, chain>>

(* The handler skips "processing" and arms its timer again; at or after    *)
(* the deadline, with the timer not yet run, it takes it for the reply.    *)
BotAcknowledges(s, c) ==
    /\ c \in owed[s] /\ s \in up
    /\ ~\E i \in DOMAIN chat[s] : chat[s][i].about = c /\ chat[s][i].kind = "placeholder"
    /\ Post(s, c, "placeholder", TRUE)
    /\ \/ UNCHANGED <<call, chain>>
       \/ ~orderly /\ Hear(s, [about |-> c, kind |-> "placeholder", named |-> TRUE])
    /\ UNCHANGED <<up, healthy, owed, faults, orderly>>

(* Any other message is taken for the reply.  A disorderly bot may have    *)
(* more to say about the same command.                                     *)
BotAnswers(s, c) ==
    /\ c \in owed[s] /\ s \in up
    /\ \E named \in BOOLEAN :
          /\ Post(s, c, "final", named)
          /\ Hear(s, [about |-> c, kind |-> "final", named |-> named])
    /\ \/ owed' = [owed EXCEPT ![s] = @ \ {c}] /\ UNCHANGED faults
       \/ /\ ~orderly /\ faults < MaxFaults
          /\ faults' = faults + 1
          /\ UNCHANGED owed
    /\ UNCHANGED <<up, healthy, orderly>>

(* processJob announces a failed commit in the same chat, outside of the   *)
(* chain; the bot may have something to say to that, too.                  *)
Announce(c) ==
    LET s == call[c].session IN
    /\ c \in Uncommitted /\ s \in up
    /\ call[c].state = "replied" /\ call[c].got.kind = "final"
    /\ ~\E i \in DOMAIN chat[s] : chat[s][i].about = c /\ chat[s][i].kind = "notice"
    /\ Post(s, c, "notice", TRUE)
    /\ owed' = [owed EXCEPT ![s] = @ \cup {c}]
    /\ UNCHANGED <<up, healthy, chain, call, faults, orderly>>

-----------------------------------------------------------------------------
(* Sessions fail, recover, and are checked every minute *)

Fail(s) ==
    /\ s \in up /\ faults < MaxFaults
    /\ up' = up \ {s}
    /\ faults' = faults + 1
    /\ UNCHANGED <<healthy, chain, call, chat, owed, orderly>>

Recover(s) ==
    /\ s \notin up
    /\ up' = up \cup {s}
    /\ UNCHANGED <<healthy, chain, call, chat, owed, faults, orderly>>

(* Mutant: a session once found dead is never taken back.                  *)
HealthCheckOnlyRemoves(s) ==
    /\ healthy' = IF s \in up THEN healthy ELSE healthy \ {s}
    /\ UNCHANGED <<up, chain, call, chat, owed, faults, orderly>>

HealthCheck(s) ==
    /\ healthy' = IF s \in up THEN healthy \cup {s} ELSE healthy \ {s}
    /\ UNCHANGED <<up, chain, call, chat, owed, faults, orderly>>

SessionNext(s) == Send(s) \/ SendFails(s) \/ Timeout(s) \/ EndDrain(s) \/ Search(s)

BotNext(s) == \E c \in Calls : BotAcknowledges(s, c) \/ BotAnswers(s, c)

Next ==
    \/ \E c \in Calls : Pick(c) \/ Announce(c)
    \/ \E s \in Sessions : SessionNext(s) \/ BotNext(s) \/ Fail(s) \/ Recover(s) \/ HealthCheck(s)

Spec == Init /\ [][Next]_vars

(* Timers fire, promises settle and the health loop runs.  Nothing is      *)
(* assumed of the bot.                                                     *)
FairSpec ==
    /\ Spec
    /\ \A s \in Sessions : WF_vars(SessionNext(s)) /\ WF_vars(HealthCheck(s))

-----------------------------------------------------------------------------
(* Properties *)

Noticed(s) == \E i \in DOMAIN chat[s] : chat[s][i].kind = "notice"

(* With an orderly bot a reply settles the call whose command it answers:  *)
(* calls of one session take turns, and what comes late is drained before  *)
(* the next turn, so that a late reply is never the next call's, and       *)
(* "processing" is no result, heard or found in the chat.  (The call's own *)
(* command, found in the chat, does count as its reply.)  The answer to    *)
(* the notice of a failed commit, sent outside of the turns, breaks that   *)
(* even so; replies that are doubled, late or of an unknown form, and a    *)
(* "processing" at the deadline, break it with a disorderly bot.           *)
ReplyIsOwn ==
    orderly => \A c \in Calls : call[c].state = "replied" =>
        /\ call[c].got.kind # "placeholder"
        /\ call[c].got.about = c \/ Noticed(call[c].session)

(* The pool holds exactly the calls that have neither replied nor thrown,  *)
(* each on its own session, and only the first of a chain has begun.       *)
ChainsHoldTheOpenCalls ==
    \A c \in Calls, s \in Sessions :
        /\ c \in Range(chain[s]) <=> /\ call[c].session = s
                                     /\ call[c].state \notin {"idle", "replied", "threw"}
        /\ c \in Range(chain[s]) /\ call[c].state # "queued" => c = Head(chain[s])

(* Commands of one chat take turns: by the time a command is posted every  *)
(* earlier one of that chat has its call settled, so that no two calls     *)
(* ever wait in one chat, whatever the bot says and when.                  *)
TurnsAreTaken ==
    \A s \in Sessions : \A i, j \in DOMAIN chat[s] :
        i < j /\ chat[s][i].kind = "command" /\ chat[s][j].kind = "command"
        => call[chat[s][i].about].state \in {"replied", "threw"}

(* Every call ends, whatever a disorderly bot, which may never answer, and *)
(* the sessions do: timers bound the call, and an error in front of it     *)
(* does not break the chain.                                               *)
CallsEnd ==
    ~orderly => \A c \in Calls : call[c].state = "queued" ~> call[c].state \in {"replied", "threw"}

(* A session that recovered for good is used again.                        *)
RecoveredIsHealthy == \A s \in Sessions : <>[](s \in up) => <>[](s \in healthy)
=============================================================================
