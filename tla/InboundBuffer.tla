---------------------------- MODULE InboundBuffer ----------------------------
(***************************************************************************)
(* The debounce buffer of ONE conversation: InboundBufferService, the two  *)
(* use cases that feed it (ReceiveInboundMessage, ReceiveInboundEdit) and  *)
(* the flush handler wired in container.ts.  Buffers of different          *)
(* conversations share no state.                                           *)
(*                                                                         *)
(* Grain: one action is what Node runs without yielding.  The service uses *)
(* one ioredis connection, so its commands are executed, and their replies *)
(* handled, in the order they were sent: `cmds' is that pipeline, and the  *)
(* effect of a command is taken together with the continuation of its      *)
(* reply (only this connection reads or writes the list in between).       *)
(***************************************************************************)
EXTENDS Naturals, Sequences, FiniteSets

CONSTANTS
    Messages,   \* messages the provider delivers for this conversation
    MaxEdits,   \* bound: edits of one message
    MaxReq,     \* bound: value of timerRequestIds (never reached by the runs)
    Slow,       \* TRUE: a Redis reply or a settings read may outlast a debounce
    Faults      \* failures that happen, a subset of FaultKinds

ASSUME BoundsAssumption == MaxEdits \in Nat /\ MaxReq \in Nat
FaultKinds == {"restart", "redis", "database"}

ASSUME SwitchAssumption == Slow \in BOOLEAN /\ Faults \subseteq FaultKinds

VARIABLES
    persisted,  \* messages inserted in the message table
    pushing,    \* inserted, their handler has not called push yet
    body,       \* body[m]: how many edits of m the database holds
    late,       \* edits not buffered, whose handler awaits findActiveByConversation
    list,       \* the Redis list buffer:conversation:<id>:messages
    cmds,       \* Redis commands sent and not yet answered
    reqId,      \* timerRequestIds entry, 0 when absent
    resolving,  \* resolving[r]: resolveDebounceMs calls pending for request r
    mapped,     \* a timer is in the map `timers'
    orphans,    \* live timers that are no longer in the map
    processing, \* the conversation is in processingConversations
    flushes,    \* onFlush calls running: [from, to, loaded]
    arrived,    \* history: ids in the order of their rpush
    handed,     \* history: ids handed to onFlush, in order
    read,       \* history: read[m]: newest body of m a flush has loaded
    buffered    \* history: messages whose last edit was reported as buffered

feedVars  == <<persisted, pushing, body, late>>
redisVars == <<list, cmds>>
timerVars == <<reqId, resolving, mapped, orphans>>
flushVars == <<processing, flushes>>
vars == <<feedVars, redisVars, timerVars, flushVars, arrived, handed, read, buffered>>

RPush(m) == [op |-> "rpush", msg |-> m]
Commands == {RPush(m) : m \in Messages} \cup {[op |-> "take"], [op |-> "llen"]}

Outstanding(op) == \E i \in DOMAIN cmds : cmds[i].op = op

\* The k-th of a set of positions, and what the commands at some positions push.
Nth(P, k) == CHOOSE i \in P : Cardinality({j \in P : j <= i}) = k
Pushes(P) == {i \in P : cmds[i].op = "rpush"}
Pushed(P) == [k \in 1..Cardinality(Pushes(P)) |-> cmds[Nth(Pushes(P), k)].msg]

HasActiveBuffer == mapped \/ reqId > 0

Init ==
    /\ persisted = {} /\ pushing = {} /\ late = {}
    /\ body = [m \in Messages |-> 0]
    /\ list = <<>> /\ cmds = <<>>
    /\ reqId = 0 /\ resolving = [r \in 1..MaxReq |-> 0]
    /\ mapped = FALSE /\ orphans = 0
    /\ processing = FALSE /\ flushes = {}
    /\ arrived = <<>> /\ handed = <<>>
    /\ read = [m \in Messages |-> 0] /\ buffered = {}

-----------------------------------------------------------------------------
(* Timers *)

\* reschedule() when the conversation's request id is r (0: no entry).
RescheduleFrom(r) ==
    /\ r < MaxReq
    /\ reqId' = r + 1
    /\ resolving' = [resolving EXCEPT ![r + 1] = @ + 1]
    /\ mapped' = FALSE

\* The `then' of resolveDebounceMs: a superseded request arms nothing; setting
\* the map entry does not clear a timer that is already there.
Resolve(r) ==
    /\ resolving[r] > 0
    /\ resolving' = [resolving EXCEPT ![r] = @ - 1]
    /\ mapped' = (mapped \/ reqId = r)
    /\ orphans' = IF reqId = r /\ mapped THEN orphans + 1 ELSE orphans
    /\ UNCHANGED <<reqId, feedVars, redisVars, flushVars, arrived, handed, read, buffered>>

\* Mutant of Drain: the processing guard is gone.
DrainUnguarded ==
    /\ cmds' = Append(cmds, [op |-> "take"])
    /\ reqId' = 0 /\ mapped' = FALSE
    /\ UNCHANGED resolving

\* drain() up to its first await, run by a timer.
Drain ==
    IF processing
    THEN RescheduleFrom(0) /\ UNCHANGED cmds
    ELSE /\ cmds' = Append(cmds, [op |-> "take"])
         /\ reqId' = 0 /\ mapped' = FALSE
         /\ UNCHANGED resolving

\* With Slow = FALSE the settings read and the Redis replies are faster than
\* the debounce (seconds), so none is outstanding when a timer expires.
TimeToFire ==
    Slow \/ (~Outstanding("take") /\ \A r \in DOMAIN resolving : resolving[r] = 0)

FireMapped ==
    /\ mapped /\ TimeToFire
    /\ Drain
    /\ UNCHANGED <<orphans, list, feedVars, flushVars, arrived, handed, read, buffered>>

\* A timer that lost its map entry: its drain deletes the entry of the other.
FireOrphan ==
    /\ orphans > 0 /\ TimeToFire
    /\ orphans' = IF mapped THEN orphans ELSE orphans - 1
    /\ Drain
    /\ UNCHANGED <<list, feedVars, flushVars, arrived, handed, read, buffered>>

-----------------------------------------------------------------------------
(* Messages and edits *)

\* ReceiveInboundMessage up to the push; a redelivered webhook finds the row
\* (isDuplicate) and changes nothing.
Receive(m) ==
    /\ m \notin persisted
    /\ persisted' = persisted \cup {m}
    /\ pushing' = pushing \cup {m}
    /\ UNCHANGED <<body, late, redisVars, timerVars, flushVars, arrived, handed, read, buffered>>

Send(m) == /\ cmds' = Append(cmds, RPush(m))
           /\ arrived' = Append(arrived, m)

Push(m) ==
    /\ m \in pushing
    /\ pushing' = pushing \ {m}
    /\ Send(m)
    /\ UNCHANGED <<persisted, body, late, list, timerVars, flushVars, handed, read, buffered>>

\* ReceiveInboundEdit: the body is updated, then touch() decides whether the
\* edit is buffered (the timer restarts) or late.
Edit(m) ==
    /\ m \in persisted /\ m \notin late /\ body[m] < MaxEdits
    /\ body' = [body EXCEPT ![m] = @ + 1]
    /\ IF HasActiveBuffer
       THEN /\ RescheduleFrom(reqId)
            /\ buffered' = buffered \cup {m}
            /\ UNCHANGED <<orphans, late>>
       ELSE /\ late' = late \cup {m}
            /\ buffered' = buffered \ {m}
            /\ UNCHANGED timerVars
    /\ UNCHANGED <<persisted, pushing, redisVars, flushVars, arrived, handed, read>>

\* A late edit is pushed again when the conversation has a case the automation
\* is serving; the case is not part of this module, so either outcome.
LateEdit(m) ==
    /\ m \in late
    /\ late' = late \ {m}
    /\ \/ Send(m)
       \/ UNCHANGED <<cmds, arrived>>
    /\ UNCHANGED <<persisted, pushing, body, list, timerVars, flushVars, handed, read, buffered>>

-----------------------------------------------------------------------------
(* Replies of Redis *)

Answered(op) == /\ cmds # <<>> /\ Head(cmds).op = op
                /\ cmds' = Tail(cmds)

\* Mutants of RPushReply: LPUSH for RPUSH; and push() rescheduling only when a
\* buffer is active, as touch() does.
LPushReply ==
    /\ Answered("rpush")
    /\ list' = <<Head(cmds).msg>> \o list
    /\ RescheduleFrom(reqId)
    /\ UNCHANGED <<orphans, feedVars, flushVars, arrived, handed, read, buffered>>

RPushReplyTouching ==
    /\ Answered("rpush")
    /\ list' = Append(list, Head(cmds).msg)
    /\ IF HasActiveBuffer THEN RescheduleFrom(reqId) ELSE UNCHANGED <<reqId, resolving, mapped>>
    /\ UNCHANGED <<orphans, feedVars, flushVars, arrived, handed, read, buffered>>

RPushReply ==
    /\ Answered("rpush")
    /\ list' = Append(list, Head(cmds).msg)
    /\ RescheduleFrom(reqId)
    /\ UNCHANGED <<orphans, feedVars, flushVars, arrived, handed, read, buffered>>

\* Mutant of TakeReply: the script reads the list and does not delete it.
TakeReplyKeeping ==
    /\ Answered("take")
    /\ handed' = handed \o list
    /\ IF list = <<>>
       THEN UNCHANGED flushVars
       ELSE /\ processing' = TRUE
            /\ flushes' = flushes \cup {[from |-> Len(handed) + 1,
                                         to |-> Len(handed) + Len(list),
                                         loaded |-> FALSE]}
    /\ UNCHANGED <<list, feedVars, timerVars, arrived, read, buffered>>

\* DRAIN_BUFFER_SCRIPT reads and deletes the list in one step; nothing read,
\* nothing to flush.
TakeReply ==
    /\ Answered("take")
    /\ list' = <<>>
    /\ handed' = handed \o list
    /\ IF list = <<>>
       THEN UNCHANGED flushVars
       ELSE /\ processing' = TRUE
            /\ flushes' = flushes \cup {[from |-> Len(handed) + 1,
                                         to |-> Len(handed) + Len(list),
                                         loaded |-> FALSE]}
    /\ UNCHANGED <<feedVars, timerVars, arrived, read, buffered>>

LlenReply ==
    /\ Answered("llen")
    /\ IF list # <<>> /\ ~mapped
       THEN RescheduleFrom(reqId) /\ UNCHANGED orphans
       ELSE UNCHANGED timerVars
    /\ UNCHANGED <<list, feedVars, flushVars, arrived, handed, read, buffered>>

-----------------------------------------------------------------------------
(* The flush handler *)

\* onFlush first reads the rows of the batch (findByIds).
Load(f) ==
    /\ ~f.loaded
    /\ flushes' = (flushes \ {f}) \cup {[f EXCEPT !.loaded = TRUE]}
    /\ read' = [m \in Messages |->
                  IF \E i \in f.from..f.to : handed[i] = m THEN body[m] ELSE read[m]]
    /\ UNCHANGED <<processing, feedVars, redisVars, timerVars, arrived, handed, buffered>>

\* Mutant of FlushEnd: the conversation stays in processingConversations.
FlushEndBusy(f) ==
    /\ f.loaded \/ "database" \in Faults
    /\ flushes' = flushes \ {f}
    /\ cmds' = Append(cmds, [op |-> "llen"])
    /\ UNCHANGED <<processing, list, feedVars, timerVars, arrived, handed, read, buffered>>

\* onFlush returns or throws: `finally' is the same for both.  It cannot end
\* before the rows are read unless the database fails.
FlushEnd(f) ==
    /\ f.loaded \/ "database" \in Faults
    /\ flushes' = flushes \ {f}
    /\ processing' = FALSE
    /\ cmds' = Append(cmds, [op |-> "llen"])
    /\ UNCHANGED <<list, feedVars, timerVars, arrived, handed, read, buffered>>

-----------------------------------------------------------------------------
(* Failures *)

\* What Redis has executed of the pipeline when its replies are lost.
Executed(l, c) ==
    CASE c.op = "rpush" -> Append(l, c.msg)
      [] c.op = "take"  -> <<>>
      [] c.op = "llen"  -> l

\* The connection gives up on the oldest command (maxRetriesPerRequest), which
\* Redis has executed or not.  push() rejects before reschedule; drain()
\* rejects before processing.add, or after processing.delete.
RedisError ==
    /\ "redis" \in Faults /\ cmds # <<>>
    /\ cmds' = Tail(cmds)
    /\ list' \in {list, Executed(list, Head(cmds))}
    /\ UNCHANGED <<feedVars, timerVars, flushVars, arrived, handed, read, buffered>>

\* Of the first n commands: those after the last `take'.
SinceTake(n) == {i \in 1..n : \A t \in i..n : cmds[t].op # "take"}

\* The process stops (shutdown clears the timers; a crash drops them) and
\* starts again: the list and the message rows survive, nothing else does.
\* Redis may have executed any prefix of the pipeline.
Restart ==
    /\ "restart" \in Faults
    /\ \E n \in 0..Len(cmds) :
         list' = (IF SinceTake(n) = 1..n THEN list ELSE <<>>) \o Pushed(SinceTake(n))
    /\ cmds' = <<>> /\ pushing' = {} /\ late' = {}
    /\ reqId' = 0 /\ resolving' = [r \in 1..MaxReq |-> 0]
    /\ mapped' = FALSE /\ orphans' = 0
    /\ processing' = FALSE /\ flushes' = {}
    /\ UNCHANGED <<persisted, body, arrived, handed, read, buffered>>

-----------------------------------------------------------------------------
Next ==
    \/ \E m \in Messages : Receive(m) \/ Push(m) \/ Edit(m) \/ LateEdit(m)
    \/ \E r \in 1..MaxReq : Resolve(r)
    \/ FireMapped \/ FireOrphan
    \/ RPushReply \/ TakeReply \/ LlenReply
    \/ \E f \in flushes : Load(f) \/ FlushEnd(f)
    \/ RedisError \/ Restart

Spec == Init /\ [][Next]_vars

\* The event loop runs every due timer and callback, and Redis answers.
Fairness ==
    /\ \A m \in Messages : WF_vars(Push(m)) /\ WF_vars(LateEdit(m))
    /\ \A r \in 1..MaxReq : WF_vars(Resolve(r))
    /\ WF_vars(FireMapped) /\ WF_vars(FireOrphan)
    /\ WF_vars(RPushReply) /\ WF_vars(TakeReply) /\ WF_vars(LlenReply)
    /\ WF_vars(\E f \in flushes : Load(f))
    /\ WF_vars(\E f \in flushes : FlushEnd(f))

FairSpec == Spec /\ Fairness

-----------------------------------------------------------------------------
(* Properties *)

QueuedIds == Pushed(DOMAIN cmds)

FeedTypes ==
    /\ pushing \subseteq persisted /\ persisted \subseteq Messages
    /\ late \subseteq persisted /\ buffered \subseteq persisted
    /\ body \in [Messages -> 0..MaxEdits] /\ read \in [Messages -> 0..MaxEdits]

RedisTypes == list \in Seq(Messages) /\ cmds \in Seq(Commands)

TimerTypes ==
    /\ reqId \in 0..MaxReq /\ resolving \in [1..MaxReq -> Nat]
    /\ mapped \in BOOLEAN /\ orphans \in Nat

FlushTypes ==
    /\ processing \in BOOLEAN
    /\ arrived \in Seq(Messages) /\ handed \in Seq(Messages)
    /\ flushes \subseteq [from : Nat, to : Nat, loaded : BOOLEAN]
    /\ \A f \in flushes : 1 <= f.from /\ f.from <= f.to /\ f.to <= Len(handed)

\* Types, and the relations between the fields of the service that a type
\* does not show: a running flush names a stretch of what was handed over.
TypeOK == FeedTypes /\ RedisTypes /\ TimerTypes /\ FlushTypes

\* inbound-buffer.service.ts DRAIN_BUFFER_SCRIPT, push, drain: what was pushed
\* is what was handed over, then what Redis holds, then what is on its way to
\* Redis -- nothing lost, repeated or reordered between the three places.
Conservation == handed \o list \o QueuedIds = arrived

\* A wake-up source: something that will look at the list again.
ArmedResolve == reqId > 0 /\ resolving[reqId] > 0
WakeUp == \/ mapped \/ orphans > 0 \/ ArmedResolve
          \/ cmds # <<>> \/ flushes # {}

\* inbound-buffer.service.ts reschedule, drain: ids in the Redis list are never
\* left without a timer, a settings read, a Redis reply or a flush that leads
\* to a drain, whatever order the callbacks run in.
NoStrandedList == list # <<>> => WakeUp

\* inbound-buffer.service.ts:127 "Evitar flushes paralelos para la misma
\* conversacion": at most one flush handler runs per conversation.
SerialFlush == Cardinality(flushes) <= 1

\* inbound-buffer.service.ts:11-15,148: with crashes and lost replies an id can
\* be lost, but never reaches two batches of one push, and never overtakes an
\* earlier one.
AtMostOnceInOrder ==
    \E pick \in SUBSET DOMAIN arrived :
        handed \o list \o QueuedIds = [k \in 1..Cardinality(pick) |-> arrived[Nth(pick, k)]]

\* What the buffer promises, implemented: see DebouncedInbox.
Promise == INSTANCE DebouncedInbox
ImplementsInbox == Promise!Spec
=============================================================================
