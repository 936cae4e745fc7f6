---------------------------- MODULE CaseDispatch ----------------------------
(***************************************************************************)
(* Hand-over of cases from the automation to human agents: the handlers of *)
(* modules/escalation and modules/cases that read and write the same rows  *)
(* of "case", "automation_state" and "escalation" for one department.      *)
(*                                                                         *)
(* Grain: a handler awaits after every SQL statement, so one action is one *)
(* statement (or the reads before it that no other handler writes).  All   *)
(* status changes go through applyTransition, which checks the version the *)
(* handler read; owner and automation are written without a check.         *)
(***************************************************************************)
EXTENDS Naturals, Sequences, FiniteSets

CONSTANTS
    Cases, Agents, \* agents: members of the department, active, autoAssignEnabled
    Nobody,        \* assigned_agent_id IS NULL
    Calls,         \* handler invocations; each runs once (bounds the history)
    Ops,           \* which handlers the instance runs, a subset of Handlers
    Queued,        \* sets of cases escalated and waiting when the history starts
    Cap,           \* department.max_concurrent_cases
    Serial,        \* TRUE: at most one dispatching call runs at a time
    CanFail        \* TRUE: a statement may fail or the process may die

Handlers == {"escalate", "advance", "drain", "claim", "take", "assign",
             "transfer", "complete", "cancel", "disable", "reactivate"}

ASSUME OpsAssumption == Ops \subseteq Handlers
ASSUME CasesAssumption == IsFiniteSet(Cases) /\ Cases # {}
ASSUME AgentsAssumption == IsFiniteSet(Agents) /\ Nobody \notin Agents
ASSUME QueuedAssumption == Queued \subseteq SUBSET Cases
ASSUME CapAssumption == Cap \in Nat \ {0}
ASSUME SwitchAssumption == Serial \in BOOLEAN /\ CanFail \in BOOLEAN

VARIABLES
    status, version,  \* "case".status and .version (workflow_instance.version moves with it)
    owner,            \* "case".assigned_agent_id
    automation,       \* automation_state.enabled
    rows,             \* the escalation table, in order of created_at
    connected,        \* agents with an SSE connection (RealtimeBroadcaster)
    pc, op,           \* per call: the next statement, and the handler it runs
    target, actor,    \* per call: its case, and the agent it acts for or picked
    snap,             \* per call: the aggregate the handler holds
    local             \* per call: [row, todo, roster, loads], the locals of a dispatcher

tables == <<status, version, owner, automation, rows>>
frame  == <<pc, op, target, actor, snap, local>>
vars   == <<tables, connected, frame>>

Closed == {"COMPLETED", "CANCELLED"}
Automatable == {"ACTIVE", "WAITING_USER"}
Statuses == Automatable \cup Closed \cup {"ESCALATED", "HUMAN_ACTIVE"}

\* countActiveCasesByAgent, for one agent.
Load(a) == Cardinality({c \in Cases : owner[c] = a /\ status[c] = "HUMAN_ACTIVE"})

\* Indices of the escalation rows of a case; findByCaseId takes the newest.
RowsOf(c) == {i \in DOMAIN rows : rows[i].case = c}
Newest(S) == CHOOSE i \in S : \A j \in S : j <= i

Snapshot(c) == [status |-> status[c], version |-> version[c], owner |-> owner[c]]

NoLocals == [row |-> 0, todo |-> {}, roster |-> {}, loads |-> [a \in Agents |-> 0]]

Pending(c) == [case |-> c, status |-> "PENDING", agent |-> Nobody]

\* The cases of Q are escalated, with their row, and no agent has connected yet;
\* the automation is serving the others.
InitWith(Q) ==
    /\ status \in {s \in [Cases -> Automatable \cup {"ESCALATED"}] :
                     \A c \in Cases : s[c] = "ESCALATED" <=> c \in Q}
    /\ automation = [c \in Cases |-> c \notin Q]
    /\ rows \in {r \in [1..Cardinality(Q) -> {Pending(c) : c \in Q}] :
                   \A i, j \in DOMAIN r : r[i] = r[j] => i = j}
    /\ connected \in IF Q = {} THEN SUBSET Agents ELSE {{}}

Init ==
    /\ \E Q \in Queued : InitWith(Q)
    /\ version = [c \in Cases |-> 0]
    /\ owner = [c \in Cases |-> Nobody]
    /\ pc = [p \in Calls |-> "idle"] /\ op = [p \in Calls |-> "none"]
    /\ target = [p \in Calls |-> CHOOSE c \in Cases : TRUE]
    /\ actor = [p \in Calls |-> Nobody]
    /\ snap = [p \in Calls |-> [status |-> "ACTIVE", version |-> 0, owner |-> Nobody]]
    /\ local = [p \in Calls |-> NoLocals]

-----------------------------------------------------------------------------
(* Statements *)

At(p, l) == pc[p] = l
Goto(p, l) == pc' = [pc EXCEPT ![p] = l]

\* findById: the handler keeps what it read.
Read(p) ==
    /\ snap' = [snap EXCEPT ![p] = Snapshot(target[p])]
    /\ UNCHANGED <<tables, connected, op, target, actor, local>>

\* Mutant of Transition: the UPDATE does not compare versions.
TransitionUnchecked(p, st, next) ==
    LET c == target[p] IN
    /\ status' = [status EXCEPT ![c] = st]
    /\ version' = [version EXCEPT ![c] = @ + 1]
    /\ snap' = [snap EXCEPT ![p] =
                  [status |-> st, version |-> version[c] + 1, owner |-> owner[c]]]
    /\ Goto(p, next)
    /\ UNCHANGED <<owner, automation, rows, connected, op, target, actor, local>>

\* applyTransition to status `st': zero rows updated means another transition
\* came first, and the handler throws.
Transition(p, st, next) ==
    LET c == target[p] IN
    /\ IF snap[p].version = version[c]
       THEN /\ status' = [status EXCEPT ![c] = st]
            /\ version' = [version EXCEPT ![c] = @ + 1]
            /\ snap' = [snap EXCEPT ![p] =
                          [status |-> st, version |-> version[c] + 1, owner |-> owner[c]]]
            /\ Goto(p, next)
       ELSE /\ Goto(p, "failed")
            /\ UNCHANGED <<status, version, snap>>
    /\ UNCHANGED <<owner, automation, rows, connected, op, target, actor, local>>

SetOwner(p, a) ==
    /\ owner' = [owner EXCEPT ![target[p]] = a]
    /\ UNCHANGED <<status, version, automation, rows, connected, op, target, snap>>

SetAutomation(p, enabled) ==
    /\ automation' = [automation EXCEPT ![target[p]] = enabled]
    /\ UNCHANGED <<status, version, owner, rows, connected, op, target, snap>>

\* updateAssignment of row i (of no row when the case has none).
UpdateRow(I, st, a) ==
    /\ rows' = [i \in DOMAIN rows |->
                  IF i \in I THEN [rows[i] EXCEPT !.status = st, !.agent = a] ELSE rows[i]]
    /\ UNCHANGED <<status, version, owner, automation, connected, op, target, actor, snap, local>>

NewestRow(p) == LET S == RowsOf(target[p]) IN IF S = {} THEN {} ELSE {Newest(S)}

\* Where a call can be: before its next statement, or over.
Labels ==
    {"idle", "done", "failed",
     "esc_read", "esc_find", "esc_shift", "esc_silence", "esc_create",
     "adv_read", "adv_shift", "adv_silence", "ens_find",
     "auto_pick", "auto_own", "auto_reread", "auto_shift", "auto_row", "auto_silence",
     "drain_roster", "drain_load", "drain_fetch", "drain_own", "drain_reread",
     "drain_shift", "drain_row", "drain_silence",
     "claim_read", "claim_own", "claim_shift", "claim_silence", "claim_row",
     "take_read", "take_reread", "take_shift", "take_silence",
     "assign_read", "assign_shift", "assign_own", "assign_silence", "assign_row",
     "transfer_read", "transfer_pick", "transfer_shift", "transfer_own",
     "transfer_row", "transfer_silence",
     "complete_read", "complete_shift", "cancel_read", "cancel_shift", "disable_read",
     "react_read", "react_enable", "react_reread", "react_shift", "react_release"}

\* Labels between the load count of a dispatcher and its last assignment.
Dispatching == {"auto_own", "auto_reread", "auto_shift", "auto_row", "auto_silence",
                "drain_load", "drain_fetch", "drain_own", "drain_reread", "drain_shift",
                "drain_row", "drain_silence"}
MayDispatch(p) == Serial => \A q \in Calls : pc[q] \notin Dispatching

-----------------------------------------------------------------------------
(* Starting a call *)

FirstLabel(o) ==
    CASE o = "escalate"   -> "esc_read"      [] o = "advance"  -> "adv_read"
      [] o = "drain"      -> "drain_roster"  [] o = "claim"    -> "claim_read"
      [] o = "take"       -> "take_read"     [] o = "assign"   -> "assign_read"
      [] o = "transfer"   -> "transfer_read" [] o = "complete" -> "complete_read"
      [] o = "cancel"     -> "cancel_read"   [] o = "disable"  -> "disable_read"
      [] o = "reactivate" -> "react_read"

\* ProcessBufferedMessages lets the automation act on a case nobody attends; it
\* looks when the message arrives, and the answer of the model takes seconds
\* before the first statement of the call.  Flushes of one conversation do not
\* overlap (SerialFlush of InboundBuffer).
ByAutomation == {"escalate", "advance"}
GateOpen(c) ==
    /\ status[c] \in Automatable /\ automation[c] /\ owner[c] = Nobody
    /\ \A q \in Calls : op[q] \in ByAutomation /\ target[q] = c => pc[q] \in {"done", "failed"}

Start(p, o, c, a) ==
    /\ At(p, "idle") /\ o \in Ops
    /\ o \in ByAutomation => GateOpen(c)
    /\ Goto(p, FirstLabel(o))
    /\ op' = [op EXCEPT ![p] = o]
    /\ target' = [target EXCEPT ![p] = c]
    /\ actor' = [actor EXCEPT ![p] = a]
    /\ UNCHANGED <<tables, connected, snap, local>>

\* realtime.router: an SSE connection subscribes the agent and drains the
\* departments of the agent (drainQueueForAgent).
Connect(p, a) ==
    /\ "drain" \in Ops /\ a \notin connected /\ At(p, "idle")
    /\ connected' = connected \cup {a}
    /\ Goto(p, "drain_roster") /\ op' = [op EXCEPT ![p] = "drain"]
    /\ UNCHANGED <<tables, target, actor, snap, local>>

Disconnect(a) ==
    /\ a \in connected
    /\ connected' = connected \ {a}
    /\ UNCHANGED <<tables, frame>>

\* A statement fails, or the process dies, between two statements of a call.
Fail(p) ==
    /\ CanFail /\ pc[p] \notin {"idle", "done", "failed"}
    /\ Goto(p, "failed")
    /\ UNCHANGED <<tables, connected, op, target, actor, snap, local>>

-----------------------------------------------------------------------------
(* EscalationService *)

\* escalateExistingCase.
EscRead(p) == At(p, "esc_read") /\ Read(p) /\ Goto(p, "esc_find")

\* An existing row ends the call, whatever the status of the case.
EscFind(p) ==
    /\ At(p, "esc_find")
    /\ Goto(p, IF RowsOf(target[p]) # {} THEN "done"
               ELSE IF snap[p].status \in {"ESCALATED", "HUMAN_ACTIVE"} THEN "esc_silence"
               ELSE "esc_shift")
    /\ UNCHANGED <<tables, connected, op, target, actor, snap, local>>

EscShift(p) == At(p, "esc_shift") /\ Transition(p, "ESCALATED", "esc_silence")

EscSilence(p) ==
    /\ At(p, "esc_silence")
    /\ SetAutomation(p, FALSE) /\ Goto(p, "esc_create")
    /\ UNCHANGED <<actor, local>>

\* AdvanceCase: it runs the workflow on the case it reads, whatever its status,
\* and stores the outcome; an ESCALATED one goes on to ensureEscalationRecord.
AdvRead(p) == At(p, "adv_read") /\ Read(p) /\ Goto(p, "adv_shift")

AdvShift(p) ==
    /\ At(p, "adv_shift")
    /\ \E st \in Automatable \cup {"COMPLETED", "ESCALATED"} :
         Transition(p, st, IF st = "ESCALATED" THEN "adv_silence" ELSE "done")

AdvSilence(p) ==
    /\ At(p, "adv_silence")
    /\ SetAutomation(p, FALSE) /\ Goto(p, "ens_find")
    /\ UNCHANGED <<actor, local>>

EnsureFind(p) ==
    /\ At(p, "ens_find") /\ Read(p)
    /\ Goto(p, IF RowsOf(target[p]) # {} THEN "done" ELSE "esc_silence")

\* persistEscalation: the row is PENDING before an agent is looked for.
EscCreate(p) ==
    /\ At(p, "esc_create")
    /\ rows' = Append(rows, Pending(target[p]))
    /\ local' = [local EXCEPT ![p].row = Len(rows) + 1]
    /\ Goto(p, "auto_pick")
    /\ UNCHANGED <<status, version, owner, automation, connected, op, target, actor, snap>>

\* Mutant of LeastLoaded: the cap is not looked at.
LeastLoadedUncapped(S, load) == {a \in S : \A b \in S : load[a] <= load[b]}

\* pickAgentForDepartment: least loaded of the eligible below the cap; names
\* break ties, so any of them may win.
LeastLoaded(S, load) == {a \in S : load[a] < Cap /\ \A b \in S : load[a] <= load[b]}
CurrentLoads == [a \in Agents |-> Load(a)]

AutoPick(p) ==
    /\ At(p, "auto_pick") /\ MayDispatch(p)
    /\ LET best == LeastLoaded(connected, CurrentLoads) IN
         IF best = {}
         THEN Goto(p, "done") /\ UNCHANGED actor
         ELSE \E a \in best : /\ actor' = [actor EXCEPT ![p] = a]
                              /\ Goto(p, "auto_own")
    /\ UNCHANGED <<tables, connected, op, target, snap, local>>

\* tryAutoAssign: the test uses the status the call holds, not the row's.
AutoOwn(p) ==
    /\ At(p, "auto_own")
    /\ SetOwner(p, actor[p])
    /\ Goto(p, IF snap[p].status = "ESCALATED" THEN "auto_reread" ELSE "auto_row")
    /\ UNCHANGED <<actor, local>>

AutoReread(p) == At(p, "auto_reread") /\ Read(p) /\ Goto(p, "auto_shift")

AutoShift(p) == At(p, "auto_shift") /\ Transition(p, "HUMAN_ACTIVE", "auto_row")

\* Mutant of AutoRow: the escalation row is not updated.
AutoRowSkipped(p) == At(p, "auto_row") /\ UpdateRow({}, "ASSIGNED", actor[p]) /\ Goto(p, "auto_silence")

AutoRow(p) ==
    /\ At(p, "auto_row")
    /\ UpdateRow({local[p].row}, "ASSIGNED", actor[p]) /\ Goto(p, "auto_silence")

AutoSilence(p) ==
    /\ At(p, "auto_silence")
    /\ SetAutomation(p, FALSE) /\ Goto(p, "done")
    /\ UNCHANGED <<actor, local>>

-----------------------------------------------------------------------------
(* DrainDepartmentQueueService.drainQueueForDepartment *)

\* The agents eligible for the round.
DrainRoster(p) ==
    /\ At(p, "drain_roster") /\ MayDispatch(p)
    /\ local' = [local EXCEPT ![p].roster = connected]
    /\ Goto(p, IF connected = {} THEN "done" ELSE "drain_load")
    /\ UNCHANGED <<tables, connected, op, target, actor, snap>>

DrainLoad(p) ==
    /\ At(p, "drain_load")
    /\ local' = [local EXCEPT ![p].loads = CurrentLoads]
    /\ Goto(p, IF \E a \in local[p].roster : Load(a) < Cap THEN "drain_fetch" ELSE "done")
    /\ UNCHANGED <<tables, connected, op, target, actor, snap>>

\* findNextPendingForDepartment: the oldest pending rows of cases still
\* ESCALATED, as many as there are slots.  The row locks of the SELECT end with
\* it: it is not inside a transaction.
PendingRows == {i \in DOMAIN rows : rows[i].status = "PENDING" /\ status[rows[i].case] = "ESCALATED"}

\* availableSlots, a slot for every case that an agent of the round may still take.
FreeSlots(p) == {s \in local[p].roster \X (1..Cap) : local[p].loads[s[1]] < s[2]}
Capacity(p) == Cardinality(FreeSlots(p))

DrainFetch(p) ==
    /\ At(p, "drain_fetch")
    /\ LET batch == {i \in PendingRows :
                       Cardinality({j \in PendingRows : j < i}) < Capacity(p)} IN
         /\ local' = [local EXCEPT ![p].todo = batch]
         /\ Goto(p, IF batch = {} THEN "done" ELSE "drain_own")
    /\ UNCHANGED <<tables, connected, op, target, actor, snap>>

\* One round of the loop: oldest row, least loaded agent with a slot left; the
\* owner is written before the case is read.
DrainOwn(p) ==
    /\ At(p, "drain_own")
    /\ LET best == LeastLoaded(local[p].roster, local[p].loads) IN
         IF best = {}
         THEN Goto(p, "done") /\ UNCHANGED <<owner, target, actor, local>>
         ELSE \E i \in local[p].todo, a \in best :
                /\ \A j \in local[p].todo : i <= j
                /\ owner' = [owner EXCEPT ![rows[i].case] = a]
                /\ target' = [target EXCEPT ![p] = rows[i].case]
                /\ actor' = [actor EXCEPT ![p] = a]
                /\ local' = [local EXCEPT ![p].row = i, ![p].todo = @ \ {i}]
                /\ Goto(p, "drain_reread")
    /\ UNCHANGED <<status, version, automation, rows, connected, op, snap>>

\* Mutant of DrainReread: the status read is not looked at.
DrainRereadBlind(p) == At(p, "drain_reread") /\ Read(p) /\ Goto(p, "drain_shift")

DrainReread(p) ==
    /\ At(p, "drain_reread") /\ Read(p)
    /\ Goto(p, IF status[target[p]] = "ESCALATED" THEN "drain_shift" ELSE "drain_row")

\* A conflict throws out of the loop: the rows left in `todo' are not served.
DrainShift(p) == At(p, "drain_shift") /\ Transition(p, "HUMAN_ACTIVE", "drain_row")

DrainRow(p) ==
    /\ At(p, "drain_row")
    /\ UpdateRow({local[p].row}, "ASSIGNED", actor[p]) /\ Goto(p, "drain_silence")

DrainSilence(p) ==
    /\ At(p, "drain_silence")
    /\ SetAutomation(p, FALSE)
    /\ local' = [local EXCEPT ![p].loads[actor[p]] = @ + 1]
    /\ Goto(p, IF local[p].todo = {} THEN "done" ELSE "drain_own")
    /\ UNCHANGED actor

-----------------------------------------------------------------------------
(* ClaimCase and TakeControl *)

ClaimRead(p) ==
    /\ At(p, "claim_read") /\ Read(p)
    /\ Goto(p, IF owner[target[p]] = Nobody THEN "claim_own" ELSE "failed")

\* The owner is written first, unchecked; then the status, checked.
ClaimOwn(p) ==
    /\ At(p, "claim_own")
    /\ SetOwner(p, actor[p])
    /\ Goto(p, IF snap[p].status \in Closed \cup {"HUMAN_ACTIVE"}
               THEN "claim_silence" ELSE "claim_shift")
    /\ UNCHANGED <<actor, local>>

\* Mutant of ClaimShift: the automation is left as it was.
ClaimShiftLoud(p) == At(p, "claim_shift") /\ Transition(p, "HUMAN_ACTIVE", "claim_row")

ClaimShift(p) == At(p, "claim_shift") /\ Transition(p, "HUMAN_ACTIVE", "claim_silence")

ClaimSilence(p) ==
    /\ At(p, "claim_silence")
    /\ SetAutomation(p, FALSE) /\ Goto(p, "claim_row")
    /\ UNCHANGED <<actor, local>>

ClaimRow(p) ==
    /\ At(p, "claim_row")
    /\ UpdateRow(NewestRow(p), "ASSIGNED", actor[p])
    /\ Goto(p, IF op[p] = "take" THEN "take_reread" ELSE "done")

\* TakeControl claims a case nobody has, and is refused one of another agent.
TakeRead(p) ==
    /\ At(p, "take_read") /\ Read(p)
    /\ Goto(p, IF owner[target[p]] = Nobody THEN "claim_read"
               ELSE IF owner[target[p]] = actor[p] THEN "take_reread" ELSE "failed")

TakeReread(p) ==
    /\ At(p, "take_reread") /\ Read(p)
    /\ Goto(p, IF status[target[p]] \in Closed \cup {"HUMAN_ACTIVE"}
               THEN "take_silence" ELSE "take_shift")

TakeShift(p) == At(p, "take_shift") /\ Transition(p, "HUMAN_ACTIVE", "take_silence")

TakeSilence(p) ==
    /\ At(p, "take_silence")
    /\ SetAutomation(p, FALSE) /\ Goto(p, "done")
    /\ UNCHANGED <<actor, local>>

-----------------------------------------------------------------------------
(* AssignCase (manager or admin) and TransferCase *)

\* Mutant of AssignRead: a closed case is assigned as an open one.
AssignReadOpen(p) ==
    /\ At(p, "assign_read") /\ Read(p)
    /\ Goto(p, IF status[target[p]] = "HUMAN_ACTIVE" THEN "assign_own" ELSE "assign_shift")

AssignRead(p) ==
    /\ At(p, "assign_read") /\ Read(p)
    /\ Goto(p, IF status[target[p]] \in Closed \cup {"HUMAN_ACTIVE"}
               THEN "assign_own" ELSE "assign_shift")

AssignShift(p) == At(p, "assign_shift") /\ Transition(p, "HUMAN_ACTIVE", "assign_own")

AssignOwn(p) ==
    /\ At(p, "assign_own")
    /\ SetOwner(p, actor[p]) /\ Goto(p, "assign_silence")
    /\ UNCHANGED <<actor, local>>

AssignSilence(p) ==
    /\ At(p, "assign_silence")
    /\ SetAutomation(p, FALSE) /\ Goto(p, "assign_row")
    /\ UNCHANGED <<actor, local>>

AssignRow(p) ==
    /\ At(p, "assign_row")
    /\ UpdateRow(NewestRow(p), "ASSIGNED", actor[p]) /\ Goto(p, "done")

TransferRead(p) == At(p, "transfer_read") /\ Read(p) /\ Goto(p, "transfer_pick")

\* To a named agent, or to the department: then an agent is looked for, among
\* all its members when none is connected, and there may be none below the cap.
TransferPick(p) ==
    /\ At(p, "transfer_pick")
    /\ LET S == IF connected = {} THEN Agents ELSE connected
           best == LeastLoaded(S, CurrentLoads)
           found == IF best = {} THEN {Nobody} ELSE best IN
         \E a \in {actor[p]} \cup found : actor' = [actor EXCEPT ![p] = a]
    /\ Goto(p, "transfer_shift")
    /\ UNCHANGED <<tables, connected, op, target, snap, local>>

\* With no agent found the status is kept, only the version moves.
TransferShift(p) ==
    /\ At(p, "transfer_shift")
    /\ Transition(p, IF actor[p] = Nobody \/ snap[p].status \in Closed
                     THEN snap[p].status ELSE "HUMAN_ACTIVE", "transfer_own")

TransferOwn(p) ==
    /\ At(p, "transfer_own")
    /\ SetOwner(p, actor[p]) /\ Goto(p, "transfer_row")
    /\ UNCHANGED <<actor, local>>

TransferRow(p) ==
    /\ At(p, "transfer_row")
    /\ UpdateRow(NewestRow(p), IF actor[p] = Nobody THEN "PENDING" ELSE "ASSIGNED", actor[p])
    /\ Goto(p, IF actor[p] = Nobody THEN "done" ELSE "transfer_silence")

TransferSilence(p) ==
    /\ At(p, "transfer_silence")
    /\ SetAutomation(p, FALSE) /\ Goto(p, "done")
    /\ UNCHANGED <<actor, local>>

-----------------------------------------------------------------------------
(* CompleteCase, CancelCase, DisableAutomation, ReactivateAutomation *)

CompleteRead(p) ==
    /\ At(p, "complete_read") /\ Read(p)
    /\ Goto(p, IF status[target[p]] \in Closed THEN "failed" ELSE "complete_shift")

\* Mutant of CompleteShift: the freed slot is not offered to the queue.
CompleteShiftQuiet(p) == At(p, "complete_shift") /\ Transition(p, "COMPLETED", "done")

\* Completing frees a slot: the call goes on to drain the queue (not awaited).
CompleteShift(p) == At(p, "complete_shift") /\ Transition(p, "COMPLETED", "drain_roster")

CancelRead(p) ==
    /\ At(p, "cancel_read") /\ Read(p)
    /\ Goto(p, IF status[target[p]] \in Automatable THEN "cancel_shift" ELSE "failed")

CancelShift(p) == At(p, "cancel_shift") /\ Transition(p, "CANCELLED", "done")

DisableRead(p) == At(p, "disable_read") /\ Read(p) /\ Goto(p, "take_silence")

ReactRead(p) == At(p, "react_read") /\ Read(p) /\ Goto(p, "react_enable")

\* Automation goes on before the status is looked at again.
ReactEnable(p) ==
    /\ At(p, "react_enable")
    /\ SetAutomation(p, TRUE)
    /\ Goto(p, IF snap[p].status \in {"HUMAN_ACTIVE", "ESCALATED"} THEN "react_reread"
               ELSE IF snap[p].owner # Nobody THEN "react_release" ELSE "done")
    /\ actor' = [actor EXCEPT ![p] = snap[p].owner]
    /\ UNCHANGED local

\* The second read only supplies the version: its status is not examined.
ReactReread(p) == At(p, "react_reread") /\ Read(p) /\ Goto(p, "react_shift")

\* Back to where the workflow was; its state is not modelled here.
ReactShift(p) ==
    /\ At(p, "react_shift")
    /\ \E st \in Automatable :
         Transition(p, st, IF actor[p] = Nobody THEN "done" ELSE "react_release")

ReactRelease(p) ==
    /\ At(p, "react_release")
    /\ SetOwner(p, Nobody) /\ Goto(p, "done")
    /\ UNCHANGED <<actor, local>>

-----------------------------------------------------------------------------
Escalation(p) ==
    \/ EscRead(p) \/ EscFind(p) \/ EscShift(p) \/ EscSilence(p) \/ EscCreate(p)
    \/ AdvRead(p) \/ AdvShift(p) \/ AdvSilence(p) \/ EnsureFind(p)
    \/ AutoPick(p) \/ AutoOwn(p) \/ AutoReread(p) \/ AutoShift(p) \/ AutoRow(p)
    \/ AutoSilence(p)

Drain(p) ==
    \/ DrainRoster(p) \/ DrainLoad(p) \/ DrainFetch(p) \/ DrainOwn(p)
    \/ DrainReread(p) \/ DrainShift(p) \/ DrainRow(p) \/ DrainSilence(p)

ByAgent(p) ==
    \/ ClaimRead(p) \/ ClaimOwn(p) \/ ClaimShift(p) \/ ClaimSilence(p) \/ ClaimRow(p)
    \/ TakeRead(p) \/ TakeReread(p) \/ TakeShift(p) \/ TakeSilence(p)
    \/ AssignRead(p) \/ AssignShift(p) \/ AssignOwn(p) \/ AssignSilence(p) \/ AssignRow(p)
    \/ TransferRead(p) \/ TransferPick(p) \/ TransferShift(p) \/ TransferOwn(p)
    \/ TransferRow(p) \/ TransferSilence(p)

Closing(p) ==
    \/ CompleteRead(p) \/ CompleteShift(p) \/ CancelRead(p) \/ CancelShift(p)
    \/ DisableRead(p) \/ ReactRead(p) \/ ReactEnable(p) \/ ReactReread(p)
    \/ ReactShift(p) \/ ReactRelease(p)

Step(p) == Escalation(p) \/ Drain(p) \/ ByAgent(p) \/ Closing(p)

Next ==
    \/ \E p \in Calls, o \in Ops, c \in Cases, a \in Agents : Start(p, o, c, a)
    \/ \E p \in Calls, a \in Agents : Connect(p, a)
    \/ \E a \in Agents : Disconnect(a)
    \/ \E p \in Calls : Step(p) \/ Fail(p)

Spec == Init /\ [][Next]_vars

\* A call that has started runs on: its promises settle.
FairSpec == Spec /\ \A p \in Calls : WF_vars(Step(p))

-----------------------------------------------------------------------------
(* Properties *)

Row == [case : Cases, status : {"PENDING", "ASSIGNED"}, agent : Agents \cup {Nobody}]

TableTypes ==
    /\ status \in [Cases -> Statuses] /\ version \in [Cases -> Nat]
    /\ owner \in [Cases -> Agents \cup {Nobody}] /\ automation \in [Cases -> BOOLEAN]
    /\ rows \in Seq(Row) /\ connected \subseteq Agents

FrameTypes ==
    /\ pc \in [Calls -> Labels] /\ op \in [Calls -> Handlers \cup {"none"}]
    /\ target \in [Calls -> Cases] /\ actor \in [Calls -> Agents \cup {Nobody}]
    /\ snap \in [Calls -> [status : Statuses, version : Nat, owner : Agents \cup {Nobody}]]

LocalTypes ==
    /\ local \in [Calls -> [row : Nat, todo : SUBSET Nat,
                          roster : SUBSET Agents, loads : [Agents -> Nat]]]
    /\ \A p \in Calls : local[p].todo \subseteq DOMAIN rows /\ local[p].row \in {0} \cup DOMAIN rows

\* Types, and the shape of the locals: a dispatcher only names rows that
\* exist.
TypeOK == TableTypes /\ FrameTypes /\ LocalTypes

AtRest == \A p \in Calls : pc[p] \in {"idle", "done", "failed"}
Quiet(c) == \A p \in Calls : pc[p] \notin {"idle", "done", "failed"} => target[p] # c

\* case.repository.pg.ts applyTransition: a status is only replaced by a call
\* that holds that very status and version, however the calls interleave.
CheckedUpdate ==
    \A c \in Cases : version'[c] # version[c] \/ status'[c] # status[c] =>
        /\ version'[c] = version[c] + 1
        /\ \E p \in Calls : /\ pc'[p] # pc[p] /\ target[p] = c
                            /\ snap[p].status = status[c]
                            /\ snap[p].version = version[c]
NoLostUpdate == [][CheckedUpdate]_vars

\* complete/cancel/assign/claim/transfer/drain: a closed case stays closed.
ClosedKept == \A c \in Cases : status[c] \in Closed => status'[c] = status[c]
ClosedStaysClosed == [][ClosedKept]_vars

\* drain-department-queue.service.ts:43-119, auto-assign-agent.service.ts:100-113:
\* dispatching never gives an agent more live cases than the cap.
CapRespected == \A a \in Agents : Load(a) <= Cap

\* drain after complete / connect, row before pick: when everything is at rest
\* no case waits while a connected agent has a free slot.
NoIdleSlotAtRest ==
    AtRest => ~ \E i \in PendingRows, a \in connected : Load(a) < Cap

\* tryAutoAssign, drain, claim, assign: at rest the agent of the newest row is the
\* agent of the case.
RowAgreesWithOwner ==
    \A c \in Cases : Quiet(c) /\ status[c] = "HUMAN_ACTIVE" /\ RowsOf(c) # {} =>
        rows[Newest(RowsOf(c))].agent = owner[c]

\* 02_STATE_MACHINE.md:17: automation is off in ESCALATED / HUMAN_ACTIVE.
HumansWithoutAutomation ==
    \A c \in Cases : Quiet(c) /\ status[c] \in {"ESCALATED", "HUMAN_ACTIVE"} => ~automation[c]

\* process-buffered-messages.use-case.ts:147-149: the automation does not take a
\* case back from the agent who attends it; only reactivation does.
HumanKeepsControl ==
    [][\A c \in Cases : status[c] = "HUMAN_ACTIVE" /\ status'[c] \in Automatable =>
          \E p \in Calls : pc[p] = "react_shift" /\ target[p] = c]_vars

\* 02_STATE_MACHINE.md:220: a case that is ESCALATED and at rest is in the queue.
EscalatedIsQueued ==
    \A c \in Cases : Quiet(c) /\ status[c] = "ESCALATED" =>
        \E i \in RowsOf(c) : rows[i].status = "PENDING"

\* Both: at rest the rows of the queue agree with the cases.
QueueAgrees == RowAgreesWithOwner /\ EscalatedIsQueued

\* The queue and the agents' hands, as the dispatcher's promise sees them; the
\* agents of a running round stay in it if they disconnect.
Pool == INSTANCE AgentPool WITH
    queued <- {c \in Cases : status[c] = "ESCALATED"},
    holder <- [c \in Cases |-> IF status[c] = "HUMAN_ACTIVE" THEN owner[c] ELSE Nobody],
    online <- connected \cup UNION {local[p].roster : p \in {q \in Calls : pc[q] \in Dispatching}}

\* Draining on connect and on complete implements the promise of AgentPool: no
\* agent above the cap, one case per dispatch, no case waiting beside a free slot.
ImplementsPool == Pool!Spec
=============================================================================
