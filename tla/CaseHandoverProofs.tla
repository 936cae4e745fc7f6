-------------------------- MODULE CaseHandoverProofs --------------------------
(***************************************************************************)
(* Three promises of the hand-over, each for every number of cases, agents *)
(* and calls, and each under the conditions it needs:                      *)
(*  - a closed case stays closed, where nothing reopens cases;             *)
(*  - no agent is over the cap, where one call dispatches at a time and    *)
(*    nobody gives cases out by hand;                                      *)
(*  - people's cases have their automation off, where no call dies on the  *)
(*    way and nobody gives a case back to the automation.                  *)
(***************************************************************************)
EXTENDS CaseDispatchProofs

-----------------------------------------------------------------------------
(* Closed for good.  escalate, advance and reactivate write a status without *)
(* having looked at the one they replace; all other handlers decide on a     *)
(* snapshot, and SnapSound says that the snapshot shows the status of the    *)
(* row whenever applyTransition accepts its version.                         *)

Reopeners == {"escalate", "advance", "reactivate"}
NoReopeners == Ops \cap Reopeners = {}

\* Where only the calls of Reopeners can be.
Reopening ==
    {"esc_read", "esc_find", "esc_shift", "esc_silence", "esc_create",
     "adv_read", "adv_shift", "adv_silence", "ens_find",
     "auto_pick", "auto_own", "auto_reread", "auto_shift", "auto_row", "auto_silence",
     "react_read", "react_enable", "react_reread", "react_shift", "react_release"}

\* Where a call has decided, on its snapshot, to leave the current status.
Live == {"drain_shift", "claim_shift", "take_shift", "assign_shift", "complete_shift", "cancel_shift"}

Calm == Labels \ (Live \cup Reopening)

LiveSnap == \A p \in Calls : /\ pc[p] \notin Reopening
                             /\ pc[p] \in Live => snap[p].status \notin Closed

Kept == LiveSnap' /\ ClosedKept

-----------------------------------------------------------------------------
LEMMA MoveKept ==
    ASSUME Inv, LiveSnap, NEW p \in Calls, NEW l \in Labels \ Reopening, Goto(p, l),
           \A q \in Calls : q # p => snap'[q] = snap[q],
           l \in Live => snap'[p].status \notin Closed
    PROVE  LiveSnap'
  <1>1. pc'[p] = l /\ \A q \in Calls : q # p => pc'[q] = pc[q]
    BY GotoTypes DEF Inv, TypeOK
  <1> QED  BY <1>1 DEF LiveSnap

LEMMA QuietKept ==
    ASSUME Inv, LiveSnap, NEW p \in Calls, UNCHANGED <<status, snap>>, \E l \in Calm : Goto(p, l)
    PROVE  Kept
  <1> PICK l \in Calm : Goto(p, l)
    OBVIOUS
  <1>1. LiveSnap'
    BY MoveKept DEF Calm
  <1> QED  BY <1>1 DEF Kept, ClosedKept

LEMMA ReadKept ==
    ASSUME Inv, LiveSnap, NEW p \in Calls, NEW l \in Labels \ Reopening, Read(p), Goto(p, l),
           l \in Live => status[target[p]] \notin Closed
    PROVE  Kept
  <1>1. snap' = [snap EXCEPT ![p] = Snapshot(target[p])] /\ status' = status
    BY DEF Read, tables
  <1>2. snap'[p].status = status[target[p]] /\ \A q \in Calls : q # p => snap'[q] = snap[q]
    BY <1>1 DEF Snapshot, Inv, TypeOK, FrameTypes
  <1>3. LiveSnap'
    BY <1>2, MoveKept
  <1> QED  BY <1>1, <1>3 DEF Kept, ClosedKept

LEMMA ShiftKept ==
    ASSUME Inv, LiveSnap, NEW p \in Calls, NEW st, NEW l \in Calm, Transition(p, st, l),
           pc[p] \in Holding, snap[p].status \in Closed => st = snap[p].status
    PROVE  Kept
  <1>1. CASE snap[p].version = version[target[p]]
    <2>1. /\ status' = [status EXCEPT ![target[p]] = st] /\ Goto(p, l)
          /\ \A q \in Calls : q # p => snap'[q] = snap[q]
      BY <1>1 DEF Transition, Inv, TypeOK, FrameTypes
    <2>2. snap[p].status = status[target[p]]
      BY <1>1 DEF Inv, SnapSound, Sound
    <2>3. ClosedKept
      BY <2>1, <2>2 DEF ClosedKept, Inv, TypeOK, TableTypes
    <2>4. LiveSnap'
      BY <2>1, MoveKept DEF Calm
    <2> QED  BY <2>3, <2>4 DEF Kept
  <1>2. CASE snap[p].version # version[target[p]]
    <2>1. Goto(p, "failed") /\ UNCHANGED <<status, snap>>
      BY <1>2 DEF Transition
    <2>2. "failed" \in Calm
      BY DEF Calm, Labels, Live, Reopening
    <2> QED  BY <2>1, <2>2, QuietKept
  <1> QED  BY <1>1, <1>2

-----------------------------------------------------------------------------
LEMMA DrainKept ==
    ASSUME Inv, LiveSnap, NEW p \in Calls, Drain(p)
    PROVE  Kept
  <1>1. CASE DrainRoster(p)
    <2>1. UNCHANGED <<status, snap>>
      BY <1>1 DEF DrainRoster, SetOwner, SetAutomation, UpdateRow, tables
    <2>2. \E l \in {"done", "drain_load"} : Goto(p, l)
      BY <1>1, Zenon DEF DrainRoster
    <2> QED  BY <2>1, <2>2, QuietKept DEF Calm, Labels, Live, Reopening
  <1>2. CASE DrainLoad(p)
    <2>1. UNCHANGED <<status, snap>>
      BY <1>2 DEF DrainLoad, SetOwner, SetAutomation, UpdateRow, tables
    <2>2. \E l \in {"done", "drain_fetch"} : Goto(p, l)
      BY <1>2, Zenon DEF DrainLoad
    <2> QED  BY <2>1, <2>2, QuietKept DEF Calm, Labels, Live, Reopening
  <1>3. CASE DrainFetch(p)
    <2>1. UNCHANGED <<status, snap>>
      BY <1>3 DEF DrainFetch, SetOwner, SetAutomation, UpdateRow, tables
    <2>2. \E l \in {"done", "drain_own"} : Goto(p, l)
      BY <1>3, Zenon DEF DrainFetch
    <2> QED  BY <2>1, <2>2, QuietKept DEF Calm, Labels, Live, Reopening
  <1>4. CASE DrainOwn(p)
    <2>1. UNCHANGED <<status, snap>>
      BY <1>4 DEF DrainOwn, SetOwner, SetAutomation, UpdateRow, tables
    <2>2. \E l \in {"done", "drain_reread"} : Goto(p, l)
      BY <1>4, Zenon DEF DrainOwn
    <2> QED  BY <2>1, <2>2, QuietKept DEF Calm, Labels, Live, Reopening
  <1>5. CASE DrainReread(p)
    <2>1. CASE status[target[p]] = "ESCALATED"
      <3>1. Read(p) /\ Goto(p, "drain_shift") /\ status[target[p]] \notin Closed
        BY <1>5, <2>1 DEF DrainReread, Closed, Automatable
      <3> QED  BY <3>1, ReadKept DEF Labels, Reopening
    <2>2. CASE ~(status[target[p]] = "ESCALATED")
      <3>1. Read(p) /\ Goto(p, "drain_row")
        BY <1>5, <2>2 DEF DrainReread
      <3> QED  BY <3>1, ReadKept DEF Labels, Live, Reopening
    <2> QED  BY <2>1, <2>2
  <1>6. CASE DrainShift(p)
    <2>1. snap[p].status \notin Closed /\ pc[p] \in Holding
      BY <1>6 DEF DrainShift, At, LiveSnap, Live, Holding
    <2> QED  BY <1>6, <2>1, ShiftKept DEF DrainShift, Calm, Labels, Live, Reopening
  <1>7. CASE DrainRow(p)
    <2>1. UNCHANGED <<status, snap>>
      BY <1>7 DEF DrainRow, SetOwner, SetAutomation, UpdateRow, tables
    <2>2. \E l \in {"drain_silence"} : Goto(p, l)
      BY <1>7, Zenon DEF DrainRow
    <2> QED  BY <2>1, <2>2, QuietKept DEF Calm, Labels, Live, Reopening
  <1>8. CASE DrainSilence(p)
    <2>1. UNCHANGED <<status, snap>>
      BY <1>8 DEF DrainSilence, SetOwner, SetAutomation, UpdateRow, tables
    <2>2. \E l \in {"done", "drain_own"} : Goto(p, l)
      BY <1>8, Zenon DEF DrainSilence
    <2> QED  BY <2>1, <2>2, QuietKept DEF Calm, Labels, Live, Reopening
  <1> QED  BY <1>1, <1>2, <1>3, <1>4, <1>5, <1>6, <1>7, <1>8 DEF Drain

LEMMA ClaimKept ==
    ASSUME Inv, LiveSnap, NEW p \in Calls,
           ClaimRead(p) \/ ClaimOwn(p) \/ ClaimShift(p) \/ ClaimSilence(p) \/ ClaimRow(p)
    PROVE  Kept
  <1>1. CASE ClaimRead(p)
    <2>1. Read(p) /\ \E l \in {"claim_own", "failed"} : Goto(p, l)
      BY <1>1, Zenon DEF ClaimRead
    <2> QED  BY <2>1, ReadKept DEF Labels, Live, Reopening
  <1>2. CASE ClaimOwn(p)
    <2>1. UNCHANGED <<status, snap>>
      BY <1>2 DEF ClaimOwn, SetOwner
    <2>2. CASE snap[p].status \in Closed \cup {"HUMAN_ACTIVE"}
      <3>1. Goto(p, "claim_silence")
        BY <1>2, <2>2 DEF ClaimOwn
      <3> QED  BY <2>1, <3>1, QuietKept DEF Calm, Labels, Live, Reopening
    <2>3. CASE snap[p].status \notin Closed \cup {"HUMAN_ACTIVE"}
      <3>1. Goto(p, "claim_shift") /\ snap'[p].status \notin Closed
        BY <1>2, <2>1, <2>3 DEF ClaimOwn
      <3>2. LiveSnap'
        BY <2>1, <3>1, MoveKept DEF Labels, Reopening
      <3> QED  BY <2>1, <3>2 DEF Kept, ClosedKept
    <2> QED  BY <2>2, <2>3
  <1>3. CASE ClaimShift(p)
    <2>1. snap[p].status \notin Closed /\ pc[p] \in Holding
      BY <1>3 DEF ClaimShift, At, LiveSnap, Live, Holding
    <2> QED  BY <1>3, <2>1, ShiftKept DEF ClaimShift, Calm, Labels, Live, Reopening
  <1>4. CASE ClaimSilence(p)
    <2>1. UNCHANGED <<status, snap>>
      BY <1>4 DEF ClaimSilence, SetOwner, SetAutomation, UpdateRow, tables
    <2>2. \E l \in {"claim_row"} : Goto(p, l)
      BY <1>4, Zenon DEF ClaimSilence
    <2> QED  BY <2>1, <2>2, QuietKept DEF Calm, Labels, Live, Reopening
  <1>5. CASE ClaimRow(p)
    <2>1. UNCHANGED <<status, snap>>
      BY <1>5 DEF ClaimRow, SetOwner, SetAutomation, UpdateRow, tables
    <2>2. \E l \in {"take_reread", "done"} : Goto(p, l)
      BY <1>5, Zenon DEF ClaimRow
    <2> QED  BY <2>1, <2>2, QuietKept DEF Calm, Labels, Live, Reopening
  <1> QED  BY <1>1, <1>2, <1>3, <1>4, <1>5

LEMMA TakeKept ==
    ASSUME Inv, LiveSnap, NEW p \in Calls, TakeRead(p) \/ TakeReread(p) \/ TakeShift(p) \/ TakeSilence(p)
    PROVE  Kept
  <1>1. CASE TakeRead(p)
    <2>1. Read(p) /\ \E l \in {"claim_read", "take_reread", "failed"} : Goto(p, l)
      BY <1>1, Zenon DEF TakeRead
    <2> QED  BY <2>1, ReadKept DEF Labels, Live, Reopening
  <1>2. CASE TakeReread(p)
    <2>1. CASE status[target[p]] \notin Closed \cup {"HUMAN_ACTIVE"}
      <3>1. Read(p) /\ Goto(p, "take_shift") /\ status[target[p]] \notin Closed
        BY <1>2, <2>1 DEF TakeReread, Closed, Automatable
      <3> QED  BY <3>1, ReadKept DEF Labels, Reopening
    <2>2. CASE ~(status[target[p]] \notin Closed \cup {"HUMAN_ACTIVE"})
      <3>1. Read(p) /\ Goto(p, "take_silence")
        BY <1>2, <2>2 DEF TakeReread
      <3> QED  BY <3>1, ReadKept DEF Labels, Live, Reopening
    <2> QED  BY <2>1, <2>2
  <1>3. CASE TakeShift(p)
    <2>1. snap[p].status \notin Closed /\ pc[p] \in Holding
      BY <1>3 DEF TakeShift, At, LiveSnap, Live, Holding
    <2> QED  BY <1>3, <2>1, ShiftKept DEF TakeShift, Calm, Labels, Live, Reopening
  <1>4. CASE TakeSilence(p)
    <2>1. UNCHANGED <<status, snap>>
      BY <1>4 DEF TakeSilence, SetOwner, SetAutomation, UpdateRow, tables
    <2>2. \E l \in {"done"} : Goto(p, l)
      BY <1>4, Zenon DEF TakeSilence
    <2> QED  BY <2>1, <2>2, QuietKept DEF Calm, Labels, Live, Reopening
  <1> QED  BY <1>1, <1>2, <1>3, <1>4

LEMMA AssignKept ==
    ASSUME Inv, LiveSnap, NEW p \in Calls,
           AssignRead(p) \/ AssignShift(p) \/ AssignOwn(p) \/ AssignSilence(p) \/ AssignRow(p)
    PROVE  Kept
  <1>1. CASE AssignRead(p)
    <2>1. CASE status[target[p]] \notin Closed \cup {"HUMAN_ACTIVE"}
      <3>1. Read(p) /\ Goto(p, "assign_shift") /\ status[target[p]] \notin Closed
        BY <1>1, <2>1 DEF AssignRead, Closed, Automatable
      <3> QED  BY <3>1, ReadKept DEF Labels, Reopening
    <2>2. CASE ~(status[target[p]] \notin Closed \cup {"HUMAN_ACTIVE"})
      <3>1. Read(p) /\ Goto(p, "assign_own")
        BY <1>1, <2>2 DEF AssignRead
      <3> QED  BY <3>1, ReadKept DEF Labels, Live, Reopening
    <2> QED  BY <2>1, <2>2
  <1>2. CASE AssignShift(p)
    <2>1. snap[p].status \notin Closed /\ pc[p] \in Holding
      BY <1>2 DEF AssignShift, At, LiveSnap, Live, Holding
    <2> QED  BY <1>2, <2>1, ShiftKept DEF AssignShift, Calm, Labels, Live, Reopening
  <1>3. CASE AssignOwn(p)
    <2>1. UNCHANGED <<status, snap>>
      BY <1>3 DEF AssignOwn, SetOwner, SetAutomation, UpdateRow, tables
    <2>2. \E l \in {"assign_silence"} : Goto(p, l)
      BY <1>3, Zenon DEF AssignOwn
    <2> QED  BY <2>1, <2>2, QuietKept DEF Calm, Labels, Live, Reopening
  <1>4. CASE AssignSilence(p)
    <2>1. UNCHANGED <<status, snap>>
      BY <1>4 DEF AssignSilence, SetOwner, SetAutomation, UpdateRow, tables
    <2>2. \E l \in {"assign_row"} : Goto(p, l)
      BY <1>4, Zenon DEF AssignSilence
    <2> QED  BY <2>1, <2>2, QuietKept DEF Calm, Labels, Live, Reopening
  <1>5. CASE AssignRow(p)
    <2>1. UNCHANGED <<status, snap>>
      BY <1>5 DEF AssignRow, SetOwner, SetAutomation, UpdateRow, tables
    <2>2. \E l \in {"done"} : Goto(p, l)
      BY <1>5, Zenon DEF AssignRow
    <2> QED  BY <2>1, <2>2, QuietKept DEF Calm, Labels, Live, Reopening
  <1> QED  BY <1>1, <1>2, <1>3, <1>4, <1>5

LEMMA TransferKept ==
    ASSUME Inv, LiveSnap, NEW p \in Calls,
           TransferRead(p) \/ TransferPick(p) \/ TransferShift(p) \/ TransferOwn(p)
           \/ TransferRow(p) \/ TransferSilence(p)
    PROVE  Kept
  <1>1. CASE TransferRead(p)
    <2>1. Read(p) /\ \E l \in {"transfer_pick"} : Goto(p, l)
      BY <1>1, Zenon DEF TransferRead
    <2> QED  BY <2>1, ReadKept DEF Labels, Live, Reopening
  <1>2. CASE TransferPick(p)
    <2>1. UNCHANGED <<status, snap>>
      BY <1>2 DEF TransferPick, SetOwner, SetAutomation, UpdateRow, tables
    <2>2. \E l \in {"transfer_shift"} : Goto(p, l)
      BY <1>2, Zenon DEF TransferPick
    <2> QED  BY <2>1, <2>2, QuietKept DEF Calm, Labels, Live, Reopening
  <1>3. CASE TransferShift(p)
    <2> DEFINE st == IF actor[p] = Nobody \/ snap[p].status \in Closed
                     THEN snap[p].status ELSE "HUMAN_ACTIVE"
    <2>1. Transition(p, st, "transfer_own") /\ pc[p] \in Holding
      BY <1>3 DEF TransferShift, At, Holding
    <2>2. snap[p].status \in Closed => st = snap[p].status
      OBVIOUS
    <2> HIDE DEF st
    <2> QED  BY <2>1, <2>2, ShiftKept DEF Calm, Labels, Live, Reopening
  <1>4. CASE TransferOwn(p)
    <2>1. UNCHANGED <<status, snap>>
      BY <1>4 DEF TransferOwn, SetOwner, SetAutomation, UpdateRow, tables
    <2>2. \E l \in {"transfer_row"} : Goto(p, l)
      BY <1>4, Zenon DEF TransferOwn
    <2> QED  BY <2>1, <2>2, QuietKept DEF Calm, Labels, Live, Reopening
  <1>5. CASE TransferRow(p)
    <2>1. UNCHANGED <<status, snap>>
      BY <1>5 DEF TransferRow, SetOwner, SetAutomation, UpdateRow, tables
    <2>2. \E l \in {"done", "transfer_silence"} : Goto(p, l)
      BY <1>5, Zenon DEF TransferRow
    <2> QED  BY <2>1, <2>2, QuietKept DEF Calm, Labels, Live, Reopening
  <1>6. CASE TransferSilence(p)
    <2>1. UNCHANGED <<status, snap>>
      BY <1>6 DEF TransferSilence, SetOwner, SetAutomation, UpdateRow, tables
    <2>2. \E l \in {"done"} : Goto(p, l)
      BY <1>6, Zenon DEF TransferSilence
    <2> QED  BY <2>1, <2>2, QuietKept DEF Calm, Labels, Live, Reopening
  <1> QED  BY <1>1, <1>2, <1>3, <1>4, <1>5, <1>6

LEMMA ClosingKept ==
    ASSUME Inv, LiveSnap, NEW p \in Calls, Closing(p)
    PROVE  Kept
  <1>0. pc[p] \notin Reopening
    BY DEF LiveSnap
  <1>1. CASE CompleteRead(p)
    <2>1. CASE status[target[p]] \notin Closed
      <3>1. Read(p) /\ Goto(p, "complete_shift") /\ status[target[p]] \notin Closed
        BY <1>1, <2>1 DEF CompleteRead, Closed, Automatable
      <3> QED  BY <3>1, ReadKept DEF Labels, Reopening
    <2>2. CASE ~(status[target[p]] \notin Closed)
      <3>1. Read(p) /\ Goto(p, "failed")
        BY <1>1, <2>2 DEF CompleteRead
      <3> QED  BY <3>1, ReadKept DEF Labels, Live, Reopening
    <2> QED  BY <2>1, <2>2
  <1>2. CASE CompleteShift(p)
    <2>1. snap[p].status \notin Closed /\ pc[p] \in Holding
      BY <1>2 DEF CompleteShift, At, LiveSnap, Live, Holding
    <2> QED  BY <1>2, <2>1, ShiftKept DEF CompleteShift, Calm, Labels, Live, Reopening
  <1>3. CASE CancelRead(p)
    <2>1. CASE status[target[p]] \in Automatable
      <3>1. Read(p) /\ Goto(p, "cancel_shift") /\ status[target[p]] \notin Closed
        BY <1>3, <2>1 DEF CancelRead, Closed, Automatable
      <3> QED  BY <3>1, ReadKept DEF Labels, Reopening
    <2>2. CASE ~(status[target[p]] \in Automatable)
      <3>1. Read(p) /\ Goto(p, "failed")
        BY <1>3, <2>2 DEF CancelRead
      <3> QED  BY <3>1, ReadKept DEF Labels, Live, Reopening
    <2> QED  BY <2>1, <2>2
  <1>4. CASE CancelShift(p)
    <2>1. snap[p].status \notin Closed /\ pc[p] \in Holding
      BY <1>4 DEF CancelShift, At, LiveSnap, Live, Holding
    <2> QED  BY <1>4, <2>1, ShiftKept DEF CancelShift, Calm, Labels, Live, Reopening
  <1>5. CASE DisableRead(p)
    <2>1. Read(p) /\ \E l \in {"take_silence"} : Goto(p, l)
      BY <1>5, Zenon DEF DisableRead
    <2> QED  BY <2>1, ReadKept DEF Labels, Live, Reopening
  <1>6. ~(ReactRead(p) \/ ReactEnable(p) \/ ReactReread(p) \/ ReactShift(p) \/ ReactRelease(p))
    BY <1>0 DEF ReactRead, ReactEnable, ReactReread, ReactShift, ReactRelease, At, Reopening
  <1> QED  BY <1>1, <1>2, <1>3, <1>4, <1>5, <1>6 DEF Closing

LEMMA NextKept ==
    ASSUME NoReopeners, Inv, LiveSnap, [Next]_vars
    PROVE  LiveSnap' /\ (ClosedKept \/ UNCHANGED vars)
  <1>1. CASE UNCHANGED vars
    BY <1>1, Zenon DEF vars, frame, LiveSnap
  <1>2. ASSUME NEW p \in Calls, Step(p) PROVE Kept
    <2>1. ~Escalation(p)
      BY DEF LiveSnap, Reopening, Escalation, At, EscRead, EscFind, EscShift, EscSilence, EscCreate,
             AdvRead, AdvShift, AdvSilence, EnsureFind, AutoPick, AutoOwn, AutoReread, AutoShift,
             AutoRow, AutoSilence
    <2> QED  BY <1>2, <2>1, DrainKept, ClaimKept, TakeKept, AssignKept, TransferKept, ClosingKept,
                Zenon DEF Step, ByAgent
  <1>3. ASSUME NEW p \in Calls, Fail(p) PROVE Kept
    BY <1>3, QuietKept DEF Fail, Calm, Labels, Live, Reopening, tables
  <1>4. ASSUME NEW p \in Calls, NEW o \in Ops, NEW c \in Cases, NEW a \in Agents, Start(p, o, c, a)
        PROVE  Kept
    <2>1. o \in Handlers \ Reopeners
      BY OpsAssumption DEF NoReopeners
    <2>2. FirstLabel(o) \in Calm
      BY <2>1 DEF FirstLabel, Handlers, Reopeners, Calm, Labels, Live, Reopening
    <2> QED  BY <1>4, <2>2, QuietKept DEF Start, tables
  <1>5. ASSUME NEW p \in Calls, NEW a \in Agents, Connect(p, a) PROVE Kept
    BY <1>5, QuietKept DEF Connect, Calm, Labels, Live, Reopening, tables
  <1>6. ASSUME NEW a \in Agents, Disconnect(a) PROVE Kept
    BY <1>6, Zenon DEF Disconnect, tables, frame, LiveSnap, Kept, ClosedKept
  <1>7. CASE Next
    BY <1>2, <1>3, <1>4, <1>5, <1>6, <1>7, Zenon DEF Next, Kept
  <1> QED  BY <1>1, <1>7

\* complete, cancel, assign, claim, take, transfer, drain, disable: however many
\* of them interleave or fail, a COMPLETED or CANCELLED case keeps its status.
THEOREM ClosedForGood ==
    ASSUME NoReopeners
    PROVE  Spec => ClosedStaysClosed
  <1>1. Inv /\ LiveSnap /\ [Next]_vars => Inv' /\ LiveSnap' /\ [ClosedKept]_vars
    BY NextGood, NextKept
  <1>2. Init => LiveSnap
    BY DEF Init, LiveSnap, Live, Reopening
  <1> QED  BY <1>1, <1>2, InitInv, PTL DEF Spec, ClosedStaysClosed

-----------------------------------------------------------------------------
(* The cap.  A dispatcher acts on loads it counted some statements ago: what *)
(* it counted stays an upper bound as long as no other dispatcher runs       *)
(* (Serial) and no person takes or is given a case meanwhile.                *)

ByHand == {"claim", "take", "assign", "transfer"}
NobodyByHand == Ops \cap ByHand = {}

\* Where only the calls of ByHand can be ("take_silence" is of disable, too).
InPersonsCall ==
    {"claim_read", "claim_own", "claim_shift", "claim_silence", "claim_row",
     "take_read", "take_reread", "take_shift",
     "assign_read", "assign_shift", "assign_own", "assign_silence", "assign_row",
     "transfer_read", "transfer_pick", "transfer_shift", "transfer_own",
     "transfer_row", "transfer_silence"}

Attended(a) == {c \in Cases : owner[c] = a /\ status[c] = "HUMAN_ACTIVE"}

\* The load of an agent once the case of the call is attended, too.
LoadWithTarget(p) == Cardinality(Attended(actor[p]) \cup {target[p]})
TargetHeld(p) == owner[target[p]] \in {actor[p], Nobody}
Counted(p, a) == Load(a) <= local[p].loads[a]

\* What a dispatching call relies on: the agent it picked has a slot; the case
\* it is giving fits; every count bounds a load; both, in the round of a drain.
Picked(p) == actor[p] \in Agents /\ Load(actor[p]) < Cap
Fitting(p) == actor[p] \in Agents /\ TargetHeld(p) /\ LoadWithTarget(p) <= Cap
AllCounted(p) == \A a \in Agents : Counted(p, a)
Serving(p) ==
    /\ actor[p] \in Agents /\ local[p].loads[actor[p]] < Cap /\ TargetHeld(p)
    /\ \A a \in Agents \ {actor[p]} : Counted(p, a)
    /\ LoadWithTarget(p) <= local[p].loads[actor[p]] + 1

Room(p) ==
    /\ pc[p] = "auto_own" => Picked(p)
    /\ pc[p] \in {"auto_reread", "auto_shift"} => Fitting(p)
    /\ pc[p] \in {"drain_fetch", "drain_own"} => AllCounted(p)
    /\ pc[p] \in {"drain_reread", "drain_shift", "drain_row", "drain_silence"} => Serving(p)

OneDispatcher == \A p, q \in Calls : pc[p] \in Dispatching /\ pc[q] \in Dispatching => p = q
OffHands == \A p \in Calls : pc[p] \notin InPersonsCall
RoomLeft == \A p \in Calls : pc[p] \in Dispatching => Room(p)

CapInv == CapRespected /\ OneDispatcher /\ OffHands /\ RoomLeft

\* A step that takes cases out of hands at most.
Lower == \A c \in Cases : /\ owner'[c] \in {owner[c], Nobody}
                          /\ status'[c] = "HUMAN_ACTIVE" => status[c] = "HUMAN_ACTIVE"
OthersWait(p) == \A q \in Calls \ {p} : /\ target'[q] = target[q] /\ actor'[q] = actor[q]
                                        /\ local'[q] = local[q]

-----------------------------------------------------------------------------
LEMMA AttendedFinite ==
    ASSUME NEW a
    PROVE  IsFiniteSet(Attended(a)) /\ Load(a) = Cardinality(Attended(a)) /\ Load(a) \in Nat
  <1>1. IsFiniteSet(Attended(a))
    BY CasesAssumption, FS_Subset DEF Attended
  <1> QED  BY <1>1, LoadType DEF Load, Attended

LEMMA WithTarget ==
    ASSUME NEW a, NEW c
    PROVE  /\ IsFiniteSet(Attended(a) \cup {c})
           /\ Cardinality(Attended(a) \cup {c}) \in Nat
           /\ Cardinality(Attended(a) \cup {c}) \in {Load(a), Load(a) + 1}
           /\ Load(a) <= Cardinality(Attended(a) \cup {c})
  <1>1. IsFiniteSet(Attended(a)) /\ Load(a) = Cardinality(Attended(a)) /\ Load(a) \in Nat
    BY AttendedFinite
  <1>2. /\ IsFiniteSet(Attended(a) \cup {c})
        /\ Cardinality(Attended(a) \cup {c}) = IF c \in Attended(a) THEN Load(a) ELSE Load(a) + 1
    BY <1>1, FS_AddElement
  <1> QED  BY <1>1, <1>2

\* The state after the step, bounded by the state before.
LEMMA LoadBound ==
    ASSUME NEW a, NEW S, IsFiniteSet(S), Attended(a)' \subseteq S
    PROVE  /\ Load(a)' \in Nat /\ Load(a)' <= Cardinality(S) /\ Cardinality(S) \in Nat
           /\ \A c \in S : Cardinality(Attended(a)' \cup {c}) <= Cardinality(S)
  <1>1. IsFiniteSet(Attended(a)') /\ Cardinality(Attended(a)') <= Cardinality(S)
    BY FS_Subset
  <1>2. Load(a)' = Cardinality(Attended(a)')
    BY DEF Load, Attended
  <1>3. Load(a)' \in Nat /\ Cardinality(S) \in Nat
    BY <1>1, <1>2, FS_CardinalityType
  <1>4. ASSUME NEW c \in S PROVE Cardinality(Attended(a)' \cup {c}) <= Cardinality(S)
    <2>1. Attended(a)' \cup {c} \subseteq S
      OBVIOUS
    <2> QED  BY <2>1, FS_Subset
  <1> QED  BY <1>1, <1>2, <1>3, <1>4

LEMMA LowerLoads ==
    ASSUME Lower, NEW a \in Agents
    PROVE  /\ Attended(a)' \subseteq Attended(a) /\ Load(a)' <= Load(a)
           /\ Load(a) \in Nat /\ Load(a)' \in Nat
           /\ \A c : /\ Cardinality(Attended(a)' \cup {c}) <= Cardinality(Attended(a) \cup {c})
                     /\ Cardinality(Attended(a)' \cup {c}) \in Nat
                     /\ Cardinality(Attended(a) \cup {c}) \in Nat
  <1>1. Attended(a)' \subseteq Attended(a)
    BY AgentsAssumption DEF Lower, Attended
  <1>2. Load(a)' <= Load(a) /\ Load(a) \in Nat /\ Load(a)' \in Nat
    BY <1>1, AttendedFinite, LoadBound
  <1>3. ASSUME NEW c
        PROVE  /\ Cardinality(Attended(a)' \cup {c}) <= Cardinality(Attended(a) \cup {c})
               /\ Cardinality(Attended(a)' \cup {c}) \in Nat
               /\ Cardinality(Attended(a) \cup {c}) \in Nat
    <2>1. IsFiniteSet(Attended(a) \cup {c})
      BY WithTarget
    <2>2. Attended(a)' \cup {c} \subseteq Attended(a) \cup {c}
      BY <1>1
    <2> QED  BY <2>1, <2>2, FS_Subset, FS_CardinalityType
  <1> QED  BY <1>1, <1>2, <1>3

LEMMA LowerCap ==
    ASSUME CapRespected, Lower
    PROVE  CapRespected'
  <1> SUFFICES ASSUME NEW a \in Agents PROVE Load(a)' <= Cap
    BY DEF CapRespected
  <1> QED  BY LowerLoads, CapAssumption DEF CapRespected

LEMMA RoomKept ==
    ASSUME Inv, Lower, NEW q \in Calls, Room(q), pc'[q] = pc[q], target'[q] = target[q],
           actor'[q] = actor[q], local'[q] = local[q]
    PROVE  Room(q)'
  <1>1. target[q] \in Cases /\ local[q].loads \in [Agents -> Nat] /\ Cap \in Nat
    BY CapAssumption DEF Inv, TypeOK, FrameTypes, LocalTypes
  <1>2. TargetHeld(q) => TargetHeld(q)'
    BY <1>1 DEF TargetHeld, Lower
  <1>3. ASSUME NEW a \in Agents, Counted(q, a) PROVE Counted(q, a)'
    BY <1>1, <1>3, LowerLoads DEF Counted
  <1>4. actor[q] \in Agents =>
          /\ LoadWithTarget(q)' <= LoadWithTarget(q)
          /\ LoadWithTarget(q) \in Nat /\ LoadWithTarget(q)' \in Nat
    <2> SUFFICES ASSUME NEW a \in Agents, actor[q] = a
                 PROVE  /\ LoadWithTarget(q)' <= LoadWithTarget(q)
                        /\ LoadWithTarget(q) \in Nat /\ LoadWithTarget(q)' \in Nat
      OBVIOUS
    <2>1. /\ LoadWithTarget(q) = Cardinality(Attended(a) \cup {target[q]})
          /\ LoadWithTarget(q)' = Cardinality(Attended(a)' \cup {target[q]})
      BY DEF LoadWithTarget, Attended
    <2> QED  BY <2>1, LowerLoads
  <1>5. Picked(q) => Picked(q)'
    <2> SUFFICES ASSUME NEW a \in Agents, actor[q] = a, Load(a) < Cap
                 PROVE  Load(a)' < Cap
      BY DEF Picked, Load
    <2> QED  BY <1>1, LowerLoads
  <1>6. Fitting(q) => Fitting(q)'
    BY <1>1, <1>2, <1>4 DEF Fitting
  <1>7. AllCounted(q) => AllCounted(q)'
    BY <1>3 DEF AllCounted
  <1>8. Serving(q) => Serving(q)'
    BY <1>1, <1>2, <1>3, <1>4 DEF Serving
  <1> QED  BY <1>5, <1>6, <1>7, <1>8 DEF Room

\* A call that is not dispatching after its step, and hands out nothing.
LEMMA QuietCap ==
    ASSUME Inv, CapInv, NEW p \in Calls, NEW l \in Labels \ (Dispatching \cup InPersonsCall),
           Goto(p, l), OthersWait(p), Lower
    PROVE  CapInv'
  <1>1. pc'[p] = l /\ \A q \in Calls : q # p => pc'[q] = pc[q]
    BY GotoTypes DEF Inv, TypeOK
  <1>2. OneDispatcher' /\ OffHands'
    BY <1>1 DEF CapInv, OneDispatcher, OffHands
  <1>3. ASSUME NEW q \in Calls, pc'[q] \in Dispatching PROVE Room(q)'
    <2>1. q # p /\ pc[q] \in Dispatching
      BY <1>1, <1>3
    <2>2. Room(q)
      BY <2>1 DEF CapInv, RoomLeft
    <2> QED  BY <1>1, <2>1, <2>2, RoomKept DEF OthersWait
  <1> QED  BY <1>2, <1>3, LowerCap DEF CapInv, RoomLeft

\* A step of the dispatching call, or the first of one while no other runs.
LEMMA DispatchCap ==
    ASSUME Serial, Inv, CapInv, NEW p \in Calls, NEW l \in Dispatching, Goto(p, l),
           pc[p] \in Dispatching \/ MayDispatch(p), Room(p)', CapRespected'
    PROVE  CapInv'
  <1>0. l \in Labels
    BY DEF Dispatching, Labels
  <1>1. pc'[p] = l /\ \A q \in Calls : q # p => pc'[q] = pc[q]
    BY <1>0, GotoTypes DEF Inv, TypeOK
  <1>2. \A q \in Calls : pc'[q] \in Dispatching => q = p
    BY <1>1 DEF CapInv, OneDispatcher, MayDispatch
  <1>3. OffHands'
    BY <1>1 DEF CapInv, OffHands, Dispatching, InPersonsCall
  <1> QED  BY <1>2, <1>3 DEF CapInv, OneDispatcher, RoomLeft

-----------------------------------------------------------------------------
(* Steps outside the dispatchers *)

LEMMA StillLower ==
    ASSUME UNCHANGED <<status, owner>>
    PROVE  Lower
  BY DEF Lower

LEMMA ReadCap ==
    ASSUME Inv, CapInv, NEW p \in Calls, NEW l \in Labels \ (Dispatching \cup InPersonsCall),
           Read(p), Goto(p, l)
    PROVE  CapInv'
  <1>1. Lower /\ OthersWait(p)
    BY StillLower DEF Read, tables, OthersWait
  <1> QED  BY <1>1, QuietCap

LEMMA StayCap ==
    ASSUME Inv, CapInv, NEW p \in Calls, NEW l \in Labels \ (Dispatching \cup InPersonsCall),
           Goto(p, l), UNCHANGED <<status, owner, target>>,
           UNCHANGED actor \/ \E a : actor' = [actor EXCEPT ![p] = a],
           UNCHANGED local \/ \E r : local' = [local EXCEPT ![p] = r]
    PROVE  CapInv'
  <1>1. OthersWait(p)
    BY DEF OthersWait, Inv, TypeOK, FrameTypes, LocalTypes
  <1>2. Lower
    BY StillLower
  <1> QED  BY <1>1, <1>2, QuietCap

LEMMA ShiftCap ==
    ASSUME Inv, CapInv, NEW p \in Calls, NEW l \in Labels \ (Dispatching \cup InPersonsCall),
           NEW st \in Statuses \ {"HUMAN_ACTIVE"}, Transition(p, st, l)
    PROVE  CapInv'
  <1>1. OthersWait(p) /\ UNCHANGED owner
    BY DEF Transition, OthersWait
  <1>2. CASE snap[p].version = version[target[p]]
    <2>1. Goto(p, l) /\ status' = [status EXCEPT ![target[p]] = st]
      BY <1>2 DEF Transition
    <2>2. Lower
      BY <1>1, <2>1 DEF Lower, Inv, TypeOK, TableTypes
    <2> QED  BY <1>1, <2>1, <2>2, QuietCap
  <1>3. CASE snap[p].version # version[target[p]]
    <2>1. Goto(p, "failed") /\ UNCHANGED status
      BY <1>3 DEF Transition
    <2>2. "failed" \in Labels \ (Dispatching \cup InPersonsCall)
      BY DEF Labels, Dispatching, InPersonsCall
    <2> QED  BY <1>1, <2>1, <2>2, StillLower, QuietCap
  <1> QED  BY <1>2, <1>3

LEMMA EscalationCap ==
    ASSUME Inv, CapInv, NEW p \in Calls,
           EscRead(p) \/ EscFind(p) \/ EscShift(p) \/ EscSilence(p) \/ EscCreate(p)
           \/ AdvRead(p) \/ AdvShift(p) \/ AdvSilence(p) \/ EnsureFind(p)
    PROVE  CapInv'
  <1>1. CASE EscRead(p)
    BY <1>1, ReadCap DEF EscRead, Labels, Dispatching, InPersonsCall
  <1>2. CASE EscFind(p)
    <2>1. \E l \in {"done", "esc_silence", "esc_shift"} : Goto(p, l)
      BY <1>2, Zenon DEF EscFind
    <2>2. UNCHANGED <<status, owner, target, actor, local>>
      BY <1>2 DEF EscFind, tables
    <2> QED  BY <2>1, <2>2, StayCap DEF Labels, Dispatching, InPersonsCall
  <1>3. CASE EscShift(p)
    BY <1>3, ShiftCap DEF EscShift, Labels, Dispatching, InPersonsCall, Statuses
  <1>4. CASE EscSilence(p)
    BY <1>4, StayCap DEF EscSilence, SetAutomation, Labels, Dispatching, InPersonsCall
  <1>5. CASE EscCreate(p)
    <2>1. /\ Goto(p, "auto_pick") /\ UNCHANGED <<status, owner, target, actor>>
          /\ local' = [local EXCEPT ![p].row = Len(rows) + 1]
      BY <1>5 DEF EscCreate
    <2>2. \E r : local' = [local EXCEPT ![p] = r]
      BY <2>1
    <2> QED  BY <2>1, <2>2, StayCap DEF Labels, Dispatching, InPersonsCall
  <1>6. CASE AdvRead(p)
    BY <1>6, ReadCap DEF AdvRead, Labels, Dispatching, InPersonsCall
  <1>7. CASE AdvShift(p)
    <2> PICK st \in Automatable \cup {"COMPLETED", "ESCALATED"} :
          Transition(p, st, IF st = "ESCALATED" THEN "adv_silence" ELSE "done")
      BY <1>7 DEF AdvShift
    <2> DEFINE l == IF st = "ESCALATED" THEN "adv_silence" ELSE "done"
    <2>1. l \in Labels \ (Dispatching \cup InPersonsCall)
      BY DEF Labels, Dispatching, InPersonsCall
    <2>2. st \in Statuses \ {"HUMAN_ACTIVE"}
      BY DEF Statuses, Automatable, Closed
    <2>3. Transition(p, st, l)
      OBVIOUS
    <2> HIDE DEF l
    <2> QED  BY <2>1, <2>2, <2>3, ShiftCap
  <1>8. CASE AdvSilence(p)
    BY <1>8, StayCap DEF AdvSilence, SetAutomation, Labels, Dispatching, InPersonsCall
  <1>9. CASE EnsureFind(p)
    <2>1. Read(p) /\ \E l \in {"done", "esc_silence"} : Goto(p, l)
      BY <1>9, Zenon DEF EnsureFind
    <2> QED  BY <2>1, ReadCap DEF Labels, Dispatching, InPersonsCall
  <1> QED  BY <1>1, <1>2, <1>3, <1>4, <1>5, <1>6, <1>7, <1>8, <1>9

LEMMA ClosingCap ==
    ASSUME Inv, CapInv, NEW p \in Calls, Closing(p)
    PROVE  CapInv'
  <1>1. CASE CompleteRead(p)
    <2>1. Read(p) /\ \E l \in {"failed", "complete_shift"} : Goto(p, l)
      BY <1>1, Zenon DEF CompleteRead
    <2> QED  BY <2>1, ReadCap DEF Labels, Dispatching, InPersonsCall
  <1>2. CASE CompleteShift(p)
    BY <1>2, ShiftCap DEF CompleteShift, Labels, Dispatching, InPersonsCall, Statuses, Closed
  <1>3. CASE CancelRead(p)
    <2>1. Read(p) /\ \E l \in {"failed", "cancel_shift"} : Goto(p, l)
      BY <1>3, Zenon DEF CancelRead
    <2> QED  BY <2>1, ReadCap DEF Labels, Dispatching, InPersonsCall
  <1>4. CASE CancelShift(p)
    BY <1>4, ShiftCap DEF CancelShift, Labels, Dispatching, InPersonsCall, Statuses, Closed
  <1>5. CASE DisableRead(p)
    BY <1>5, ReadCap DEF DisableRead, Labels, Dispatching, InPersonsCall
  <1>6. CASE ReactRead(p)
    BY <1>6, ReadCap DEF ReactRead, Labels, Dispatching, InPersonsCall
  <1>7. CASE ReactEnable(p)
    <2>1. UNCHANGED <<status, owner, target, local>> /\ actor' = [actor EXCEPT ![p] = snap[p].owner]
      BY <1>7 DEF ReactEnable, SetAutomation
    <2>2. \E l \in {"react_reread", "react_release", "done"} : Goto(p, l)
      BY <1>7, Zenon DEF ReactEnable
    <2> QED  BY <2>1, <2>2, StayCap DEF Labels, Dispatching, InPersonsCall
  <1>8. CASE ReactReread(p)
    BY <1>8, ReadCap DEF ReactReread, Labels, Dispatching, InPersonsCall
  <1>9. CASE ReactShift(p)
    <2> DEFINE l == IF actor[p] = Nobody THEN "done" ELSE "react_release"
    <2>1. l \in Labels \ (Dispatching \cup InPersonsCall)
      BY DEF Labels, Dispatching, InPersonsCall
    <2> PICK st \in Automatable : Transition(p, st, l)
      BY <1>9, Zenon DEF ReactShift
    <2>2. st \in Statuses \ {"HUMAN_ACTIVE"}
      BY DEF Statuses, Automatable, Closed
    <2> HIDE DEF l
    <2> QED  BY <2>1, <2>2, ShiftCap
  <1>10. CASE ReactRelease(p)
    <2>1. /\ UNCHANGED <<status, target, actor, local>> /\ Goto(p, "done")
          /\ owner' = [owner EXCEPT ![target[p]] = Nobody]
      BY <1>10 DEF ReactRelease, SetOwner
    <2>2. Lower
      BY <2>1 DEF Lower, Inv, TypeOK, TableTypes
    <2>3. OthersWait(p)
      BY <2>1 DEF OthersWait
    <2> QED  BY <2>1, <2>2, <2>3, QuietCap DEF Labels, Dispatching, InPersonsCall
  <1> QED  BY <1>1, <1>2, <1>3, <1>4, <1>5, <1>6, <1>7, <1>8, <1>9, <1>10 DEF Closing

-----------------------------------------------------------------------------
(* The dispatchers *)

\* A step that may leave case t with agent a, and touches no other case.
LEMMA HandOut ==
    ASSUME CapRespected, NEW t, NEW a \in Agents, owner'[t] \in {a, Nobody},
           \A c \in Cases \ {t} : owner'[c] = owner[c] /\ status'[c] = status[c],
           Cardinality(Attended(a) \cup {t}) <= Cap
    PROVE  /\ CapRespected'
           /\ \A b \in Agents \ {a} : /\ Load(b)' <= Load(b)
                                      /\ Load(b)' \in Nat /\ Load(b) \in Nat
           /\ Cardinality(Attended(a)' \cup {t}) <= Cardinality(Attended(a) \cup {t})
           /\ Cardinality(Attended(a)' \cup {t}) \in Nat
           /\ Cardinality(Attended(a) \cup {t}) \in Nat
  <1> DEFINE S == Attended(a) \cup {t}
  <1>1. IsFiniteSet(S) /\ Cardinality(S) \in Nat /\ t \in S
    BY WithTarget
  <1>2. Attended(a)' \subseteq S
    BY DEF Attended
  <1>3. \A b \in Agents \ {a} : Attended(b)' \subseteq Attended(b)
    BY AgentsAssumption DEF Attended
  <1> HIDE DEF S
  <1>4. Load(a)' \in Nat /\ Load(a)' <= Cardinality(S) /\ Cardinality(Attended(a)' \cup {t}) <= Cardinality(S)
    BY <1>1, <1>2, LoadBound
  <1>5. ASSUME NEW b \in Agents \ {a}
        PROVE  Load(b)' <= Load(b) /\ Load(b)' \in Nat /\ Load(b) \in Nat
    BY <1>3, AttendedFinite, LoadBound
  <1>6. Cardinality(Attended(a)' \cup {t}) \in Nat
    <2>1. Attended(a)' \cup {t} \subseteq S
      BY <1>2 DEF S
    <2> QED  BY <1>1, <2>1, FS_Subset, FS_CardinalityType
  <1>7. CapRespected'
    BY <1>1, <1>4, <1>5, CapAssumption DEF CapRespected, S
  <1> QED  BY <1>1, <1>4, <1>5, <1>6, <1>7 DEF S

\* A step that leaves the cases as they are.
LEMMA SameRoom ==
    ASSUME UNCHANGED <<status, owner, target, actor>>, NEW p \in Calls
    PROVE  /\ CapRespected => CapRespected'
           /\ Picked(p) => Picked(p)'
           /\ Fitting(p) => Fitting(p)'
           /\ local'[p].loads = local[p].loads => /\ AllCounted(p) => AllCounted(p)'
                                                  /\ Serving(p) => Serving(p)'
  BY DEF CapRespected, Picked, Fitting, AllCounted, Serving, Load, LoadWithTarget, Attended,
         TargetHeld, Counted

LEMMA DoneCap ==
    ASSUME Inv, CapInv, NEW p \in Calls, Goto(p, "done") \/ Goto(p, "failed"),
           UNCHANGED <<status, owner, target>>,
           UNCHANGED actor \/ \E a : actor' = [actor EXCEPT ![p] = a],
           UNCHANGED local \/ \E r : local' = [local EXCEPT ![p] = r]
    PROVE  CapInv'
  BY StayCap DEF Labels, Dispatching, InPersonsCall

LEMMA AutoCap ==
    ASSUME Serial, Inv, CapInv, NEW p \in Calls,
           AutoPick(p) \/ AutoOwn(p) \/ AutoReread(p) \/ AutoShift(p) \/ AutoRow(p)
           \/ AutoSilence(p)
    PROVE  CapInv'
  <1>0. /\ pc \in [Calls -> Labels] /\ actor \in [Calls -> Owners] /\ target[p] \in Cases
        /\ owner \in [Cases -> Owners] /\ status \in [Cases -> Statuses] /\ Cap \in Nat \ {0}
        /\ CapRespected /\ (pc[p] \in Dispatching => Room(p))
    BY CapAssumption DEF Inv, TypeOK, FrameTypes, TableTypes, Owners, CapInv, RoomLeft
  <1>1. CASE AutoPick(p)
    <2> DEFINE best == LeastLoaded(connected, CurrentLoads)
    <2>1. UNCHANGED <<status, owner, target, local>> /\ MayDispatch(p)
      BY <1>1 DEF AutoPick, tables
    <2>2. CASE best = {}
      <3>1. Goto(p, "done") /\ UNCHANGED actor
        BY <1>1, <2>2 DEF AutoPick
      <3> QED  BY <2>1, <3>1, DoneCap
    <2>3. CASE best # {}
      <3>1. PICK a \in best : actor' = [actor EXCEPT ![p] = a] /\ Goto(p, "auto_own")
        BY <1>1, <2>3 DEF AutoPick
      <3>2. a \in Agents /\ CurrentLoads[a] < Cap /\ CurrentLoads[a] = Load(a)
        BY DEF LeastLoaded, CurrentLoads, Inv, TypeOK, TableTypes
      <3>3. actor'[p] = a /\ pc'[p] = "auto_own"
        BY <1>0, <3>1 DEF Goto
      <3>4. Picked(p)'
        BY <2>1, <3>2, <3>3 DEF Picked, Load
      <3>5. Room(p)'
        BY <3>3, <3>4 DEF Room
      <3>6. CapRespected'
        BY <1>0, <2>1 DEF CapRespected, Load
      <3> QED  BY <2>1, <3>1, <3>5, <3>6, DispatchCap DEF Dispatching
    <2> QED  BY <2>2, <2>3
  <1>2. CASE AutoOwn(p)
    <2>1. /\ UNCHANGED <<status, target, actor, local>> /\ owner' = [owner EXCEPT ![target[p]] = actor[p]]
          /\ pc[p] = "auto_own"
      BY <1>2 DEF AutoOwn, SetOwner, At
    <2>2. PICK l \in {"auto_reread", "auto_row"} : Goto(p, l)
      BY <1>2, Zenon DEF AutoOwn
    <2>3. PICK a \in Agents : actor[p] = a
      BY <1>0, <2>1 DEF Room, Picked, Dispatching
    <2>4. PICK t \in Cases : target[p] = t
      BY <1>0
    <2>5. Load(a) < Cap
      BY <1>0, <2>1, <2>3 DEF Room, Picked, Dispatching
    <2>6. Cardinality(Attended(a) \cup {t}) <= Cap
      BY <1>0, <2>5, WithTarget, AttendedFinite
    <2>7. /\ CapRespected'
          /\ Cardinality(Attended(a)' \cup {t}) <= Cap
      BY <1>0, <2>1, <2>3, <2>4, <2>6, HandOut
    <2>8. Fitting(p)'
      BY <1>0, <2>1, <2>3, <2>4, <2>7 DEF Fitting, TargetHeld, LoadWithTarget, Attended
    <2>9. pc'[p] = l
      BY <1>0, <2>2 DEF Goto
    <2>10. Room(p)'
      BY <2>8, <2>9 DEF Room
    <2> QED  BY <2>1, <2>2, <2>7, <2>10, DispatchCap DEF Dispatching
  <1>3. CASE AutoReread(p)
    <2>1. UNCHANGED <<status, owner, target, actor, local>> /\ pc[p] = "auto_reread" /\ Goto(p, "auto_shift")
      BY <1>3 DEF AutoReread, Read, At, tables
    <2>2. Fitting(p)' /\ CapRespected'
      BY <1>0, <2>1, SameRoom DEF Room, Dispatching
    <2>3. pc'[p] = "auto_shift"
      BY <1>0, <2>1 DEF Goto
    <2>4. Room(p)'
      BY <2>2, <2>3 DEF Room
    <2> QED  BY <2>1, <2>2, <2>4, DispatchCap DEF Dispatching
  <1>4. CASE AutoShift(p)
    <2>1. /\ UNCHANGED <<owner, target, actor, local>> /\ pc[p] = "auto_shift" /\ Fitting(p)
          /\ Transition(p, "HUMAN_ACTIVE", "auto_row")
      BY <1>0, <1>4 DEF AutoShift, Transition, At, Room, Dispatching
    <2>2. CASE snap[p].version = version[target[p]]
      <3>1. Goto(p, "auto_row") /\ status' = [status EXCEPT ![target[p]] = "HUMAN_ACTIVE"]
        BY <2>1, <2>2 DEF Transition
      <3>2. PICK a \in Agents, t \in Cases : actor[p] = a /\ target[p] = t
        BY <1>0, <2>1 DEF Fitting
      <3>3. owner'[t] \in {a, Nobody} /\ Cardinality(Attended(a) \cup {t}) <= Cap
        BY <2>1, <3>2 DEF Fitting, TargetHeld, LoadWithTarget
      <3>4. CapRespected'
        BY <1>0, <2>1, <3>1, <3>2, <3>3, HandOut
      <3>5. pc'[p] = "auto_row"
        BY <1>0, <3>1 DEF Goto
      <3>6. Room(p)'
        BY <3>5 DEF Room
      <3> QED  BY <2>1, <3>1, <3>4, <3>6, DispatchCap DEF Dispatching
    <2>3. CASE snap[p].version # version[target[p]]
      <3>1. Goto(p, "failed") /\ UNCHANGED status
        BY <2>1, <2>3 DEF Transition
      <3> QED  BY <2>1, <3>1, DoneCap
    <2> QED  BY <2>2, <2>3
  <1>5. CASE AutoRow(p)
    <2>1. /\ UNCHANGED <<status, owner, target, actor, local>> /\ pc[p] = "auto_row" /\ Goto(p, "auto_silence")
      BY <1>5 DEF AutoRow, UpdateRow, At
    <2>2. pc'[p] = "auto_silence"
      BY <1>0, <2>1 DEF Goto
    <2>3. Room(p)' /\ CapRespected'
      BY <1>0, <2>1, <2>2, SameRoom DEF Room
    <2> QED  BY <2>1, <2>3, DispatchCap DEF Dispatching
  <1>6. CASE AutoSilence(p)
    BY <1>6, DoneCap DEF AutoSilence, SetAutomation
  <1> QED  BY <1>1, <1>2, <1>3, <1>4, <1>5, <1>6

LEMMA RoundCap ==
    ASSUME Serial, Inv, CapInv, NEW p \in Calls,
           DrainRoster(p) \/ DrainLoad(p) \/ DrainFetch(p) \/ DrainOwn(p)
    PROVE  CapInv'
  <1>0. /\ pc \in [Calls -> Labels] /\ actor \in [Calls -> Owners] /\ target \in [Calls -> Cases]
        /\ owner \in [Cases -> Owners] /\ local \in [Calls -> LocalRecord] /\ Cap \in Nat \ {0}
        /\ CapRespected /\ (pc[p] \in Dispatching => Room(p))
    BY CapAssumption DEF Inv, TypeOK, FrameTypes, TableTypes, LocalTypes, LocalRecord, Owners, CapInv,
                         RoomLeft
  <1>1. CASE DrainRoster(p)
    <2>1. /\ UNCHANGED <<status, owner, target, actor>> /\ MayDispatch(p)
          /\ local' = [local EXCEPT ![p].roster = connected]
      BY <1>1 DEF DrainRoster, tables
    <2>2. \E r : local' = [local EXCEPT ![p] = r]
      BY <2>1
    <2>3. CASE Goto(p, "done")
      BY <2>1, <2>2, <2>3, DoneCap
    <2>4. CASE Goto(p, "drain_load")
      <3>1. pc'[p] = "drain_load"
        BY <1>0, <2>4 DEF Goto
      <3>2. Room(p)' /\ CapRespected'
        BY <1>0, <2>1, <3>1, SameRoom DEF Room
      <3> QED  BY <2>1, <2>4, <3>2, DispatchCap DEF Dispatching
    <2>5. Goto(p, "done") \/ Goto(p, "drain_load")
      BY <1>1 DEF DrainRoster
    <2> QED  BY <2>3, <2>4, <2>5
  <1>2. CASE DrainLoad(p)
    <2>1. /\ UNCHANGED <<status, owner, target, actor>> /\ pc[p] = "drain_load"
          /\ local' = [local EXCEPT ![p].loads = CurrentLoads]
      BY <1>2 DEF DrainLoad, tables, At
    <2>2. \E r : local' = [local EXCEPT ![p] = r]
      BY <2>1
    <2>3. CASE Goto(p, "done")
      BY <2>1, <2>2, <2>3, DoneCap
    <2>4. CASE Goto(p, "drain_fetch")
      <3>1. pc'[p] = "drain_fetch"
        BY <1>0, <2>4 DEF Goto
      <3>2. local'[p].loads = CurrentLoads
        BY <1>0, <2>1 DEF LocalRecord
      <3>3. \A a \in Agents : Load(a)' = Load(a) /\ CurrentLoads[a] = Load(a) /\ Load(a) \in Nat
        BY <2>1, LoadType DEF Load, CurrentLoads
      <3>4. AllCounted(p)'
        BY <3>2, <3>3 DEF AllCounted, Counted
      <3>5. Room(p)' /\ CapRespected'
        BY <1>0, <2>1, <3>1, <3>4, SameRoom DEF Room
      <3> QED  BY <2>1, <2>4, <3>5, DispatchCap DEF Dispatching
    <2>5. Goto(p, "done") \/ Goto(p, "drain_fetch")
      BY <1>2 DEF DrainLoad
    <2> QED  BY <2>3, <2>4, <2>5
  <1>3. CASE DrainFetch(p)
    <2>1. /\ UNCHANGED <<status, owner, target, actor>> /\ pc[p] = "drain_fetch"
          /\ \E b : local' = [local EXCEPT ![p].todo = b]
      BY <1>3 DEF DrainFetch, tables, At
    <2>2. \E r : local' = [local EXCEPT ![p] = r]
      BY <2>1
    <2>3. CASE Goto(p, "done")
      BY <2>1, <2>2, <2>3, DoneCap
    <2>4. CASE Goto(p, "drain_own")
      <3>1. pc'[p] = "drain_own"
        BY <1>0, <2>4 DEF Goto
      <3>2. local'[p].loads = local[p].loads
        BY <1>0, <2>1 DEF LocalRecord
      <3>3. AllCounted(p)' /\ CapRespected'
        BY <1>0, <2>1, <3>2, SameRoom DEF Room, Dispatching
      <3>4. Room(p)'
        BY <3>1, <3>3 DEF Room
      <3> QED  BY <2>1, <2>4, <3>3, <3>4, DispatchCap DEF Dispatching
    <2>5. Goto(p, "done") \/ Goto(p, "drain_own")
      BY <1>3, Zenon DEF DrainFetch
    <2> QED  BY <2>3, <2>4, <2>5
  <1>4. CASE DrainOwn(p)
    <2> DEFINE best == LeastLoaded(local[p].roster, local[p].loads)
    <2>1. UNCHANGED status /\ pc[p] = "drain_own" /\ AllCounted(p)
      BY <1>0, <1>4 DEF DrainOwn, At, Room, Dispatching
    <2>2. CASE best = {}
      <3>1. Goto(p, "done") /\ UNCHANGED <<owner, target, actor, local>>
        BY <1>4, <2>2, Zenon DEF DrainOwn
      <3> QED  BY <2>1, <3>1, DoneCap
    <2>3. CASE best # {}
      <3> PICK i \in local[p].todo, a \in best :
              /\ owner' = [owner EXCEPT ![rows[i].case] = a]
              /\ target' = [target EXCEPT ![p] = rows[i].case]
              /\ actor' = [actor EXCEPT ![p] = a]
              /\ local' = [local EXCEPT ![p].row = i, ![p].todo = @ \ {i}]
              /\ Goto(p, "drain_reread")
        BY <1>4, <2>3, Zenon DEF DrainOwn
      <3>1. a \in Agents /\ local[p].loads[a] < Cap /\ local[p].loads \in [Agents -> Nat]
        BY <1>0 DEF LeastLoaded, LocalRecord
      <3>2. i \in DOMAIN rows /\ rows[i] \in Row
        BY DEF Inv, TypeOK, LocalTypes, TableTypes
      <3>3. PICK t \in Cases : rows[i].case = t
        BY <3>2 DEF Row
      <3>4. /\ target'[p] = t /\ actor'[p] = a /\ owner'[t] = a /\ pc'[p] = "drain_reread"
            /\ \A c \in Cases \ {t} : owner'[c] = owner[c] /\ status'[c] = status[c]
        BY <1>0, <2>1, <3>3 DEF Goto
      <3>5. local'[p].loads = local[p].loads
        BY <1>0 DEF LocalRecord
      <3>6. Load(a) <= local[p].loads[a] /\ Load(a) \in Nat
        BY <2>1, <3>1, LoadType DEF AllCounted, Counted
      <3>7. /\ Cardinality(Attended(a) \cup {t}) <= local[p].loads[a] + 1
            /\ Cardinality(Attended(a) \cup {t}) \in Nat
        <4>1. /\ Cardinality(Attended(a) \cup {t}) \in Nat
              /\ Cardinality(Attended(a) \cup {t}) \in {Load(a), Load(a) + 1}
          BY WithTarget
        <4>2. local[p].loads[a] \in Nat
          BY <3>1
        <4> QED  BY <3>6, <4>1, <4>2
      <3>8. Cardinality(Attended(a) \cup {t}) <= Cap
        BY <1>0, <3>1, <3>7
      <3>9. /\ CapRespected'
            /\ \A b \in Agents \ {a} : Load(b)' <= Load(b) /\ Load(b)' \in Nat /\ Load(b) \in Nat
            /\ Cardinality(Attended(a)' \cup {t}) <= Cardinality(Attended(a) \cup {t})
            /\ Cardinality(Attended(a)' \cup {t}) \in Nat
        BY <1>0, <3>1, <3>4, <3>8, HandOut
      <3>10. LoadWithTarget(p)' = Cardinality(Attended(a)' \cup {t}) /\ TargetHeld(p)'
        BY <3>4 DEF LoadWithTarget, TargetHeld, Attended
      <3>11. \A b \in Agents \ {a} : Counted(p, b)'
        BY <2>1, <3>1, <3>5, <3>9 DEF AllCounted, Counted
      <3>12. LoadWithTarget(p)' <= local'[p].loads[a] + 1
        BY <3>1, <3>5, <3>7, <3>9, <3>10
      <3>13. Serving(p)'
        BY <3>1, <3>4, <3>5, <3>10, <3>11, <3>12 DEF Serving
      <3>14. Room(p)'
        BY <3>4, <3>13 DEF Room
      <3> QED  BY <2>1, <3>9, <3>14, DispatchCap DEF Dispatching
    <2> QED  BY <2>2, <2>3
  <1> QED  BY <1>1, <1>2, <1>3, <1>4

LEMMA ServeCap ==
    ASSUME Serial, Inv, CapInv, NEW p \in Calls,
           DrainReread(p) \/ DrainShift(p) \/ DrainRow(p) \/ DrainSilence(p)
    PROVE  CapInv'
  <1>0. /\ pc \in [Calls -> Labels] /\ actor \in [Calls -> Owners] /\ target \in [Calls -> Cases]
        /\ owner \in [Cases -> Owners] /\ status \in [Cases -> Statuses]
        /\ local \in [Calls -> LocalRecord] /\ Cap \in Nat \ {0}
        /\ CapRespected /\ (pc[p] \in Dispatching => Room(p))
    BY CapAssumption DEF Inv, TypeOK, FrameTypes, TableTypes, LocalTypes, LocalRecord, Owners, CapInv,
                         RoomLeft
  <1>00. local[p].loads \in [Agents -> Nat]
    BY <1>0 DEF LocalRecord
  <1>1. ASSUME UNCHANGED <<status, owner, target, actor, local>>,
               pc[p] \in {"drain_reread", "drain_shift", "drain_row"},
               NEW l \in {"drain_shift", "drain_row", "drain_silence"}, Goto(p, l)
        PROVE  CapInv'
    <2>1. Serving(p)' /\ CapRespected'
      BY <1>0, <1>1, SameRoom DEF Room, Dispatching
    <2>2. pc'[p] = l
      BY <1>0, <1>1 DEF Goto
    <2>3. Room(p)'
      BY <2>1, <2>2 DEF Room
    <2> QED  BY <1>1, <2>1, <2>3, DispatchCap DEF Dispatching
  <1>2. CASE DrainReread(p)
    <2>1. UNCHANGED <<status, owner, target, actor, local>> /\ pc[p] = "drain_reread"
      BY <1>2 DEF DrainReread, Read, tables, At
    <2>2. \E l \in {"drain_shift", "drain_row"} : Goto(p, l)
      BY <1>2, Zenon DEF DrainReread
    <2> QED  BY <1>1, <2>1, <2>2
  <1>3. CASE DrainShift(p)
    <2>1. /\ UNCHANGED <<owner, target, actor, local>> /\ pc[p] = "drain_shift" /\ Serving(p)
          /\ Transition(p, "HUMAN_ACTIVE", "drain_row")
      BY <1>0, <1>3 DEF DrainShift, Transition, At, Room, Dispatching
    <2>2. CASE snap[p].version = version[target[p]]
      <3>1. Goto(p, "drain_row") /\ status' = [status EXCEPT ![target[p]] = "HUMAN_ACTIVE"]
        BY <2>1, <2>2 DEF Transition
      <3>2. PICK a \in Agents, t \in Cases : actor[p] = a /\ target[p] = t
        BY <1>0, <2>1 DEF Serving
      <3>3. /\ owner'[t] \in {a, Nobody} /\ local[p].loads[a] < Cap
            /\ Cardinality(Attended(a) \cup {t}) <= local[p].loads[a] + 1
            /\ \A b \in Agents \ {a} : Counted(p, b)
        BY <2>1, <3>2 DEF Serving, TargetHeld, LoadWithTarget
      <3>4. Cardinality(Attended(a) \cup {t}) \in Nat /\ local[p].loads[a] \in Nat
        BY <1>00, WithTarget
      <3>5. Cardinality(Attended(a) \cup {t}) <= Cap
        BY <1>0, <3>3, <3>4
      <3>6. /\ CapRespected'
            /\ \A b \in Agents \ {a} : Load(b)' <= Load(b) /\ Load(b)' \in Nat /\ Load(b) \in Nat
            /\ Cardinality(Attended(a)' \cup {t}) <= Cardinality(Attended(a) \cup {t})
            /\ Cardinality(Attended(a)' \cup {t}) \in Nat
        BY <1>0, <2>1, <3>1, <3>2, <3>3, <3>5, HandOut
      <3>7. LoadWithTarget(p)' = Cardinality(Attended(a)' \cup {t}) /\ TargetHeld(p)'
        BY <2>1, <3>2, <3>3 DEF LoadWithTarget, TargetHeld, Attended
      <3>8. \A b \in Agents \ {a} : Counted(p, b)'
        BY <1>00, <2>1, <3>3, <3>6 DEF Counted
      <3>9. Serving(p)'
        BY <2>1, <3>2, <3>3, <3>4, <3>6, <3>7, <3>8 DEF Serving
      <3>10. pc'[p] = "drain_row"
        BY <1>0, <3>1 DEF Goto
      <3>11. Room(p)'
        BY <3>9, <3>10 DEF Room
      <3> QED  BY <2>1, <3>1, <3>6, <3>11, DispatchCap DEF Dispatching
    <2>3. CASE snap[p].version # version[target[p]]
      <3>1. Goto(p, "failed") /\ UNCHANGED status
        BY <2>1, <2>3 DEF Transition
      <3> QED  BY <2>1, <3>1, DoneCap
    <2> QED  BY <2>2, <2>3
  <1>4. CASE DrainRow(p)
    <2>1. /\ UNCHANGED <<status, owner, target, actor, local>> /\ pc[p] = "drain_row"
          /\ Goto(p, "drain_silence")
      BY <1>4 DEF DrainRow, UpdateRow, At
    <2> QED  BY <1>1, <2>1
  <1>5. CASE DrainSilence(p)
    <2>1. /\ UNCHANGED <<status, owner, target, actor>> /\ pc[p] = "drain_silence" /\ Serving(p)
          /\ local' = [local EXCEPT ![p].loads[actor[p]] = local[p].loads[actor[p]] + 1]
      BY <1>0, <1>5 DEF DrainSilence, SetAutomation, At, Room, Dispatching
    <2>2. \E r : local' = [local EXCEPT ![p] = r]
      BY <2>1
    <2>3. CASE Goto(p, "done")
      BY <2>1, <2>2, <2>3, DoneCap
    <2>4. CASE Goto(p, "drain_own")
      <3>1. PICK a \in Agents : actor[p] = a
        BY <2>1 DEF Serving
      <3>2. local'[p].loads = [local[p].loads EXCEPT ![a] = local[p].loads[a] + 1]
        BY <1>0, <2>1, <3>1 DEF LocalRecord
      <3>3. Load(a) <= local[p].loads[a] + 1
        <4>1. /\ LoadWithTarget(p) = Cardinality(Attended(a) \cup {target[p]})
              /\ LoadWithTarget(p) <= local[p].loads[a] + 1
          BY <2>1, <3>1 DEF LoadWithTarget, Serving
        <4>2. local[p].loads[a] \in Nat /\ Load(a) \in Nat
          BY <1>00, LoadType
        <4>3. /\ Cardinality(Attended(a) \cup {target[p]}) \in Nat
              /\ Load(a) <= Cardinality(Attended(a) \cup {target[p]})
          BY WithTarget
        <4> QED  BY <4>1, <4>2, <4>3
      <3>4. \A b \in Agents : Load(b)' = Load(b) /\ Load(b) \in Nat
        BY <2>1, LoadType DEF Load
      <3>5. \A b \in Agents \ {a} : Load(b) <= local[p].loads[b]
        BY <2>1, <3>1 DEF Serving, Counted
      <3>6. AllCounted(p)'
        BY <1>00, <3>2, <3>3, <3>4, <3>5 DEF AllCounted, Counted
      <3>7. pc'[p] = "drain_own"
        BY <1>0, <2>4 DEF Goto
      <3>8. Room(p)' /\ CapRespected'
        BY <1>0, <2>1, <3>6, <3>7, SameRoom DEF Room
      <3> QED  BY <2>1, <2>4, <3>8, DispatchCap DEF Dispatching
    <2>5. Goto(p, "done") \/ Goto(p, "drain_own")
      BY <1>5, Zenon DEF DrainSilence
    <2> QED  BY <2>3, <2>4, <2>5
  <1> QED  BY <1>2, <1>3, <1>4, <1>5

-----------------------------------------------------------------------------
LEMMA NextCap ==
    ASSUME Serial, NobodyByHand, Inv, CapInv, [Next]_vars
    PROVE  CapInv'
  <1>1. CASE UNCHANGED vars
    BY <1>1, Zenon DEF vars, tables, frame, CapInv, CapRespected, OneDispatcher, OffHands, RoomLeft,
       Room, Picked, Fitting, AllCounted, Serving, Counted, TargetHeld, LoadWithTarget, Attended, Load
  <1>2. ASSUME NEW p \in Calls, Step(p) PROVE CapInv'
    <2>1. CASE Escalation(p)
      BY <2>1, EscalationCap, AutoCap, Zenon DEF Escalation
    <2>2. CASE Drain(p)
      BY <2>2, RoundCap, ServeCap, Zenon DEF Drain
    <2>3. CASE ByAgent(p)
      <3>1. pc[p] \notin InPersonsCall
        BY DEF CapInv, OffHands
      <3>2. TakeSilence(p)
        BY <2>3, <3>1 DEF ByAgent, InPersonsCall, At, ClaimRead, ClaimOwn, ClaimShift, ClaimSilence,
           ClaimRow, TakeRead, TakeReread, TakeShift, AssignRead, AssignShift, AssignOwn,
           AssignSilence, AssignRow, TransferRead, TransferPick, TransferShift, TransferOwn,
           TransferRow, TransferSilence
      <3> QED  BY <3>2, DoneCap DEF TakeSilence, SetAutomation
    <2>4. CASE Closing(p)
      BY <2>4, ClosingCap
    <2> QED  BY <1>2, <2>1, <2>2, <2>3, <2>4 DEF Step
  <1>3. ASSUME NEW p \in Calls, Fail(p) PROVE CapInv'
    BY <1>3, DoneCap DEF Fail, tables
  <1>4. ASSUME NEW p \in Calls, NEW o \in Ops, NEW c \in Cases, NEW a \in Agents, Start(p, o, c, a)
        PROVE  CapInv'
    <2>1. o \in Handlers \ ByHand
      BY OpsAssumption DEF NobodyByHand
    <2>2. FirstLabel(o) \in Labels \ (Dispatching \cup InPersonsCall)
      BY <2>1 DEF FirstLabel, Handlers, ByHand, Labels, Dispatching, InPersonsCall
    <2>3. OthersWait(p) /\ Goto(p, FirstLabel(o)) /\ UNCHANGED <<status, owner>>
      BY <1>4 DEF Start, tables, OthersWait, Inv, TypeOK, FrameTypes
    <2> QED  BY <2>2, <2>3, StillLower, QuietCap
  <1>5. ASSUME NEW p \in Calls, NEW a \in Agents, Connect(p, a) PROVE CapInv'
    BY <1>5, StayCap DEF Connect, tables, Labels, Dispatching, InPersonsCall
  <1>6. ASSUME NEW a \in Agents, Disconnect(a) PROVE CapInv'
    <2>1. UNCHANGED <<tables, frame>>
      BY <1>6 DEF Disconnect
    <2> QED  BY <2>1, Zenon DEF tables, frame, CapInv, CapRespected, OneDispatcher, OffHands,
         RoomLeft, Room, Picked, Fitting, AllCounted, Serving, Counted, TargetHeld, LoadWithTarget,
         Attended, Load
  <1>7. CASE Next
    BY <1>2, <1>3, <1>4, <1>5, <1>6, <1>7, Zenon DEF Next
  <1> QED  BY <1>1, <1>7

LEMMA InitCap == Init => CapInv
  <1> SUFFICES ASSUME Init PROVE CapInv
    OBVIOUS
  <1>1. \A a \in Agents : Load(a) = 0
    <2> SUFFICES ASSUME NEW a \in Agents PROVE Load(a) = 0
      OBVIOUS
    <2>1. Attended(a) = {}
      BY AgentsAssumption DEF Attended, Init
    <2> QED  BY <2>1, AttendedFinite, FS_EmptySet
  <1>2. CapRespected
    BY <1>1, CapAssumption DEF CapRespected
  <1>3. \A p \in Calls : pc[p] = "idle"
    BY DEF Init
  <1> QED  BY <1>2, <1>3 DEF CapInv, OneDispatcher, OffHands, RoomLeft, Dispatching, InPersonsCall

\* drain-department-queue.service.ts, auto-assign-agent.service.ts: while one
\* dispatching call runs at a time and no person takes or is given a case by
\* hand, however the calls interleave with the others or fail, no agent ever
\* attends more cases than the cap of the department.
THEOREM CapHolds ==
    ASSUME Serial, NobodyByHand
    PROVE  Spec => []CapRespected
  <1>1. Inv /\ CapInv /\ [Next]_vars => Inv' /\ CapInv'
    BY NextGood, NextCap
  <1>2. CapInv => CapRespected
    BY DEF CapInv
  <1> QED  BY <1>1, <1>2, InitInv, InitCap, PTL DEF Spec

-----------------------------------------------------------------------------
(* Automation off.  A case of a person may still have its automation on only *)
(* while the call that gave it away is on its way to switch it off.          *)

WithPeople == {"ESCALATED", "HUMAN_ACTIVE"}

\* Between the transition and the statement that switches the automation off.
Transferring == {"transfer_own", "transfer_row", "transfer_silence"}
Silencing == {"esc_silence", "adv_silence", "auto_row", "auto_silence",
              "drain_row", "drain_silence", "claim_silence", "take_silence",
              "assign_own", "assign_silence"} \cup Transferring

\* A transfer to nobody leaves the automation as it was.
WillSilence(p, c) ==
    /\ pc[p] \in Silencing /\ target[p] = c
    /\ pc[p] \in Transferring => actor[p] # Nobody

SilenceComes ==
    \A c \in Cases : status[c] \in WithPeople /\ automation[c] =>
        \E p \in Calls : WillSilence(p, c)

\* Where only the calls of "reactivate" can be.
Reactivating == {"react_read", "react_enable", "react_reread", "react_shift", "react_release"}

OffInv == SilenceComes /\ \A p \in Calls : pc[p] \notin Reactivating

OthersStay(p) == \A q \in Calls \ {p} : /\ pc'[q] = pc[q] /\ target'[q] = target[q]
                                        /\ actor'[q] = actor[q]

-----------------------------------------------------------------------------
LEMMA GotoOthers ==
    ASSUME Inv, NEW p \in Calls, NEW l, Goto(p, l), UNCHANGED <<target, actor>>
    PROVE  OthersStay(p) /\ pc'[p] = l
  BY DEF Inv, TypeOK, FrameTypes, Goto, OthersStay

\* What is left to show of a step of p.
LEMMA Remaining ==
    ASSUME OffInv, NEW p \in Calls, OthersStay(p), pc'[p] \notin Reactivating,
           \A c \in Cases : status'[c] \in WithPeople /\ automation'[c] =>
               \E q \in Calls : WillSilence(q, c)'
    PROVE  OffInv'
  BY DEF OffInv, SilenceComes, OthersStay

LEMMA WitnessStays ==
    ASSUME OffInv, NEW p \in Calls, OthersStay(p), NEW c \in Cases,
           status[c] \in WithPeople, automation[c]
    PROVE  WillSilence(p, c) \/ \E q \in Calls : WillSilence(q, c)'
  <1>1. PICK q \in Calls : WillSilence(q, c)
    BY DEF OffInv, SilenceComes
  <1> QED  BY <1>1 DEF WillSilence, OthersStay

\* A call that is not about to silence its case goes on.
LEMMA MoveOff ==
    ASSUME OffInv, NEW p \in Calls, OthersStay(p), pc[p] \notin Silencing,
           pc'[p] \notin Reactivating, UNCHANGED <<status, automation>>
    PROVE  OffInv'
  <1>1. \A c \in Cases : status'[c] \in WithPeople /\ automation'[c] =>
            \E q \in Calls : WillSilence(q, c)'
    BY WitnessStays DEF WillSilence
  <1> QED  BY <1>1, Remaining

LEMMA StillOff ==
    ASSUME Inv, OffInv, NEW p \in Calls, NEW l, Goto(p, l), UNCHANGED <<target, actor>>,
           pc[p] \notin Silencing, l \notin Reactivating, UNCHANGED <<status, automation>>
    PROVE  OffInv'
  BY GotoOthers, MoveOff

LEMMA ReadOff ==
    ASSUME Inv, OffInv, NEW p \in Calls, NEW l, Goto(p, l), Read(p), pc[p] \notin Silencing,
           l \notin Reactivating
    PROVE  OffInv'
  BY StillOff DEF Read, tables

\* One that is about to goes to its next statement.
LEMMA NearerOff ==
    ASSUME Inv, OffInv, NEW p \in Calls, NEW l \in Silencing, Goto(p, l),
           UNCHANGED <<target, actor, status, automation>>,
           l \in Transferring => actor[p] # Nobody
    PROVE  OffInv'
  <1>1. OthersStay(p) /\ pc'[p] = l
    BY GotoOthers
  <1>2. l \notin Reactivating
    BY DEF Silencing, Transferring, Reactivating
  <1>3. ASSUME NEW c \in Cases, WillSilence(p, c) PROVE WillSilence(p, c)'
    BY <1>1, <1>3 DEF WillSilence
  <1>4. \A c \in Cases : status'[c] \in WithPeople /\ automation'[c] =>
            \E q \in Calls : WillSilence(q, c)'
    BY <1>1, <1>3, WitnessStays
  <1> QED  BY <1>1, <1>2, <1>4, Remaining

\* A transfer to nobody goes on.
LEMMA NobodyOff ==
    ASSUME Inv, OffInv, NEW p \in Calls, NEW l, Goto(p, l), pc[p] \in Transferring,
           actor[p] = Nobody, l \notin Reactivating, UNCHANGED <<target, actor, status, automation>>
    PROVE  OffInv'
  <1>1. OthersStay(p) /\ pc'[p] = l
    BY GotoOthers
  <1>2. \A c \in Cases : status'[c] \in WithPeople /\ automation'[c] =>
            \E q \in Calls : WillSilence(q, c)'
    BY <1>1, WitnessStays DEF WillSilence
  <1> QED  BY <1>1, <1>2, Remaining

LEMMA SilenceOff ==
    ASSUME Inv, OffInv, NEW p \in Calls, NEW l, Goto(p, l), SetAutomation(p, FALSE),
           UNCHANGED actor, l \notin Reactivating
    PROVE  OffInv'
  <1>1. /\ OthersStay(p) /\ UNCHANGED <<status, target>> /\ pc'[p] = l
        /\ automation' = [automation EXCEPT ![target[p]] = FALSE]
    BY GotoOthers DEF SetAutomation
  <1>2. ASSUME NEW c \in Cases, status[c] \in WithPeople, automation'[c]
        PROVE  \E q \in Calls : WillSilence(q, c)'
    <2>1. automation[c] /\ c # target[p]
      BY <1>1, <1>2 DEF Inv, TypeOK, TableTypes
    <2> QED  BY <1>1, <1>2, <2>1, WitnessStays DEF WillSilence
  <1> QED  BY <1>1, <1>2, Remaining

LEMMA ShiftOff ==
    ASSUME Inv, OffInv, NEW p \in Calls, NEW st, NEW l, Transition(p, st, l),
           pc[p] \in Holding, l \notin Reactivating,
           \/ st \notin WithPeople
           \/ st = snap[p].status
           \/ l \in Silencing /\ (l \in Transferring => actor[p] # Nobody)
    PROVE  OffInv'
  <1>0. pc[p] \notin Silencing /\ UNCHANGED <<target, actor, automation>> /\ target[p] \in Cases
    BY DEF Holding, Silencing, Transferring, Transition, Inv, TypeOK, FrameTypes
  <1>1. CASE snap[p].version = version[target[p]]
    <2>1. status' = [status EXCEPT ![target[p]] = st] /\ Goto(p, l)
      BY <1>1 DEF Transition
    <2>2. OthersStay(p) /\ pc'[p] = l
      BY <1>0, <2>1, GotoOthers
    <2>3. snap[p].status = status[target[p]]
      BY <1>1 DEF Inv, SnapSound, Sound
    <2>4. ASSUME NEW c \in Cases, status'[c] \in WithPeople, automation[c]
          PROVE  \E q \in Calls : WillSilence(q, c)'
      <3>1. CASE status[c] \in WithPeople
        BY <1>0, <2>2, <2>4, <3>1, WitnessStays DEF WillSilence
      <3>2. CASE status[c] \notin WithPeople
        <4>1. c = target[p] /\ st \in WithPeople /\ st # snap[p].status
          BY <2>1, <2>3, <2>4, <3>2 DEF Inv, TypeOK, TableTypes
        <4>2. WillSilence(p, c)'
          BY <1>0, <2>2, <4>1 DEF WillSilence
        <4> QED  BY <4>2
      <3> QED  BY <3>1, <3>2
    <2> QED  BY <1>0, <2>2, <2>4, Remaining
  <1>2. CASE snap[p].version # version[target[p]]
    <2>1. Goto(p, "failed") /\ UNCHANGED status
      BY <1>2 DEF Transition
    <2>2. "failed" \notin Reactivating
      BY DEF Reactivating
    <2> QED  BY <1>0, <2>1, <2>2, StillOff
  <1> QED  BY <1>1, <1>2

-----------------------------------------------------------------------------
LEMMA EscalationOff ==
    ASSUME Inv, OffInv, NEW p \in Calls, Escalation(p)
    PROVE  OffInv'
  <1>1. CASE EscRead(p)
    BY <1>1, ReadOff DEF EscRead, At, Silencing, Transferring, Reactivating
  <1>2. CASE EscFind(p)
    <2>1. UNCHANGED <<target, actor, status, automation>> /\ pc[p] \notin Silencing
      BY <1>2 DEF EscFind, tables, At, Silencing, Transferring
    <2>2. \E l \in {"done", "esc_silence", "esc_shift"} : Goto(p, l)
      BY <1>2, Zenon DEF EscFind
    <2> QED  BY <2>1, <2>2, StillOff DEF Reactivating
  <1>3. CASE EscShift(p)
    BY <1>3, ShiftOff DEF EscShift, At, Holding, Silencing, Transferring, Reactivating
  <1>4. CASE EscSilence(p)
    BY <1>4, SilenceOff DEF EscSilence, Reactivating
  <1>5. CASE EscCreate(p)
    BY <1>5, StillOff DEF EscCreate, At, Silencing, Transferring, Reactivating
  <1>6. CASE AdvRead(p)
    BY <1>6, ReadOff DEF AdvRead, At, Silencing, Transferring, Reactivating
  <1>7. CASE AdvShift(p)
    <2> PICK st \in Automatable \cup {"COMPLETED", "ESCALATED"} :
          Transition(p, st, IF st = "ESCALATED" THEN "adv_silence" ELSE "done")
      BY <1>7 DEF AdvShift
    <2> DEFINE l == IF st = "ESCALATED" THEN "adv_silence" ELSE "done"
    <2>1. l \notin Reactivating /\ pc[p] \in Holding
      BY <1>7 DEF AdvShift, At, Holding, Reactivating
    <2>2. st \notin WithPeople \/ (l \in Silencing /\ l \notin Transferring)
      BY DEF WithPeople, Automatable, Silencing, Transferring
    <2>3. Transition(p, st, l)
      OBVIOUS
    <2> HIDE DEF l
    <2> QED  BY <2>1, <2>2, <2>3, ShiftOff
  <1>8. CASE AdvSilence(p)
    BY <1>8, SilenceOff DEF AdvSilence, Reactivating
  <1>9. CASE EnsureFind(p)
    <2>1. Read(p) /\ pc[p] \notin Silencing /\ \E l \in {"done", "esc_silence"} : Goto(p, l)
      BY <1>9 DEF EnsureFind, At, Silencing, Transferring
    <2> QED  BY <2>1, ReadOff DEF Reactivating
  <1>10. CASE AutoPick(p)
    <2>1. UNCHANGED <<status, automation, target>> /\ pc[p] \notin Silencing
      BY <1>10 DEF AutoPick, tables, At, Silencing, Transferring
    <2>2. \E l \in {"done", "auto_own"} : Goto(p, l)
      BY <1>10, Zenon DEF AutoPick
    <2>3. UNCHANGED actor \/ \E a : actor' = [actor EXCEPT ![p] = a]
      BY <1>10, Zenon DEF AutoPick
    <2>4. OthersStay(p) /\ pc'[p] \notin Reactivating
      BY <2>1, <2>2, <2>3 DEF OthersStay, Goto, Inv, TypeOK, FrameTypes, Reactivating
    <2> QED  BY <2>1, <2>4, MoveOff
  <1>11. CASE AutoOwn(p)
    <2>1. UNCHANGED <<target, actor, status, automation>> /\ pc[p] \notin Silencing
      BY <1>11 DEF AutoOwn, SetOwner, At, Silencing, Transferring
    <2>2. \E l \in {"auto_reread", "auto_row"} : Goto(p, l)
      BY <1>11, Zenon DEF AutoOwn
    <2> QED  BY <2>1, <2>2, StillOff DEF Reactivating
  <1>12. CASE AutoReread(p)
    BY <1>12, ReadOff DEF AutoReread, At, Silencing, Transferring, Reactivating
  <1>13. CASE AutoShift(p)
    BY <1>13, ShiftOff DEF AutoShift, At, Holding, Silencing, Transferring, Reactivating
  <1>14. CASE AutoRow(p)
    BY <1>14, NearerOff DEF AutoRow, UpdateRow, Silencing, Transferring
  <1>15. CASE AutoSilence(p)
    BY <1>15, SilenceOff DEF AutoSilence, Reactivating
  <1> QED  BY <1>1, <1>2, <1>3, <1>4, <1>5, <1>6, <1>7, <1>8, <1>9, <1>10, <1>11, <1>12, <1>13,
              <1>14, <1>15 DEF Escalation

LEMMA DrainOff ==
    ASSUME Inv, OffInv, NEW p \in Calls, Drain(p)
    PROVE  OffInv'
  <1>1. CASE DrainRoster(p)
    <2>1. UNCHANGED <<target, actor, status, automation>> /\ pc[p] \notin Silencing
      BY <1>1 DEF DrainRoster, tables, At, Silencing, Transferring
    <2>2. \E l \in {"done", "drain_load"} : Goto(p, l)
      BY <1>1, Zenon DEF DrainRoster
    <2> QED  BY <2>1, <2>2, StillOff DEF Reactivating
  <1>2. CASE DrainLoad(p)
    <2>1. UNCHANGED <<target, actor, status, automation>> /\ pc[p] \notin Silencing
      BY <1>2 DEF DrainLoad, tables, At, Silencing, Transferring
    <2>2. \E l \in {"done", "drain_fetch"} : Goto(p, l)
      BY <1>2, Zenon DEF DrainLoad
    <2> QED  BY <2>1, <2>2, StillOff DEF Reactivating
  <1>3. CASE DrainFetch(p)
    <2>1. UNCHANGED <<target, actor, status, automation>> /\ pc[p] \notin Silencing
      BY <1>3 DEF DrainFetch, tables, At, Silencing, Transferring
    <2>2. \E l \in {"done", "drain_own"} : Goto(p, l)
      BY <1>3, Zenon DEF DrainFetch
    <2> QED  BY <2>1, <2>2, StillOff DEF Reactivating
  <1>4. CASE DrainOwn(p)
    <2>1. UNCHANGED <<status, automation>> /\ pc[p] \notin Silencing
      BY <1>4 DEF DrainOwn, At, Silencing, Transferring
    <2>2. \E l \in {"done", "drain_reread"} : Goto(p, l)
      BY <1>4, Zenon DEF DrainOwn
    <2>3. UNCHANGED target \/ \E c : target' = [target EXCEPT ![p] = c]
      BY <1>4, Zenon DEF DrainOwn
    <2>4. UNCHANGED actor \/ \E a : actor' = [actor EXCEPT ![p] = a]
      BY <1>4, Zenon DEF DrainOwn
    <2>5. OthersStay(p) /\ pc'[p] \notin Reactivating
      BY <2>2, <2>3, <2>4 DEF OthersStay, Goto, Inv, TypeOK, FrameTypes, Reactivating
    <2> QED  BY <2>1, <2>5, MoveOff
  <1>5. CASE DrainReread(p)
    <2>1. Read(p) /\ pc[p] \notin Silencing /\ \E l \in {"drain_shift", "drain_row"} : Goto(p, l)
      BY <1>5 DEF DrainReread, At, Silencing, Transferring
    <2> QED  BY <2>1, ReadOff DEF Reactivating
  <1>6. CASE DrainShift(p)
    BY <1>6, ShiftOff DEF DrainShift, At, Holding, Silencing, Transferring, Reactivating
  <1>7. CASE DrainRow(p)
    BY <1>7, NearerOff DEF DrainRow, UpdateRow, Silencing, Transferring
  <1>8. CASE DrainSilence(p)
    <2>1. SetAutomation(p, FALSE) /\ UNCHANGED actor /\ \E l \in {"done", "drain_own"} : Goto(p, l)
      BY <1>8, Zenon DEF DrainSilence
    <2> QED  BY <2>1, SilenceOff DEF Reactivating
  <1> QED  BY <1>1, <1>2, <1>3, <1>4, <1>5, <1>6, <1>7, <1>8 DEF Drain

LEMMA ClaimOff ==
    ASSUME Inv, OffInv, NEW p \in Calls,
           ClaimRead(p) \/ ClaimOwn(p) \/ ClaimShift(p) \/ ClaimSilence(p) \/ ClaimRow(p)
    PROVE  OffInv'
  <1>1. CASE ClaimRead(p)
    <2>1. Read(p) /\ pc[p] \notin Silencing /\ \E l \in {"claim_own", "failed"} : Goto(p, l)
      BY <1>1 DEF ClaimRead, At, Silencing, Transferring
    <2> QED  BY <2>1, ReadOff DEF Reactivating
  <1>2. CASE ClaimOwn(p)
    <2>1. UNCHANGED <<target, actor, status, automation>> /\ pc[p] \notin Silencing
      BY <1>2 DEF ClaimOwn, SetOwner, At, Silencing, Transferring
    <2>2. \E l \in {"claim_silence", "claim_shift"} : Goto(p, l)
      BY <1>2, Zenon DEF ClaimOwn
    <2> QED  BY <2>1, <2>2, StillOff DEF Reactivating
  <1>3. CASE ClaimShift(p)
    BY <1>3, ShiftOff DEF ClaimShift, At, Holding, Silencing, Transferring, Reactivating
  <1>4. CASE ClaimSilence(p)
    BY <1>4, SilenceOff DEF ClaimSilence, Reactivating
  <1>5. CASE ClaimRow(p)
    <2>1. UNCHANGED <<target, actor, status, automation>> /\ pc[p] \notin Silencing
      BY <1>5 DEF ClaimRow, UpdateRow, At, Silencing, Transferring
    <2>2. \E l \in {"take_reread", "done"} : Goto(p, l)
      BY <1>5, Zenon DEF ClaimRow
    <2> QED  BY <2>1, <2>2, StillOff DEF Reactivating
  <1> QED  BY <1>1, <1>2, <1>3, <1>4, <1>5

LEMMA TakeOff ==
    ASSUME Inv, OffInv, NEW p \in Calls, TakeRead(p) \/ TakeReread(p) \/ TakeShift(p) \/ TakeSilence(p)
    PROVE  OffInv'
  <1>1. CASE TakeRead(p)
    <2>1. Read(p) /\ pc[p] \notin Silencing /\ \E l \in {"claim_read", "take_reread", "failed"} : Goto(p, l)
      BY <1>1 DEF TakeRead, At, Silencing, Transferring
    <2> QED  BY <2>1, ReadOff DEF Reactivating
  <1>2. CASE TakeReread(p)
    <2>1. Read(p) /\ pc[p] \notin Silencing /\ \E l \in {"take_silence", "take_shift"} : Goto(p, l)
      BY <1>2 DEF TakeReread, At, Silencing, Transferring
    <2> QED  BY <2>1, ReadOff DEF Reactivating
  <1>3. CASE TakeShift(p)
    BY <1>3, ShiftOff DEF TakeShift, At, Holding, Silencing, Transferring, Reactivating
  <1>4. CASE TakeSilence(p)
    BY <1>4, SilenceOff DEF TakeSilence, Reactivating
  <1> QED  BY <1>1, <1>2, <1>3, <1>4

LEMMA AssignOff ==
    ASSUME Inv, OffInv, NEW p \in Calls,
           AssignRead(p) \/ AssignShift(p) \/ AssignOwn(p) \/ AssignSilence(p) \/ AssignRow(p)
    PROVE  OffInv'
  <1>1. CASE AssignRead(p)
    <2>1. Read(p) /\ pc[p] \notin Silencing /\ \E l \in {"assign_own", "assign_shift"} : Goto(p, l)
      BY <1>1 DEF AssignRead, At, Silencing, Transferring
    <2> QED  BY <2>1, ReadOff DEF Reactivating
  <1>2. CASE AssignShift(p)
    BY <1>2, ShiftOff DEF AssignShift, At, Holding, Silencing, Transferring, Reactivating
  <1>3. CASE AssignOwn(p)
    BY <1>3, NearerOff DEF AssignOwn, SetOwner, Silencing, Transferring
  <1>4. CASE AssignSilence(p)
    BY <1>4, SilenceOff DEF AssignSilence, Reactivating
  <1>5. CASE AssignRow(p)
    BY <1>5, StillOff DEF AssignRow, UpdateRow, At, Silencing, Transferring, Reactivating
  <1> QED  BY <1>1, <1>2, <1>3, <1>4, <1>5

LEMMA TransferOff ==
    ASSUME Inv, OffInv, NEW p \in Calls,
           TransferRead(p) \/ TransferPick(p) \/ TransferShift(p) \/ TransferOwn(p)
           \/ TransferRow(p) \/ TransferSilence(p)
    PROVE  OffInv'
  <1>1. CASE TransferRead(p)
    BY <1>1, ReadOff DEF TransferRead, At, Silencing, Transferring, Reactivating
  <1>2. CASE TransferPick(p)
    <2>1. UNCHANGED <<target, status, automation>> /\ pc[p] \notin Silencing /\ Goto(p, "transfer_shift")
      BY <1>2 DEF TransferPick, tables, At, Silencing, Transferring
    <2>2. \E a : actor' = [actor EXCEPT ![p] = a]
      BY <1>2, Zenon DEF TransferPick
    <2>3. OthersStay(p) /\ pc'[p] \notin Reactivating
      BY <2>1, <2>2 DEF OthersStay, Goto, Inv, TypeOK, FrameTypes, Reactivating
    <2> QED  BY <2>1, <2>3, MoveOff
  <1>3. CASE TransferShift(p)
    <2> DEFINE st == IF actor[p] = Nobody \/ snap[p].status \in Closed
                     THEN snap[p].status ELSE "HUMAN_ACTIVE"
    <2>1. Transition(p, st, "transfer_own") /\ pc[p] \in Holding
      BY <1>3 DEF TransferShift, At, Holding
    <2>2. st = snap[p].status \/ actor[p] # Nobody
      OBVIOUS
    <2> HIDE DEF st
    <2> QED  BY <2>1, <2>2, ShiftOff DEF Silencing, Transferring, Reactivating
  <1>4. CASE TransferOwn(p)
    <2>1. /\ UNCHANGED <<target, actor, status, automation>> /\ Goto(p, "transfer_row")
          /\ pc[p] = "transfer_own"
      BY <1>4 DEF TransferOwn, SetOwner, At
    <2>2. CASE actor[p] # Nobody
      BY <2>1, <2>2, NearerOff DEF Silencing, Transferring
    <2>3. CASE actor[p] = Nobody
      BY <2>1, <2>3, NobodyOff DEF Transferring, Reactivating
    <2> QED  BY <2>2, <2>3
  <1>5. CASE TransferRow(p)
    <2>1. UNCHANGED <<target, actor, status, automation>> /\ pc[p] = "transfer_row"
      BY <1>5 DEF TransferRow, UpdateRow, At
    <2>2. CASE actor[p] # Nobody
      <3>1. Goto(p, "transfer_silence")
        BY <1>5, <2>2 DEF TransferRow
      <3> QED  BY <2>1, <2>2, <3>1, NearerOff DEF Silencing, Transferring
    <2>3. CASE actor[p] = Nobody
      <3>1. Goto(p, "done")
        BY <1>5, <2>3 DEF TransferRow
      <3> QED  BY <2>1, <2>3, <3>1, NobodyOff DEF Transferring, Reactivating
    <2> QED  BY <2>2, <2>3
  <1>6. CASE TransferSilence(p)
    BY <1>6, SilenceOff DEF TransferSilence, Reactivating
  <1> QED  BY <1>1, <1>2, <1>3, <1>4, <1>5, <1>6

LEMMA ClosingOff ==
    ASSUME Inv, OffInv, NEW p \in Calls, Closing(p)
    PROVE  OffInv'
  <1>1. CASE CompleteRead(p)
    <2>1. Read(p) /\ pc[p] \notin Silencing /\ \E l \in {"failed", "complete_shift"} : Goto(p, l)
      BY <1>1 DEF CompleteRead, At, Silencing, Transferring
    <2> QED  BY <2>1, ReadOff DEF Reactivating
  <1>2. CASE CompleteShift(p)
    BY <1>2, ShiftOff DEF CompleteShift, At, Holding, WithPeople, Reactivating
  <1>3. CASE CancelRead(p)
    <2>1. Read(p) /\ pc[p] \notin Silencing /\ \E l \in {"failed", "cancel_shift"} : Goto(p, l)
      BY <1>3 DEF CancelRead, At, Silencing, Transferring
    <2> QED  BY <2>1, ReadOff DEF Reactivating
  <1>4. CASE CancelShift(p)
    BY <1>4, ShiftOff DEF CancelShift, At, Holding, WithPeople, Reactivating
  <1>5. CASE DisableRead(p)
    BY <1>5, ReadOff DEF DisableRead, At, Silencing, Transferring, Reactivating
  <1>6. ~(ReactRead(p) \/ ReactEnable(p) \/ ReactReread(p) \/ ReactShift(p) \/ ReactRelease(p))
    BY DEF OffInv, ReactRead, ReactEnable, ReactReread, ReactShift, ReactRelease, At, Reactivating
  <1> QED  BY <1>1, <1>2, <1>3, <1>4, <1>5, <1>6 DEF Closing

LEMMA NextOff ==
    ASSUME ~CanFail, "reactivate" \notin Ops, Inv, OffInv, [Next]_vars
    PROVE  OffInv'
  <1>1. CASE UNCHANGED vars
    BY <1>1, Zenon DEF vars, tables, frame, OffInv, SilenceComes, WillSilence
  <1>2. ASSUME NEW p \in Calls, Step(p) PROVE OffInv'
    BY <1>2, EscalationOff, DrainOff, ClaimOff, TakeOff, AssignOff, TransferOff, ClosingOff,
       Zenon DEF Step, ByAgent
  <1>3. ASSUME NEW p \in Calls, NEW o \in Ops, NEW c \in Cases, NEW a \in Agents, Start(p, o, c, a)
        PROVE  OffInv'
    <2>1. FirstLabel(o) \notin Reactivating
      BY OpsAssumption DEF Handlers, FirstLabel, Reactivating
    <2>2. pc[p] \notin Silencing /\ UNCHANGED <<status, automation>>
      BY <1>3 DEF Start, tables, At, Silencing, Transferring
    <2>3. OthersStay(p) /\ pc'[p] \notin Reactivating
      BY <1>3, <2>1 DEF Start, OthersStay, Goto, Inv, TypeOK, FrameTypes
    <2> QED  BY <2>2, <2>3, MoveOff
  <1>4. ASSUME NEW p \in Calls, NEW a \in Agents, Connect(p, a) PROVE OffInv'
    BY <1>4, StillOff DEF Connect, tables, At, Silencing, Transferring, Reactivating
  <1>5. ASSUME NEW a \in Agents, Disconnect(a) PROVE OffInv'
    BY <1>5, Zenon DEF Disconnect, tables, frame, OffInv, SilenceComes, WillSilence
  <1>6. CASE Next
    BY <1>2, <1>3, <1>4, <1>5, <1>6, Zenon DEF Next, Fail
  <1> QED  BY <1>1, <1>6

LEMMA InitOff == Init => OffInv
  <1> SUFFICES ASSUME Init PROVE OffInv
    OBVIOUS
  <1> PICK Q \in Queued : InitWith(Q)
    BY DEF Init
  <1>1. SilenceComes
    BY Zenon DEF InitWith, SilenceComes, WithPeople, Automatable
  <1>2. \A p \in Calls : pc[p] \notin Reactivating
    BY DEF Init, Reactivating
  <1> QED  BY <1>1, <1>2 DEF OffInv

\* 02_STATE_MACHINE.md:17: unless a call dies on the way or somebody gives the
\* case back to the automation, the automation of a case that is ESCALATED or
\* HUMAN_ACTIVE is off whenever no call is at work on the case, however the
\* calls of the automation, of people and of the queue interleave.
THEOREM AutomationOff ==
    ASSUME ~CanFail, "reactivate" \notin Ops
    PROVE  Spec => []HumansWithoutAutomation
  <1>1. Inv /\ OffInv /\ [Next]_vars => Inv' /\ OffInv'
    BY NextGood, NextOff
  <1>2. OffInv => HumansWithoutAutomation
    BY DEF OffInv, SilenceComes, HumansWithoutAutomation, WillSilence, Silencing, Transferring, Quiet,
           WithPeople
  <1> QED  BY <1>1, <1>2, InitInv, InitOff, PTL DEF Spec
==============================================================================
