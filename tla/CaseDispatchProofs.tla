-------------------------- MODULE CaseDispatchProofs --------------------------
(***************************************************************************)
(* What holds of the hand-over for every number of cases, agents and       *)
(* concurrent calls, with and without failures: the types, and the         *)
(* optimistic concurrency of applyTransition.                              *)
(***************************************************************************)
EXTENDS CaseDispatch, FiniteSetTheorems, SequenceTheorems, TLAPS

Owners == Agents \cup {Nobody}

\* Labels at which a call holds a snapshot of its target that a transition
\* will, or may, be checked against.
Holding == {"esc_find", "esc_shift", "adv_shift", "auto_shift", "drain_shift",
            "claim_own", "claim_shift", "take_shift", "assign_shift",
            "transfer_pick", "transfer_shift", "complete_shift", "cancel_shift",
            "react_shift"}

\* A snapshot is never ahead of its row, and one of the row's version shows the
\* row's status: the status cannot change and the version come back.
Sound(p) == /\ snap[p].version <= version[target[p]]
            /\ snap[p].version = version[target[p]] => snap[p].status = status[target[p]]
SnapSound == \A p \in Calls : pc[p] \in Holding => Sound(p)

Inv == TypeOK /\ SnapSound

-----------------------------------------------------------------------------
(* The statements *)

LEMMA GotoTypes ==
    ASSUME FrameTypes, NEW p \in Calls, NEW l \in Labels, Goto(p, l)
    PROVE  /\ pc' \in [Calls -> Labels] /\ pc'[p] = l
           /\ \A q \in Calls : q # p => pc'[q] = pc[q]
  BY DEF FrameTypes, Goto

\* A call that keeps its snapshot leaves every snapshot sound, unless it goes
\* on to rely on a snapshot it did not rely on before.
LEMMA KeepSound ==
    ASSUME Inv, NEW p \in Calls, NEW l \in Labels, Goto(p, l),
           UNCHANGED <<status, version, snap>>,
           l \in Holding => pc[p] \in Holding /\ target'[p] = target[p],
           \A q \in Calls : q # p => target'[q] = target[q]
    PROVE  SnapSound'
  <1> SUFFICES ASSUME NEW q \in Calls, pc'[q] \in Holding
               PROVE  Sound(q)'
    BY DEF SnapSound
  <1>1. pc'[p] = l /\ (q # p => pc'[q] = pc[q])
    BY GotoTypes DEF Inv, TypeOK
  <1>2. pc[q] \in Holding /\ target'[q] = target[q]
    BY <1>1
  <1> QED  BY <1>2 DEF Inv, SnapSound, Sound

LEMMA ReadInv ==
    ASSUME Inv, NEW p \in Calls, NEW l \in Labels, Read(p), Goto(p, l)
    PROVE  Inv' /\ CheckedUpdate
  <1>1. /\ UNCHANGED <<status, version, owner, automation, rows, connected, op, target, actor, local>>
        /\ snap' = [snap EXCEPT ![p] = Snapshot(target[p])]
    BY DEF Read, tables
  <1>2. target[p] \in Cases
    BY DEF Inv, TypeOK, FrameTypes
  <1>3. Snapshot(target[p]) \in [status : Statuses, version : Nat, owner : Owners]
    BY <1>2 DEF Inv, TypeOK, TableTypes, Snapshot, Owners
  <1>4. snap' \in [Calls -> [status : Statuses, version : Nat, owner : Owners]]
    BY <1>1, <1>3 DEF Inv, TypeOK, FrameTypes, Owners
  <1>5. FrameTypes'
    BY <1>1, <1>4, GotoTypes, Zenon DEF Inv, TypeOK, FrameTypes, Owners
  <1>6. TableTypes' /\ LocalTypes'
    BY <1>1, Zenon DEF Inv, TypeOK, TableTypes, LocalTypes
  <1>7. SnapSound'
    <2> SUFFICES ASSUME NEW q \in Calls, pc'[q] \in Holding
                 PROVE  Sound(q)'
      BY DEF SnapSound
    <2>1. CASE q = p
      <3>1. snap'[p].version = version[target[p]] /\ snap'[p].status = status[target[p]]
        BY <1>1 DEF Snapshot, Inv, TypeOK, FrameTypes
      <3>2. version[target[p]] \in Nat
        BY <1>2 DEF Inv, TypeOK, TableTypes
      <3> QED  BY <1>1, <2>1, <3>1, <3>2 DEF Sound
    <2>2. CASE q # p
      <3>1. pc[q] \in Holding /\ snap'[q] = snap[q]
        BY <1>1, <2>2, GotoTypes DEF Inv, TypeOK, FrameTypes
      <3> QED  BY <1>1, <3>1 DEF Inv, SnapSound, Sound
    <2> QED  BY <2>1, <2>2
  <1>8. CheckedUpdate
    BY <1>1, Zenon DEF CheckedUpdate
  <1> QED  BY <1>5, <1>6, <1>7, <1>8 DEF Inv, TypeOK

LEMMA TransitionInv ==
    ASSUME Inv, NEW p \in Calls, NEW st \in Statuses, NEW l \in Labels,
           Transition(p, st, l), pc[p] \in Holding, l \notin Holding
    PROVE  Inv' /\ CheckedUpdate
  <1> DEFINE c == target[p]
  <1>1. c \in Cases /\ version[c] \in Nat
    BY DEF Inv, TypeOK, FrameTypes, TableTypes
  <1>2. UNCHANGED <<owner, automation, rows, connected, op, target, actor, local>>
    BY DEF Transition
  <1>3. CASE snap[p].version = version[c]
    <2>1. /\ status' = [status EXCEPT ![c] = st] /\ version' = [version EXCEPT ![c] = @ + 1]
          /\ snap' = [snap EXCEPT ![p] =
                        [status |-> st, version |-> version[c] + 1, owner |-> owner[c]]]
          /\ Goto(p, l)
      BY <1>3 DEF Transition
    <2>2. TableTypes'
      <3>1. status' \in [Cases -> Statuses] /\ version' \in [Cases -> Nat]
        BY <1>1, <2>1 DEF Inv, TypeOK, TableTypes
      <3> QED  BY <1>2, <3>1, Zenon DEF Inv, TypeOK, TableTypes
    <2>3. FrameTypes'
      <3>1. owner[c] \in Owners
        BY <1>1 DEF Inv, TypeOK, TableTypes, Owners
      <3>2. snap' \in [Calls -> [status : Statuses, version : Nat, owner : Owners]]
        BY <1>1, <2>1, <3>1 DEF Inv, TypeOK, FrameTypes, Owners
      <3> QED  BY <1>2, <2>1, <3>2, GotoTypes, Zenon DEF Inv, TypeOK, FrameTypes, Owners
    <2>4. LocalTypes'
      BY <1>2, Zenon DEF Inv, TypeOK, LocalTypes
    <2>5. SnapSound'
      <3> SUFFICES ASSUME NEW q \in Calls, pc'[q] \in Holding
                   PROVE  Sound(q)'
        BY DEF SnapSound
      <3>1. q # p /\ pc[q] \in Holding
        BY <2>1, GotoTypes DEF Inv, TypeOK
      <3>2. Sound(q) /\ snap'[q] = snap[q] /\ target'[q] = target[q] /\ target[q] \in Cases
        BY <1>2, <2>1, <3>1 DEF Inv, SnapSound, TypeOK, FrameTypes
      <3>3. snap[q].version \in Nat
        BY DEF Inv, TypeOK, FrameTypes
      <3> QED  BY <1>1, <2>1, <3>2, <3>3 DEF Sound, Inv, TypeOK, TableTypes
    <2>6. CheckedUpdate
      <3> SUFFICES ASSUME NEW d \in Cases, version'[d] # version[d] \/ status'[d] # status[d]
                   PROVE  /\ version'[d] = version[d] + 1
                          /\ pc'[p] # pc[p] /\ target[p] = d
                          /\ snap[p].status = status[d] /\ snap[p].version = version[d]
        BY DEF CheckedUpdate
      <3>1. d = c
        BY <2>1 DEF Inv, TypeOK, TableTypes
      <3>2. version'[c] = version[c] + 1
        BY <1>1, <2>1 DEF Inv, TypeOK, TableTypes
      <3>3. pc'[p] # pc[p]
        BY <2>1, GotoTypes DEF Inv, TypeOK
      <3>4. snap[p].status = status[c]
        BY <1>3 DEF Inv, SnapSound, Sound
      <3> QED  BY <1>3, <3>1, <3>2, <3>3, <3>4
    <2> QED  BY <2>2, <2>3, <2>4, <2>5, <2>6 DEF Inv, TypeOK
  <1>4. CASE snap[p].version # version[c]
    <2>1. Goto(p, "failed") /\ UNCHANGED <<status, version, snap>>
      BY <1>4 DEF Transition
    <2>2. SnapSound'
      <3>1. "failed" \in Labels /\ "failed" \notin Holding
        BY DEF Holding, Labels
      <3> QED  BY <1>2, <2>1, <3>1, KeepSound
    <2>3. FrameTypes'
      <3>1. "failed" \in Labels
        BY DEF Labels
      <3>2. pc' \in [Calls -> Labels]
        BY <2>1, <3>1, GotoTypes DEF Inv, TypeOK
      <3> QED  BY <1>2, <2>1, <3>2, Zenon DEF Inv, TypeOK, FrameTypes
    <2>4. TableTypes' /\ LocalTypes'
      BY <1>2, <2>1, Zenon DEF Inv, TypeOK, TableTypes, LocalTypes
    <2>5. CheckedUpdate
      BY <2>1, Zenon DEF CheckedUpdate
    <2> QED  BY <2>2, <2>3, <2>4, <2>5 DEF Inv, TypeOK
  <1> QED  BY <1>3, <1>4

\* Every other statement leaves the status and the version alone.
LEMMA StayInv ==
    ASSUME Inv, NEW p \in Calls, NEW l \in Labels, Goto(p, l),
           UNCHANGED <<status, version, snap>>, TableTypes', LocalTypes',
           op' \in [Calls -> Handlers \cup {"none"}],
           target' \in [Calls -> Cases], actor' \in [Calls -> Owners],
           l \in Holding => pc[p] \in Holding /\ target'[p] = target[p],
           \A q \in Calls : q # p => target'[q] = target[q]
    PROVE  Inv' /\ CheckedUpdate
  <1>1. SnapSound'
    BY KeepSound
  <1>2. pc' \in [Calls -> Labels]
    BY GotoTypes DEF Inv, TypeOK
  <1>3. FrameTypes'
    BY <1>2, Zenon DEF Inv, TypeOK, FrameTypes, Owners
  <1>4. CheckedUpdate
    BY Zenon DEF CheckedUpdate
  <1> QED  BY <1>1, <1>3, <1>4 DEF Inv, TypeOK

LEMMA SetOwnerInv ==
    ASSUME Inv, NEW p \in Calls, NEW a \in Owners, NEW l \in Labels,
           SetOwner(p, a), Goto(p, l), UNCHANGED <<actor, local>>,
           l \in Holding => pc[p] \in Holding
    PROVE  Inv' /\ CheckedUpdate
  <1>1. UNCHANGED <<status, version, automation, rows, connected, op, target, snap>>
    BY DEF SetOwner
  <1>2. owner' \in [Cases -> Owners]
    BY DEF SetOwner, Inv, TypeOK, TableTypes, FrameTypes, Owners
  <1>3. TableTypes' /\ LocalTypes'
    BY <1>1, <1>2, Zenon DEF Inv, TypeOK, TableTypes, LocalTypes, Owners
  <1>4. /\ op' \in [Calls -> Handlers \cup {"none"}] /\ target' \in [Calls -> Cases]
        /\ actor' \in [Calls -> Owners]
    BY <1>1, Zenon DEF Inv, TypeOK, FrameTypes, Owners
  <1> QED  BY <1>1, <1>3, <1>4, StayInv

LEMMA SetAutomationInv ==
    ASSUME Inv, NEW p \in Calls, NEW e \in BOOLEAN, NEW l \in Labels \ Holding,
           SetAutomation(p, e), Goto(p, l), actor' \in [Calls -> Owners], LocalTypes'
    PROVE  Inv' /\ CheckedUpdate
  <1>1. /\ UNCHANGED <<status, version, owner, rows, connected, op, target, snap>>
        /\ automation' = [automation EXCEPT ![target[p]] = e]
    BY DEF SetAutomation
  <1>2. automation' \in [Cases -> BOOLEAN]
    BY <1>1, Zenon DEF Inv, TypeOK, TableTypes
  <1>3. TableTypes'
    BY <1>1, <1>2, Zenon DEF Inv, TypeOK, TableTypes
  <1>4. op' \in [Calls -> Handlers \cup {"none"}] /\ target' \in [Calls -> Cases]
    BY <1>1, Zenon DEF Inv, TypeOK, FrameTypes
  <1> QED  BY <1>1, <1>3, <1>4, StayInv

LEMMA UpdateRowInv ==
    ASSUME Inv, NEW p \in Calls, NEW I, NEW st \in {"PENDING", "ASSIGNED"}, NEW a \in Owners,
           NEW l \in Labels \ Holding, UpdateRow(I, st, a), Goto(p, l)
    PROVE  Inv' /\ CheckedUpdate
  <1>1. UNCHANGED <<status, version, owner, automation, connected, op, target, actor, snap, local>>
    BY DEF UpdateRow
  <1>2. DOMAIN rows = 1..Len(rows) /\ Len(rows) \in Nat /\ \A i \in DOMAIN rows : rows[i] \in Row
    <2>1. rows \in Seq(Row)
      BY DEF Inv, TypeOK, TableTypes
    <2> QED  BY <2>1
  <1>3. \A r \in Row : [r EXCEPT !.status = st, !.agent = a] \in Row
    BY DEF Row, Owners
  <1>4. rows' \in [1..Len(rows) -> Row] /\ DOMAIN rows' = DOMAIN rows
    BY <1>2, <1>3 DEF UpdateRow
  <1>5. rows' \in Seq(Row)
    BY <1>2, <1>4, SeqDef
  <1>6. TableTypes'
    BY <1>1, <1>5, Zenon DEF Inv, TypeOK, TableTypes
  <1>7. LocalTypes'
    BY <1>1, <1>4, Zenon DEF Inv, TypeOK, LocalTypes
  <1>8. /\ op' \in [Calls -> Handlers \cup {"none"}] /\ target' \in [Calls -> Cases]
        /\ actor' \in [Calls -> Owners]
    BY <1>1, Zenon DEF Inv, TypeOK, FrameTypes, Owners
  <1> QED  BY <1>1, <1>6, <1>7, <1>8, StayInv

\* A step that only moves the call and its locals.
LEMMA MoveInv ==
    ASSUME Inv, NEW p \in Calls, NEW l \in Labels, Goto(p, l),
           UNCHANGED <<tables, op, target, snap>>, connected' \subseteq Agents,
           actor' \in [Calls -> Owners], LocalTypes',
           l \in Holding => pc[p] \in Holding
    PROVE  Inv' /\ CheckedUpdate
  <1>1. TableTypes' /\ UNCHANGED <<status, version>>
    BY Zenon DEF Inv, TypeOK, TableTypes, tables
  <1>2. op' \in [Calls -> Handlers \cup {"none"}] /\ target' \in [Calls -> Cases]
    BY Zenon DEF Inv, TypeOK, FrameTypes
  <1> QED  BY <1>1, <1>2, StayInv

\* Locals that only change in the row, the batch, the roster or the loads.
LEMMA LocalSame ==
    ASSUME LocalTypes, UNCHANGED <<rows, local>>
    PROVE  LocalTypes'
  BY Zenon DEF LocalTypes

LEMMA LocalChange ==
    ASSUME LocalTypes, NEW p \in Calls, UNCHANGED rows,
           NEW r \in [row : Nat, todo : SUBSET Nat, roster : SUBSET Agents, loads : [Agents -> Nat]],
           r.todo \subseteq DOMAIN rows, r.row \in {0} \cup DOMAIN rows,
           local' = [local EXCEPT ![p] = r]
    PROVE  LocalTypes'
  BY DEF LocalTypes

LEMMA ActorSame ==
    ASSUME FrameTypes, UNCHANGED actor
    PROVE  actor' \in [Calls -> Owners]
  BY Zenon DEF FrameTypes, Owners

LEMMA SilenceInv ==
    ASSUME Inv, NEW p \in Calls, NEW e \in BOOLEAN, NEW l \in Labels \ Holding,
           SetAutomation(p, e), Goto(p, l), UNCHANGED <<actor, local>>
    PROVE  Inv' /\ CheckedUpdate
  <1>1. LocalTypes' /\ actor' \in [Calls -> Owners]
    BY LocalSame, ActorSame DEF SetAutomation, Inv, TypeOK
  <1> QED  BY <1>1, SetAutomationInv

-----------------------------------------------------------------------------
(* The handlers *)

Good == Inv' /\ CheckedUpdate

LEMMA EscalateGood ==
    ASSUME Inv, NEW p \in Calls,
           EscRead(p) \/ EscFind(p) \/ EscShift(p) \/ EscSilence(p) \/ AdvRead(p)
           \/ AdvShift(p) \/ AdvSilence(p) \/ EnsureFind(p)
    PROVE  Good
  <1>1. CASE EscRead(p)
    BY <1>1, ReadInv DEF EscRead, Labels, Good
  <1>2. CASE EscFind(p)
    <2> DEFINE l == IF RowsOf(target[p]) # {} THEN "done"
                    ELSE IF snap[p].status \in {"ESCALATED", "HUMAN_ACTIVE"} THEN "esc_silence"
                    ELSE "esc_shift"
    <2>1. l \in Labels /\ pc[p] \in Holding
      BY <1>2 DEF EscFind, At, Labels, Holding
    <2>2. Goto(p, l) /\ UNCHANGED <<tables, connected, op, target, actor, snap, local>>
      BY <1>2, Zenon DEF EscFind
    <2> HIDE DEF l
    <2>3. LocalTypes' /\ actor' \in [Calls -> Owners] /\ connected' \subseteq Agents
      BY <2>2, LocalSame, ActorSame DEF Inv, TypeOK, TableTypes, tables
    <2> QED  BY <2>1, <2>2, <2>3, MoveInv DEF Good
  <1>3. CASE EscShift(p)
    BY <1>3, TransitionInv DEF EscShift, At, Labels, Holding, Statuses, Good
  <1>4. CASE EscSilence(p)
    BY <1>4, SilenceInv DEF EscSilence, Labels, Holding, Good
  <1>5. CASE AdvRead(p)
    BY <1>5, ReadInv DEF AdvRead, Labels, Good
  <1>6. CASE AdvShift(p)
    <2> PICK st \in Automatable \cup {"COMPLETED", "ESCALATED"} :
          Transition(p, st, IF st = "ESCALATED" THEN "adv_silence" ELSE "done")
      BY <1>6 DEF AdvShift
    <2> DEFINE l == IF st = "ESCALATED" THEN "adv_silence" ELSE "done"
    <2>1. l \in Labels /\ l \notin Holding /\ pc[p] \in Holding
      BY <1>6 DEF AdvShift, At, Labels, Holding
    <2>2. st \in Statuses
      BY DEF Statuses, Automatable, Closed
    <2>3. Transition(p, st, l)
      OBVIOUS
    <2> HIDE DEF l
    <2> QED  BY <2>1, <2>2, <2>3, TransitionInv DEF Good
  <1>7. CASE AdvSilence(p)
    BY <1>7, SilenceInv DEF AdvSilence, Labels, Holding, Good
  <1>8. CASE EnsureFind(p)
    <2> DEFINE l == IF RowsOf(target[p]) # {} THEN "done" ELSE "esc_silence"
    <2>1. l \in Labels
      BY DEF Labels
    <2>2. Read(p) /\ Goto(p, l)
      BY <1>8, Zenon DEF EnsureFind
    <2> HIDE DEF l
    <2> QED  BY <2>1, <2>2, ReadInv DEF Good
  <1> QED  BY <1>1, <1>2, <1>3, <1>4, <1>5, <1>6, <1>7, <1>8

LEMMA CreateGood ==
    ASSUME Inv, NEW p \in Calls, EscCreate(p)
    PROVE  Good
  <1>1. /\ UNCHANGED <<status, version, owner, automation, connected, op, target, actor, snap>>
        /\ Goto(p, "auto_pick") /\ rows' = Append(rows, Pending(target[p]))
        /\ local' = [local EXCEPT ![p].row = Len(rows) + 1]
    BY DEF EscCreate
  <1>2. Pending(target[p]) \in Row
    BY DEF Pending, Row, Inv, TypeOK, FrameTypes
  <1>3. rows \in Seq(Row)
    BY DEF Inv, TypeOK, TableTypes
  <1>4. /\ rows' \in Seq(Row) /\ DOMAIN rows \subseteq DOMAIN rows'
        /\ Len(rows) + 1 \in DOMAIN rows' /\ Len(rows) + 1 \in Nat
    BY <1>1, <1>2, <1>3
  <1>5. TableTypes'
    BY <1>1, <1>4, Zenon DEF Inv, TypeOK, TableTypes
  <1>6. LocalTypes'
    <2>1. LocalTypes
      BY DEF Inv, TypeOK
    <2>2. \A q \in Calls : q # p => local'[q] = local[q]
      BY <1>1, <2>1 DEF LocalTypes
    <2>3. /\ local'[p] = [local[p] EXCEPT !.row = Len(rows) + 1]
          /\ DOMAIN local' = Calls
      BY <1>1, <2>1 DEF LocalTypes
    <2>4. local' \in [Calls -> [row : Nat, todo : SUBSET Nat,
                                roster : SUBSET Agents, loads : [Agents -> Nat]]]
      BY <1>1, <1>4, <2>1 DEF LocalTypes
    <2>5. local'[p].todo = local[p].todo /\ local'[p].row = Len(rows) + 1
      BY <2>1, <2>3 DEF LocalTypes
    <2> QED  BY <1>4, <2>1, <2>2, <2>4, <2>5 DEF LocalTypes
  <1>7. /\ op' \in [Calls -> Handlers \cup {"none"}] /\ target' \in [Calls -> Cases]
        /\ actor' \in [Calls -> Owners]
    BY <1>1, Zenon DEF Inv, TypeOK, FrameTypes, Owners
  <1> QED  BY <1>1, <1>5, <1>6, <1>7, StayInv DEF Labels, Holding, Good

LEMMA AutoGood ==
    ASSUME Inv, NEW p \in Calls,
           AutoPick(p) \/ AutoOwn(p) \/ AutoReread(p) \/ AutoShift(p) \/ AutoRow(p)
           \/ AutoSilence(p)
    PROVE  Good
  <1>1. CASE AutoPick(p)
    <2>1. UNCHANGED <<tables, connected, op, target, snap, local>>
      BY <1>1 DEF AutoPick
    <2>2. \E l \in {"done", "auto_own"} : Goto(p, l)
      BY <1>1, Zenon DEF AutoPick
    <2>3. actor' \in [Calls -> Owners]
      <3>1. LeastLoaded(connected, CurrentLoads) \subseteq Agents
        BY DEF LeastLoaded, Inv, TypeOK, TableTypes
      <3>2. actor \in [Calls -> Owners]
        BY DEF Inv, TypeOK, FrameTypes, Owners
      <3>3. actor' = actor \/ \E a \in Agents : actor' = [actor EXCEPT ![p] = a]
        BY <1>1, <3>1 DEF AutoPick
      <3> QED  BY <3>2, <3>3 DEF Owners
    <2>4. LocalTypes' /\ connected' \subseteq Agents
      BY <2>1, LocalSame DEF Inv, TypeOK, TableTypes, tables
    <2> QED  BY <2>1, <2>2, <2>3, <2>4, MoveInv DEF Labels, Holding, Good
  <1>2. CASE AutoOwn(p)
    <2> DEFINE l == IF snap[p].status = "ESCALATED" THEN "auto_reread" ELSE "auto_row"
    <2>1. l \in Labels /\ l \notin Holding /\ actor[p] \in Owners
      BY DEF Labels, Holding, Inv, TypeOK, FrameTypes, Owners
    <2>2. SetOwner(p, actor[p]) /\ Goto(p, l) /\ UNCHANGED <<actor, local>>
      BY <1>2, Zenon DEF AutoOwn
    <2> HIDE DEF l
    <2> QED  BY <2>1, <2>2, SetOwnerInv DEF Good
  <1>3. CASE AutoReread(p)
    BY <1>3, ReadInv DEF AutoReread, Labels, Good
  <1>4. CASE AutoShift(p)
    BY <1>4, TransitionInv DEF AutoShift, At, Labels, Holding, Statuses, Good
  <1>5. CASE AutoRow(p)
    <2>1. actor[p] \in Owners
      BY DEF Inv, TypeOK, FrameTypes, Owners
    <2> QED  BY <1>5, <2>1, UpdateRowInv DEF AutoRow, Labels, Holding, Good
  <1>6. CASE AutoSilence(p)
    BY <1>6, SilenceInv DEF AutoSilence, Labels, Holding, Good
  <1> QED  BY <1>1, <1>2, <1>3, <1>4, <1>5, <1>6

LocalRecord == [row : Nat, todo : SUBSET Nat, roster : SUBSET Agents, loads : [Agents -> Nat]]

LEMMA LoadType ==
    ASSUME NEW a
    PROVE  Load(a) \in Nat
  <1> DEFINE S == {c \in Cases : owner[c] = a /\ status[c] = "HUMAN_ACTIVE"}
  <1>1. IsFiniteSet(S)
    BY CasesAssumption, FS_Subset
  <1> QED  BY <1>1, FS_CardinalityType DEF Load

LEMMA LoadsIncremented ==
    ASSUME NEW f \in [Agents -> Nat], NEW x
    PROVE  [f EXCEPT ![x] = @ + 1] \in [Agents -> Nat]
  <1>1. CASE x \in Agents
    <2>1. f[x] + 1 \in Nat
      BY <1>1
    <2> QED  BY <2>1
  <1>2. CASE x \notin Agents
    <2>1. [f EXCEPT ![x] = @ + 1] = f
      BY <1>2
    <2> QED  BY <2>1
  <1> QED  BY <1>1, <1>2

LEMMA DrainGood ==
    ASSUME Inv, NEW p \in Calls, Drain(p)
    PROVE  Good
  <1>1. local \in [Calls -> LocalRecord] /\ actor \in [Calls -> Owners] /\ connected \subseteq Agents
    BY DEF Inv, TypeOK, LocalTypes, FrameTypes, TableTypes, LocalRecord, Owners
  <1>2. local[p].todo \subseteq DOMAIN rows /\ local[p].row \in {0} \cup DOMAIN rows /\ LocalTypes
    BY DEF Inv, TypeOK, LocalTypes
  <1>3. CASE DrainRoster(p)
    <2> DEFINE r == [local[p] EXCEPT !.roster = connected]
    <2>1. local' = [local EXCEPT ![p] = r] /\ r \in LocalRecord /\ r.todo = local[p].todo /\ r.row = local[p].row
      BY <1>1, <1>3 DEF DrainRoster, LocalRecord
    <2>2. UNCHANGED <<tables, connected, op, target, actor, snap>> /\ UNCHANGED rows
      BY <1>3 DEF DrainRoster, tables
    <2>3. \E l \in {"done", "drain_load"} : Goto(p, l)
      BY <1>3, Zenon DEF DrainRoster
    <2> HIDE DEF r
    <2>4. LocalTypes'
      BY <1>2, <2>1, <2>2, LocalChange DEF LocalRecord
    <2> QED  BY <1>1, <2>2, <2>3, <2>4, MoveInv DEF Labels, Holding, Good
  <1>4. CASE DrainLoad(p)
    <2> DEFINE r == [local[p] EXCEPT !.loads = CurrentLoads]
    <2>1. CurrentLoads \in [Agents -> Nat]
      BY LoadType DEF CurrentLoads
    <2>2. local' = [local EXCEPT ![p] = r] /\ r \in LocalRecord /\ r.todo = local[p].todo /\ r.row = local[p].row
      BY <1>1, <1>4, <2>1 DEF DrainLoad, LocalRecord
    <2>3. UNCHANGED <<tables, connected, op, target, actor, snap>> /\ UNCHANGED rows
      BY <1>4 DEF DrainLoad, tables
    <2>4. \E l \in {"done", "drain_fetch"} : Goto(p, l)
      BY <1>4, Zenon DEF DrainLoad
    <2> HIDE DEF r
    <2>5. LocalTypes'
      BY <1>2, <2>2, <2>3, LocalChange DEF LocalRecord
    <2> QED  BY <1>1, <2>3, <2>4, <2>5, MoveInv DEF Labels, Holding, Good
  <1>5. CASE DrainFetch(p)
    <2> DEFINE batch == {i \in PendingRows :
                          Cardinality({j \in PendingRows : j < i}) < Capacity(p)}
               r == [local[p] EXCEPT !.todo = batch]
    <2>1. batch \subseteq DOMAIN rows /\ DOMAIN rows \subseteq Nat
      BY DEF PendingRows, Inv, TypeOK, TableTypes
    <2>2. local' = [local EXCEPT ![p].todo = batch]
      BY <1>5, Zenon DEF DrainFetch
    <2>3. \E l \in {"done", "drain_own"} : Goto(p, l)
      BY <1>5, Zenon DEF DrainFetch
    <2> HIDE DEF batch
    <2>4. local' = [local EXCEPT ![p] = r] /\ r \in LocalRecord /\ r.todo = batch /\ r.row = local[p].row
      BY <1>1, <2>1, <2>2 DEF LocalRecord
    <2>5. UNCHANGED <<tables, connected, op, target, actor, snap>> /\ UNCHANGED rows
      BY <1>5 DEF DrainFetch, tables
    <2> HIDE DEF r
    <2>6. LocalTypes'
      BY <1>2, <2>1, <2>4, <2>5, LocalChange DEF LocalRecord
    <2> QED  BY <1>1, <2>3, <2>5, <2>6, MoveInv DEF Labels, Holding, Good
  <1>6. CASE DrainOwn(p)
    <2> DEFINE best == LeastLoaded(local[p].roster, local[p].loads)
    <2>1. best \subseteq Agents
      BY <1>1 DEF LeastLoaded, LocalRecord
    <2>2. UNCHANGED <<status, version, automation, rows, connected, op, snap>>
      BY <1>6 DEF DrainOwn
    <2>3. CASE best = {}
      <3>1. Goto(p, "done") /\ UNCHANGED <<owner, target, actor, local>>
        BY <1>6, <2>3, Zenon DEF DrainOwn
      <3> QED  BY <1>1, <1>2, <2>2, <3>1, LocalSame, MoveInv DEF Labels, Holding, Good, tables
    <2>4. CASE best # {}
      <3> PICK i \in local[p].todo, a \in best :
              /\ owner' = [owner EXCEPT ![rows[i].case] = a]
              /\ target' = [target EXCEPT ![p] = rows[i].case]
              /\ actor' = [actor EXCEPT ![p] = a]
              /\ local' = [local EXCEPT ![p].row = i, ![p].todo = @ \ {i}]
              /\ Goto(p, "drain_reread")
        BY <1>6, <2>4, Zenon DEF DrainOwn
      <3> DEFINE r == [local[p] EXCEPT !.row = i, !.todo = @ \ {i}]
      <3>1. i \in DOMAIN rows /\ i \in Nat /\ rows[i] \in Row
        BY <1>2 DEF Inv, TypeOK, TableTypes
      <3>2. rows[i].case \in Cases /\ a \in Owners
        BY <2>1, <3>1 DEF Row, Owners
      <3>3. TableTypes'
        <4>1. owner' \in [Cases -> Agents \cup {Nobody}]
          BY <3>2 DEF Inv, TypeOK, TableTypes, Owners
        <4> QED  BY <2>2, <4>1, Zenon DEF Inv, TypeOK, TableTypes
      <3>4. local' = [local EXCEPT ![p] = r] /\ r \in LocalRecord /\ r.todo = local[p].todo \ {i} /\ r.row = i
        BY <1>1, <3>1 DEF LocalRecord
      <3>5. LocalTypes'
        <4> HIDE DEF r
        <4> QED  BY <1>2, <2>2, <3>1, <3>4, LocalChange DEF LocalRecord
      <3>6. actor' \in [Calls -> Owners] /\ op' \in [Calls -> Handlers \cup {"none"}]
        BY <1>1, <2>2, <3>2 DEF Inv, TypeOK, FrameTypes
      <3>7. target' \in [Calls -> Cases] /\ \A q \in Calls : q # p => target'[q] = target[q]
        BY <3>2 DEF Inv, TypeOK, FrameTypes
      <3>8. "drain_reread" \in Labels /\ "drain_reread" \notin Holding
        BY DEF Labels, Holding
      <3> QED  BY <2>2, <3>3, <3>5, <3>6, <3>7, <3>8, StayInv DEF Good
    <2> QED  BY <2>3, <2>4
  <1>7. CASE DrainReread(p)
    <2> DEFINE l == IF status[target[p]] = "ESCALATED" THEN "drain_shift" ELSE "drain_row"
    <2>1. l \in Labels /\ Read(p) /\ Goto(p, l)
      BY <1>7 DEF DrainReread, Labels
    <2> HIDE DEF l
    <2> QED  BY <2>1, ReadInv DEF Good
  <1>8. CASE DrainShift(p)
    BY <1>8, TransitionInv DEF DrainShift, At, Labels, Holding, Statuses, Good
  <1>9. CASE DrainRow(p)
    BY <1>1, <1>9, UpdateRowInv DEF DrainRow, Labels, Holding, Good
  <1>10. CASE DrainSilence(p)
    <2> DEFINE loads == [local[p].loads EXCEPT ![actor[p]] = @ + 1]
               r == [local[p] EXCEPT !.loads = loads]
               l == IF local[p].todo = {} THEN "done" ELSE "drain_own"
    <2>1. SetAutomation(p, FALSE) /\ Goto(p, l) /\ UNCHANGED actor
      BY <1>10, Zenon DEF DrainSilence
    <2>2. l \in Labels \ Holding
      BY DEF Labels, Holding
    <2>3. local' = [local EXCEPT ![p] = r] /\ r \in LocalRecord /\ r.todo = local[p].todo /\ r.row = local[p].row
      <3>1. local[p].loads \in [Agents -> Nat]
        BY <1>1 DEF LocalRecord
      <3>2. loads \in [Agents -> Nat]
        BY <3>1, LoadsIncremented
      <3>3. local' = [local EXCEPT ![p] = r]
        BY <1>10, Zenon DEF DrainSilence
      <3> HIDE DEF loads
      <3> QED  BY <1>1, <3>2, <3>3 DEF LocalRecord
    <2> HIDE DEF r, l
    <2>4. LocalTypes'
      BY <1>2, <2>1, <2>3, LocalChange DEF LocalRecord, SetAutomation
    <2> QED  BY <1>1, <2>1, <2>2, <2>4, SetAutomationInv DEF Good
  <1> QED  BY <1>3, <1>4, <1>5, <1>6, <1>7, <1>8, <1>9, <1>10 DEF Drain

LEMMA ClaimGood ==
    ASSUME Inv, NEW p \in Calls,
           ClaimRead(p) \/ ClaimOwn(p) \/ ClaimShift(p) \/ ClaimSilence(p) \/ ClaimRow(p)
    PROVE  Good
  <1>0. actor[p] \in Owners /\ Nobody \in Owners
    BY DEF Inv, TypeOK, FrameTypes, Owners
  <1>1. CASE ClaimRead(p)
    <2> DEFINE l == IF owner[target[p]] = Nobody THEN "claim_own" ELSE "failed"
    <2>1. l \in Labels
      BY DEF Labels
    <2>2. Read(p) /\ Goto(p, l)
      BY <1>1, Zenon DEF ClaimRead
    <2> HIDE DEF l
    <2> QED  BY <2>1, <2>2, ReadInv DEF Good
  <1>2. CASE ClaimOwn(p)
    <2> DEFINE l == IF snap[p].status \in Closed \cup {"HUMAN_ACTIVE"}
                    THEN "claim_silence" ELSE "claim_shift"
    <2>1. l \in Labels /\ pc[p] \in Holding
      BY <1>2 DEF ClaimOwn, At, Labels, Holding
    <2>2. SetOwner(p, actor[p]) /\ Goto(p, l) /\ UNCHANGED <<actor, local>>
      BY <1>2, Zenon DEF ClaimOwn
    <2> HIDE DEF l
    <2> QED  BY <1>0, <2>1, <2>2, SetOwnerInv DEF Good
  <1>3. CASE ClaimShift(p)
    BY <1>3, TransitionInv DEF ClaimShift, At, Labels, Holding, Statuses, Closed, Good
  <1>4. CASE ClaimSilence(p)
    BY <1>4, SilenceInv DEF ClaimSilence, Labels, Holding, Good
  <1>5. CASE ClaimRow(p)
    <2> DEFINE l == IF op[p] = "take" THEN "take_reread" ELSE "done"
               st == "ASSIGNED"
    <2>1. l \in Labels \ Holding /\ st \in {"PENDING", "ASSIGNED"}
      BY DEF Labels, Holding
    <2>2. UpdateRow(NewestRow(p), st, actor[p]) /\ Goto(p, l)
      BY <1>5, Zenon DEF ClaimRow
    <2> HIDE DEF l, st
    <2> QED  BY <1>0, <2>1, <2>2, UpdateRowInv DEF Good
  <1> QED  BY <1>1, <1>2, <1>3, <1>4, <1>5

LEMMA TakeGood ==
    ASSUME Inv, NEW p \in Calls, TakeRead(p) \/ TakeReread(p) \/ TakeShift(p) \/ TakeSilence(p)
    PROVE  Good
  <1>1. CASE TakeRead(p)
    <2> DEFINE l == IF owner[target[p]] = Nobody THEN "claim_read"
                    ELSE IF owner[target[p]] = actor[p] THEN "take_reread" ELSE "failed"
    <2>1. l \in Labels
      BY DEF Labels
    <2>2. Read(p) /\ Goto(p, l)
      BY <1>1, Zenon DEF TakeRead
    <2> HIDE DEF l
    <2> QED  BY <2>1, <2>2, ReadInv DEF Good
  <1>2. CASE TakeReread(p)
    <2> DEFINE l == IF status[target[p]] \in Closed \cup {"HUMAN_ACTIVE"}
                    THEN "take_silence" ELSE "take_shift"
    <2>1. l \in Labels
      BY DEF Labels
    <2>2. Read(p) /\ Goto(p, l)
      BY <1>2, Zenon DEF TakeReread
    <2> HIDE DEF l
    <2> QED  BY <2>1, <2>2, ReadInv DEF Good
  <1>3. CASE TakeShift(p)
    BY <1>3, TransitionInv DEF TakeShift, At, Labels, Holding, Statuses, Closed, Good
  <1>4. CASE TakeSilence(p)
    BY <1>4, SilenceInv DEF TakeSilence, Labels, Holding, Good
  <1> QED  BY <1>1, <1>2, <1>3, <1>4

LEMMA AssignGood ==
    ASSUME Inv, NEW p \in Calls,
           AssignRead(p) \/ AssignShift(p) \/ AssignOwn(p) \/ AssignSilence(p) \/ AssignRow(p)
    PROVE  Good
  <1>0. actor[p] \in Owners /\ Nobody \in Owners
    BY DEF Inv, TypeOK, FrameTypes, Owners
  <1>1. CASE AssignRead(p)
    <2> DEFINE l == IF status[target[p]] \in Closed \cup {"HUMAN_ACTIVE"}
                    THEN "assign_own" ELSE "assign_shift"
    <2>1. l \in Labels
      BY DEF Labels
    <2>2. Read(p) /\ Goto(p, l)
      BY <1>1, Zenon DEF AssignRead
    <2> HIDE DEF l
    <2> QED  BY <2>1, <2>2, ReadInv DEF Good
  <1>2. CASE AssignShift(p)
    BY <1>2, TransitionInv DEF AssignShift, At, Labels, Holding, Statuses, Closed, Good
  <1>3. CASE AssignOwn(p)
    BY <1>0, <1>3, SetOwnerInv DEF AssignOwn, Labels, Holding, Good
  <1>4. CASE AssignSilence(p)
    BY <1>4, SilenceInv DEF AssignSilence, Labels, Holding, Good
  <1>5. CASE AssignRow(p)
    BY <1>0, <1>5, UpdateRowInv DEF AssignRow, Labels, Holding, Good
  <1> QED  BY <1>1, <1>2, <1>3, <1>4, <1>5

LEMMA TransferGood ==
    ASSUME Inv, NEW p \in Calls,
           TransferRead(p) \/ TransferPick(p) \/ TransferShift(p) \/ TransferOwn(p)
           \/ TransferRow(p) \/ TransferSilence(p)
    PROVE  Good
  <1>0. actor[p] \in Owners /\ Nobody \in Owners
    BY DEF Inv, TypeOK, FrameTypes, Owners
  <1>1. CASE TransferRead(p)
    BY <1>1, ReadInv DEF TransferRead, Labels, Good
  <1>2. CASE TransferPick(p)
    <2>1. UNCHANGED <<tables, connected, op, target, snap, local>> /\ Goto(p, "transfer_shift")
      BY <1>2, Zenon DEF TransferPick
    <2>2. pc[p] \in Holding
      BY <1>2 DEF TransferPick, At, Holding
    <2>3. actor' \in [Calls -> Owners]
      <3> DEFINE S == IF connected = {} THEN Agents ELSE connected
                 best == LeastLoaded(S, CurrentLoads)
      <3>1. best \subseteq Agents
        BY DEF LeastLoaded, Inv, TypeOK, TableTypes
      <3>2. \E a \in {actor[p]} \cup (IF best = {} THEN {Nobody} ELSE best) :
               actor' = [actor EXCEPT ![p] = a]
        BY <1>2, Zenon DEF TransferPick
      <3>3. {actor[p]} \cup (IF best = {} THEN {Nobody} ELSE best) \subseteq Owners
        <4> HIDE DEF best
        <4> QED  BY <1>0, <3>1 DEF Owners
      <3>4. actor \in [Calls -> Owners]
        BY DEF Inv, TypeOK, FrameTypes, Owners
      <3> HIDE DEF best
      <3> QED  BY <3>2, <3>3, <3>4
    <2>4. LocalTypes' /\ connected' \subseteq Agents
      BY <2>1, LocalSame DEF Inv, TypeOK, TableTypes, tables
    <2>5. "transfer_shift" \in Labels
      BY DEF Labels
    <2> QED  BY <2>1, <2>2, <2>3, <2>4, <2>5, MoveInv DEF Good
  <1>3. CASE TransferShift(p)
    <2> DEFINE st == IF actor[p] = Nobody \/ snap[p].status \in Closed
                     THEN snap[p].status ELSE "HUMAN_ACTIVE"
    <2>1. Transition(p, st, "transfer_own") /\ pc[p] = "transfer_shift"
      BY <1>3, Zenon DEF TransferShift, At
    <2>2. st \in Statuses
      BY DEF Inv, TypeOK, FrameTypes, Statuses
    <2> HIDE DEF st
    <2> QED  BY <2>1, <2>2, TransitionInv DEF Labels, Holding, Good
  <1>4. CASE TransferOwn(p)
    BY <1>0, <1>4, SetOwnerInv DEF TransferOwn, Labels, Holding, Good
  <1>5. CASE TransferRow(p)
    <2> DEFINE l == IF actor[p] = Nobody THEN "done" ELSE "transfer_silence"
               st == IF actor[p] = Nobody THEN "PENDING" ELSE "ASSIGNED"
    <2>1. l \in Labels \ Holding /\ st \in {"PENDING", "ASSIGNED"}
      BY DEF Labels, Holding
    <2>2. UpdateRow(NewestRow(p), st, actor[p]) /\ Goto(p, l)
      BY <1>5, Zenon DEF TransferRow
    <2> HIDE DEF l, st
    <2> QED  BY <1>0, <2>1, <2>2, UpdateRowInv DEF Good
  <1>6. CASE TransferSilence(p)
    BY <1>6, SilenceInv DEF TransferSilence, Labels, Holding, Good
  <1> QED  BY <1>1, <1>2, <1>3, <1>4, <1>5, <1>6

LEMMA ClosingGood ==
    ASSUME Inv, NEW p \in Calls, Closing(p)
    PROVE  Good
  <1>0. actor[p] \in Owners /\ Nobody \in Owners
    BY DEF Inv, TypeOK, FrameTypes, Owners
  <1>1. CASE CompleteRead(p)
    <2> DEFINE l == IF status[target[p]] \in Closed THEN "failed" ELSE "complete_shift"
    <2>1. l \in Labels
      BY DEF Labels
    <2>2. Read(p) /\ Goto(p, l)
      BY <1>1, Zenon DEF CompleteRead
    <2> HIDE DEF l
    <2> QED  BY <2>1, <2>2, ReadInv DEF Good
  <1>2. CASE CompleteShift(p)
    BY <1>2, TransitionInv DEF CompleteShift, At, Labels, Holding, Statuses, Closed, Good
  <1>3. CASE CancelRead(p)
    <2> DEFINE l == IF status[target[p]] \in Automatable THEN "cancel_shift" ELSE "failed"
    <2>1. l \in Labels
      BY DEF Labels
    <2>2. Read(p) /\ Goto(p, l)
      BY <1>3, Zenon DEF CancelRead
    <2> HIDE DEF l
    <2> QED  BY <2>1, <2>2, ReadInv DEF Good
  <1>4. CASE CancelShift(p)
    BY <1>4, TransitionInv DEF CancelShift, At, Labels, Holding, Statuses, Closed, Good
  <1>5. CASE DisableRead(p)
    BY <1>5, ReadInv DEF DisableRead, Labels, Good
  <1>6. CASE ReactRead(p)
    BY <1>6, ReadInv DEF ReactRead, Labels, Good
  <1>7. CASE ReactEnable(p)
    <2>1. SetAutomation(p, TRUE) /\ UNCHANGED local /\ actor' = [actor EXCEPT ![p] = snap[p].owner]
      BY <1>7, Zenon DEF ReactEnable
    <2>2. \E l \in {"react_reread", "react_release", "done"} : Goto(p, l)
      BY <1>7, Zenon DEF ReactEnable
    <2>3. actor' \in [Calls -> Owners]
      BY <2>1 DEF Inv, TypeOK, FrameTypes, Owners
    <2>4. LocalTypes'
      BY <2>1, LocalSame DEF Inv, TypeOK, SetAutomation
    <2>5. {"react_reread", "react_release", "done"} \subseteq Labels \ Holding
      BY DEF Labels, Holding
    <2> QED  BY <2>1, <2>2, <2>3, <2>4, <2>5, SetAutomationInv DEF Good
  <1>8. CASE ReactReread(p)
    BY <1>8, ReadInv DEF ReactReread, Labels, Good
  <1>9. CASE ReactShift(p)
    <2> DEFINE l == IF actor[p] = Nobody THEN "done" ELSE "react_release"
    <2>1. l \in Labels \ Holding /\ pc[p] \in Holding
      BY <1>9 DEF ReactShift, At, Labels, Holding
    <2> PICK st \in Automatable : Transition(p, st, l)
      BY <1>9, Zenon DEF ReactShift
    <2>2. st \in Statuses
      BY DEF Statuses
    <2> HIDE DEF l
    <2> QED  BY <2>1, <2>2, TransitionInv DEF Good
  <1>10. CASE ReactRelease(p)
    BY <1>0, <1>10, SetOwnerInv DEF ReactRelease, Labels, Holding, Good
  <1> QED  BY <1>1, <1>2, <1>3, <1>4, <1>5, <1>6, <1>7, <1>8, <1>9, <1>10 DEF Closing

LEMMA StartGood ==
    ASSUME Inv, NEW p \in Calls, NEW o \in Ops, NEW c \in Cases, NEW a \in Agents, Start(p, o, c, a)
    PROVE  Good
  <1>1. o \in Handlers
    BY OpsAssumption
  <1>2. FirstLabel(o) \in Labels \ Holding
    BY <1>1 DEF FirstLabel, Handlers, Labels, Holding
  <1>3. /\ Goto(p, FirstLabel(o)) /\ UNCHANGED <<tables, connected, snap, local>>
        /\ op' = [op EXCEPT ![p] = o] /\ target' = [target EXCEPT ![p] = c]
        /\ actor' = [actor EXCEPT ![p] = a]
    BY DEF Start
  <1>4. op' \in [Calls -> Handlers \cup {"none"}]
    BY <1>1, <1>3 DEF Inv, TypeOK, FrameTypes
  <1>5. target' \in [Calls -> Cases] /\ \A q \in Calls : q # p => target'[q] = target[q]
    BY <1>3 DEF Inv, TypeOK, FrameTypes
  <1>6. actor' \in [Calls -> Owners]
    BY <1>3 DEF Inv, TypeOK, FrameTypes, Owners
  <1>7. TableTypes' /\ LocalTypes' /\ UNCHANGED <<status, version>>
    BY <1>3, Zenon DEF Inv, TypeOK, TableTypes, LocalTypes, tables
  <1> QED  BY <1>2, <1>3, <1>4, <1>5, <1>6, <1>7, StayInv DEF Good

LEMMA ConnectGood ==
    ASSUME Inv, NEW p \in Calls, NEW a \in Agents, Connect(p, a)
    PROVE  Good
  <1>1. /\ Goto(p, "drain_roster") /\ UNCHANGED <<tables, target, actor, snap, local>>
        /\ op' = [op EXCEPT ![p] = "drain"] /\ connected' = connected \cup {a}
    BY DEF Connect
  <1>2. op' \in [Calls -> Handlers \cup {"none"}]
    BY <1>1 DEF Inv, TypeOK, FrameTypes, Handlers
  <1>3. connected' \subseteq Agents
    BY <1>1 DEF Inv, TypeOK, TableTypes
  <1>4. TableTypes' /\ LocalTypes' /\ UNCHANGED <<status, version>>
    BY <1>1, <1>3, Zenon DEF Inv, TypeOK, TableTypes, LocalTypes, tables
  <1>5. target' \in [Calls -> Cases] /\ actor' \in [Calls -> Owners]
    BY <1>1, ActorSame, Zenon DEF Inv, TypeOK, FrameTypes
  <1>6. "drain_roster" \in Labels \ Holding
    BY DEF Labels, Holding
  <1> QED  BY <1>1, <1>2, <1>4, <1>5, <1>6, StayInv DEF Good

LEMMA DisconnectGood ==
    ASSUME Inv, NEW a \in Agents, Disconnect(a)
    PROVE  Good
  <1>1. UNCHANGED <<tables, frame>> /\ connected' \subseteq Agents
    BY DEF Disconnect, Inv, TypeOK, TableTypes
  <1> QED  BY <1>1, Zenon DEF Inv, TypeOK, TableTypes, FrameTypes, LocalTypes, SnapSound, Sound,
                  CheckedUpdate, Good, tables, frame

LEMMA FailGood ==
    ASSUME Inv, NEW p \in Calls, Fail(p)
    PROVE  Good
  <1>1. Goto(p, "failed") /\ UNCHANGED <<tables, connected, op, target, actor, snap, local>>
    BY DEF Fail
  <1>2. LocalTypes' /\ actor' \in [Calls -> Owners] /\ connected' \subseteq Agents
    BY <1>1, LocalSame, ActorSame DEF Inv, TypeOK, TableTypes, tables
  <1>3. "failed" \in Labels \ Holding
    BY DEF Labels, Holding
  <1> QED  BY <1>1, <1>2, <1>3, MoveInv DEF Good

-----------------------------------------------------------------------------
LEMMA InitInv == Init => Inv
  <1> SUFFICES ASSUME Init PROVE Inv
    OBVIOUS
  <1>1. TableTypes
    <2> PICK Q \in Queued : InitWith(Q)
      BY DEF Init
    <2>0. Q \subseteq Cases
      BY QueuedAssumption
    <2>1. status \in [Cases -> Statuses]
      BY DEF InitWith, Statuses
    <2>2. version \in [Cases -> Nat] /\ owner \in [Cases -> Agents \cup {Nobody}]
      BY DEF Init
    <2>3. automation \in [Cases -> BOOLEAN]
      BY Zenon DEF InitWith
    <2>4. rows \in Seq(Row)
      <3>1. Cardinality(Q) \in Nat
        BY <2>0, CasesAssumption, FS_Subset, FS_CardinalityType
      <3>2. rows \in [1..Cardinality(Q) -> {Pending(c) : c \in Q}]
        BY DEF InitWith
      <3>3. {Pending(c) : c \in Q} \subseteq Row
        BY <2>0 DEF Pending, Row
      <3>4. rows \in [1..Cardinality(Q) -> Row]
        BY <3>2, <3>3
      <3> QED  BY <3>1, <3>4, SeqDef
    <2>5. connected \subseteq Agents
      BY DEF InitWith
    <2> QED  BY <2>1, <2>2, <2>3, <2>4, <2>5 DEF TableTypes
  <1>2. FrameTypes
    <2>1. (CHOOSE c \in Cases : TRUE) \in Cases
      BY CasesAssumption
    <2> QED  BY <2>1 DEF Init, FrameTypes, Labels, Statuses, Automatable
  <1>3. LocalTypes
    BY DEF Init, LocalTypes, NoLocals
  <1>4. SnapSound
    BY DEF Init, SnapSound, Holding
  <1> QED  BY <1>1, <1>2, <1>3, <1>4 DEF Inv, TypeOK

LEMMA NextGood ==
    ASSUME Inv, [Next]_vars
    PROVE  Inv' /\ (CheckedUpdate \/ UNCHANGED vars)
  <1>1. CASE UNCHANGED vars
    BY <1>1, Zenon DEF vars, tables, frame, Inv, TypeOK, TableTypes, FrameTypes, LocalTypes, SnapSound, Sound
  <1>2. ASSUME NEW p \in Calls, Step(p) PROVE Good
    BY <1>2, EscalateGood, CreateGood, AutoGood, DrainGood, ClaimGood, TakeGood, AssignGood,
       TransferGood, ClosingGood, Zenon DEF Step, Escalation, ByAgent
  <1>3. CASE Next
    BY <1>2, <1>3, StartGood, ConnectGood, DisconnectGood, FailGood, Zenon DEF Next, Good
  <1> QED  BY <1>1, <1>3

\* The rows of "case", automation_state and escalation keep their types, and a
\* dispatcher only names rows that exist.
THEOREM TypeCorrect == Spec => []TypeOK
  <1>1. Inv /\ [Next]_vars => Inv'
    BY NextGood
  <1>2. Inv => TypeOK
    BY DEF Inv
  <1> QED  BY <1>1, <1>2, InitInv, PTL DEF Spec

\* case.repository.pg.ts applyTransition: however many handlers interleave or
\* fail, a status is only ever replaced by a call that read that very version.
THEOREM UpdatesAreChecked == Spec => NoLostUpdate
  <1>1. Inv /\ [Next]_vars => Inv' /\ [CheckedUpdate]_vars
    BY NextGood
  <1> QED  BY <1>1, InitInv, PTL DEF Spec, NoLostUpdate
=============================================================================
