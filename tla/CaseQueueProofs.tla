-------------------------- MODULE CaseQueueProofs --------------------------
(***************************************************************************)
(* The queue of a department, for every number of cases, agents and calls: *)
(* while the cases are handed over by the automation, by drains and by     *)
(* completions, one dispatching call at a time, and no call dies, the rows *)
(* of the queue agree with the cases, no case waits beside a free slot     *)
(* once everything is at rest, and every hand-over is one AgentPool        *)
(* allows.                                                                 *)
(***************************************************************************)
EXTENDS CaseHandoverProofs, WellFoundedInduction

\* The hand-overs without a person's doing.
QueueOps == {"escalate", "advance", "drain", "complete"}
OnlyQueueOps == Ops \subseteq QueueOps

\* Where their calls are: an escalation before its row is there and after, a
\* drain between the load count and its end, and neither.
Opening == {"esc_read", "esc_find", "esc_shift", "esc_silence", "esc_create",
            "adv_read", "adv_shift", "adv_silence", "ens_find"}
Giving == {"auto_pick", "auto_own", "auto_reread", "auto_shift", "auto_row", "auto_silence"}
Handing == {"drain_reread", "drain_shift", "drain_row", "drain_silence"}
Round == {"drain_load", "drain_fetch", "drain_own"} \cup Handing
Over == {"idle", "done", "failed"}
Reached == Opening \cup Giving \cup Round \cup Over
           \cup {"drain_roster", "complete_read", "complete_shift"}

\* The case is ESCALATED and its row is still to come.
Escalated == {"esc_silence", "esc_create", "adv_silence", "ens_find"}
\* The call knows the row of its case; it has written the owner but not the row.
Writing == {"auto_reread", "auto_shift", "auto_row", "drain_reread", "drain_shift", "drain_row"}
Naming == {"auto_pick", "auto_own"} \cup Writing

CaseOf(i) == rows[i].case
HasRow(c) == \E i \in DOMAIN rows : CaseOf(i) = c

\* What a call relies on.  An escalation finds no row, and only a completion
\* changes the case of a call that is handing it over.
Called(p) ==
    /\ pc[p] \in Reached
    /\ pc[p] \in Opening \cup Giving => op[p] \in ByAutomation
    /\ pc[p] \in Opening => ~HasRow(target[p])
    /\ pc[p] = "esc_create" => ~automation[target[p]]
    /\ pc[p] = "esc_find" => snap[p].status # "HUMAN_ACTIVE"
    /\ pc[p] \in {"esc_silence", "esc_create", "auto_pick", "auto_own"} /\ snap[p].status # "ESCALATED" =>
         status[target[p]] # "ESCALATED"
    /\ pc[p] \in Naming => local[p].row \in DOMAIN rows /\ CaseOf(local[p].row) = target[p]
    /\ pc[p] \in Writing => owner[target[p]] = actor[p] /\ actor[p] \in Agents
    /\ pc[p] \in {"auto_shift", "drain_shift"} /\ snap[p].version # version[target[p]] =>
         status[target[p]] = "COMPLETED"
    /\ pc[p] \in {"auto_row", "drain_row"} => status[target[p]] # "ESCALATED"
    /\ pc[p] = "drain_shift" => snap[p].status = "ESCALATED"
    /\ pc[p] \in Handing => actor[p] \in local[p].roster /\ local[p].row \notin local[p].todo
    /\ pc[p] \in {"drain_own"} \cup Handing =>
         \A i \in local[p].todo : status[CaseOf(i)] # "HUMAN_ACTIVE"

\* Flushes of one conversation do not overlap.
OneServes ==
    \A p, q \in Calls : pc[p] \in Opening \cup Giving /\ pc[q] \in Opening \cup Giving
                        /\ target[p] = target[q] => p = q

\* A case has one row at most, with its automation off; the row is assigned once
\* the case is no longer ESCALATED, to the agent of the case when a person has it.
Rowed(i) ==
    /\ ~automation[CaseOf(i)]
    /\ \A j \in DOMAIN rows : CaseOf(i) = CaseOf(j) => i = j
    /\ rows[i].status = "ASSIGNED" => status[CaseOf(i)] # "ESCALATED"
    /\ status[CaseOf(i)] = "HUMAN_ACTIVE" =>
         rows[i].agent = owner[CaseOf(i)] \/ \E p \in Calls : pc[p] \in Writing /\ target[p] = CaseOf(i)

Queues(c) ==
    /\ status[c] = "ESCALATED" => HasRow(c) \/ \E p \in Calls : pc[p] \in Escalated /\ target[p] = c
    /\ status[c] = "HUMAN_ACTIVE" => HasRow(c) /\ owner[c] \in Agents

QueueInv == /\ \A p \in Calls : Called(p)
            /\ OneServes
            /\ \A i \in DOMAIN rows : Rowed(i)
            /\ \A c \in Cases : Queues(c)

-----------------------------------------------------------------------------
(* Steps *)

Alike(p) == \A q \in Calls \ {p} : /\ pc'[q] = pc[q] /\ op'[q] = op[q] /\ target'[q] = target[q]
                                   /\ actor'[q] = actor[q] /\ snap'[q] = snap[q] /\ local'[q] = local[q]

\* What a step of another call may do to the tables without a call noticing.
Harmless(q) ==
    /\ \A i \in DOMAIN rows : i \in DOMAIN rows' /\ rows'[i].case = rows[i].case
    /\ pc[q] \in Opening => \A i \in DOMAIN rows' : rows'[i].case # target[q]
    /\ pc[q] = "esc_create" => ~automation'[target[q]]
    /\ pc[q] \in {"esc_silence", "esc_create", "auto_pick", "auto_own", "auto_row", "drain_row"} =>
         (status'[target[q]] = "ESCALATED" => status[target[q]] = "ESCALATED")
    /\ pc[q] \in Writing => owner'[target[q]] = owner[target[q]]
    /\ pc[q] \in {"auto_shift", "drain_shift"} =>
         \/ status'[target[q]] = "COMPLETED"
         \/ version'[target[q]] = version[target[q]] /\ status'[target[q]] = status[target[q]]
    /\ pc[q] \in {"drain_own"} \cup Handing =>
         \A i \in local[q].todo :
            status'[rows[i].case] = "HUMAN_ACTIVE" => status[rows[i].case] = "HUMAN_ACTIVE"

LEMMA Parts ==
    ASSUME Inv
    PROVE  /\ pc \in [Calls -> Labels] /\ op \in [Calls -> Handlers \cup {"none"}]
           /\ target \in [Calls -> Cases] /\ actor \in [Calls -> Owners]
           /\ local \in [Calls -> LocalRecord]
           /\ snap \in [Calls -> [status : Statuses, version : Nat, owner : Owners]]
           /\ status \in [Cases -> Statuses] /\ version \in [Cases -> Nat]
           /\ owner \in [Cases -> Owners] /\ rows \in Seq(Row) /\ connected \subseteq Agents
           /\ \A p \in Calls : local[p].todo \subseteq DOMAIN rows
           /\ \A i \in DOMAIN rows : rows[i] \in Row /\ CaseOf(i) \in Cases
  <1>1. rows \in Seq(Row)
    BY DEF Inv, TypeOK, TableTypes
  <1>2. \A i \in DOMAIN rows : rows[i] \in Row
    BY <1>1
  <1>3. \A i \in DOMAIN rows : CaseOf(i) \in Cases
    BY <1>2 DEF CaseOf, Row
  <1> QED  BY <1>1, <1>2, <1>3 DEF Inv, TypeOK, TableTypes, FrameTypes, LocalTypes, LocalRecord, Owners

LEMMA OthersCalled ==
    ASSUME Inv, NEW p \in Calls, Alike(p), NEW q \in Calls \ {p}, Called(q), Harmless(q)
    PROVE  Called(q)'
  <1>1. /\ pc'[q] = pc[q] /\ op'[q] = op[q] /\ target'[q] = target[q]
        /\ actor'[q] = actor[q] /\ snap'[q] = snap[q] /\ local'[q] = local[q]
    BY DEF Alike
  <1>2. \A i \in DOMAIN rows : i \in DOMAIN rows' /\ CaseOf(i)' = CaseOf(i)
    BY DEF Harmless, CaseOf
  <1>3. /\ pc'[q] \in Reached
        /\ pc'[q] \in Opening \cup Giving => op'[q] \in ByAutomation
        /\ pc'[q] = "esc_find" => snap'[q].status # "HUMAN_ACTIVE"
        /\ pc'[q] = "drain_shift" => snap'[q].status = "ESCALATED"
        /\ pc'[q] \in Handing => actor'[q] \in local'[q].roster /\ local'[q].row \notin local'[q].todo
    BY <1>1 DEF Called
  <1>4. /\ pc'[q] \in Opening => ~HasRow(target[q])'
        /\ pc'[q] = "esc_create" => ~automation'[target'[q]]
    BY <1>1 DEF Called, Harmless, HasRow, CaseOf
  <1>5. /\ pc'[q] \in {"esc_silence", "esc_create", "auto_pick", "auto_own"} /\ snap'[q].status # "ESCALATED" =>
             status'[target'[q]] # "ESCALATED"
        /\ pc'[q] \in {"auto_row", "drain_row"} => status'[target'[q]] # "ESCALATED"
    BY <1>1 DEF Called, Harmless
  <1>6. pc'[q] \in Naming => local'[q].row \in DOMAIN rows' /\ rows'[local'[q].row].case = target'[q]
    BY <1>1, <1>2 DEF Called, CaseOf
  <1>7. pc'[q] \in Writing => owner'[target'[q]] = actor'[q] /\ actor'[q] \in Agents
    BY <1>1 DEF Called, Harmless
  <1>8. pc'[q] \in {"auto_shift", "drain_shift"} /\ snap'[q].version # version'[target'[q]] =>
             status'[target'[q]] = "COMPLETED"
    BY <1>1 DEF Called, Harmless
  <1>9. pc'[q] \in {"drain_own"} \cup Handing =>
            \A i \in local'[q].todo : status'[rows'[i].case] # "HUMAN_ACTIVE"
    BY <1>1, <1>2, Parts DEF Called, Harmless, CaseOf
  <1> QED  BY <1>3, <1>4, <1>5, <1>6, <1>7, <1>8, <1>9, Zenon DEF Called, CaseOf

LEMMA StillServes ==
    ASSUME OneServes, NEW p \in Calls, Alike(p),
           pc'[p] \in Opening \cup Giving => pc[p] \in Opening \cup Giving /\ target'[p] = target[p]
    PROVE  OneServes'
  BY DEF OneServes, Alike

\* A step that leaves the tables as they are, but for an automation switched off.
LEMMA MoveQueue ==
    ASSUME Inv, QueueInv, NEW p \in Calls, Alike(p), UNCHANGED <<status, version, owner, rows>>,
           \A c \in Cases : automation'[c] => automation[c],
           Called(p)', OneServes',
           pc[p] \in Escalated => pc'[p] \in Escalated /\ target'[p] = target[p],
           pc[p] \in Writing => \/ pc'[p] \in Writing /\ target'[p] = target[p]
                                \/ status[target[p]] # "HUMAN_ACTIVE"
    PROVE  QueueInv'
  <1>1. ASSUME NEW q \in Calls \ {p} PROVE Called(q)'
    <2>1. Called(q) /\ target[q] \in Cases
      BY Parts DEF QueueInv
    <2>2. pc[q] = "esc_create" => ~automation'[target[q]]
      BY <2>1, Zenon DEF Called
    <2>3. Harmless(q)
      BY <2>1, <2>2 DEF Harmless, Called, HasRow, CaseOf
    <2> QED  BY <2>1, <2>3, OthersCalled
  <1>2. ASSUME NEW i \in DOMAIN rows PROVE Rowed(i)'
    <2>1. Rowed(i) /\ CaseOf(i) \in Cases
      BY Parts DEF QueueInv
    <2>2. ~automation'[CaseOf(i)]
      BY <2>1, Zenon DEF Rowed
    <2>3. CaseOf(i)' = CaseOf(i) /\ \A j \in DOMAIN rows : CaseOf(j)' = CaseOf(j)
      BY DEF CaseOf
    <2>4. status[CaseOf(i)] = "HUMAN_ACTIVE" =>
             rows[i].agent = owner[CaseOf(i)] \/ \E q \in Calls : pc'[q] \in Writing /\ target'[q] = CaseOf(i)
      BY <2>1 DEF Rowed, Alike
    <2>5. \A j \in DOMAIN rows : CaseOf(i) = CaseOf(j) => i = j
      BY <2>1 DEF Rowed
    <2>6. rows[i].status = "ASSIGNED" => status[CaseOf(i)] # "ESCALATED"
      BY <2>1 DEF Rowed
    <2>7. /\ ~automation'[CaseOf(i)']
          /\ status'[CaseOf(i)'] = "HUMAN_ACTIVE" =>
               rows'[i].agent = owner'[CaseOf(i)'] \/ \E q \in Calls : pc'[q] \in Writing /\ target'[q] = CaseOf(i)'
          /\ \A j \in DOMAIN rows' : CaseOf(i)' = CaseOf(j)' => i = j
          /\ rows'[i].status = "ASSIGNED" => status'[CaseOf(i)'] # "ESCALATED"
      BY <2>2, <2>3, <2>4, <2>5, <2>6
    <2> QED  BY <2>7, Zenon DEF Rowed
  <1>3. ASSUME NEW c \in Cases PROVE Queues(c)'
    <2>1. Queues(c) /\ (HasRow(c)' <=> HasRow(c))
      BY DEF QueueInv, HasRow, CaseOf
    <2>2. (\E q \in Calls : pc[q] \in Escalated /\ target[q] = c)
            => \E q \in Calls : pc'[q] \in Escalated /\ target'[q] = c
      BY DEF Alike
    <2> QED  BY <2>1, <2>2 DEF Queues
  <1> QED  BY <1>1, <1>2, <1>3 DEF QueueInv

\* A transition of a case that has no row yet.
LEMMA OpenQueue ==
    ASSUME Inv, QueueInv, NEW p \in Calls, Alike(p), UNCHANGED <<owner, automation, rows>>,
           pc[p] \in {"esc_shift", "adv_shift"}, target'[p] = target[p],
           NEW st \in Statuses \ {"HUMAN_ACTIVE"}, status' = [status EXCEPT ![target[p]] = st],
           \A c \in Cases \ {target[p]} : version'[c] = version[c],
           st = "ESCALATED" => pc'[p] \in Escalated, Called(p)', OneServes'
    PROVE  QueueInv'
  <1>0. pc[p] \in Opening \ Escalated /\ pc[p] \notin Writing /\ Called(p) /\ target[p] \in Cases /\ ~HasRow(target[p])
    BY Parts DEF Opening, Escalated, Writing, Naming, QueueInv, Called
  <1>00. \A i \in DOMAIN rows : CaseOf(i) # target[p] /\ CaseOf(i) \in Cases
    BY <1>0, Parts DEF HasRow
  <1>01. \A c \in Cases \ {target[p]} : status'[c] = status[c]
    BY Parts
  <1>1. ASSUME NEW q \in Calls \ {p} PROVE Called(q)'
    <2>1. Called(q) /\ target[q] \in Cases
      BY Parts DEF QueueInv
    <2>2. pc[q] = "esc_create" => ~automation'[target[q]]
      BY <2>1, Zenon DEF Called
    <2>3. pc[q] \in Opening \cup Giving \cup Naming => target[q] # target[p]
      BY <1>0, <1>00, <2>1 DEF QueueInv, OneServes, Called
    <2>4. pc[q] \in {"esc_silence", "esc_create", "auto_pick", "auto_own", "auto_row", "drain_row",
                     "auto_shift", "drain_shift"} => pc[q] \in Opening \cup Giving \cup Naming
      BY DEF Opening, Giving, Naming, Writing
    <2>5. \A i \in local[q].todo : rows[i].case \in Cases \ {target[p]}
      BY <1>00, Parts DEF CaseOf
    <2>6. /\ pc[q] \in Opening => \A i \in DOMAIN rows' : rows'[i].case # target[q]
          /\ \A i \in DOMAIN rows : i \in DOMAIN rows' /\ rows'[i].case = rows[i].case
      BY <2>1 DEF Called, HasRow, CaseOf
    <2>7. pc[q] \in {"auto_shift", "drain_shift"} =>
            version'[target[q]] = version[target[q]] /\ status'[target[q]] = status[target[q]]
      BY <1>01, <2>1, <2>3, <2>4
    <2>8. /\ pc[q] \in {"esc_silence", "esc_create", "auto_pick", "auto_own", "auto_row", "drain_row"} =>
                (status'[target[q]] = "ESCALATED" => status[target[q]] = "ESCALATED")
          /\ \A i \in local[q].todo :
                status'[rows[i].case] = "HUMAN_ACTIVE" => status[rows[i].case] = "HUMAN_ACTIVE"
      BY <1>01, <2>1, <2>3, <2>4, <2>5
    <2>9. Harmless(q)
      BY <2>2, <2>6, <2>7, <2>8 DEF Harmless
    <2> QED  BY <2>1, <2>9, OthersCalled
  <1>2. ASSUME NEW i \in DOMAIN rows PROVE Rowed(i)'
    <2>1. Rowed(i) /\ status'[CaseOf(i)] = status[CaseOf(i)]
      BY <1>00, <1>01 DEF QueueInv
    <2>2. CaseOf(i)' = CaseOf(i) /\ \A j \in DOMAIN rows : CaseOf(j)' = CaseOf(j)
      BY DEF CaseOf
    <2>3. ~automation'[CaseOf(i)']
      BY <2>1, <2>2, Zenon DEF Rowed
    <2>4. status[CaseOf(i)] = "HUMAN_ACTIVE" =>
             rows[i].agent = owner[CaseOf(i)] \/ \E q \in Calls : pc'[q] \in Writing /\ target'[q] = CaseOf(i)
      BY <1>0, <2>1 DEF Rowed, Alike
    <2>5. /\ status'[CaseOf(i)'] = "HUMAN_ACTIVE" =>
               rows'[i].agent = owner'[CaseOf(i)'] \/ \E q \in Calls : pc'[q] \in Writing /\ target'[q] = CaseOf(i)'
          /\ \A j \in DOMAIN rows' : CaseOf(i)' = CaseOf(j)' => i = j
          /\ rows'[i].status = "ASSIGNED" => status'[CaseOf(i)'] # "ESCALATED"
      BY <2>1, <2>2, <2>4 DEF Rowed
    <2> QED  BY <2>3, <2>5, Zenon DEF Rowed
  <1>3. ASSUME NEW c \in Cases PROVE Queues(c)'
    <2>1. Queues(c) /\ (HasRow(c)' <=> HasRow(c))
      BY DEF QueueInv, HasRow, CaseOf
    <2>2. (\E q \in Calls : pc[q] \in Escalated /\ target[q] = c)
            => \E q \in Calls : pc'[q] \in Escalated /\ target'[q] = c
      BY <1>0 DEF Alike
    <2>3. CASE c = target[p]
      <3>1. status'[c] = st
        BY <1>0, <2>3, Parts
      <3> QED  BY <2>3, <3>1 DEF Queues
    <2>4. CASE c # target[p]
      BY <1>01, <2>1, <2>2, <2>4 DEF Queues
    <2> QED  BY <2>3, <2>4
  <1> QED  BY <1>1, <1>2, <1>3 DEF QueueInv

\* Nobody else dispatches.
LEMMA Alone ==
    ASSUME CapInv, NEW p \in Calls, pc[p] \in Dispatching, NEW q \in Calls \ {p}
    PROVE  /\ pc[q] \notin Dispatching
           /\ pc[q] \notin Writing \cup {"auto_own", "drain_own"} \cup Round \cup Handing
  BY DEF CapInv, OneDispatcher, Dispatching, Writing, Round, Handing

\* The case is handed over: it becomes HUMAN_ACTIVE.
LEMMA HandQueue ==
    ASSUME Inv, CapInv, QueueInv, NEW p \in Calls, Alike(p),
           UNCHANGED <<owner, automation, rows>>,
           pc[p] \in {"auto_shift", "drain_shift"}, target'[p] = target[p], actor'[p] = actor[p],
           status' = [status EXCEPT ![target[p]] = "HUMAN_ACTIVE"],
           pc'[p] \in Writing, Called(p)', OneServes'
    PROVE  QueueInv'
  <1>0. pc[p] \in Dispatching /\ pc[p] \notin Escalated /\ Called(p) /\ target[p] \in Cases
    BY Parts DEF Dispatching, Escalated, QueueInv
  <1>1. pc[p] \in Writing /\ pc[p] \in Naming
    BY DEF Writing, Naming
  <1>2. HasRow(target[p]) /\ owner[target[p]] = actor[p] /\ actor[p] \in Agents
    BY <1>0, <1>1 DEF Called, HasRow
  <1>3. \A c \in Cases \ {target[p]} : status'[c] = status[c]
    BY Parts
  <1>4. status'[target[p]] = "HUMAN_ACTIVE"
    BY <1>0, Parts
  <1>5. ASSUME NEW q \in Calls \ {p} PROVE Called(q)'
    <2>1. Called(q) /\ target[q] \in Cases
      BY Parts DEF QueueInv
    <2>2. pc[q] = "esc_create" => ~automation'[target[q]]
      BY <2>1, Zenon DEF Called
    <2>3. pc[q] \notin Writing \cup {"auto_own", "drain_own"} \cup Round \cup Handing
      BY <1>0, Alone
    <2>4. pc[q] \notin {"auto_shift", "drain_shift"}
      BY <2>3 DEF Writing
    <2>6. /\ pc[q] \in Opening => \A i \in DOMAIN rows' : rows'[i].case # target[q]
          /\ \A i \in DOMAIN rows : i \in DOMAIN rows' /\ rows'[i].case = rows[i].case
      BY <2>1 DEF Called, HasRow, CaseOf
    <2>7. status'[target[q]] = "ESCALATED" => status[target[q]] = "ESCALATED"
      BY <1>3, <1>4, <2>1
    <2>9. Harmless(q)
      BY <2>2, <2>3, <2>4, <2>6, <2>7 DEF Harmless
    <2> QED  BY <2>1, <2>9, OthersCalled
  <1>6. ASSUME NEW i \in DOMAIN rows PROVE Rowed(i)'
    <2>1. Rowed(i) /\ CaseOf(i) \in Cases
      BY Parts DEF QueueInv
    <2>2. CaseOf(i)' = CaseOf(i) /\ \A j \in DOMAIN rows : CaseOf(j)' = CaseOf(j)
      BY DEF CaseOf
    <2>3. ~automation'[CaseOf(i)']
      BY <2>1, <2>2, Zenon DEF Rowed
    <2>4. status'[CaseOf(i)] = "HUMAN_ACTIVE" =>
             rows[i].agent = owner[CaseOf(i)] \/ \E q \in Calls : pc'[q] \in Writing /\ target'[q] = CaseOf(i)
      <3>1. CASE CaseOf(i) = target[p]
        BY <3>1
      <3>2. CASE CaseOf(i) # target[p]
        BY <1>3, <2>1, <3>2 DEF Rowed, Alike
      <3> QED  BY <3>1, <3>2
    <2>5. rows[i].status = "ASSIGNED" => status'[CaseOf(i)] # "ESCALATED"
      BY <1>3, <1>4, <2>1 DEF Rowed
    <2>6. /\ status'[CaseOf(i)'] = "HUMAN_ACTIVE" =>
               rows'[i].agent = owner'[CaseOf(i)'] \/ \E q \in Calls : pc'[q] \in Writing /\ target'[q] = CaseOf(i)'
          /\ \A j \in DOMAIN rows' : CaseOf(i)' = CaseOf(j)' => i = j
          /\ rows'[i].status = "ASSIGNED" => status'[CaseOf(i)'] # "ESCALATED"
      BY <2>1, <2>2, <2>4, <2>5 DEF Rowed
    <2> QED  BY <2>3, <2>6, Zenon DEF Rowed
  <1>7. ASSUME NEW c \in Cases PROVE Queues(c)'
    <2>1. Queues(c) /\ (HasRow(c)' <=> HasRow(c))
      BY DEF QueueInv, HasRow, CaseOf
    <2>2. (\E q \in Calls : pc[q] \in Escalated /\ target[q] = c)
            => \E q \in Calls : pc'[q] \in Escalated /\ target'[q] = c
      BY <1>0 DEF Alike
    <2>3. CASE c = target[p]
      BY <1>2, <1>4, <2>1, <2>3 DEF Queues
    <2>4. CASE c # target[p]
      BY <1>3, <2>1, <2>2, <2>4 DEF Queues
    <2> QED  BY <2>3, <2>4
  <1> QED  BY <1>5, <1>6, <1>7 DEF QueueInv

\* The case is completed.
LEMMA CompleteQueue ==
    ASSUME Inv, QueueInv, NEW p \in Calls, Alike(p),
           UNCHANGED <<owner, automation, rows>>,
           pc[p] = "complete_shift",
           status' = [status EXCEPT ![target[p]] = "COMPLETED"],
           \A c \in Cases \ {target[p]} : version'[c] = version[c],
           Called(p)', OneServes'
    PROVE  QueueInv'
  <1>0. pc[p] \notin Writing /\ pc[p] \notin Escalated /\ target[p] \in Cases
    BY Parts DEF Writing, Escalated
  <1>3. \A c \in Cases \ {target[p]} : status'[c] = status[c]
    BY Parts
  <1>4. status'[target[p]] = "COMPLETED"
    BY <1>0, Parts
  <1>5. ASSUME NEW q \in Calls \ {p} PROVE Called(q)'
    <2>1. Called(q) /\ target[q] \in Cases /\ \A i \in local[q].todo : rows[i].case \in Cases
      BY Parts DEF QueueInv, CaseOf
    <2>2. pc[q] = "esc_create" => ~automation'[target[q]]
      BY <2>1, Zenon DEF Called
    <2>6. /\ pc[q] \in Opening => \A i \in DOMAIN rows' : rows'[i].case # target[q]
          /\ \A i \in DOMAIN rows : i \in DOMAIN rows' /\ rows'[i].case = rows[i].case
      BY <2>1 DEF Called, HasRow, CaseOf
    <2>7. /\ status'[target[q]] = "ESCALATED" => status[target[q]] = "ESCALATED"
          /\ \/ status'[target[q]] = "COMPLETED"
             \/ version'[target[q]] = version[target[q]] /\ status'[target[q]] = status[target[q]]
          /\ \A i \in local[q].todo :
                status'[rows[i].case] = "HUMAN_ACTIVE" => status[rows[i].case] = "HUMAN_ACTIVE"
      BY <1>3, <1>4, <2>1
    <2>9. Harmless(q)
      BY <2>2, <2>6, <2>7 DEF Harmless
    <2> QED  BY <2>1, <2>9, OthersCalled
  <1>6. ASSUME NEW i \in DOMAIN rows PROVE Rowed(i)'
    <2>1. Rowed(i) /\ CaseOf(i) \in Cases
      BY Parts DEF QueueInv
    <2>2. CaseOf(i)' = CaseOf(i) /\ \A j \in DOMAIN rows : CaseOf(j)' = CaseOf(j)
      BY DEF CaseOf
    <2>3. ~automation'[CaseOf(i)']
      BY <2>1, <2>2, Zenon DEF Rowed
    <2>4. status'[CaseOf(i)] \in {"ESCALATED", "HUMAN_ACTIVE"} => status'[CaseOf(i)] = status[CaseOf(i)]
      BY <1>3, <1>4, <2>1
    <2>5. status[CaseOf(i)] = "HUMAN_ACTIVE" =>
             rows[i].agent = owner[CaseOf(i)] \/ \E q \in Calls : pc'[q] \in Writing /\ target'[q] = CaseOf(i)
      BY <1>0, <2>1 DEF Rowed, Alike
    <2>6. /\ status'[CaseOf(i)'] = "HUMAN_ACTIVE" =>
               rows'[i].agent = owner'[CaseOf(i)'] \/ \E q \in Calls : pc'[q] \in Writing /\ target'[q] = CaseOf(i)'
          /\ \A j \in DOMAIN rows' : CaseOf(i)' = CaseOf(j)' => i = j
          /\ rows'[i].status = "ASSIGNED" => status'[CaseOf(i)'] # "ESCALATED"
      BY <2>1, <2>2, <2>4, <2>5 DEF Rowed
    <2> QED  BY <2>3, <2>6, Zenon DEF Rowed
  <1>7. ASSUME NEW c \in Cases PROVE Queues(c)'
    <2>1. Queues(c) /\ (HasRow(c)' <=> HasRow(c))
      BY DEF QueueInv, HasRow, CaseOf
    <2>2. (\E q \in Calls : pc[q] \in Escalated /\ target[q] = c)
            => \E q \in Calls : pc'[q] \in Escalated /\ target'[q] = c
      BY <1>0 DEF Alike
    <2>3. status'[c] \in {"ESCALATED", "HUMAN_ACTIVE"} => status'[c] = status[c]
      BY <1>3, <1>4
    <2> QED  BY <2>1, <2>2, <2>3 DEF Queues
  <1> QED  BY <1>5, <1>6, <1>7 DEF QueueInv

\* The owner of a case with a row is written.
LEMMA OwnerQueue ==
    ASSUME Inv, CapInv, QueueInv, NEW p \in Calls, Alike(p),
           UNCHANGED <<status, version, automation, rows>>,
           pc[p] \in {"auto_own", "drain_own"}, NEW c \in Cases, NEW a \in Agents, HasRow(c),
           owner' = [owner EXCEPT ![c] = a], target'[p] = c,
           pc'[p] \in Writing, Called(p)', OneServes'
    PROVE  QueueInv'
  <1>0. pc[p] \in Dispatching /\ pc[p] \notin Escalated /\ pc[p] \notin Writing
    BY DEF Dispatching, Escalated, Writing
  <1>1. owner'[c] = a /\ \A d \in Cases \ {c} : owner'[d] = owner[d]
    BY Parts
  <1>2. ASSUME NEW q \in Calls \ {p} PROVE Called(q)'
    <2>1. Called(q)
      BY DEF QueueInv
    <2>2. pc[q] = "esc_create" => ~automation'[target[q]]
      BY <2>1, Zenon DEF Called
    <2>3. pc[q] \notin Writing \cup {"auto_own", "drain_own"} \cup Round \cup Handing
      BY <1>0, Alone
    <2>4. /\ pc[q] \in Opening => \A i \in DOMAIN rows' : rows'[i].case # target[q]
          /\ \A i \in DOMAIN rows : i \in DOMAIN rows' /\ rows'[i].case = rows[i].case
      BY <2>1 DEF Called, HasRow, CaseOf
    <2>5. Harmless(q)
      BY <2>2, <2>3, <2>4 DEF Harmless
    <2> QED  BY <2>1, <2>5, OthersCalled
  <1>3. ASSUME NEW i \in DOMAIN rows PROVE Rowed(i)'
    <2>1. Rowed(i) /\ CaseOf(i) \in Cases
      BY Parts DEF QueueInv
    <2>2. CaseOf(i)' = CaseOf(i) /\ \A j \in DOMAIN rows : CaseOf(j)' = CaseOf(j)
      BY DEF CaseOf
    <2>3. ~automation'[CaseOf(i)']
      BY <2>1, <2>2, Zenon DEF Rowed
    <2>4. status[CaseOf(i)] = "HUMAN_ACTIVE" =>
             rows[i].agent = owner'[CaseOf(i)] \/ \E q \in Calls : pc'[q] \in Writing /\ target'[q] = CaseOf(i)
      <3>1. CASE CaseOf(i) = c
        BY <3>1
      <3>2. CASE CaseOf(i) # c
        BY <1>0, <1>1, <2>1, <3>2 DEF Rowed, Alike
      <3> QED  BY <3>1, <3>2
    <2>5. /\ status'[CaseOf(i)'] = "HUMAN_ACTIVE" =>
               rows'[i].agent = owner'[CaseOf(i)'] \/ \E q \in Calls : pc'[q] \in Writing /\ target'[q] = CaseOf(i)'
          /\ \A j \in DOMAIN rows' : CaseOf(i)' = CaseOf(j)' => i = j
          /\ rows'[i].status = "ASSIGNED" => status'[CaseOf(i)'] # "ESCALATED"
      BY <2>1, <2>2, <2>4 DEF Rowed
    <2> QED  BY <2>3, <2>5, Zenon DEF Rowed
  <1>4. ASSUME NEW d \in Cases PROVE Queues(d)'
    <2>1. Queues(d) /\ (HasRow(d)' <=> HasRow(d))
      BY DEF QueueInv, HasRow, CaseOf
    <2>2. (\E q \in Calls : pc[q] \in Escalated /\ target[q] = d)
            => \E q \in Calls : pc'[q] \in Escalated /\ target'[q] = d
      BY <1>0 DEF Alike
    <2>3. owner[d] \in Agents => owner'[d] \in Agents
      BY <1>1
    <2> QED  BY <2>1, <2>2, <2>3 DEF Queues
  <1> QED  BY <1>2, <1>3, <1>4 DEF QueueInv

\* The row of a case that is handed over is assigned.
LEMMA RowQueue ==
    ASSUME Inv, CapInv, QueueInv, NEW p \in Calls, Alike(p),
           pc[p] \in {"auto_row", "drain_row"}, target'[p] = target[p],
           UpdateRow({local[p].row}, "ASSIGNED", actor[p]),
           pc'[p] \notin Escalated, Called(p)', OneServes'
    PROVE  QueueInv'
  <1> DEFINE k == local[p].row
  <1>0. /\ pc[p] \in Dispatching /\ pc[p] \in Writing /\ pc[p] \in Naming /\ pc[p] \notin Escalated
        /\ Called(p) /\ target[p] \in Cases
    BY Parts DEF Dispatching, Escalated, Writing, Naming, QueueInv
  <1>1. /\ k \in DOMAIN rows /\ CaseOf(k) = target[p] /\ owner[target[p]] = actor[p]
        /\ status[target[p]] # "ESCALATED"
    BY <1>0 DEF Called
  <1>2. /\ UNCHANGED <<status, version, owner, automation>> /\ DOMAIN rows' = DOMAIN rows
        /\ \A i \in DOMAIN rows : rows'[i].case = rows[i].case
        /\ \A i \in DOMAIN rows \ {k} : rows'[i] = rows[i]
        /\ rows'[k].status = "ASSIGNED" /\ rows'[k].agent = actor[p]
    <2>1. /\ UNCHANGED <<status, version, owner, automation>>
          /\ rows' = [i \in DOMAIN rows |->
                        IF i \in {k} THEN [rows[i] EXCEPT !.status = "ASSIGNED", !.agent = actor[p]]
                        ELSE rows[i]]
      BY DEF UpdateRow
    <2>2. \A i \in DOMAIN rows : rows[i] \in Row
      BY Parts
    <2> HIDE DEF k
    <2> QED  BY <1>1, <2>1, <2>2 DEF Row
  <1> HIDE DEF k
  <1>3. ASSUME NEW q \in Calls \ {p} PROVE Called(q)'
    <2>1. Called(q)
      BY DEF QueueInv
    <2>2. pc[q] = "esc_create" => ~automation'[target[q]]
      BY <1>2, <2>1, Zenon DEF Called
    <2>4. /\ pc[q] \in Opening => \A i \in DOMAIN rows' : rows'[i].case # target[q]
          /\ \A i \in DOMAIN rows : i \in DOMAIN rows' /\ rows'[i].case = rows[i].case
      BY <1>2, <2>1 DEF Called, HasRow, CaseOf
    <2>5. Harmless(q)
      BY <1>2, <2>2, <2>4 DEF Harmless
    <2> QED  BY <2>1, <2>5, OthersCalled
  <1>4. ASSUME NEW i \in DOMAIN rows PROVE Rowed(i)'
    <2>1. Rowed(i) /\ Rowed(k) /\ CaseOf(i) \in Cases
      BY <1>1, Parts DEF QueueInv
    <2>2. CaseOf(i)' = CaseOf(i) /\ \A j \in DOMAIN rows : CaseOf(j)' = CaseOf(j)
      BY <1>2 DEF CaseOf
    <2>3. ~automation'[CaseOf(i)']
      BY <1>2, <2>1, <2>2, Zenon DEF Rowed
    <2>4. status[CaseOf(i)] = "HUMAN_ACTIVE" =>
             rows'[i].agent = owner[CaseOf(i)] \/ \E q \in Calls : pc'[q] \in Writing /\ target'[q] = CaseOf(i)
      <3>1. CASE i = k
        BY <1>1, <1>2, <3>1
      <3>2. CASE i # k
        <4>1. CaseOf(i) # target[p]
          BY <1>1, <2>1, <3>2 DEF Rowed
        <4> QED  BY <1>2, <2>1, <3>2, <4>1 DEF Rowed, Alike
      <3> QED  BY <3>1, <3>2
    <2>5. rows'[i].status = "ASSIGNED" => status[CaseOf(i)] # "ESCALATED"
      BY <1>1, <1>2, <2>1 DEF Rowed
    <2>6. /\ status'[CaseOf(i)'] = "HUMAN_ACTIVE" =>
               rows'[i].agent = owner'[CaseOf(i)'] \/ \E q \in Calls : pc'[q] \in Writing /\ target'[q] = CaseOf(i)'
          /\ \A j \in DOMAIN rows' : CaseOf(i)' = CaseOf(j)' => i = j
          /\ rows'[i].status = "ASSIGNED" => status'[CaseOf(i)'] # "ESCALATED"
      BY <1>2, <2>1, <2>2, <2>4, <2>5 DEF Rowed
    <2> QED  BY <2>3, <2>6, Zenon DEF Rowed
  <1>5. ASSUME NEW c \in Cases PROVE Queues(c)'
    <2>1. Queues(c) /\ (HasRow(c)' <=> HasRow(c))
      BY <1>2 DEF QueueInv, HasRow, CaseOf
    <2>2. (\E q \in Calls : pc[q] \in Escalated /\ target[q] = c)
            => \E q \in Calls : pc'[q] \in Escalated /\ target'[q] = c
      BY <1>0 DEF Alike
    <2> QED  BY <1>2, <2>1, <2>2 DEF Queues
  <1> QED  BY <1>2, <1>3, <1>4, <1>5 DEF QueueInv

\* The row of an escalated case is created.
LEMMA CreateQueue ==
    ASSUME Inv, QueueInv, NEW p \in Calls, Alike(p),
           UNCHANGED <<status, version, owner, automation>>,
           pc[p] = "esc_create", target'[p] = target[p],
           rows' = Append(rows, Pending(target[p])),
           Called(p)', OneServes'
    PROVE  QueueInv'
  <1> PICK n : n = Len(rows) + 1
    OBVIOUS
  <1>0. /\ pc[p] \in Opening /\ pc[p] \notin Writing /\ Called(p) /\ target[p] \in Cases /\ ~HasRow(target[p])
        /\ rows \in Seq(Row)
    BY Parts DEF Opening, Writing, QueueInv, Called
  <1>1. /\ DOMAIN rows' = DOMAIN rows \cup {n} /\ n \notin DOMAIN rows
        /\ \A i \in DOMAIN rows : rows'[i] = rows[i]
        /\ rows'[n] = Pending(target[p])
    BY <1>0
  <1>2. rows'[n].case = target[p] /\ rows'[n].status = "PENDING"
    BY <1>1 DEF Pending
  <1>3. \A i \in DOMAIN rows : CaseOf(i) # target[p]
    BY <1>0 DEF HasRow
  <1>4. \A i \in DOMAIN rows : rows'[i].case = CaseOf(i)
    BY <1>1 DEF CaseOf
  <1>5. ASSUME NEW q \in Calls \ {p} PROVE Called(q)'
    <2>1. Called(q)
      BY DEF QueueInv
    <2>2. pc[q] = "esc_create" => ~automation'[target[q]]
      BY <2>1, Zenon DEF Called
    <2>3. pc[q] \in Opening => target[q] # target[p]
      BY <1>0 DEF QueueInv, OneServes
    <2>4. pc[q] \in Opening => \A i \in DOMAIN rows' : rows'[i].case # target[q]
      BY <1>1, <1>2, <1>4, <2>1, <2>3 DEF Called, HasRow
    <2>5. \A i \in DOMAIN rows : i \in DOMAIN rows' /\ rows'[i].case = rows[i].case
      BY <1>1
    <2>6. Harmless(q)
      BY <2>2, <2>4, <2>5 DEF Harmless
    <2> QED  BY <2>1, <2>6, OthersCalled
  <1>6. ASSUME NEW i \in DOMAIN rows PROVE Rowed(i)'
    <2>1. Rowed(i) /\ CaseOf(i) \in Cases
      BY Parts DEF QueueInv
    <2>2. CaseOf(i)' = CaseOf(i) /\ rows'[i] = rows[i] /\ CaseOf(n)' = target[p]
          /\ \A j \in DOMAIN rows : CaseOf(j)' = CaseOf(j)
      BY <1>1, <1>2 DEF CaseOf
    <2>3. ~automation'[CaseOf(i)']
      BY <2>1, <2>2, Zenon DEF Rowed
    <2>4. status[CaseOf(i)] = "HUMAN_ACTIVE" =>
             rows[i].agent = owner[CaseOf(i)] \/ \E q \in Calls : pc'[q] \in Writing /\ target'[q] = CaseOf(i)
      BY <1>0, <2>1 DEF Rowed, Alike
    <2>5. /\ status'[CaseOf(i)'] = "HUMAN_ACTIVE" =>
               rows'[i].agent = owner'[CaseOf(i)'] \/ \E q \in Calls : pc'[q] \in Writing /\ target'[q] = CaseOf(i)'
          /\ rows'[i].status = "ASSIGNED" => status'[CaseOf(i)'] # "ESCALATED"
      BY <2>1, <2>2, <2>4 DEF Rowed
    <2>6. \A j \in DOMAIN rows' : CaseOf(i)' = CaseOf(j)' => i = j
      BY <1>1, <1>3, <2>1, <2>2 DEF Rowed
    <2> QED  BY <2>3, <2>5, <2>6, Zenon DEF Rowed
  <1>7. Rowed(n)'
    <2>1. CaseOf(n)' = target[p]
      BY <1>2 DEF CaseOf
    <2>2. ~automation'[CaseOf(n)']
      BY <1>0, <2>1, Zenon DEF Called
    <2>3. status'[CaseOf(n)'] # "HUMAN_ACTIVE"
      BY <1>0, <2>1 DEF QueueInv, Queues
    <2>4. \A j \in DOMAIN rows' : CaseOf(n)' = CaseOf(j)' => n = j
      BY <1>1, <1>3, <1>4, <2>1 DEF CaseOf
    <2>5. rows'[n].status # "ASSIGNED"
      BY <1>2
    <2> QED  BY <2>2, <2>3, <2>4, <2>5, Zenon DEF Rowed
  <1>8. ASSUME NEW c \in Cases PROVE Queues(c)'
    <2>1. Queues(c) /\ (HasRow(c) => HasRow(c)')
      BY <1>1 DEF QueueInv, HasRow, CaseOf
    <2>2. c = target[p] => HasRow(c)'
      BY <1>1, <1>2 DEF HasRow, CaseOf
    <2>3. c # target[p] => ((\E q \in Calls : pc[q] \in Escalated /\ target[q] = c)
            => \E q \in Calls : pc'[q] \in Escalated /\ target'[q] = c)
      BY DEF Alike
    <2>4. c = target[p] => status[c] # "HUMAN_ACTIVE"
      BY <1>0 DEF QueueInv, Queues
    <2> QED  BY <2>1, <2>2, <2>3, <2>4 DEF Queues
  <1>9. \A i \in DOMAIN rows' : Rowed(i)'
    BY <1>1, <1>6, <1>7
  <1> QED  BY <1>5, <1>8, <1>9 DEF QueueInv

-----------------------------------------------------------------------------
(* The calls *)

Plain == Over \cup {"drain_roster", "drain_load", "drain_fetch", "complete_read", "complete_shift"}

LEMMA GotoAlike ==
    ASSUME Inv, NEW p \in Calls, NEW l, Goto(p, l),
           UNCHANGED op \/ \E x : op' = [op EXCEPT ![p] = x],
           UNCHANGED target \/ \E x : target' = [target EXCEPT ![p] = x],
           UNCHANGED actor \/ \E x : actor' = [actor EXCEPT ![p] = x],
           UNCHANGED snap \/ \E x : snap' = [snap EXCEPT ![p] = x],
           UNCHANGED local \/ \E x : local' = [local EXCEPT ![p] = x]
    PROVE  Alike(p) /\ pc'[p] = l
  <1>1. pc'[p] = l /\ \A q \in Calls \ {p} : pc'[q] = pc[q]
    BY Parts DEF Goto
  <1>2. \A q \in Calls \ {p} : op'[q] = op[q]
    BY Parts
  <1>3. \A q \in Calls \ {p} : target'[q] = target[q]
    BY Parts
  <1>4. \A q \in Calls \ {p} : actor'[q] = actor[q]
    BY Parts
  <1>5. \A q \in Calls \ {p} : snap'[q] = snap[q]
    BY Parts
  <1>6. \A q \in Calls \ {p} : local'[q] = local[q]
    BY Parts
  <1> QED  BY <1>1, <1>2, <1>3, <1>4, <1>5, <1>6 DEF Alike

\* A call goes to a statement before which it relies on nothing.
LEMMA PlainQueue ==
    ASSUME Inv, QueueInv, NEW p \in Calls, Alike(p), UNCHANGED <<status, version, owner, rows>>,
           \A c \in Cases : automation'[c] => automation[c], pc'[p] \in Plain,
           pc[p] \notin Escalated,
           pc[p] \in Writing => status[target[p]] # "HUMAN_ACTIVE"
    PROVE  QueueInv'
  <1>1. pc'[p] \notin Opening \cup Giving
    BY DEF Plain, Over, Opening, Giving
  <1>2. OneServes'
    BY <1>1, StillServes DEF QueueInv
  <1>3. /\ pc'[p] \in Reached /\ pc'[p] \notin Opening \cup Giving \cup Naming \cup Writing \cup Handing
        /\ pc'[p] \notin {"esc_create", "esc_find", "esc_silence", "auto_pick", "auto_own", "auto_shift",
                           "drain_shift", "auto_row", "drain_row", "drain_own"}
    BY DEF Plain, Over, Reached, Round, Opening, Giving, Naming, Writing, Handing
  <1>4. Called(p)'
    BY <1>3 DEF Called
  <1> QED  BY <1>2, <1>4, MoveQueue

LEMMA ReadIs ==
    ASSUME Inv, NEW p \in Calls, NEW l, Read(p), Goto(p, l)
    PROVE  /\ Alike(p) /\ pc'[p] = l
           /\ UNCHANGED <<status, version, owner, automation, rows, connected, op, target, actor, local>>
           /\ snap'[p].status = status[target[p]] /\ snap'[p].version = version[target[p]]
  <1>1. /\ UNCHANGED <<status, version, owner, automation, rows, connected, op, target, actor, local>>
        /\ snap' = [snap EXCEPT ![p] = Snapshot(target[p])]
    BY DEF Read, tables
  <1>2. snap'[p] = Snapshot(target[p])
    BY <1>1, Parts
  <1>3. snap'[p].status = status[target[p]] /\ snap'[p].version = version[target[p]]
    BY <1>2 DEF Snapshot
  <1>4. Alike(p) /\ pc'[p] = l
    BY <1>1, GotoAlike
  <1> QED  BY <1>1, <1>3, <1>4

LEMMA ShiftIs ==
    ASSUME Inv, NEW p \in Calls, NEW st, NEW l, Transition(p, st, l)
    PROVE  /\ UNCHANGED <<owner, automation, rows, connected, op, target, actor, local>> /\ Alike(p)
           /\ \/ /\ snap[p].version = version[target[p]] /\ pc'[p] = l /\ Goto(p, l)
                 /\ status' = [status EXCEPT ![target[p]] = st]
                 /\ \A c \in Cases \ {target[p]} : version'[c] = version[c]
                 /\ snap'[p].status = st
              \/ /\ snap[p].version # version[target[p]] /\ pc'[p] = "failed" /\ Goto(p, "failed")
                 /\ UNCHANGED <<status, version, snap>>
  <1>1. UNCHANGED <<owner, automation, rows, connected, op, target, actor, local>>
    BY DEF Transition
  <1>2. CASE snap[p].version = version[target[p]]
    <2>1. /\ status' = [status EXCEPT ![target[p]] = st]
          /\ version' = [version EXCEPT ![target[p]] = @ + 1]
          /\ snap' = [snap EXCEPT ![p] = [status |-> st, version |-> version[target[p]] + 1,
                                          owner |-> owner[target[p]]]]
          /\ Goto(p, l)
      BY <1>2 DEF Transition
    <2>2. snap'[p].status = st
      BY <2>1, Parts
    <2>3. \A c \in Cases \ {target[p]} : version'[c] = version[c]
      BY <2>1, Parts
    <2> QED  BY <1>1, <1>2, <2>1, <2>2, <2>3, GotoAlike
  <1>3. CASE snap[p].version # version[target[p]]
    <2>1. Goto(p, "failed") /\ UNCHANGED <<status, version, snap>>
      BY <1>3 DEF Transition
    <2> QED  BY <1>1, <1>3, <2>1, GotoAlike
  <1> QED  BY <1>2, <1>3

\* A transition that came too late.
LEMMA LateQueue ==
    ASSUME Inv, QueueInv, NEW p \in Calls, Alike(p), pc'[p] = "failed",
           pc[p] \in {"esc_shift", "adv_shift", "auto_shift", "drain_shift", "complete_shift"},
           snap[p].version # version[target[p]],
           UNCHANGED <<status, version, owner, automation, rows>>
    PROVE  QueueInv'
  <1>1. pc[p] \notin Escalated
    BY DEF Escalated
  <1>2. pc[p] \in Writing => status[target[p]] # "HUMAN_ACTIVE"
    BY DEF QueueInv, Called, Writing
  <1>3. pc'[p] \in Plain
    BY DEF Plain, Over
  <1> QED  BY <1>1, <1>2, <1>3, PlainQueue

LEMMA SilenceIs ==
    ASSUME Inv, NEW p \in Calls, SetAutomation(p, FALSE)
    PROVE  /\ UNCHANGED <<status, version, owner, rows, connected, op, target, snap>>
           /\ ~automation'[target[p]] /\ \A c \in Cases : automation'[c] => automation[c]
  <1>1. /\ UNCHANGED <<status, version, owner, rows, connected, op, target, snap>>
        /\ automation' = [automation EXCEPT ![target[p]] = FALSE]
    BY DEF SetAutomation
  <1>2. automation \in [Cases -> BOOLEAN] /\ target[p] \in Cases
    BY Parts DEF Inv, TypeOK, TableTypes
  <1>3. ~automation'[target[p]]
    BY <1>1, <1>2
  <1>4. \A c \in Cases : automation'[c] => automation[c]
    BY <1>1, <1>2
  <1> QED  BY <1>1, <1>3, <1>4

\* No escalation has yet a row to find.
LEMMA NoRowYet ==
    ASSUME Inv, QueueInv, NEW p \in Calls, pc[p] \in Opening
    PROVE  /\ op[p] \in ByAutomation /\ ~HasRow(target[p]) /\ RowsOf(target[p]) = {}
           /\ status[target[p]] # "HUMAN_ACTIVE" /\ pc[p] \notin Writing
  <1>1. op[p] \in ByAutomation /\ ~HasRow(target[p]) /\ target[p] \in Cases
    BY Parts DEF QueueInv, Called
  <1>2. RowsOf(target[p]) = {}
    BY <1>1 DEF RowsOf, HasRow, CaseOf
  <1>3. status[target[p]] # "HUMAN_ACTIVE"
    BY <1>1 DEF QueueInv, Queues
  <1> QED  BY <1>1, <1>2, <1>3 DEF Opening, Writing

\* It goes to its next statement before the row.
LEMMA OpeningQueue ==
    ASSUME Inv, QueueInv, NEW p \in Calls, pc[p] \in Opening, Alike(p), pc'[p] \in Opening,
           UNCHANGED <<op, target, status, version, owner, rows>>,
           \A c \in Cases : automation'[c] => automation[c],
           pc[p] \in Escalated => pc'[p] \in Escalated,
           pc'[p] = "esc_create" => ~automation'[target[p]],
           pc'[p] = "esc_find" => snap'[p].status # "HUMAN_ACTIVE",
           pc'[p] \in {"esc_silence", "esc_create"} /\ snap'[p].status # "ESCALATED" =>
               status[target[p]] # "ESCALATED"
    PROVE  QueueInv'
  <1>1. op[p] \in ByAutomation /\ ~HasRow(target[p]) /\ pc[p] \notin Writing
    BY NoRowYet
  <1>2. OneServes'
    BY StillServes DEF QueueInv
  <1>3. /\ pc'[p] \in Reached /\ pc'[p] \notin Naming \cup Writing \cup Handing
        /\ pc'[p] \notin {"auto_pick", "auto_own", "auto_shift", "drain_shift", "auto_row", "drain_row", "drain_own"}
    BY DEF Opening, Reached, Naming, Writing, Handing
  <1>4. ~HasRow(target[p])'
    BY <1>1 DEF HasRow, CaseOf
  <1>5. Called(p)'
    BY <1>1, <1>3, <1>4, Zenon DEF Called
  <1> QED  BY <1>1, <1>2, <1>5, MoveQueue

LEMMA EscalationQueue ==
    ASSUME Inv, QueueInv, NEW p \in Calls,
           EscRead(p) \/ EscFind(p) \/ EscShift(p) \/ EscSilence(p) \/ EscCreate(p)
           \/ AdvRead(p) \/ AdvShift(p) \/ AdvSilence(p) \/ EnsureFind(p)
    PROVE  QueueInv'
  <1>0. /\ pc[p] \in Opening
        /\ op[p] \in ByAutomation /\ ~HasRow(target[p]) /\ RowsOf(target[p]) = {}
        /\ status[target[p]] # "HUMAN_ACTIVE" /\ Called(p)
    <2>1. pc[p] \in Opening
      BY DEF EscRead, EscFind, EscShift, EscSilence, EscCreate, AdvRead, AdvShift, AdvSilence, EnsureFind,
             At, Opening
    <2> QED  BY <2>1, NoRowYet DEF QueueInv
  <1>1. CASE EscRead(p)
    <2>1. Read(p) /\ Goto(p, "esc_find") /\ pc[p] = "esc_read"
      BY <1>1 DEF EscRead, At
    <2>2. /\ Alike(p) /\ pc'[p] = "esc_find" /\ snap'[p].status = status[target[p]]
          /\ UNCHANGED <<status, version, owner, automation, rows, op, target>>
      BY <2>1, ReadIs
    <2> QED  BY <1>0, <2>1, <2>2, OpeningQueue DEF Opening, Escalated
  <1>2. CASE EscFind(p)
    <2>1. /\ pc[p] = "esc_find" /\ UNCHANGED <<status, version, owner, automation, rows, op, target, actor, snap, local>>
      BY <1>2 DEF EscFind, At, tables
    <2>2. snap[p].status # "HUMAN_ACTIVE"
      BY <1>0, <2>1 DEF Called
    <2>3. CASE snap[p].status = "ESCALATED"
      <3>1. Goto(p, "esc_silence")
        BY <1>0, <1>2, <2>3 DEF EscFind
      <3>2. Alike(p) /\ pc'[p] = "esc_silence"
        BY <2>1, <3>1, GotoAlike
      <3> QED  BY <1>0, <2>1, <2>3, <3>2, OpeningQueue DEF Opening, Escalated
    <2>4. CASE snap[p].status # "ESCALATED"
      <3>1. Goto(p, "esc_shift")
        BY <1>0, <1>2, <2>2, <2>4 DEF EscFind
      <3>2. Alike(p) /\ pc'[p] = "esc_shift"
        BY <2>1, <3>1, GotoAlike
      <3> QED  BY <1>0, <2>1, <3>2, OpeningQueue DEF Opening, Escalated
    <2> QED  BY <2>3, <2>4
  <1>3. CASE EscShift(p)
    <2>1. Transition(p, "ESCALATED", "esc_silence") /\ pc[p] = "esc_shift"
      BY <1>3 DEF EscShift, At
    <2>2. /\ UNCHANGED <<owner, automation, rows, op, target>> /\ Alike(p)
      BY <2>1, ShiftIs
    <2>3. CASE snap[p].version = version[target[p]]
      <3>1. /\ pc'[p] = "esc_silence" /\ status' = [status EXCEPT ![target[p]] = "ESCALATED"]
            /\ \A c \in Cases \ {target[p]} : version'[c] = version[c]
            /\ snap'[p].status = "ESCALATED"
        BY <2>1, <2>3, ShiftIs
      <3>2. OneServes'
        BY <1>0, <2>2, <3>1, StillServes DEF QueueInv, Opening
      <3>3. ~HasRow(target[p])'
        BY <1>0, <2>2 DEF HasRow, CaseOf
      <3>4. pc'[p] \in Opening \cap Escalated \cap Reached /\ pc'[p] \notin Naming \cup Writing \cup Handing
        BY <3>1 DEF Opening, Escalated, Reached, Naming, Writing, Handing
      <3>5. Called(p)'
        BY <1>0, <2>2, <3>1, <3>3, <3>4 DEF Called
      <3>6. "ESCALATED" \in Statuses \ {"HUMAN_ACTIVE"}
        BY DEF Statuses
      <3> QED  BY <2>1, <2>2, <3>1, <3>2, <3>4, <3>5, <3>6, OpenQueue
    <2>4. CASE snap[p].version # version[target[p]]
      BY <2>1, <2>2, <2>4, ShiftIs, LateQueue
    <2> QED  BY <2>3, <2>4
  <1>4. CASE EscSilence(p)
    <2>1. SetAutomation(p, FALSE) /\ Goto(p, "esc_create") /\ UNCHANGED <<actor, local>> /\ pc[p] = "esc_silence"
      BY <1>4 DEF EscSilence, At
    <2>2. /\ UNCHANGED <<status, version, owner, rows, op, target, snap>>
          /\ ~automation'[target[p]] /\ \A c \in Cases : automation'[c] => automation[c]
      BY <2>1, SilenceIs
    <2>3. Alike(p) /\ pc'[p] = "esc_create"
      BY <2>1, <2>2, GotoAlike
    <2>4. snap'[p].status # "ESCALATED" => status[target[p]] # "ESCALATED"
      BY <1>0, <2>1, <2>2 DEF Called
    <2>5. pc'[p] \in Opening /\ pc'[p] \in Escalated /\ pc'[p] # "esc_find"
      BY <2>3 DEF Opening, Escalated
    <2> QED  BY <1>0, <2>2, <2>3, <2>4, <2>5, OpeningQueue, Zenon
  <1>5. CASE EscCreate(p)
    <2>1. /\ pc[p] = "esc_create" /\ Goto(p, "auto_pick") /\ rows' = Append(rows, Pending(target[p]))
          /\ local' = [local EXCEPT ![p].row = Len(rows) + 1]
          /\ UNCHANGED <<status, version, owner, automation, op, target, actor, snap>>
      BY <1>5 DEF EscCreate, At
    <2>2. Alike(p) /\ pc'[p] = "auto_pick"
      BY <2>1, GotoAlike
    <2>3. OneServes'
      BY <1>0, <2>1, <2>2, StillServes DEF QueueInv, Giving
    <2>4. local'[p].row \in DOMAIN rows' /\ rows'[local'[p].row].case = target[p]
      <3>1. local'[p].row = Len(rows) + 1
        BY <2>1, Parts DEF LocalRecord
      <3>2. rows \in Seq(Row)
        BY Parts
      <3>3. Len(rows) + 1 \in DOMAIN rows' /\ rows'[Len(rows) + 1] = Pending(target[p])
        BY <2>1, <3>2
      <3> QED  BY <3>1, <3>3 DEF Pending
    <2>5. /\ pc'[p] \in Reached /\ pc'[p] \notin Opening \cup Writing \cup Handing
      BY <2>2 DEF Opening, Reached, Giving, Writing, Handing
    <2>6. snap[p].status # "ESCALATED" => status[target[p]] # "ESCALATED"
      BY <1>0, <2>1 DEF Called
    <2>7. Called(p)'
      BY <1>0, <2>1, <2>2, <2>4, <2>5, <2>6 DEF Called, CaseOf
    <2> QED  BY <2>1, <2>2, <2>3, <2>7, CreateQueue
  <1>6. CASE AdvRead(p)
    <2>1. Read(p) /\ Goto(p, "adv_shift") /\ pc[p] = "adv_read"
      BY <1>6 DEF AdvRead, At
    <2>2. /\ Alike(p) /\ pc'[p] = "adv_shift"
          /\ UNCHANGED <<status, version, owner, automation, rows, op, target>>
      BY <2>1, ReadIs
    <2> QED  BY <1>0, <2>1, <2>2, OpeningQueue DEF Opening, Escalated
  <1>7. CASE AdvShift(p)
    <2> DEFINE next(st) == IF st = "ESCALATED" THEN "adv_silence" ELSE "done"
    <2>1. PICK st \in Automatable \cup {"COMPLETED", "ESCALATED"} : Transition(p, st, next(st))
      BY <1>7 DEF AdvShift
    <2>2. /\ pc[p] = "adv_shift" /\ UNCHANGED <<owner, automation, rows, op, target>> /\ Alike(p)
      BY <1>7, <2>1, ShiftIs DEF AdvShift, At
    <2>3. CASE snap[p].version = version[target[p]]
      <3>1. /\ pc'[p] = next(st) /\ status' = [status EXCEPT ![target[p]] = st]
            /\ \A c \in Cases \ {target[p]} : version'[c] = version[c]
        BY <2>1, <2>3, ShiftIs
      <3>2. pc'[p] = (IF st = "ESCALATED" THEN "adv_silence" ELSE "done")
        BY <3>1
      <3>3. OneServes'
        BY <1>0, <2>2, <3>2, StillServes DEF QueueInv, Opening
      <3>4. ~HasRow(target[p])'
        BY <1>0, <2>2 DEF HasRow, CaseOf
      <3>5. /\ pc'[p] \in Reached /\ pc'[p] \notin Naming \cup Writing \cup Handing \cup Giving
            /\ pc'[p] \in {"adv_silence", "done"} /\ (st = "ESCALATED" => pc'[p] \in Escalated)
        BY <3>2 DEF Opening, Over, Escalated, Reached, Naming, Writing, Handing, Giving
      <3>6. Called(p)'
        BY <1>0, <2>2, <3>4, <3>5 DEF Called
      <3>7. st \in Statuses \ {"HUMAN_ACTIVE"}
        BY DEF Statuses, Automatable, Closed
      <3> QED  BY <2>2, <3>1, <3>3, <3>5, <3>6, <3>7, OpenQueue
    <2>4. CASE snap[p].version # version[target[p]]
      BY <2>1, <2>2, <2>4, ShiftIs, LateQueue
    <2> QED  BY <2>3, <2>4
  <1>8. CASE AdvSilence(p)
    <2>1. SetAutomation(p, FALSE) /\ Goto(p, "ens_find") /\ UNCHANGED <<actor, local>> /\ pc[p] = "adv_silence"
      BY <1>8 DEF AdvSilence, At
    <2>2. /\ UNCHANGED <<status, version, owner, rows, op, target, snap>>
          /\ \A c \in Cases : automation'[c] => automation[c]
      BY <2>1, SilenceIs
    <2>3. Alike(p) /\ pc'[p] = "ens_find"
      BY <2>1, <2>2, GotoAlike
    <2>4. pc'[p] \in Opening /\ pc'[p] \in Escalated /\ pc'[p] \notin {"esc_find", "esc_silence", "esc_create"}
      BY <2>3 DEF Opening, Escalated
    <2> QED  BY <1>0, <2>2, <2>3, <2>4, OpeningQueue, Zenon
  <1>9. CASE EnsureFind(p)
    <2>1. Read(p) /\ Goto(p, "esc_silence") /\ pc[p] = "ens_find"
      BY <1>0, <1>9 DEF EnsureFind, At
    <2>2. /\ Alike(p) /\ pc'[p] = "esc_silence" /\ snap'[p].status = status[target[p]]
          /\ UNCHANGED <<status, version, owner, automation, rows, op, target>>
      BY <2>1, ReadIs
    <2> QED  BY <1>0, <2>1, <2>2, OpeningQueue DEF Opening, Escalated
  <1> QED  BY <1>1, <1>2, <1>3, <1>4, <1>5, <1>6, <1>7, <1>8, <1>9

\* auto-assign-agent.service.ts, from the pick of an agent to the end.
LEMMA AutoQueue ==
    ASSUME Inv, CapInv, QueueInv, NEW p \in Calls,
           AutoPick(p) \/ AutoOwn(p) \/ AutoReread(p) \/ AutoShift(p) \/ AutoRow(p) \/ AutoSilence(p)
    PROVE  QueueInv'
  <1>0. pc[p] \in Giving /\ pc[p] \notin Escalated /\ op[p] \in ByAutomation /\ Called(p) /\ target[p] \in Cases
    <2>1. pc[p] \in Giving
      BY DEF AutoPick, AutoOwn, AutoReread, AutoShift, AutoRow, AutoSilence, At, Giving
    <2>2. pc[p] \notin Escalated
      BY <2>1 DEF Giving, Escalated
    <2> QED  BY <2>1, <2>2, Parts DEF QueueInv, Called
  <1>1. CASE AutoPick(p)
    <2> DEFINE best == LeastLoaded(connected, CurrentLoads)
    <2>1. /\ pc[p] = "auto_pick" /\ UNCHANGED <<status, version, owner, automation, rows, op, target, snap, local>>
      BY <1>1 DEF AutoPick, At, tables
    <2>2. pc[p] \notin Writing
      BY <2>1 DEF Writing
    <2>3. CASE best = {}
      <3>1. Goto(p, "done") /\ UNCHANGED actor
        BY <1>1, <2>3 DEF AutoPick
      <3>2. Alike(p) /\ pc'[p] = "done"
        BY <2>1, <3>1, GotoAlike
      <3> QED  BY <1>0, <2>1, <2>2, <3>2, PlainQueue DEF Plain, Over
    <2>4. CASE best # {}
      <3>1. PICK a \in best : actor' = [actor EXCEPT ![p] = a] /\ Goto(p, "auto_own")
        BY <1>1, <2>4, Zenon DEF AutoPick
      <3>2. Alike(p) /\ pc'[p] = "auto_own"
        BY <2>1, <3>1, GotoAlike
      <3>3. OneServes'
        BY <1>0, <2>1, <3>2, StillServes DEF QueueInv
      <3>4. local[p].row \in DOMAIN rows /\ CaseOf(local[p].row) = target[p]
        BY <1>0, <2>1 DEF Called, Naming
      <3>5. snap[p].status # "ESCALATED" => status[target[p]] # "ESCALATED"
        BY <1>0, <2>1 DEF Called
      <3>6. pc'[p] \in Reached /\ pc'[p] \notin Opening \cup Writing \cup Handing
        BY <3>2 DEF Reached, Giving, Opening, Writing, Handing
      <3>7. Called(p)'
        BY <1>0, <2>1, <3>2, <3>4, <3>5, <3>6 DEF Called, CaseOf
      <3> QED  BY <1>0, <2>1, <2>2, <3>2, <3>3, <3>7, MoveQueue
    <2> QED  BY <2>3, <2>4
  <1>2. CASE AutoOwn(p)
    <2>1. /\ pc[p] = "auto_own" /\ owner' = [owner EXCEPT ![target[p]] = actor[p]]
          /\ UNCHANGED <<status, version, automation, rows, op, target, snap, actor, local>>
      BY <1>2 DEF AutoOwn, At, SetOwner
    <2>2. actor[p] \in Agents
      BY <2>1 DEF CapInv, RoomLeft, Room, Picked, Dispatching
    <2>3. PICK l \in {"auto_reread", "auto_row"} :
             Goto(p, l) /\ (l = "auto_row" => snap[p].status # "ESCALATED")
      BY <1>2, Zenon DEF AutoOwn
    <2>4. Alike(p) /\ pc'[p] = l
      BY <2>1, <2>3, GotoAlike
    <2>5. pc'[p] \in Reached /\ pc'[p] \in Giving /\ pc'[p] \in Writing /\ pc'[p] \notin Opening \cup Handing
      BY <2>4 DEF Reached, Giving, Writing, Opening, Handing
    <2>6. OneServes'
      BY <1>0, <2>1, <2>4, <2>5, StillServes DEF QueueInv
    <2>7. local[p].row \in DOMAIN rows /\ CaseOf(local[p].row) = target[p]
      BY <1>0, <2>1 DEF Called, Naming
    <2>8. owner'[target[p]] = actor[p]
      BY <1>0, <2>1, Parts
    <2>9. l = "auto_row" => status[target[p]] # "ESCALATED"
      BY <1>0, <2>1, <2>3 DEF Called
    <2>10. Called(p)'
      BY <1>0, <2>1, <2>2, <2>4, <2>5, <2>7, <2>8, <2>9 DEF Called, CaseOf
    <2>11. HasRow(target[p])
      BY <2>7 DEF HasRow
    <2> QED  BY <1>0, <2>1, <2>2, <2>4, <2>5, <2>6, <2>10, <2>11, OwnerQueue
  <1>3. CASE AutoReread(p)
    <2>1. Read(p) /\ Goto(p, "auto_shift") /\ pc[p] = "auto_reread"
      BY <1>3 DEF AutoReread, At
    <2>2. /\ Alike(p) /\ pc'[p] = "auto_shift" /\ snap'[p].version = version[target[p]]
          /\ UNCHANGED <<status, version, owner, automation, rows, op, target, actor, local>>
      BY <2>1, ReadIs
    <2>3. /\ pc[p] \in Writing /\ pc[p] \in Naming /\ pc'[p] \in Reached /\ pc'[p] \in Writing /\ pc'[p] \in Giving
          /\ pc'[p] \notin Opening \cup Handing
      BY <2>1, <2>2 DEF Reached, Giving, Writing, Naming, Opening, Handing
    <2>4. OneServes'
      BY <1>0, <2>2, StillServes DEF QueueInv
    <2>5. Called(p)'
      BY <1>0, <2>2, <2>3 DEF Called, CaseOf, Naming
    <2> QED  BY <1>0, <2>2, <2>3, <2>4, <2>5, MoveQueue
  <1>4. CASE AutoShift(p)
    <2>1. Transition(p, "HUMAN_ACTIVE", "auto_row") /\ pc[p] = "auto_shift"
      BY <1>4 DEF AutoShift, At
    <2>2. UNCHANGED <<owner, automation, rows, op, target, actor, local>> /\ Alike(p)
      BY <2>1, ShiftIs
    <2>3. CASE snap[p].version = version[target[p]]
      <3>1. pc'[p] = "auto_row" /\ status' = [status EXCEPT ![target[p]] = "HUMAN_ACTIVE"]
        BY <2>1, <2>3, ShiftIs
      <3>2. /\ pc[p] \in Writing /\ pc[p] \in Naming /\ pc'[p] \in Reached /\ pc'[p] \in Writing /\ pc'[p] \in Giving
            /\ pc'[p] \notin Opening \cup Handing
        BY <2>1, <3>1 DEF Reached, Giving, Writing, Naming, Opening, Handing
      <3>3. OneServes'
        BY <1>0, <2>2, StillServes DEF QueueInv
      <3>4. status'[target[p]] # "ESCALATED"
        BY <1>0, <3>1, Parts
      <3>5. Called(p)'
        BY <1>0, <2>2, <3>1, <3>2, <3>4 DEF Called, CaseOf, Naming
      <3> QED  BY <2>1, <2>2, <3>1, <3>2, <3>3, <3>5, HandQueue
    <2>4. CASE snap[p].version # version[target[p]]
      BY <2>1, <2>2, <2>4, ShiftIs, LateQueue
    <2> QED  BY <2>3, <2>4
  <1>5. CASE AutoRow(p)
    <2>1. UpdateRow({local[p].row}, "ASSIGNED", actor[p]) /\ Goto(p, "auto_silence") /\ pc[p] = "auto_row"
      BY <1>5 DEF AutoRow, At
    <2>2. UNCHANGED <<op, target, actor, snap, local>>
      BY <2>1 DEF UpdateRow
    <2>3. Alike(p) /\ pc'[p] = "auto_silence"
      BY <2>1, <2>2, GotoAlike
    <2>4. OneServes'
      BY <1>0, <2>2, <2>3, StillServes DEF QueueInv
    <2>5. /\ pc'[p] \in Reached /\ pc'[p] \notin Opening \cup Naming \cup Writing \cup Handing \cup Escalated
      BY <2>3 DEF Reached, Giving, Opening, Naming, Writing, Handing, Escalated
    <2>6. Called(p)'
      BY <1>0, <2>2, <2>3, <2>5 DEF Called
    <2> QED  BY <2>1, <2>2, <2>3, <2>4, <2>5, <2>6, RowQueue
  <1>6. CASE AutoSilence(p)
    <2>1. /\ SetAutomation(p, FALSE) /\ Goto(p, "done") /\ UNCHANGED <<actor, local>>
          /\ pc[p] = "auto_silence"
      BY <1>6 DEF AutoSilence, At
    <2>2. /\ UNCHANGED <<status, version, owner, rows, op, target, snap>>
          /\ \A c \in Cases : automation'[c] => automation[c]
      BY <2>1, SilenceIs
    <2>3. Alike(p) /\ pc'[p] = "done"
      BY <2>1, <2>2, GotoAlike
    <2>4. pc'[p] \in Plain /\ pc[p] \notin Writing
      BY <2>1, <2>3 DEF Plain, Over, Writing
    <2> QED  BY <1>0, <2>2, <2>3, <2>4, PlainQueue
  <1> QED  BY <1>1, <1>2, <1>3, <1>4, <1>5, <1>6

\* drain-department-queue.service.ts.
LEMMA DrainQueue ==
    ASSUME Inv, CapInv, QueueInv, NEW p \in Calls, Drain(p)
    PROVE  QueueInv'
  <1>0. pc[p] \notin Escalated /\ pc[p] \notin Opening \cup Giving /\ Called(p) /\ target[p] \in Cases
    <2>1. pc[p] \notin Escalated /\ pc[p] \notin Opening \cup Giving
      BY DEF Drain, DrainRoster, DrainLoad, DrainFetch, DrainOwn, DrainReread, DrainShift, DrainRow,
             DrainSilence, At, Escalated, Opening, Giving
    <2> QED  BY <2>1, Parts DEF QueueInv
  <1>1. CASE DrainRoster(p)
    <2>1. /\ pc[p] = "drain_roster" /\ local' = [local EXCEPT ![p].roster = connected]
          /\ UNCHANGED <<status, version, owner, automation, rows, op, target, actor, snap>>
      BY <1>1 DEF DrainRoster, At, tables
    <2>2. PICK l \in {"done", "drain_load"} : Goto(p, l)
      BY <1>1, Zenon DEF DrainRoster
    <2>3. Alike(p) /\ pc'[p] = l
      BY <2>1, <2>2, GotoAlike
    <2>4. pc'[p] \in Plain /\ pc[p] \notin Writing
      BY <2>1, <2>3 DEF Plain, Over, Writing
    <2> QED  BY <1>0, <2>1, <2>3, <2>4, PlainQueue
  <1>2. CASE DrainLoad(p)
    <2>1. /\ pc[p] = "drain_load" /\ local' = [local EXCEPT ![p].loads = CurrentLoads]
          /\ UNCHANGED <<status, version, owner, automation, rows, op, target, actor, snap>>
      BY <1>2 DEF DrainLoad, At, tables
    <2>2. PICK l \in {"done", "drain_fetch"} : Goto(p, l)
      BY <1>2, Zenon DEF DrainLoad
    <2>3. Alike(p) /\ pc'[p] = l
      BY <2>1, <2>2, GotoAlike
    <2>4. pc'[p] \in Plain /\ pc[p] \notin Writing
      BY <2>1, <2>3 DEF Plain, Over, Writing
    <2> QED  BY <1>0, <2>1, <2>3, <2>4, PlainQueue
  <1>3. CASE DrainFetch(p)
    <2>1. PICK batch : /\ batch = {i \in PendingRows : Cardinality({j \in PendingRows : j < i}) < Capacity(p)}
                       /\ local' = [local EXCEPT ![p].todo = batch]
                       /\ Goto(p, IF batch = {} THEN "done" ELSE "drain_own")
      BY <1>3, Zenon DEF DrainFetch
    <2>2. /\ pc[p] = "drain_fetch"
          /\ UNCHANGED <<status, version, owner, automation, rows, op, target, actor, snap>>
      BY <1>3 DEF DrainFetch, At, tables
    <2>3. PICK l \in {"done", "drain_own"} : Goto(p, l)
      BY <2>1
    <2>4. Alike(p) /\ pc'[p] = l /\ pc[p] \notin Writing
      BY <2>1, <2>2, <2>3, GotoAlike DEF Writing
    <2>5. CASE l = "done"
      BY <1>0, <2>2, <2>4, <2>5, PlainQueue DEF Plain, Over
    <2>6. CASE l = "drain_own"
      <3>1. local'[p].todo = batch
        BY <2>1, Parts DEF LocalRecord
      <3>2. \A i \in local'[p].todo : status[CaseOf(i)] # "HUMAN_ACTIVE"
        BY <2>1, <3>1 DEF PendingRows, CaseOf
      <3>3. pc'[p] \in Reached /\ pc'[p] \notin Opening \cup Giving \cup Naming \cup Writing \cup Handing
        BY <2>4, <2>6 DEF Reached, Round, Opening, Giving, Naming, Writing, Handing
      <3>4. OneServes'
        BY <3>3, <2>4, StillServes DEF QueueInv
      <3>5. Called(p)'
        BY <2>2, <2>4, <2>6, <3>2, <3>3 DEF Called, CaseOf
      <3> QED  BY <1>0, <2>2, <2>4, <3>4, <3>5, MoveQueue
    <2> QED  BY <2>5, <2>6
  <1>4. CASE DrainOwn(p)
    <2> DEFINE best == LeastLoaded(local[p].roster, local[p].loads)
    <2>1. pc[p] = "drain_own" /\ UNCHANGED <<status, version, automation, rows, op, snap>> /\ pc[p] \notin Writing
      BY <1>4 DEF DrainOwn, At, Writing
    <2>2. CASE best = {}
      <3>1. Goto(p, "done") /\ UNCHANGED <<owner, target, actor, local>>
        BY <1>4, <2>2, Zenon DEF DrainOwn
      <3>2. Alike(p) /\ pc'[p] = "done"
        BY <2>1, <3>1, GotoAlike
      <3> QED  BY <1>0, <2>1, <3>1, <3>2, PlainQueue DEF Plain, Over
    <2>3. CASE best # {}
      <3>1. PICK i \in local[p].todo, a \in best :
                /\ owner' = [owner EXCEPT ![rows[i].case] = a]
                /\ target' = [target EXCEPT ![p] = rows[i].case]
                /\ actor' = [actor EXCEPT ![p] = a]
                /\ local' = [local EXCEPT ![p].row = i, ![p].todo = local[p].todo \ {i}]
                /\ Goto(p, "drain_reread")
        BY <1>4, <2>3, Zenon DEF DrainOwn
      <3> HIDE DEF best
      <3>2. a \in local[p].roster /\ a \in Agents
        BY <3>1, Parts DEF best, LeastLoaded, LocalRecord
      <3>3. i \in DOMAIN rows /\ CaseOf(i) \in Cases
        BY <3>1, Parts
      <3>4. owner' = [owner EXCEPT ![CaseOf(i)] = a] /\ owner'[CaseOf(i)] = a
        BY <3>1, <3>3, Parts DEF CaseOf
      <3>5. target'[p] = CaseOf(i) /\ actor'[p] = a
        BY <3>1, Parts DEF CaseOf
      <3>6. local'[p].row = i /\ local'[p].todo = local[p].todo \ {i} /\ local'[p].roster = local[p].roster
        BY <3>1, Parts DEF LocalRecord
      <3>7. \E x : local' = [local EXCEPT ![p] = x]
        BY <3>1
      <3>8. Alike(p) /\ pc'[p] = "drain_reread"
        BY <2>1, <3>1, <3>7, GotoAlike
      <3>9. /\ pc'[p] \in Reached /\ pc'[p] \in Writing /\ pc'[p] \notin Opening \cup Giving
        BY <3>8 DEF Reached, Round, Writing, Opening, Giving, Handing
      <3>10. OneServes'
        BY <3>8, <3>9, StillServes DEF QueueInv
      <3>11. \A j \in local'[p].todo : status[CaseOf(j)] # "HUMAN_ACTIVE"
        BY <1>0, <2>1, <3>6 DEF Called
      <3>12. Called(p)'
        BY <2>1, <3>2, <3>3, <3>4, <3>5, <3>6, <3>8, <3>9, <3>11 DEF Called, CaseOf
      <3>13. HasRow(CaseOf(i))
        BY <3>3 DEF HasRow
      <3> QED  BY <2>1, <3>2, <3>3, <3>4, <3>5, <3>8, <3>9, <3>10, <3>12, <3>13, OwnerQueue
    <2> QED  BY <2>2, <2>3
  <1>5. CASE DrainReread(p)
    <2>1. PICK l \in {"drain_shift", "drain_row"} :
             Goto(p, l) /\ (l = "drain_shift" <=> status[target[p]] = "ESCALATED")
      BY <1>5, Zenon DEF DrainReread
    <2>2. Read(p) /\ pc[p] = "drain_reread"
      BY <1>5 DEF DrainReread, At
    <2>3. /\ Alike(p) /\ pc'[p] = l
          /\ snap'[p].status = status[target[p]] /\ snap'[p].version = version[target[p]]
          /\ UNCHANGED <<status, version, owner, automation, rows, op, target, actor, local>>
      BY <2>1, <2>2, ReadIs
    <2>4. /\ pc[p] \in Writing /\ pc[p] \in Naming /\ pc[p] \in Handing
          /\ pc'[p] \in Reached /\ pc'[p] \in Writing /\ pc'[p] \notin Opening \cup Giving
      BY <2>2, <2>3 DEF Reached, Round, Giving, Writing, Naming, Opening, Handing
    <2>5. OneServes'
      BY <2>3, <2>4, StillServes DEF QueueInv
    <2>6. Called(p)'
      BY <1>0, <2>1, <2>3, <2>4 DEF Called, CaseOf
    <2> QED  BY <1>0, <2>3, <2>4, <2>5, <2>6, MoveQueue
  <1>6. CASE DrainShift(p)
    <2>1. Transition(p, "HUMAN_ACTIVE", "drain_row") /\ pc[p] = "drain_shift"
      BY <1>6 DEF DrainShift, At
    <2>2. UNCHANGED <<owner, automation, rows, op, target, actor, local>> /\ Alike(p)
      BY <2>1, ShiftIs
    <2>3. CASE snap[p].version = version[target[p]]
      <3>1. pc'[p] = "drain_row" /\ status' = [status EXCEPT ![target[p]] = "HUMAN_ACTIVE"]
        BY <2>1, <2>3, ShiftIs
      <3>2. /\ pc[p] \in Writing /\ pc[p] \in Naming /\ pc[p] \in Handing
            /\ pc'[p] \in Reached /\ pc'[p] \in Writing /\ pc'[p] \notin Opening \cup Giving
        BY <2>1, <3>1 DEF Reached, Round, Giving, Writing, Naming, Opening, Handing
      <3>3. OneServes'
        BY <2>2, <3>2, StillServes DEF QueueInv
      <3>4. status'[target[p]] # "ESCALATED"
        BY <1>0, <3>1, Parts
      <3>5. /\ local[p].row \in DOMAIN rows /\ CaseOf(local[p].row) = target[p]
            /\ local[p].row \notin local[p].todo /\ local[p].todo \subseteq DOMAIN rows
        BY <1>0, <3>2, Parts DEF Called
      <3>6. ASSUME NEW i \in local[p].todo PROVE status'[CaseOf(i)] # "HUMAN_ACTIVE"
        <4>1. CaseOf(i) # target[p] /\ CaseOf(i) \in Cases
          BY <3>5, Parts DEF QueueInv, Rowed
        <4>2. status[CaseOf(i)] # "HUMAN_ACTIVE"
          BY <1>0, <3>2 DEF Called
        <4> QED  BY <3>1, <4>1, <4>2, Parts
      <3>7. Called(p)'
        BY <1>0, <2>2, <3>1, <3>2, <3>4, <3>6 DEF Called, CaseOf
      <3> QED  BY <2>1, <2>2, <3>1, <3>2, <3>3, <3>7, HandQueue
    <2>4. CASE snap[p].version # version[target[p]]
      BY <2>1, <2>2, <2>4, ShiftIs, LateQueue
    <2> QED  BY <2>3, <2>4
  <1>7. CASE DrainRow(p)
    <2>1. UpdateRow({local[p].row}, "ASSIGNED", actor[p]) /\ Goto(p, "drain_silence") /\ pc[p] = "drain_row"
      BY <1>7 DEF DrainRow, At
    <2>2. UNCHANGED <<status, op, target, actor, snap, local>>
      BY <2>1 DEF UpdateRow
    <2>3. Alike(p) /\ pc'[p] = "drain_silence"
      BY <2>1, <2>2, GotoAlike
    <2>4. /\ pc[p] \in Handing /\ pc'[p] \in Reached
          /\ pc'[p] \notin Opening \cup Giving \cup Naming \cup Writing \cup Escalated
      BY <2>1, <2>3 DEF Reached, Round, Giving, Opening, Naming, Writing, Handing, Escalated
    <2>5. OneServes'
      BY <2>3, <2>4, StillServes DEF QueueInv
    <2>6. \A i \in DOMAIN rows : rows'[i].case = rows[i].case
      <3>1. \A i \in DOMAIN rows : rows[i] \in Row
        BY Parts
      <3>2. rows' = [i \in DOMAIN rows |->
                       IF i \in {local[p].row} THEN [rows[i] EXCEPT !.status = "ASSIGNED", !.agent = actor[p]]
                       ELSE rows[i]]
        BY <2>1 DEF UpdateRow
      <3> QED  BY <3>1, <3>2 DEF Row
    <2>7. \A i \in local'[p].todo : status'[rows'[i].case] # "HUMAN_ACTIVE"
      BY <1>0, <2>2, <2>4, <2>6, Parts DEF Called, CaseOf
    <2>8. Called(p)'
      BY <1>0, <2>2, <2>3, <2>4, <2>7 DEF Called, CaseOf
    <2> QED  BY <2>1, <2>2, <2>3, <2>4, <2>5, <2>8, RowQueue
  <1>8. CASE DrainSilence(p)
    <2>1. /\ SetAutomation(p, FALSE) /\ UNCHANGED actor /\ pc[p] = "drain_silence"
          /\ \E x : local' = [local EXCEPT ![p] = x]
      BY <1>8 DEF DrainSilence, At
    <2>2. PICK l \in {"done", "drain_own"} : Goto(p, l)
      BY <1>8, Zenon DEF DrainSilence
    <2>3. /\ UNCHANGED <<status, version, owner, rows, op, target, snap>>
          /\ \A c \in Cases : automation'[c] => automation[c]
      BY <2>1, SilenceIs
    <2>4. Alike(p) /\ pc'[p] = l /\ pc[p] \notin Writing /\ pc[p] \in Handing
      BY <2>1, <2>2, <2>3, GotoAlike DEF Writing, Handing
    <2>5. CASE l = "done"
      BY <1>0, <2>3, <2>4, <2>5, PlainQueue DEF Plain, Over
    <2>6. CASE l = "drain_own"
      <3>1. local'[p].todo = local[p].todo
        BY <1>8, Parts DEF DrainSilence, LocalRecord
      <3>2. \A i \in local'[p].todo : status[CaseOf(i)] # "HUMAN_ACTIVE"
        BY <1>0, <2>4, <3>1 DEF Called
      <3>3. pc'[p] \in Reached /\ pc'[p] \notin Opening \cup Giving \cup Naming \cup Writing \cup Handing
        BY <2>4, <2>6 DEF Reached, Round, Opening, Giving, Naming, Writing, Handing
      <3>4. OneServes'
        BY <3>3, <2>4, StillServes DEF QueueInv
      <3>5. Called(p)'
        BY <2>3, <2>4, <2>6, <3>2, <3>3 DEF Called, CaseOf
      <3> QED  BY <1>0, <2>3, <2>4, <3>4, <3>5, MoveQueue
    <2> QED  BY <2>5, <2>6
  <1> QED  BY <1>1, <1>2, <1>3, <1>4, <1>5, <1>6, <1>7, <1>8 DEF Drain

\* No call does by hand what QueueOps has no operation for.
LEMMA OnlyThese ==
    ASSUME NEW p \in Calls, Step(p), pc[p] \in Reached
    PROVE  Escalation(p) \/ Drain(p) \/ CompleteRead(p) \/ CompleteShift(p)
  BY DEF Step, ByAgent, Closing, At, Reached, Opening, Giving, Round, Handing, Over,
     ClaimRead, ClaimOwn, ClaimShift, ClaimSilence, ClaimRow, TakeRead, TakeReread, TakeShift, TakeSilence,
     AssignRead, AssignShift, AssignOwn, AssignSilence, AssignRow, TransferRead, TransferPick,
     TransferShift, TransferOwn, TransferRow, TransferSilence, CancelRead, CancelShift, DisableRead,
     ReactRead, ReactEnable, ReactReread, ReactShift, ReactRelease

LEMMA ClosingQueue ==
    ASSUME Inv, QueueInv, NEW p \in Calls, CompleteRead(p) \/ CompleteShift(p)
    PROVE  QueueInv'
  <1>1. CASE CompleteRead(p)
    <2>1. PICK l \in {"failed", "complete_shift"} : Goto(p, l)
      BY <1>1, Zenon DEF CompleteRead
    <2>2. Read(p) /\ pc[p] = "complete_read"
      BY <1>1 DEF CompleteRead, At
    <2>3. Alike(p) /\ pc'[p] = l /\ UNCHANGED <<status, version, owner, automation, rows>>
      BY <2>1, <2>2, ReadIs
    <2>4. pc'[p] \in Plain /\ pc[p] \notin Escalated /\ pc[p] \notin Writing
      BY <2>2, <2>3 DEF Plain, Over, Escalated, Writing
    <2> QED  BY <2>3, <2>4, PlainQueue
  <1>2. CASE CompleteShift(p)
    <2>1. Transition(p, "COMPLETED", "drain_roster") /\ pc[p] = "complete_shift"
      BY <1>2 DEF CompleteShift, At
    <2>2. UNCHANGED <<owner, automation, rows, op, target, actor, local>> /\ Alike(p)
      BY <2>1, ShiftIs
    <2>3. CASE snap[p].version = version[target[p]]
      <3>1. /\ pc'[p] = "drain_roster" /\ status' = [status EXCEPT ![target[p]] = "COMPLETED"]
            /\ \A c \in Cases \ {target[p]} : version'[c] = version[c]
        BY <2>1, <2>3, ShiftIs
      <3>2. /\ pc'[p] \in Reached /\ pc'[p] \notin Opening \cup Giving \cup Naming \cup Writing \cup Handing
        BY <3>1 DEF Reached, Opening, Giving, Naming, Writing, Handing
      <3>3. OneServes'
        BY <2>2, <3>2, StillServes DEF QueueInv
      <3>4. Called(p)'
        BY <3>1, <3>2 DEF Called
      <3> QED  BY <2>1, <2>2, <3>1, <3>3, <3>4, CompleteQueue
    <2>4. CASE snap[p].version # version[target[p]]
      BY <2>1, <2>2, <2>4, ShiftIs, LateQueue
    <2> QED  BY <2>3, <2>4
  <1> QED  BY <1>1, <1>2

\* A case with a row has its automation off, and one a call of the automation is
\* at work on has its gate shut: an escalation starts without a row, alone.
LEMMA StartQueue ==
    ASSUME OnlyQueueOps, Inv, QueueInv,
           NEW p \in Calls, NEW o \in Ops, NEW c \in Cases, NEW a \in Agents, Start(p, o, c, a)
    PROVE  QueueInv'
  <1>1. /\ pc[p] = "idle" /\ Goto(p, FirstLabel(o)) /\ op' = [op EXCEPT ![p] = o]
        /\ target' = [target EXCEPT ![p] = c] /\ actor' = [actor EXCEPT ![p] = a]
        /\ UNCHANGED <<status, version, owner, automation, rows, snap, local>>
    BY DEF Start, At, tables
  <1>2. o \in QueueOps /\ pc[p] \notin Escalated /\ pc[p] \notin Writing
    BY <1>1 DEF OnlyQueueOps, Escalated, Writing
  <1>3. Alike(p) /\ pc'[p] = FirstLabel(o)
    BY <1>1, GotoAlike
  <1>4. op'[p] = o /\ target'[p] = c
    BY <1>1, Parts
  <1>5. CASE o \in ByAutomation
    <2>1. GateOpen(c)
      BY <1>5 DEF Start
    <2>2. \A i \in DOMAIN rows : CaseOf(i) # c
      BY <2>1, Zenon DEF QueueInv, Rowed, GateOpen
    <2>3. pc'[p] \in {"esc_read", "adv_read"}
      BY <1>3, <1>5 DEF ByAutomation, FirstLabel
    <2>4. pc'[p] \in Opening /\ pc'[p] \in Reached /\ pc'[p] \notin Giving \cup Naming \cup Writing \cup Handing
      BY <2>3 DEF Opening, Reached, Giving, Naming, Writing, Handing
    <2>5. ASSUME NEW q \in Calls \ {p}, pc[q] \in Opening \cup Giving PROVE target[q] # c
      <3>1. op[q] \in ByAutomation
        BY <2>5 DEF QueueInv, Called
      <3>2. pc[q] \notin {"done", "failed"}
        BY <2>5 DEF Opening, Giving
      <3> QED  BY <2>1, <3>1, <3>2 DEF GateOpen
    <2>6. OneServes'
      <3> SUFFICES ASSUME NEW q \in Calls, NEW r \in Calls, pc'[q] \in Opening \cup Giving,
                          pc'[r] \in Opening \cup Giving, target'[q] = target'[r], q # r
                   PROVE  FALSE
        BY DEF OneServes
      <3>1. CASE q = p
        BY <1>3, <1>4, <2>5, <3>1 DEF Alike
      <3>2. CASE r = p
        BY <1>3, <1>4, <2>5, <3>2 DEF Alike
      <3>3. CASE q # p /\ r # p
        BY <1>3, <3>3 DEF Alike, QueueInv, OneServes
      <3> QED  BY <3>1, <3>2, <3>3
    <2>7. ~HasRow(target[p])'
      BY <1>1, <1>4, <2>2 DEF HasRow, CaseOf
    <2>8. Called(p)'
      BY <1>4, <1>5, <2>3, <2>4, <2>7 DEF Called
    <2> QED  BY <1>1, <1>2, <1>3, <2>6, <2>8, MoveQueue
  <1>6. CASE o \notin ByAutomation
    <2>1. pc'[p] \in Plain
      BY <1>2, <1>3, <1>6 DEF QueueOps, ByAutomation, FirstLabel, Plain
    <2> QED  BY <1>1, <1>2, <1>3, <2>1, PlainQueue
  <1> QED  BY <1>5, <1>6

LEMMA StillQueue ==
    ASSUME QueueInv, UNCHANGED <<tables, frame>>
    PROVE  QueueInv'
  <1>1. /\ status' = status /\ version' = version /\ owner' = owner /\ automation' = automation /\ rows' = rows
        /\ pc' = pc /\ op' = op /\ target' = target /\ actor' = actor /\ snap' = snap /\ local' = local
    BY DEF tables, frame
  <1>2. ASSUME NEW p \in Calls PROVE Called(p)'
    <2>1. Called(p)
      BY DEF QueueInv
    <2>2. HasRow(target[p])' <=> HasRow(target[p])
      BY <1>1 DEF HasRow, CaseOf
    <2>3. \A i : CaseOf(i)' = CaseOf(i)
      BY <1>1 DEF CaseOf
    <2> QED  BY <1>1, <2>1, <2>2, <2>3, Zenon DEF Called
  <1>3. (\A p \in Calls : Called(p))'
    BY <1>2
  <1>4. OneServes'
    BY <1>1, Zenon DEF QueueInv, OneServes
  <1>5. (\A i \in DOMAIN rows : Rowed(i))'
    BY <1>1, Zenon DEF QueueInv, Rowed, CaseOf
  <1>6. (\A c \in Cases : Queues(c))'
    BY <1>1, Zenon DEF QueueInv, Queues, HasRow, CaseOf
  <1> QED  BY <1>3, <1>4, <1>5, <1>6 DEF QueueInv

LEMMA NextQueue ==
    ASSUME OnlyQueueOps, ~CanFail, Inv, CapInv, QueueInv, [Next]_vars
    PROVE  QueueInv'
  <1>1. CASE UNCHANGED vars
    BY <1>1, StillQueue DEF vars
  <1>2. ASSUME NEW p \in Calls, Step(p) PROVE QueueInv'
    <2>1. pc[p] \in Reached
      BY DEF QueueInv, Called
    <2> QED  BY <1>2, <2>1, OnlyThese, EscalationQueue, AutoQueue, DrainQueue, ClosingQueue, Zenon DEF Escalation
  <1>3. ASSUME NEW p \in Calls, NEW a \in Agents, Connect(p, a) PROVE QueueInv'
    <2>1. /\ pc[p] = "idle" /\ Goto(p, "drain_roster") /\ op' = [op EXCEPT ![p] = "drain"]
          /\ UNCHANGED <<status, version, owner, automation, rows, target, actor, snap, local>>
      BY <1>3 DEF Connect, At, tables
    <2>2. Alike(p) /\ pc'[p] = "drain_roster"
      BY <2>1, GotoAlike
    <2> QED  BY <2>1, <2>2, PlainQueue DEF Plain, Escalated, Writing
  <1>4. ASSUME NEW a \in Agents, Disconnect(a) PROVE QueueInv'
    BY <1>4, StillQueue DEF Disconnect
  <1>5. CASE Next
    BY <1>2, <1>3, <1>4, <1>5, StartQueue, Zenon DEF Next, Fail
  <1> QED  BY <1>1, <1>5

LEMMA InitQueue == Init => QueueInv
  <1> SUFFICES ASSUME Init PROVE QueueInv
    OBVIOUS
  <1> PICK Q \in Queued : InitWith(Q)
    BY DEF Init
  <1>1. Q \subseteq Cases /\ IsFiniteSet(Q)
    BY QueuedAssumption, CasesAssumption, FS_Subset
  <1>2. Cardinality(Q) \in Nat
    BY <1>1, FS_CardinalityType
  <1>3. /\ DOMAIN rows = 1..Cardinality(Q)
        /\ \A i \in DOMAIN rows : rows[i] \in {Pending(c) : c \in Q}
        /\ \A i, j \in DOMAIN rows : rows[i] = rows[j] => i = j
    BY DEF InitWith
  <1>4. \A i \in DOMAIN rows : CaseOf(i) \in Q /\ rows[i] = Pending(CaseOf(i))
    BY <1>3 DEF CaseOf, Pending
  <1>5. \A p \in Calls : pc[p] = "idle"
    BY DEF Init
  <1>6. \A p \in Calls : Called(p)
    BY <1>5 DEF Called, Reached, Over, Opening, Giving, Naming, Writing, Handing
  <1>7. OneServes
    BY <1>5 DEF OneServes, Opening, Giving
  <1>8. \A c \in Cases : status[c] # "HUMAN_ACTIVE" /\ (status[c] = "ESCALATED" => c \in Q)
    BY DEF InitWith, Automatable
  <1>9. ASSUME NEW i \in DOMAIN rows PROVE Rowed(i)
    <2>1. ~automation[CaseOf(i)]
      BY <1>1, <1>4, Zenon DEF InitWith
    <2>2. rows[i].status = "PENDING"
      BY <1>4 DEF Pending
    <2>3. \A j \in DOMAIN rows : CaseOf(i) = CaseOf(j) => i = j
      BY <1>3, <1>4
    <2>4. rows[i].status # "ASSIGNED" /\ status[CaseOf(i)] # "HUMAN_ACTIVE"
      BY <1>1, <1>4, <1>8, <2>2
    <2> QED  BY <2>1, <2>3, <2>4, Zenon DEF Rowed
  <1>10. ASSUME NEW c \in Q PROVE HasRow(c)
    <2> SUFFICES ASSUME ~HasRow(c) PROVE FALSE
      OBVIOUS
    <2> DEFINE f == [i \in DOMAIN rows |-> CaseOf(i)]
    <2>1. f \in [DOMAIN rows -> Q \ {c}]
      BY <1>4 DEF HasRow
    <2>2. IsFiniteSet(DOMAIN rows) /\ Cardinality(DOMAIN rows) = Cardinality(Q)
      BY <1>2, <1>3, FS_Interval
    <2>3. IsFiniteSet(Q \ {c}) /\ Cardinality(Q \ {c}) = Cardinality(Q) - 1
      BY <1>1, FS_RemoveElement
    <2>4. Cardinality(Q \ {c}) < Cardinality(DOMAIN rows)
      BY <1>2, <2>2, <2>3
    <2>5. PICK i \in DOMAIN rows, j \in DOMAIN rows : i # j /\ f[i] = f[j]
      <3> HIDE DEF f
      <3> QED  BY <2>1, <2>2, <2>3, <2>4, FS_PigeonHole
    <2>6. CaseOf(i) = CaseOf(j)
      BY <2>5
    <2> QED  BY <1>3, <1>4, <2>5, <2>6
  <1>11. \A c \in Cases : Queues(c)
    BY <1>8, <1>10 DEF Queues
  <1> QED  BY <1>6, <1>7, <1>9, <1>11 DEF QueueInv

-----------------------------------------------------------------------------
LEMMA RowsAgreeNow ==
    ASSUME Inv, QueueInv
    PROVE  QueueAgrees
  <1>1. ASSUME NEW c \in Cases, Quiet(c), NEW p \in Calls, pc[p] \in Writing \cup Escalated, target[p] = c
        PROVE  FALSE
    BY <1>1 DEF Quiet, Writing, Escalated
  <1>2. ASSUME NEW c \in Cases, Quiet(c), status[c] = "HUMAN_ACTIVE", RowsOf(c) # {}
        PROVE  rows[Newest(RowsOf(c))].agent = owner[c]
    <2>1. PICK i \in DOMAIN rows : CaseOf(i) = c
      BY <1>2 DEF RowsOf, CaseOf
    <2>2. Rowed(i)
      BY DEF QueueInv
    <2>3. RowsOf(c) = {i}
      BY <2>1, <2>2 DEF Rowed, RowsOf, CaseOf
    <2>4. i \in Nat
      BY Parts
    <2>5. Newest(RowsOf(c)) = i
      BY <2>3, <2>4 DEF Newest
    <2> QED  BY <1>1, <1>2, <2>1, <2>2, <2>5 DEF Rowed
  <1>3. ASSUME NEW c \in Cases, Quiet(c), status[c] = "ESCALATED"
        PROVE  \E i \in RowsOf(c) : rows[i].status = "PENDING"
    <2>1. PICK i \in DOMAIN rows : CaseOf(i) = c
      BY <1>1, <1>3 DEF QueueInv, Queues, HasRow
    <2>2. Rowed(i) /\ rows[i] \in Row
      BY Parts DEF QueueInv
    <2>3. rows[i].status = "PENDING"
      BY <1>3, <2>1, <2>2 DEF Rowed, Row
    <2> QED  BY <2>1, <2>3 DEF RowsOf, CaseOf
  <1> QED  BY <1>2, <1>3 DEF QueueAgrees, RowAgreesWithOwner, EscalatedIsQueued

LEMMA ByQueueOnly ==
    ASSUME OnlyQueueOps
    PROVE  NobodyByHand
  BY DEF OnlyQueueOps, QueueOps, NobodyByHand, ByHand

\* tryAutoAssign, drain, 02_STATE_MACHINE.md:220: while the automation, drains and
\* completions hand the cases over, one dispatching call at a time, and no call
\* dies, a case nobody is at work on is in the queue if it is ESCALATED, and the
\* agent of its row is the agent of the case if a person has it.
THEOREM RowsAgree ==
    ASSUME OnlyQueueOps, Serial, ~CanFail
    PROVE  Spec => []QueueAgrees
  <1>1. Inv /\ CapInv /\ QueueInv /\ [Next]_vars => Inv' /\ CapInv' /\ QueueInv'
    BY NextGood, NextCap, NextQueue, ByQueueOnly
  <1>2. Inv /\ QueueInv => QueueAgrees
    BY RowsAgreeNow
  <1> QED  BY <1>1, <1>2, InitInv, InitCap, InitQueue, PTL DEF Spec

-----------------------------------------------------------------------------
(* No case waits beside a free slot.  Until a round has taken its roster      *)
(* nothing is known; from then on a case that waits while an agent has a slot *)
(* is one a call will come to, or the batch took every slot of the round.     *)

Waiting == \E p \in Calls : pc[p] = "drain_roster"
Full == \A a \in connected : Load(a) >= Cap

\* The call will look at row i: it holds it, has still to fetch, or has it in its
\* batch, if the batch has not taken all the slots.
Attends(p, i) ==
    \/ pc[p] \in {"drain_load", "drain_fetch"}
    \/ pc[p] \in Naming /\ local[p].row = i
    \/ pc[p] = "drain_own" /\ (i \in local[p].todo \/ Capacity(p) <= Cardinality(local[p].todo))
    \/ pc[p] \in Handing /\ (i \in local[p].todo \/ Capacity(p) <= Cardinality(local[p].todo) + 1)

\* The counts of the round do not say more than the loads.
Counts(p) ==
    /\ pc[p] \in Round => connected \subseteq local[p].roster
    /\ pc[p] \in {"drain_fetch", "drain_own", "drain_reread", "drain_shift"} =>
         \A a \in Agents : local[p].loads[a] <= Load(a)
    /\ pc[p] \in {"drain_row", "drain_silence"} =>
         \A a \in Agents : (IF a = actor[p] THEN local[p].loads[a] + 1 ELSE local[p].loads[a]) <= Load(a)
    /\ pc[p] \in {"drain_own"} \cup Handing => local[p].todo \subseteq PendingRows
    /\ pc[p] \in {"drain_reread", "drain_shift"} => local[p].row \in PendingRows
    /\ pc[p] = "auto_own" => \A i \in PendingRows : \E q \in Calls : Attends(q, i)

Settled == /\ \A p \in Calls : Counts(p)
           /\ \A i \in PendingRows : Full \/ \E p \in Calls : Attends(p, i)

IdleInv == Waiting \/ Settled

-----------------------------------------------------------------------------
(* Slots and batches *)

LEMMA LeastOf ==
    ASSUME NEW S, NEW load, \A a \in S : load[a] \in Nat, S # {}
    PROVE  \E a \in S : \A b \in S : load[a] <= load[b]
  <1> DEFINE vals == {load[a] : a \in S}
  <1>1. vals \subseteq Nat /\ vals # {}
    OBVIOUS
  <1>2. PICK x \in vals : \A y \in vals : <<y, x>> \notin OpToRel(<, Nat)
    <2> HIDE DEF vals
    <2> QED  BY <1>1, NatLessThanWellFounded, WFMin
  <1>3. PICK a \in S : x = load[a]
    OBVIOUS
  <1>4. ASSUME NEW b \in S PROVE load[a] <= load[b]
    <2>1. load[b] \in vals /\ load[b] \in Nat /\ load[a] \in Nat
      OBVIOUS
    <2>2. ~(load[b] < load[a])
      BY <1>2, <1>3, <2>1 DEF OpToRel
    <2> QED  BY <2>1, <2>2
  <1> QED  BY <1>4

\* pickAgentForDepartment finds nobody only when nobody has a slot.
LEMMA NobodyFree ==
    ASSUME NEW S, NEW load, \A a \in S : load[a] \in Nat, LeastLoaded(S, load) = {}
    PROVE  \A a \in S : load[a] >= Cap
  <1>1. Cap \in Nat
    BY CapAssumption
  <1> SUFFICES ASSUME NEW c \in S, load[c] < Cap PROVE FALSE
    BY <1>1
  <1>2. PICK a \in S : \A b \in S : load[a] <= load[b]
    BY LeastOf
  <1>3. load[a] < Cap
    BY <1>1, <1>2
  <1> QED  BY <1>2, <1>3 DEF LeastLoaded

Slots(agents, load) == {s \in agents \X (1..Cap) : load[s[1]] < s[2]}

LEMMA SlotsFinite ==
    ASSUME NEW agents, agents \subseteq Agents, NEW load
    PROVE  IsFiniteSet(Slots(agents, load)) /\ Cardinality(Slots(agents, load)) \in Nat
  <1>1. IsFiniteSet(agents) /\ IsFiniteSet(1..Cap)
    <2>1. IsFiniteSet(agents)
      BY AgentsAssumption, FS_Subset
    <2> QED  BY <2>1, CapAssumption, FS_Interval
  <1>2. IsFiniteSet(agents \X (1..Cap))
    BY <1>1, FS_Product
  <1>3. IsFiniteSet(Slots(agents, load))
    BY <1>2, FS_Subset DEF Slots
  <1> QED  BY <1>3, FS_CardinalityType

\* No slot is free: the agents are all at the cap.
LEMMA NoSlotLeft ==
    ASSUME NEW agents, agents \subseteq Agents, NEW load, load \in [Agents -> Nat],
           Cardinality(Slots(agents, load)) = 0
    PROVE  \A a \in agents : load[a] >= Cap
  <1>1. Slots(agents, load) = {}
    BY SlotsFinite, FS_EmptySet
  <1>2. Cap \in Nat \ {0} /\ Cap \in 1..Cap
    BY CapAssumption
  <1> SUFFICES ASSUME NEW a \in agents, load[a] < Cap PROVE FALSE
    BY <1>2
  <1>3. <<a, Cap>> \in agents \X (1..Cap)
    BY <1>2
  <1>4. <<a, Cap>> \in Slots(agents, load)
    BY <1>3 DEF Slots
  <1> QED  BY <1>1, <1>4

LEMMA RoundSlots ==
    ASSUME Inv, NEW p \in Calls
    PROVE  /\ local[p].roster \subseteq Agents /\ local[p].loads \in [Agents -> Nat]
           /\ FreeSlots(p) = Slots(local[p].roster, local[p].loads)
           /\ IsFiniteSet(FreeSlots(p)) /\ Capacity(p) \in Nat
  <1>1. local[p].roster \subseteq Agents /\ local[p].loads \in [Agents -> Nat]
    BY Parts DEF LocalRecord
  <1> QED  BY <1>1, SlotsFinite DEF FreeSlots, Slots, Capacity

\* A case handed over takes one slot of the round.
LEMMA SlotTaken ==
    ASSUME Inv, NEW p \in Calls, NEW a \in local[p].roster, local[p].loads[a] < Cap,
           local'[p].roster = local[p].roster,
           local'[p].loads = [local[p].loads EXCEPT ![a] = local[p].loads[a] + 1]
    PROVE  Capacity(p)' = Capacity(p) - 1
  <1>1. PICK n : n = local[p].loads[a] + 1
    OBVIOUS
  <1>2. a \in Agents /\ local[p].loads \in [Agents -> Nat] /\ local[p].roster \subseteq Agents
    BY Parts DEF LocalRecord
  <1>3. n \in Nat /\ n - 1 = local[p].loads[a] /\ Cap \in Nat /\ n \in 1..Cap
    BY <1>1, <1>2, CapAssumption
  <1>4. /\ local'[p].loads[a] = n
        /\ \A b \in Agents \ {a} : local'[p].loads[b] = local[p].loads[b]
    BY <1>1, <1>2
  <1>5. <<a, n>> \in FreeSlots(p)
    BY <1>2, <1>3 DEF FreeSlots
  <1>6. ASSUME NEW b \in local[p].roster, NEW k \in 1..Cap
        PROVE  local'[p].loads[b] < k <=> local[p].loads[b] < k /\ <<b, k>> # <<a, n>>
    <2>1. CASE b = a
      BY <1>2, <1>3, <1>4, <2>1
    <2>2. CASE b # a
      BY <1>2, <1>4, <2>2
    <2> QED  BY <2>1, <2>2
  <1>7. FreeSlots(p)' = {s \in local[p].roster \X (1..Cap) : local'[p].loads[s[1]] < s[2]}
    BY DEF FreeSlots
  <1>8. \A s \in local[p].roster \X (1..Cap) : s \in FreeSlots(p)' <=> s \in FreeSlots(p) \ {<<a, n>>}
    <2> SUFFICES ASSUME NEW b \in local[p].roster, NEW k \in 1..Cap
                 PROVE  <<b, k>> \in FreeSlots(p)' <=> <<b, k>> \in FreeSlots(p) \ {<<a, n>>}
      OBVIOUS
    <2>1. <<b, k>> \in FreeSlots(p)' <=> local'[p].loads[b] < k
      BY <1>7
    <2>2. <<b, k>> \in FreeSlots(p) <=> local[p].loads[b] < k
      BY DEF FreeSlots
    <2> QED  BY <1>6, <2>1, <2>2
  <1>9. FreeSlots(p)' \subseteq local[p].roster \X (1..Cap) /\ FreeSlots(p) \subseteq local[p].roster \X (1..Cap)
    BY <1>7 DEF FreeSlots
  <1>10. FreeSlots(p)' = FreeSlots(p) \ {<<a, n>>}
    BY <1>8, <1>9
  <1>11. Cardinality(FreeSlots(p)') = Cardinality(FreeSlots(p)) - 1
    BY <1>5, <1>10, RoundSlots, FS_RemoveElement
  <1> QED  BY <1>11 DEF Capacity

LEMMA RowsFinite ==
    ASSUME Inv
    PROVE  IsFiniteSet(PendingRows) /\ PendingRows \subseteq Nat
  <1>1. rows \in Seq(Row) /\ PendingRows \subseteq DOMAIN rows
    BY Parts DEF PendingRows
  <1>2. DOMAIN rows = 1..Len(rows) /\ Len(rows) \in Nat
    BY <1>1
  <1>3. IsFiniteSet(DOMAIN rows)
    BY <1>2, FS_Interval
  <1> QED  BY <1>1, <1>2, <1>3, FS_Subset

\* findNextPendingForDepartment leaves a row out only when the batch is as large
\* as the slots that are free.
LEMMA BatchFills ==
    ASSUME Inv, NEW n \in Nat, NEW batch,
           batch = {i \in PendingRows : Cardinality({j \in PendingRows : j < i}) < n},
           NEW k \in PendingRows \ batch
    PROVE  n <= Cardinality(batch)
  <1> DEFINE out == PendingRows \ batch
  <1>1. out \subseteq Nat /\ out # {}
    BY RowsFinite
  <1>2. PICK m \in out : \A y \in out : <<y, m>> \notin OpToRel(<, Nat)
    <2> HIDE DEF out
    <2> QED  BY <1>1, NatLessThanWellFounded, WFMin
  <1>3. PICK before : before = {j \in PendingRows : j < m}
    OBVIOUS
  <1>4. before \subseteq batch
    <2> SUFFICES ASSUME NEW j \in PendingRows, j < m, j \notin batch PROVE FALSE
      BY <1>3
    <2> QED  BY <1>1, <1>2 DEF OpToRel
  <1>5. IsFiniteSet(batch)
    BY RowsFinite, FS_Subset
  <1>6. Cardinality(before) <= Cardinality(batch)
    BY <1>4, <1>5, FS_Subset
  <1>7. Cardinality(before) \in Nat /\ Cardinality(batch) \in Nat
    BY <1>4, <1>5, FS_Subset, FS_CardinalityType
  <1>8. ~(Cardinality(before) < n)
    BY <1>3
  <1> QED  BY <1>6, <1>7, <1>8

-----------------------------------------------------------------------------
(* Steps that settle or stay settled *)

LEMMA OthersAttend ==
    ASSUME NEW p \in Calls, Alike(p), NEW q \in Calls \ {p}, NEW i
    PROVE  Attends(q, i)' <=> Attends(q, i)
  <1>1. pc'[q] = pc[q] /\ local'[q] = local[q]
    BY DEF Alike
  <1>2. Capacity(q)' = Capacity(q)
    BY <1>1 DEF Capacity, FreeSlots
  <1> QED  BY <1>1, <1>2 DEF Attends

\* No case leaves an agent's hands.
InHands == \A c \in Cases : status[c] = "HUMAN_ACTIVE" => status'[c] = "HUMAN_ACTIVE" /\ owner'[c] = owner[c]

LEMMA LoadsGrow ==
    ASSUME InHands
    PROVE  \A a \in Agents : Load(a) <= Load(a)' /\ Load(a) \in Nat /\ Load(a)' \in Nat
  <1> SUFFICES ASSUME NEW a \in Agents PROVE Load(a) <= Load(a)' /\ Load(a) \in Nat /\ Load(a)' \in Nat
    OBVIOUS
  <1>1. Attended(a) \subseteq Attended(a)'
    BY DEF InHands, Attended
  <1>2. Attended(a)' \subseteq Cases /\ Load(a)' = Cardinality(Attended(a)')
    BY DEF Attended, Load
  <1>3. IsFiniteSet(Attended(a)')
    BY <1>2, CasesAssumption, FS_Subset
  <1>4. Cardinality(Attended(a)) <= Cardinality(Attended(a)') /\ Cardinality(Attended(a)') \in Nat
    BY <1>1, <1>3, FS_Subset, FS_CardinalityType
  <1> QED  BY <1>2, <1>4, AttendedFinite

LEMMA FullStays ==
    ASSUME Inv, InHands, connected' \subseteq connected, Full
    PROVE  Full'
  <1> SUFFICES ASSUME NEW a \in connected' PROVE Load(a)' >= Cap
    BY DEF Full
  <1>1. a \in Agents /\ Cap \in Nat /\ Load(a) >= Cap
    BY Parts, CapAssumption DEF Full
  <1> QED  BY <1>1, LoadsGrow

\* A call that dispatches nothing: what is new in the queue it holds itself, and
\* it keeps what it attended.
LEMMA AsideSettled ==
    ASSUME Inv, Settled, NEW p \in Calls, Alike(p), InHands, connected' = connected,
           pc'[p] \notin Round \cup {"auto_own"}, PendingRows \subseteq PendingRows',
           \A i \in PendingRows' : i \notin PendingRows => Attends(p, i)',
           \A i \in PendingRows : Attends(p, i) => Attends(p, i)'
    PROVE  Settled'
  <1>1. \A q \in Calls, i \in PendingRows : Attends(q, i) => Attends(q, i)'
    BY OthersAttend
  <1>2. ASSUME NEW i \in PendingRows' PROVE Full' \/ \E q \in Calls : Attends(q, i)'
    <2>1. CASE i \in PendingRows
      BY <1>1, <2>1, FullStays DEF Settled
    <2>2. CASE i \notin PendingRows
      BY <1>2, <2>2
    <2> QED  BY <2>1, <2>2
  <1>3. ASSUME NEW q \in Calls \ {p} PROVE Counts(q)'
    <2>1. pc'[q] = pc[q] /\ local'[q] = local[q] /\ actor'[q] = actor[q]
      BY DEF Alike
    <2>2. Counts(q) /\ local[q].loads \in [Agents -> Nat]
      BY Parts DEF Settled, LocalRecord
    <2>3. /\ pc'[q] \in Round => connected' \subseteq local'[q].roster
          /\ pc'[q] \in {"drain_own"} \cup Handing => local'[q].todo \subseteq PendingRows'
          /\ pc'[q] \in {"drain_reread", "drain_shift"} => local'[q].row \in PendingRows'
      BY <2>1, <2>2 DEF Counts
    <2>4. /\ pc'[q] \in {"drain_fetch", "drain_own", "drain_reread", "drain_shift"} =>
                \A a \in Agents : local'[q].loads[a] <= Load(a)'
      BY <2>1, <2>2, LoadsGrow DEF Counts
    <2>5. pc'[q] \in {"drain_row", "drain_silence"} =>
            \A a \in Agents : (IF a = actor'[q] THEN local'[q].loads[a] + 1 ELSE local'[q].loads[a]) <= Load(a)'
      BY <2>1, <2>2, LoadsGrow DEF Counts
    <2>6. pc'[q] = "auto_own" => \A i \in PendingRows' : \E r \in Calls : Attends(r, i)'
      <3> SUFFICES ASSUME pc'[q] = "auto_own", NEW i \in PendingRows' PROVE \E r \in Calls : Attends(r, i)'
        OBVIOUS
      <3>1. CASE i \in PendingRows
        BY <1>1, <2>1, <2>2, <3>1 DEF Counts
      <3>2. CASE i \notin PendingRows
        BY <3>2
      <3> QED  BY <3>1, <3>2
    <2> QED  BY <2>3, <2>4, <2>5, <2>6 DEF Counts
  <1>4. pc'[p] \notin {"auto_own"} \cup Round \cup Handing \cup {"drain_fetch", "drain_own"}
    BY DEF Round
  <1>5. Counts(p)'
    BY <1>4 DEF Counts, Handing
  <1> QED  BY <1>2, <1>3, <1>5 DEF Settled

\* A step of the call that dispatches.
LEMMA DispatchSettled ==
    ASSUME NEW p \in Calls, Alike(p), \A q \in Calls \ {p} : pc[q] \notin Dispatching, Counts(p)',
           \A i \in PendingRows' : Full' \/ Attends(p, i)' \/ \E q \in Calls \ {p} : Attends(q, i)
    PROVE  Settled'
  <1>1. ASSUME NEW q \in Calls \ {p} PROVE Counts(q)'
    <2>1. pc'[q] \notin Dispatching
      BY DEF Alike
    <2>2. pc'[q] \notin {"auto_own"} \cup Round \cup Handing \cup {"drain_fetch", "drain_own"}
      BY <2>1 DEF Dispatching, Round, Handing
    <2> QED  BY <2>2 DEF Counts, Handing
  <1>2. \A i \in PendingRows' : Full' \/ \E q \in Calls : Attends(q, i)'
    BY OthersAttend
  <1> QED  BY <1>1, <1>2 DEF Settled

\* Somebody has still to take a roster.
LEMMA StillWaiting ==
    ASSUME Inv, NEW p \in Calls, Waiting, pc[p] # "drain_roster", \E l : Goto(p, l)
    PROVE  Waiting'
  <1>1. \A q \in Calls \ {p} : pc'[q] = pc[q]
    BY Parts DEF Goto
  <1> QED  BY <1>1 DEF Waiting

\* The row of a case that has left the queue is assigned.
LEMMA RowUpdated ==
    ASSUME Inv, NEW i \in DOMAIN rows, i \notin PendingRows, NEW a, UpdateRow({i}, "ASSIGNED", a)
    PROVE  PendingRows' = PendingRows
  <1>1. \A j \in DOMAIN rows : rows[j] \in Row
    BY Parts
  <1>2. rows' = [j \in DOMAIN rows |->
                   IF j \in {i} THEN [rows[j] EXCEPT !.status = "ASSIGNED", !.agent = a] ELSE rows[j]]
        /\ UNCHANGED status
    BY DEF UpdateRow
  <1>3. DOMAIN rows' = DOMAIN rows /\ rows'[i].status = "ASSIGNED"
        /\ \A j \in DOMAIN rows \ {i} : rows'[j] = rows[j]
    BY <1>1, <1>2 DEF Row
  <1> QED  BY <1>2, <1>3 DEF PendingRows

\* An escalation, up to the pick of an agent.
LEMMA EscalationSettled ==
    ASSUME Inv, QueueInv, Settled, NEW p \in Calls,
           EscRead(p) \/ EscFind(p) \/ EscShift(p) \/ EscSilence(p) \/ EscCreate(p)
           \/ AdvRead(p) \/ AdvShift(p) \/ AdvSilence(p) \/ EnsureFind(p)
    PROVE  Settled'
  <1>1. pc[p] \in Opening
    BY DEF EscRead, EscFind, EscShift, EscSilence, EscCreate, AdvRead, AdvShift, AdvSilence, EnsureFind,
           At, Opening
  <1>2. /\ ~HasRow(target[p]) /\ status[target[p]] # "HUMAN_ACTIVE"
        /\ status \in [Cases -> Statuses] /\ target[p] \in Cases
    BY <1>1, NoRowYet, Parts
  <1>3. \A i : ~Attends(p, i)
    BY <1>1 DEF Opening, Attends, Naming, Writing, Handing
  <1>4. ASSUME Alike(p), pc'[p] \in Opening \cup Over, UNCHANGED <<owner, connected, rows>>,
               \A c \in Cases \ {target[p]} : status'[c] = status[c]
        PROVE  Settled'
    <2>1. InHands
      BY <1>2, <1>4 DEF InHands
    <2>2. ASSUME NEW i \in DOMAIN rows PROVE rows[i].case \in Cases \ {target[p]}
      BY <1>2, Parts DEF HasRow, CaseOf
    <2>3. PendingRows' = PendingRows
      BY <1>4, <2>2 DEF PendingRows
    <2>4. pc'[p] \notin Round \cup {"auto_own"}
      BY <1>4 DEF Opening, Over, Round, Handing
    <2> QED  BY <1>3, <1>4, <2>1, <2>3, <2>4, AsideSettled
  <1>5. ASSUME NEW l \in Opening \cup Over, Read(p), Goto(p, l) PROVE Settled'
    <2>1. Alike(p) /\ pc'[p] = l /\ UNCHANGED <<status, owner, rows, connected>>
      BY <1>5, ReadIs
    <2> QED  BY <1>4, <2>1
  <1>6. ASSUME NEW l \in Opening \cup Over, NEW st, Transition(p, st, l) PROVE Settled'
    <2>1. UNCHANGED <<owner, connected, rows>> /\ Alike(p)
      BY <1>6, ShiftIs
    <2>2. \/ pc'[p] = l /\ status' = [status EXCEPT ![target[p]] = st]
          \/ pc'[p] = "failed" /\ status' = status
      BY <1>6, ShiftIs
    <2>3. pc'[p] \in Opening \cup Over /\ \A c \in Cases \ {target[p]} : status'[c] = status[c]
      BY <1>2, <2>2 DEF Over
    <2> QED  BY <1>4, <2>1, <2>3
  <1>7. ASSUME NEW l \in Opening, SetAutomation(p, FALSE), Goto(p, l), UNCHANGED <<actor, local>>
        PROVE  Settled'
    <2>1. UNCHANGED <<status, owner, rows, connected, op, target, snap>>
      BY <1>7, SilenceIs
    <2>2. Alike(p) /\ pc'[p] = l
      BY <1>7, <2>1, GotoAlike
    <2> QED  BY <1>4, <2>1, <2>2
  <1>8. CASE EscRead(p)
    BY <1>5, <1>8 DEF EscRead, Opening
  <1>9. CASE EscFind(p)
    <2>1. UNCHANGED <<status, owner, rows, connected, op, target, actor, snap, local>>
      BY <1>9 DEF EscFind, tables
    <2>2. PICK l \in {"done", "esc_silence", "esc_shift"} : Goto(p, l)
      BY <1>9, Zenon DEF EscFind
    <2>3. Alike(p) /\ pc'[p] = l
      BY <2>1, <2>2, GotoAlike
    <2> QED  BY <1>4, <2>1, <2>3 DEF Opening, Over
  <1>10. CASE EscShift(p)
    BY <1>6, <1>10 DEF EscShift, Opening
  <1>11. CASE EscSilence(p)
    BY <1>7, <1>11 DEF EscSilence, Opening
  <1>12. CASE EscCreate(p)
    <2> PICK n : n = Len(rows) + 1
      OBVIOUS
    <2>1. /\ Goto(p, "auto_pick") /\ rows' = Append(rows, Pending(target[p]))
          /\ local' = [local EXCEPT ![p].row = n]
          /\ UNCHANGED <<status, owner, connected, op, target, actor, snap>>
      BY <1>12 DEF EscCreate
    <2>2. Alike(p) /\ pc'[p] = "auto_pick"
      BY <2>1, GotoAlike
    <2>3. rows \in Seq(Row)
      BY Parts
    <2>4. /\ DOMAIN rows' = DOMAIN rows \cup {n}
          /\ \A i \in DOMAIN rows : rows'[i] = rows[i]
      BY <2>1, <2>3
    <2>5. /\ PendingRows \subseteq PendingRows'
          /\ \A i \in PendingRows' : i \notin PendingRows => i = n
      BY <2>1, <2>4 DEF PendingRows
    <2>6. local'[p].row = n
      BY <2>1, Parts DEF LocalRecord
    <2>7. Attends(p, n)' /\ pc'[p] \notin Round \cup {"auto_own"}
      BY <2>2, <2>6 DEF Attends, Naming, Round, Handing
    <2>8. InHands
      BY <2>1 DEF InHands
    <2> QED  BY <1>3, <2>1, <2>2, <2>5, <2>7, <2>8, AsideSettled
  <1>13. CASE AdvRead(p)
    BY <1>5, <1>13 DEF AdvRead, Opening
  <1>14. CASE AdvShift(p)
    <2>1. PICK st : Transition(p, st, IF st = "ESCALATED" THEN "adv_silence" ELSE "done")
      BY <1>14 DEF AdvShift
    <2>2. CASE st = "ESCALATED"
      BY <1>6, <2>1, <2>2 DEF Opening
    <2>3. CASE st # "ESCALATED"
      BY <1>6, <2>1, <2>3 DEF Over
    <2> QED  BY <2>2, <2>3
  <1>15. CASE AdvSilence(p)
    BY <1>7, <1>15 DEF AdvSilence, Opening
  <1>16. CASE EnsureFind(p)
    <2>1. PICK l \in {"done", "esc_silence"} : Goto(p, l)
      BY <1>16, Zenon DEF EnsureFind
    <2> QED  BY <1>5, <1>16, <2>1 DEF EnsureFind, Opening, Over
  <1> QED  BY <1>8, <1>9, <1>10, <1>11, <1>12, <1>13, <1>14, <1>15, <1>16

LEMMA AutoSettled ==
    ASSUME Serial, Inv, CapInv, QueueInv, Settled, NEW p \in Calls,
           AutoPick(p) \/ AutoOwn(p) \/ AutoReread(p) \/ AutoShift(p) \/ AutoRow(p) \/ AutoSilence(p)
    PROVE  Settled'
  <1>0. /\ Called(p) /\ target[p] \in Cases /\ \A i \in PendingRows : Full \/ \E q \in Calls : Attends(q, i)
        /\ status \in [Cases -> Statuses] /\ owner \in [Cases -> Owners]
    BY Parts DEF QueueInv, Settled
  <1>1. \A q \in Calls \ {p} : pc[q] \notin Dispatching
    <2>1. CASE pc[p] \in Dispatching
      BY <2>1, Alone
    <2>2. CASE pc[p] \notin Dispatching
      <3>1. AutoPick(p)
        BY <2>2 DEF AutoOwn, AutoReread, AutoShift, AutoRow, AutoSilence, At, Dispatching
      <3> QED  BY <3>1 DEF AutoPick, MayDispatch
    <2> QED  BY <2>1, <2>2
  <1>2. \A i : Attends(p, i) => pc[p] \in Naming /\ local[p].row = i
    BY DEF AutoPick, AutoOwn, AutoReread, AutoShift, AutoRow, AutoSilence, At, Attends, Handing
  <1>3. CASE AutoPick(p)
    <2> DEFINE best == LeastLoaded(connected, CurrentLoads)
    <2>1. /\ pc[p] = "auto_pick" /\ UNCHANGED <<status, version, owner, automation, rows, connected, op, target, snap, local>>
      BY <1>3 DEF AutoPick, At, tables
    <2>2. PendingRows' = PendingRows /\ (Full' <=> Full)
      BY <2>1 DEF PendingRows, Full, Load
    <2>3. CASE best = {}
      <3>1. Goto(p, "done") /\ UNCHANGED actor
        BY <1>3, <2>3 DEF AutoPick
      <3>2. Alike(p) /\ pc'[p] = "done"
        BY <2>1, <3>1, GotoAlike
      <3>3. \A a \in connected : CurrentLoads[a] = Load(a) /\ Load(a) \in Nat
        BY Parts, LoadType DEF CurrentLoads
      <3>4. \A a \in connected : CurrentLoads[a] >= Cap
        BY <2>3, <3>3, NobodyFree
      <3>5. Full
        BY <3>3, <3>4 DEF Full
      <3>6. Counts(p)'
        BY <3>2 DEF Counts, Round, Handing
      <3> QED  BY <1>1, <2>2, <3>2, <3>5, <3>6, DispatchSettled
    <2>4. CASE best # {}
      <3>1. PICK a \in best : actor' = [actor EXCEPT ![p] = a] /\ Goto(p, "auto_own")
        BY <1>3, <2>4, Zenon DEF AutoPick
      <3>2. Alike(p) /\ pc'[p] = "auto_own"
        BY <2>1, <3>1, GotoAlike
      <3>3. ~Full
        <4>1. a \in connected /\ CurrentLoads[a] < Cap
          BY <3>1 DEF LeastLoaded
        <4>2. CurrentLoads[a] = Load(a) /\ Load(a) \in Nat /\ Cap \in Nat
          BY <4>1, Parts, LoadType, CapAssumption DEF CurrentLoads
        <4> QED  BY <4>1, <4>2 DEF Full
      <3>4. \A i \in PendingRows : \E q \in Calls : Attends(q, i)'
        <4>1. \A i : Attends(p, i) => Attends(p, i)'
          BY <1>2, <2>1, <3>2 DEF Attends, Naming
        <4> QED  BY <1>0, <3>2, <3>3, <4>1, OthersAttend
      <3>5. Counts(p)'
        BY <2>2, <3>2, <3>4 DEF Counts, Round, Handing
      <3>6. \A i \in PendingRows' : Full' \/ Attends(p, i)' \/ \E q \in Calls \ {p} : Attends(q, i)
        BY <2>2, <3>2, <3>4, OthersAttend
      <3> QED  BY <1>1, <3>2, <3>5, <3>6, DispatchSettled
    <2> QED  BY <2>3, <2>4
  <1>4. CASE AutoOwn(p)
    <2>1. /\ pc[p] = "auto_own" /\ UNCHANGED <<status, version, automation, rows, op, target, snap, actor, local>>
          /\ owner' = [owner EXCEPT ![target[p]] = actor[p]]
      BY <1>4 DEF AutoOwn, At, SetOwner
    <2>2. PICK l \in {"auto_reread", "auto_row"} : Goto(p, l)
      BY <1>4, Zenon DEF AutoOwn
    <2>3. Alike(p) /\ pc'[p] = l
      BY <2>1, <2>2, GotoAlike
    <2>4. PendingRows' = PendingRows
      BY <2>1 DEF PendingRows
    <2>5. \A i \in PendingRows : \E q \in Calls : Attends(q, i)
      BY <2>1 DEF Settled, Counts
    <2>6. \A i : Attends(p, i) => Attends(p, i)'
      BY <1>2, <2>1, <2>3 DEF Attends, Naming, Writing
    <2>7. Counts(p)'
      BY <2>3 DEF Counts, Round, Handing
    <2>8. \A i \in PendingRows' : Full' \/ Attends(p, i)' \/ \E q \in Calls \ {p} : Attends(q, i)
      BY <2>4, <2>5, <2>6
    <2> QED  BY <1>1, <2>3, <2>7, <2>8, DispatchSettled
  <1>5. ASSUME Alike(p), connected' = connected, pc'[p] \in {"auto_shift", "auto_row", "auto_silence", "done", "failed"},
               InHands, UNCHANGED local,
               \A i \in PendingRows' : i \in PendingRows /\ (pc[p] \in Naming /\ local[p].row = i => pc'[p] \in Naming)
        PROVE  Settled'
    <2>1. Counts(p)'
      BY <1>5 DEF Counts, Round, Handing
    <2>2. \A i \in PendingRows' : Attends(p, i) => Attends(p, i)'
      BY <1>2, <1>5 DEF Attends
    <2>3. \A i \in PendingRows' : Full' \/ Attends(p, i)' \/ \E q \in Calls \ {p} : Attends(q, i)
      BY <1>0, <1>5, <2>2, FullStays
    <2> QED  BY <1>1, <1>5, <2>1, <2>3, DispatchSettled
  <1>6. CASE AutoReread(p)
    <2>1. Read(p) /\ Goto(p, "auto_shift")
      BY <1>6 DEF AutoReread
    <2>2. Alike(p) /\ pc'[p] = "auto_shift" /\ UNCHANGED <<status, owner, rows, connected, local>>
      BY <2>1, ReadIs
    <2>3. InHands /\ PendingRows' = PendingRows
      BY <2>2 DEF InHands, PendingRows
    <2> QED  BY <1>5, <2>2, <2>3 DEF Naming, Writing
  <1>7. CASE AutoShift(p)
    <2>1. Transition(p, "HUMAN_ACTIVE", "auto_row") /\ pc[p] = "auto_shift"
      BY <1>7 DEF AutoShift, At
    <2>2. UNCHANGED <<owner, connected, rows, local>> /\ Alike(p)
      BY <2>1, ShiftIs
    <2>3. CASE snap[p].version = version[target[p]]
      <3>1. pc'[p] = "auto_row" /\ status' = [status EXCEPT ![target[p]] = "HUMAN_ACTIVE"]
        BY <2>1, <2>3, ShiftIs
      <3>2. \A c \in Cases : status'[c] \in {status[c], "HUMAN_ACTIVE"}
        BY <1>0, <3>1
      <3>3. InHands
        BY <2>2, <3>2 DEF InHands
      <3>4. PendingRows' \subseteq PendingRows
        <4>1. \A i \in DOMAIN rows : rows[i].case \in Cases
          BY Parts DEF CaseOf
        <4> QED  BY <2>2, <3>2, <4>1 DEF PendingRows
      <3> QED  BY <1>5, <2>2, <3>1, <3>3, <3>4 DEF Naming, Writing
    <2>4. CASE snap[p].version # version[target[p]]
      <3>1. pc'[p] = "failed" /\ UNCHANGED status
        BY <2>1, <2>4, ShiftIs
      <3>2. CaseOf(local[p].row) = target[p] /\ status[target[p]] = "COMPLETED"
        BY <1>0, <2>1, <2>4 DEF Called, Naming, Writing
      <3>3. local[p].row \notin PendingRows
        BY <3>2 DEF PendingRows, CaseOf
      <3>4. InHands /\ PendingRows' = PendingRows
        BY <2>2, <3>1 DEF InHands, PendingRows
      <3> QED  BY <1>5, <2>2, <3>1, <3>3, <3>4
    <2> QED  BY <2>3, <2>4
  <1>8. CASE AutoRow(p)
    <2>1. UpdateRow({local[p].row}, "ASSIGNED", actor[p]) /\ Goto(p, "auto_silence") /\ pc[p] = "auto_row"
      BY <1>8 DEF AutoRow, At
    <2>2. UNCHANGED <<status, owner, connected, op, target, actor, snap, local>>
      BY <2>1 DEF UpdateRow
    <2>3. Alike(p) /\ pc'[p] = "auto_silence"
      BY <2>1, <2>2, GotoAlike
    <2>4. /\ local[p].row \in DOMAIN rows /\ CaseOf(local[p].row) = target[p]
          /\ status[target[p]] # "ESCALATED"
      BY <1>0, <2>1 DEF Called, Naming, Writing
    <2>5. local[p].row \notin PendingRows
      BY <2>4 DEF PendingRows, CaseOf
    <2>6. PendingRows' = PendingRows
      BY <2>1, <2>4, <2>5, RowUpdated
    <2>7. InHands
      BY <2>2 DEF InHands
    <2> QED  BY <1>5, <2>2, <2>3, <2>5, <2>6, <2>7
  <1>9. CASE AutoSilence(p)
    <2>1. SetAutomation(p, FALSE) /\ Goto(p, "done") /\ UNCHANGED <<actor, local>> /\ pc[p] = "auto_silence"
      BY <1>9 DEF AutoSilence, At
    <2>2. UNCHANGED <<status, owner, rows, connected, op, target, snap>>
      BY <2>1, SilenceIs
    <2>3. Alike(p) /\ pc'[p] = "done"
      BY <2>1, <2>2, GotoAlike
    <2>4. InHands /\ PendingRows' = PendingRows /\ pc[p] \notin Naming
      BY <2>1, <2>2 DEF InHands, PendingRows, Naming, Writing
    <2> QED  BY <1>5, <2>1, <2>2, <2>3, <2>4
  <1> QED  BY <1>3, <1>4, <1>6, <1>7, <1>8, <1>9

\* A round takes its roster while nobody dispatches.
LEMMA RosterSettled ==
    ASSUME Serial, Inv, NEW p \in Calls, DrainRoster(p)
    PROVE  Settled'
  <1>1. /\ local' = [local EXCEPT ![p].roster = connected]
        /\ UNCHANGED <<status, version, owner, automation, rows, connected, op, target, actor, snap>>
    BY DEF DrainRoster, tables
  <1>2. PICK l \in {"done", "drain_load"} : Goto(p, l) /\ (l = "done" => connected = {})
    BY Zenon DEF DrainRoster
  <1>3. Alike(p) /\ pc'[p] = l
    BY <1>1, <1>2, GotoAlike
  <1>4. local'[p].roster = connected
    BY <1>1, Parts DEF LocalRecord
  <1>5. Counts(p)'
    BY <1>1, <1>3, <1>4 DEF Counts, Round, Handing
  <1>6. \A i \in PendingRows' : Full' \/ Attends(p, i)'
    BY <1>1, <1>2, <1>3 DEF Full, Attends
  <1>7. \A q \in Calls \ {p} : pc[q] \notin Dispatching
    BY DEF DrainRoster, MayDispatch
  <1> QED  BY <1>3, <1>5, <1>6, <1>7, DispatchSettled

LEMMA RoundSettled ==
    ASSUME Serial, Inv, CapInv, QueueInv, Settled, NEW p \in Calls,
           DrainLoad(p) \/ DrainFetch(p) \/ DrainOwn(p)
    PROVE  Settled'
  <1>0. /\ Called(p) /\ Counts(p) /\ pc[p] \in Round
        /\ \A q \in Calls \ {p} : pc[q] \notin Dispatching
        /\ \A i \in PendingRows : Full \/ Attends(p, i) \/ \E q \in Calls \ {p} : Attends(q, i)
    <2>1. pc[p] \in Round /\ pc[p] \in Dispatching
      BY DEF DrainLoad, DrainFetch, DrainOwn, At, Round, Dispatching
    <2> QED  BY <2>1, Alone DEF QueueInv, Settled
  <1>1. /\ connected \subseteq local[p].roster /\ local[p].roster \subseteq Agents
        /\ local[p].loads \in [Agents -> Nat] /\ connected \subseteq Agents
        /\ \A a \in Agents : Load(a) \in Nat
    BY <1>0, Parts, LoadType DEF Counts, LocalRecord
  <1>2. Cap \in Nat
    BY CapAssumption
  \* The round sees no free slot.
  <1>3. ASSUME \A a \in Agents : local[p].loads[a] <= Load(a), \A a \in local[p].roster : local[p].loads[a] >= Cap
        PROVE  Full
    <2> SUFFICES ASSUME NEW a \in connected PROVE Load(a) >= Cap
      BY DEF Full
    <2>1. a \in Agents /\ a \in local[p].roster
      BY <1>1
    <2> QED  BY <1>1, <1>2, <1>3, <2>1
  <1>4. CASE DrainLoad(p)
    <2>1. /\ pc[p] = "drain_load" /\ local' = [local EXCEPT ![p].loads = CurrentLoads]
          /\ UNCHANGED <<status, version, owner, automation, rows, connected, op, target, actor, snap>>
      BY <1>4 DEF DrainLoad, At, tables
    <2>2. PICK l \in {"done", "drain_fetch"} :
             Goto(p, l) /\ (l = "done" => \A a \in local[p].roster : ~(Load(a) < Cap))
      BY <1>4, Zenon DEF DrainLoad
    <2>3. Alike(p) /\ pc'[p] = l
      BY <2>1, <2>2, GotoAlike
    <2>4. local'[p].loads = CurrentLoads /\ local'[p].roster = local[p].roster
      BY <2>1, Parts DEF LocalRecord
    <2>5. \A a \in Agents : Load(a)' = Load(a)
      BY <2>1 DEF Load
    <2>6. \A a \in Agents : local'[p].loads[a] <= Load(a)'
      BY <1>1, <2>4, <2>5 DEF CurrentLoads
    <2>7. Counts(p)'
      BY <1>1, <2>1, <2>3, <2>4, <2>6 DEF Counts, Round, Handing
    <2>8. l = "done" => Full'
      <3> SUFFICES ASSUME l = "done", NEW a \in connected PROVE Load(a)' >= Cap
        BY <2>1 DEF Full
      <3>1. a \in Agents /\ a \in local[p].roster
        BY <1>1
      <3>2. ~(Load(a) < Cap) /\ Load(a)' = Load(a) /\ Load(a) \in Nat
        BY <1>1, <2>2, <2>5, <3>1
      <3> QED  BY <1>2, <3>2
    <2>9. l = "drain_fetch" => \A i \in PendingRows' : Attends(p, i)'
      BY <2>3 DEF Attends
    <2> QED  BY <1>0, <2>2, <2>3, <2>7, <2>8, <2>9, DispatchSettled
  <1>5. CASE DrainFetch(p)
    <2>1. PICK batch : /\ batch = {i \in PendingRows : Cardinality({j \in PendingRows : j < i}) < Capacity(p)}
                       /\ local' = [local EXCEPT ![p].todo = batch]
                       /\ Goto(p, IF batch = {} THEN "done" ELSE "drain_own")
      BY <1>5, Zenon DEF DrainFetch
    <2>2. /\ pc[p] = "drain_fetch"
          /\ UNCHANGED <<status, version, owner, automation, rows, connected, op, target, actor, snap>>
      BY <1>5 DEF DrainFetch, At, tables
    <2>3. PICK l \in {"done", "drain_own"} : Goto(p, l) /\ (l = "done" => batch = {})
      BY <2>1
    <2>4. Alike(p) /\ pc'[p] = l
      BY <2>1, <2>2, <2>3, GotoAlike
    <2>5. /\ local'[p].todo = batch /\ local'[p].roster = local[p].roster /\ local'[p].loads = local[p].loads
      BY <2>1, Parts DEF LocalRecord
    <2>6. PendingRows' = PendingRows /\ batch \subseteq PendingRows
      BY <2>1, <2>2 DEF PendingRows
    <2>7. (Full' <=> Full) /\ \A a \in Agents : Load(a)' = Load(a)
      BY <2>2 DEF Full, Load
    <2>8. \A a \in Agents : local[p].loads[a] <= Load(a)
      BY <1>0, <2>2 DEF Counts
    <2>9. Counts(p)'
      BY <1>1, <2>2, <2>4, <2>5, <2>6, <2>7, <2>8 DEF Counts, Round, Handing
    <2>10. PICK n : n = Capacity(p)
      OBVIOUS
    <2>11. n \in Nat
      BY <2>10, RoundSlots
    <2>12. ASSUME NEW i \in PendingRows, i \notin batch PROVE n <= Cardinality(batch)
      <3>1. batch = {j \in PendingRows : Cardinality({k \in PendingRows : k < j}) < n}
        BY <2>1, <2>10
      <3> QED  BY <2>11, <2>12, <3>1, BatchFills
    <2>13. ASSUME l = "done", NEW i \in PendingRows PROVE Full
      <3>1. n = 0
        BY <2>3, <2>11, <2>12, <2>13, FS_EmptySet
      <3>2. \A a \in local[p].roster : local[p].loads[a] >= Cap
        BY <2>10, <3>1, RoundSlots, NoSlotLeft DEF Capacity
      <3> QED  BY <1>3, <2>8, <3>2
    <2>14. Capacity(p)' = n
      BY <2>5, <2>10 DEF Capacity, FreeSlots
    <2>15. ASSUME l = "drain_own", NEW i \in PendingRows PROVE Attends(p, i)'
      BY <2>4, <2>5, <2>12, <2>14, <2>15 DEF Attends
    <2>16. \A i \in PendingRows' : Full' \/ Attends(p, i)'
      BY <2>3, <2>6, <2>7, <2>13, <2>15
    <2> QED  BY <1>0, <2>4, <2>9, <2>16, DispatchSettled
  <1>6. CASE DrainOwn(p)
    <2> DEFINE best == LeastLoaded(local[p].roster, local[p].loads)
    <2>1. pc[p] = "drain_own" /\ UNCHANGED <<status, version, automation, rows, connected, op, snap>>
      BY <1>6 DEF DrainOwn, At
    <2>2. /\ \A a \in Agents : local[p].loads[a] <= Load(a)
          /\ local[p].todo \subseteq PendingRows
      BY <1>0, <2>1 DEF Counts
    <2>3. PendingRows' = PendingRows
      BY <2>1 DEF PendingRows
    <2>4. CASE best = {}
      <3>1. Goto(p, "done") /\ UNCHANGED <<owner, target, actor, local>>
        BY <1>6, <2>4, Zenon DEF DrainOwn
      <3>2. Alike(p) /\ pc'[p] = "done"
        BY <2>1, <3>1, GotoAlike
      <3>3. \A a \in local[p].roster : local[p].loads[a] \in Nat
        BY <1>1
      <3>4. \A a \in local[p].roster : local[p].loads[a] >= Cap
        BY <2>4, <3>3, NobodyFree
      <3>5. Full
        BY <1>3, <2>2, <3>4
      <3>6. Full'
        BY <2>1, <3>1, <3>5 DEF Full, Load
      <3>7. Counts(p)'
        BY <3>2 DEF Counts, Round, Handing
      <3> QED  BY <1>0, <3>2, <3>6, <3>7, DispatchSettled
    <2>5. CASE best # {}
      <3>1. PICK i \in local[p].todo, a \in best :
                /\ owner' = [owner EXCEPT ![rows[i].case] = a]
                /\ target' = [target EXCEPT ![p] = rows[i].case]
                /\ actor' = [actor EXCEPT ![p] = a]
                /\ local' = [local EXCEPT ![p].row = i, ![p].todo = local[p].todo \ {i}]
                /\ Goto(p, "drain_reread")
        BY <1>6, <2>5, Zenon DEF DrainOwn
      <3> HIDE DEF best
      <3>2. \E x : local' = [local EXCEPT ![p] = x]
        BY <3>1
      <3>3. Alike(p) /\ pc'[p] = "drain_reread"
        BY <2>1, <3>1, <3>2, GotoAlike
      <3>4. /\ local'[p].row = i /\ local'[p].todo = local[p].todo \ {i}
            /\ local'[p].roster = local[p].roster /\ local'[p].loads = local[p].loads
        BY <3>1, Parts DEF LocalRecord
      <3>5. i \in PendingRows /\ rows[i].case \in Cases /\ status[rows[i].case] = "ESCALATED"
        BY <2>2, <3>1, Parts DEF PendingRows, CaseOf
      <3>6. InHands
        BY <2>1, <3>1, <3>5, Parts DEF InHands
      <3>7. \A b \in Agents : Load(b) <= Load(b)' /\ Load(b) \in Nat /\ Load(b)' \in Nat
        BY <3>6, LoadsGrow
      <3>8. \A b \in Agents : local'[p].loads[b] <= Load(b)'
        BY <1>1, <2>2, <3>4, <3>7
      <3>9. Counts(p)'
        BY <1>1, <2>1, <2>2, <2>3, <3>3, <3>4, <3>5, <3>8 DEF Counts, Round, Handing
      <3>10. Full => Full'
        BY <2>1, <3>6, FullStays
      <3>11. PICK n : n = Capacity(p)
        OBVIOUS
      <3>12. Capacity(p)' = n /\ n \in Nat
        BY <3>4, <3>11, RoundSlots DEF Capacity, FreeSlots
      <3>13. Cardinality(local'[p].todo) = Cardinality(local[p].todo) - 1 /\ Cardinality(local[p].todo) \in Nat
        <4>1. IsFiniteSet(local[p].todo)
          BY <2>2, RowsFinite, FS_Subset
        <4> QED  BY <3>1, <3>4, <4>1, FS_RemoveElement, FS_CardinalityType
      <3>14. \A j : Attends(p, j) => j \in local[p].todo \/ n <= Cardinality(local[p].todo)
        BY <2>1, <3>11 DEF Attends, Naming, Writing, Handing
      <3>15. pc'[p] \in Naming /\ pc'[p] \in Handing
        BY <3>3 DEF Naming, Writing, Handing
      <3>16. ASSUME NEW j, Attends(p, j) PROVE Attends(p, j)'
        <4>1. CASE j = i
          BY <3>4, <3>15, <4>1 DEF Attends
        <4>2. CASE j # i /\ j \in local[p].todo
          BY <3>4, <3>15, <4>2 DEF Attends
        <4>3. CASE n <= Cardinality(local[p].todo)
          <5>1. n <= Cardinality(local'[p].todo) + 1
            BY <3>12, <3>13, <4>3
          <5> QED  BY <3>12, <3>15, <5>1 DEF Attends
        <4> QED  BY <3>14, <3>16, <4>1, <4>2, <4>3
      <3>17. \A j \in PendingRows' : Full' \/ Attends(p, j)' \/ \E q \in Calls \ {p} : Attends(q, j)
        BY <1>0, <2>3, <3>10, <3>16
      <3> QED  BY <1>0, <3>3, <3>9, <3>17, DispatchSettled
    <2> QED  BY <2>4, <2>5
  <1> QED  BY <1>4, <1>5, <1>6

LEMMA ServeSettled ==
    ASSUME Serial, Inv, CapInv, QueueInv, Settled, NEW p \in Calls,
           DrainReread(p) \/ DrainShift(p) \/ DrainRow(p) \/ DrainSilence(p)
    PROVE  Settled'
  <1>0. /\ Called(p) /\ Counts(p) /\ pc[p] \in Round /\ pc[p] \in Handing /\ pc[p] \in Dispatching
        /\ \A q \in Calls \ {p} : pc[q] \notin Dispatching
        /\ \A i \in PendingRows : Full \/ Attends(p, i) \/ \E q \in Calls \ {p} : Attends(q, i)
    <2>1. pc[p] \in Round /\ pc[p] \in Handing /\ pc[p] \in Dispatching
      BY DEF DrainReread, DrainShift, DrainRow, DrainSilence, At, Round, Handing, Dispatching
    <2> QED  BY <2>1, Alone DEF QueueInv, Settled
  <1>1. /\ connected \subseteq local[p].roster /\ local[p].roster \subseteq Agents
        /\ local[p].loads \in [Agents -> Nat] /\ connected \subseteq Agents
        /\ status \in [Cases -> Statuses] /\ target[p] \in Cases
        /\ actor[p] \in local[p].roster /\ local[p].row \notin local[p].todo
        /\ local[p].todo \subseteq PendingRows /\ local[p].todo \subseteq DOMAIN rows
    BY <1>0, Parts DEF Counts, Called, LocalRecord
  \* A step of the round but its last.
  <1>2. ASSUME Alike(p), pc'[p] \in {"drain_shift", "drain_row", "drain_silence"},
               UNCHANGED <<connected, actor, local>>, InHands,
               PendingRows' \subseteq PendingRows, local[p].todo \subseteq PendingRows',
               pc'[p] = "drain_shift" => /\ local[p].row \in PendingRows'
                                         /\ \A a \in Agents : local[p].loads[a] <= Load(a)',
               pc'[p] # "drain_shift" => \A a \in Agents :
                  (IF a = actor[p] THEN local[p].loads[a] + 1 ELSE local[p].loads[a]) <= Load(a)',
               \A i \in PendingRows' : i = local[p].row => pc'[p] = "drain_shift"
        PROVE  Settled'
    <2>1. Counts(p)'
      BY <1>1, <1>2 DEF Counts, Round, Handing
    <2>2. Capacity(p)' = Capacity(p)
      BY <1>2 DEF Capacity, FreeSlots
    <2>3. /\ pc'[p] \in Handing /\ (pc'[p] = "drain_shift" => pc'[p] \in Naming)
      BY <1>2 DEF Handing, Naming, Writing
    <2>4. pc[p] \notin {"drain_load", "drain_fetch", "drain_own"}
      BY <1>0 DEF Handing
    <2>5. \A i \in PendingRows' : Attends(p, i) => Attends(p, i)'
      BY <1>0, <1>2, <2>2, <2>3, <2>4 DEF Attends
    <2>6. \A i \in PendingRows' : Full' \/ Attends(p, i)' \/ \E q \in Calls \ {p} : Attends(q, i)
      BY <1>0, <1>2, <2>5, FullStays
    <2> QED  BY <1>0, <1>2, <2>1, <2>6, DispatchSettled
  <1>3. CASE DrainReread(p)
    <2>1. Read(p) /\ pc[p] = "drain_reread"
      BY <1>3 DEF DrainReread, At
    <2>2. /\ local[p].row \in PendingRows /\ CaseOf(local[p].row) = target[p]
          /\ \A a \in Agents : local[p].loads[a] <= Load(a)
      BY <1>0, <2>1 DEF Counts, Called, Naming, Writing
    <2>3. status[target[p]] = "ESCALATED"
      BY <2>2 DEF PendingRows, CaseOf
    <2>4. Goto(p, "drain_shift")
      BY <1>3, <2>3 DEF DrainReread
    <2>5. Alike(p) /\ pc'[p] = "drain_shift" /\ UNCHANGED <<status, owner, rows, connected, actor, local>>
      BY <2>1, <2>4, ReadIs
    <2>6. InHands /\ PendingRows' = PendingRows /\ \A a \in Agents : Load(a)' = Load(a)
      BY <2>5 DEF InHands, PendingRows, Load
    <2> QED  BY <1>1, <1>2, <2>2, <2>5, <2>6
  <1>4. CASE DrainShift(p)
    <2>1. Transition(p, "HUMAN_ACTIVE", "drain_row") /\ pc[p] = "drain_shift"
      BY <1>4 DEF DrainShift, At
    <2>2. /\ local[p].row \in PendingRows /\ CaseOf(local[p].row) = target[p] /\ local[p].row \in DOMAIN rows
          /\ \A a \in Agents : local[p].loads[a] <= Load(a)
          /\ owner[target[p]] = actor[p] /\ actor[p] \in Agents
      BY <1>0, <2>1 DEF Counts, Called, Naming, Writing
    <2>3. status[target[p]] = "ESCALATED"
      BY <2>2 DEF PendingRows, CaseOf
    <2>4. snap[p].version = version[target[p]]
      BY <1>0, <2>1, <2>3 DEF Called
    <2>5. /\ UNCHANGED <<owner, connected, rows, actor, local>> /\ Alike(p)
          /\ pc'[p] = "drain_row" /\ status' = [status EXCEPT ![target[p]] = "HUMAN_ACTIVE"]
      BY <2>1, <2>4, ShiftIs
    <2>6. InHands
      BY <1>1, <2>5 DEF InHands
    <2>7. PendingRows' = PendingRows \ {local[p].row}
      <3>1. \A i \in DOMAIN rows : CaseOf(i) \in Cases /\ (CaseOf(i) = target[p] => i = local[p].row)
        BY <2>2, Parts DEF QueueInv, Rowed
      <3>2. \A i \in DOMAIN rows : i # local[p].row => status'[rows[i].case] = status[rows[i].case]
        BY <1>1, <2>5, <3>1 DEF CaseOf
      <3>3. status'[rows[local[p].row].case] # "ESCALATED"
        BY <1>1, <2>2, <2>5 DEF CaseOf
      <3> QED  BY <2>5, <3>2, <3>3 DEF PendingRows
    <2>8. Load(actor[p])' = Load(actor[p]) + 1
      <3>1. PICK a \in Agents : a = actor[p]
        BY <2>2
      <3>2. Attended(a)' = Attended(a) \cup {target[p]} /\ target[p] \notin Attended(a)
        BY <1>1, <2>2, <2>3, <2>5, <3>1 DEF Attended
      <3>3. Cardinality(Attended(a)') = Load(a) + 1
        BY <3>2, AttendedFinite, FS_AddElement
      <3>4. Load(a)' = Cardinality(Attended(a)')
        BY DEF Load, Attended
      <3>5. Load(actor[p])' = Load(a)'
        BY <2>5, <3>1 DEF Load
      <3> QED  BY <3>1, <3>3, <3>4, <3>5
    <2>9. \A a \in Agents : (IF a = actor[p] THEN local[p].loads[a] + 1 ELSE local[p].loads[a]) <= Load(a)'
      <3>1. \A a \in Agents : Load(a) <= Load(a)' /\ Load(a) \in Nat /\ Load(a)' \in Nat
        BY <2>6, LoadsGrow
      <3>2. PICK b \in Agents : b = actor[p]
        BY <2>2
      <3>3. Load(b)' = Load(b) + 1
        BY <2>5, <2>8, <3>2 DEF Load
      <3> QED  BY <1>1, <2>2, <3>1, <3>2, <3>3
    <2> QED  BY <1>1, <1>2, <2>5, <2>6, <2>7, <2>9
  <1>5. CASE DrainRow(p)
    <2>1. UpdateRow({local[p].row}, "ASSIGNED", actor[p]) /\ Goto(p, "drain_silence") /\ pc[p] = "drain_row"
      BY <1>5 DEF DrainRow, At
    <2>2. UNCHANGED <<status, owner, connected, op, target, actor, snap, local>>
      BY <2>1 DEF UpdateRow
    <2>3. Alike(p) /\ pc'[p] = "drain_silence"
      BY <2>1, <2>2, GotoAlike
    <2>4. /\ local[p].row \in DOMAIN rows /\ CaseOf(local[p].row) = target[p] /\ status[target[p]] # "ESCALATED"
      BY <1>0, <2>1 DEF Called, Naming, Writing
    <2>5. local[p].row \notin PendingRows
      BY <2>4 DEF PendingRows, CaseOf
    <2>6. PendingRows' = PendingRows
      BY <2>1, <2>4, <2>5, RowUpdated
    <2>7. InHands /\ \A a \in Agents : Load(a)' = Load(a)
      BY <2>2 DEF InHands, Load
    <2>8. \A a \in Agents : (IF a = actor[p] THEN local[p].loads[a] + 1 ELSE local[p].loads[a]) <= Load(a)
      BY <1>0, <2>1 DEF Counts
    <2> QED  BY <1>1, <1>2, <2>2, <2>3, <2>5, <2>6, <2>7, <2>8
  <1>6. CASE DrainSilence(p)
    <2>1. /\ SetAutomation(p, FALSE) /\ UNCHANGED actor /\ pc[p] = "drain_silence"
          /\ local' = [local EXCEPT ![p].loads[actor[p]] = local[p].loads[actor[p]] + 1]
      BY <1>6, Parts DEF DrainSilence, At, LocalRecord
    <2>2. PICK l \in {"done", "drain_own"} : Goto(p, l) /\ (l = "done" => local[p].todo = {})
      BY <1>6, Zenon DEF DrainSilence
    <2>3. UNCHANGED <<status, owner, rows, connected, op, target, snap>>
      BY <2>1, SilenceIs
    <2>4. Alike(p) /\ pc'[p] = l
      <3>1. \E x : local' = [local EXCEPT ![p] = x]
        BY <2>1
      <3> QED  BY <2>1, <2>2, <2>3, <3>1, GotoAlike
    <2>5. PICK a \in Agents : a = actor[p] /\ a \in local[p].roster
      BY <1>1
    <2>6. /\ local'[p].loads = [local[p].loads EXCEPT ![a] = local[p].loads[a] + 1]
          /\ local'[p].roster = local[p].roster /\ local'[p].todo = local[p].todo
      BY <2>1, <2>5, Parts DEF LocalRecord
    <2>7. local[p].loads[a] < Cap
      BY <1>0, <2>1, <2>5 DEF CapInv, RoomLeft, Room, Serving
    <2>8. PICK n : n = Capacity(p)
      OBVIOUS
    <2>9. Capacity(p)' = n - 1 /\ n \in Nat
      BY <2>5, <2>6, <2>7, <2>8, SlotTaken, RoundSlots
    <2>10. PendingRows' = PendingRows /\ (Full' <=> Full) /\ \A b \in Agents : Load(b)' = Load(b)
      BY <2>3 DEF PendingRows, Full, Load
    <2>11. \A b \in Agents : (IF b = a THEN local[p].loads[b] + 1 ELSE local[p].loads[b]) <= Load(b)
      BY <1>0, <2>1, <2>5 DEF Counts
    <2>12. \A b \in Agents : local'[p].loads[b] <= Load(b)
      BY <1>1, <2>6, <2>11
    <2>13. Counts(p)'
      BY <1>1, <2>2, <2>3, <2>4, <2>6, <2>10, <2>12 DEF Counts, Round, Handing
    <2>14. \A i : Attends(p, i) => i \in local[p].todo \/ n <= Cardinality(local[p].todo) + 1
      BY <2>1, <2>8 DEF Attends, Naming, Writing
    <2>15. IsFiniteSet(local[p].todo) /\ Cardinality(local[p].todo) \in Nat
      BY <1>1, RowsFinite, FS_Subset, FS_CardinalityType
    <2>16. ASSUME l = "done", NEW i \in PendingRows, Attends(p, i) PROVE Full
      <3>1. n <= 1
        BY <2>2, <2>14, <2>16, FS_EmptySet
      <3>2. Capacity(p)' = 0
        <4>1. n # 0
          <5>1. <<a, Cap>> \in FreeSlots(p)
            BY <2>5, <2>7, CapAssumption DEF FreeSlots
          <5> QED  BY <2>8, <5>1, RoundSlots, FS_EmptySet DEF Capacity
        <4> QED  BY <2>9, <3>1, <4>1
      <3>3. \A b \in local[p].roster : local'[p].loads[b] >= Cap
        <4>1. Cardinality(Slots(local[p].roster, local'[p].loads)) = 0
          BY <2>6, <3>2 DEF Capacity, FreeSlots, Slots
        <4>2. local'[p].loads \in [Agents -> Nat]
          BY <1>1, <2>6
        <4> QED  BY <1>1, <4>1, <4>2, NoSlotLeft
      <3> SUFFICES ASSUME NEW b \in connected PROVE Load(b) >= Cap
        BY DEF Full
      <3>4. b \in Agents /\ b \in local[p].roster
        BY <1>1
      <3>5. local'[p].loads[b] >= Cap /\ local'[p].loads[b] <= Load(b) /\ Load(b) \in Nat /\ local'[p].loads[b] \in Nat
        BY <1>1, <2>6, <2>12, <3>3, <3>4, LoadType
      <3> QED  BY <3>5, CapAssumption
    <2>17. ASSUME l = "drain_own", NEW i \in PendingRows, Attends(p, i) PROVE Attends(p, i)'
      <3>1. CASE i \in local[p].todo
        BY <2>4, <2>6, <2>17, <3>1 DEF Attends
      <3>2. CASE n <= Cardinality(local[p].todo) + 1
        <4>1. n - 1 <= Cardinality(local'[p].todo)
          BY <2>6, <2>9, <2>15, <3>2
        <4> QED  BY <2>4, <2>9, <2>17, <4>1 DEF Attends
      <3> QED  BY <2>14, <2>17, <3>1, <3>2
    <2>18. \A i \in PendingRows' : Full' \/ Attends(p, i)' \/ \E q \in Calls \ {p} : Attends(q, i)
      BY <1>0, <2>2, <2>10, <2>16, <2>17
    <2> QED  BY <1>0, <2>4, <2>13, <2>18, DispatchSettled
  <1> QED  BY <1>3, <1>4, <1>5, <1>6

LEMMA Moves ==
    ASSUME NEW p \in Calls, Escalation(p) \/ Drain(p) \/ CompleteRead(p) \/ CompleteShift(p)
    PROVE  \E l : Goto(p, l)
  <1>1. CASE Escalation(p)
    BY <1>1 DEF Escalation, EscRead, EscFind, EscShift, EscSilence, EscCreate, AdvRead, AdvShift, AdvSilence,
       EnsureFind, AutoPick, AutoOwn, AutoReread, AutoShift, AutoRow, AutoSilence, Transition
  <1>2. CASE Drain(p)
    BY <1>2 DEF Drain, DrainRoster, DrainLoad, DrainFetch, DrainOwn, DrainReread, DrainShift, DrainRow,
       DrainSilence, Transition
  <1>3. CASE CompleteRead(p) \/ CompleteShift(p)
    BY <1>3 DEF CompleteRead, CompleteShift, Transition
  <1> QED  BY <1>1, <1>2, <1>3

LEMMA StayIdle ==
    ASSUME Inv, IdleInv, UNCHANGED <<tables, frame>>, connected' \subseteq connected
    PROVE  IdleInv'
  <1>1. /\ status' = status /\ owner' = owner /\ rows' = rows
        /\ pc' = pc /\ actor' = actor /\ local' = local
    BY DEF tables, frame
  <1>2. CASE Waiting
    BY <1>1, <1>2 DEF Waiting, IdleInv
  <1>3. CASE Settled
    <2>1. \A a : Load(a)' = Load(a)
      BY <1>1 DEF Load
    <2>2. Full => Full'
      BY <2>1 DEF Full
    <2>3. PendingRows' = PendingRows
      BY <1>1 DEF PendingRows
    <2>4. \A q \in Calls : \A i : Attends(q, i)' <=> Attends(q, i)
      BY <1>1 DEF Attends, Capacity, FreeSlots
    <2>5. ASSUME NEW q \in Calls PROVE Counts(q)'
      <3>1. Counts(q)
        BY <1>3 DEF Settled
      <3>2. /\ pc'[q] \in Round => connected' \subseteq local'[q].roster
            /\ pc'[q] \in {"drain_own"} \cup Handing => local'[q].todo \subseteq PendingRows'
            /\ pc'[q] \in {"drain_reread", "drain_shift"} => local'[q].row \in PendingRows'
        BY <1>1, <2>3, <3>1 DEF Counts
      <3>3. /\ pc'[q] \in {"drain_fetch", "drain_own", "drain_reread", "drain_shift"} =>
                 \A a \in Agents : local'[q].loads[a] <= Load(a)'
            /\ pc'[q] \in {"drain_row", "drain_silence"} =>
                 \A a \in Agents : (IF a = actor'[q] THEN local'[q].loads[a] + 1 ELSE local'[q].loads[a]) <= Load(a)'
        BY <1>1, <2>1, <3>1 DEF Counts
      <3>4. pc'[q] = "auto_own" => \A i \in PendingRows' : \E r \in Calls : Attends(r, i)'
        BY <1>1, <2>3, <2>4, <3>1 DEF Counts
      <3> QED  BY <3>2, <3>3, <3>4 DEF Counts
    <2>6. \A i \in PendingRows' : Full' \/ \E q \in Calls : Attends(q, i)'
      BY <1>3, <2>2, <2>3, <2>4 DEF Settled
    <2> QED  BY <2>5, <2>6 DEF Settled, IdleInv
  <1> QED  BY <1>2, <1>3 DEF IdleInv

\* A call that attends nothing leaves the tables as they are.
LEMMA AsideIdle ==
    ASSUME Inv, IdleInv, NEW p \in Calls, NEW l, Goto(p, l), Alike(p),
           pc[p] \in {"idle", "complete_read", "complete_shift"}, l \notin Round \cup {"auto_own"},
           UNCHANGED <<status, owner, rows, connected>>
    PROVE  IdleInv'
  <1>1. CASE Waiting
    BY <1>1, StillWaiting DEF IdleInv
  <1>2. CASE Settled
    <2>1. pc'[p] = l
      BY Parts DEF Goto
    <2>2. \A i : ~Attends(p, i)
      BY DEF Attends, Naming, Writing, Handing
    <2>3. InHands /\ PendingRows' = PendingRows
      BY DEF InHands, PendingRows
    <2> QED  BY <1>2, <2>1, <2>2, <2>3, AsideSettled DEF IdleInv
  <1> QED  BY <1>1, <1>2 DEF IdleInv

LEMMA ClosingIdle ==
    ASSUME Inv, IdleInv, NEW p \in Calls, CompleteRead(p) \/ CompleteShift(p)
    PROVE  IdleInv'
  <1>1. CASE CompleteRead(p)
    <2>1. PICK l \in {"failed", "complete_shift"} : Goto(p, l)
      BY <1>1, Zenon DEF CompleteRead
    <2>2. Read(p) /\ pc[p] = "complete_read"
      BY <1>1 DEF CompleteRead, At
    <2>3. Alike(p) /\ UNCHANGED <<status, owner, rows, connected>>
      BY <2>1, <2>2, ReadIs
    <2> QED  BY <2>1, <2>2, <2>3, AsideIdle DEF Round, Handing
  <1>2. CASE CompleteShift(p)
    <2>1. Transition(p, "COMPLETED", "drain_roster") /\ pc[p] = "complete_shift"
      BY <1>2 DEF CompleteShift, At
    <2>2. UNCHANGED <<owner, rows, connected>> /\ Alike(p)
      BY <2>1, ShiftIs
    <2>3. CASE snap[p].version = version[target[p]]
      BY <2>1, <2>3, ShiftIs DEF Waiting, IdleInv
    <2>4. CASE snap[p].version # version[target[p]]
      BY <2>1, <2>2, <2>4, ShiftIs, AsideIdle DEF Round, Handing
    <2> QED  BY <2>3, <2>4
  <1> QED  BY <1>1, <1>2

LEMMA StepIdle ==
    ASSUME Serial, Inv, CapInv, QueueInv, IdleInv, NEW p \in Calls, Step(p)
    PROVE  IdleInv'
  <1>1. pc[p] \in Reached
    BY DEF QueueInv, Called
  <1>2. Escalation(p) \/ Drain(p) \/ CompleteRead(p) \/ CompleteShift(p)
    BY <1>1, OnlyThese
  <1>3. CASE DrainRoster(p)
    BY <1>3, RosterSettled DEF IdleInv
  <1>4. CASE CompleteRead(p) \/ CompleteShift(p)
    BY <1>4, ClosingIdle
  <1>5. CASE ~DrainRoster(p) /\ (Escalation(p) \/ Drain(p))
    <2>1. CASE Waiting
      <3>1. pc[p] # "drain_roster"
        BY <1>5 DEF Escalation, Drain, EscRead, EscFind, EscShift, EscSilence, EscCreate, AdvRead, AdvShift,
           AdvSilence, EnsureFind, AutoPick, AutoOwn, AutoReread, AutoShift, AutoRow, AutoSilence, DrainLoad,
           DrainFetch, DrainOwn, DrainReread, DrainShift, DrainRow, DrainSilence, At
      <3> QED  BY <1>5, <2>1, <3>1, Moves, StillWaiting DEF IdleInv
    <2>2. CASE Settled
      BY <1>5, <2>2, EscalationSettled, AutoSettled, RoundSettled, ServeSettled, Zenon
         DEF IdleInv, Escalation, Drain
    <2> QED  BY <2>1, <2>2 DEF IdleInv
  <1> QED  BY <1>2, <1>3, <1>4, <1>5

LEMMA NextIdle ==
    ASSUME OnlyQueueOps, Serial, ~CanFail, Inv, CapInv, QueueInv, IdleInv, [Next]_vars
    PROVE  IdleInv'
  <1>1. CASE UNCHANGED vars
    BY <1>1, StayIdle DEF vars
  <1>2. ASSUME NEW p \in Calls, NEW o \in Ops, NEW c \in Cases, NEW a \in Agents, Start(p, o, c, a)
        PROVE  IdleInv'
    <2>1. /\ pc[p] = "idle" /\ Goto(p, FirstLabel(o)) /\ op' = [op EXCEPT ![p] = o]
          /\ target' = [target EXCEPT ![p] = c] /\ actor' = [actor EXCEPT ![p] = a]
          /\ UNCHANGED <<status, owner, rows, connected, snap, local>>
      BY <1>2 DEF Start, At, tables
    <2>2. Alike(p)
      BY <2>1, GotoAlike
    <2>3. FirstLabel(o) \notin Round \cup {"auto_own"}
      BY DEF OnlyQueueOps, QueueOps, FirstLabel, Round, Handing
    <2> QED  BY <2>1, <2>2, <2>3, AsideIdle
  <1>3. ASSUME NEW p \in Calls, NEW a \in Agents, Connect(p, a) PROVE IdleInv'
    <2>1. Goto(p, "drain_roster")
      BY <1>3 DEF Connect
    <2>2. pc'[p] = "drain_roster"
      BY <2>1, Parts DEF Goto
    <2> QED  BY <2>2 DEF Waiting, IdleInv
  <1>4. ASSUME NEW a \in Agents, Disconnect(a) PROVE IdleInv'
    BY <1>4, StayIdle DEF Disconnect
  <1>5. CASE Next
    BY <1>2, <1>3, <1>4, <1>5, StepIdle, Zenon DEF Next, Fail
  <1> QED  BY <1>1, <1>5

LEMMA InitIdle == Init => IdleInv
  <1> SUFFICES ASSUME Init PROVE IdleInv
    OBVIOUS
  <1> PICK Q \in Queued : InitWith(Q)
    BY DEF Init
  <1>1. \A p \in Calls : pc[p] = "idle"
    BY DEF Init
  <1>2. \A p \in Calls : Counts(p)
    BY <1>1 DEF Counts, Round, Handing
  <1>3. CASE Q = {}
    <2>1. Cardinality(Q) = 0
      BY <1>3, FS_EmptySet
    <2>2. DOMAIN rows = {}
      BY <2>1 DEF InitWith
    <2> QED  BY <1>2, <2>2 DEF PendingRows, Settled, IdleInv
  <1>4. CASE Q # {}
    <2>1. connected = {}
      BY <1>4 DEF InitWith
    <2> QED  BY <1>2, <2>1 DEF Full, Settled, IdleInv
  <1> QED  BY <1>3, <1>4

\* complete-case.use-case.ts, realtime.router.ts, escalation.service.ts: while the
\* automation, drains and completions hand the cases over, one dispatching call
\* at a time, and no call dies, a case waits at rest only if every connected
\* agent is at the cap, whoever connected, left or completed a case meanwhile.
THEOREM NobodyIdle ==
    ASSUME OnlyQueueOps, Serial, ~CanFail
    PROVE  Spec => []NoIdleSlotAtRest
  <1>1. Inv /\ CapInv /\ QueueInv /\ IdleInv /\ [Next]_vars => Inv' /\ CapInv' /\ QueueInv' /\ IdleInv'
    BY NextGood, NextCap, NextQueue, NextIdle, ByQueueOnly
  <1>2. Inv /\ IdleInv => NoIdleSlotAtRest
    <2> SUFFICES ASSUME Inv, IdleInv, AtRest, NEW i \in PendingRows, NEW a \in connected, Load(a) < Cap
                 PROVE  FALSE
      BY DEF NoIdleSlotAtRest
    <2>1. ~Waiting /\ \A p \in Calls : ~Attends(p, i)
      BY DEF AtRest, Waiting, Attends, Naming, Writing, Handing
    <2>2. Load(a) >= Cap
      BY <2>1 DEF IdleInv, Settled, Full
    <2> QED  BY <2>2, LoadType, CapAssumption
  <1> QED  BY <1>1, <1>2, InitInv, InitCap, InitQueue, InitIdle, PTL DEF Spec

-----------------------------------------------------------------------------
(* The queue and the agents' hands follow AgentPool, whose specification has  *)
(* no escalations: while only drains and completions run.                     *)

OnlyDrains == Ops \subseteq {"drain", "complete"}
NoneOpens == \A p \in Calls : pc[p] \notin Opening \cup Giving

InQueue == {c \in Cases : status[c] = "ESCALATED"}
Holder == [c \in Cases |-> IF status[c] = "HUMAN_ACTIVE" THEN owner[c] ELSE Nobody]
Online == connected \cup UNION {local[p].roster : p \in {q \in Calls : pc[q] \in Dispatching}}

LEMMA OnlyDrainOrComplete ==
    ASSUME NEW p \in Calls, Step(p), pc[p] \in Reached, pc[p] \notin Opening \cup Giving
    PROVE  Drain(p) \/ CompleteRead(p) \/ CompleteShift(p)
  <1>1. Escalation(p) \/ Drain(p) \/ CompleteRead(p) \/ CompleteShift(p)
    BY OnlyThese
  <1> QED  BY <1>1 DEF Escalation, EscRead, EscFind, EscShift, EscSilence, EscCreate, AdvRead, AdvShift,
     AdvSilence, EnsureFind, AutoPick, AutoOwn, AutoReread, AutoShift, AutoRow, AutoSilence, At, Opening, Giving

LEMMA NextOpensNone ==
    ASSUME OnlyDrains, ~CanFail, Inv, QueueInv, NoneOpens, [Next]_vars
    PROVE  NoneOpens'
  <1>1. ASSUME NEW p \in Calls, NEW l, l \notin Opening \cup Giving, Goto(p, l) PROVE NoneOpens'
    BY <1>1, Parts DEF Goto, NoneOpens
  <1>2. ASSUME NEW p \in Calls, Step(p) PROVE NoneOpens'
    <2>1. pc[p] \in Reached /\ pc[p] \notin Opening \cup Giving
      BY DEF QueueInv, Called, NoneOpens
    <2>2. Drain(p) \/ CompleteRead(p) \/ CompleteShift(p)
      BY <1>2, <2>1, OnlyDrainOrComplete
    <2>3. CASE Drain(p)
      <3>1. \E l \in {"done", "failed", "drain_load", "drain_fetch", "drain_own", "drain_reread", "drain_shift",
                      "drain_row", "drain_silence"} : Goto(p, l)
        BY <2>3 DEF Drain, DrainRoster, DrainLoad, DrainFetch, DrainOwn, DrainReread, DrainShift, DrainRow,
           DrainSilence, Transition
      <3> QED  BY <1>1, <3>1 DEF Opening, Giving
    <2>4. CASE CompleteRead(p) \/ CompleteShift(p)
      <3>1. \E l \in {"failed", "complete_shift", "drain_roster"} : Goto(p, l)
        BY <2>4 DEF CompleteRead, CompleteShift, Transition
      <3> QED  BY <1>1, <3>1 DEF Opening, Giving
    <2> QED  BY <2>2, <2>3, <2>4
  <1>3. ASSUME NEW p \in Calls, NEW o \in Ops, NEW c \in Cases, NEW a \in Agents, Start(p, o, c, a)
        PROVE  NoneOpens'
    <2>1. FirstLabel(o) \notin Opening \cup Giving
      BY DEF OnlyDrains, FirstLabel, Opening, Giving
    <2> QED  BY <1>1, <1>3, <2>1 DEF Start
  <1>4. ASSUME NEW p \in Calls, NEW a \in Agents, Connect(p, a) PROVE NoneOpens'
    BY <1>1, <1>4 DEF Connect, Opening, Giving
  <1>5. CASE UNCHANGED vars \/ \E a \in Agents : Disconnect(a)
    BY <1>5 DEF Disconnect, vars, frame, NoneOpens
  <1> QED  BY <1>2, <1>3, <1>4, <1>5, Zenon DEF Next, Fail

\* A step that neither takes a case from the queue nor out of a hand.
LEMMA PoolPresence ==
    ASSUME Inv', InQueue' = InQueue, Holder' = Holder
    PROVE  Pool!Presence
  <1>1. connected' \subseteq Agents /\ \A p \in Calls : local'[p].roster \subseteq Agents
    BY DEF Inv, TypeOK, TableTypes, LocalTypes
  <1>2. Online' \subseteq Agents
    BY <1>1 DEF Online
  <1> QED  BY <1>2 DEF Pool!Presence, InQueue, Holder, Online

LEMMA SameHands ==
    ASSUME status' = status, \A c \in Cases : status[c] = "HUMAN_ACTIVE" => owner'[c] = owner[c]
    PROVE  InQueue' = InQueue /\ Holder' = Holder
  BY DEF InQueue, Holder

LEMMA PoolCardinality == \A S : Pool!Cardinality(S) = Cardinality(S)
  BY DEF Pool!Cardinality, Cardinality

\* The case is handed over: an agent of the round below the cap gets it.
LEMMA PoolDispatch ==
    ASSUME Inv, Inv', CapInv, QueueInv, NEW p \in Calls, DrainShift(p)
    PROVE  Pool!Next
  <1>1. Transition(p, "HUMAN_ACTIVE", "drain_row") /\ pc[p] = "drain_shift"
    BY DEF DrainShift, At
  <1>2. /\ UNCHANGED <<owner, connected, local>> /\ Alike(p) /\ Called(p)
        /\ status \in [Cases -> Statuses] /\ target[p] \in Cases /\ local[p].loads \in [Agents -> Nat]
    BY <1>1, ShiftIs, Parts DEF QueueInv, LocalRecord
  <1>3. CASE snap[p].version = version[target[p]]
    <2> PICK t \in Cases, a \in Agents : t = target[p] /\ a = actor[p]
      BY <1>1, <1>2 DEF Called, Writing
    <2>1. pc'[p] = "drain_row" /\ status' = [status EXCEPT ![t] = "HUMAN_ACTIVE"]
      BY <1>1, <1>3, ShiftIs
    <2>2. status[t] = "ESCALATED" /\ owner[t] = a /\ a \in local[p].roster
      BY <1>1, <1>2, <1>3 DEF Called, Writing, Handing, Inv, SnapSound, Sound, Holding
    <2>3. a \in Online
      BY <1>1, <2>2 DEF Online, Dispatching
    <2>4. UNCHANGED Online
      <3>1. \A q \in Calls : pc'[q] \in Dispatching <=> pc[q] \in Dispatching
        BY <1>1, <1>2, <2>1 DEF Alike, Dispatching
      <3> QED  BY <1>2, <3>1 DEF Online
    <2>5. Attended(a) = {c \in Cases : Holder[c] = a}
      BY AgentsAssumption DEF Holder, Attended
    <2>6. Cardinality({c \in Cases : Holder[c] = a}) < Cap
      <3>1. local[p].loads[a] < Cap /\ Cardinality(Attended(a) \cup {t}) <= local[p].loads[a] + 1
        BY <1>1 DEF CapInv, RoomLeft, Room, Dispatching, Serving, LoadWithTarget
      <3>2. t \notin Attended(a)
        BY <2>2 DEF Attended
      <3>3. IsFiniteSet(Attended(a)) /\ Cardinality(Attended(a)) \in Nat
        BY AttendedFinite
      <3>4. Cardinality(Attended(a) \cup {t}) = Cardinality(Attended(a)) + 1
        BY <3>2, <3>3, FS_AddElement
      <3>5. local[p].loads[a] \in Nat
        BY <1>2
      <3> HIDE DEF Holder
      <3> QED  BY <2>5, <3>1, <3>3, <3>4, <3>5, CapAssumption
    <2>7. InQueue' = InQueue \ {t} /\ t \in InQueue
      BY <1>2, <2>1, <2>2 DEF InQueue
    <2>8. Holder' = [Holder EXCEPT ![t] = a]
      <3>1. /\ Holder' \in [Cases -> Owners] /\ [Holder EXCEPT ![t] = a] \in [Cases -> Owners]
        BY <1>2, Parts DEF Holder, Inv, TypeOK, TableTypes, Owners
      <3>2. \A c \in Cases : Holder'[c] = [Holder EXCEPT ![t] = a][c]
        BY <1>2, <2>1, <2>2 DEF Holder
      <3> QED  BY <3>1, <3>2
    <2>9. Pool!Dispatch(t, a)
      <3>1. Pool!Held(a) < Cap
        BY <2>6, PoolCardinality DEF Pool!Held, Holder
      <3> QED  BY <2>3, <2>4, <2>7, <2>8, <3>1, Zenon DEF Pool!Dispatch, InQueue, Holder, Online
    <2> QED  BY <2>9 DEF Pool!Next, Pool!DispatchAny
  <1>4. CASE snap[p].version # version[target[p]]
    BY <1>1, <1>2, <1>4, ShiftIs, SameHands, PoolPresence DEF Pool!Next
  <1> QED  BY <1>3, <1>4

\* The case leaves the queue or the hand it is in, if it is in one.
LEMMA PoolLeave ==
    ASSUME Inv, Inv', QueueInv, NEW p \in Calls, CompleteShift(p)
    PROVE  Pool!Next
  <1>1. Transition(p, "COMPLETED", "drain_roster") /\ pc[p] = "complete_shift"
    BY DEF CompleteShift, At
  <1>2. /\ UNCHANGED <<owner, connected, local>> /\ Alike(p)
        /\ status \in [Cases -> Statuses] /\ owner \in [Cases -> Owners] /\ target[p] \in Cases
    BY <1>1, ShiftIs, Parts
  <1>3. CASE snap[p].version = version[target[p]]
    <2> PICK t \in Cases : t = target[p]
      BY <1>2
    <2>1. pc'[p] = "drain_roster" /\ status' = [status EXCEPT ![t] = "COMPLETED"]
      BY <1>1, <1>3, ShiftIs
    <2>2. UNCHANGED Online
      <3>1. \A q \in Calls : pc'[q] \in Dispatching <=> pc[q] \in Dispatching
        BY <1>1, <1>2, <2>1 DEF Alike, Dispatching
      <3> QED  BY <1>2, <3>1 DEF Online
    <2>3. CASE status[t] \in {"ESCALATED", "HUMAN_ACTIVE"}
      <3>1. status[t] = "HUMAN_ACTIVE" => owner[t] \in Agents
        BY DEF QueueInv, Queues
      <3>2. t \in InQueue \/ Holder[t] # Nobody
        BY <2>3, <3>1, AgentsAssumption DEF InQueue, Holder
      <3>3. InQueue' = InQueue \ {t}
        BY <1>2, <2>1 DEF InQueue
      <3>4. Holder' = [Holder EXCEPT ![t] = Nobody]
        <4>1. Holder' \in [Cases -> Owners] /\ [Holder EXCEPT ![t] = Nobody] \in [Cases -> Owners]
          BY <1>2 DEF Holder, Owners
        <4>2. \A c \in Cases : Holder'[c] = [Holder EXCEPT ![t] = Nobody][c]
          BY <1>2, <2>1 DEF Holder
        <4> QED  BY <4>1, <4>2
      <3>5. Pool!Leave(t)
        BY <2>2, <3>2, <3>3, <3>4 DEF Pool!Leave, InQueue, Holder, Online
      <3> QED  BY <3>5 DEF Pool!Next
    <2>4. CASE status[t] \notin {"ESCALATED", "HUMAN_ACTIVE"}
      <3>1. InQueue' = InQueue /\ Holder' = Holder
        BY <1>2, <2>1, <2>4 DEF InQueue, Holder
      <3> QED  BY <3>1, PoolPresence DEF Pool!Next
    <2> QED  BY <2>3, <2>4
  <1>4. CASE snap[p].version # version[target[p]]
    BY <1>1, <1>2, <1>4, ShiftIs, SameHands, PoolPresence DEF Pool!Next
  <1> QED  BY <1>3, <1>4

LEMMA PoolStep ==
    ASSUME OnlyDrains, ~CanFail, Inv, Inv', CapInv, QueueInv, NoneOpens, Next
    PROVE  Pool!Next
  <1>1. ASSUME status' = status, \A c \in Cases : status[c] = "HUMAN_ACTIVE" => owner'[c] = owner[c]
        PROVE  Pool!Next
    BY <1>1, SameHands, PoolPresence DEF Pool!Next
  <1>2. ASSUME NEW p \in Calls, Step(p) PROVE Pool!Next
    <2>1. pc[p] \in Reached /\ pc[p] \notin Opening \cup Giving
      BY DEF QueueInv, Called, NoneOpens
    <2>2. Drain(p) \/ CompleteRead(p) \/ CompleteShift(p)
      BY <1>2, <2>1, OnlyDrainOrComplete
    <2>3. CASE DrainRoster(p) \/ DrainLoad(p) \/ DrainFetch(p) \/ DrainReread(p) \/ DrainRow(p) \/ DrainSilence(p)
               \/ CompleteRead(p)
      <3>1. UNCHANGED <<status, owner>>
        BY <2>3 DEF DrainRoster, DrainLoad, DrainFetch, DrainReread, DrainRow, DrainSilence, CompleteRead,
           Read, UpdateRow, SetAutomation, tables
      <3> QED  BY <1>1, <3>1
    <2>4. CASE DrainOwn(p)
      <3>1. UNCHANGED status /\ pc[p] = "drain_own"
        BY <2>4 DEF DrainOwn, At
      <3>2. owner' = owner \/ \E i \in local[p].todo : \E a : owner' = [owner EXCEPT ![rows[i].case] = a]
        BY <2>4, Zenon DEF DrainOwn
      <3>3. \A i \in local[p].todo : status[rows[i].case] # "HUMAN_ACTIVE"
        BY <3>1 DEF QueueInv, Called, CaseOf
      <3>4. \A c \in Cases : status[c] = "HUMAN_ACTIVE" => owner'[c] = owner[c]
        BY <3>2, <3>3, Parts
      <3> QED  BY <1>1, <3>1, <3>4
    <2> QED  BY <2>2, <2>3, <2>4, PoolDispatch, PoolLeave DEF Drain
  <1>3. ASSUME NEW p \in Calls, NEW o \in Ops, NEW c \in Cases, NEW a \in Agents, Start(p, o, c, a)
        PROVE  Pool!Next
    BY <1>1, <1>3 DEF Start, tables
  <1>4. ASSUME NEW p \in Calls, NEW a \in Agents, Connect(p, a) PROVE Pool!Next
    BY <1>1, <1>4 DEF Connect, tables
  <1>5. ASSUME NEW a \in Agents, Disconnect(a) PROVE Pool!Next
    BY <1>1, <1>5 DEF Disconnect, tables
  <1> QED  BY <1>2, <1>3, <1>4, <1>5, Zenon DEF Next, Fail

\* 02_STATE_MACHINE.md, "Despacho Progresivo": while drains and completions run,
\* one dispatching call at a time, and no call dies, every step gives one queued
\* case to an agent of the round below the cap, closes a case, or changes neither
\* the queue nor what the agents have.
THEOREM DispatchFollowsPool ==
    ASSUME OnlyDrains, Serial, ~CanFail
    PROVE  Spec => Pool!Safe
  <1>1. OnlyQueueOps /\ NobodyByHand
    BY DEF OnlyDrains, OnlyQueueOps, QueueOps, NobodyByHand, ByHand
  <1>2. Init => NoneOpens /\ Pool!Init
    <2> SUFFICES ASSUME Init PROVE NoneOpens /\ Pool!Init
      OBVIOUS
    <2> PICK Q \in Queued : InitWith(Q)
      BY DEF Init
    <2>1. NoneOpens
      BY DEF Init, NoneOpens, Opening, Giving
    <2>2. Holder = [c \in Cases |-> Nobody]
      BY DEF Init, InitWith, Automatable, Holder
    <2>3. Online \subseteq Agents
      <3>1. Inv
        BY InitInv
      <3> QED  BY <3>1, Parts DEF Online, LocalRecord
    <2> QED  BY <2>1, <2>2, <2>3 DEF Pool!Init, Holder, Online
  <1>3. Inv /\ CapInv /\ QueueInv /\ NoneOpens /\ [Next]_vars
          => /\ Inv' /\ CapInv' /\ QueueInv' /\ NoneOpens'
             /\ [Pool!Next]_(Pool!vars)
    <2> SUFFICES ASSUME Inv, CapInv, QueueInv, NoneOpens, [Next]_vars
                 PROVE  /\ Inv' /\ CapInv' /\ QueueInv' /\ NoneOpens'
                        /\ [Pool!Next]_(Pool!vars)
      OBVIOUS
    <2>1. Inv' /\ CapInv' /\ QueueInv' /\ NoneOpens'
      BY <1>1, NextGood, NextCap, NextQueue, NextOpensNone
    <2>2. CASE Next
      BY <2>1, <2>2, PoolStep
    <2>3. CASE UNCHANGED vars
      <3>1. UNCHANGED <<InQueue, Holder, Online>>
        BY <2>3 DEF vars, tables, frame, InQueue, Holder, Online
      <3>2. InQueue' = InQueue /\ Holder' = Holder /\ Online' = Online
        BY <3>1
      <3>3. UNCHANGED Pool!vars
        BY <3>2 DEF Pool!vars, InQueue, Holder, Online
      <3> QED  BY <3>3, <2>1
    <2> QED  BY <2>1, <2>2, <2>3
  <1> QED  BY <1>2, <1>3, InitInv, InitCap, InitQueue, PTL DEF Spec, Pool!Safe
=============================================================================
