---------------------------- MODULE CampaignProofs ----------------------------
(***************************************************************************)
(* What holds of a campaign for every number of recipients, calls and      *)
(* invocations of the worker, and every size of the batch.                 *)
(***************************************************************************)
EXTENDS Campaigns, FiniteSetTheorems, TLAPS

LEMMA WGotoTypes ==
    ASSUME WorkerTypes, NEW w \in Ticks, NEW l \in WLabels, WGoto(w, l)
    PROVE  /\ wpc' \in [Ticks -> WLabels] /\ wpc'[w] = l
           /\ \A v \in Ticks : v # w => wpc'[v] = wpc[v]
  BY DEF WorkerTypes, WGoto

LEMMA GotoTypes ==
    ASSUME CallTypes, NEW p \in Calls, NEW l \in CLabels, Goto(p, l)
    PROVE  /\ pc' \in [Calls -> CLabels] /\ pc'[p] = l
           /\ \A q \in Calls : q # p => pc'[q] = pc[q]
  BY DEF CallTypes, Goto

\* A busy tick goes on: it stays the only one.
LEMMA StaysOne ==
    ASSUME TypeOK, NEW w \in Ticks, wpc[w] # "idle", NEW l \in WLabels, WGoto(w, l),
           UNCHANGED isProcessing
    PROVE  OneBatch'
  <1>1. wpc'[w] = l /\ \A v \in Ticks : v # w => wpc'[v] = wpc[v]
    BY WGotoTypes DEF TypeOK
  <1>2. \A v \in Ticks : v # w => wpc[v] = "idle"
    BY DEF TypeOK, OneBatch
  <1>3. isProcessing' /\ \A v \in Ticks : wpc'[v] # "idle" => v = w
    BY <1>1, <1>2, Zenon DEF TypeOK, OneBatch
  <1> QED  BY <1>3, Zenon DEF OneBatch

LEMMA NoneLeft ==
    ASSUME TypeOK, NEW w \in Ticks, wpc[w] # "idle", WGoto(w, "idle")
    PROVE  OneBatch' /\ wpc' \in [Ticks -> WLabels] /\ \A v \in Ticks : wpc'[v] = "idle"
  <1>1. /\ wpc' \in [Ticks -> WLabels] /\ wpc'[w] = "idle"
        /\ \A v \in Ticks : v # w => wpc'[v] = wpc[v]
    BY WGotoTypes DEF TypeOK, WLabels
  <1>2. \A v \in Ticks : v # w => wpc[v] = "idle"
    BY DEF TypeOK, OneBatch
  <1>3. \A v \in Ticks : wpc'[v] = "idle"
    BY <1>1, <1>2, Zenon
  <1> QED  BY <1>1, <1>3, Zenon DEF OneBatch

\* The same when the call is the actor: the worker is where it was.
LEMMA SameWorker ==
    ASSUME TypeOK, UNCHANGED <<jobs, isProcessing, worker>>
    PROVE  WorkerTypes' /\ OneBatch'
  BY Zenon DEF TypeOK, WorkerTypes, OneBatch, worker

\* A tick that goes on, or ends, keeps the worker's types.
LEMMA WorkerGoesOn ==
    ASSUME TypeOK, NEW w \in Ticks, wpc[w] # "idle", NEW l \in WLabels, WGoto(w, l),
           UNCHANGED queue, batch' \in [Ticks -> SUBSET Recipients], cur' \in [Ticks -> Recipients]
    PROVE  WorkerTypes' /\ OneBatch'
  <1>1. wpc' \in [Ticks -> WLabels]
    BY WGotoTypes DEF TypeOK
  <1>2. OneBatch'
    BY StaysOne DEF queue
  <1> QED  BY <1>1, <1>2, Zenon DEF WorkerTypes, TypeOK, queue

LEMMA WorkerEnds ==
    ASSUME TypeOK, NEW w \in Ticks, wpc[w] # "idle", WGoto(w, "idle"), isProcessing' = FALSE,
           jobs' \in Nat, UNCHANGED <<batch, cur>>
    PROVE  WorkerTypes' /\ OneBatch'
  <1>1. OneBatch' /\ wpc' \in [Ticks -> WLabels]
    BY NoneLeft
  <1>2. isProcessing' \in BOOLEAN
    BY Zenon
  <1> QED  BY <1>1, <1>2, Zenon DEF WorkerTypes, TypeOK

-----------------------------------------------------------------------------
(* Types, action by action *)

LEMMA InitType == Init => TypeOK
  <1> SUFFICES ASSUME Init PROVE TypeOK
    OBVIOUS
  <1>0. (CHOOSE r \in Recipients : TRUE) \in Recipients
    BY RecipientsAssumption
  <1>1. RowTypes
    BY DEF Init, RowTypes
  <1>2. isProcessing = FALSE
    BY DEF Init
  <1>3. isProcessing \in BOOLEAN
    BY <1>2, Zenon
  <1>4. WorkerTypes
    BY <1>0, <1>3 DEF Init, WorkerTypes, WLabels
  <1>5. CallTypes
    BY <1>0 DEF Init, CallTypes, CLabels
  <1>6. HistoryTypes
    BY DEF Init, HistoryTypes
  <1>7. OneBatch
    BY DEF Init, OneBatch
  <1> QED  BY <1>1, <1>4, <1>5, <1>6, <1>7 DEF TypeOK

LEMMA TickType ==
    ASSUME TypeOK, NEW w \in Ticks, Tick(w)
    PROVE  TypeOK'
  <1>1. UNCHANGED <<campaign, rows, batch, cur, calls, history>>
    BY DEF Tick
  <1>2. RowTypes' /\ CallTypes' /\ HistoryTypes'
    BY <1>1, Zenon DEF TypeOK, RowTypes, CallTypes, HistoryTypes, campaign, rows, calls, history
  <1>3. /\ wpc' \in [Ticks -> WLabels] /\ wpc'[w] = "read"
        /\ \A v \in Ticks : v # w => wpc'[v] = wpc[v]
    BY WGotoTypes DEF Tick, TypeOK, WLabels
  <1>4. isProcessing' = TRUE /\ ~isProcessing
    BY DEF Tick
  <1>5. OneBatch'
    BY <1>3, <1>4, Zenon DEF TypeOK, OneBatch
  <1>6. jobs' \in Nat
    BY DEF Tick, TypeOK, WorkerTypes
  <1>7. WorkerTypes'
    BY <1>1, <1>3, <1>4, <1>6, Zenon DEF TypeOK, WorkerTypes
  <1> QED  BY <1>2, <1>5, <1>7 DEF TypeOK

LEMMA ReadType ==
    ASSUME TypeOK, NEW w \in Ticks, BatchRead(w) \/ BatchFetch(w) \/ NextRecipient(w)
    PROVE  TypeOK'
  <1>1. UNCHANGED <<campaign, rows, calls, history>> /\ wpc[w] # "idle"
    BY DEF BatchRead, BatchFetch, NextRecipient, WAt
  <1>2. RowTypes' /\ CallTypes' /\ HistoryTypes'
    BY <1>1, Zenon DEF TypeOK, RowTypes, CallTypes, HistoryTypes, campaign, rows, calls, history
  <1>3. CASE End(w) /\ UNCHANGED <<batch, cur>>
    BY <1>1, <1>2, <1>3, WorkerEnds DEF End, TypeOK, WorkerTypes
  <1>4. CASE BatchRead(w) /\ ~(End(w) /\ UNCHANGED <<batch, cur>>)
    <2>1. WGoto(w, "fetch") /\ UNCHANGED <<queue, batch, cur>>
      BY <1>4 DEF BatchRead
    <2> QED  BY <1>1, <1>2, <2>1, WorkerGoesOn DEF TypeOK, WorkerTypes, WLabels
  <1>5. CASE BatchFetch(w)
    <2>1. PICK B \in SUBSET Pending : /\ batch' = [batch EXCEPT ![w] = B]
                                      /\ WGoto(w, IF B = {} THEN "recount" ELSE "next")
      BY <1>5, Zenon DEF BatchFetch
    <2>2. UNCHANGED <<queue, cur>>
      BY <1>5 DEF BatchFetch
    <2>3. batch' \in [Ticks -> SUBSET Recipients]
      BY <2>1 DEF Pending, TypeOK, WorkerTypes
    <2> QED  BY <1>1, <1>2, <2>1, <2>2, <2>3, WorkerGoesOn DEF TypeOK, WorkerTypes, WLabels
  <1>6. CASE NextRecipient(w) /\ ~(End(w) /\ UNCHANGED <<batch, cur>>)
    <2>1. PICK r \in batch[w] : /\ cur' = [cur EXCEPT ![w] = r]
                                /\ batch' = [batch EXCEPT ![w] = @ \ {r}]
      BY <1>6, Zenon DEF NextRecipient
    <2>2. WGoto(w, "send") /\ UNCHANGED queue
      BY <1>6, Zenon DEF NextRecipient
    <2>3. batch' \in [Ticks -> SUBSET Recipients] /\ cur' \in [Ticks -> Recipients]
      BY <2>1 DEF TypeOK, WorkerTypes
    <2> QED  BY <1>1, <1>2, <2>2, <2>3, WorkerGoesOn DEF TypeOK, WLabels
  <1> QED  BY <1>3, <1>4, <1>5, <1>6

LEMMA SendType ==
    ASSUME TypeOK, NEW w \in Ticks, Send(w)
    PROVE  TypeOK'
  <1>1. UNCHANGED <<campaign, rows, queue, batch, cur, calls>> /\ wpc[w] # "idle"
    BY DEF Send, WAt
  <1>2. RowTypes' /\ CallTypes'
    BY <1>1, Zenon DEF TypeOK, RowTypes, CallTypes, campaign, rows, calls
  <1>3. HistoryTypes'
    <2>1. CASE UNCHANGED history
      BY <2>1, Zenon DEF TypeOK, HistoryTypes, history
    <2>2. CASE Accepted(cur[w])
      <3>1. cur[w] \in Recipients /\ UNCHANGED <<again, repeats>>
        BY <2>2 DEF Accepted, TypeOK, WorkerTypes
      <3>2. sends' \in [Recipients -> Nat]
        BY <2>2, <3>1 DEF Accepted, TypeOK, HistoryTypes
      <3>3. since' \in Nat
        BY <2>2 DEF Accepted, TypeOK, HistoryTypes
      <3> QED  BY <3>1, <3>2, <3>3, Zenon DEF TypeOK, HistoryTypes
    <2> QED  BY <2>1, <2>2, Zenon DEF Send
  <1>4. \E l \in {"mark_sent", "mark_failed"} : WGoto(w, l)
    BY Zenon DEF Send
  <1>5. WorkerTypes' /\ OneBatch'
    BY <1>1, <1>4, WorkerGoesOn DEF TypeOK, WorkerTypes, WLabels
  <1> QED  BY <1>2, <1>3, <1>5 DEF TypeOK

LEMMA RecTypes ==
    ASSUME RowTypes, NEW r \in Recipients, NEW st \in {"ABSENT", "PENDING", "SENT", "FAILED"},
           SetRec(r, st)
    PROVE  rec' \in [Recipients -> {"ABSENT", "PENDING", "SENT", "FAILED"}]
  BY DEF RowTypes, SetRec

LEMMA MarkType ==
    ASSUME TypeOK, NEW w \in Ticks, MarkSent(w) \/ MarkFailed(w)
    PROVE  TypeOK'
  <1>1. UNCHANGED <<campaign, batch, cur, calls, history>> /\ wpc[w] # "idle"
    BY DEF MarkSent, MarkFailed, WAt
  <1>2. CallTypes' /\ HistoryTypes'
    BY <1>1, Zenon DEF TypeOK, CallTypes, HistoryTypes, calls, history
  <1>3. cur[w] \in Recipients /\ batch \in [Ticks -> SUBSET Recipients] /\ cur \in [Ticks -> Recipients]
    BY DEF TypeOK, WorkerTypes
  <1>4. rec' \in [Recipients -> {"ABSENT", "PENDING", "SENT", "FAILED"}]
    <2>1. UNCHANGED rec \/ \E st \in {"SENT", "FAILED"} : SetRec(cur[w], st)
      BY DEF MarkSent, MarkFailed, rows
    <2> QED  BY <1>3, <2>1, RecTypes DEF TypeOK, RowTypes
  <1>5. ext' \in [Recipients -> Nat]
    BY <1>3 DEF MarkSent, MarkFailed, rows, TypeOK, RowTypes, HistoryTypes
  <1>6. RowTypes'
    BY <1>1, <1>4, <1>5, Zenon DEF TypeOK, RowTypes, campaign
  <1>7. CASE End(w)
    BY <1>1, <1>2, <1>3, <1>6, <1>7, WorkerEnds DEF End, TypeOK, WorkerTypes
  <1>8. CASE ~End(w)
    <2>1. UNCHANGED queue /\ \E l \in {"mark_failed", "count_sent", "count_failed"} : WGoto(w, l)
      BY <1>8, Zenon DEF MarkSent, MarkFailed
    <2> QED  BY <1>1, <1>2, <1>3, <1>6, <2>1, WorkerGoesOn DEF TypeOK, WLabels
  <1> QED  BY <1>7, <1>8

LEMMA CountType ==
    ASSUME TypeOK, NEW w \in Ticks, CountSent(w) \/ CountFailed(w) \/ Recount(w)
    PROVE  TypeOK'
  <1>1. UNCHANGED <<status, rows, queue, batch, cur, calls, history>> /\ wpc[w] # "idle"
    BY DEF CountSent, CountFailed, Recount, WAt, campaign
  <1>2. CallTypes' /\ HistoryTypes'
    BY <1>1, Zenon DEF TypeOK, CallTypes, HistoryTypes, calls, history
  <1>3. sentCount' \in Int /\ failedCount' \in Int
    BY DEF CountSent, CountFailed, Recount, TypeOK, RowTypes, campaign
  <1>4. RowTypes'
    BY <1>1, <1>3, Zenon DEF TypeOK, RowTypes, rows
  <1>5. \E l \in WLabels : WGoto(w, l)
    BY DEF CountSent, CountFailed, Recount, AfterOne, WLabels
  <1> QED  BY <1>1, <1>2, <1>4, <1>5, WorkerGoesOn DEF TypeOK, WorkerTypes

LEMMA LastType ==
    ASSUME TypeOK, NEW w \in Ticks, Complete(w) \/ Requeue(w)
    PROVE  TypeOK'
  <1>1. /\ UNCHANGED <<sentCount, failedCount, rows, batch, cur, calls, sends, again, repeats>>
        /\ wpc[w] # "idle" /\ WGoto(w, "idle") /\ isProcessing' = FALSE
    BY DEF Complete, Requeue, End, WAt, campaign, history
  <1>2. jobs' \in Nat
    BY DEF Complete, Requeue, End, TypeOK, WorkerTypes
  <1>3. since' \in Nat /\ status' \in {"DRAFT", "RUNNING", "SUSPENDED", "COMPLETED", "NONE"}
    BY DEF Complete, Requeue, SetStatus, TypeOK, RowTypes, HistoryTypes, campaign, history
  <1>4. RowTypes' /\ CallTypes' /\ HistoryTypes'
    BY <1>1, <1>3, Zenon DEF TypeOK, RowTypes, CallTypes, HistoryTypes, rows, calls
  <1> QED  BY <1>1, <1>2, <1>4, WorkerEnds DEF TypeOK

LEMMA WStepType ==
    ASSUME TypeOK, NEW w \in Ticks, WStep(w)
    PROVE  TypeOK'
  BY ReadType, SendType, MarkType, CountType, LastType DEF WStep

-----------------------------------------------------------------------------
LEMMA BeginType ==
    ASSUME TypeOK, NEW p \in Calls, NEW o \in Handlers, Begin(p, o)
    PROVE  TypeOK'
  <1>1. UNCHANGED <<campaign, rows, queue, worker, todo, history>>
    BY DEF Begin
  <1>2. RowTypes' /\ HistoryTypes' /\ WorkerTypes' /\ OneBatch'
    BY <1>1, SameWorker, Zenon DEF TypeOK, RowTypes, HistoryTypes, campaign, rows, history, queue
  <1>3. FirstLabel(o) \in CLabels
    BY DEF Handlers, FirstLabel, CLabels
  <1>4. pc' \in [Calls -> CLabels]
    BY <1>3, GotoTypes DEF Begin, TypeOK
  <1>5. about' \in [Calls -> [to : Recipients, n : Nat]]
    <2>1. \A m \in Messages : m \in [to : Recipients, n : Nat]
      BY DEF Messages, TypeOK, HistoryTypes
    <2> QED  BY <2>1 DEF Begin, TypeOK, CallTypes
  <1> QED  BY <1>1, <1>2, <1>4, <1>5 DEF TypeOK, CallTypes

\* Calls that only move, or only change the campaign row.
LEMMA CallType ==
    ASSUME TypeOK, NEW p \in Calls, NEW l \in CLabels, Goto(p, l), RowTypes', HistoryTypes',
           UNCHANGED <<isProcessing, worker>>, jobs' \in Nat,
           todo' \in [Calls -> SUBSET Recipients], about' \in [Calls -> [to : Recipients, n : Nat]]
    PROVE  TypeOK'
  <1>1. pc' \in [Calls -> CLabels]
    BY GotoTypes DEF TypeOK
  <1>2. WorkerTypes' /\ OneBatch'
    BY Zenon DEF TypeOK, WorkerTypes, OneBatch, worker
  <1> QED  BY <1>1, <1>2 DEF TypeOK, CallTypes

LEMMA ReadStatusType ==
    ASSUME TypeOK, NEW p \in Calls, NEW l, NEW next \in CLabels, ReadStatus(p, l, next)
    PROVE  TypeOK'
  <1>1. Goto(p, next) /\ UNCHANGED <<campaign, rows, queue, worker, about, todo, history>>
    BY DEF ReadStatus
  <1>2. RowTypes' /\ HistoryTypes'
    BY <1>1, Zenon DEF TypeOK, RowTypes, HistoryTypes, campaign, rows, history
  <1> QED  BY <1>1, <1>2, CallType DEF TypeOK, WorkerTypes, CallTypes, queue

LEMMA ReadingType ==
    ASSUME TypeOK, NEW p \in Calls,
           \/ StartRead(p) \/ StartCount(p) \/ StartTotal(p) \/ ResumeRead(p) \/ SuspendRead(p)
           \/ ImportRead(p) \/ DeleteRead(p)
    PROVE  TypeOK'
  <1>1. \E l, next \in CLabels : ReadStatus(p, l, next)
    BY DEF StartRead, StartCount, StartTotal, ResumeRead, SuspendRead, ImportRead, DeleteRead, CLabels
  <1> QED  BY <1>1, ReadStatusType

\* Run, Suspend and Delete write the status; Enqueue queues a job.
LEMMA StatusType ==
    ASSUME TypeOK, NEW p \in Calls, Run(p) \/ Suspend(p) \/ Enqueue(p)
    PROVE  TypeOK'
  <1>1. /\ UNCHANGED <<sentCount, failedCount, rows, isProcessing, worker, about, todo, sends, again, repeats>>
        /\ \E l \in {"done", "enqueue"} : Goto(p, l)
    BY DEF Run, Suspend, Enqueue, campaign, queue, history
  <1>2. jobs' \in Nat
    BY DEF Run, Suspend, Enqueue, TypeOK, WorkerTypes, queue
  <1>3. since' \in Nat /\ status' \in {"DRAFT", "RUNNING", "SUSPENDED", "COMPLETED", "NONE"}
    BY DEF Run, Suspend, Enqueue, SetStatus, TypeOK, RowTypes, HistoryTypes, campaign, history
  <1>4. RowTypes' /\ HistoryTypes'
    BY <1>1, <1>3, Zenon DEF TypeOK, RowTypes, HistoryTypes, rows
  <1> QED  BY <1>1, <1>2, <1>4, CallType DEF TypeOK, CallTypes, CLabels

LEMMA RowsType ==
    ASSUME TypeOK, NEW p \in Calls, ResetRecipients(p) \/ Import(p) \/ Delete(p)
    PROVE  TypeOK'
  <1>1. /\ UNCHANGED <<sentCount, failedCount, queue, worker, about, todo, sends, since, repeats>>
        /\ \E l \in {"done", "zero_all", "zero_failed"} : Goto(p, l)
    BY DEF ResetRecipients, Import, Delete, campaign, history
  <1>2. status' \in {"DRAFT", "RUNNING", "SUSPENDED", "COMPLETED", "NONE"}
    BY DEF ResetRecipients, Import, Delete, campaign, TypeOK, RowTypes
  <1>3. rec' \in [Recipients -> {"ABSENT", "PENDING", "SENT", "FAILED"}] /\ ext' \in [Recipients -> Nat]
    BY DEF ResetRecipients, Import, Delete, TypeOK, RowTypes
  <1>4. again' \in [Recipients -> Nat]
    BY DEF ResetRecipients, Import, Delete, TypeOK, HistoryTypes, history
  <1>5. RowTypes' /\ HistoryTypes'
    BY <1>1, <1>2, <1>3, <1>4, Zenon DEF TypeOK, RowTypes, HistoryTypes
  <1> QED  BY <1>1, <1>5, CallType DEF TypeOK, WorkerTypes, CallTypes, CLabels, queue

LEMMA CountersType ==
    ASSUME TypeOK, NEW p \in Calls, ResetCounters(p) \/ CountReport(p)
    PROVE  TypeOK'
  <1>1. /\ UNCHANGED <<status, rows, queue, worker, about, todo, history>>
        /\ \E l \in {"start_total", "check", "done"} : Goto(p, l)
    BY DEF ResetCounters, CountReport
  <1>2. sentCount' \in Int /\ failedCount' \in Int
    BY DEF ResetCounters, CountReport, TypeOK, RowTypes
  <1>3. RowTypes' /\ HistoryTypes'
    BY <1>1, <1>2, Zenon DEF TypeOK, RowTypes, HistoryTypes, rows, history
  <1> QED  BY <1>1, <1>3, CallType DEF TypeOK, WorkerTypes, CallTypes, CLabels, queue

LEMMA ReportType ==
    ASSUME TypeOK, NEW p \in Calls, Report(p) \/ CheckMark(p)
    PROVE  TypeOK'
  <1>1. /\ UNCHANGED <<campaign, ext, queue, worker, about, todo, sends, again, since>>
        /\ \E l \in {"report_count", "check_count", "done"} : Goto(p, l)
    BY DEF Report, CheckMark
  <1>2. about[p].to \in Recipients
    BY DEF TypeOK, CallTypes
  <1>3. rec' \in [Recipients -> {"ABSENT", "PENDING", "SENT", "FAILED"}]
    BY <1>2 DEF Report, CheckMark, SetRec, TypeOK, RowTypes
  <1>4. repeats' \in Nat
    BY DEF Report, CheckMark, TypeOK, HistoryTypes
  <1>5. RowTypes' /\ HistoryTypes'
    BY <1>1, <1>3, <1>4, Zenon DEF TypeOK, RowTypes, HistoryTypes, campaign
  <1> QED  BY <1>1, <1>5, CallType DEF TypeOK, WorkerTypes, CallTypes, CLabels, queue

LEMMA CheckType ==
    ASSUME TypeOK, NEW p \in Calls, CheckList(p) \/ Check(p)
    PROVE  TypeOK'
  <1>1. /\ UNCHANGED <<campaign, rows, queue, worker, history>>
        /\ \E l \in {"check", "check_mark", "done"} : Goto(p, l)
    BY DEF CheckList, Check
  <1>2. todo' \in [Calls -> SUBSET Recipients]
    BY DEF CheckList, Check, TypeOK, CallTypes
  <1>3. about' \in [Calls -> [to : Recipients, n : Nat]]
    BY DEF CheckList, Check, TypeOK, CallTypes
  <1>4. RowTypes' /\ HistoryTypes'
    BY <1>1, Zenon DEF TypeOK, RowTypes, HistoryTypes, campaign, rows, history
  <1> QED  BY <1>1, <1>2, <1>3, <1>4, CallType DEF TypeOK, WorkerTypes, CLabels, queue

LEMMA CStepType ==
    ASSUME TypeOK, NEW p \in Calls, CStep(p)
    PROVE  TypeOK'
  BY ReadingType, StatusType, RowsType, CountersType, ReportType, CheckType, Zenon DEF CStep

-----------------------------------------------------------------------------
LEMMA FailureType ==
    ASSUME TypeOK,
           \/ \E w \in Ticks : DatabaseError(w)
           \/ \E p \in Calls : CallError(p)
           \/ Crash
    PROVE  TypeOK'
  <1>1. ASSUME NEW w \in Ticks, DatabaseError(w) PROVE TypeOK'
    <2>1. UNCHANGED <<campaign, rows, batch, cur, calls, sends, since, repeats>> /\ wpc[w] # "idle"
      BY <1>1 DEF DatabaseError
    <2>2. again' \in [Recipients -> Nat]
      BY <1>1 DEF DatabaseError, TypeOK, HistoryTypes
    <2>3. RowTypes' /\ CallTypes' /\ HistoryTypes'
      BY <2>1, <2>2, Zenon DEF TypeOK, RowTypes, CallTypes, HistoryTypes, campaign, rows, calls
    <2>4. CASE WGoto(w, "mark_failed") /\ UNCHANGED queue
      BY <2>1, <2>3, <2>4, WorkerGoesOn DEF TypeOK, WorkerTypes, WLabels
    <2>5. CASE End(w)
      BY <2>1, <2>3, <2>5, WorkerEnds DEF End, TypeOK, WorkerTypes
    <2> QED  BY <1>1, <2>4, <2>5, Zenon DEF DatabaseError
  <1>2. ASSUME NEW p \in Calls, CallError(p) PROVE TypeOK'
    <2>1. Goto(p, "done") /\ UNCHANGED <<campaign, rows, queue, worker, about, todo, history>>
      BY <1>2 DEF CallError
    <2>2. RowTypes' /\ HistoryTypes'
      BY <2>1, Zenon DEF TypeOK, RowTypes, HistoryTypes, campaign, rows, history
    <2> QED  BY <2>1, <2>2, CallType DEF TypeOK, WorkerTypes, CallTypes, CLabels, queue
  <1>3. CASE Crash
    <2>1. UNCHANGED <<campaign, rows, jobs, batch, cur, about, todo, sends, since, repeats>>
      BY <1>3 DEF Crash
    <2>2. isProcessing' \in BOOLEAN
      BY <1>3, Zenon DEF Crash
    <2>3. wpc' \in [Ticks -> WLabels] /\ \A w \in Ticks : wpc'[w] = "idle"
      BY <1>3 DEF Crash, WLabels
    <2>4. pc' \in [Calls -> CLabels]
      BY <1>3 DEF Crash, CLabels
    <2>5. again' \in [Recipients -> Nat]
      BY <1>3 DEF Crash, TypeOK, HistoryTypes
    <2>6. RowTypes' /\ CallTypes' /\ HistoryTypes'
      BY <2>1, <2>4, <2>5, Zenon DEF TypeOK, RowTypes, CallTypes, HistoryTypes, campaign, rows
    <2>7. WorkerTypes' /\ OneBatch'
      BY <2>1, <2>2, <2>3, Zenon DEF TypeOK, WorkerTypes, OneBatch
    <2> QED  BY <2>6, <2>7 DEF TypeOK
  <1> QED  BY <1>1, <1>2, <1>3

LEMMA NextType == TypeOK /\ [Next]_vars => TypeOK'
  <1> SUFFICES ASSUME TypeOK, [Next]_vars PROVE TypeOK'
    OBVIOUS
  <1>1. CASE UNCHANGED vars
    BY <1>1, Zenon DEF vars, campaign, rows, queue, worker, calls, history,
       TypeOK, RowTypes, WorkerTypes, CallTypes, HistoryTypes, OneBatch
  <1>2. CASE Next
    BY <1>2, TickType, WStepType, BeginType, CStepType, FailureType, Zenon DEF Next
  <1> QED  BY <1>1, <1>2

\* campaign and campaign_recipient rows keep their types, and one batch at a
\* time runs, flagged by isProcessing, with any failures.
THEOREM TypeCorrect == Spec => []TypeOK
  <1> QED  BY InitType, NextType, PTL DEF Spec

-----------------------------------------------------------------------------
(* Nobody is written to twice *)

\* The provider has accepted no more messages for r than it was due.
Fresh(r) == sends[r] <= again[r]

\* Rows that a batch may fetch, now or after an import.
Due(r) == rec[r] = "PENDING" \/ (rec[r] = "ABSENT" /\ status # "NONE")
Gone(r) == rec[r] = "ABSENT" => status = "NONE"

InBatch == {"next", "send", "mark_sent", "count_sent", "mark_failed", "count_failed"}
InHand  == {"send", "mark_sent", "count_sent", "mark_failed"}
Marking(w, r) == wpc[w] \in {"mark_sent", "mark_failed"} /\ cur[w] = r

BatchFresh == \A w \in Ticks : wpc[w] \in InBatch =>
                 \A r \in batch[w] : Fresh(r) /\ Gone(r)
CurFresh   == \A w \in Ticks : wpc[w] \in InHand =>
                 /\ cur[w] \notin batch[w] /\ Gone(cur[w])
                 /\ wpc[w] = "send" => Fresh(cur[w])
DueFresh   == \A r \in Recipients : Due(r) => Fresh(r) \/ \E w \in Ticks : Marking(w, r)

OnceInv == SentOnce /\ BatchFresh /\ CurFresh /\ DueFresh

LEMMA InitOnce == Init => OnceInv
  BY DEF Init, OnceInv, SentOnce, BatchFresh, CurFresh, DueFresh, Fresh, InBatch, InHand

\* Steps of the calls: a row that becomes due is due once more, or was due.
LEMMA RowsOnce ==
    ASSUME TypeOK, TypeOK', OnceInv, UNCHANGED <<worker, sends>>,
           \A r \in Recipients : again'[r] >= again[r],
           \A r \in Recipients : Gone(r) => Gone(r)',
           \A r \in Recipients : Due(r)' => Due(r) \/ again'[r] > again[r]
    PROVE  OnceInv'
  <1>1. /\ \A r \in Recipients : sends[r] \in Nat /\ again[r] \in Nat /\ again'[r] \in Nat
        /\ \A w \in Ticks : batch[w] \subseteq Recipients /\ cur[w] \in Recipients
        /\ wpc' = wpc /\ batch' = batch /\ cur' = cur /\ sends' = sends
    BY DEF TypeOK, HistoryTypes, WorkerTypes, worker
  <1>2. SentOnce'
    BY <1>1 DEF OnceInv, SentOnce
  <1>3. \A r \in Recipients : Fresh(r) => Fresh(r)'
    BY <1>1 DEF Fresh
  <1>4. BatchFresh' /\ CurFresh'
    BY <1>1, <1>3, Zenon DEF OnceInv, BatchFresh, CurFresh
  <1>5. DueFresh'
    <2> SUFFICES ASSUME NEW r \in Recipients, Due(r)'
                 PROVE  Fresh(r)' \/ \E w \in Ticks : Marking(w, r)'
      BY DEF DueFresh
    <2>1. CASE again'[r] > again[r]
      BY <1>1, <2>1 DEF OnceInv, SentOnce, Fresh
    <2>2. CASE Due(r)
      BY <1>1, <1>3, <2>2, Zenon DEF OnceInv, DueFresh, Marking
    <2> QED  BY <2>1, <2>2
  <1> QED  BY <1>2, <1>4, <1>5 DEF OnceInv

\* Steps that leave the rows and what was sent alone, but may write a status.
LEMMA StatusOnce ==
    ASSUME TypeOK, TypeOK', OnceInv, UNCHANGED <<worker, rec, sends, again>>,
           status' = "NONE" <=> status = "NONE"
    PROVE  OnceInv'
  <1>1. \A r \in Recipients : again'[r] >= again[r]
    BY DEF TypeOK, HistoryTypes
  <1>2. \A r \in Recipients : (Gone(r) => Gone(r)') /\ (Due(r)' => Due(r))
    BY DEF Gone, Due
  <1> QED  BY <1>1, <1>2, RowsOnce

LEMMA CallOnce ==
    ASSUME TypeOK, TypeOK', OnceInv, NEW p \in Calls, CStep(p)
    PROVE  OnceInv'
  <1>1. CASE \/ StartRead(p) \/ StartCount(p) \/ StartTotal(p) \/ ResumeRead(p) \/ SuspendRead(p)
             \/ ImportRead(p) \/ DeleteRead(p)
    <2>1. UNCHANGED <<campaign, rows, queue, worker, history>>
      BY <1>1 DEF StartRead, StartCount, StartTotal, ResumeRead, SuspendRead, ImportRead, DeleteRead, ReadStatus
    <2> QED  BY <2>1, StatusOnce DEF campaign, rows, history
  <1>2. CASE Run(p) \/ Suspend(p) \/ Enqueue(p)
    <2>1. UNCHANGED <<worker, rec, sends, again>> /\ (status' = "NONE" <=> status = "NONE")
      BY <1>2 DEF Run, Suspend, Enqueue, SetStatus, campaign, rows, history
    <2> QED  BY <2>1, StatusOnce
  <1>3. CASE ResetCounters(p) \/ CountReport(p) \/ CheckList(p) \/ Check(p)
    <2>1. UNCHANGED <<status, worker, rec, sends, again>>
      BY <1>3 DEF ResetCounters, CountReport, CheckList, Check, campaign, rows, history
    <2> QED  BY <2>1, StatusOnce
  <1>4. CASE ResetRecipients(p)
    <2>1. UNCHANGED <<status, worker, sends>>
      BY <1>4 DEF ResetRecipients, campaign
    <2>2. \A r \in Recipients : again'[r] >= again[r] /\ (Gone(r) => Gone(r)')
      BY <1>4 DEF ResetRecipients, TypeOK, HistoryTypes, Gone, campaign
    <2>3. \A r \in Recipients : Due(r)' => Due(r) \/ again'[r] > again[r]
      BY <1>4 DEF ResetRecipients, TypeOK, HistoryTypes, Due, Pending, campaign
    <2> QED  BY <2>1, <2>2, <2>3, RowsOnce
  <1>5. CASE Import(p) \/ Delete(p) \/ Report(p) \/ CheckMark(p)
    <2>1. UNCHANGED <<worker, sends, again>>
      BY <1>5 DEF Import, Delete, Report, CheckMark, history
    <2>2. \A r \in Recipients : again'[r] >= again[r]
      BY <2>1 DEF TypeOK, HistoryTypes
    <2>3. \A r \in Recipients : (Gone(r) => Gone(r)') /\ (Due(r)' => Due(r))
      BY <1>5 DEF Import, Delete, Report, CheckMark, SetRec, Gone, Due, campaign, rows,
                  TypeOK, RowTypes, CallTypes
    <2> QED  BY <2>1, <2>2, <2>3, RowsOnce
  <1> QED  BY <1>1, <1>2, <1>3, <1>4, <1>5, Zenon DEF CStep

\* A busy tick is the only one.
LEMMA Alone ==
    ASSUME TypeOK, NEW w \in Ticks, wpc[w] # "idle", NEW l \in WLabels, WGoto(w, l)
    PROVE  /\ wpc'[w] = l
           /\ \A v \in Ticks : v # w => wpc[v] = "idle" /\ wpc'[v] = "idle"
  BY WGotoTypes DEF TypeOK, OneBatch

\* Steps of the worker that leave the rows alone and keep the batch's rows
\* fresh, from and to labels where no recipient is marked.
LEMMA WorkerOnce ==
    ASSUME TypeOK, TypeOK', OnceInv, NEW w \in Ticks, wpc[w] # "idle",
           wpc[w] \notin {"mark_sent", "mark_failed"},
           NEW l \in WLabels \ {"mark_sent", "mark_failed"}, WGoto(w, l),
           UNCHANGED <<rec, sends, again>>, status' = "NONE" <=> status = "NONE",
           l \in InBatch => \A r \in batch'[w] : Fresh(r) /\ Gone(r),
           l \in InHand => /\ cur'[w] \notin batch'[w] /\ Gone(cur'[w])
                           /\ l = "send" => Fresh(cur'[w])
    PROVE  OnceInv'
  <1>1. wpc'[w] = l /\ \A v \in Ticks : v # w => wpc[v] = "idle" /\ wpc'[v] = "idle"
    BY Alone
  <1>2. \A r \in Recipients : (Fresh(r) <=> Fresh(r)') /\ (Gone(r) <=> Gone(r)') /\ (Due(r) <=> Due(r)')
    BY DEF Fresh, Gone, Due
  <1>3. "idle" \notin InBatch /\ "idle" \notin InHand
    BY DEF InBatch, InHand
  <1>4. batch'[w] \subseteq Recipients /\ cur'[w] \in Recipients
    BY DEF TypeOK, WorkerTypes
  <1>5. BatchFresh' /\ CurFresh'
    BY <1>1, <1>2, <1>3, <1>4, Zenon DEF BatchFresh, CurFresh
  <1>6. DueFresh'
    <2>1. \A v \in Ticks, r \in Recipients : ~Marking(v, r)
      BY <1>1 DEF Marking
    <2> QED  BY <1>2, <2>1, Zenon DEF OnceInv, DueFresh
  <1> QED  BY <1>5, <1>6 DEF OnceInv, SentOnce

\* Steps of the worker that do not touch the recipients.
LEMMA PlainOnce ==
    ASSUME TypeOK, TypeOK', OnceInv, NEW w \in Ticks,
           \/ BatchRead(w) \/ CountSent(w) \/ CountFailed(w) \/ Recount(w)
           \/ Complete(w) \/ Requeue(w)
    PROVE  OnceInv'
  <1>1. /\ wpc[w] \in {"read", "count_sent", "count_failed", "recount", "complete", "requeue"}
        /\ UNCHANGED <<rec, sends, again, batch, cur>>
        /\ status' = "NONE" <=> status = "NONE"
    BY DEF BatchRead, CountSent, CountFailed, Recount, Complete, Requeue, SetStatus, WAt, campaign, rows, history
  <1>2. PICK l \in WLabels : /\ WGoto(w, l) /\ l \in {"idle", "fetch", "next", "recount", "complete", "requeue"}
                             /\ l = "next" => wpc[w] \in {"count_sent", "count_failed"}
    BY DEF BatchRead, CountSent, CountFailed, Recount, Complete, Requeue, AfterOne, End, WAt, WLabels
  <1>3. l \in InBatch => \A r \in batch'[w] : Fresh(r) /\ Gone(r)
    BY <1>1, <1>2 DEF InBatch, OnceInv, BatchFresh
  <1>4. l \notin InHand
    BY <1>2 DEF InHand
  <1> QED  BY <1>1, <1>2, <1>3, <1>4, WorkerOnce

LEMMA TickOnce ==
    ASSUME TypeOK, TypeOK', OnceInv, NEW w \in Ticks, Tick(w)
    PROVE  OnceInv'
  <1>1. UNCHANGED <<status, rec, sends, again, batch, cur>>
    BY DEF Tick, campaign, rows, history
  <1>2. /\ wpc[w] = "idle" /\ wpc'[w] = "read"
        /\ \A v \in Ticks : v # w => wpc'[v] = wpc[v]
    BY WGotoTypes DEF Tick, WAt, TypeOK, WLabels
  <1>3. \A r \in Recipients : (Fresh(r) <=> Fresh(r)') /\ (Gone(r) <=> Gone(r)') /\ (Due(r) <=> Due(r)')
    BY <1>1 DEF Fresh, Gone, Due
  <1>4. \A v \in Ticks : batch[v] \subseteq Recipients /\ cur[v] \in Recipients
    BY DEF TypeOK, WorkerTypes
  <1>5. "read" \notin InBatch /\ "read" \notin InHand
    BY DEF InBatch, InHand
  <1>6. BatchFresh' /\ CurFresh'
    BY <1>1, <1>2, <1>3, <1>4, <1>5, Zenon DEF OnceInv, BatchFresh, CurFresh
  <1>7. \A v \in Ticks, r \in Recipients : Marking(v, r) => Marking(v, r)'
    BY <1>1, <1>2 DEF Marking
  <1>8. DueFresh'
    BY <1>3, <1>7, Zenon DEF OnceInv, DueFresh
  <1> QED  BY <1>1, <1>6, <1>8 DEF OnceInv, SentOnce

LEMMA FetchOnce ==
    ASSUME TypeOK, TypeOK', OnceInv, NEW w \in Ticks, BatchFetch(w)
    PROVE  OnceInv'
  <1>1. PICK B \in SUBSET Pending : /\ batch' = [batch EXCEPT ![w] = B]
                                    /\ WGoto(w, IF B = {} THEN "recount" ELSE "next")
    BY Zenon DEF BatchFetch
  <1>2. wpc[w] = "fetch" /\ UNCHANGED <<status, rec, sends, again, cur>>
    BY DEF BatchFetch, WAt, campaign, rows, history
  <1>3. PICK l \in {"recount", "next"} : WGoto(w, l)
    BY <1>1
  <1>4. \A v \in Ticks : v # w => wpc[v] = "idle"
    BY <1>2, <1>3, Alone DEF WLabels
  <1>5. \A v \in Ticks, r \in Recipients : ~Marking(v, r)
    BY <1>2, <1>4 DEF Marking
  <1>6. \A r \in Pending : Fresh(r) /\ Gone(r)
    BY <1>5 DEF Pending, OnceInv, DueFresh, Due, Gone
  <1>7. batch'[w] \subseteq Pending
    BY <1>1 DEF TypeOK, WorkerTypes
  <1>8. l \notin InHand /\ l \in WLabels \ {"mark_sent", "mark_failed"}
    BY <1>3 DEF InHand, WLabels
  <1> QED  BY <1>2, <1>3, <1>6, <1>7, <1>8, WorkerOnce

LEMMA NextOnce ==
    ASSUME TypeOK, TypeOK', OnceInv, NEW w \in Ticks, NextRecipient(w)
    PROVE  OnceInv'
  <1>1. wpc[w] = "next" /\ UNCHANGED <<status, rec, sends, again>>
    BY DEF NextRecipient, WAt, campaign, rows, history
  <1>2. CASE status = "RUNNING"
    <2>1. PICK r \in batch[w] : /\ cur' = [cur EXCEPT ![w] = r]
                                /\ batch' = [batch EXCEPT ![w] = @ \ {r}]
      BY <1>2, Zenon DEF NextRecipient
    <2>2. WGoto(w, "send")
      BY <1>2 DEF NextRecipient
    <2>3. cur'[w] = r /\ batch'[w] = batch[w] \ {r}
      BY <2>1 DEF TypeOK, WorkerTypes
    <2>4. \A x \in batch[w] : Fresh(x) /\ Gone(x)
      BY <1>1 DEF OnceInv, BatchFresh, InBatch
    <2> QED  BY <1>1, <2>2, <2>3, <2>4, WorkerOnce DEF WLabels
  <1>3. CASE status # "RUNNING"
    <2>1. WGoto(w, "idle")
      BY <1>3 DEF NextRecipient, End
    <2> QED  BY <1>1, <2>1, WorkerOnce DEF WLabels, InBatch, InHand
  <1> QED  BY <1>2, <1>3

LEMMA SendOnce ==
    ASSUME TypeOK, TypeOK', OnceInv, NEW w \in Ticks, Send(w)
    PROVE  OnceInv'
  <1>0. PICK c \in Recipients : c = cur[w]
    BY DEF TypeOK, WorkerTypes
  <1>1. wpc[w] = "send" /\ UNCHANGED <<status, rec, again, batch, cur>> 
    BY DEF Send, WAt, Accepted, history, campaign, rows, TypeOK, WorkerTypes
  <1>2. PICK l \in {"mark_sent", "mark_failed"} : WGoto(w, l)
    BY Zenon DEF Send
  <1>3. wpc'[w] = l /\ \A v \in Ticks : v # w => wpc[v] = "idle" /\ wpc'[v] = "idle"
    BY <1>1, <1>2, Alone DEF WLabels
  <1>4. c \notin batch[w] /\ Gone(c) /\ Fresh(c) /\ \A r \in batch[w] : Fresh(r) /\ Gone(r)
    BY <1>0, <1>1 DEF OnceInv, CurFresh, BatchFresh, InHand, InBatch
  <1>5. sends'[c] <= sends[c] + 1 /\ \A r \in Recipients : r # c => sends'[r] = sends[r]
    BY <1>0, <1>1 DEF Send, Accepted, history, TypeOK, HistoryTypes
  <1>6. SentOnce'
    <2>1. \A r \in Recipients : sends[r] \in Nat /\ sends'[r] \in Nat /\ again[r] \in Nat
      BY DEF TypeOK, HistoryTypes
    <2> QED  BY <1>1, <1>4, <1>5, <2>1 DEF OnceInv, SentOnce, Fresh
  <1>7. \A r \in Recipients : r # c => (Fresh(r) => Fresh(r)')
    BY <1>1, <1>5 DEF Fresh
  <1>8. \A r \in Recipients : Gone(r) => Gone(r)'
    BY <1>0, <1>1 DEF Gone
  <1>9. batch[w] \subseteq Recipients
    BY DEF TypeOK, WorkerTypes
  <1>10. BatchFresh' /\ CurFresh'
    BY <1>0, <1>1, <1>2, <1>3, <1>4, <1>7, <1>8, <1>9 DEF BatchFresh, CurFresh, InBatch, InHand
  <1>11. Marking(w, c)'
    BY <1>0, <1>1, <1>2, <1>3 DEF Marking
  <1>12. \A r \in Recipients : Due(r)' => Due(r)
    BY <1>0, <1>1 DEF Due
  <1>13. \A v \in Ticks, r \in Recipients : ~Marking(v, r)
    BY <1>0, <1>1, <1>3 DEF Marking
  <1>14. DueFresh'
    <2> SUFFICES ASSUME NEW r \in Recipients, Due(r)'
                 PROVE  Fresh(r)' \/ \E v \in Ticks : Marking(v, r)'
      BY Zenon DEF DueFresh
    <2>1. CASE r = c
      BY <1>11, <2>1, Zenon
    <2>2. CASE r # c
      BY <1>7, <1>12, <1>13, <2>2, Zenon DEF OnceInv, DueFresh
    <2> QED  BY <2>1, <2>2
  <1> QED  BY <1>6, <1>10, <1>14 DEF OnceInv

LEMMA MarkOnce ==
    ASSUME TypeOK, TypeOK', OnceInv, NEW w \in Ticks, MarkSent(w) \/ MarkFailed(w)
    PROVE  OnceInv'
  <1>0. PICK c \in Recipients : c = cur[w]
    BY DEF TypeOK, WorkerTypes
  <1>1. /\ wpc[w] \in {"mark_sent", "mark_failed"} 
        /\ UNCHANGED <<status, sends, again, batch, cur>>
    BY DEF MarkSent, MarkFailed, WAt, history, campaign, TypeOK, WorkerTypes
  <1>2. PICK l \in {"mark_failed", "count_sent", "count_failed", "idle"} : WGoto(w, l)
    BY DEF MarkSent, MarkFailed, End
  <1>3. wpc'[w] = l /\ \A v \in Ticks : v # w => wpc[v] = "idle" /\ wpc'[v] = "idle"
    BY <1>1, <1>2, Alone DEF WLabels
  <1>4. c \notin batch[w] /\ Gone(c) /\ \A r \in batch[w] : Fresh(r) /\ Gone(r)
    BY <1>0, <1>1 DEF OnceInv, CurFresh, BatchFresh, InHand, InBatch
  <1>5. /\ \A r \in Recipients : r # c => rec'[r] = rec[r]
        /\ rec'[c] \in {"SENT", "FAILED"} \/ (rec[c] = "ABSENT" /\ rec'[c] = "ABSENT")
    BY <1>0, <1>1 DEF MarkSent, MarkFailed, SetRec, rows, TypeOK, RowTypes
  <1>6. \A r \in Recipients : (Fresh(r) => Fresh(r)') /\ (Gone(r) => Gone(r)')
    BY <1>1, <1>5 DEF Fresh, Gone
  <1>7. batch[w] \subseteq Recipients
    BY DEF TypeOK, WorkerTypes
  <1>8. BatchFresh' /\ CurFresh'
    BY <1>0, <1>1, <1>2, <1>3, <1>4, <1>6, <1>7 DEF BatchFresh, CurFresh, InBatch, InHand
  <1>9. ~Due(c)' /\ \A r \in Recipients : r # c => (Due(r)' => Due(r))
    BY <1>0, <1>1, <1>4, <1>5 DEF Due, Gone
  <1>10. \A v \in Ticks, r \in Recipients : Marking(v, r) => r = c
    BY <1>0, <1>3 DEF Marking
  <1>11. DueFresh'
    <2> SUFFICES ASSUME NEW r \in Recipients, Due(r)' PROVE Fresh(r)'
      BY Zenon DEF DueFresh
    <2>1. r # c /\ Due(r)
      BY <1>9
    <2> QED  BY <1>6, <1>10, <2>1, Zenon DEF OnceInv, DueFresh
  <1> QED  BY <1>1, <1>8, <1>11 DEF OnceInv, SentOnce

\* The batch is gone: a recipient being marked, if still due, is due once more.
LEMMA StopOnce ==
    ASSUME TypeOK, TypeOK', OnceInv, UNCHANGED <<status, rec, sends, batch, cur>>,
           \A v \in Ticks : wpc'[v] = "idle",
           \A r \in Recipients : again'[r] >= again[r],
           \A r \in Pending : (\E v \in Ticks : Marking(v, r)) => again'[r] > again[r]
    PROVE  OnceInv'
  <1>1. \A r \in Recipients : sends[r] \in Nat /\ again[r] \in Nat /\ again'[r] \in Nat
    BY DEF TypeOK, HistoryTypes
  <1>2. SentOnce'
    BY <1>1 DEF OnceInv, SentOnce
  <1>3. BatchFresh' /\ CurFresh'
    BY DEF BatchFresh, CurFresh, InBatch, InHand
  <1>4. DueFresh'
    <2> SUFFICES ASSUME NEW r \in Recipients, Due(r)' PROVE Fresh(r)'
      BY Zenon DEF DueFresh
    <2>1. Due(r)
      BY DEF Due
    <2>2. CASE Fresh(r)
      BY <1>1, <2>2 DEF Fresh
    <2>3. ASSUME NEW v \in Ticks, Marking(v, r) PROVE Fresh(r)'
      <3>1. Gone(r)
        BY <2>3 DEF Marking, OnceInv, CurFresh, InHand
      <3>2. r \in Pending
        BY <2>1, <3>1 DEF Due, Gone, Pending
      <3>3. again'[r] > again[r]
        BY <2>3, <3>2, Zenon
      <3> QED  BY <1>1, <3>3 DEF OnceInv, SentOnce, Fresh
    <2> QED  BY <2>1, <2>2, <2>3, Zenon DEF OnceInv, DueFresh
  <1> QED  BY <1>2, <1>3, <1>4 DEF OnceInv

LEMMA ErrorOnce ==
    ASSUME TypeOK, TypeOK', OnceInv, NEW w \in Ticks, DatabaseError(w)
    PROVE  OnceInv'
  <1>1. wpc[w] # "idle" /\ UNCHANGED <<status, rec, sends, batch, cur>>
    BY DEF DatabaseError, campaign, rows
  <1>2. CASE wpc[w] \in {"mark_sent", "count_sent"}
    <2>1. WGoto(w, "mark_failed") /\ again' = again
      BY <1>2 DEF DatabaseError
    <2>2. wpc'[w] = "mark_failed" /\ \A v \in Ticks : v # w => wpc[v] = "idle" /\ wpc'[v] = "idle"
      BY <1>1, <2>1, Alone DEF WLabels
    <2>3. \A r \in Recipients :
             (Fresh(r) <=> Fresh(r)') /\ (Gone(r) <=> Gone(r)') /\ (Due(r) <=> Due(r)')
      BY <1>1, <2>1 DEF Fresh, Gone, Due
    <2>4. cur[w] \in Recipients /\ batch[w] \subseteq Recipients
      BY DEF TypeOK, WorkerTypes
    <2>5. cur[w] \notin batch[w] /\ Gone(cur[w]) /\ \A r \in batch[w] : Fresh(r) /\ Gone(r)
      BY <1>2 DEF OnceInv, CurFresh, BatchFresh, InHand, InBatch
    <2>6. BatchFresh' /\ CurFresh'
      BY <1>1, <2>2, <2>3, <2>4, <2>5 DEF BatchFresh, CurFresh, InBatch, InHand
    <2>7. \A v \in Ticks, r \in Recipients : Marking(v, r) => Marking(v, r)'
      BY <1>1, <2>2 DEF Marking
    <2>8. DueFresh'
      BY <2>3, <2>7, Zenon DEF OnceInv, DueFresh
    <2> QED  BY <1>1, <2>1, <2>6, <2>8 DEF OnceInv, SentOnce
  <1>3. CASE wpc[w] \notin {"mark_sent", "count_sent"}
    <2>1. /\ WGoto(w, "idle")
          /\ again' = [r \in Recipients |->
                         IF r \in Unrecorded(w) THEN again[r] + 1 ELSE again[r]]
      BY <1>3 DEF DatabaseError, End
    <2>2. wpc'[w] = "idle" /\ \A v \in Ticks : v # w => wpc[v] = "idle" /\ wpc'[v] = "idle"
      BY <1>1, <2>1, Alone DEF WLabels
    <2>3. \A r \in Recipients : again[r] \in Nat
      BY DEF TypeOK, HistoryTypes
    <2>4. \A r \in Recipients : again'[r] >= again[r]
      BY <2>1, <2>3
    <2>5. ASSUME NEW r \in Pending, NEW v \in Ticks, Marking(v, r) PROVE again'[r] > again[r]
      <3>1. r \in Unrecorded(w)
        BY <2>2, <2>5 DEF Marking, Unrecorded
      <3> QED  BY <2>1, <2>3, <3>1 DEF Pending
    <2>6. \A v \in Ticks : wpc'[v] = "idle"
      BY <2>2
    <2> QED  BY <1>1, <2>4, <2>5, <2>6, StopOnce
  <1> QED  BY <1>2, <1>3

LEMMA CrashOnce ==
    ASSUME TypeOK, TypeOK', OnceInv, Crash
    PROVE  OnceInv'
  <1>1. /\ UNCHANGED <<status, rec, sends, batch, cur>>
        /\ \A v \in Ticks : wpc'[v] = "idle"
    BY DEF Crash, campaign, rows
  <1>2. \A r \in Recipients : again[r] \in Nat
    BY DEF TypeOK, HistoryTypes
  <1>3. \A r \in Recipients : again'[r] >= again[r]
    BY <1>2 DEF Crash
  <1>4. ASSUME NEW r \in Pending, NEW v \in Ticks, Marking(v, r) PROVE again'[r] > again[r]
    <2>1. r \in Unrecorded(v) /\ r \in Recipients
      BY <1>4 DEF Marking, Unrecorded, Pending
    <2> QED  BY <1>2, <2>1 DEF Crash
  <1> QED  BY <1>1, <1>3, <1>4, StopOnce

LEMMA AllOnce == TypeOK /\ TypeOK' /\ OnceInv /\ [Next]_vars => OnceInv'
  <1> SUFFICES ASSUME TypeOK, TypeOK', OnceInv, [Next]_vars PROVE OnceInv'
    OBVIOUS
  <1>1. CASE UNCHANGED vars
    BY <1>1, StatusOnce DEF vars, campaign, rows, history
  <1>2. ASSUME NEW p \in Calls, NEW o \in Handlers, Begin(p, o) PROVE OnceInv'
    BY <1>2, StatusOnce DEF Begin, campaign, rows, history
  <1>3. ASSUME NEW p \in Calls, CallError(p) PROVE OnceInv'
    BY <1>3, StatusOnce DEF CallError, campaign, rows, history
  <1>4. ASSUME NEW w \in Ticks, WStep(w) PROVE OnceInv'
    BY <1>4, PlainOnce, FetchOnce, NextOnce, SendOnce, MarkOnce, Zenon DEF WStep
  <1> QED  BY <1>1, <1>2, <1>3, <1>4, TickOnce, CallOnce, ErrorOnce, CrashOnce, Zenon DEF Next

\* ProcessCampaignBatch: whatever handlers, crashes and lost answers interleave
\* with the batches, a recipient is written to once per occasion it is due.
THEOREM WrittenToOnce == Spec => []SentOnce
  <1>1. OnceInv => SentOnce
    BY DEF OnceInv
  <1> QED  BY <1>1, InitType, NextType, InitOnce, AllOnce, PTL DEF Spec

-----------------------------------------------------------------------------
(* A suspension stops the sending *)

\* A batch goes on to a sending only from RUNNING, which nothing was sent after.
SuspInv ==
    /\ since <= 1
    /\ status = "RUNNING" => since = 0
    /\ \A w \in Ticks : wpc[w] = "send" => since = 0

LEMMA QuietSusp ==
    ASSUME SuspInv, since' = since \/ since' = 0,
           status' = "RUNNING" => status = "RUNNING" \/ since' = 0,
           \A w \in Ticks : wpc'[w] = "send" => wpc[w] = "send"
    PROVE  SuspInv'
  BY DEF SuspInv

LEMMA WorkerSusp ==
    ASSUME TypeOK, TypeOK', SuspInv, NEW w \in Ticks, Tick(w) \/ WStep(w)
    PROVE  SuspInv'
  <1>1. CASE \/ Tick(w) \/ BatchRead(w) \/ BatchFetch(w) \/ MarkSent(w) \/ CountSent(w)
             \/ MarkFailed(w) \/ CountFailed(w) \/ Recount(w) \/ Requeue(w)
    <2>1. UNCHANGED <<since, status>>
      BY <1>1 DEF Tick, BatchRead, BatchFetch, MarkSent, CountSent, MarkFailed, CountFailed,
                  Recount, Requeue, history, campaign
    <2>2. PICK l \in WLabels \ {"send"} : WGoto(w, l)
      BY <1>1 DEF Tick, BatchRead, BatchFetch, MarkSent, CountSent, MarkFailed, CountFailed,
                  Recount, Requeue, End, AfterOne, WLabels
    <2>3. \A v \in Ticks : wpc'[v] = "send" => wpc[v] = "send"
      BY <2>2, WGotoTypes DEF TypeOK
    <2> QED  BY <2>1, <2>3, QuietSusp
  <1>2. CASE Complete(w)
    <2>1. WGoto(w, "idle") /\ (status' = "RUNNING" => status = "RUNNING") /\ since' = since
      BY <1>2 DEF Complete, SetStatus, End
    <2>2. \A v \in Ticks : wpc'[v] = "send" => wpc[v] = "send"
      BY <2>1, WGotoTypes DEF TypeOK, WLabels
    <2> QED  BY <2>1, <2>2, QuietSusp
  <1>3. CASE NextRecipient(w)
    <2>1. UNCHANGED <<since, status>>
      BY <1>3 DEF NextRecipient, campaign, history
    <2>2. CASE status = "RUNNING"
      BY <2>1, <2>2 DEF SuspInv
    <2>3. CASE status # "RUNNING"
      <3>1. WGoto(w, "idle")
        BY <1>3, <2>3 DEF NextRecipient, End
      <3>2. \A v \in Ticks : wpc'[v] = "send" => wpc[v] = "send"
        BY <3>1, WGotoTypes DEF TypeOK, WLabels
      <3> QED  BY <2>1, <3>2, QuietSusp
    <2> QED  BY <2>2, <2>3
  <1>4. CASE Send(w)
    <2>1. PICK l \in {"mark_sent", "mark_failed"} : WGoto(w, l)
      BY <1>4, Zenon DEF Send
    <2>2. wpc[w] = "send" /\ status' = status
      BY <1>4 DEF Send, WAt, campaign
    <2>3. \A v \in Ticks : wpc'[v] # "send"
      BY <2>1, <2>2, Alone DEF WLabels
    <2>4. since = 0
      BY <2>2 DEF SuspInv
    <2>5. since' \in {0, 1} /\ (status = "RUNNING" => since' = 0)
      BY <1>4, <2>4 DEF Send, Accepted, history
    <2> QED  BY <2>2, <2>3, <2>5 DEF SuspInv
  <1> QED  BY <1>1, <1>2, <1>3, <1>4, Zenon DEF WStep

LEMMA CallSusp ==
    ASSUME SuspInv, NEW p \in Calls, CStep(p)
    PROVE  SuspInv'
  <1>1. wpc' = wpc
    BY DEF CStep, StartRead, StartCount, StartTotal, ResumeRead, SuspendRead, ImportRead,
       DeleteRead, ReadStatus, ResetRecipients, ResetCounters, Run, Enqueue, Suspend, Import,
       Delete, Report, CountReport, CheckList, Check, CheckMark, worker
  <1>2. CASE Run(p) \/ Suspend(p)
    <2>1. since' \in {since, 0} /\ (status' = "RUNNING" => status = "RUNNING" \/ since' = 0)
      BY <1>2 DEF Run, Suspend, SetStatus
    <2> QED  BY <1>1, <2>1, QuietSusp
  <1>3. CASE ~(Run(p) \/ Suspend(p))
    <2>1. since' = since /\ (status' = "RUNNING" => status = "RUNNING")
      BY <1>3 DEF CStep, StartRead, StartCount, StartTotal, ResumeRead, SuspendRead, ImportRead,
         DeleteRead, ReadStatus, ResetRecipients, ResetCounters, Enqueue, Import,
         Delete, Report, CountReport, CheckList, Check, CheckMark, campaign, history
    <2> QED  BY <1>1, <2>1, QuietSusp
  <1> QED  BY <1>2, <1>3

LEMMA NextSusp == TypeOK /\ TypeOK' /\ SuspInv /\ [Next]_vars => SuspInv'
  <1> SUFFICES ASSUME TypeOK, TypeOK', SuspInv, [Next]_vars PROVE SuspInv'
    OBVIOUS
  <1>1. CASE UNCHANGED vars
    BY <1>1, QuietSusp DEF vars, campaign, worker, history
  <1>2. ASSUME NEW p \in Calls, NEW o \in Handlers, Begin(p, o) PROVE SuspInv'
    BY <1>2, QuietSusp DEF Begin, campaign, worker, history
  <1>3. ASSUME NEW p \in Calls, CallError(p) PROVE SuspInv'
    BY <1>3, QuietSusp DEF CallError, campaign, worker, history
  <1>4. ASSUME NEW w \in Ticks, DatabaseError(w) PROVE SuspInv'
    <2>1. UNCHANGED <<status, since>> /\ \E l \in {"mark_failed", "idle"} : WGoto(w, l)
      BY <1>4 DEF DatabaseError, End, campaign
    <2>2. \A v \in Ticks : wpc'[v] = "send" => wpc[v] = "send"
      BY <2>1, WGotoTypes DEF TypeOK, WLabels
    <2> QED  BY <2>1, <2>2, QuietSusp
  <1>5. CASE Crash
    <2>1. UNCHANGED <<status, since>> /\ \A v \in Ticks : wpc'[v] # "send"
      BY <1>5 DEF Crash, campaign
    <2> QED  BY <2>1, QuietSusp
  <1> QED  BY <1>1, <1>2, <1>3, <1>4, <1>5, WorkerSusp, CallSusp, Zenon DEF Next

\* SuspendCampaign and the read before each recipient: after a suspension at most
\* one more message goes out, the one that was on its way.
THEOREM SuspensionIsHeeded == Spec => []SuspensionStops
  <1>1. Init => SuspInv
    BY DEF Init, SuspInv
  <1>2. SuspInv => SuspensionStops
    BY DEF SuspInv, SuspensionStops
  <1> QED  BY <1>1, <1>2, InitType, NextType, NextSusp, PTL DEF Spec

-----------------------------------------------------------------------------
(* A running campaign has somebody to go on with it *)

LEMMA QuietForgotten ==
    ASSUME NeverForgotten, status' = "RUNNING" => status = "RUNNING",
           jobs > 0 => jobs' > 0,
           \A w \in Ticks : wpc[w] # "idle" => wpc'[w] # "idle",
           \A p \in Calls : pc[p] = "enqueue" => pc'[p] = "enqueue"
    PROVE  NeverForgotten'
  BY Zenon DEF NeverForgotten

LEMMA WorkerForgotten ==
    ASSUME TypeOK, TypeOK', OnceInv, NeverForgotten, NEW w \in Ticks, Tick(w) \/ WStep(w)
    PROVE  NeverForgotten'
  <1>1. PICK l \in WLabels : WGoto(w, l)
    BY DEF Tick, WStep, BatchRead, BatchFetch, NextRecipient, Send, MarkSent, CountSent,
       MarkFailed, CountFailed, Recount, Complete, Requeue, End, AfterOne, WLabels
  <1>2. wpc'[w] = l
    BY <1>1, WGotoTypes DEF TypeOK
  <1>3. CASE l # "idle"
    BY <1>2, <1>3 DEF NeverForgotten
  <1>4. CASE l = "idle"
    <2>1. wpc'[w] = "idle"
      BY <1>2, <1>4
    <2>2. CASE Requeue(w)
      BY <2>2 DEF Requeue, NeverForgotten, TypeOK, WorkerTypes
    <2>3. CASE Complete(w)
      BY <2>3 DEF Complete, SetStatus, NeverForgotten
    <2>4. CASE BatchRead(w) \/ NextRecipient(w)
      <3>1. status' = status /\ (status = "RUNNING" => \E m \in {"fetch", "send"} : WGoto(w, m))
        BY <2>4 DEF BatchRead, NextRecipient, campaign
      <3>2. status # "RUNNING"
        BY <2>1, <3>1, WGotoTypes DEF TypeOK, WLabels
      <3> QED  BY <3>1, <3>2 DEF NeverForgotten
    <2>5. CASE MarkFailed(w)
      <3>1. status' = status /\ wpc[w] = "mark_failed"
        BY <2>5 DEF MarkFailed, campaign, WAt
      <3>2. rec[cur[w]] # "ABSENT" => WGoto(w, "count_failed")
        BY <2>5 DEF MarkFailed
      <3>3. rec[cur[w]] = "ABSENT"
        BY <2>1, <3>2, WGotoTypes DEF TypeOK, WLabels
      <3>4. status = "NONE"
        BY <3>1, <3>3 DEF OnceInv, CurFresh, InHand, Gone
      <3> QED  BY <3>1, <3>4 DEF NeverForgotten
    <2>6. CASE \/ Tick(w) \/ BatchFetch(w) \/ Send(w) \/ MarkSent(w) \/ CountSent(w)
               \/ CountFailed(w) \/ Recount(w)
      <3>1. \E m \in WLabels \ {"idle"} : WGoto(w, m)
        BY <2>6 DEF Tick, BatchFetch, Send, MarkSent, CountSent, CountFailed, Recount,
           AfterOne, WLabels
      <3> QED  BY <2>1, <3>1, WGotoTypes DEF TypeOK
    <2> QED  BY <2>2, <2>3, <2>4, <2>5, <2>6, Zenon DEF WStep
  <1> QED  BY <1>3, <1>4

LEMMA CallForgotten ==
    ASSUME TypeOK, TypeOK', NeverForgotten, NEW p \in Calls, CStep(p)
    PROVE  NeverForgotten'
  <1>1. CASE Run(p)
    <2>1. CASE status = "NONE"
      BY <1>1, <2>1 DEF Run, NeverForgotten
    <2>2. CASE status # "NONE"
      <3>1. pc'[p] = "enqueue"
        BY <1>1, <2>2 DEF Run, Goto, TypeOK, CallTypes
      <3> QED  BY <3>1, Zenon DEF NeverForgotten
    <2> QED  BY <2>1, <2>2
  <1>2. CASE Enqueue(p)
    BY <1>2 DEF Enqueue, NeverForgotten, TypeOK, WorkerTypes
  <1>3. CASE ~Run(p) /\ ~Enqueue(p)
    <2>1. wpc' = wpc /\ jobs' = jobs
      BY <1>3 DEF CStep, StartRead, StartCount, StartTotal, ResumeRead, SuspendRead, ImportRead,
         DeleteRead, ReadStatus, ResetRecipients, ResetCounters, Suspend, Import,
         Delete, Report, CountReport, CheckList, Check, CheckMark, worker, queue
    <2>2. status' = "RUNNING" => status = "RUNNING"
      BY <1>3 DEF CStep, StartRead, StartCount, StartTotal, ResumeRead, SuspendRead, ImportRead,
         DeleteRead, ReadStatus, ResetRecipients, ResetCounters, Suspend, Import, SetStatus,
         Delete, Report, CountReport, CheckList, Check, CheckMark, campaign
    <2>3. pc[p] # "enqueue" /\ \E l \in CLabels : Goto(p, l)
      BY <1>3 DEF CStep, StartRead, StartCount, StartTotal, ResumeRead, SuspendRead, ImportRead,
         DeleteRead, ReadStatus, ResetRecipients, ResetCounters, Suspend, Import, At, CLabels,
         Delete, Report, CountReport, CheckList, Check, CheckMark
    <2>4. \A q \in Calls : pc[q] = "enqueue" => pc'[q] = "enqueue"
      BY <2>3 DEF Goto, TypeOK, CallTypes
    <2> QED  BY <2>1, <2>2, <2>4, QuietForgotten
  <1> QED  BY <1>1, <1>2, <1>3

LEMMA NextForgotten ==
    ASSUME Faults = {}
    PROVE  TypeOK /\ TypeOK' /\ OnceInv /\ NeverForgotten /\ [Next]_vars => NeverForgotten'
  <1> SUFFICES ASSUME TypeOK, TypeOK', OnceInv, NeverForgotten, [Next]_vars
               PROVE  NeverForgotten'
    OBVIOUS
  <1>1. CASE UNCHANGED vars
    BY <1>1, QuietForgotten DEF vars, campaign, queue, worker, calls
  <1>2. ASSUME NEW p \in Calls, NEW o \in Handlers, Begin(p, o) PROVE NeverForgotten'
    <2>1. UNCHANGED <<campaign, queue, worker>> /\ pc[p] = "idle" /\ Goto(p, FirstLabel(o))
      BY <1>2 DEF Begin, At
    <2>2. \A q \in Calls : pc[q] = "enqueue" => pc'[q] = "enqueue"
      BY <2>1 DEF Goto, TypeOK, CallTypes
    <2> QED  BY <2>1, <2>2, QuietForgotten DEF campaign, queue, worker
  <1>3. ~Crash /\ (\A w \in Ticks : ~DatabaseError(w)) /\ \A p \in Calls : ~CallError(p)
    BY DEF Crash, DatabaseError, CallError
  <1> QED  BY <1>1, <1>2, <1>3, WorkerForgotten, CallForgotten, Zenon DEF Next

\* StartCampaign, ResumeCampaign and CampaignWorkerService: without failures, a
\* campaign that is RUNNING has a job queued or about to be, or a batch.
THEOREM RunningIsServed ==
    ASSUME Faults = {}
    PROVE  Spec => []NeverForgotten
  <1>1. Init => NeverForgotten
    BY DEF Init, NeverForgotten
  <1> QED  BY <1>1, InitType, NextType, InitOnce, AllOnce, NextForgotten, PTL DEF Spec

-----------------------------------------------------------------------------
(* The first round: until the campaign is started again *)

\* Nothing becomes due once more: the first round is not over yet.
LEMMA ResetFirst ==
    ASSUME TypeOK, NEW p \in Calls, ResetRecipients(p), FirstRound'
    PROVE  /\ FirstRound /\ rec' = rec
           /\ \A r \in Recipients : ext'[r] = ext[r] \/ (ext'[r] = 0 /\ rec[r] = "PENDING")
           /\ \A r \in Recipients : IF pc[p] = "reset_all" THEN rec[r] \in {"ABSENT", "PENDING"}
                                                           ELSE rec[r] # "FAILED"
  <1> DEFINE due == {r \in Recipients : IF pc[p] = "reset_all" THEN rec[r] # "ABSENT" ELSE rec[r] = "FAILED"}
  <1>1. /\ rec' = [r \in Recipients |-> IF r \in due THEN "PENDING" ELSE rec[r]]
        /\ ext' = [r \in Recipients |-> IF r \in due THEN 0 ELSE ext[r]]
        /\ again' = [r \in Recipients |-> IF r \in due \ Pending THEN again[r] + 1 ELSE again[r]]
    BY DEF ResetRecipients, At
  <1>2. \A r \in Recipients : again[r] \in Nat
    BY DEF TypeOK, HistoryTypes
  <1>3. \A r \in Recipients : again[r] = 0 /\ r \notin due \ Pending
    <2> SUFFICES ASSUME NEW r \in Recipients PROVE again[r] = 0 /\ r \notin due \ Pending
      OBVIOUS
    <2>1. again'[r] = 0 /\ again[r] \in Nat
      BY <1>2 DEF FirstRound
    <2>2. again'[r] = IF r \in due \ Pending THEN again[r] + 1 ELSE again[r]
      BY <1>1
    <2> HIDE DEF due
    <2> QED  BY <2>1, <2>2
  <1>4. \A r \in Recipients : r \in due => rec[r] = "PENDING"
    BY <1>3 DEF Pending
  <1>5. \A r \in Recipients : rec'[r] = rec[r]
    BY <1>1, <1>4
  <1>6. rec' = rec
    BY <1>1, <1>5 DEF TypeOK, RowTypes
  <1> QED  BY <1>1, <1>3, <1>4, <1>6 DEF FirstRound

LEMMA FirstStays ==
    ASSUME TypeOK, Next, FirstRound'
    PROVE  FirstRound
  <1>0. \A r \in Recipients : again[r] \in Nat
    BY DEF TypeOK, HistoryTypes
  <1>1. ASSUME NEW p \in Calls, CStep(p) PROVE FirstRound
    <2>1. CASE ResetRecipients(p)
      BY <2>1, ResetFirst
    <2>2. CASE ~ResetRecipients(p)
      <3>1. again' = again
        BY <1>1, <2>2 DEF CStep, StartRead, StartCount, StartTotal, ResumeRead, SuspendRead, ImportRead,
           DeleteRead, ReadStatus, ResetCounters, Run, Enqueue, Suspend, Import,
           Delete, Report, CountReport, CheckList, Check, CheckMark, history
      <3> QED  BY <3>1 DEF FirstRound
    <2> QED  BY <2>1, <2>2
  <1>2. ASSUME NEW w \in Ticks, Tick(w) \/ WStep(w) PROVE FirstRound
    <2>1. again' = again
      BY <1>2 DEF Tick, WStep, BatchRead, BatchFetch, NextRecipient, Send, Accepted, MarkSent, CountSent,
         MarkFailed, CountFailed, Recount, Complete, Requeue, history
    <2> QED  BY <2>1 DEF FirstRound
  <1>3. ASSUME \/ \E p \in Calls, o \in Handlers : Begin(p, o)
               \/ \E p \in Calls : CallError(p)
        PROVE  FirstRound
    <2>1. again' = again
      BY <1>3 DEF Begin, CallError, history
    <2> QED  BY <2>1 DEF FirstRound
  <1>4. ASSUME NEW w \in Ticks, DatabaseError(w) PROVE FirstRound
    <2>1. \/ again' = again
          \/ again' = [r \in Recipients |-> IF r \in Unrecorded(w) THEN again[r] + 1 ELSE again[r]]
      BY <1>4 DEF DatabaseError
    <2>2. CASE again' = again
      BY <2>2 DEF FirstRound
    <2>3. CASE again' = [r \in Recipients |-> IF r \in Unrecorded(w) THEN again[r] + 1 ELSE again[r]]
      <3> SUFFICES ASSUME NEW r \in Recipients PROVE again[r] = 0
        BY DEF FirstRound
      <3>1. again'[r] = IF r \in Unrecorded(w) THEN again[r] + 1 ELSE again[r]
        BY <2>3
      <3> QED  BY <1>0, <3>1 DEF FirstRound
    <2> QED  BY <2>1, <2>2, <2>3
  <1>5. ASSUME Crash PROVE FirstRound
    <2> SUFFICES ASSUME NEW r \in Recipients PROVE again[r] = 0
      BY DEF FirstRound
    <2>1. again'[r] = IF \E w \in Ticks : r \in Unrecorded(w) THEN again[r] + 1 ELSE again[r]
      BY <1>5 DEF Crash
    <2> QED  BY <1>0, <2>1 DEF FirstRound
  <1> QED  BY <1>1, <1>2, <1>3, <1>4, <1>5, Zenon DEF Next

-----------------------------------------------------------------------------
(* COMPLETED means that nobody is left *)

\* No call may import: an import that has read DRAFT adds recipients whenever it writes.
NoImports == \A p \in Calls : "import" \notin Roles[p]

DoneInv ==
    /\ \A p \in Calls : pc[p] \notin {"import_read", "import"}
    /\ FirstRound => /\ status = "COMPLETED" => Pending = {}
                     /\ \A w \in Ticks : wpc[w] = "complete" => Pending = {}

\* In the first round nobody becomes due who was not.
LEMMA PendingShrinks ==
    ASSUME TypeOK, DoneInv, Next, FirstRound'
    PROVE  FirstRound /\ Pending' \subseteq Pending
  <1>1. FirstRound
    BY FirstStays
  <1>2. ASSUME NEW p \in Calls, CStep(p) PROVE Pending' \subseteq Pending
    <2>1. CASE ResetRecipients(p)
      BY <2>1, ResetFirst DEF Pending
    <2>2. CASE Import(p)
      BY <2>2 DEF Import, At, DoneInv
    <2>3. CASE Delete(p) \/ Report(p) \/ CheckMark(p)
      BY <2>3 DEF Delete, Report, CheckMark, SetRec, Pending, TypeOK, RowTypes, CallTypes
    <2>4. CASE ~(ResetRecipients(p) \/ Import(p) \/ Delete(p) \/ Report(p) \/ CheckMark(p))
      <3>1. rec' = rec
        BY <1>2, <2>4 DEF CStep, StartRead, StartCount, StartTotal, ResumeRead, SuspendRead, ImportRead,
           DeleteRead, ReadStatus, ResetCounters, Run, Enqueue, Suspend, CountReport, CheckList, Check, rows
      <3> QED  BY <3>1 DEF Pending
    <2> QED  BY <2>1, <2>2, <2>3, <2>4
  <1>3. ASSUME NEW w \in Ticks, Tick(w) \/ WStep(w) PROVE Pending' \subseteq Pending
    <2>1. CASE MarkSent(w) \/ MarkFailed(w)
      BY <2>1 DEF MarkSent, MarkFailed, SetRec, rows, Pending, TypeOK, RowTypes, WorkerTypes
    <2>2. CASE ~(MarkSent(w) \/ MarkFailed(w))
      <3>1. rec' = rec
        BY <1>3, <2>2 DEF Tick, WStep, BatchRead, BatchFetch, NextRecipient, Send, CountSent,
           CountFailed, Recount, Complete, Requeue, rows
      <3> QED  BY <3>1 DEF Pending
    <2> QED  BY <2>1, <2>2
  <1>4. ASSUME \/ \E p \in Calls, o \in Handlers : Begin(p, o)
               \/ \E p \in Calls : CallError(p)
               \/ \E w \in Ticks : DatabaseError(w)
               \/ Crash
        PROVE  Pending' \subseteq Pending
    <2>1. rec' = rec
      BY <1>4 DEF Begin, CallError, DatabaseError, Crash, rows
    <2> QED  BY <2>1 DEF Pending
  <1> QED  BY <1>1, <1>2, <1>3, <1>4, Zenon DEF Next

\* A tick is at "complete" after a count that found nobody, and only then.
LEMMA CompleteKnows ==
    ASSUME TypeOK, Next, NEW w \in Ticks, wpc'[w] = "complete"
    PROVE  wpc[w] = "complete" \/ (wpc[w] = "recount" /\ Pending = {})
  <1>1. ASSUME NEW v \in Ticks, Tick(v) \/ WStep(v)
        PROVE  wpc[w] = "complete" \/ (wpc[w] = "recount" /\ Pending = {})
    <2>1. CASE Recount(v)
      <3>1. PICK l \in {"complete", "requeue"} : WGoto(v, l) /\ wpc[v] = "recount" /\ (l = "complete" => Pending = {})
        BY <2>1 DEF Recount, WAt
      <3> QED  BY <3>1, WGotoTypes DEF TypeOK, WLabels
    <2>2. CASE ~Recount(v)
      <3>1. PICK l \in WLabels \ {"complete"} : WGoto(v, l)
        BY <1>1, <2>2 DEF Tick, WStep, BatchRead, BatchFetch, NextRecipient, Send, MarkSent, CountSent,
           MarkFailed, CountFailed, Complete, Requeue, End, AfterOne, WLabels
      <3> QED  BY <3>1, WGotoTypes DEF TypeOK
    <2> QED  BY <2>1, <2>2
  <1>2. ASSUME NEW v \in Ticks, DatabaseError(v) PROVE wpc[w] = "complete"
    <2>1. PICK l \in {"mark_failed", "idle"} : WGoto(v, l)
      BY <1>2 DEF DatabaseError, End
    <2> QED  BY <2>1, WGotoTypes DEF TypeOK, WLabels
  <1>3. ASSUME NEW p \in Calls, CStep(p) \/ CallError(p) \/ \E o \in Handlers : Begin(p, o)
        PROVE  wpc[w] = "complete"
    <2>1. wpc' = wpc
      BY <1>3 DEF CStep, StartRead, StartCount, StartTotal, ResumeRead, SuspendRead, ImportRead,
         DeleteRead, ReadStatus, ResetRecipients, ResetCounters, Run, Enqueue, Suspend, Import,
         Delete, Report, CountReport, CheckList, Check, CheckMark, CallError, Begin, worker
    <2> QED  BY <2>1
  <1>4. ~Crash
    BY DEF Crash
  <1> QED  BY <1>1, <1>2, <1>3, <1>4, Zenon DEF Next

LEMMA CompletedKnows ==
    ASSUME Next, status' = "COMPLETED"
    PROVE  status = "COMPLETED" \/ \E w \in Ticks : wpc[w] = "complete"
  <1>1. ASSUME NEW w \in Ticks, Tick(w) \/ WStep(w) \/ DatabaseError(w)
        PROVE  status = "COMPLETED" \/ wpc[w] = "complete"
    BY <1>1 DEF Tick, WStep, BatchRead, BatchFetch, NextRecipient, Send, MarkSent, CountSent,
       MarkFailed, CountFailed, Recount, Complete, Requeue, DatabaseError, WAt, campaign
  <1>2. ASSUME NEW p \in Calls, CStep(p) \/ CallError(p) \/ \E o \in Handlers : Begin(p, o)
        PROVE  status = "COMPLETED"
    BY <1>2 DEF CStep, StartRead, StartCount, StartTotal, ResumeRead, SuspendRead, ImportRead,
       DeleteRead, ReadStatus, ResetRecipients, ResetCounters, Run, Enqueue, Suspend, Import, SetStatus,
       Delete, Report, CountReport, CheckList, Check, CheckMark, CallError, Begin, campaign
  <1>3. Crash => status' = status
    BY DEF Crash, campaign
  <1> QED  BY <1>1, <1>2, <1>3, Zenon DEF Next

\* Where no call imports, none is at an import.
LEMMA NoneImports ==
    ASSUME NoImports, TypeOK, DoneInv, Next
    PROVE  \A q \in Calls : pc'[q] \notin {"import_read", "import"}
  <1>1. ASSUME NEW p \in Calls, CStep(p) PROVE \A q \in Calls : pc'[q] \notin {"import_read", "import"}
    <2>1. ~ImportRead(p) /\ ~Import(p)
      BY DEF ImportRead, ReadStatus, Import, At, DoneInv
    <2>2. PICK l \in CLabels \ {"import_read", "import"} : Goto(p, l)
      BY <1>1, <2>1 DEF CStep, StartRead, StartCount, StartTotal, ResumeRead, SuspendRead,
         DeleteRead, ReadStatus, ResetRecipients, ResetCounters, Run, Enqueue, Suspend,
         Delete, Report, CountReport, CheckList, Check, CheckMark, CLabels
    <2> QED  BY <2>2, GotoTypes DEF TypeOK, DoneInv
  <1>2. ASSUME NEW p \in Calls, NEW o \in Handlers, Begin(p, o)
        PROVE  \A q \in Calls : pc'[q] \notin {"import_read", "import"}
    <2>1. o # "import" /\ Goto(p, FirstLabel(o))
      BY <1>2 DEF Begin, NoImports
    <2>2. FirstLabel(o) \in CLabels \ {"import_read", "import"}
      BY <2>1 DEF Handlers, FirstLabel, CLabels
    <2> QED  BY <2>1, <2>2, GotoTypes DEF TypeOK, DoneInv
  <1>3. ASSUME NEW p \in Calls, CallError(p) PROVE \A q \in Calls : pc'[q] \notin {"import_read", "import"}
    <2>1. Goto(p, "done")
      BY <1>3 DEF CallError
    <2> QED  BY <2>1, GotoTypes DEF TypeOK, DoneInv, CLabels
  <1>4. ASSUME NEW w \in Ticks, Tick(w) \/ WStep(w) \/ DatabaseError(w)
        PROVE  \A q \in Calls : pc'[q] \notin {"import_read", "import"}
    <2>1. pc' = pc
      BY <1>4 DEF Tick, WStep, BatchRead, BatchFetch, NextRecipient, Send, MarkSent, CountSent,
         MarkFailed, CountFailed, Recount, Complete, Requeue, DatabaseError, calls
    <2> QED  BY <2>1 DEF DoneInv
  <1>5. Crash => \A q \in Calls : pc'[q] \notin {"import_read", "import"}
    BY DEF Crash
  <1> QED  BY <1>1, <1>2, <1>3, <1>4, <1>5, Zenon DEF Next

LEMMA NextDone ==
    ASSUME NoImports
    PROVE  TypeOK /\ DoneInv /\ [Next]_vars => DoneInv'
  <1> SUFFICES ASSUME TypeOK, DoneInv, [Next]_vars PROVE DoneInv'
    OBVIOUS
  <1>1. CASE UNCHANGED vars
    BY <1>1 DEF vars, campaign, rows, worker, calls, history, DoneInv, FirstRound, Pending
  <1>2. CASE Next
    <2>1. \A p \in Calls : pc'[p] \notin {"import_read", "import"}
      BY <1>2, NoneImports
    <2>2. ASSUME FirstRound'
          PROVE  /\ status' = "COMPLETED" => Pending' = {}
                 /\ \A w \in Ticks : wpc'[w] = "complete" => Pending' = {}
      <3>1. FirstRound /\ Pending' \subseteq Pending
        BY <1>2, <2>2, PendingShrinks
      <3>2. status' = "COMPLETED" => Pending = {}
        BY <1>2, <3>1, CompletedKnows DEF DoneInv
      <3>3. \A w \in Ticks : wpc'[w] = "complete" => Pending = {}
        BY <1>2, <3>1, CompleteKnows DEF DoneInv
      <3> QED  BY <3>1, <3>2, <3>3
    <2> QED  BY <2>1, <2>2 DEF DoneInv
  <1> QED  BY <1>1, <1>2

\* process-campaign-batch.use-case.ts:153-160: until the campaign is started again
\* COMPLETED means that nobody is left, whatever fails and whatever other handlers
\* write, if no recipients are imported.
THEOREM NobodyIsLeft ==
    ASSUME NoImports
    PROVE  Spec => []CompletedMeansDone
  <1>1. Init => DoneInv
    BY DEF Init, DoneInv
  <1>2. DoneInv => CompletedMeansDone
    BY DEF DoneInv, CompletedMeansDone
  <1> QED  BY <1>1, <1>2, InitType, NextType, NextDone, PTL DEF Spec

-----------------------------------------------------------------------------
(* The counters agree with the recipients *)

NoDeletions == \A p \in Calls : "delete" \notin Roles[p]

Reached(r) == rec[r] \in {"SENT", "FAILED"}
WithStatus(st) == {r \in Recipients : rec[r] = st}

\* Calls that have marked a recipient and not yet counted it; the worker likewise.
Owing == {p \in Calls : pc[p] \in {"report_count", "check_count"}}
OneIf(b) == IF b THEN 1 ELSE 0
Sending == OneIf(\E w \in Ticks : wpc[w] = "count_sent")
Failing == OneIf(\E w \in Ticks : wpc[w] = "count_failed")

Counted ==
    /\ IsFiniteSet(Owing)
    /\ FirstRound =>
          /\ sentCount + Sending - Cardinality(Owing) = With("SENT") - repeats
          /\ failedCount + Failing + Cardinality(Owing) = With("FAILED") + repeats

\* A campaign that was started has recipients; one that was completed has reached
\* some, and a call that starts it again will make some of them due once more.
StartedHasRows ==
    status # "DRAFT" \/ (\E p \in Calls : pc[p] \in {"run", "suspend"})
    \/ (\E w \in Ticks : wpc[w] \notin {"idle", "read"})
        => \E r \in Recipients : rec[r] # "ABSENT"
CompletedHasReached ==
    FirstRound =>
        /\ status = "COMPLETED" \/ (\E w \in Ticks : wpc[w] = "complete")
           \/ (\E p \in Calls : pc[p] \in {"start_count", "reset_all"})
              => \E r \in Recipients : Reached(r)
        /\ (\E p \in Calls : pc[p] = "reset_failed") => \E r \in Recipients : rec[r] = "FAILED"
        /\ \A p \in Calls : pc[p] \notin {"zero_failed", "zero_all"}

\* Who is marked as sent or failed: the worker marks those who are due, the reports
\* those who were reached.
MarksRight ==
    FirstRound =>
        /\ \A r \in Recipients : ext[r] # 0 => Reached(r)
        /\ \A w \in Ticks : wpc[w] \in InBatch => batch[w] \subseteq Pending
        /\ \A w \in Ticks : wpc[w] \in {"send", "mark_sent", "mark_failed"} => cur[w] \in Pending \ batch[w]
        /\ \A p \in Calls : pc[p] = "report" => about[p].n # 0
        /\ \A p \in Calls : pc[p] \in {"check", "check_mark", "check_count"} => \A r \in todo[p] : Reached(r)
        /\ \A p \in Calls : pc[p] = "check_mark" => Reached(about[p].to)

CountInv ==
    /\ \A p \in Calls : pc[p] \notin {"delete_read", "delete"}
    /\ StartedHasRows /\ CompletedHasReached /\ MarksRight /\ Counted

-----------------------------------------------------------------------------
LEMMA WithIs ==
    ASSUME NEW st
    PROVE  /\ IsFiniteSet(WithStatus(st)) /\ With(st) = Cardinality(WithStatus(st))
           /\ With(st) \in Nat /\ (With(st) > 0 => WithStatus(st) # {})
  <1>1. WithStatus(st) \in SUBSET Recipients
    BY DEF WithStatus
  <1>2. IsFiniteSet(WithStatus(st)) /\ With(st) = Cardinality(WithStatus(st))
    BY <1>1, RecipientsAssumption, FS_Subset DEF With, WithStatus
  <1>3. With(st) \in Nat
    BY <1>2, FS_CardinalityType
  <1>4. WithStatus(st) = {} => With(st) = 0
    BY <1>2, FS_EmptySet
  <1> QED  BY <1>2, <1>3, <1>4

\* One row changes its status.
LEMMA WithMoves ==
    ASSUME TypeOK, NEW r \in Recipients, NEW st \in {"PENDING", "SENT", "FAILED"}, SetRec(r, st),
           NEW old, rec[r] = old
    PROVE  /\ old # st => With(st)' = With(st) + 1 /\ With(old)' = With(old) - 1
           /\ \A other : other \notin {st, old} \/ old = st => With(other)' = With(other)
  <1>0. rec'[r] = st /\ \A x \in Recipients : x # r => rec'[x] = rec[x]
    BY DEF SetRec, TypeOK, RowTypes
  <1>1. ASSUME old # st
        PROVE  With(st)' = With(st) + 1 /\ With(old)' = With(old) - 1
    <2>1. WithStatus(st)' = WithStatus(st) \cup {r} /\ r \notin WithStatus(st)
      BY <1>0, <1>1 DEF WithStatus
    <2>2. WithStatus(old)' = WithStatus(old) \ {r} /\ r \in WithStatus(old)
      BY <1>0, <1>1 DEF WithStatus
    <2>3. With(st)' = Cardinality(WithStatus(st)') /\ With(old)' = Cardinality(WithStatus(old)')
      BY DEF With, WithStatus
    <2>4. With(st)' = With(st) + 1
      BY <2>1, <2>3, WithIs, FS_AddElement
    <2>5. With(old)' = With(old) - 1
      BY <2>2, <2>3, WithIs, FS_RemoveElement
    <2> QED  BY <2>4, <2>5
  <1>2. ASSUME NEW other, other \notin {st, old} \/ old = st PROVE With(other)' = With(other)
    <2>1. WithStatus(other)' = WithStatus(other)
      BY <1>0, <1>2 DEF WithStatus
    <2> QED  BY <2>1 DEF With, WithStatus
  <1> QED  BY <1>1, <1>2

LEMMA SameRec ==
    ASSUME rec' = rec
    PROVE  \A st : With(st)' = With(st)
  BY DEF With

\* A call goes on: what it owes.
LEMMA OwingMoves ==
    ASSUME TypeOK, IsFiniteSet(Owing), NEW p \in Calls, NEW l \in CLabels, Goto(p, l)
    PROVE  /\ IsFiniteSet(Owing') /\ Cardinality(Owing) \in Nat
           /\ p \in Owing /\ l \in {"report_count", "check_count"} => Owing' = Owing
           /\ p \notin Owing /\ l \notin {"report_count", "check_count"} => Owing' = Owing
           /\ p \notin Owing /\ l \in {"report_count", "check_count"} =>
                  Cardinality(Owing') = Cardinality(Owing) + 1
           /\ p \in Owing /\ l \notin {"report_count", "check_count"} =>
                  Cardinality(Owing') = Cardinality(Owing) - 1
  <1>1. pc'[p] = l /\ \A q \in Calls : q # p => pc'[q] = pc[q]
    BY GotoTypes DEF TypeOK
  <1>2. Owing' = IF l \in {"report_count", "check_count"} THEN Owing \cup {p} ELSE Owing \ {p}
    BY <1>1 DEF Owing
  <1>3. Cardinality(Owing) \in Nat
    BY FS_CardinalityType
  <1>4. /\ IsFiniteSet(Owing \cup {p}) /\ IsFiniteSet(Owing \ {p})
        /\ p \notin Owing => Cardinality(Owing \cup {p}) = Cardinality(Owing) + 1
        /\ p \in Owing => Cardinality(Owing \ {p}) = Cardinality(Owing) - 1
    BY FS_AddElement, FS_RemoveElement
  <1>5. p \in Owing => Owing \cup {p} = Owing
    OBVIOUS
  <1>6. p \notin Owing => Owing \ {p} = Owing
    OBVIOUS
  <1> HIDE DEF Owing
  <1> QED  BY <1>2, <1>3, <1>4, <1>5, <1>6

\* A tick that goes on is the only one: what the worker owes is what it owes.
LEMMA WorkerOwes ==
    ASSUME TypeOK, NEW w \in Ticks, wpc[w] # "idle", NEW l \in WLabels, WGoto(w, l)
    PROVE  /\ Sending = OneIf(wpc[w] = "count_sent") /\ Failing = OneIf(wpc[w] = "count_failed")
           /\ Sending' = OneIf(l = "count_sent") /\ Failing' = OneIf(l = "count_failed")
  <1>1. wpc'[w] = l /\ \A v \in Ticks : v # w => wpc[v] = "idle" /\ wpc'[v] = "idle"
    BY Alone
  <1> QED  BY <1>1 DEF Sending, Failing, OneIf

-----------------------------------------------------------------------------
\* The steps, by actor: what they leave alone.
WorkerSteps == \E w \in Ticks : Tick(w) \/ WStep(w)
CallSteps == \E p \in Calls : CStep(p) \/ CallError(p) \/ \E o \in Handlers : Begin(p, o)

LEMMA StepIs ==
    ASSUME "crash" \notin Faults, "database" \notin Faults, Next
    PROVE  WorkerSteps \/ CallSteps
  BY Zenon DEF Next, WorkerSteps, CallSteps, Crash, DatabaseError

LEMMA WorkerLeaves ==
    ASSUME NEW w \in Ticks, Tick(w) \/ WStep(w)
    PROVE  UNCHANGED <<pc, about, todo, again, repeats>>
  BY DEF Tick, WStep, BatchRead, BatchFetch, NextRecipient, Send, Accepted, MarkSent, CountSent,
     MarkFailed, CountFailed, Recount, Complete, Requeue, calls, history

LEMMA CallLeaves ==
    ASSUME NEW p \in Calls, CStep(p) \/ CallError(p) \/ \E o \in Handlers : Begin(p, o)
    PROVE  UNCHANGED <<wpc, batch, cur>>
  BY DEF CStep, StartRead, StartCount, StartTotal, ResumeRead, SuspendRead, ImportRead,
     DeleteRead, ReadStatus, ResetRecipients, ResetCounters, Run, Enqueue, Suspend, Import,
     Delete, Report, CountReport, CheckList, Check, CheckMark, CallError, Begin, worker

LEMMA NoneDeletes ==
    ASSUME NoDeletions, TypeOK, CountInv, Next
    PROVE  \A q \in Calls : pc'[q] \notin {"delete_read", "delete"}
  <1>0. \A q \in Calls : pc[q] \notin {"delete_read", "delete"}
    BY DEF CountInv
  <1>1. ASSUME NEW p \in Calls, CStep(p) PROVE \A q \in Calls : pc'[q] \notin {"delete_read", "delete"}
    <2>1. ~DeleteRead(p) /\ ~Delete(p)
      BY <1>0 DEF DeleteRead, ReadStatus, Delete, At
    <2>2. PICK l \in CLabels \ {"delete_read", "delete"} : Goto(p, l)
      BY <1>1, <2>1 DEF CStep, StartRead, StartCount, StartTotal, ResumeRead, SuspendRead, ImportRead,
         ReadStatus, ResetRecipients, ResetCounters, Run, Enqueue, Suspend, Import,
         Report, CountReport, CheckList, Check, CheckMark, CLabels
    <2> QED  BY <1>0, <2>2, GotoTypes DEF TypeOK
  <1>2. ASSUME NEW p \in Calls, NEW o \in Handlers, Begin(p, o)
        PROVE  \A q \in Calls : pc'[q] \notin {"delete_read", "delete"}
    <2>1. o # "delete" /\ Goto(p, FirstLabel(o))
      BY <1>2 DEF Begin, NoDeletions
    <2>2. FirstLabel(o) \in CLabels \ {"delete_read", "delete"}
      BY <2>1 DEF Handlers, FirstLabel, CLabels
    <2> QED  BY <1>0, <2>1, <2>2, GotoTypes DEF TypeOK
  <1>3. ASSUME NEW p \in Calls, CallError(p) PROVE \A q \in Calls : pc'[q] \notin {"delete_read", "delete"}
    <2>1. Goto(p, "done")
      BY <1>3 DEF CallError
    <2> QED  BY <1>0, <2>1, GotoTypes DEF TypeOK, CLabels
  <1>4. ASSUME NEW w \in Ticks, Tick(w) \/ WStep(w) \/ DatabaseError(w)
        PROVE  \A q \in Calls : pc'[q] \notin {"delete_read", "delete"}
    <2>1. pc' = pc
      BY <1>4, WorkerLeaves DEF DatabaseError, calls
    <2> QED  BY <1>0, <2>1
  <1>5. Crash => \A q \in Calls : pc'[q] \notin {"delete_read", "delete"}
    BY DEF Crash
  <1> QED  BY <1>1, <1>2, <1>3, <1>4, <1>5, Zenon DEF Next

\* What becomes of the rows: recipients stay, and in the first round who was reached
\* was, who failed has failed, and a call makes nobody be no longer due.
LEMMA RowsStay ==
    ASSUME TypeOK, CountInv, Next
    PROVE  /\ \A r \in Recipients : rec[r] # "ABSENT" => rec'[r] # "ABSENT"
           /\ FirstRound' => \A r \in Recipients : /\ Reached(r) => Reached(r)'
                                                   /\ rec[r] = "FAILED" => rec'[r] = "FAILED"
           /\ FirstRound' /\ CallSteps => Pending \subseteq Pending'
  <1> DEFINE Stay == /\ \A r \in Recipients : rec[r] # "ABSENT" => rec'[r] # "ABSENT"
                     /\ FirstRound' => \A r \in Recipients : /\ Reached(r) => Reached(r)'
                                                             /\ rec[r] = "FAILED" => rec'[r] = "FAILED"
             Due2 == FirstRound' => Pending \subseteq Pending'
  <1>0. FirstRound' => FirstRound
    BY FirstStays
  <1>1. rec' = rec => Stay /\ Due2
    BY DEF Reached, Pending
  <1>2. ASSUME NEW p \in Calls, CStep(p) PROVE Stay /\ Due2
    <2>1. CASE ResetRecipients(p)
      <3>1. \A r \in Recipients : rec[r] # "ABSENT" => rec'[r] # "ABSENT"
        BY <2>1 DEF ResetRecipients
      <3>2. FirstRound' => rec' = rec
        BY <2>1, ResetFirst
      <3> QED  BY <3>1, <3>2 DEF Reached, Pending
    <2>2. CASE Import(p)
      BY <2>2 DEF Import, Reached, Pending, TypeOK, RowTypes
    <2>3. CASE Delete(p)
      BY <2>3 DEF Delete, At, CountInv
    <2>4. CASE Report(p) \/ CheckMark(p)
      <3>1. PICK r \in Recipients : r = about[p].to
        BY DEF TypeOK, CallTypes
      <3>2. CASE rec' = rec
        BY <1>1, <3>2
      <3>3. CASE rec' # rec
        <4>1. SetRec(r, "FAILED")
          BY <2>4, <3>1, <3>3 DEF Report, CheckMark
        <4>2. rec'[r] = "FAILED" /\ \A x \in Recipients : x # r => rec'[x] = rec[x]
          BY <4>1 DEF SetRec, TypeOK, RowTypes
        <4>3. FirstRound' => Reached(r)
          <5> SUFFICES ASSUME FirstRound PROVE Reached(r)
            BY <1>0
          <5>1. CASE Report(p)
            <6>1. ext[r] = about[p].n /\ pc[p] = "report"
              BY <5>1, <3>1, <3>3 DEF Report, At
            <6> QED  BY <6>1 DEF CountInv, MarksRight
          <5>2. CASE CheckMark(p)
            BY <5>2, <3>1 DEF CheckMark, At, CountInv, MarksRight
          <5> QED  BY <2>4, <5>1, <5>2
        <4> QED  BY <4>2, <4>3 DEF Reached, Pending
      <3> QED  BY <3>2, <3>3
    <2>5. CASE ~(ResetRecipients(p) \/ Import(p) \/ Delete(p) \/ Report(p) \/ CheckMark(p))
      <3>1. rec' = rec
        BY <1>2, <2>5 DEF CStep, StartRead, StartCount, StartTotal, ResumeRead, SuspendRead, ImportRead,
           DeleteRead, ReadStatus, ResetCounters, Run, Enqueue, Suspend, CountReport, CheckList, Check, rows
      <3> QED  BY <1>1, <3>1
    <2> QED  BY <2>1, <2>2, <2>3, <2>4, <2>5
  <1>3. ASSUME NEW w \in Ticks, Tick(w) \/ WStep(w) PROVE Stay
    <2>1. CASE MarkSent(w) \/ MarkFailed(w)
      <3>1. PICK c \in Recipients : c = cur[w]
        BY DEF TypeOK, WorkerTypes
      <3>2. wpc[w] \in {"mark_sent", "mark_failed"}
        BY <2>1 DEF MarkSent, MarkFailed, WAt
      <3>3. rec' = rec \/ \E st \in {"SENT", "FAILED"} : SetRec(c, st)
        BY <2>1, <3>1 DEF MarkSent, MarkFailed, rows
      <3>4. FirstRound' => rec[c] = "PENDING"
        BY <1>0, <3>1, <3>2 DEF CountInv, MarksRight, Pending
      <3>5. \A x \in Recipients : x # c => rec'[x] = rec[x]
        BY <3>3 DEF SetRec, TypeOK, RowTypes
      <3>6. rec'[c] = rec[c] \/ rec'[c] \in {"SENT", "FAILED"}
        BY <3>3 DEF SetRec, TypeOK, RowTypes
      <3> QED  BY <3>4, <3>5, <3>6 DEF Reached
    <2>2. CASE ~(MarkSent(w) \/ MarkFailed(w))
      <3>1. rec' = rec
        BY <1>3, <2>2 DEF Tick, WStep, BatchRead, BatchFetch, NextRecipient, Send, CountSent,
           CountFailed, Recount, Complete, Requeue, rows
      <3> QED  BY <1>1, <3>1
    <2> QED  BY <2>1, <2>2
  <1>4. ASSUME \/ \E p \in Calls, o \in Handlers : Begin(p, o)
               \/ \E p \in Calls : CallError(p)
               \/ \E w \in Ticks : DatabaseError(w)
               \/ Crash
        PROVE  rec' = rec
    BY <1>4 DEF Begin, CallError, DatabaseError, Crash, rows
  <1>5. Stay
    <2> HIDE DEF Stay, Due2
    <2> QED  BY <1>1, <1>2, <1>3, <1>4, Zenon DEF Next
  <1>6. CallSteps => Due2
    <2> HIDE DEF Stay, Due2
    <2> QED  BY <1>1, <1>2, <1>4, Zenon DEF CallSteps
  <1> QED  BY <1>5, <1>6

LEMMA StartedKeeps ==
    ASSUME TypeOK, CountInv, Next
    PROVE  StartedHasRows'
  <1> DEFINE Some == \E r \in Recipients : rec[r] # "ABSENT"
  <1>1. Some => Some'
    BY RowsStay
  <1>2. status' # "DRAFT" => Some
    <2>1. ASSUME status = "DRAFT", status' # "DRAFT" PROVE Some
      <3>1. ASSUME NEW w \in Ticks, Tick(w) \/ WStep(w) \/ DatabaseError(w) PROVE Some
        <4>1. Complete(w)
          BY <2>1, <3>1 DEF Tick, WStep, BatchRead, BatchFetch, NextRecipient, Send, MarkSent, CountSent,
             MarkFailed, CountFailed, Recount, Requeue, DatabaseError, campaign
        <4> QED  BY <4>1 DEF Complete, WAt, CountInv, StartedHasRows
      <3>2. ASSUME NEW p \in Calls, CStep(p) \/ CallError(p) \/ \E o \in Handlers : Begin(p, o) PROVE Some
        <4>1. Run(p) \/ Suspend(p) \/ Delete(p)
          BY <2>1, <3>2 DEF CStep, StartRead, StartCount, StartTotal, ResumeRead, SuspendRead, ImportRead,
             DeleteRead, ReadStatus, ResetRecipients, ResetCounters, Enqueue, Import,
             Report, CountReport, CheckList, Check, CheckMark, CallError, Begin, campaign
        <4> QED  BY <4>1 DEF Run, Suspend, Delete, At, CountInv, StartedHasRows
      <3>3. ~Crash
        BY <2>1 DEF Crash, campaign
      <3> QED  BY <3>1, <3>2, <3>3, Zenon DEF Next
    <2> QED  BY <2>1 DEF CountInv, StartedHasRows
  <1>3. ASSUME NEW p \in Calls, pc'[p] \in {"run", "suspend"} PROVE Some
    <2>1. ASSUME NEW q \in Calls, CStep(q) PROVE Some
      <3>1. CASE StartTotal(q) \/ ResumeRead(q) \/ SuspendRead(q)
        <4>1. CASE Some
          BY <4>1
        <4>2. CASE ~Some
          <5>1. status = "DRAFT"
            BY <4>2 DEF CountInv, StartedHasRows
          <5>2. Goto(q, "done")
            BY <3>1, <4>2, <5>1 DEF StartTotal, ResumeRead, SuspendRead, ReadStatus
          <5>3. pc[p] \in {"run", "suspend"}
            BY <1>3, <5>2, GotoTypes DEF TypeOK, CLabels
          <5> QED  BY <5>3 DEF CountInv, StartedHasRows
        <4> QED  BY <4>1, <4>2
      <3>2. CASE ~(StartTotal(q) \/ ResumeRead(q) \/ SuspendRead(q))
        <4>1. PICK l \in CLabels \ {"run", "suspend"} : Goto(q, l)
          BY <2>1, <3>2 DEF CStep, StartRead, StartCount, ImportRead,
             DeleteRead, ReadStatus, ResetRecipients, ResetCounters, Run, Enqueue, Suspend, Import,
             Delete, Report, CountReport, CheckList, Check, CheckMark, CLabels
        <4>2. pc[p] \in {"run", "suspend"}
          BY <1>3, <4>1, GotoTypes DEF TypeOK
        <4> QED  BY <4>2 DEF CountInv, StartedHasRows
      <3> QED  BY <3>1, <3>2
    <2>2. ASSUME NEW q \in Calls, CallError(q) \/ \E o \in Handlers : Begin(q, o) PROVE pc[p] = pc'[p]
      <3>1. PICK l \in CLabels \ {"run", "suspend"} : Goto(q, l)
        BY <2>2 DEF CallError, Begin, FirstLabel, Handlers, CLabels
      <3> QED  BY <1>3, <3>1, GotoTypes DEF TypeOK
    <2>3. ASSUME NEW w \in Ticks, Tick(w) \/ WStep(w) \/ DatabaseError(w) PROVE pc[p] = pc'[p]
      BY <2>3, WorkerLeaves DEF DatabaseError, calls
    <2>4. Crash => pc[p] = pc'[p]
      BY <1>3 DEF Crash
    <2>5. pc[p] = pc'[p] => Some
      BY <1>3 DEF CountInv, StartedHasRows
    <2> HIDE DEF Some
    <2> QED  BY <2>1, <2>2, <2>3, <2>4, <2>5, Zenon DEF Next
  <1>4. ASSUME NEW w \in Ticks, wpc'[w] \notin {"idle", "read"} PROVE Some
    <2>1. ASSUME NEW v \in Ticks, Tick(v) \/ WStep(v) \/ DatabaseError(v) PROVE Some
      <3>1. CASE Tick(v)
        <4>1. WGoto(v, "read")
          BY <3>1 DEF Tick
        <4>2. wpc[w] \notin {"idle", "read"}
          BY <1>4, <4>1, WGotoTypes DEF TypeOK, WLabels
        <4> QED  BY <4>2 DEF CountInv, StartedHasRows
      <3>2. CASE BatchRead(v)
        <4>1. CASE status = "RUNNING"
          BY <4>1 DEF CountInv, StartedHasRows
        <4>2. CASE status # "RUNNING"
          <5>1. WGoto(v, "idle")
            BY <3>2, <4>2 DEF BatchRead, End
          <5>2. wpc[w] \notin {"idle", "read"}
            BY <1>4, <5>1, WGotoTypes DEF TypeOK, WLabels
          <5> QED  BY <5>2 DEF CountInv, StartedHasRows
        <4> QED  BY <4>1, <4>2
      <3>3. CASE ~Tick(v) /\ ~BatchRead(v)
        <4>1. wpc[v] \notin {"idle", "read"} \/ (DatabaseError(v) /\ wpc[v] = "read")
          BY <2>1, <3>3 DEF WStep, BatchFetch, NextRecipient, Send, MarkSent, CountSent,
             MarkFailed, CountFailed, Recount, Complete, Requeue, DatabaseError, WAt
        <4>2. CASE wpc[v] \notin {"idle", "read"}
          BY <4>2 DEF CountInv, StartedHasRows
        <4>3. CASE DatabaseError(v) /\ wpc[v] = "read"
          <5>1. WGoto(v, "idle")
            BY <4>3 DEF DatabaseError, End
          <5>2. wpc[w] \notin {"idle", "read"}
            BY <1>4, <5>1, WGotoTypes DEF TypeOK, WLabels
          <5> QED  BY <5>2 DEF CountInv, StartedHasRows
        <4> QED  BY <4>1, <4>2, <4>3
      <3> QED  BY <3>1, <3>2, <3>3
    <2>2. ASSUME CallSteps PROVE Some
      <3>1. wpc' = wpc
        BY <2>2, CallLeaves DEF CallSteps
      <3> QED  BY <1>4, <3>1 DEF CountInv, StartedHasRows
    <2>3. ~Crash
      BY <1>4 DEF Crash
    <2> HIDE DEF Some
    <2> QED  BY <2>1, <2>2, <2>3, Zenon DEF Next, CallSteps
  <1>5. status' # "DRAFT" \/ (\E p \in Calls : pc'[p] \in {"run", "suspend"})
        \/ (\E w \in Ticks : wpc'[w] \notin {"idle", "read"}) => Some
    <2> HIDE DEF Some
    <2> QED  BY <1>2, <1>3, <1>4
  <1> QED  BY <1>1, <1>5 DEF StartedHasRows

LEMMA CompletedKeeps ==
    ASSUME TypeOK, CountInv, Next
    PROVE  CompletedHasReached'
  <1> SUFFICES ASSUME FirstRound'
               PROVE  /\ status' = "COMPLETED" \/ (\E w \in Ticks : wpc'[w] = "complete")
                         \/ (\E p \in Calls : pc'[p] \in {"start_count", "reset_all"})
                            => \E r \in Recipients : Reached(r)'
                      /\ (\E p \in Calls : pc'[p] = "reset_failed") => \E r \in Recipients : rec'[r] = "FAILED"
                      /\ \A p \in Calls : pc'[p] \notin {"zero_failed", "zero_all"}
    BY DEF CompletedHasReached
  <1> DEFINE Some == \E r \in Recipients : Reached(r)
  <1>1. FirstRound /\ \A r \in Recipients : /\ Reached(r) => Reached(r)'
                                            /\ rec[r] = "FAILED" => rec'[r] = "FAILED"
    BY FirstStays, RowsStay
  <1>2. status = "COMPLETED" \/ (\E w \in Ticks : wpc[w] = "complete") => Some
    BY <1>1 DEF CountInv, CompletedHasReached
  <1>3. status' = "COMPLETED" => Some
    BY <1>2, CompletedKnows
  <1>4. ASSUME NEW w \in Ticks, wpc'[w] = "complete" PROVE Some
    <2>1. CASE wpc[w] = "complete"
      BY <1>2, <2>1
    <2>2. CASE wpc[w] = "recount" /\ Pending = {}
      <3>1. PICK r \in Recipients : rec[r] # "ABSENT"
        BY <2>2 DEF CountInv, StartedHasRows
      <3>2. Reached(r)
        BY <2>2, <3>1 DEF Reached, Pending, TypeOK, RowTypes
      <3> QED  BY <3>2
    <2> QED  BY <1>4, <2>1, <2>2, CompleteKnows
  <1>5. ASSUME NEW p \in Calls
        PROVE  /\ pc'[p] \in {"start_count", "reset_all"} => Some
               /\ pc'[p] = "reset_failed" => \E r \in Recipients : rec[r] = "FAILED"
               /\ pc'[p] \notin {"zero_failed", "zero_all"}
    <2> DEFINE Ok == /\ pc'[p] \in {"start_count", "reset_all"} => Some
                     /\ pc'[p] = "reset_failed" => \E r \in Recipients : rec[r] = "FAILED"
                     /\ pc'[p] \notin {"zero_failed", "zero_all"}
    <2>1. pc'[p] = pc[p] => Ok
      BY <1>1 DEF CountInv, CompletedHasReached
    <2>2. ASSUME NEW q \in Calls, NEW l \in CLabels, Goto(q, l),
                 l \notin {"start_count", "reset_all", "reset_failed", "zero_failed", "zero_all"}
          PROVE  Ok
      <3>1. pc'[p] = pc[p] \/ pc'[p] = l
        BY <2>2, GotoTypes DEF TypeOK
      <3>2. pc'[p] = l => Ok
        BY <2>2
      <3> QED  BY <2>1, <3>1, <3>2
    <2>3. ASSUME NEW q \in Calls, CStep(q) PROVE Ok
      <3>1. CASE StartRead(q)
        <4>1. PICK l \in {"start_total", "start_count", "done"} :
                  Goto(q, l) /\ (l = "start_count" => status = "COMPLETED")
          BY <3>1 DEF StartRead, ReadStatus
        <4>2. CASE l = "start_count"
          <5>1. Some
            BY <1>2, <4>1, <4>2
          <5>2. pc'[p] = pc[p] \/ pc'[p] = "start_count"
            BY <4>1, <4>2, GotoTypes DEF TypeOK, CLabels
          <5> QED  BY <2>1, <5>1, <5>2
        <4> QED  BY <2>2, <4>1, <4>2 DEF CLabels
      <3>2. CASE StartCount(q)
        <4>1. pc[q] = "start_count" /\ Some
          BY <3>2, <1>1 DEF StartCount, ReadStatus, At, CountInv, CompletedHasReached
        <4>2. PICK l \in {"reset_failed", "reset_all"} : Goto(q, l) /\ (l = "reset_failed" => With("FAILED") > 0)
          BY <3>2 DEF StartCount, ReadStatus
        <4>3. l = "reset_failed" => \E r \in Recipients : rec[r] = "FAILED"
          BY <4>2, WithIs DEF WithStatus
        <4>4. pc'[p] = pc[p] \/ pc'[p] = l
          BY <4>2, GotoTypes DEF TypeOK, CLabels
        <4> QED  BY <2>1, <4>1, <4>2, <4>3, <4>4
      <3>3. CASE ResetRecipients(q)
        <4>1. /\ pc[q] \in {"reset_failed", "reset_all"}
              /\ \A r \in Recipients : IF pc[q] = "reset_all" THEN rec[r] \in {"ABSENT", "PENDING"}
                                                              ELSE rec[r] # "FAILED"
          BY <3>3, ResetFirst DEF ResetRecipients, At
        <4>2. pc[q] = "reset_all" => Some
          BY <1>1 DEF CountInv, CompletedHasReached
        <4>3. pc[q] = "reset_failed" => \E r \in Recipients : rec[r] = "FAILED"
          BY <1>1 DEF CountInv, CompletedHasReached
        <4> QED  BY <4>1, <4>2, <4>3 DEF Reached
      <3>4. CASE ~StartRead(q) /\ ~StartCount(q) /\ ~ResetRecipients(q)
        <4>1. PICK l \in CLabels \ {"start_count", "reset_all", "reset_failed", "zero_failed", "zero_all"} : Goto(q, l)
          BY <2>3, <3>4 DEF CStep, ImportRead, StartTotal, ResumeRead, SuspendRead,
             DeleteRead, ReadStatus, ResetCounters, Run, Enqueue, Suspend, Import,
             Delete, Report, CountReport, CheckList, Check, CheckMark, CLabels
        <4> QED  BY <2>2, <4>1
      <3> QED  BY <3>1, <3>2, <3>3, <3>4
    <2>4. ASSUME NEW q \in Calls, CallError(q) \/ \E o \in Handlers : Begin(q, o) PROVE Ok
      <3>1. PICK l \in CLabels \ {"start_count", "reset_all", "reset_failed", "zero_failed", "zero_all"} : Goto(q, l)
        BY <2>4 DEF CallError, Begin, FirstLabel, Handlers, CLabels
      <3> QED  BY <2>2, <3>1
    <2>5. ASSUME NEW w \in Ticks, Tick(w) \/ WStep(w) \/ DatabaseError(w) PROVE Ok
      <3>1. pc' = pc
        BY <2>5, WorkerLeaves DEF DatabaseError, calls
      <3> QED  BY <2>1, <3>1
    <2>6. Crash => Ok
      <3> HIDE DEF Ok
      <3>1. Crash => pc'[p] = pc[p] \/ pc'[p] = "done"
        BY DEF Crash
      <3>2. pc'[p] = "done" => Ok
        BY DEF Ok
      <3> QED  BY <2>1, <3>1, <3>2
    <2> HIDE DEF Ok
    <2>7. Ok
      BY <2>3, <2>4, <2>5, <2>6, Zenon DEF Next
    <2> QED  BY <2>7 DEF Ok
  <1>6. \A p \in Calls : pc'[p] \in {"start_count", "reset_all"} => Some
    BY <1>5
  <1>7. (\E r \in Recipients : rec[r] = "FAILED") => \E r \in Recipients : rec'[r] = "FAILED"
    BY <1>1
  <1>8. Some => \E r \in Recipients : Reached(r)'
    BY <1>1
  <1> HIDE DEF Some
  <1> QED  BY <1>3, <1>4, <1>5, <1>6, <1>7, <1>8

\* The worker marks those who are due, one at a time, and no other tick is at work.
LEMMA WorkerMarks ==
    ASSUME TypeOK, TypeOK', CountInv, NEW w \in Ticks, Tick(w) \/ WStep(w)
    PROVE  MarksRight'
  <1> SUFFICES ASSUME FirstRound PROVE MarksRight'
    BY WorkerLeaves DEF MarksRight, FirstRound
  <1>0. UNCHANGED <<pc, about, todo>>
    BY WorkerLeaves
  <1>1. /\ \A r \in Recipients : ext[r] # 0 => Reached(r)
        /\ wpc[w] \in InBatch => batch[w] \subseteq Pending
        /\ wpc[w] \in {"send", "mark_sent", "mark_failed"} => cur[w] \in Pending \ batch[w]
    BY DEF CountInv, MarksRight
  <1>2. batch[w] \in SUBSET Recipients /\ cur[w] \in Recipients
    BY DEF TypeOK, WorkerTypes
  <1>3. \A r \in Recipients : Reached(r) => Reached(r)'
    BY RowsStay, WorkerLeaves DEF Next, FirstRound
  <1>4. \A v \in Ticks : v # w => wpc'[v] = "idle"
    BY DEF TypeOK, OneBatch, Tick, WStep, BatchRead, BatchFetch, NextRecipient, Send, MarkSent, CountSent,
       MarkFailed, CountFailed, Recount, Complete, Requeue, WAt, WGoto, End, WorkerTypes
  <1>5. \A r \in Recipients : ext'[r] # 0 => Reached(r)'
    <2>1. CASE ext' = ext
      BY <1>1, <1>3, <2>1
    <2>2. CASE ext' # ext
      <3>1. MarkSent(w) /\ rec[cur[w]] # "ABSENT"
        BY <2>2 DEF Tick, WStep, BatchRead, BatchFetch, NextRecipient, Send, MarkSent, CountSent,
           MarkFailed, CountFailed, Recount, Complete, Requeue, rows
      <3>2. SetRec(cur[w], "SENT") /\ ext' = [ext EXCEPT ![cur[w]] = sends[cur[w]]]
        BY <3>1 DEF MarkSent
      <3>4. rec'[cur[w]] = "SENT" /\ \A r \in Recipients : r # cur[w] => ext'[r] = ext[r]
        BY <1>2, <3>2 DEF SetRec, TypeOK, RowTypes
      <3>5. \A r \in Recipients : r = cur[w] => Reached(r)'
        BY <3>4 DEF Reached
      <3> QED  BY <1>1, <1>3, <3>4, <3>5
    <2> QED  BY <2>1, <2>2
  <1>6. /\ wpc'[w] \in InBatch => batch'[w] \subseteq Pending'
        /\ wpc'[w] \in {"send", "mark_sent", "mark_failed"} => cur'[w] \in Pending' \ batch'[w]
    <2>1. CASE BatchFetch(w)
      <3>1. PICK B \in SUBSET Pending : /\ batch' = [batch EXCEPT ![w] = B]
                                        /\ WGoto(w, IF B = {} THEN "recount" ELSE "next")
        BY <2>1, Zenon DEF BatchFetch
      <3>2. batch'[w] = B /\ wpc'[w] \in {"recount", "next"}
        BY <3>1 DEF WGoto, TypeOK, WorkerTypes
      <3>3. Pending' = Pending
        BY <2>1 DEF BatchFetch, rows, Pending
      <3> QED  BY <3>2, <3>3
    <2>2. CASE NextRecipient(w)
      <3>1. Pending' = Pending /\ wpc[w] = "next"
        BY <2>2 DEF NextRecipient, rows, Pending, WAt
      <3>2. CASE status = "RUNNING"
        <4>1. PICK r \in batch[w] : /\ cur' = [cur EXCEPT ![w] = r]
                                    /\ batch' = [batch EXCEPT ![w] = @ \ {r}]
          BY <2>2, <3>2, Zenon DEF NextRecipient
        <4>2. cur'[w] = r /\ batch'[w] = batch[w] \ {r}
          BY <4>1 DEF TypeOK, WorkerTypes
        <4>3. batch[w] \subseteq Pending
          BY <1>1, <3>1 DEF InBatch
        <4> QED  BY <3>1, <4>2, <4>3
      <3>3. CASE status # "RUNNING"
        <4>1. wpc'[w] = "idle"
          BY <2>2, <3>3 DEF NextRecipient, End, WGoto, TypeOK, WorkerTypes
        <4> QED  BY <4>1 DEF InBatch
      <3> QED  BY <3>2, <3>3
    <2>3. CASE Send(w)
      <3>1. wpc[w] = "send" /\ UNCHANGED <<rec, batch, cur>>
        BY <2>3 DEF Send, WAt, rows
      <3>2. batch[w] \subseteq Pending /\ cur[w] \in Pending \ batch[w]
        BY <1>1, <3>1 DEF InBatch
      <3> QED  BY <3>1, <3>2 DEF Pending
    <2>4. CASE MarkSent(w) \/ MarkFailed(w)
      <3>1. wpc[w] \in {"mark_sent", "mark_failed"} /\ UNCHANGED <<batch, cur>>
        BY <2>4 DEF MarkSent, MarkFailed, WAt
      <3>2. batch[w] \subseteq Pending /\ cur[w] \in Pending \ batch[w]
        BY <1>1, <3>1 DEF InBatch
      <3>3. rec[cur[w]] = "PENDING"
        BY <3>2 DEF Pending
      <3>4. PICK st \in {"SENT", "FAILED"} : SetRec(cur[w], st)
        BY <2>4, <3>3 DEF MarkSent, MarkFailed
      <3>5. \A r \in Recipients : r # cur[w] => rec'[r] = rec[r]
        BY <3>4 DEF SetRec, TypeOK, RowTypes
      <3>6. batch'[w] \subseteq Pending'
        BY <1>2, <3>1, <3>2, <3>5 DEF Pending
      <3>7. PICK l \in {"count_sent", "count_failed"} : WGoto(w, l)
        BY <2>4, <3>3 DEF MarkSent, MarkFailed
      <3>8. wpc'[w] = l
        BY <3>7 DEF WGoto, TypeOK, WorkerTypes
      <3> QED  BY <3>6, <3>8
    <2>5. CASE CountSent(w) \/ CountFailed(w)
      <3>1. wpc[w] \in {"count_sent", "count_failed"} /\ UNCHANGED <<rec, batch, cur>>
        BY <2>5 DEF CountSent, CountFailed, WAt, rows
      <3>2. batch[w] \subseteq Pending
        BY <1>1, <3>1 DEF InBatch
      <3>3. wpc'[w] \in {"recount", "next"}
        BY <2>5 DEF CountSent, CountFailed, AfterOne, WGoto, TypeOK, WorkerTypes
      <3> QED  BY <3>1, <3>2, <3>3 DEF Pending
    <2>6. CASE Tick(w) \/ BatchRead(w) \/ Recount(w) \/ Complete(w) \/ Requeue(w)
      <3>1. wpc'[w] \in {"read", "fetch", "idle", "complete", "requeue"}
        BY <2>6 DEF Tick, BatchRead, Recount, Complete, Requeue, End, WGoto, TypeOK, WorkerTypes
      <3> QED  BY <3>1 DEF InBatch
    <2> QED  BY <2>1, <2>2, <2>3, <2>4, <2>5, <2>6, Zenon DEF WStep
  <1>7. \A r \in Recipients : Reached(r) => Reached(r)'
    BY <1>3
  <1>8. \A v \in Ticks : wpc'[v] \in InBatch => batch'[v] \subseteq Pending'
    BY <1>4, <1>6 DEF InBatch
  <1>9. \A v \in Ticks : wpc'[v] \in {"send", "mark_sent", "mark_failed"} => cur'[v] \in Pending' \ batch'[v]
    BY <1>4, <1>6
  <1>10. /\ \A p \in Calls : pc'[p] = "report" => about'[p].n # 0
         /\ \A p \in Calls : pc'[p] \in {"check", "check_mark", "check_count"} => \A r \in todo'[p] : Reached(r)'
         /\ \A p \in Calls : pc'[p] = "check_mark" => rec'[about'[p].to] \in {"SENT", "FAILED"}
    <2>1. \A p \in Calls : todo[p] \subseteq Recipients /\ about[p].to \in Recipients
      BY DEF TypeOK, CallTypes
    <2>2. \A p \in Calls : pc[p] = "check_mark" => rec'[about'[p].to] \in {"SENT", "FAILED"}
      BY <1>0, <1>3, <2>1 DEF CountInv, MarksRight, Reached
    <2>3. \A p \in Calls : pc[p] \in {"check", "check_mark", "check_count"} => \A r \in todo'[p] : Reached(r)'
      BY <1>0, <1>3, <2>1 DEF CountInv, MarksRight
    <2>4. \A p \in Calls : pc[p] = "report" => about'[p].n # 0
      BY <1>0 DEF CountInv, MarksRight
    <2> QED  BY <1>0, <2>2, <2>3, <2>4
  <1> QED  BY <1>5, <1>8, <1>9, <1>10 DEF MarksRight, Reached

\* A webhook is about a message that was accepted, a check about a recipient that was
\* listed as sent: whatever else is done, both have been reached by then.
LEMMA CallMarks ==
    ASSUME TypeOK, TypeOK', CountInv, CallSteps
    PROVE  MarksRight'
  <1> SUFFICES ASSUME FirstRound' PROVE MarksRight'
    BY DEF MarksRight
  <1>0. Next /\ FirstRound
    <2>1. Next
      BY Zenon DEF CallSteps, Next
    <2> QED  BY <2>1, FirstStays
  <1>1. Pending \subseteq Pending' /\ \A r \in Recipients : Reached(r) => Reached(r)'
    BY <1>0, RowsStay
  <1>2. UNCHANGED <<wpc, batch, cur>>
    BY CallLeaves DEF CallSteps
  <1>3. \A r \in Recipients : ext'[r] # 0 => ext[r] # 0
    <2>1. ASSUME NEW p \in Calls, ResetRecipients(p) \/ Delete(p)
          PROVE  \A r \in Recipients : ext'[r] # 0 => ext[r] # 0
      BY <2>1 DEF ResetRecipients, Delete
    <2>2. ASSUME NEW p \in Calls, CStep(p), ~ResetRecipients(p), ~Delete(p)
          PROVE  ext' = ext
      BY <2>2 DEF CStep, StartRead, StartCount, StartTotal, ResumeRead, SuspendRead, ImportRead,
         DeleteRead, ReadStatus, ResetCounters, Run, Enqueue, Suspend, Import, Report, CountReport,
         CheckList, Check, CheckMark, rows
    <2>3. ASSUME NEW p \in Calls, CallError(p) \/ \E o \in Handlers : Begin(p, o)
          PROVE  ext' = ext
      BY <2>3 DEF CallError, Begin, rows
    <2> QED  BY <2>1, <2>2, <2>3 DEF CallSteps
  <1>4. ASSUME NEW p \in Calls
        PROVE  /\ pc'[p] = "report" => about'[p].n # 0
               /\ pc'[p] \in {"check", "check_mark", "check_count"} => \A r \in todo'[p] : rec'[r] \in {"SENT", "FAILED"}
               /\ pc'[p] = "check_mark" => rec'[about'[p].to] \in {"SENT", "FAILED"}
    <2> DEFINE Ok == /\ pc'[p] = "report" => about'[p].n # 0
                     /\ pc'[p] \in {"check", "check_mark", "check_count"} => \A r \in todo'[p] : rec'[r] \in {"SENT", "FAILED"}
                     /\ pc'[p] = "check_mark" => rec'[about'[p].to] \in {"SENT", "FAILED"}
    <2>0. about[p].to \in Recipients /\ todo[p] \subseteq Recipients
      BY DEF TypeOK, CallTypes
    <2>1. /\ pc[p] = "report" => about[p].n # 0
          /\ pc[p] \in {"check", "check_mark", "check_count"} => \A r \in todo[p] : rec'[r] \in {"SENT", "FAILED"}
          /\ pc[p] = "check_mark" => rec'[about[p].to] \in {"SENT", "FAILED"}
      BY <1>0, <1>1, <2>0 DEF CountInv, MarksRight, Reached
    <2>2. pc'[p] = pc[p] /\ about'[p] = about[p] /\ todo'[p] = todo[p] => Ok
      BY <2>1
    <2>3. ASSUME NEW l \in CLabels, Goto(p, l), l \notin {"report", "check", "check_mark", "check_count"}
          PROVE  Ok
      BY <2>3, GotoTypes DEF TypeOK
    <2>4. ASSUME NEW q \in Calls, CStep(q) PROVE Ok
      <3>1. CASE q # p
        <4>1. PICK l \in CLabels : Goto(q, l)
          BY <2>4 DEF CStep, StartRead, StartCount, StartTotal, ResumeRead, SuspendRead, ImportRead,
             DeleteRead, ReadStatus, ResetRecipients, ResetCounters, Run, Enqueue, Suspend, Import,
             Delete, Report, CountReport, CheckList, Check, CheckMark, CLabels
        <4>2. pc'[p] = pc[p]
          BY <3>1, <4>1, GotoTypes DEF TypeOK
        <4>3. about'[p] = about[p] /\ todo'[p] = todo[p]
          BY <2>4, <3>1 DEF CStep, StartRead, StartCount, StartTotal, ResumeRead, SuspendRead, ImportRead,
             DeleteRead, ReadStatus, ResetRecipients, ResetCounters, Run, Enqueue, Suspend, Import,
             Delete, Report, CountReport, CheckList, Check, CheckMark, TypeOK, CallTypes
        <4> QED  BY <2>2, <4>2, <4>3
      <3>2. CASE q = p /\ CheckList(p)
        <4>1. PICK sent \in SUBSET Recipients : /\ \A r \in sent : rec[r] = "SENT"
                                                /\ todo' = [todo EXCEPT ![p] = sent]
                                                /\ Goto(p, IF sent = {} THEN "done" ELSE "check")
          <5> DEFINE sent == {r \in Recipients : rec[r] = "SENT" /\ ext[r] # 0}
          <5>1. todo' = [todo EXCEPT ![p] = sent] /\ Goto(p, IF sent = {} THEN "done" ELSE "check")
            BY <3>2 DEF CheckList
          <5>2. sent \in SUBSET Recipients /\ \A r \in sent : rec[r] = "SENT"
            OBVIOUS
          <5> HIDE DEF sent
          <5> QED  BY <5>1, <5>2
        <4>2. todo'[p] = sent
          BY <4>1 DEF TypeOK, CallTypes
        <4>3. pc'[p] \in {"done", "check"}
          BY <4>1 DEF Goto, TypeOK, CallTypes
        <4>4. rec' = rec
          BY <3>2 DEF CheckList, rows
        <4> QED  BY <4>1, <4>2, <4>3, <4>4
      <3>3. CASE q = p /\ Check(p)
        <4>1. PICK r \in todo[p] : /\ todo' = [todo EXCEPT ![p] = @ \ {r}]
                                   /\ about' = [about EXCEPT ![p] = [to |-> r, n |-> 0]]
                                   /\ \/ Goto(p, "check_mark")
                                      \/ Goto(p, IF todo[p] = {r} THEN "done" ELSE "check")
          BY <3>3 DEF Check
        <4>2. todo'[p] = todo[p] \ {r} /\ about'[p].to = r
          BY <4>1 DEF TypeOK, CallTypes
        <4>3. pc'[p] \in {"check_mark", "done", "check"}
          BY <4>1 DEF Goto, TypeOK, CallTypes
        <4>4. pc[p] = "check"
          BY <3>3 DEF Check, At
        <4>5. \A x \in todo[p] : rec'[x] \in {"SENT", "FAILED"}
          BY <2>1, <4>4
        <4> QED  BY <4>1, <4>2, <4>3, <4>5
      <3>4. CASE q = p /\ CheckMark(p)
        <4>1. pc[p] = "check_mark" /\ todo' = todo
          BY <3>4 DEF CheckMark, At
        <4>2. pc'[p] \in {"done", "check_count"}
          BY <3>4 DEF CheckMark, Goto, TypeOK, CallTypes
        <4> QED  BY <2>1, <4>1, <4>2
      <3>5. CASE q = p /\ CountReport(p)
        <4>1. pc[p] \in {"report_count", "check_count"} /\ todo' = todo
          BY <3>5 DEF CountReport, At
        <4>2. pc'[p] = "done" \/ (pc[p] = "check_count" /\ pc'[p] = "check")
          BY <3>5 DEF CountReport, At, Goto, TypeOK, CallTypes
        <4> QED  BY <2>1, <4>1, <4>2
      <3>6. CASE q = p /\ ~CheckList(p) /\ ~Check(p) /\ ~CheckMark(p) /\ ~CountReport(p)
        <4>1. PICK l \in CLabels \ {"report", "check", "check_mark", "check_count"} : Goto(p, l)
          BY <2>4, <3>6 DEF CStep, StartRead, StartCount, StartTotal, ResumeRead, SuspendRead, ImportRead,
             DeleteRead, ReadStatus, ResetRecipients, ResetCounters, Run, Enqueue, Suspend, Import,
             Delete, Report, CLabels
        <4> QED  BY <2>3, <4>1
      <3> QED  BY <3>1, <3>2, <3>3, <3>4, <3>5, <3>6
    <2>5. ASSUME NEW q \in Calls, CallError(q) PROVE Ok
      <3>1. CASE q = p
        BY <2>3, <2>5, <3>1 DEF CallError, CLabels
      <3>2. CASE q # p
        <4>1. Goto(q, "done") /\ UNCHANGED <<about, todo>>
          BY <2>5 DEF CallError
        <4>2. pc'[p] = pc[p]
          BY <3>2, <4>1, GotoTypes DEF TypeOK, CLabels
        <4> QED  BY <2>2, <4>1, <4>2
      <3> QED  BY <3>1, <3>2
    <2>6. ASSUME NEW q \in Calls, NEW o \in Handlers, Begin(q, o) PROVE Ok
      <3>1. Goto(q, FirstLabel(o)) /\ FirstLabel(o) \in CLabels
        BY <2>6 DEF Begin, FirstLabel, Handlers, CLabels
      <3>2. CASE q # p
        <4>1. pc'[p] = pc[p]
          BY <3>1, <3>2, GotoTypes DEF TypeOK
        <4>2. about'[p] = about[p] /\ todo' = todo
          BY <2>6, <3>2 DEF Begin, TypeOK, CallTypes
        <4> QED  BY <2>2, <4>1, <4>2
      <3>3. CASE q = p /\ o # "webhook"
        <4>1. FirstLabel(o) \notin {"report", "check", "check_mark", "check_count"}
          BY <3>3 DEF FirstLabel, Handlers
        <4> QED  BY <2>3, <3>1, <3>3, <4>1
      <3>4. CASE q = p /\ o = "webhook"
        <4>1. PICK m \in Messages : about' = [about EXCEPT ![p] = m]
          BY <2>6, <3>4 DEF Begin
        <4>2. m.n # 0
          BY <4>1 DEF Messages, TypeOK, HistoryTypes
        <4>3. about'[p] = m
          BY <4>1 DEF TypeOK, CallTypes
        <4>4. pc'[p] = "report"
          BY <3>1, <3>4, GotoTypes DEF TypeOK, FirstLabel
        <4> QED  BY <4>2, <4>3, <4>4
      <3> QED  BY <3>2, <3>3, <3>4
    <2>7. Ok
      <3> HIDE DEF Ok
      <3> QED  BY <2>4, <2>5, <2>6, Zenon DEF CallSteps
    <2> QED  BY <2>7
  <1>5. \A r \in Recipients : ext'[r] # 0 => Reached(r)'
    BY <1>0, <1>1, <1>3 DEF CountInv, MarksRight
  <1>6. /\ \A w \in Ticks : wpc'[w] \in InBatch => batch'[w] \subseteq Pending'
        /\ \A w \in Ticks : wpc'[w] \in {"send", "mark_sent", "mark_failed"} => cur'[w] \in Pending' \ batch'[w]
    BY <1>0, <1>1, <1>2 DEF CountInv, MarksRight
  <1> QED  BY <1>4, <1>5, <1>6 DEF MarksRight, Reached

\* One more with a status is one more that is owed.
LEMMA Balance ==
    ASSUME NEW count \in Int, NEW due \in Int, NEW owing \in Int, NEW with \in Int, NEW more \in Int,
           count + due + owing = with + more
    PROVE  /\ count + (due + 1) + owing = (with + 1) + more
           /\ count + due + (owing + 1) = (with + 1) + more
  OBVIOUS

\* The worker marks, then counts.
LEMMA WorkerCounts ==
    ASSUME TypeOK, TypeOK', CountInv, NEW w \in Ticks, Tick(w) \/ WStep(w)
    PROVE  Counted'
  <1>0. /\ UNCHANGED <<pc, again, repeats>> /\ Owing' = Owing
        /\ batch[w] \in SUBSET Recipients /\ cur[w] \in Recipients
        /\ sentCount \in Int /\ failedCount \in Int /\ repeats \in Nat
    BY WorkerLeaves DEF Owing, TypeOK, RowTypes, WorkerTypes, HistoryTypes
  <1>1. IsFiniteSet(Owing) /\ Cardinality(Owing) \in Nat
    BY FS_CardinalityType DEF CountInv, Counted
  <1> SUFFICES ASSUME FirstRound
               PROVE  /\ sentCount' + Sending' - Cardinality(Owing) = With("SENT")' - repeats
                      /\ failedCount' + Failing' + Cardinality(Owing) = With("FAILED")' + repeats
    BY <1>0, <1>1 DEF Counted, FirstRound
  <1>2. /\ sentCount + Sending - Cardinality(Owing) = With("SENT") - repeats
        /\ failedCount + Failing + Cardinality(Owing) = With("FAILED") + repeats
    BY DEF CountInv, Counted
  <1>3. /\ With("SENT") \in Nat /\ With("FAILED") \in Nat
        /\ Sending \in {0, 1} /\ Failing \in {0, 1}
    BY WithIs DEF Sending, Failing, OneIf
  <1>4. ASSUME NEW l \in WLabels \ {"count_sent", "count_failed"}, WGoto(w, l), wpc[w] # "idle",
               wpc[w] \notin {"count_sent", "count_failed"}, UNCHANGED <<rec, sentCount, failedCount>>
        PROVE  /\ sentCount' + Sending' - Cardinality(Owing) = With("SENT")' - repeats
               /\ failedCount' + Failing' + Cardinality(Owing) = With("FAILED")' + repeats
    <2>1. Sending' = Sending /\ Failing' = Failing
      BY <1>4, WorkerOwes DEF OneIf
    <2>2. With("SENT")' = With("SENT") /\ With("FAILED")' = With("FAILED")
      BY <1>4, SameRec
    <2> HIDE DEF Sending, Failing, Owing, With
    <2> QED  BY <1>2, <1>4, <2>1, <2>2
  <1>5. CASE Tick(w)
    <2>1. \A v \in Ticks : wpc[v] = "idle" /\ wpc'[v] \in {"idle", "read"}
      BY <1>5 DEF Tick, WGoto, TypeOK, OneBatch, WorkerTypes
    <2>2. Sending' = Sending /\ Failing' = Failing
      BY <2>1 DEF Sending, Failing, OneIf
    <2>3. UNCHANGED <<rec, sentCount, failedCount>>
      BY <1>5 DEF Tick, rows, campaign
    <2>4. With("SENT")' = With("SENT") /\ With("FAILED")' = With("FAILED")
      BY <2>3, SameRec
    <2> QED  BY <1>2, <2>2, <2>3, <2>4
  <1>6. CASE MarkSent(w)
    <2>1. wpc[w] = "mark_sent" /\ rec[cur[w]] = "PENDING"
      BY <1>6 DEF MarkSent, WAt, CountInv, MarksRight, Pending
    <2>2. SetRec(cur[w], "SENT") /\ WGoto(w, "count_sent") /\ UNCHANGED <<sentCount, failedCount>>
      BY <1>6, <2>1 DEF MarkSent, campaign
    <2>3. With("SENT")' = With("SENT") + 1 /\ With("FAILED")' = With("FAILED")
      BY <1>0, <2>1, <2>2, WithMoves
    <2>4. Sending = 0 /\ Failing = 0 /\ Sending' = 1 /\ Failing' = 0
      BY <2>1, <2>2, WorkerOwes DEF OneIf, WLabels
    <2>8. sentCount' + Sending' - Cardinality(Owing) = With("SENT")' - repeats
      BY <1>0, <1>1, <1>2, <1>3, <2>2, <2>3, <2>4
    <2>9. failedCount' + Failing' + Cardinality(Owing) = With("FAILED")' + repeats
      BY <1>0, <1>1, <1>2, <1>3, <2>2, <2>3, <2>4
    <2> QED  BY <2>8, <2>9
  <1>7. CASE MarkFailed(w)
    <2>1. wpc[w] = "mark_failed" /\ rec[cur[w]] = "PENDING"
      BY <1>7 DEF MarkFailed, WAt, CountInv, MarksRight, Pending
    <2>2. SetRec(cur[w], "FAILED") /\ WGoto(w, "count_failed") /\ UNCHANGED <<sentCount, failedCount>>
      BY <1>7, <2>1 DEF MarkFailed, campaign
    <2>3. With("FAILED")' = With("FAILED") + 1 /\ With("SENT")' = With("SENT")
      BY <1>0, <2>1, <2>2, WithMoves
    <2>4. Sending = 0 /\ Failing = 0 /\ Sending' = 0 /\ Failing' = 1
      BY <2>1, <2>2, WorkerOwes DEF OneIf, WLabels
    <2>8. sentCount' + Sending' - Cardinality(Owing) = With("SENT")' - repeats
      BY <1>0, <1>1, <1>2, <1>3, <2>2, <2>3, <2>4
    <2>9. failedCount' + Failing' + Cardinality(Owing) = With("FAILED")' + repeats
      <3>1. /\ failedCount + 0 + Cardinality(Owing) = With("FAILED") + repeats
            /\ Failing' = 1 /\ With("FAILED")' = With("FAILED") + 1 /\ failedCount' = failedCount
        BY <1>2, <2>2, <2>3, <2>4
      <3> QED  BY <1>0, <1>1, <1>3, <3>1, Balance
    <2> QED  BY <2>8, <2>9
  <1>8. CASE CountSent(w) \/ CountFailed(w)
    <2>1. PICK l \in {"recount", "next"} : WGoto(w, l)
      BY <1>8 DEF CountSent, CountFailed, AfterOne
    <2>2. wpc[w] \in {"count_sent", "count_failed"} /\ rec' = rec
      BY <1>8 DEF CountSent, CountFailed, WAt, rows
    <2>3. /\ Sending = OneIf(wpc[w] = "count_sent") /\ Failing = OneIf(wpc[w] = "count_failed")
          /\ Sending' = 0 /\ Failing' = 0
      BY <2>1, <2>2, WorkerOwes DEF OneIf, WLabels
    <2>4. With("SENT")' = With("SENT") /\ With("FAILED")' = With("FAILED")
      BY <2>2, SameRec
    <2>5. CASE CountSent(w)
      <3>1. sentCount' = sentCount + 1 /\ failedCount' = failedCount /\ Sending = 1 /\ Failing = 0
        BY <2>3, <2>5 DEF CountSent, WAt, OneIf
      <3> QED  BY <1>0, <1>1, <1>2, <1>3, <2>3, <2>4, <3>1
    <2>6. CASE CountFailed(w)
      <3>1. failedCount' = failedCount + 1 /\ sentCount' = sentCount /\ Sending = 0 /\ Failing = 1
        BY <2>3, <2>6 DEF CountFailed, WAt, OneIf
      <3> QED  BY <1>0, <1>1, <1>2, <1>3, <2>3, <2>4, <3>1
    <2> QED  BY <1>8, <2>5, <2>6
  <1>9. CASE BatchRead(w) \/ BatchFetch(w) \/ NextRecipient(w) \/ Send(w) \/ Recount(w) \/ Complete(w) \/ Requeue(w)
    <2>1. PICK l \in WLabels \ {"count_sent", "count_failed"} : WGoto(w, l)
      <3>1. CASE BatchFetch(w)
        <4>1. \E B \in SUBSET Pending : WGoto(w, IF B = {} THEN "recount" ELSE "next")
          BY <3>1, Zenon DEF BatchFetch
        <4> QED  BY <4>1 DEF WLabels
      <3>2. CASE BatchRead(w) \/ NextRecipient(w) \/ Send(w) \/ Recount(w) \/ Complete(w) \/ Requeue(w)
        BY <3>2 DEF BatchRead, NextRecipient, Send, Recount, Complete, Requeue, End, WLabels
      <3> QED  BY <1>9, <3>1, <3>2
    <2>2. wpc[w] \notin {"idle", "count_sent", "count_failed"}
      BY <1>9 DEF BatchRead, BatchFetch, NextRecipient, Send, Recount, Complete, Requeue, WAt
    <2>3. UNCHANGED <<rec, sentCount, failedCount>>
      BY <1>9 DEF BatchRead, BatchFetch, NextRecipient, Send, Recount, Complete, Requeue, rows, campaign
    <2> QED  BY <1>4, <2>1, <2>2, <2>3
  <1> QED  BY <1>5, <1>6, <1>7, <1>8, <1>9 DEF WStep

\* A report marks, then moves one from sent to failed; if it was not sent any more
\* that is one repetition.
LEMMA CallCounts ==
    ASSUME "database" \notin Faults, TypeOK, TypeOK', CountInv, CallSteps
    PROVE  Counted'
  <1> DEFINE Right == FirstRound' =>
                        /\ sentCount' + Sending' - Cardinality(Owing') = With("SENT")' - repeats'
                        /\ failedCount' + Failing' + Cardinality(Owing') = With("FAILED")' + repeats'
  <1>0. Next
    BY Zenon DEF CallSteps, Next
  <1>1. Sending' = Sending /\ Failing' = Failing
    BY CallLeaves DEF CallSteps, Sending, Failing
  <1>2. IsFiniteSet(Owing) /\ Cardinality(Owing) \in Nat
    BY FS_CardinalityType DEF CountInv, Counted
  <1>3. /\ FirstRound' => FirstRound
        /\ FirstRound => /\ sentCount + Sending - Cardinality(Owing) = With("SENT") - repeats
                         /\ failedCount + Failing + Cardinality(Owing) = With("FAILED") + repeats
    BY <1>0, FirstStays DEF CountInv, Counted
  <1>4. /\ With("SENT") \in Nat /\ With("FAILED") \in Nat
        /\ Sending \in {0, 1} /\ Failing \in {0, 1}
        /\ sentCount \in Int /\ failedCount \in Int /\ repeats \in Nat
    BY WithIs DEF Sending, Failing, OneIf, TypeOK, RowTypes, HistoryTypes
  <1>5. ASSUME NEW p \in Calls, NEW l \in CLabels, Goto(p, l), l \notin {"report_count", "check_count"},
               pc[p] \notin {"report_count", "check_count"},
               FirstRound' => /\ UNCHANGED <<sentCount, failedCount, repeats>>
                              /\ With("SENT")' = With("SENT") /\ With("FAILED")' = With("FAILED")
        PROVE  IsFiniteSet(Owing') /\ Right
    <2>1. p \notin Owing
      BY <1>5 DEF Owing
    <2>2. Owing' = Owing
      BY <1>2, <1>5, <2>1, OwingMoves
    <2> HIDE DEF Sending, Failing, Owing, With
    <2> QED  BY <1>1, <1>2, <1>3, <1>5, <2>2
  <1>6. ASSUME NEW p \in Calls, Report(p) \/ CheckMark(p) PROVE IsFiniteSet(Owing') /\ Right
    <2>1. PICK r \in Recipients : r = about[p].to
      BY DEF TypeOK, CallTypes
    <2>2. pc[p] \in {"report", "check_mark"} /\ p \notin Owing /\ UNCHANGED <<sentCount, failedCount>>
      BY <1>6 DEF Report, CheckMark, At, Owing, campaign
    <2>3. CASE Goto(p, "done") /\ UNCHANGED <<rec, repeats>>
      BY <1>5, <2>2, <2>3, SameRec DEF CLabels
    <2>4. CASE ~(Goto(p, "done") /\ UNCHANGED <<rec, repeats>>)
      <3>1. /\ SetRec(r, "FAILED")
            /\ repeats' = IF rec[r] = "SENT" THEN repeats ELSE repeats + 1
            /\ \E l \in {"report_count", "check_count"} : Goto(p, l)
            /\ Report(p) => ext[r] = about[p].n
        BY <1>6, <2>1, <2>4 DEF Report, CheckMark
      <3>2. FirstRound' => rec[r] \in {"SENT", "FAILED"}
        <4>1. CASE Report(p)
          <5>1. pc[p] = "report" /\ ext[r] = about[p].n
            BY <3>1, <4>1 DEF Report, At
          <5> QED  BY <1>3, <5>1 DEF CountInv, MarksRight, Reached
        <4>2. CASE CheckMark(p)
          BY <1>3, <2>1, <4>2 DEF CheckMark, At, CountInv, MarksRight, Reached
        <4> QED  BY <1>6, <4>1, <4>2
      <3>3. IsFiniteSet(Owing') /\ Cardinality(Owing') = Cardinality(Owing) + 1
        BY <1>2, <2>2, <3>1, OwingMoves DEF CLabels
      <3>4. rec[r] = "SENT" => With("FAILED")' = With("FAILED") + 1 /\ With("SENT")' = With("SENT") - 1
        BY <3>1, WithMoves
      <3>5. rec[r] = "FAILED" => With("FAILED")' = With("FAILED") /\ With("SENT")' = With("SENT")
        BY <3>1, WithMoves
      <3>6. ASSUME FirstRound', rec[r] = "SENT" PROVE Right
        <4>1. repeats' = repeats
          BY <3>1, <3>6
        <4> HIDE DEF Sending, Failing, Owing, With
        <4>8. sentCount' + Sending' - Cardinality(Owing') = With("SENT")' - repeats'
          BY <1>1, <1>2, <1>3, <1>4, <2>2, <3>3, <3>4, <3>6, <4>1
        <4>9. failedCount' + Failing' + Cardinality(Owing') = With("FAILED")' + repeats'
          <5>1. /\ failedCount + Failing + Cardinality(Owing) = With("FAILED") + repeats
                /\ Cardinality(Owing') = Cardinality(Owing) + 1 /\ Failing' = Failing
                /\ With("FAILED")' = With("FAILED") + 1 /\ failedCount' = failedCount
            BY <1>1, <1>3, <2>2, <3>3, <3>4, <3>6
          <5> QED  BY <1>2, <1>4, <4>1, <5>1, Balance
        <4> QED  BY <4>8, <4>9
      <3>7. ASSUME FirstRound', rec[r] = "FAILED" PROVE Right
        <4>1. repeats' = repeats + 1
          BY <3>1, <3>7
        <4> HIDE DEF Sending, Failing, Owing, With
        <4>8. sentCount' + Sending' - Cardinality(Owing') = With("SENT")' - repeats'
          BY <1>1, <1>2, <1>3, <1>4, <2>2, <3>3, <3>5, <3>7, <4>1
        <4>9. failedCount' + Failing' + Cardinality(Owing') = With("FAILED")' + repeats'
          BY <1>1, <1>2, <1>3, <1>4, <2>2, <3>3, <3>5, <3>7, <4>1
        <4> QED  BY <4>8, <4>9
      <3> QED  BY <3>2, <3>3, <3>6, <3>7
    <2> QED  BY <2>3, <2>4
  <1>7. ASSUME NEW p \in Calls, CountReport(p) PROVE IsFiniteSet(Owing') /\ Right
    <2>1. p \in Owing /\ sentCount' = sentCount - 1 /\ failedCount' = failedCount + 1
          /\ UNCHANGED <<rec, repeats>>
      BY <1>7 DEF CountReport, At, Owing, rows, history
    <2>2. \E l \in {"check", "done"} : Goto(p, l)
      BY <1>7 DEF CountReport
    <2>3. IsFiniteSet(Owing') /\ Cardinality(Owing') = Cardinality(Owing) - 1
      BY <1>2, <2>1, <2>2, OwingMoves DEF CLabels
    <2>4. With("SENT")' = With("SENT") /\ With("FAILED")' = With("FAILED")
      BY <2>1, SameRec
    <2> HIDE DEF Sending, Failing, Owing, With
    <2> QED  BY <1>1, <1>2, <1>3, <1>4, <2>1, <2>3, <2>4
  <1>8. ASSUME NEW p \in Calls, CStep(p), ~Report(p), ~CheckMark(p), ~CountReport(p)
        PROVE  IsFiniteSet(Owing') /\ Right
    <2>1. PICK l \in CLabels \ {"report_count", "check_count"} : Goto(p, l)
      BY <1>8 DEF CStep, StartRead, StartCount, StartTotal, ResumeRead, SuspendRead, ImportRead,
         DeleteRead, ReadStatus, ResetRecipients, ResetCounters, Run, Enqueue, Suspend, Import,
         Delete, CheckList, Check, CLabels
    <2>2. pc[p] \notin {"report_count", "check_count"}
      BY <1>8 DEF CStep, StartRead, StartCount, StartTotal, ResumeRead, SuspendRead, ImportRead,
         DeleteRead, ReadStatus, ResetRecipients, ResetCounters, Run, Enqueue, Suspend, Import,
         Delete, CheckList, Check, At
    <2>3. FirstRound' => UNCHANGED <<sentCount, failedCount, repeats>>
      <3>1. FirstRound' => ~ResetCounters(p)
        BY <1>3 DEF ResetCounters, At, CountInv, CompletedHasReached
      <3>2. ~ResetCounters(p) => UNCHANGED <<sentCount, failedCount, repeats>>
        BY <1>8 DEF CStep, StartRead, StartCount, StartTotal, ResumeRead, SuspendRead, ImportRead,
           DeleteRead, ReadStatus, ResetRecipients, Run, Enqueue, Suspend, Import,
           Delete, CheckList, Check, campaign, history
      <3> QED  BY <3>1, <3>2
    <2>4. FirstRound' => With("SENT")' = With("SENT") /\ With("FAILED")' = With("FAILED")
      <3>1. CASE Import(p)
        <4>1. WithStatus("SENT")' = WithStatus("SENT") /\ WithStatus("FAILED")' = WithStatus("FAILED")
          BY <3>1 DEF Import, WithStatus, TypeOK, RowTypes
        <4> QED  BY <4>1 DEF With, WithStatus
      <3>2. CASE ResetRecipients(p)
        <4>1. FirstRound' => rec' = rec
          BY <3>2, ResetFirst
        <4> QED  BY <4>1, SameRec
      <3>3. CASE ~Import(p) /\ ~ResetRecipients(p)
        <4>1. ~Delete(p)
          BY DEF Delete, At, CountInv
        <4>2. rec' = rec
          BY <1>8, <3>3, <4>1 DEF CStep, StartRead, StartCount, StartTotal, ResumeRead, SuspendRead,
             ImportRead, DeleteRead, ReadStatus, ResetCounters, Run, Enqueue, Suspend, CheckList, Check, rows
        <4> QED  BY <4>2, SameRec
      <3> QED  BY <3>1, <3>2, <3>3
    <2> HIDE DEF Right
    <2> QED  BY <1>5, <2>1, <2>2, <2>3, <2>4
  <1>9. ASSUME NEW p \in Calls PROVE ~CallError(p)
    BY DEF CallError
  <1>10. ASSUME NEW p \in Calls, NEW o \in Handlers, Begin(p, o) PROVE IsFiniteSet(Owing') /\ Right
    <2>1. /\ Goto(p, FirstLabel(o)) /\ FirstLabel(o) \in CLabels \ {"report_count", "check_count"}
          /\ pc[p] = "idle" /\ UNCHANGED <<rec, sentCount, failedCount, repeats>>
      BY <1>10 DEF Begin, At, FirstLabel, Handlers, CLabels, campaign, rows, history
    <2>2. With("SENT")' = With("SENT") /\ With("FAILED")' = With("FAILED")
      BY <2>1, SameRec
    <2> HIDE DEF Right
    <2> QED  BY <1>5, <2>1, <2>2
  <1> QED
    <2> HIDE DEF Right
    <2>1. IsFiniteSet(Owing') /\ Right
      BY <1>6, <1>7, <1>8, <1>9, <1>10, Zenon DEF CallSteps
    <2> QED  BY <2>1 DEF Right, Counted

-----------------------------------------------------------------------------
LEMMA InitCounted == Init => CountInv
  <1> SUFFICES ASSUME Init PROVE CountInv
    OBVIOUS
  <1>1. \A p \in Calls : pc[p] = "idle" /\ todo[p] = {}
    BY DEF Init
  <1>2. Owing = {}
    BY <1>1 DEF Owing
  <1>3. IsFiniteSet(Owing) /\ Cardinality(Owing) = 0
    BY <1>2, FS_EmptySet
  <1>4. \A st \in {"SENT", "FAILED"} : With(st) = 0
    <2> SUFFICES ASSUME NEW st \in {"SENT", "FAILED"} PROVE With(st) = 0
      OBVIOUS
    <2>1. WithStatus(st) = {}
      BY DEF Init, WithStatus
    <2> QED  BY <2>1, FS_EmptySet, WithIs
  <1>5. \A w \in Ticks : wpc[w] = "idle"
    BY DEF Init
  <1>6. Sending = 0 /\ Failing = 0
    BY <1>5 DEF Sending, Failing, OneIf
  <1>7. sentCount = 0 /\ failedCount = 0 /\ repeats = 0 /\ status = "DRAFT" /\ \A r \in Recipients : ext[r] = 0
    BY DEF Init
  <1>8. Counted
    BY <1>3, <1>4, <1>6, <1>7 DEF Counted
  <1> QED  BY <1>1, <1>5, <1>7, <1>8 DEF CountInv, StartedHasRows, CompletedHasReached, MarksRight, InBatch

LEMMA NextCounted ==
    ASSUME NoDeletions, "crash" \notin Faults, "database" \notin Faults
    PROVE  TypeOK /\ TypeOK' /\ CountInv /\ [Next]_vars => CountInv'
  <1> SUFFICES ASSUME TypeOK, TypeOK', CountInv, [Next]_vars PROVE CountInv'
    OBVIOUS
  <1>1. CASE UNCHANGED vars
    <2>1. UNCHANGED <<Owing, Sending, Failing, With("SENT"), With("FAILED"), Pending, FirstRound>>
      BY <1>1 DEF vars, rows, worker, calls, history, Owing, Sending, Failing, With, Pending, FirstRound
    <2>2. Counted'
      BY <1>1, <2>1 DEF CountInv, Counted, vars, campaign, history
    <2>3. StartedHasRows' /\ CompletedHasReached' /\ MarksRight'
      BY <1>1 DEF CountInv, StartedHasRows, CompletedHasReached, MarksRight, Reached, Pending, FirstRound,
         vars, campaign, rows, worker, calls, history
    <2>4. pc' = pc
      BY <1>1 DEF vars, calls
    <2> QED  BY <2>2, <2>3, <2>4 DEF CountInv
  <1>2. CASE Next
    <2>1. MarksRight' /\ Counted'
      <3>1. CASE WorkerSteps
        BY <3>1, WorkerMarks, WorkerCounts DEF WorkerSteps
      <3>2. CASE CallSteps
        BY <3>2, CallMarks, CallCounts
      <3> QED  BY <1>2, <3>1, <3>2, StepIs
    <2> QED  BY <1>2, <2>1, NoneDeletes, StartedKeeps, CompletedKeeps DEF CountInv
  <1> QED  BY <1>1, <1>2

\* incrementCounters, by the worker, the webhook and GetCampaign: until the campaign is
\* started again the counters drift from the recipients by exactly the failures
\* reported more than once, however the three interleave, if no statement fails, the
\* process stays up and the campaign is not deleted.
THEOREM CountersFollow ==
    ASSUME NoDeletions, "crash" \notin Faults, "database" \notin Faults
    PROVE  Spec => []CountersAgree
  <1>1. TypeOK /\ CountInv => CountersAgree
    <2> SUFFICES ASSUME TypeOK, CountInv, FirstRound, ~CountDue
                 PROVE  sentCount = With("SENT") - repeats /\ failedCount = With("FAILED") + repeats
      BY DEF CountersAgree
    <2>1. Owing = {} /\ Sending = 0 /\ Failing = 0
      BY DEF CountDue, Owing, Sending, Failing, OneIf
    <2>2. Cardinality(Owing) = 0
      BY <2>1, FS_EmptySet
    <2>3. sentCount \in Int /\ failedCount \in Int
      BY DEF TypeOK, RowTypes
    <2> QED  BY <2>1, <2>2, <2>3 DEF CountInv, Counted
  <1>2. TypeOK /\ CountInv /\ [Next]_vars => CountInv'
    BY NextType, NextCounted
  <1> QED  BY <1>1, <1>2, InitType, NextType, InitCounted, PTL DEF Spec

=============================================================================
