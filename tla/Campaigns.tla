------------------------------- MODULE Campaigns -------------------------------
(***************************************************************************)
(* ONE bulk campaign: the queue worker that sends it in batches, the       *)
(* handlers of the campaigns router, and the failure reports of the        *)
(* provider.  Other campaigns share the worker and only delay it.          *)
(*                                                                         *)
(* Grain: one action is one awaited statement.  No statement of this       *)
(* module checks what an earlier one read: every status is written         *)
(* unconditionally and the counters are plain increments.                  *)
(***************************************************************************)
EXTENDS Integers, FiniteSets, FiniteSetsExt

CONSTANTS
    Recipients,
    BatchSize,  \* LIMIT of findPendingBatch
    Ticks,      \* invocations of processQueue by the poll timer or a trigger
    Calls,      \* HTTP and webhook calls; each runs once (bounds the history)
    Roles,      \* Roles[p]: the handlers call p may run
    Faults      \* failures that happen, a subset of FaultKinds

Handlers == {"start", "suspend", "resume", "import", "delete", "webhook", "check"}
FaultKinds == {"crash", "database", "answer"}

ASSUME BatchAssumption == BatchSize \in Nat \ {0}
ASSUME RecipientsAssumption == IsFiniteSet(Recipients) /\ Recipients # {}
ASSUME RolesAssumption == Roles \in [Calls -> SUBSET Handlers] /\ Faults \subseteq FaultKinds

VARIABLES
    status, sentCount, failedCount, \* the campaign row ("NONE": deleted)
    rec,          \* rec[r]: status of the recipient row ("ABSENT": no row)
    ext,          \* ext[r]: which of the messages to r is its external_id, 0 for none
    jobs,         \* entries of the Redis list that name the campaign
    isProcessing, \* field of CampaignWorkerService
    wpc, batch, cur, \* per tick: next statement, recipients still to serve, the one served
    pc, about, todo, \* per call: next statement, the message it is about, recipients to check
    sends,        \* history: messages the provider accepted for r
    again,        \* history: occasions on which r became due once more
    since,        \* history: messages accepted since the campaign was suspended
    repeats       \* history: failure reports of a recipient not SENT any more

campaign == <<status, sentCount, failedCount>>
rows     == <<rec, ext>>
queue    == <<jobs, isProcessing>>
worker   == <<wpc, batch, cur>>
calls    == <<pc, about, todo>>
history  == <<sends, again, since, repeats>>
vars     == <<campaign, rows, queue, worker, calls, history>>

Pending == {r \in Recipients : rec[r] = "PENDING"}
With(st) == Cardinality({r \in Recipients : rec[r] = st})

\* A draft, with the recipients imported so far.
Init ==
    /\ status = "DRAFT" /\ sentCount = 0 /\ failedCount = 0
    /\ rec \in [Recipients -> {"PENDING", "ABSENT"}]
    /\ ext = [r \in Recipients |-> 0]
    /\ jobs = 0 /\ isProcessing = FALSE
    /\ wpc = [w \in Ticks |-> "idle"] /\ batch = [w \in Ticks |-> {}]
    /\ cur = [w \in Ticks |-> CHOOSE r \in Recipients : TRUE]
    /\ pc = [p \in Calls |-> "idle"] /\ todo = [p \in Calls |-> {}]
    /\ about = [p \in Calls |-> [to |-> CHOOSE r \in Recipients : TRUE, n |-> 0]]
    /\ sends = [r \in Recipients |-> 0] /\ again = [r \in Recipients |-> 0]
    /\ since = 0 /\ repeats = 0

WAt(w, l)   == wpc[w] = l
WGoto(w, l) == wpc' = [wpc EXCEPT ![w] = l]
At(p, l)    == pc[p] = l
Goto(p, l)  == pc' = [pc EXCEPT ![p] = l]

\* campaignRepo.updateStatus: no condition on the status replaced.
SetStatus(st) == /\ status' = st
                 /\ since' = IF st = "RUNNING" THEN 0 ELSE since

SetRec(r, st) == rec' = [rec EXCEPT ![r] = st]

-----------------------------------------------------------------------------
(* CampaignWorkerService and ProcessCampaignBatch *)

\* Mutant of Tick: processQueue does not look at isProcessing.
TickUnguarded(w) ==
    /\ WAt(w, "idle") /\ jobs > 0
    /\ isProcessing' = TRUE /\ jobs' = jobs - 1
    /\ WGoto(w, "read")
    /\ UNCHANGED <<campaign, rows, batch, cur, calls, history>>

\* processQueue: nothing while a batch runs; else the oldest job is popped.
Tick(w) ==
    /\ WAt(w, "idle") /\ ~isProcessing /\ jobs > 0
    /\ isProcessing' = TRUE /\ jobs' = jobs - 1
    /\ WGoto(w, "read")
    /\ UNCHANGED <<campaign, rows, batch, cur, calls, history>>

\* Mutant of End: the flag is cleared only after a batch that was queued again.
EndBusy(w) == WGoto(w, "idle") /\ UNCHANGED queue

\* The `finally' of processQueue.
End(w) == WGoto(w, "idle") /\ isProcessing' = FALSE /\ UNCHANGED jobs

\* A campaign that is not RUNNING ends the job, and it is not queued again.
BatchRead(w) ==
    /\ WAt(w, "read")
    /\ IF status = "RUNNING" THEN WGoto(w, "fetch") /\ UNCHANGED queue ELSE End(w)
    /\ UNCHANGED <<campaign, rows, batch, cur, calls, history>>

\* findPendingBatch in the order of the ids, which are random UUIDs.
BatchFetch(w) ==
    /\ WAt(w, "fetch")
    /\ LET size == IF Cardinality(Pending) < BatchSize THEN Cardinality(Pending) ELSE BatchSize IN
         \E B \in SUBSET Pending :
            /\ Cardinality(B) = size
            /\ batch' = [batch EXCEPT ![w] = B]
            /\ WGoto(w, IF B = {} THEN "recount" ELSE "next")
    /\ UNCHANGED <<campaign, rows, queue, cur, calls, history>>

\* Mutant of NextRecipient: the status is only read before the batch.
NextUnread(w) ==
    /\ WAt(w, "next")
    /\ \E r \in batch[w] : /\ cur' = [cur EXCEPT ![w] = r]
                           /\ batch' = [batch EXCEPT ![w] = @ \ {r}]
    /\ WGoto(w, "send")
    /\ UNCHANGED <<campaign, rows, queue, calls, history>>

\* The status is read again before each recipient.
NextRecipient(w) ==
    /\ WAt(w, "next")
    /\ IF status = "RUNNING"
       THEN /\ \E r \in batch[w] : /\ cur' = [cur EXCEPT ![w] = r]
                                   /\ batch' = [batch EXCEPT ![w] = @ \ {r}]
            /\ WGoto(w, "send") /\ UNCHANGED queue
       ELSE End(w) /\ UNCHANGED <<batch, cur>>
    /\ UNCHANGED <<campaign, rows, calls, history>>

\* The sender answers with an id, or throws: the message was refused, or it
\* was accepted and the answer was lost.
Accepted(r) ==
    /\ sends' = [sends EXCEPT ![r] = @ + 1]
    /\ since' = IF status = "SUSPENDED" THEN since + 1 ELSE since
    /\ UNCHANGED <<again, repeats>>

Send(w) ==
    /\ WAt(w, "send")
    /\ \/ Accepted(cur[w]) /\ WGoto(w, "mark_sent")
       \/ UNCHANGED history /\ WGoto(w, "mark_failed")
       \/ "answer" \in Faults /\ Accepted(cur[w]) /\ WGoto(w, "mark_failed")
    /\ UNCHANGED <<campaign, rows, queue, batch, cur, calls>>

\* A row deleted meanwhile makes updateStatus throw: into the catch here, out
\* of the batch there.
MarkSent(w) ==
    /\ WAt(w, "mark_sent")
    /\ IF rec[cur[w]] = "ABSENT"
       THEN WGoto(w, "mark_failed") /\ UNCHANGED rows
       ELSE /\ SetRec(cur[w], "SENT")
            /\ ext' = [ext EXCEPT ![cur[w]] = sends[cur[w]]]
            /\ WGoto(w, "count_sent")
    /\ UNCHANGED <<campaign, queue, batch, cur, calls, history>>

AfterOne(w) == IF batch[w] = {} THEN "recount" ELSE "next"

CountSent(w) ==
    /\ WAt(w, "count_sent")
    /\ sentCount' = sentCount + 1
    /\ WGoto(w, AfterOne(w))
    /\ UNCHANGED <<status, failedCount, rows, queue, batch, cur, calls, history>>

\* Mutant of MarkFailed: the recipient is left to the next batch.
MarkFailedRetrying(w) ==
    /\ WAt(w, "mark_failed")
    /\ IF rec[cur[w]] = "ABSENT"
       THEN End(w)
       ELSE WGoto(w, "count_failed") /\ UNCHANGED queue
    /\ UNCHANGED <<campaign, rows, batch, cur, calls, history>>

MarkFailed(w) ==
    /\ WAt(w, "mark_failed")
    /\ IF rec[cur[w]] = "ABSENT"
       THEN End(w) /\ UNCHANGED rec
       ELSE SetRec(cur[w], "FAILED") /\ WGoto(w, "count_failed") /\ UNCHANGED queue
    /\ UNCHANGED <<campaign, ext, batch, cur, calls, history>>

CountFailed(w) ==
    /\ WAt(w, "count_failed")
    /\ failedCount' = failedCount + 1
    /\ WGoto(w, AfterOne(w))
    /\ UNCHANGED <<status, sentCount, rows, queue, batch, cur, calls, history>>

\* Mutant of Recount: the last recipient is taken to be on its way.
RecountEarly(w) ==
    /\ WAt(w, "recount")
    /\ WGoto(w, IF Cardinality(Pending) <= 1 THEN "complete" ELSE "requeue")
    /\ UNCHANGED <<campaign, rows, queue, batch, cur, calls, history>>

\* After the batch, and when there was none to fetch.
Recount(w) ==
    /\ WAt(w, "recount")
    /\ WGoto(w, IF Pending = {} THEN "complete" ELSE "requeue")
    /\ UNCHANGED <<campaign, rows, queue, batch, cur, calls, history>>

Complete(w) ==
    /\ WAt(w, "complete")
    /\ IF status = "NONE" THEN UNCHANGED <<status, since>> ELSE SetStatus("COMPLETED")
    /\ End(w)
    /\ UNCHANGED <<sentCount, failedCount, rows, batch, cur, calls, sends, again, repeats>>

\* Mutant of Requeue: the job is only queued by the handlers.
RequeueForgotten(w) ==
    /\ WAt(w, "requeue")
    /\ End(w)
    /\ UNCHANGED <<campaign, rows, batch, cur, calls, history>>

Requeue(w) ==
    /\ WAt(w, "requeue")
    /\ jobs' = jobs + 1 /\ isProcessing' = FALSE /\ WGoto(w, "idle")
    /\ UNCHANGED <<campaign, rows, batch, cur, calls, history>>

WStep(w) ==
    \/ BatchRead(w) \/ BatchFetch(w) \/ NextRecipient(w) \/ Send(w) \/ MarkSent(w)
    \/ CountSent(w) \/ MarkFailed(w) \/ CountFailed(w) \/ Recount(w) \/ Complete(w)
    \/ Requeue(w)

-----------------------------------------------------------------------------
(* The router's handlers *)

FirstLabel(o) ==
    CASE o = "start"  -> "start_read"   [] o = "suspend" -> "suspend_read"
      [] o = "resume" -> "resume_read"  [] o = "import"  -> "import_read"
      [] o = "delete" -> "delete_read"  [] o = "webhook" -> "report"
      [] o = "check"  -> "check_list"

\* A webhook is about a message the provider accepted.
Messages == UNION {[to : {r}, n : 1..sends[r]] : r \in Recipients}

Begin(p, o) ==
    /\ At(p, "idle") /\ o \in Roles[p]
    /\ Goto(p, FirstLabel(o))
    /\ IF o = "webhook"
       THEN \E m \in Messages : about' = [about EXCEPT ![p] = m]
       ELSE UNCHANGED about
    /\ UNCHANGED <<campaign, rows, queue, worker, todo, history>>

\* A handler that reads the campaign and goes on only from some statuses.
ReadStatus(p, l, next) ==
    /\ At(p, l) /\ Goto(p, next)
    /\ UNCHANGED <<campaign, rows, queue, worker, about, todo, history>>

StartRead(p) ==
    ReadStatus(p, "start_read",
               CASE status \in {"DRAFT", "SUSPENDED"} -> "start_total"
                 [] status = "COMPLETED"              -> "start_count"
                 [] OTHER                             -> "done")

\* Starting a finished campaign: only the failed ones when some were sent.
StartCount(p) ==
    ReadStatus(p, "start_count",
               IF With("FAILED") > 0 /\ With("SENT") > 0 THEN "reset_failed" ELSE "reset_all")

ResetRecipients(p) ==
    /\ At(p, "reset_failed") \/ At(p, "reset_all")
    /\ LET due == {r \in Recipients : IF At(p, "reset_all") THEN rec[r] # "ABSENT"
                                      ELSE rec[r] = "FAILED"} IN
         /\ rec' = [r \in Recipients |-> IF r \in due THEN "PENDING" ELSE rec[r]]
         /\ ext' = [r \in Recipients |-> IF r \in due THEN 0 ELSE ext[r]]
         /\ again' = [r \in Recipients |->
                        IF r \in due \ Pending THEN again[r] + 1 ELSE again[r]]
    /\ Goto(p, IF At(p, "reset_all") THEN "zero_all" ELSE "zero_failed")
    /\ UNCHANGED <<campaign, queue, worker, about, todo, sends, since, repeats>>

ResetCounters(p) ==
    /\ At(p, "zero_failed") \/ At(p, "zero_all")
    /\ failedCount' = 0
    /\ sentCount' = IF At(p, "zero_all") THEN 0 ELSE sentCount
    /\ Goto(p, "start_total")
    /\ UNCHANGED <<status, rows, queue, worker, about, todo, history>>

StartTotal(p) ==
    ReadStatus(p, "start_total",
               IF \A r \in Recipients : rec[r] = "ABSENT" THEN "done" ELSE "run")

\* StartCampaign and ResumeCampaign: the status first, then the job.
Run(p) ==
    /\ At(p, "run")
    /\ IF status = "NONE"
       THEN Goto(p, "done") /\ UNCHANGED <<status, since>>
       ELSE SetStatus("RUNNING") /\ Goto(p, "enqueue")
    /\ UNCHANGED <<sentCount, failedCount, rows, queue, worker, about, todo, sends, again, repeats>>

Enqueue(p) ==
    /\ At(p, "enqueue")
    /\ jobs' = jobs + 1 /\ Goto(p, "done")
    /\ UNCHANGED <<campaign, rows, isProcessing, worker, about, todo, history>>

ResumeRead(p) == ReadStatus(p, "resume_read", IF status = "SUSPENDED" THEN "run" ELSE "done")
SuspendRead(p) == ReadStatus(p, "suspend_read", IF status = "RUNNING" THEN "suspend" ELSE "done")

Suspend(p) ==
    /\ At(p, "suspend") /\ Goto(p, "done")
    /\ IF status = "NONE" THEN UNCHANGED <<status, since>> ELSE SetStatus("SUSPENDED")
    /\ UNCHANGED <<sentCount, failedCount, rows, queue, worker, about, todo, sends, again, repeats>>

ImportRead(p) == ReadStatus(p, "import_read", IF status = "DRAFT" THEN "import" ELSE "done")

\* bulkInsert: the foreign key refuses recipients of a deleted campaign.
Import(p) ==
    /\ At(p, "import") /\ Goto(p, "done")
    /\ \E new \in SUBSET {r \in Recipients : rec[r] = "ABSENT"} :
         rec' = [r \in Recipients |->
                   IF r \in new /\ status # "NONE" THEN "PENDING" ELSE rec[r]]
    /\ UNCHANGED <<campaign, ext, queue, worker, about, todo, history>>

DeleteRead(p) == ReadStatus(p, "delete_read", IF status = "DRAFT" THEN "delete" ELSE "done")

\* The row goes, and its recipients with it (ON DELETE CASCADE).
Delete(p) ==
    /\ At(p, "delete") /\ Goto(p, "done")
    /\ status' = "NONE"
    /\ rec' = [r \in Recipients |-> "ABSENT"] /\ ext' = [r \in Recipients |-> 0]
    /\ UNCHANGED <<sentCount, failedCount, queue, worker, about, todo, history>>

-----------------------------------------------------------------------------
(* Failures reported after the sending: by webhook, or when GetCampaign asks *)

\* updateStatusByExternalId: whatever the recipient's status.
Report(p) ==
    /\ At(p, "report")
    /\ LET r == about[p].to IN
         IF ext[r] = about[p].n
         THEN /\ SetRec(r, "FAILED")
              /\ repeats' = IF rec[r] = "SENT" THEN repeats ELSE repeats + 1
              /\ Goto(p, "report_count")
         ELSE Goto(p, "done") /\ UNCHANGED <<rec, repeats>>
    /\ UNCHANGED <<campaign, ext, queue, worker, about, todo, sends, again, since>>

\* Mutant of CountReport: the failed one stays counted as sent.
CountReportTwice(p) ==
    /\ At(p, "report_count") \/ At(p, "check_count")
    /\ failedCount' = failedCount + 1
    /\ Goto(p, IF At(p, "check_count") /\ todo[p] # {} THEN "check" ELSE "done")
    /\ UNCHANGED <<status, sentCount, rows, queue, worker, about, todo, history>>

\* incrementCounters(sent: -1, failed: +1), of a webhook or of a check.
CountReport(p) ==
    /\ At(p, "report_count") \/ At(p, "check_count")
    /\ sentCount' = sentCount - 1 /\ failedCount' = failedCount + 1
    /\ Goto(p, IF At(p, "check_count") /\ todo[p] # {} THEN "check" ELSE "done")
    /\ UNCHANGED <<status, rows, queue, worker, about, todo, history>>

\* GetCampaign lists the recipients once and asks the provider for each.
CheckList(p) ==
    /\ At(p, "check_list")
    /\ LET sent == {r \in Recipients : rec[r] = "SENT" /\ ext[r] # 0} IN
         /\ todo' = [todo EXCEPT ![p] = sent]
         /\ Goto(p, IF sent = {} THEN "done" ELSE "check")
    /\ UNCHANGED <<campaign, rows, queue, worker, about, history>>

\* The provider says that the message failed, or says nothing of the kind.
Check(p) ==
    /\ At(p, "check")
    /\ \E r \in todo[p] :
         /\ todo' = [todo EXCEPT ![p] = @ \ {r}]
         /\ about' = [about EXCEPT ![p] = [to |-> r, n |-> 0]]
         /\ \/ Goto(p, "check_mark")
            \/ Goto(p, IF todo[p] = {r} THEN "done" ELSE "check")
    /\ UNCHANGED <<campaign, rows, queue, worker, history>>

CheckMark(p) ==
    /\ At(p, "check_mark")
    /\ LET r == about[p].to IN
         IF rec[r] = "ABSENT"
         THEN Goto(p, "done") /\ UNCHANGED <<rec, repeats>>
         ELSE /\ SetRec(r, "FAILED")
              /\ repeats' = IF rec[r] = "SENT" THEN repeats ELSE repeats + 1
              /\ Goto(p, "check_count")
    /\ UNCHANGED <<campaign, ext, queue, worker, about, todo, sends, again, since>>

CStep(p) ==
    \/ StartRead(p) \/ StartCount(p) \/ ResetRecipients(p) \/ ResetCounters(p)
    \/ StartTotal(p) \/ Run(p) \/ Enqueue(p) \/ ResumeRead(p) \/ SuspendRead(p) \/ Suspend(p)
    \/ ImportRead(p) \/ Import(p) \/ DeleteRead(p) \/ Delete(p)
    \/ Report(p) \/ CountReport(p) \/ CheckList(p) \/ Check(p) \/ CheckMark(p)

-----------------------------------------------------------------------------
(* Failures *)

\* Recipients whose message, if any was accepted, is not recorded.
Unrecorded(w) == {r \in Pending : r = cur[w] /\ wpc[w] \in {"mark_sent", "mark_failed"}}

\* A statement of the worker throws: within the try of a recipient the catch
\* marks the recipient FAILED, anywhere else the job is lost.
DatabaseError(w) ==
    /\ "database" \in Faults /\ wpc[w] \notin {"idle", "send"}
    /\ IF wpc[w] \in {"mark_sent", "count_sent"}
       THEN WGoto(w, "mark_failed") /\ UNCHANGED <<queue, again>>
       ELSE /\ End(w)
            /\ again' = [r \in Recipients |->
                           IF r \in Unrecorded(w) THEN again[r] + 1 ELSE again[r]]
    /\ UNCHANGED <<campaign, rows, batch, cur, calls, sends, since, repeats>>

\* A statement of a handler throws: the rest of it is not executed.
CallError(p) ==
    /\ "database" \in Faults /\ pc[p] \notin {"idle", "done"}
    /\ Goto(p, "done")
    /\ UNCHANGED <<campaign, rows, queue, worker, about, todo, history>>

\* The process stops and starts again: tables and Redis survive.
Crash ==
    /\ "crash" \in Faults
    /\ isProcessing' = FALSE /\ wpc' = [w \in Ticks |-> "idle"]
    /\ pc' = [p \in Calls |-> IF pc[p] = "idle" THEN "idle" ELSE "done"]
    /\ again' = [r \in Recipients |->
                   IF \E w \in Ticks : r \in Unrecorded(w) THEN again[r] + 1 ELSE again[r]]
    /\ UNCHANGED <<campaign, rows, jobs, batch, cur, about, todo, sends, since, repeats>>

-----------------------------------------------------------------------------
Next ==
    \/ \E w \in Ticks : Tick(w) \/ WStep(w) \/ DatabaseError(w)
    \/ \E p \in Calls, o \in Handlers : Begin(p, o)
    \/ \E p \in Calls : CStep(p) \/ CallError(p)
    \/ Crash

Spec == Init /\ [][Next]_vars

\* The poll timer keeps running, and what has started runs on.
FairSpec ==
    /\ Spec
    /\ WF_vars(\E w \in Ticks : Tick(w))
    /\ \A w \in Ticks : WF_vars(WStep(w))
    /\ \A p \in Calls : WF_vars(CStep(p))

-----------------------------------------------------------------------------
(* Properties *)

WLabels == {"idle", "read", "fetch", "next", "send", "mark_sent", "count_sent",
            "mark_failed", "count_failed", "recount", "complete", "requeue"}
CLabels == {"idle", "done", "start_read", "start_count", "reset_failed", "reset_all",
            "zero_failed", "zero_all", "start_total", "run", "enqueue", "resume_read",
            "suspend_read", "suspend", "import_read", "import", "delete_read", "delete",
            "report", "report_count", "check_list", "check", "check_mark", "check_count"}

RowTypes ==
    /\ status \in {"DRAFT", "RUNNING", "SUSPENDED", "COMPLETED", "NONE"}
    /\ sentCount \in Int /\ failedCount \in Int
    /\ rec \in [Recipients -> {"ABSENT", "PENDING", "SENT", "FAILED"}]
    /\ ext \in [Recipients -> Nat]

WorkerTypes ==
    /\ jobs \in Nat /\ isProcessing \in BOOLEAN
    /\ wpc \in [Ticks -> WLabels] /\ batch \in [Ticks -> SUBSET Recipients]
    /\ cur \in [Ticks -> Recipients]

CallTypes ==
    /\ pc \in [Calls -> CLabels] /\ todo \in [Calls -> SUBSET Recipients]
    /\ about \in [Calls -> [to : Recipients, n : Nat]]

HistoryTypes ==
    /\ sends \in [Recipients -> Nat] /\ again \in [Recipients -> Nat]
    /\ since \in Nat /\ repeats \in Nat

OneBatch ==
    /\ \A w \in Ticks : wpc[w] # "idle" => isProcessing
    /\ \A v, w \in Ticks : wpc[v] # "idle" /\ wpc[w] # "idle" => v = w

\* Types; and campaign-worker.service.ts:50: one batch at a time, flagged.
TypeOK == RowTypes /\ WorkerTypes /\ CallTypes /\ HistoryTypes /\ OneBatch

\* process-campaign-batch.use-case.ts:38-137: nobody is written to twice, unless
\* the campaign was started again or a failure kept a sending from being
\* recorded.
SentOnce == \A r \in Recipients : sends[r] <= 1 + again[r]

\* process-campaign-batch.use-case.ts:55-67, suspend-campaign.use-case.ts: after
\* a suspension at most the message on its way goes out.
SuspensionStops == since <= 1

\* start/resume (status, then job) against the worker (stop, complete, requeue):
\* a campaign that is RUNNING has a job, a batch, or a handler about to queue it.
NeverForgotten ==
    status = "RUNNING" => \/ jobs > 0
                          \/ \E w \in Ticks : wpc[w] # "idle"
                          \/ \E p \in Calls : pc[p] = "enqueue"

FirstRound == \A r \in Recipients : again[r] = 0

\* process-campaign-batch.use-case.ts:153-160: until the campaign is started
\* again COMPLETED means that nobody is left, however late the status of another
\* handler or of an earlier batch is written.
CompletedMeansDone == FirstRound /\ status = "COMPLETED" => Pending = {}

\* incrementCounters, by the worker, the webhook and GetCampaign: until the
\* campaign is started again the counters drift from the recipients by exactly
\* the failures reported more than once.
CountDue == \/ \E w \in Ticks : wpc[w] \in {"count_sent", "count_failed"}
            \/ \E p \in Calls : pc[p] \in {"report_count", "check_count"}
CountersAgree ==
    FirstRound /\ ~CountDue =>
        /\ sentCount = With("SENT") - repeats
        /\ failedCount = With("FAILED") + repeats

\* processQueue, requeue, suspend: a running campaign is completed or suspended.
RunningEnds == status = "RUNNING" ~> status # "RUNNING"
=============================================================================
