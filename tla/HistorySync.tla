----------------------------- MODULE HistorySync ------------------------------
(***************************************************************************)
(* The import of old conversations from Zernio.  Start records a progress  *)
(* in Redis and queues one job per conversation; a worker pops a job,      *)
(* imports the conversation, and adds it to the progress by reading and    *)
(* writing it whole.  When the queue is empty it declares the import over. *)
(* A job that fails is queued again twice.                                 *)
(***************************************************************************)
EXTENDS Naturals, Sequences

CONSTANTS
    Starts,      \* calls of StartZernioHistorySync, positive numbers, also the ids of their imports
    MaxHistory,  \* bound: conversations Zernio lists
    MaxAttempts, \* attempts of one job (3 in the code)
    SyncDies     \* the process may be restarted, once

ASSUME HistoryAssumption ==
    Starts \subseteq Nat \ {0} /\ MaxHistory \in Nat /\ MaxAttempts \in Nat \ {0} /\ SyncDies \in BOOLEAN

VARIABLES
    start,     \* per call: [at, left], see StartHistorySync
    queue,     \* the jobs in Redis: [job, attempt]
    progress,  \* the record in Redis: [job, state, total, processed, failed]
    syncing,   \* the worker's turn: [at, task, copy]
    syncDied,  \* history: the process was restarted
    mixed      \* history: an import was started before the last was quite over

hsVars == <<start, queue, progress, syncing, syncDied, mixed>>

NoProgress == [job |-> 0, state |-> "none", total |-> 0, processed |-> 0, failed |-> 0]
NoTask == [job |-> 0, attempt |-> 0]
Resting == [at |-> "rest", task |-> NoTask, copy |-> NoProgress]
Finished == {"COMPLETED", "PARTIALLY_FAILED"}

HistoryInit ==
    /\ start = [s \in Starts |-> [at |-> "none", left |-> 0]]
    /\ queue = <<>> /\ progress = NoProgress /\ syncing = Resting
    /\ syncDied = FALSE /\ mixed = FALSE

-----------------------------------------------------------------------------
(* StartZernioHistorySync *)

SomethingRuns(s) ==
    \/ queue # <<>> \/ syncing.at # "rest" \/ progress.state = "IN_PROGRESS"
    \/ \E q \in Starts \ {s} : start[q].at \in {"list", "clear", "push"}

\* Nothing is started while the record says that an import is in progress.
StartHistorySync(s) ==
    /\ start[s].at = "none"
    /\ start' = [start EXCEPT ![s].at = IF progress.state = "IN_PROGRESS" THEN "refused" ELSE "list"]
    /\ mixed' = (mixed \/ (progress.state # "IN_PROGRESS" /\ SomethingRuns(s)))
    /\ UNCHANGED <<queue, progress, syncing, syncDied>>

\* fetchAllConversations: page after page, each asked for again when it is refused.
Listing == 0..MaxHistory

\* The listing, then the record; the listing may fail.
List(s) ==
    /\ start[s].at = "list"
    /\ \/ \E n \in Listing :
            /\ progress' = [NoProgress EXCEPT !.job = s, !.total = n,
                              !.state = IF n = 0 THEN "COMPLETED" ELSE "IN_PROGRESS"]
            /\ start' = [start EXCEPT ![s] = [at |-> IF n = 0 THEN "done" ELSE "clear", left |-> n]]
       \/ start' = [start EXCEPT ![s].at = "done"] /\ UNCHANGED progress
    /\ UNCHANGED <<queue, syncing, syncDied, mixed>>

Clear(s) ==
    /\ start[s].at = "clear" /\ queue' = <<>>
    /\ start' = [start EXCEPT ![s].at = "push"]
    /\ UNCHANGED <<progress, syncing, syncDied, mixed>>

PushJob(s) ==
    /\ start[s].at = "push"
    /\ queue' = Append(queue, [job |-> s, attempt |-> 1])
    /\ start' = [start EXCEPT ![s] = [at |-> IF @.left = 1 THEN "done" ELSE "push", left |-> @.left - 1]]
    /\ UNCHANGED <<progress, syncing, syncDied, mixed>>

-----------------------------------------------------------------------------
(* ZernioHistorySyncWorker.processQueue: every 2 s, after a Start, and 200 ms *)
(* after a job; one at a time (isProcessing)                                  *)

SyncOnly == UNCHANGED <<start, syncDied, mixed>>

PopJob ==
    /\ syncing.at = "rest" /\ queue # <<>> /\ queue' = Tail(queue)
    /\ syncing' = [at |-> "phone", task |-> Head(queue), copy |-> progress]
    /\ SyncOnly /\ UNCHANGED progress

\* currentPhone: the record is written back as it was read.
NotePhone ==
    /\ syncing.at = "phone" /\ syncing' = [syncing EXCEPT !.at = "import"]
    /\ progress' = IF syncing.copy.state = "IN_PROGRESS" THEN syncing.copy ELSE progress
    /\ SyncOnly /\ UNCHANGED queue

\* processSingleConversation, and the copy of the record that is read after it.
ImportConversation ==
    /\ syncing.at = "import"
    /\ \E ok \in BOOLEAN :
         LET again == ~ok /\ syncing.task.attempt < MaxAttempts
             mine == progress.job = syncing.task.job
         IN /\ queue' = IF again THEN Append(queue, [syncing.task EXCEPT !.attempt = @ + 1]) ELSE queue
            /\ syncing' = [syncing EXCEPT !.at = IF again \/ ~mine THEN "remaining" ELSE "count",
                                          !.copy = IF ok THEN [progress EXCEPT !.processed = @ + 1]
                                                   ELSE [progress EXCEPT !.failed = @ + 1]]
    /\ SyncOnly /\ UNCHANGED progress

Count ==
    /\ syncing.at = "count" /\ progress' = syncing.copy
    /\ syncing' = [syncing EXCEPT !.at = "remaining"]
    /\ SyncOnly /\ UNCHANGED queue

\* Mutant of Remaining: an empty queue is left to the next turn.
RemainingLater ==
    /\ syncing.at = "remaining" /\ syncing' = Resting
    /\ SyncOnly /\ UNCHANGED <<queue, progress>>

\* llen, and the record that is read after it.
Remaining ==
    /\ syncing.at = "remaining"
    /\ syncing' = IF queue = <<>> /\ progress.state = "IN_PROGRESS"
                  THEN [syncing EXCEPT !.at = "finish", !.copy = progress] ELSE Resting
    /\ SyncOnly /\ UNCHANGED <<queue, progress>>

Finish ==
    /\ syncing.at = "finish" /\ syncing' = Resting
    /\ progress' = [syncing.copy EXCEPT !.state = IF syncing.copy.failed > 0
                                                  THEN "PARTIALLY_FAILED" ELSE "COMPLETED"]
    /\ SyncOnly /\ UNCHANGED queue

\* A restart: the job that was popped is gone, and a Start that was pushing.
SyncDie ==
    /\ SyncDies /\ ~syncDied /\ syncDied' = TRUE /\ syncing' = Resting
    /\ start' = [s \in Starts |-> IF start[s].at \in {"list", "clear", "push"}
                                  THEN [start[s] EXCEPT !.at = "done"] ELSE start[s]]
    /\ UNCHANGED <<queue, progress, mixed>>

Pushing == \E s \in Starts : List(s) \/ Clear(s) \/ PushJob(s)
Working == PopJob \/ NotePhone \/ ImportConversation \/ Count \/ Remaining \/ Finish
HistoryNext == (\E s \in Starts : StartHistorySync(s)) \/ Pushing \/ Working \/ SyncDie

HistorySpec == HistoryInit /\ [][HistoryNext]_hsVars

-----------------------------------------------------------------------------
(* Properties *)

\* Types of the variables.
HistoryTypeOK ==
    /\ progress.state \in {"none", "IN_PROGRESS"} \cup Finished
    /\ \A i \in DOMAIN queue : queue[i].job \in Starts /\ queue[i].attempt \in 1..MaxAttempts
    /\ syncing.at \in {"rest", "phone", "import", "count", "remaining", "finish"}

\* An import that was begun is declared over with every conversation counted once,
\* as imported or as failed, unless a restart lost a job or another import was
\* started into it.
CountedAll == progress.processed + progress.failed = progress.total
SyncEnds ==
    progress.state = "IN_PROGRESS"
        ~> (progress.state \in Finished /\ CountedAll) \/ syncDied \/ mixed
=============================================================================
