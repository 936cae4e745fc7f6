------------------------------- MODULE Quality --------------------------------
(***************************************************************************)
(* Quality reviews of what one agent wrote in one case.  Requests, batches *)
(* and the closing of the case put rows `pending' and wake a worker.  The  *)
(* worker claims a row in PostgreSQL, has the model judge the next chunk   *)
(* of messages, and writes the row by its id, whatever became of it, until *)
(* all chunks are judged.  The worker sleeps when nothing is left.         *)
(***************************************************************************)
EXTENDS Naturals, Sequences

CONSTANTS
    MaxReviews,   \* bound: rows
    MaxChunks,    \* bound: chunks of messages of the agent (10 to 80 messages each)
    MaxRequests,  \* bound: requests, which may reset a row again and again
    MaxMishaps    \* bound: restarts, and errors of the database

ASSUME QualityAssumption == MaxChunks \in Nat

VARIABLES
    reviews,   \* quality_review, by created_at: [key, status, claimed, total, analyzed, scores]
    chunks,    \* chunks the case has
    drain,     \* the loop of the worker: [at, on, copy]; `on' is the review it works on
    marking,   \* the review a manager is marking as reviewed, 0 for none
    batch,     \* a batch at this case: none, found (eligible), insert (nothing is pending)
    requests, mishaps,  \* counters for the bounds
    renewed,   \* history: rows that were reset
    unheard    \* history: a wake-up met a loop about to end, or an error ended it

qaVars == <<reviews, chunks, drain, marking, batch, requests, mishaps, renewed, unheard>>

ReviewIds == DOMAIN reviews
NewReview(key) ==
    [key |-> key, status |-> "pending", claimed |-> FALSE, total |-> 0, analyzed |-> 0, scores |-> 0]
NoReview == NewReview("none")
Asleep == [at |-> "asleep", on |-> 0, copy |-> NoReview, all |-> 0]
Awake == [Asleep EXCEPT !.at = "watch"]
Larger(a, b) == IF a > b THEN a ELSE b

QualityInit ==
    /\ reviews = <<>> /\ chunks \in 0..MaxChunks /\ drain = Asleep /\ marking = 0 /\ batch = "none"
    /\ requests = 0 /\ mishaps = 0 /\ renewed = {} /\ unheard = FALSE

-----------------------------------------------------------------------------
(* Requests.  scheduleRun: start the loop, or end its wait *)

ScheduleRun ==
    /\ drain' = IF drain.at = "asleep" THEN Awake
                ELSE IF drain.at = "wait" THEN [drain EXCEPT !.at = "again"] ELSE drain
    /\ unheard' = (unheard \/ drain.at = "ending")

Requested ==
    /\ requests < MaxRequests /\ requests' = requests + 1
    /\ UNCHANGED <<chunks, marking, mishaps>>

\* createPending: the row of the key, whatever its status, or a new one.
CreatePending(key) ==
    /\ Requested /\ ScheduleRun /\ UNCHANGED <<batch, renewed>>
    /\ \/ \E i \in ReviewIds : reviews[i].key = key /\ UNCHANGED reviews
       \/ /\ \A i \in ReviewIds : reviews[i].key # key
          /\ Len(reviews) < MaxReviews /\ reviews' = Append(reviews, NewReview(key))

\* The case is closed; one key per agent.
TryAutoEnqueue == CreatePending("auto")

\* A batch finds the closed cases whose reviews all failed, makes sure that none is
\* pending, and inserts one under a key of its own.
ListEligible ==
    /\ batch = "none" /\ \A i \in ReviewIds : reviews[i].status = "failed"
    /\ Requested /\ batch' = "found" /\ UNCHANGED <<reviews, drain, renewed, unheard>>
FindPending ==
    /\ batch = "found"
    /\ batch' = IF \E i \in ReviewIds : reviews[i].status = "pending" THEN "none" ELSE "insert"
    /\ UNCHANGED <<reviews, chunks, drain, marking, requests, mishaps, renewed, unheard>>
BatchEnqueue ==
    /\ batch = "insert" /\ batch' = "none" /\ ScheduleRun
    /\ Len(reviews) < MaxReviews /\ reviews' = Append(reviews, NewReview("batch"))
    /\ UNCHANGED <<chunks, marking, requests, mishaps, renewed>>

\* Mutant of Reopened: the messages are judged again from the first.
ReopenedAnew(row) == [row EXCEPT !.status = "pending", !.claimed = FALSE, !.analyzed = 0]

\* reopenFailedAsPending keeps what was judged.
Reopened(row) == [row EXCEPT !.status = "pending", !.claimed = FALSE]

\* findLatestByCaseAndAgent
Latest == Len(reviews)

\* The newest row decides.
RequestOnDemand ==
    IF reviews = <<>> THEN CreatePending("on_demand")
    ELSE /\ reviews[Latest].status \in {"pending", "failed"}
         /\ Requested /\ ScheduleRun /\ UNCHANGED <<batch, renewed>>
         /\ reviews' = IF reviews[Latest].status = "failed"
                       THEN [reviews EXCEPT ![Latest] = Reopened(@)] ELSE reviews

\* resetReviewForReanalysis, in any status, also while the row is worked on; the
\* scores of the chunks (model_raw) and the total stay.  The same for all the rows of
\* a period (resetReviewsForReanalysis) writes `created_at >= 1' for `$1': PostgreSQL
\* refuses the statement and nothing changes.
Reanalyze ==
    \E i \in ReviewIds :
        /\ Requested /\ ScheduleRun /\ UNCHANGED batch
        /\ renewed' = renewed \cup {i}
        /\ reviews' = [reviews EXCEPT ![i] = [@ EXCEPT !.status = "pending", !.claimed = FALSE, !.analyzed = 0]]

\* MarkReviewReviewed: the status is read, then written by id.
ReadForReview(i) ==
    /\ marking = 0 /\ reviews[i].status = "ready" /\ marking' = i
    /\ UNCHANGED <<reviews, chunks, drain, batch, requests, mishaps, renewed, unheard>>
MarkReviewed ==
    /\ marking # 0 /\ marking' = 0
    /\ reviews' = [reviews EXCEPT ![marking].status = "reviewed"]
    /\ UNCHANGED <<chunks, drain, batch, requests, mishaps, renewed, unheard>>

MoreMessages ==
    /\ chunks < MaxChunks /\ chunks' = chunks + 1
    /\ UNCHANGED <<reviews, drain, marking, batch, requests, mishaps, renewed, unheard>>

-----------------------------------------------------------------------------
(* EnqueueQualityReviewService.drain *)

DrainOnly == UNCHANGED <<chunks, marking, batch, requests, mishaps, renewed, unheard>>

\* markFailed writes the status, markReady and saveChunkProgress the rest as well.
MarkFailed(row) == [row EXCEPT !.status = "failed", !.claimed = FALSE]
MarkReady(row, total, analyzed, scores) ==
    [row EXCEPT !.status = "ready", !.claimed = FALSE, !.total = total, !.analyzed = analyzed, !.scores = scores]
SaveChunkProgress(row, total, analyzed, scores) ==
    [row EXCEPT !.status = "pending", !.claimed = FALSE, !.total = total, !.analyzed = analyzed, !.scores = scores]

\* listStuckStartedPending: no claimed row is worked on when this is asked, and some
\* are too old.
StuckPending == {i \in ReviewIds : reviews[i].status = "pending" /\ reviews[i].claimed}

\* failStaleClaims
Watch ==
    /\ drain.at = "watch" /\ drain' = [drain EXCEPT !.at = "claim"]
    /\ \E stale \in SUBSET StuckPending :
         reviews' = [i \in ReviewIds |-> IF i \in stale THEN MarkFailed(reviews[i]) ELSE reviews[i]]
    /\ DrainOnly

\* claimNextPending: the newest that is free.
ClaimNextPending(step, otherwise) ==
    LET free == {i \in ReviewIds : reviews[i].status = "pending" /\ ~reviews[i].claimed} IN
    /\ drain.at = step
    /\ IF free = {} THEN drain' = [drain EXCEPT !.at = otherwise] /\ UNCHANGED reviews
       ELSE \E i \in free :
              /\ \A j \in free : j <= i
              /\ reviews' = [reviews EXCEPT ![i].claimed = TRUE]
              /\ drain' = [drain EXCEPT !.at = "load", !.on = i]
    /\ DrainOnly
Claim == ClaimNextPending("claim", "wait") \/ ClaimNextPending("again", "ending")
WaitOver == drain.at = "wait" /\ drain' = [drain EXCEPT !.at = "again"] /\ DrainOnly /\ UNCHANGED reviews
EndLoop == drain.at = "ending" /\ drain' = Asleep /\ DrainOnly /\ UNCHANGED reviews

\* extractAgentConversationFragment: the chunks of what this agent wrote and answered.
Fragment == chunks

\* RunQualityAnalysis: the row and the messages, and then the model (two attempts).
Load ==
    /\ drain.at = "load"
    /\ drain' = IF reviews[drain.on].status # "pending" THEN Awake
                ELSE [drain EXCEPT !.at = "judge", !.copy = reviews[drain.on], !.all = Fragment]
    /\ DrainOnly /\ UNCHANGED reviews

\* The last chunk of all of them finishes the review.
AfterChunk(row, total, analyzed, scores) ==
    IF analyzed >= total THEN MarkReady(row, total, analyzed, scores)
    ELSE SaveChunkProgress(row, total, analyzed, scores)

\* finalizeFromExisting: all was judged before.
FinalizeFromExisting(row, copy, total, now) ==
    MarkReady(row, total, Larger(now, total), Larger(copy.scores, 1))

\* The row is written over with what becomes of the copy that was loaded.
Outcome(row, copy, all, judged) ==
    LET total == IF copy.total > 0 THEN copy.total ELSE all
        now == IF copy.analyzed < all THEN copy.analyzed ELSE all
    IN IF total = 0 THEN MarkFailed(row)
       ELSE IF now >= total \/ now >= all THEN FinalizeFromExisting(row, copy, total, now)
       ELSE IF judged THEN AfterChunk(row, Larger(total, all), now + 1, copy.scores + 1)
       ELSE MarkFailed(row)

Judge ==
    /\ drain.at = "judge" /\ drain' = Awake
    /\ \E judged \in BOOLEAN :
         reviews' = [reviews EXCEPT ![drain.on] = Outcome(@, drain.copy, drain.all, judged)]
    /\ DrainOnly

\* An error of the database: in a run the row stays claimed and the loop goes on,
\* elsewhere the loop ends.
DatabaseError ==
    /\ mishaps < MaxMishaps /\ mishaps' = mishaps + 1 /\ unheard' = TRUE
    /\ drain.at \in {"watch", "claim", "again", "load", "judge"}
    /\ drain' = IF drain.at \in {"load", "judge"} THEN Awake ELSE Asleep
    /\ UNCHANGED <<reviews, chunks, marking, batch, requests, renewed>>

\* Mutant of ReclaimPending: the claims stay.
ReclaimPendingClaimed ==
    /\ mishaps < MaxMishaps /\ mishaps' = mishaps + 1 /\ drain' = Awake /\ marking' = 0 /\ batch' = "none"
    /\ UNCHANGED <<reviews, chunks, requests, renewed, unheard>>

\* A restart: reclaimPending frees every claim and wakes the worker.
ReclaimPending ==
    /\ mishaps < MaxMishaps /\ mishaps' = mishaps + 1 /\ drain' = Awake /\ marking' = 0 /\ batch' = "none"
    /\ reviews' = [i \in ReviewIds |-> [reviews[i] EXCEPT !.claimed = FALSE]]
    /\ UNCHANGED <<chunks, requests, renewed, unheard>>

Draining == Watch \/ Claim \/ WaitOver \/ EndLoop \/ Load \/ Judge
QualityNext ==
    \/ TryAutoEnqueue \/ ListEligible \/ FindPending \/ BatchEnqueue \/ RequestOnDemand \/ Reanalyze
    \/ (\E i \in ReviewIds : ReadForReview(i)) \/ MarkReviewed \/ MoreMessages
    \/ Draining \/ DatabaseError \/ ReclaimPending

QualitySpec == QualityInit /\ [][QualityNext]_qaVars

-----------------------------------------------------------------------------
(* Properties *)

\* Types of the variables; only a pending row is claimed.
QualityTypeOK ==
    /\ \A i \in ReviewIds : /\ reviews[i].status \in {"pending", "ready", "failed", "reviewed"}
                            /\ reviews[i].analyzed \in 0..MaxChunks /\ reviews[i].total \in 0..MaxChunks
    /\ drain.on \in {0} \cup ReviewIds /\ marking \in {0} \cup ReviewIds
    /\ batch \in {"none", "found", "insert"}

\* A review that is done rests on every chunk of the case once: through chunks that
\* failed and were taken up again, errors, restarts and messages that came
\* meanwhile.  Not so for a row that was reset: it keeps the old scores.
JudgedOnce ==
    \A i \in ReviewIds \ renewed :
        reviews[i].status \in {"ready", "reviewed"} =>
            reviews[i].analyzed = reviews[i].total /\ reviews[i].scores = reviews[i].total

\* A pending review is settled, whoever asked for it and however often the worker
\* fell asleep, unless its wake-up was not heard or the database failed.
ReviewSettles ==
    \A i \in 1..MaxReviews :
        (i \in ReviewIds /\ reviews[i].status = "pending")
            ~> (i \in ReviewIds /\ reviews[i].status # "pending") \/ unheard
=============================================================================
