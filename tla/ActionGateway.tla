---------------------------- MODULE ActionGateway ----------------------------
(***************************************************************************)
(* Calls of one action with one input for one case: InstrumentedN8nGateway *)
(* records the execution under an idempotency key (case, action, hash of   *)
(* the input) and repeats a recorded success without calling.  n8n actions *)
(* are found in a registry, through a cache that administrators' changes   *)
(* invalidate, and retried; diagnostics go to another service, unretried.  *)
(* Two calls with one key overlap when an agent's action and a run of the  *)
(* workflow ask the same thing, and when a repeated message asks again.    *)
(***************************************************************************)
EXTENDS Naturals

CONSTANTS
    Invocations,  \* calls of executeAction with this key
    MaxRetries,   \* n8n_workflow_registry.max_retries
    MaxSwitches   \* bound: changes of the registry

ASSUME RetriesAssumption == MaxRetries \in Nat

VARIABLES
    route,       \* where the action goes: n8n, or the diagnostic service, see Routes
    execution,   \* workflow_execution row of the key: its status, or "absent"
    registry,    \* the row of the action in the registry
    entryCopy,       \* the copy of it in the cache, "none" for none
    admin,       \* an administrator has changed the row and not yet dropped the copy
    switches,    \* counter for the bound
    at,          \* per call: the next step
    found,       \* per call: the row it was given by the registry
    requests,    \* per call: requests sent by it
    answer,      \* per call: what it has to report, "ok", "retryable", "final"
    performed,   \* history: times the action was done
    barred,      \* history: calls that began after the action was switched off, and still is
    overlap,     \* history: two calls were between their look-up and their record
    silent,      \* history: the action was done and this is not known
    overtaken    \* history: the registry was changed while a call was asking it

exVars == <<route, execution, at, found, requests, answer, performed, overlap, silent>>
rgVars == <<registry, entryCopy, admin, switches, barred, overtaken>>
gwVars == <<exVars, rgVars>>

\* CompositeActionGateway: CONTINUE_DIAGNOSTIC may be asked a second time.
Routes == {"n8n", "diagnostic", "continue"}
Entries == {"absent", "inactive", "active"}
Busy == {"resolve", "query", "send", "sent", "again", "record"}

GatewayInit ==
    /\ route \in Routes /\ execution = "absent" /\ registry \in Entries /\ entryCopy = "none"
    /\ admin = FALSE /\ switches = 0 /\ at = [i \in Invocations |-> "idle"]
    /\ found = [i \in Invocations |-> "absent"] /\ requests = [i \in Invocations |-> 0]
    /\ answer = [i \in Invocations |-> "none"]
    /\ performed = 0 /\ barred = {} /\ overlap = FALSE /\ silent = FALSE /\ overtaken = FALSE

-----------------------------------------------------------------------------
(* InstrumentedN8nGateway *)

Enter(i) ==
    /\ at' = [at EXCEPT ![i] = IF route = "n8n" THEN "resolve" ELSE "send"]
    /\ execution' = IF execution = "absent" THEN "DISPATCHED" ELSE execution
    /\ overlap' = (overlap \/ \E j \in Invocations : at[j] \in Busy)
    /\ barred' = IF registry # "active" /\ ~admin THEN barred \cup {i} ELSE barred
    /\ UNCHANGED answer

\* Mutant of LookUp: the recorded success is not looked at.
LookUpBlind(i) ==
    /\ at[i] = "idle" /\ Enter(i)
    /\ UNCHANGED <<route, found, requests, performed, silent, registry, entryCopy, admin, switches, overtaken>>

\* findByIdempotencyKey, then start: INSERT ... ON CONFLICT DO NOTHING, so a row
\* that exists keeps its status.  (A call that finishes between the two overlaps.)
LookUp(i) ==
    /\ at[i] = "idle"
    /\ IF execution = "COMPLETED"
       THEN /\ at' = [at EXCEPT ![i] = "done"]
            /\ answer' = [answer EXCEPT ![i] = "ok"]
            /\ UNCHANGED <<execution, overlap, barred>>
       ELSE Enter(i)
    /\ UNCHANGED <<route, found, requests, performed, silent, registry, entryCopy, admin, switches, overtaken>>

\* complete, fail: an UPDATE of the row, whatever status it has.
Finish(status) == execution' = status

Record(i) ==
    /\ at[i] = "record"
    /\ Finish(IF answer[i] = "ok" THEN "COMPLETED" ELSE "FAILED")
    /\ at' = [at EXCEPT ![i] = "done"]
    /\ UNCHANGED <<route, found, requests, answer, performed, overlap, silent, rgVars>>

\* The process is restarted, or the database does not take the record.
Die(i) ==
    /\ at[i] \in Busy /\ at' = [at EXCEPT ![i] = "done"]
    /\ silent' = (silent \/ answer[i] = "ok")
    /\ UNCHANGED <<route, execution, found, requests, answer, performed, overlap, rgVars>>

-----------------------------------------------------------------------------
(* N8nWorkflowRegistryCache, and the changes of the registry *)

\* resolve: the copy, or a query.
Resolve(i) ==
    /\ at[i] = "resolve"
    /\ at' = [at EXCEPT ![i] = IF entryCopy = "none" THEN "query" ELSE "send"]
    /\ found' = [found EXCEPT ![i] = IF entryCopy = "none" THEN registry ELSE entryCopy]
    /\ UNCHANGED <<route, execution, requests, answer, performed, overlap, silent, rgVars>>

\* Its answer is kept for 30 s, unless there is no row.
Resolved(i) ==
    /\ at[i] = "query" /\ at' = [at EXCEPT ![i] = "send"]
    /\ entryCopy' = IF found[i] = "absent" THEN "none" ELSE found[i]
    /\ UNCHANGED <<route, execution, found, requests, answer, performed, overlap, silent,
                   registry, admin, switches, barred, overtaken>>

CacheExpires ==
    /\ entryCopy # "none" /\ entryCopy' = "none"
    /\ UNCHANGED <<exVars, registry, admin, switches, barred, overtaken>>

\* The row is written; one administrator at a time.
Switch(entry) ==
    /\ route = "n8n" /\ ~admin /\ admin' = TRUE
    /\ switches < MaxSwitches /\ switches' = switches + 1
    /\ registry' = entry /\ barred' = IF entry = "active" THEN {} ELSE barred
    /\ overtaken' = (overtaken \/ \E i \in Invocations : at[i] = "query")
    /\ UNCHANGED <<exVars, entryCopy>>

UpsertN8nWorkflow == \E entry \in {"inactive", "active"} : Switch(entry)
DeactivateN8nWorkflow == registry # "absent" /\ Switch("inactive")

Invalidate ==
    /\ admin /\ admin' = FALSE /\ entryCopy' = "none"
    /\ UNCHANGED <<exVars, registry, switches, barred, overtaken>>

-----------------------------------------------------------------------------
(* N8nGatewayHttp and MikrotikDiagnosticAdapter *)

\* An action that is not registered, or not active, is not sent.
Unregistered(i) ==
    /\ at[i] = "send" /\ route = "n8n" /\ found[i] # "active"
    /\ at' = [at EXCEPT ![i] = "record"]
    /\ answer' = [answer EXCEPT ![i] = "final"]
    /\ UNCHANGED <<route, execution, found, requests, performed, overlap, silent, rgVars>>

Send(i) ==
    /\ at[i] = "send" /\ (route = "n8n" => found[i] = "active")
    /\ at' = [at EXCEPT ![i] = "sent"]
    /\ requests' = [requests EXCEPT ![i] = @ + 1]
    /\ \/ /\ performed' = performed + 1
          /\ answer' = [answer EXCEPT ![i] = "ok"] /\ UNCHANGED silent
       \/ /\ performed' = performed + 1
          /\ answer' = [answer EXCEPT ![i] = "retryable"] /\ silent' = TRUE
       \/ /\ \E e \in {"retryable", "final"} : answer' = [answer EXCEPT ![i] = e]
          /\ UNCHANGED <<performed, silent>>
    /\ UNCHANGED <<route, execution, found, overlap, rgVars>>

\* callOnce: n8n acts or not, and its answer arrives or not (timeout, broken
\* connection, status 5xx, a body that is no JSON: all retryable).
Request(i) == route = "n8n" /\ Send(i)

\* postJson: the same, except that any object that is no error is a success.
PostJson(i) == route # "n8n" /\ Send(i)

\* The loop of executeAction, with a growing pause between the attempts.
Retry(i) ==
    /\ at[i] = "sent" /\ route = "n8n"
    /\ at' = [at EXCEPT ![i] = IF answer[i] = "retryable" /\ requests[i] < MaxRetries + 1
                               THEN "send" ELSE "record"]
    /\ UNCHANGED <<route, execution, found, requests, answer, performed, overlap, silent, rgVars>>

\* A diagnostic is not retried; one that says it is checking again is continued after
\* a pause, without the message.
Posted(i) ==
    /\ at[i] = "sent" /\ route # "n8n"
    /\ \/ at' = [at EXCEPT ![i] = "record"]
       \/ route = "continue" /\ answer[i] = "ok" /\ at' = [at EXCEPT ![i] = "again"]
    /\ UNCHANGED <<route, execution, found, requests, answer, performed, overlap, silent, rgVars>>

\* The first answer stands if the second is an error: the call succeeds either way.
AskAgain(i) ==
    /\ at[i] = "again" /\ at' = [at EXCEPT ![i] = "record"]
    /\ requests' = [requests EXCEPT ![i] = @ + 1]
    /\ UNCHANGED <<route, execution, found, answer, performed, overlap, silent, rgVars>>

GatewayNext ==
    \/ \E i \in Invocations :
         \/ LookUp(i) \/ Record(i) \/ Die(i) \/ Resolve(i) \/ Resolved(i) \/ Unregistered(i)
         \/ Request(i) \/ PostJson(i) \/ Retry(i) \/ Posted(i) \/ AskAgain(i)
    \/ UpsertN8nWorkflow \/ DeactivateN8nWorkflow \/ Invalidate \/ CacheExpires

GatewaySpec == GatewayInit /\ [][GatewayNext]_gwVars

-----------------------------------------------------------------------------
(* Properties *)

\* Types of the variables.
GatewayTypeOK ==
    /\ route \in Routes /\ execution \in {"absent", "DISPATCHED", "COMPLETED", "FAILED"}
    /\ registry \in Entries /\ entryCopy \in {"none", "inactive", "active"}
    /\ at \in [Invocations -> {"idle", "done"} \cup Busy] /\ found \in [Invocations -> Entries]
    /\ requests \in [Invocations -> 0..(MaxRetries + 2)]
    /\ answer \in [Invocations -> {"none", "ok", "retryable", "final"}]
    /\ barred \subseteq Invocations /\ performed \in Nat

\* However often a step of the workflow is repeated with the same input, the action
\* is done once (one payment recorded), as long as no answer was lost, no record
\* failed and the calls did not overlap: else a failure may erase the recorded
\* success, and one more call does it again.
PerformedOnce == ~overlap /\ ~silent => performed <= 1

\* An action that an administrator has switched off is not asked of n8n by a call
\* that begins afterwards, cache or no cache, unless the registry was changed while
\* a call was asking it: that call brings the old row back into the cache.
OffMeansOff == route = "n8n" /\ ~overtaken => \A i \in barred : requests[i] = 0

\* Both: an action is done at most once for its input, and only if it was on.
OnceAndOnlyIfOn == PerformedOnce /\ OffMeansOff
=============================================================================
