--------------------------- MODULE MessageRouting ----------------------------
(***************************************************************************)
(* One conversation: what a batch of messages is answered with.            *)
(* ProcessBufferedMessages chooses the case that is being served, keeps    *)
(* quiet when a person has it, interprets the batch (a call of the AI),    *)
(* lets CaseArbitration decide, pauses, resumes or creates a case, lets    *)
(* AdvanceCase run the workflow (module Workflows) and replies.  The buffer *)
(* hands over one batch at a time (module InboundBuffer); agents act on    *)
(* the cases, and time passes, between any two steps.  Any call may throw: *)
(* the catch block hands the conversation to people.                       *)
(***************************************************************************)
EXTENDS Naturals, FiniteSets

CONSTANTS
    MaxCases,    \* bound: cases of the conversation
    MaxBatches,  \* bound: batches
    MaxOffice,   \* bound: actions of agents
    MaxThrows    \* bound: calls that throw

ASSUME MaxCasesAssumption == MaxCases \in Nat

CaseSlots == 1..MaxCases   \* in order of creation

VARIABLES
    cases,      \* per slot: the case, or Unborn
    freshest,   \* per slot: the rank of the case by updated_at, 1 for the newest, 0 for no case
    pointer,    \* conversation.active_case_id, 0 for null
    clarified,  \* the last message to the customer was a request to clarify
    wrote,      \* the last message before the batch is an agent's, from less than 24 h ago
    turn,       \* the batch in progress, see NoTurn
    reminder,   \* the case CheckScheduledReminders is about to announce, 0 for none
    reminders,  \* history: per case, whether its schedule was asked for, announced, or announced twice
    handedBack, \* history: an agent gave a case back to the automation
    seized,     \* history: cases paused by a change of topic that were not the bot's
    batches, office, throws  \* counters for the bounds

mrVars == <<cases, freshest, pointer, clarified, wrote, turn, reminder, reminders,
            handedBack, seized, batches, office, throws>>

Topics == {"support", "billing"}   \* workflow types with a definition
Automated == {"ACTIVE", "WAITING_USER"}
Human == {"HUMAN_ACTIVE", "ESCALATED"}
Terminal == {"COMPLETED", "CANCELLED", "EXPIRED"}

\* `due': it has expired, by expires_at or after 24 hours without activity.
\* `schedule': schedulingMetadata.  `row': it has an escalation row.
Unborn == [topic |-> "none", status |-> "none", enabled |-> FALSE, owned |-> FALSE,
           due |-> FALSE, schedule |-> "none", row |-> FALSE]
Newborn(topic) == [Unborn EXCEPT !.topic = topic, !.status = "NEW", !.enabled = TRUE]

WithPerson(row) == row.owned \/ row.status \in Human

Born == {c \in CaseSlots : cases[c] # Unborn}
Open == {c \in Born : cases[c].status \notin Terminal}
Serving == {c \in Born : cases[c].status \in Automated /\ cases[c].enabled}

\* What interpretation (with its overrides for receipts and insults) makes of a
\* batch.  `about': a workflow with a definition, one without, an intent that goes
\* to people, or unknown.  `payment': nothing, told in words, shown on a receipt
\* that lacks data, complete.
Said(kind, about, sure, payment) ==
    [kind |-> kind, about |-> about, sure |-> sure, payment |-> payment]
Interpretations ==
    {Said(k, a, s, "no") : k \in {"ANSWER", "DENY", "NEW_INTENT"},
        a \in Topics \cup {"unbuilt", "people", "unknown"}, s \in BOOLEAN}
    \cup {Said(k, "unknown", TRUE, "no") : k \in {"REQUEST_HUMAN", "UNCLEAR"}}
    \cup {Said("NEW_INTENT", "billing", TRUE, p) : p \in {"told", "shown", "complete"}}

\* `active': the case findActiveByConversation gave before interpretation;
\* `on': the case that is served; `touched': cases changed since the batch read
\* them; `disturbed': an agent acted meanwhile; `again': the case asked to be
\* escalated has a row already; `dropped': the case served was expired.
NoTurn == [at |-> "idle", said |-> Said("UNCLEAR", "unknown", FALSE, "no"), active |-> 0,
           on |-> 0, pause |-> 0, resume |-> 0, reply |-> "none", touched |-> {},
           disturbed |-> FALSE, again |-> FALSE, threw |-> FALSE,
           dropped |-> FALSE]

RoutingInit ==
    /\ cases = [c \in CaseSlots |-> Unborn] /\ freshest = [c \in CaseSlots |-> 0] /\ pointer = 0
    /\ clarified = FALSE /\ wrote \in BOOLEAN /\ turn = NoTurn
    /\ reminder = 0 /\ reminders = [c \in CaseSlots |-> "none"]
    /\ handedBack = FALSE /\ seized = {} /\ batches = 0 /\ office = 0 /\ throws = 0

-----------------------------------------------------------------------------
(* Cases *)

Newest(S) == CHOOSE c \in S : \A d \in S : d <= c
FreshestOf(S) == IF S = {} THEN 0 ELSE CHOOSE c \in S : \A d \in S : freshest[c] <= freshest[d]

\* findActiveByConversation, findPausedByConversationAndType, findResumableCaseId
FindActive == FreshestOf({c \in Born : cases[c].status \in Automated})
Resumable(topic) ==
    LET c == FreshestOf({d \in Born : cases[d].topic = topic /\ cases[d].status = "PAUSED"})
    IN IF c = 0 \/ cases[c].due THEN 0 ELSE c

\* An UPDATE of the row: it is the one with the newest updated_at.
Front(c) ==
    LET passed == {d \in CaseSlots : freshest[d] # 0 /\ (freshest[c] = 0 \/ freshest[d] < freshest[c])}
    IN [d \in CaseSlots |-> IF d = c THEN 1 ELSE IF d \in passed THEN freshest[d] + 1 ELSE freshest[d]]
Write(c, row) == /\ cases' = [cases EXCEPT ![c] = row]
                 /\ freshest' = Front(c)

\* applyTransition: also counts as activity, so the case is not due.
Moved(row, status) == [row EXCEPT !.status = status, !.due = FALSE]

Unborns == CaseSlots \ Born

NextSlot == Cardinality(Born) + 1

\* EscalationService.persistEscalation: an agent of the department may be free.
Pool(c, row) == Write(c, [row EXCEPT !.enabled = FALSE, !.row = TRUE]) /\ pointer' = 0
HandOver(c, row) ==
    \/ Pool(c, row)
    \/ /\ Write(c, [row EXCEPT !.enabled = FALSE, !.row = TRUE, !.owned = TRUE,
                              !.status = "HUMAN_ACTIVE"])
       /\ pointer' = c

\* escalateExistingCase: nothing more than an answer if the case has a row.
EscalateExisting(c) ==
    IF cases[c].row
    THEN UNCHANGED <<cases, freshest, pointer>>
    ELSE HandOver(c, IF cases[c].status \in Human THEN cases[c]
                     ELSE Moved(cases[c], "ESCALATED"))

\* sendToTriage: a new case, for people only, with or without a department.
Triage == [Newborn("triage") EXCEPT !.status = "ESCALATED"]
SendToTriage == Pool(NextSlot, Triage)
SendToDepartment == HandOver(NextSlot, Triage)

-----------------------------------------------------------------------------
(* The batch *)

Quiet == turn' = [turn EXCEPT !.at = "quiet"]
Reply(kind) == turn' = [turn EXCEPT !.at = "reply", !.reply = kind]

\* The buffer hands a batch over.  A bound: room for the cases it may create.
ReceiveBatch(said) ==
    /\ turn.at \in {"idle", "done", "quiet"} /\ batches < MaxBatches
    /\ Cardinality(Unborns) >= 2
    /\ turn' = [NoTurn EXCEPT !.at = "gates", !.said = said]
    /\ batches' = batches + 1
    /\ UNCHANGED <<cases, freshest, pointer, clarified, wrote, reminder, reminders, handedBack, seized,
                   office, throws>>

\* The case being served: the one the conversation points to, else the newest
\* one with a person, else the newest automated one, else the newest NEW one.
Served ==
    LET first(S) == IF S = {} THEN 0 ELSE Newest(S)
        people == {c \in Open : WithPerson(cases[c])}
        robots == {c \in Open : cases[c].status \in Automated}
    IN IF pointer \in Open THEN pointer
       ELSE IF people # {} THEN first(people)
       ELSE IF robots # {} THEN first(robots)
       ELSE first({c \in Open : cases[c].status = "NEW"})

\* Mutant of InPersonsHands: only the owner counts, as if escalated cases waited
\* in the pool with the automation on.
InPersonsHandsOwned(row) == row.owned

InPersonsHands(row) == ~row.enabled \/ WithPerson(row)

\* Gates before the AI is asked: a case waiting for its schedule is silenced; an
\* expired one is dropped (even if the store fails), unless an agent wrote; a person's one is silenced.
Gates ==
    /\ turn.at = "gates"
    /\ LET c == Served
           hasCase == c # 0
           scheduled == hasCase /\ cases[c].schedule # "none"
           expired == hasCase /\ ~scheduled /\ cases[c].due
           personal == hasCase /\ ~expired /\ InPersonsHands(cases[c])
           pass == [turn EXCEPT !.at = "interpret", !.active = FindActive]
       IN \/ /\ scheduled /\ Quiet
             /\ cases' = [cases EXCEPT ![c].enabled = FALSE] /\ UNCHANGED freshest
          \/ /\ expired /\ wrote /\ Quiet /\ UNCHANGED <<cases, freshest>>
          \/ /\ expired /\ ~wrote /\ MaxThrows > 0 /\ turn' = [pass EXCEPT !.dropped = TRUE]
             /\ UNCHANGED <<cases, freshest>>
          \/ /\ expired /\ ~wrote
             /\ Write(c, Moved(cases[c], "EXPIRED"))
             /\ turn' = [pass EXCEPT !.dropped = TRUE, !.active = IF FindActive = c
                            THEN FreshestOf({d \in Born \ {c} : cases[d].status \in Automated})
                            ELSE FindActive]
          \/ /\ ~scheduled /\ personal /\ Quiet
             /\ cases' = [cases EXCEPT ![c].enabled = FALSE] /\ UNCHANGED freshest
          \/ /\ ~scheduled /\ ~expired /\ ~personal /\ wrote /\ Quiet
             /\ UNCHANGED <<cases, freshest>>
          \/ /\ ~scheduled /\ ~expired /\ ~personal /\ ~wrote /\ turn' = pass
             /\ UNCHANGED <<cases, freshest>>
    /\ UNCHANGED <<pointer, clarified, wrote, reminder, reminders, handedBack, seized, batches, office, throws>>

\* CaseArbitrationService.decide, with the cases as they are after the AI answered.
Decision ==
    LET said == turn.said
        active == FindActive
        topic == IF said.about \in Topics \cup {"unbuilt"} THEN said.about ELSE "none"
        pending == {c \in Open : ~cases[c].due /\ WithPerson(cases[c])}
        Do(at, on, pause, resume) == [at |-> at, on |-> on, pause |-> pause, resume |-> resume]
        activate == Do("activate", 0, active, Resumable(topic))
    IN IF said.kind = "REQUEST_HUMAN" THEN Do("human", active, 0, 0)
       ELSE IF said.kind = "UNCLEAR" THEN Do("clarify", 0, 0, 0)
       ELSE IF said.sure /\ said.about = "people" THEN Do("human", active, 0, 0)
       ELSE IF active # 0
       THEN IF topic = cases[active].topic THEN Do("advance", active, 0, 0)
            ELSE IF topic # "none" /\ said.sure THEN activate
            ELSE IF said.kind = "ANSWER" \/ ~said.sure THEN Do("advance", active, 0, 0)
            ELSE IF said.kind = "DENY" THEN Do("human", active, 0, 0)
            ELSE Do("clarify", 0, 0, 0)
       ELSE IF topic = "none" \/ ~said.sure THEN Do("clarify", 0, 0, 0)
       ELSE IF pending # {} THEN Do("human", Newest(pending), 0, 0)
       ELSE activate

Arbitrate ==
    /\ turn.at = "interpret"
    /\ LET d == Decision
       IN turn' = [turn EXCEPT !.at = d.at, !.on = d.on, !.pause = d.pause, !.resume = d.resume,
                               !.touched = {}]
    /\ UNCHANGED <<cases, freshest, pointer, clarified, wrote, reminder, reminders, handedBack, seized,
                   batches, office, throws>>

\* The second request to clarify in a row is not made: a person takes over.
Clarify ==
    /\ turn.at = "clarify"
    /\ \/ ~clarified /\ Reply("clarify") /\ UNCHANGED <<cases, freshest, pointer>>
       \/ clarified /\ SendToTriage /\ Reply("person")
    /\ UNCHANGED <<clarified, wrote, reminder, reminders, handedBack, seized, batches, office, throws>>

RequestHuman ==
    /\ turn.at = "human"
    /\ turn' = [turn EXCEPT !.at = "reply", !.reply = "person",
                            !.again = turn.on # 0 /\ cases[turn.on].row]
    /\ IF turn.on # 0 THEN EscalateExisting(turn.on) ELSE SendToDepartment
    /\ UNCHANGED <<clarified, wrote, reminder, reminders, handedBack, seized, batches, office, throws>>

\* Mutant of PauseActive: the case that was served stays as it is.
PauseActiveNot ==
    /\ turn.at = "activate" /\ turn' = [turn EXCEPT !.at = "open"]
    /\ UNCHANGED <<cases, freshest, pointer, clarified, wrote, reminder, reminders, handedBack, seized,
                   batches, office, throws>>

\* pauseCase reads the case again for its version only: one a person took while
\* the AI answered is paused, too.
PauseActive ==
    /\ turn.at = "activate" /\ turn' = [turn EXCEPT !.at = "open", !.touched = @ \cup {turn.pause}]
    /\ IF turn.pause # 0 THEN Write(turn.pause, [cases[turn.pause] EXCEPT !.status = "PAUSED"])
       ELSE UNCHANGED <<cases, freshest>>
    /\ seized' = seized \cup {c \in {turn.pause} \cap Born : InPersonsHands(cases[c])}
    /\ UNCHANGED <<pointer, clarified, wrote, reminder, reminders, handedBack, batches, office, throws>>

\* Resume the paused case of the topic (its status is left to AdvanceCase), or
\* create one; a workflow without a definition goes to people.
OpenCase ==
    /\ turn.at = "open"
    /\ \/ /\ turn.resume = 0 /\ turn.said.about = "unbuilt"
          /\ SendToTriage /\ Reply("person")
       \/ /\ turn.resume # 0 \/ turn.said.about # "unbuilt"
          /\ LET c == IF turn.resume # 0 THEN turn.resume ELSE NextSlot
                 next == IF turn.said.payment \in {"told", "shown"} THEN "payment" ELSE "advance"
             IN /\ pointer' = c
                /\ turn' = [turn EXCEPT !.at = next, !.on = c, !.touched = @ \ {c}]
                /\ IF turn.resume # 0 THEN UNCHANGED <<cases, freshest>>
                   ELSE Write(c, Newborn(turn.said.about))
    /\ UNCHANGED <<clarified, wrote, reminder, reminders, handedBack, seized, batches, office, throws>>

\* A payment told or shown, without the data to record it: the support case that
\* was active is closed, with the version read before it was paused.
PaymentReported ==
    /\ turn.at = "payment"
    /\ ~(turn.active # 0 /\ cases[turn.active].topic = "support" /\ turn.active \in turn.touched)
    /\ LET closed == IF turn.active # 0 /\ cases[turn.active].topic = "support"
                     THEN [cases EXCEPT ![turn.active] = Moved(@, "COMPLETED")] ELSE cases
       IN cases' = [closed EXCEPT ![turn.on].due = FALSE]
    /\ freshest' = Front(turn.on)
    /\ IF turn.said.payment = "shown"
       THEN turn' = [turn EXCEPT !.at = "receipt"]
       ELSE Reply("photo")
    /\ UNCHANGED <<pointer, clarified, wrote, reminder, reminders, handedBack, seized, batches, office, throws>>

\* The receipt goes to the people of billing.
PaymentShown ==
    /\ turn.at = "receipt"
    /\ turn' = [turn EXCEPT !.at = "reply", !.reply = "receipt", !.again = cases[turn.on].row]
    /\ LET c == turn.on
       IN IF cases[c].row THEN /\ cases' = [cases EXCEPT ![c].enabled = FALSE]
                               /\ UNCHANGED freshest
          ELSE \E free \in BOOLEAN :
                 Write(c, [Moved(cases[c], IF free \/ cases[c].status = "HUMAN_ACTIVE"
                                           THEN "HUMAN_ACTIVE" ELSE "ESCALATED")
                            EXCEPT !.enabled = FALSE, !.row = TRUE, !.owned = @ \/ free])
    /\ pointer' = turn.on
    /\ UNCHANGED <<clarified, wrote, reminder, reminders, handedBack, seized, batches, office, throws>>

\* AdvanceCase stores what the workflow came to, if the case was not touched.
Advance ==
    /\ turn.at = "advance" /\ turn.on \notin turn.touched
    /\ LET c == turn.on
       IN \/ /\ Write(c, Moved(cases[c], "WAITING_USER")) /\ pointer' = c
             /\ Reply("outcome")
          \/ /\ Write(c, Moved(cases[c], "COMPLETED")) /\ pointer' = 0
             /\ Reply("outcome")
          \/ /\ turn' = [turn EXCEPT !.at = "reply", !.reply = "person"]
             /\ IF cases[c].row
                THEN /\ Write(c, [Moved(cases[c], "ESCALATED") EXCEPT !.enabled = FALSE])
                     /\ pointer' = 0
                ELSE HandOver(c, Moved(cases[c], "ESCALATED"))
    /\ UNCHANGED <<clarified, wrote, reminder, reminders, handedBack, seized, batches, office, throws>>

\* deliverFixedReply, sendCustomerReply: stored as sent or as failed, either way.
Deliver ==
    /\ turn.at = "reply" /\ turn' = [turn EXCEPT !.at = "done"]
    /\ clarified' = (turn.reply = "clarify") /\ wrote' = FALSE
    /\ UNCHANGED <<cases, freshest, pointer, reminder, reminders, handedBack, seized, batches, office, throws>>

\* A call throws: a version that moved, the database, n8n, the AI.  Beyond the
\* fault bound only the ones that must: stale versions.
MustThrow ==
    \/ turn.at = "advance" /\ turn.on \in turn.touched
    \/ /\ turn.at = "payment" /\ turn.active # 0
       /\ cases[turn.active].topic = "support" /\ turn.active \in turn.touched

Throw ==
    /\ turn.at \notin {"idle", "done", "quiet", "fallback"}
    /\ \/ MustThrow /\ UNCHANGED throws
       \/ ~MustThrow /\ throws < MaxThrows /\ throws' = throws + 1
    /\ turn' = [turn EXCEPT !.at = "fallback", !.threw = ~MustThrow]
    /\ UNCHANGED <<cases, freshest, pointer, clarified, wrote, reminder, reminders, handedBack, seized,
                   batches, office>>

\* Mutant of Fallback: an apology without a person.
FallbackAlone ==
    /\ turn.at = "fallback" /\ Reply("person")
    /\ UNCHANGED <<cases, freshest, pointer, clarified, wrote, reminder, reminders, handedBack, seized,
                   batches, office, throws>>

\* The catch block: the active case, or a new one, goes to people.  A second
\* failure is only logged: the customer gets no answer.
Fallback ==
    /\ turn.at = "fallback"
    /\ LET c == FindActive
       IN \/ /\ turn' = [turn EXCEPT !.at = "reply", !.reply = "person",
                                     !.again = c # 0 /\ cases[c].row]
             /\ IF c # 0 THEN EscalateExisting(c) ELSE Unborns # {} /\ SendToTriage
             /\ UNCHANGED throws
          \/ /\ throws < MaxThrows /\ throws' = throws + 1
             /\ turn' = [turn EXCEPT !.at = "done", !.threw = TRUE]
             /\ UNCHANGED <<cases, freshest, pointer>>
    /\ UNCHANGED <<clarified, wrote, reminder, reminders, handedBack, seized, batches, office>>

-----------------------------------------------------------------------------
(* Agents, time, and the reminders of scheduled cases *)

Acted(c) ==
    /\ office < MaxOffice /\ office' = office + 1
    /\ turn' = [turn EXCEPT !.disturbed = TRUE, !.touched = @ \cup {c}]
    /\ UNCHANGED <<clarified, wrote, reminder, seized, batches, throws>>

\* TakeControl, ClaimCase, AssignCase (module CaseDispatch)
TakeCase(c) ==
    /\ c \in Open /\ ~cases[c].owned /\ Acted(c)
    /\ Write(c, [Moved(cases[c], "HUMAN_ACTIVE") EXCEPT !.owned = TRUE, !.enabled = FALSE])
    /\ pointer' = c /\ UNCHANGED <<reminders, handedBack>>

\* ReactivateAutomation
HandBack(c) ==
    /\ c \in Open /\ cases[c].status \in Human /\ Acted(c)
    /\ \E s \in Automated :
         Write(c, [Moved(cases[c], s) EXCEPT !.enabled = TRUE, !.owned = FALSE])
    /\ handedBack' = TRUE /\ UNCHANGED <<pointer, reminders>>

\* CompleteCase
CloseCase(c) ==
    /\ c \in Open /\ Acted(c)
    /\ Write(c, [Moved(cases[c], "COMPLETED") EXCEPT !.due = FALSE])
    /\ pointer' = 0 /\ UNCHANGED <<reminders, handedBack>>

\* ScheduleCase: the case waits for a date, without automation.
ScheduleCase(c) ==
    /\ c \in Open /\ Acted(c)
    /\ Write(c, [Moved(cases[c], "WAITING_USER") EXCEPT !.schedule = "set", !.enabled = FALSE])
    /\ reminders' = [reminders EXCEPT ![c] = "asked"]
    /\ UNCHANGED <<pointer, handedBack>>

\* An agent writes to the customer.
AgentWrites ==
    /\ office < MaxOffice /\ office' = office + 1 /\ wrote' = TRUE /\ clarified' = FALSE
    /\ turn' = [turn EXCEPT !.disturbed = TRUE]
    /\ UNCHANGED <<cases, freshest, pointer, reminder, reminders, handedBack, seized, batches, throws>>

\* A day without activity: the case expires, and an agent's message is old.
DayPasses ==
    /\ turn.at \in {"idle", "done", "quiet"} /\ Open # {} /\ \E c \in Open : ~cases[c].due
    /\ cases' = [c \in CaseSlots |-> IF c \in Open THEN [cases[c] EXCEPT !.due = TRUE] ELSE cases[c]]
    /\ wrote' \in {wrote, FALSE}
    /\ UNCHANGED <<freshest, pointer, clarified, turn, reminder, reminders, handedBack, seized, batches,
                   office, throws>>

\* CheckScheduledReminders: listAutomatableExpiring, with its copy of the context.
ReminderDue(c) ==
    /\ reminder = 0 /\ c \in Open /\ cases[c].due /\ cases[c].schedule = "set"
    /\ reminder' = c
    /\ UNCHANGED <<cases, freshest, pointer, clarified, wrote, turn, reminders, handedBack, seized,
                   batches, office, throws>>

Announced(c) == [reminders EXCEPT ![c] = IF @ = "asked" THEN "announced" ELSE "twice"]

\* Mutant of Remind: it is announced, and not noted.
RemindUnnoted ==
    /\ reminder # 0 /\ reminder' = 0
    /\ reminders' = Announced(reminder)
    /\ UNCHANGED <<cases, freshest, pointer, clarified, wrote, turn, handedBack, seized, batches, office,
                   throws>>

\* The case is read again for its version; its context is the copy, noted.  The
\* transition counts as activity but expires_at stays, and the case stays due.
Remind ==
    /\ reminder # 0 /\ reminder' = 0
    /\ Write(reminder, [cases[reminder] EXCEPT !.schedule = "noted"])
    /\ reminders' = Announced(reminder)
    /\ turn' = [turn EXCEPT !.touched = @ \cup {reminder}]
    /\ UNCHANGED <<pointer, clarified, wrote, handedBack, seized, batches, office, throws>>

AgentActs ==
    \E c \in CaseSlots : TakeCase(c) \/ HandBack(c) \/ CloseCase(c) \/ ScheduleCase(c)

RoutingNext ==
    \/ \E said \in Interpretations : ReceiveBatch(said)
    \/ Gates \/ Arbitrate \/ Clarify \/ RequestHuman \/ PauseActive \/ OpenCase
    \/ PaymentReported \/ PaymentShown \/ Advance \/ Deliver \/ Throw \/ Fallback
    \/ AgentActs \/ AgentWrites \/ DayPasses
    \/ (\E c \in CaseSlots : ReminderDue(c)) \/ Remind

RoutingSpec == RoutingInit /\ [][RoutingNext]_mrVars

-----------------------------------------------------------------------------
(* Properties *)

\* Types of the variables.
RoutingTypeOK ==
    /\ DOMAIN cases = CaseSlots
    /\ \A c \in Born : /\ cases[c].topic \in Topics \cup {"triage"}
                       /\ cases[c].status \in {"NEW", "PAUSED"} \cup Automated \cup Human \cup Terminal
    /\ Born = 1..Cardinality(Born) /\ {freshest[c] : c \in Born} = Born
    /\ \A c \in CaseSlots \ Born : freshest[c] = 0
    /\ pointer \in {0} \cup Born /\ reminder \in {0} \cup Born
    /\ turn.on \in {0} \cup Born /\ turn.active \in {0} \cup Born

\* Topic changes, resumed cases, failures and handovers leave at most one case the
\* bot would serve on its own.  Not so once an agent gave a case back (it is not
\* compared with the others), nor once a change of topic paused, instead of the case
\* that was served, one that was scheduled: findActiveByConversation gives either.
OneAutomatedCase == ~handedBack /\ seized = {} => Cardinality(Serving) <= 1

\* A customer who is told that a person takes over has a case in the hands of
\* people, with the automation off.  Not so when the case has an escalation row
\* from before it was given back: then nothing is done (escalateExistingCase).
PromisedPersonIsThere ==
    (turn.at = "reply" /\ turn.reply \in {"person", "receipt"} /\ ~turn.again /\ ~turn.disturbed)
        => \E c \in Open : cases[c].status \in Human /\ ~cases[c].enabled

\* The bot says nothing on its own while a person has the case the conversation
\* points to, or any case and it points to none: such a batch ends quietly.  Not so
\* once the case served turned out to be expired: the others are not looked at; nor
\* for a case paused from under a person: it is resumed when its topic comes back.
QuietWithPerson ==
    (turn.at \in {"interpret", "advance", "activate", "clarify"} /\ ~turn.disturbed /\ ~turn.dropped)
        => \A c \in Open \ seized : c = pointer \/ pointer \notin Open => ~WithPerson(cases[c])

\* A schedule is announced to the agents at most once.
RemindedOnce == \A c \in CaseSlots : reminders[c] # "twice"

\* A shown receipt reaches the people of billing and is acknowledged.
ReceiptAcknowledged ==
    (turn.at = "done" /\ turn.said.payment = "shown" /\ turn.pause # 0
     /\ ~turn.disturbed /\ ~turn.threw) => turn.reply = "receipt"
=============================================================================
