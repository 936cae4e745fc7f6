------------------------------ MODULE Workflows ------------------------------
(***************************************************************************)
(* One case served by the workflow engine (modules/cases/application):     *)
(* AdvanceCase applies the policy of the waiting steps to a message, runs  *)
(* the handlers of the workflow until one of them stops, and stores the    *)
(* outcome if nobody moved the case meanwhile.  One action per handler: it *)
(* awaits n8n, and an agent may take the case before the outcome is stored.*)
(*                                                                         *)
(* A message is what interpretation and the regular expressions find in    *)
(* it: a national id, the fields it gives, and its tone.                   *)
(***************************************************************************)
EXTENDS Naturals, FiniteSets

CONSTANTS
    Clients,    \* national ids a customer may type
    NoClient,   \* no national id
    Contracts,  \* active contracts the ISP has for each national id (0, 1 or more)
    Office      \* what agents do to the data of the case, a subset of OfficeActions

OfficeActions == {"sync", "balance", "stored", "diagnose"}

ASSUME ClientsAssumption == NoClient \notin Clients /\ Contracts \in [Clients -> 0..2]
ASSUME OfficeAssumption == Office \subseteq OfficeActions

VARIABLES
    workflow,    \* "case".workflow_type
    saved,       \* the stored case: [state, data, tries] (current_state, context)
    standing,    \* "case".status
    pointed,     \* conversation.active_case_id is this case
    remembered,  \* national id of the customer row the conversation points to
    known,       \* active contracts stored for each national id
    run,         \* the AdvanceCase in progress, see Idle
    borrowed     \* history: an agent's action took a contract of the conversation

wfVars == <<workflow, saved, standing, pointed, remembered, known, run, borrowed>>

WorkflowTypes == {"SUPPORT_INTERNET", "SALES", "BILLING_BALANCE", "HOME_RELOCATION",
                  "GENERAL_INQUIRY"}

MaxStepsPerRun == 10
Technical == "SUPPORT_INTERNET"
Money == "BILLING_BALANCE"
Moving == "HOME_RELOCATION"
Identifying == {Technical, Money, Moving} \* the workflows that look at who writes

\* What a message can give in each workflow, besides a national id.  An option
\* is "option" when one of the listed contracts answers to it.
FieldsOf(w) ==
    CASE w = Technical -> {"option", "wrongOption"}
      [] w = "SALES"   -> {"address", "mapLocation", "upgrade"}
      [] w = Money     -> {"amount", "reference", "methods", "record"}
      [] w = Moving    -> {"newAddress", "references", "mapLocation"}
      [] w = "GENERAL_INQUIRY" -> {"thanks", "upgrade", "confirm", "deny", "greeting"}

\* Tone: checkCustomerGuardrails finds an insult or a refusal; a greeting or
\* "wait" burns no attempt.
Tones == {"plain", "greeting", "hostile"}

-----------------------------------------------------------------------------
(* Waiting steps of the definitions: what an answer must give, and how often *)
(* it is asked for.  The text of the message is always an "answer".          *)

Step(all, any, max) == [all |-> all, any |-> any, max |-> max]

AskClient == Step({"nationalId"}, {}, 3)

SupportSteps == [WAITING_USER_DISAMBIGUATE |-> Step({}, {"option", "wrongOption"}, 3),
                 WAITING_USER_DIAGNOSTIC |-> Step({"answer"}, {}, 2),
                 WAITING_USER_CLIENT |-> AskClient]

SalesSteps == [WAITING_USER_LOCATION |-> Step({}, {"address", "mapLocation"}, 3),
               WAITING_USER_UPGRADE |-> Step({}, {"upgrade", "answer"}, 2)]

BillingSteps == [WAITING_USER_RECEIPT |-> Step({"amount", "reference"}, {}, 2),
                 WAITING_USER_CLIENT |-> AskClient]

RelocationSteps ==
    [GATHER_RELOCATION_DETAILS |-> Step({"newAddress", "references", "mapLocation"}, {}, 4),
     WAITING_USER_CLIENT |-> AskClient]

InquirySteps == [WAITING_USER_INQUIRY |-> Step({}, {"answer", "question"}, 3),
                 WAITING_USER_SPECIALIST |-> Step({}, {"confirm", "answer"}, 2)]

\* engine.getDefinition(workflowType).waitingSteps
StepsOf(w) ==
    CASE w = Technical -> SupportSteps [] w = "SALES" -> SalesSteps [] w = Money -> BillingSteps
      [] w = Moving -> RelocationSteps [] w = "GENERAL_INQUIRY" -> InquirySteps

\* missingRequiredFields
Missing(step, given) ==
    IF step.all # {} THEN step.all \ given
    ELSE IF step.any \cap given # {} THEN {} ELSE step.any

InitialState(w) ==
    CASE w \in {Technical, Money, Moving} -> "VALIDATE_CLIENT"
      [] w = "SALES" -> "COLLECT_PREFERENCE"
      [] w = "GENERAL_INQUIRY" -> "QUERY_KNOWLEDGE_BASE"

\* The part of the context the handlers branch on: the client, the owner of the
\* chosen contract, the owner of the contracts offered, whether the contract has
\* an address to be looked up by, rounds of diagnostic questions, purpose,
\* coverage, and what was given of a payment or a relocation.
NoData == [client |-> NoClient, contract |-> NoClient, pending |-> NoClient, ip |-> FALSE,
           rounds |-> 0, purpose |-> "none", coverage |-> "unknown", given |-> {}]

Idle == [on |-> FALSE, state |-> "none", data |-> NoData, tries |-> 0, id |-> NoClient,
         text |-> {}, entities |-> {}, steps |-> 0, outcome |-> "none", stale |-> FALSE]

WorkflowsInit ==
    /\ workflow \in WorkflowTypes
    /\ saved = [state |-> InitialState(workflow), data |-> NoData, tries |-> 0]
    /\ standing = "ACTIVE" /\ pointed = TRUE
    /\ known \in {k \in [Clients -> 0..2] : \A c \in Clients : k[c] <= Contracts[c]}
    /\ remembered \in {NoClient} \cup {c \in Clients : known[c] > 0}
    /\ workflow \notin Identifying => remembered = NoClient /\ known = [c \in Clients |-> 0]
    /\ run = Idle /\ borrowed = FALSE

-----------------------------------------------------------------------------
(* A message: the waiting-step policy of AdvanceCase *)

WorkflowMessages ==
    [id : IF workflow \in Identifying THEN Clients \cup {NoClient} ELSE {NoClient},
     gives : SUBSET FieldsOf(workflow), tone : Tones]

Awaiting == saved.state \in DOMAIN StepsOf(workflow)

\* The entities the policy completes from the text: an answer, always; the id
\* in the text; the other fields are in both.
Entities(msg) ==
    msg.gives \cup {"answer"} \cup (IF msg.id = NoClient THEN {} ELSE {"nationalId"})

CanAdvance == standing \in {"ACTIVE", "WAITING_USER"} /\ ~run.on

\* The run begins at state s with context d and attempts n.
Begin(msg, s, d, n) ==
    /\ run' = [Idle EXCEPT !.on = TRUE, !.state = s, !.data = d, !.tries = n, !.id = msg.id,
                           !.text = IF workflow = Money THEN {} ELSE msg.gives, \* not read there
                           !.entities = Entities(msg)]
    /\ UNCHANGED <<workflow, saved, standing, pointed, remembered, known, borrowed>>

\* The policy itself decides, and no handler runs.
Decide(msg, outcome, n) ==
    /\ run' = [Idle EXCEPT !.on = TRUE, !.state = saved.state, !.data = saved.data,
                           !.tries = n, !.outcome = outcome]
    /\ UNCHANGED <<workflow, saved, standing, pointed, remembered, known, borrowed>>

\* The case is in a state without a waiting step: its first message.
FirstMessage(msg) ==
    /\ CanAdvance /\ ~Awaiting
    /\ Begin(msg, saved.state, saved.data, saved.tries)

\* Offered a list of contracts, the customer types another national id.
Corrects(msg) == saved.state = "WAITING_USER_DISAMBIGUATE" /\ msg.id # NoClient

\* Mutant of CorrectId: the contracts of the former id stay on offer.
CorrectIdKeepingContracts(msg) ==
    /\ CanAdvance /\ Awaiting /\ Corrects(msg)
    /\ Begin(msg, "VALIDATE_CLIENT", [saved.data EXCEPT !.client = msg.id], saved.tries)

CorrectId(msg) ==
    /\ CanAdvance /\ Awaiting /\ Corrects(msg)
    /\ Begin(msg, "VALIDATE_CLIENT",
             [saved.data EXCEPT !.client = msg.id, !.pending = NoClient, !.contract = NoClient],
             saved.tries)

Guardrail(msg) ==
    /\ CanAdvance /\ Awaiting /\ ~Corrects(msg) /\ msg.tone = "hostile"
    /\ Decide(msg, "ESCALATED", saved.tries + 1)

Lacking(msg) == Missing(StepsOf(workflow)[saved.state], Entities(msg))

\* Something required is missing: an attempt is burnt unless the customer only
\* greets, and the last one escalates.  What the message does give is dropped.
Incomplete(msg) ==
    /\ CanAdvance /\ Awaiting /\ ~Corrects(msg) /\ msg.tone # "hostile" /\ Lacking(msg) # {}
    /\ LET step == StepsOf(workflow)[saved.state]
           n == IF msg.tone = "greeting" /\ Entities(msg) \cap (step.all \cup step.any) = {}
                THEN saved.tries ELSE saved.tries + 1
       IN Decide(msg, IF n >= step.max THEN "ESCALATED" ELSE "WAITING_USER", n)

\* Mutant of Answered: the attempts are not cleared.
AnsweredUncleared(msg) ==
    /\ CanAdvance /\ Awaiting /\ ~Corrects(msg) /\ msg.tone # "hostile" /\ Lacking(msg) = {}
    /\ Begin(msg, saved.state, saved.data, saved.tries)

\* Everything asked for is there: the attempts are cleared and the handler runs.
Answered(msg) ==
    /\ CanAdvance /\ Awaiting /\ ~Corrects(msg) /\ msg.tone # "hostile" /\ Lacking(msg) = {}
    /\ Begin(msg, saved.state, saved.data, 0)

-----------------------------------------------------------------------------
(* The loop: at most MaxStepsPerRun handlers, and what a handler may answer *)

At_(w, s) ==
    /\ run.on /\ run.outcome = "none" /\ run.steps < MaxStepsPerRun
    /\ workflow = w /\ run.state = s

\* CONTINUE: the entities are spent on the first handler, the text is not.
Continue(s, d) ==
    run' = [run EXCEPT !.state = s, !.data = d, !.id = NoClient, !.entities = {},
                       !.steps = @ + 1]

\* WAITING_USER, with resetWaitingAttempts (n = 0), bumpWaitingAttempts or neither.
WaitFor(s, d, n) ==
    run' = [run EXCEPT !.state = s, !.data = d, !.tries = n, !.outcome = "WAITING_USER"]

Complete(d) == run' = [run EXCEPT !.data = d, !.outcome = "COMPLETED"]
Escalate(d) == run' = [run EXCEPT !.data = d, !.outcome = "ESCALATED"]

OnlyRun == UNCHANGED <<workflow, saved, standing, pointed, remembered, known, borrowed>>

\* The id of this message, or the one in the context.
IdKnown == IF run.id # NoClient THEN run.id ELSE run.data.client

\* n8n does not know the id, or knows it without contracts.
NotFound(d) == WaitFor("WAITING_USER_CLIENT", [d EXCEPT !.client = NoClient], run.tries + 1)

\* ConversationIdentityService.tryGetValidatedIdentity: one active contract.
Reusable == remembered # NoClient /\ known[remembered] = 1

\* rememberValidatedIdentity: the customer and one contract are stored, and the
\* conversation points to the customer.
Remember(c) ==
    /\ remembered' = c
    /\ \E n \in {known[c], known[c] + 1} \cap (1..Contracts[c]) : known' = [known EXCEPT ![c] = n]
    /\ UNCHANGED <<workflow, saved, standing, pointed, borrowed>>

-----------------------------------------------------------------------------
(* SUPPORT_INTERNET *)

ValidateAt(w) == At_(w, "VALIDATE_CLIENT") \/ At_(w, "WAITING_USER_CLIENT")

Identified(d) == d.client # NoClient /\ d.contract # NoClient

SupportKnown ==
    /\ ValidateAt(Technical) /\ Identified(run.data)
    /\ Continue("CHECK_CLIENT_STATUS", run.data) /\ OnlyRun

\* The id the message gives is not looked at when the conversation has one.
SupportReuse ==
    /\ ValidateAt(Technical) /\ ~Identified(run.data) /\ Reusable
    /\ Continue("CHECK_CLIENT_STATUS",
                [run.data EXCEPT !.client = remembered, !.contract = remembered,
                                 !.pending = NoClient, !.ip = FALSE])
    /\ OnlyRun

AskId(w) ==
    /\ IdKnown = NoClient
    /\ WaitFor("WAITING_USER_CLIENT", run.data, 0) /\ OnlyRun

SupportAskId ==
    /\ ValidateAt(Technical) /\ ~Identified(run.data) /\ ~Reusable
    /\ AskId(Technical)

SupportLookup ==
    LET id == IdKnown
        d == [run.data EXCEPT !.client = id]
    IN
    /\ ValidateAt(Technical) /\ ~Identified(run.data) /\ ~Reusable /\ id # NoClient
    /\ \/ Escalate(d) /\ OnlyRun \* n8n fails
       \/ Contracts[id] = 0 /\ NotFound(d) /\ OnlyRun
       \/ /\ Contracts[id] > 1
          /\ WaitFor("WAITING_USER_DISAMBIGUATE", [d EXCEPT !.pending = id], 0)
          /\ remembered' = id /\ known' = [known EXCEPT ![id] = Contracts[id]]
          /\ UNCHANGED <<workflow, saved, standing, pointed, borrowed>>
       \/ /\ Contracts[id] = 1
          /\ \E ip \in BOOLEAN :
               Continue("CHECK_CLIENT_STATUS",
                        [d EXCEPT !.contract = id, !.pending = NoClient, !.ip = ip])
          /\ Remember(id)

\* disambiguateContract: an option that is none of the contracts is asked for
\* again, with the attempts reset.
Disambiguate ==
    LET d == run.data IN
    /\ At_(Technical, "WAITING_USER_DISAMBIGUATE")
    /\ IF "option" \in run.text \cup run.entities
       THEN /\ \E ip \in BOOLEAN :
                 Continue("CHECK_CLIENT_STATUS",
                          [d EXCEPT !.contract = d.pending, !.pending = NoClient, !.ip = ip])
            /\ Remember(d.client)
       ELSE WaitFor("WAITING_USER_DISAMBIGUATE", d, 0) /\ OnlyRun

\* Without an address the router cannot be asked; a suspended client is asked for
\* the balance.
CheckClientStatus ==
    /\ At_(Technical, "CHECK_CLIENT_STATUS")
    /\ \/ ~run.data.ip /\ Continue("DIAGNOSTIC", run.data)
       \/ run.data.ip /\ \E s \in {"CHECK_BALANCE", "DIAGNOSTIC"} : Continue(s, run.data)
       \/ run.data.ip /\ Escalate(run.data)
    /\ OnlyRun

SupportBalance ==
    /\ At_(Technical, "CHECK_BALANCE")
    /\ \/ \E s \in {"RESPOND_DEBT", "DIAGNOSTIC"} : Continue(s, run.data)
       \/ Escalate(run.data)
    /\ OnlyRun

RespondDebt == At_(Technical, "RESPOND_DEBT") /\ Complete(run.data) /\ OnlyRun

\* normalizeDiagnosticResult: what n8n answers, by its own status, by that of its
\* workflow, or by whether it gives an instruction.
Answers == [status : {"WAITING_USER", "COMPLETED", "ESCALATED", "other"},
            flow : {"waiting", "done", "failed", "recheck", "other"}, instruction : BOOLEAN]

Normalized(raw) ==
    IF raw.status # "other" THEN raw.status
    ELSE CASE raw.flow = "waiting" -> "WAITING_USER"
           [] raw.flow = "done" -> "COMPLETED"
           [] raw.flow \in {"failed", "recheck"} -> "ESCALATED"
           [] raw.flow = "other" -> IF raw.instruction THEN "WAITING_USER" ELSE "ESCALATED"

\* A failed continuation starts the diagnosis again; a failure of that, words
\* about a technician, a repeated question or a third round escalate.
Diagnose(s) ==
    LET d == run.data
        rounds == IF s = "DIAGNOSTIC" THEN 1 ELSE d.rounds + 1
    IN
    /\ At_(Technical, s)
    /\ \/ Escalate(d)
       \/ \E raw \in Answers :
            CASE Normalized(raw) = "ESCALATED" -> Escalate(d)
              [] Normalized(raw) = "COMPLETED" -> Complete(d)
              [] Normalized(raw) = "WAITING_USER" ->
                   IF rounds > 2 THEN Escalate([d EXCEPT !.rounds = rounds])
                   ELSE WaitFor("WAITING_USER_DIAGNOSTIC", [d EXCEPT !.rounds = rounds], 0)
    /\ OnlyRun

Diagnostic == Diagnose("DIAGNOSTIC")
ContinueDiagnostic == Diagnose("WAITING_USER_DIAGNOSTIC")

-----------------------------------------------------------------------------
(* SALES and SALES_PACKAGES *)

\* resolvePurpose: the first one found stays.
SalesPurpose == IF run.data.purpose # "none" THEN run.data.purpose
                ELSE IF "upgrade" \in run.entities THEN "upgrade" ELSE "sales"

\* extractLocationFromInput, from the entities or the text.
Location == (run.entities \cup run.text) \cap {"address", "mapLocation"}

\* coverageService.checkLocation at the place given: without coverage an address
\* alone is asked again as a location, a location ends the case.
Located(d, place) ==
    \/ Continue("QUERY_PLANS", [d EXCEPT !.coverage = "yes"])
    \/ /\ "mapLocation" \notin place
       /\ WaitFor("WAITING_USER_LOCATION", [d EXCEPT !.coverage = "no"], 0)
    \/ /\ "mapLocation" \in place
       /\ Complete([d EXCEPT !.coverage = "no"])

CollectPreference ==
    LET d == [run.data EXCEPT !.purpose = SalesPurpose] IN
    /\ At_("SALES", "COLLECT_PREFERENCE")
    /\ \/ d.purpose = "upgrade" /\ Continue("QUERY_PLANS", d)
       \/ /\ d.purpose # "upgrade" /\ Location = {}
          /\ WaitFor("WAITING_USER_LOCATION", d, 0)
       \/ /\ d.purpose # "upgrade" /\ Location # {}
          /\ Located([d EXCEPT !.given = Location], Location)
    /\ OnlyRun

\* A later place completes the earlier one.
WaitingLocation ==
    LET place == run.data.given \cup Location IN
    /\ At_("SALES", "WAITING_USER_LOCATION")
    /\ Located([run.data EXCEPT !.given = place], place)
    /\ OnlyRun

QueryPlans ==
    /\ At_("SALES", "QUERY_PLANS")
    /\ \/ Continue("RESPOND_OFFER", run.data)
       \/ Escalate(run.data)
    /\ OnlyRun

\* With coverage a person closes the sale; an upgrade asks for a confirmation.
RespondOffer ==
    /\ At_("SALES", "RESPOND_OFFER")
    /\ IF run.data.coverage = "yes" THEN Escalate(run.data)
       ELSE IF run.data.purpose = "upgrade" THEN WaitFor("WAITING_USER_UPGRADE", run.data, 0)
       ELSE Complete(run.data)
    /\ OnlyRun

\* Any text is taken for a confirmation.
WaitingUpgrade == At_("SALES", "WAITING_USER_UPGRADE") /\ Escalate(run.data) /\ OnlyRun

-----------------------------------------------------------------------------
(* BILLING_BALANCE *)

\* mergePaymentFromEntities.
Merged(d) == [d EXCEPT !.given = @ \cup (run.entities \cap {"amount", "reference"})]
HasCompletePayment(d) == {"amount", "reference"} \subseteq d.given

\* resolvePurpose, on the data as merged.
BillingPurpose(d) ==
    IF d.purpose # "none" THEN d.purpose
    ELSE IF "methods" \in run.entities THEN "payment_methods"
    ELSE IF "record" \in run.entities \/ HasCompletePayment(Merged(d)) THEN "record_payment"
    ELSE "balance"

ForPayment == Merged([run.data EXCEPT !.purpose = BillingPurpose(run.data)])

\* The client is not asked for when the question is how to pay.
BillingMethods ==
    /\ ValidateAt(Money) /\ ForPayment.purpose = "payment_methods"
    /\ Continue("RESPOND_PAYMENT_METHODS", ForPayment) /\ OnlyRun

BillingReuse ==
    /\ ValidateAt(Money) /\ ForPayment.purpose # "payment_methods" /\ Reusable
    /\ Continue("CHECK_BALANCE", [ForPayment EXCEPT !.client = remembered]) /\ OnlyRun

BillingAskId ==
    /\ ValidateAt(Money) /\ ForPayment.purpose # "payment_methods" /\ ~Reusable
    /\ IdKnown = NoClient
    /\ WaitFor("WAITING_USER_CLIENT", ForPayment, 0) /\ OnlyRun

BillingLookup ==
    LET id == IdKnown
        d == [ForPayment EXCEPT !.client = id]
    IN
    /\ ValidateAt(Money) /\ ForPayment.purpose # "payment_methods" /\ ~Reusable
    /\ id # NoClient
    /\ \/ Escalate(d) /\ OnlyRun
       \/ Contracts[id] = 0 /\ NotFound(d) /\ OnlyRun
       \/ Contracts[id] > 0 /\ Continue("CHECK_BALANCE", d) /\ Remember(id)

\* The balance is asked for; a payment to record goes on, or waits for its data.
BillingBalance ==
    /\ At_(Money, "CHECK_BALANCE")
    /\ \/ Escalate(ForPayment)
       \/ /\ ForPayment.purpose = "record_payment"
          /\ IF HasCompletePayment(ForPayment) THEN Continue("RECORD_PAYMENT", ForPayment)
             ELSE WaitFor("WAITING_USER_RECEIPT", ForPayment, 0)
       \/ /\ ForPayment.purpose # "record_payment"
          /\ \E s \in {"RESPOND_NO_DEBT", "RESPOND_DEBT_WITH_OPTIONS"} : Continue(s, ForPayment)
    /\ OnlyRun

BillingRespond ==
    /\ \E s \in {"RESPOND_NO_DEBT", "RESPOND_DEBT_WITH_OPTIONS"} : At_(Money, s)
    /\ Complete(run.data) /\ OnlyRun

\* An amount that is no number passes the waiting step and is not kept.
WaitingReceipt ==
    LET read == {Merged([run.data EXCEPT !.purpose = "record_payment"]),
                 [Merged([run.data EXCEPT !.purpose = "record_payment"])
                    EXCEPT !.given = @ \ ({"amount"} \ run.data.given)]}
    IN
    /\ At_(Money, "WAITING_USER_RECEIPT")
    /\ \E d \in read : IF HasCompletePayment(d) THEN Continue("RECORD_PAYMENT", d)
                        ELSE WaitFor("WAITING_USER_RECEIPT", d, 0)
    /\ OnlyRun

RecordPayment ==
    /\ At_(Money, "RECORD_PAYMENT")
    /\ Complete(run.data) \/ Escalate(run.data)
    /\ OnlyRun

\* The attempts are neither reset nor counted.
RespondPaymentMethods ==
    /\ At_(Money, "RESPOND_PAYMENT_METHODS")
    /\ WaitFor("WAITING_USER_RECEIPT", run.data, run.tries) /\ OnlyRun

-----------------------------------------------------------------------------
(* HOME_RELOCATION; its client is known by name, not by contract *)

RelocationKnown ==
    /\ ValidateAt(Moving) /\ Identified(run.data)
    /\ Continue("GATHER_RELOCATION_DETAILS", run.data) /\ OnlyRun

RelocationReuse ==
    /\ ValidateAt(Moving) /\ ~Identified(run.data) /\ Reusable
    /\ Continue("GATHER_RELOCATION_DETAILS",
                [run.data EXCEPT !.client = remembered, !.contract = remembered])
    /\ OnlyRun

RelocationAskId ==
    /\ ValidateAt(Moving) /\ ~Identified(run.data) /\ ~Reusable
    /\ AskId(Moving)

RelocationLookup ==
    LET id == IdKnown
        d == [run.data EXCEPT !.client = id]
    IN
    /\ ValidateAt(Moving) /\ ~Identified(run.data) /\ ~Reusable /\ id # NoClient
    /\ \/ Escalate(d) /\ OnlyRun
       \/ Contracts[id] = 0 /\ NotFound(d) /\ OnlyRun
       \/ /\ Contracts[id] > 0
          /\ Continue("GATHER_RELOCATION_DETAILS", [d EXCEPT !.contract = id])
          /\ Remember(id)

\* What the entities give is taken; the text is searched by patterns that find
\* some of it.
GatherRelocationDetails ==
    /\ At_(Moving, "GATHER_RELOCATION_DETAILS")
    /\ \E found \in SUBSET (run.text \cap FieldsOf(Moving)) :
         LET d == [run.data EXCEPT !.given = @ \cup found
                                        \cup (run.entities \cap FieldsOf(Moving))]
         IN IF FieldsOf(Moving) \subseteq d.given
            THEN Continue("CREATE_TICKET_AND_ESCALATE", d)
            ELSE WaitFor("GATHER_RELOCATION_DETAILS", d, run.tries + 1)
    /\ OnlyRun

CreateTicketAndEscalate ==
    At_(Moving, "CREATE_TICKET_AND_ESCALATE") /\ Escalate(run.data) /\ OnlyRun

-----------------------------------------------------------------------------
(* GENERAL_INQUIRY *)

WantsUpgrade == run.data.purpose = "upgrade" \/ "upgrade" \in run.entities

\* A greeting is answered and waited on, thanks end the case, and the rest is a
\* question for the knowledge base.
QueryKnowledgeBase ==
    LET d == [run.data EXCEPT !.purpose = IF WantsUpgrade THEN "upgrade" ELSE @] IN
    /\ \E s \in {"QUERY_KNOWLEDGE_BASE", "WAITING_USER_INQUIRY"} : At_("GENERAL_INQUIRY", s)
    /\ \/ /\ "greeting" \in run.text
          /\ WaitFor("WAITING_USER_INQUIRY", run.data, run.tries)
       \/ "greeting" \notin run.text /\ "thanks" \in run.text /\ Complete(run.data)
       \/ /\ {"greeting", "thanks"} \cap run.text = {}
          /\ \/ Escalate(d)
             \/ Continue(IF WantsUpgrade THEN "WAITING_USER_SPECIALIST" ELSE "RESPOND_ANSWER", d)
    /\ OnlyRun

RespondAnswer == At_("GENERAL_INQUIRY", "RESPOND_ANSWER") /\ Complete(run.data) /\ OnlyRun

\* Reached in the loop, it takes the question itself for the confirmation.  A
\* refusal is looked for first.
WaitingUserSpecialist ==
    /\ At_("GENERAL_INQUIRY", "WAITING_USER_SPECIALIST")
    /\ IF "deny" \in run.text THEN Complete(run.data)
       ELSE IF "confirm" \in run.text THEN Escalate(run.data)
       ELSE WaitFor("WAITING_USER_SPECIALIST", run.data, 0)
    /\ OnlyRun

-----------------------------------------------------------------------------
(* The end of AdvanceCase *)

\* Somebody else moves the case: an agent takes it, or it is closed.
Taken ==
    /\ standing \in {"ACTIVE", "WAITING_USER"}
    /\ \E st \in {"HUMAN_ACTIVE", "CANCELLED"} : standing' = st
    /\ run' = [run EXCEPT !.stale = run.on]
    /\ UNCHANGED <<workflow, saved, pointed, remembered, known, borrowed>>

\* applyTransition with the version read at the start, then the pointer of the
\* conversation; the loop that found no end leaves the case ACTIVE.
Store ==
    LET end == IF run.outcome = "none" THEN "ACTIVE" ELSE run.outcome IN
    /\ run.on /\ ~run.stale
    /\ run.outcome # "none" \/ run.steps = MaxStepsPerRun
    /\ saved' = [state |-> run.state, data |-> run.data, tries |-> run.tries]
    /\ standing' = end
    /\ pointed' = CASE end = "WAITING_USER" -> TRUE
                     [] end \in {"COMPLETED", "ESCALATED"} -> FALSE
                     [] end = "ACTIVE" -> pointed
    /\ run' = Idle
    /\ UNCHANGED <<workflow, remembered, known, borrowed>>

\* The version moved: the call throws, and only the identity it stored stays.
Conflict ==
    /\ run.on /\ run.stale
    /\ run.outcome # "none" \/ run.steps = MaxStepsPerRun
    /\ run' = Idle
    /\ UNCHANGED <<workflow, saved, standing, pointed, remembered, known, borrowed>>

-----------------------------------------------------------------------------
(* Agents refresh the data of the case, in any status (SyncCaseData,          *)
(* SyncCaseBalance, TriggerCaseDiagnostic).  Each reads the case, asks the    *)
(* ISP and stores with the version it read: it takes effect as one step, and  *)
(* the run in progress becomes stale.  A run reads nothing of the stored case *)
(* after its start, so a change of data during a run is SyncCaseBalance,      *)
(* which changes no data kept here, followed by the change after the run.     *)

Refresh(d) ==
    /\ ~run.on
    /\ saved' = [saved EXCEPT !.data = d]
    /\ UNCHANGED <<workflow, standing, pointed, remembered, known, run>>

\* The contracts stored for the customer the conversation points to.
Stored == IF remembered # NoClient /\ known[remembered] > 0 THEN {remembered} ELSE {}

\* BILLING_BALANCE goes by the client alone: its contract is not kept here.
UsesContract == workflow # Money

\* The id of the case, or that of the customer the conversation points to.
OfficeId == IF saved.data.client # NoClient THEN saved.data.client ELSE remembered

\* VALIDATE_CLIENT finds the contract the case has, or else the first one.
SyncCaseData ==
    /\ "sync" \in Office /\ OfficeId # NoClient
    /\ Refresh([saved.data EXCEPT !.client = OfficeId,
                                  !.contract = IF Contracts[OfficeId] > 0 /\ UsesContract THEN OfficeId
                                               ELSE @])
    /\ UNCHANGED borrowed

\* VALIDATE_CLIENT fails and CHECK_BALANCE does not: a case without a contract
\* gets one of those stored for the customer of the conversation.
SyncFromStored ==
    /\ "stored" \in Office /\ UsesContract /\ OfficeId # NoClient /\ saved.data.contract = NoClient
    /\ \E c \in Stored :
         /\ Refresh([saved.data EXCEPT !.client = OfficeId, !.contract = c])
         /\ borrowed' = TRUE

SyncCaseBalance ==
    /\ "balance" \in Office /\ OfficeId # NoClient
    /\ run' = [run EXCEPT !.stale = run.on]
    /\ UNCHANGED <<workflow, saved, standing, pointed, remembered, known, borrowed>>

\* The diagnosis of an agent replaces that of the workflow, rounds included; a
\* case without a contract gets a stored one here too.
TriggerCaseDiagnostic ==
    /\ "diagnose" \in Office /\ UsesContract
    /\ IF saved.data.contract # NoClient
       THEN Refresh([saved.data EXCEPT !.rounds = 0]) /\ UNCHANGED borrowed
       ELSE \E c \in Stored : /\ Refresh([saved.data EXCEPT !.contract = c, !.rounds = 0])
                              /\ borrowed' = TRUE

Receive == \E msg \in WorkflowMessages : \/ FirstMessage(msg) \/ CorrectId(msg) \/ Guardrail(msg)
                                   \/ Incomplete(msg) \/ Answered(msg)

Handler ==
    \/ SupportKnown \/ SupportReuse \/ SupportAskId \/ SupportLookup \/ Disambiguate
    \/ CheckClientStatus \/ SupportBalance \/ RespondDebt \/ Diagnostic \/ ContinueDiagnostic
    \/ CollectPreference \/ WaitingLocation \/ QueryPlans \/ RespondOffer \/ WaitingUpgrade
    \/ BillingMethods \/ BillingReuse \/ BillingAskId \/ BillingLookup \/ BillingBalance
    \/ BillingRespond \/ WaitingReceipt \/ RecordPayment \/ RespondPaymentMethods
    \/ RelocationKnown \/ RelocationReuse \/ RelocationAskId \/ RelocationLookup
    \/ GatherRelocationDetails \/ CreateTicketAndEscalate
    \/ QueryKnowledgeBase \/ RespondAnswer \/ WaitingUserSpecialist

OfficeStep == SyncCaseData \/ SyncFromStored \/ SyncCaseBalance \/ TriggerCaseDiagnostic

WorkflowsNext == Receive \/ Handler \/ OfficeStep \/ Taken \/ Store \/ Conflict

WorkflowsSpec == WorkflowsInit /\ [][WorkflowsNext]_wfVars

-----------------------------------------------------------------------------
(* Properties *)

Fields == UNION {FieldsOf(w) : w \in WorkflowTypes}

Datum == [client : Clients \cup {NoClient}, contract : Clients \cup {NoClient},
          pending : Clients \cup {NoClient}, ip : BOOLEAN, rounds : 0..3,
          purpose : {"none", "sales", "upgrade", "balance", "record_payment", "payment_methods"},
          coverage : {"unknown", "yes", "no"}, given : SUBSET Fields]

\* Types of the variables.
WorkflowsTypeOK ==
    /\ workflow \in WorkflowTypes
    /\ saved.data \in Datum /\ saved.tries \in 0..4
    /\ standing \in {"ACTIVE", "WAITING_USER", "COMPLETED", "ESCALATED", "HUMAN_ACTIVE",
                     "CANCELLED"}
    /\ pointed \in BOOLEAN /\ borrowed \in BOOLEAN
    /\ remembered \in Clients \cup {NoClient} /\ known \in [Clients -> 0..2]
    /\ run.data \in Datum /\ run.tries \in 0..5 /\ run.steps \in 0..MaxStepsPerRun
    /\ run.id \in Clients \cup {NoClient} /\ run.entities \subseteq Fields \cup {"answer", "nationalId"}

\* Whatever ids the customer types and corrects, the contract that is diagnosed,
\* and the contracts on offer, are those of the client of the case, unless an
\* agent's action fell back on the contracts of the conversation.
ContractOfClient ==
    borrowed \/ \A d \in {saved.data, run.data} :
      d.contract \in {NoClient, d.client} /\ d.pending \in {NoClient, d.client}

\* Every run of the engine ends by an outcome of a handler, never by the limit of
\* steps, which would leave the case ACTIVE without an answer; and a case that waits
\* is the active case of its conversation, in a state with a waiting step and at most
\* as many failed attempts as the step allows: the next message is answered by a
\* handler or counted towards the escalation.  (As many, not fewer: an id corrected
\* while contracts are on offer keeps the attempts spent on choosing one.)
WaitsWithinLimits ==
    /\ run.steps < MaxStepsPerRun
    /\ standing = "WAITING_USER" =>
         /\ saved.state \in DOMAIN StepsOf(workflow)
         /\ saved.tries <= StepsOf(workflow)[saved.state].max
         /\ pointed
=============================================================================
