-------------------------- MODULE WorkflowsProofs --------------------------
(***************************************************************************)
(* Theorems about the workflows of a case: the contract in its data is one *)
(* of the client in its data, and a case that waits can be answered, for   *)
(* any set of clients and contracts, agents' actions and order of events.  *)
(***************************************************************************)
EXTENDS Workflows, TLAPS
-----------------------------------------------------------------------------
(* Workflows: what holds between the steps of a run *)

\* The states the handlers are at, by the number of handlers that may come before.
FirstStates ==
    {"VALIDATE_CLIENT", "COLLECT_PREFERENCE", "QUERY_KNOWLEDGE_BASE", "WAITING_USER_DISAMBIGUATE",
     "WAITING_USER_DIAGNOSTIC", "WAITING_USER_CLIENT", "WAITING_USER_LOCATION", "WAITING_USER_UPGRADE",
     "WAITING_USER_RECEIPT", "WAITING_USER_INQUIRY"}
SecondStates ==
    {"CHECK_CLIENT_STATUS", "QUERY_PLANS", "RESPOND_PAYMENT_METHODS", "GATHER_RELOCATION_DETAILS",
     "RESPOND_ANSWER", "WAITING_USER_SPECIALIST"}
ThirdStates == {"CHECK_BALANCE", "RESPOND_OFFER", "CREATE_TICKET_AND_ESCALATE"}
LastStates ==
    {"RESPOND_DEBT", "DIAGNOSTIC", "RESPOND_NO_DEBT", "RESPOND_DEBT_WITH_OPTIONS", "RECORD_PAYMENT"}
States == FirstStates \cup SecondStates \cup ThirdStates \cup LastStates

Near(s, n) == /\ s \in FirstStates => n = 0
              /\ s \in SecondStates => n <= 1
              /\ s \in ThirdStates => n <= 2
              /\ n <= 3

Run == [on : BOOLEAN, state : States \cup {"none"}, data : Datum, tries : 0..4, id : Clients \cup {NoClient},
        text : SUBSET Fields, entities : SUBSET (Fields \cup {"answer", "nationalId"}),
        steps : 0..3, outcome : {"none", "WAITING_USER", "COMPLETED", "ESCALATED"}, stale : BOOLEAN]
Saved == [state : States, data : Datum, tries : 0..4]

\* Contracts are on offer only while one is to be chosen, by a client who is known,
\* and a question about a balance knows none.
Good(s, d) == /\ d \in Datum
              /\ d.pending # NoClient => s = "WAITING_USER_DISAMBIGUATE"
              /\ s = "WAITING_USER_DISAMBIGUATE" => d.client # NoClient
              /\ workflow = Money => d.contract = NoClient
              /\ borrowed \/ (d.contract \in {NoClient, d.client} /\ d.pending \in {NoClient, d.client})

\* A customer may wait there, with n attempts spent; all of them only where the
\* national id is asked for, after one that was given instead of an option.
Asks(s, n) == /\ s \in DOMAIN StepsOf(workflow) /\ n <= StepsOf(workflow)[s].max
              /\ s # "WAITING_USER_CLIENT" => n < StepsOf(workflow)[s].max

\* What a step may leave of a run, by its outcome.
RunEnds(s, d, n, steps, outcome) ==
    /\ s \in States /\ Good(s, d) /\ n \in 0..4
    /\ outcome = "none" => Near(s, steps) /\ n <= 2 /\ (workflow # Technical => n = 0)
    /\ outcome \in {"none", "WAITING_USER"} => d.rounds <= 2
    /\ outcome = "WAITING_USER" => Asks(s, n)

RunInv == run \in Run /\ IF run.on THEN RunEnds(run.state, run.data, run.tries, run.steps, run.outcome) ELSE run = Idle

SavedInv ==
    /\ saved \in Saved /\ Good(saved.state, saved.data)
    /\ standing \in {"ACTIVE", "WAITING_USER"} => saved.data.rounds <= 2
    /\ standing = "ACTIVE" => saved.state = InitialState(workflow) /\ saved.tries = 0
    /\ standing = "WAITING_USER" => Asks(saved.state, saved.tries) /\ pointed

CaseTypes ==
    /\ workflow \in WorkflowTypes /\ pointed \in BOOLEAN
    /\ standing \in {"ACTIVE", "WAITING_USER", "COMPLETED", "ESCALATED", "HUMAN_ACTIVE", "CANCELLED"}
    /\ remembered \in Clients \cup {NoClient} /\ known \in [Clients -> 0..2]

EngineInv == borrowed \in BOOLEAN /\ CaseTypes /\ RunInv /\ SavedInv

LEMMA NationalIds == Contracts \in [Clients -> 0..2] /\ NoClient \notin Clients
  BY ClientsAssumption

LEMMA FieldsAre ==
    /\ \A w \in WorkflowTypes : FieldsOf(w) \subseteq Fields
    /\ {"amount", "reference", "address", "mapLocation"} \subseteq Fields
  <1>1. \A w \in WorkflowTypes : FieldsOf(w) \subseteq Fields
    BY DEF Fields
  <1>2. FieldsOf(Money) \subseteq Fields /\ FieldsOf("SALES") \subseteq Fields
    BY <1>1 DEF WorkflowTypes, Money
  <1>3. {"amount", "reference"} \subseteq FieldsOf(Money) /\ {"address", "mapLocation"} \subseteq FieldsOf("SALES")
    BY DEF FieldsOf, Money, Technical, Moving
  <1> QED  BY <1>1, <1>2, <1>3

\* The waiting steps of each workflow, and the attempts they allow.
LEMMA StepsAre ==
    ASSUME workflow \in WorkflowTypes
    PROVE  /\ \A s \in DOMAIN StepsOf(workflow) :
                /\ s \in FirstStates \cup SecondStates /\ StepsOf(workflow)[s].max \in 2..4
                /\ s = "WAITING_USER_DISAMBIGUATE" => StepsOf(workflow)[s].max = 3 /\ workflow = Technical
           /\ workflow \in Identifying => Asks("WAITING_USER_CLIENT", 3)
           /\ workflow = Technical => Asks("WAITING_USER_DISAMBIGUATE", 0) /\ Asks("WAITING_USER_DIAGNOSTIC", 0)
           /\ workflow = "SALES" => Asks("WAITING_USER_LOCATION", 0) /\ Asks("WAITING_USER_UPGRADE", 0)
           /\ workflow = Money => Asks("WAITING_USER_RECEIPT", 0)
           /\ workflow = Moving => Asks("GATHER_RELOCATION_DETAILS", 1)
           /\ workflow = "GENERAL_INQUIRY" => Asks("WAITING_USER_INQUIRY", 0) /\ Asks("WAITING_USER_SPECIALIST", 0)
  <1>1. CASE workflow = Technical
    BY <1>1 DEF StepsOf, SupportSteps, AskClient, Step, Asks, FirstStates, SecondStates, Identifying, Technical, Money, Moving
  <1>2. CASE workflow = "SALES"
    BY <1>2 DEF StepsOf, SalesSteps, Step, Asks, FirstStates, SecondStates, Identifying, Technical, Money, Moving
  <1>3. CASE workflow = Money
    BY <1>3 DEF StepsOf, BillingSteps, AskClient, Step, Asks, FirstStates, SecondStates, Identifying, Technical, Money, Moving
  <1>4. CASE workflow = Moving
    BY <1>4 DEF StepsOf, RelocationSteps, AskClient, Step, Asks, FirstStates, SecondStates, Identifying, Technical, Money, Moving
  <1>5. CASE workflow = "GENERAL_INQUIRY"
    BY <1>5 DEF StepsOf, InquirySteps, Step, Asks, FirstStates, SecondStates, Identifying, Technical, Money, Moving
  <1> QED  BY <1>1, <1>2, <1>3, <1>4, <1>5 DEF WorkflowTypes, Technical, Money, Moving

\* A step of the run: the stored case is left alone.
LEMMA RunKeeps ==
    ASSUME EngineInv, OnlyRun, run' \in Run, run'.on,
           RunEnds(run'.state, run'.data, run'.tries, run'.steps, run'.outcome)
    PROVE  EngineInv'
  BY DEF EngineInv, OnlyRun, CaseTypes, RunInv, SavedInv, RunEnds, Good, Asks, Near

\* A step of the run that stores who writes.
LEMMA RememberKeeps ==
    ASSUME EngineInv, UNCHANGED <<workflow, saved, standing, pointed, borrowed>>,
           remembered' \in Clients \cup {NoClient}, known' \in [Clients -> 0..2], run' \in Run, run'.on,
           RunEnds(run'.state, run'.data, run'.tries, run'.steps, run'.outcome)
    PROVE  EngineInv'
  BY DEF EngineInv, CaseTypes, RunInv, SavedInv, RunEnds, Good, Asks, Near

\* What a handler starts from.
LEMMA HandlerAt ==
    ASSUME EngineInv, NEW w, NEW s, At_(w, s)
    PROVE  /\ run \in Run /\ run.on /\ run.outcome = "none" /\ run.state = s /\ workflow = w /\ w \in WorkflowTypes
           /\ s \in States /\ run.data \in Datum /\ Good(s, run.data) /\ run.data.rounds <= 2
           /\ run.tries \in 0..2 /\ (w # Technical => run.tries = 0) /\ run.steps \in 0..3 /\ Near(s, run.steps)
           /\ run.id \in Clients \cup {NoClient} /\ run.text \subseteq Fields
  BY DEF EngineInv, CaseTypes, RunInv, At_, RunEnds, Good, Run

LEMMA ContinueEnds ==
    ASSUME run \in Run, run.on, run.outcome = "none", run.tries <= 2, workflow # Technical => run.tries = 0,
           NEW s \in States, NEW d \in Datum, Good(s, d), d.rounds <= 2, Near(s, run.steps + 1), Continue(s, d)
    PROVE  /\ run' \in Run /\ run'.on
           /\ RunEnds(run'.state, run'.data, run'.tries, run'.steps, run'.outcome)
  <1>1. /\ run' \in Run /\ run'.on /\ run'.state = s /\ run'.data = d /\ run'.tries = run.tries
        /\ run'.steps = run.steps + 1 /\ run'.outcome = "none"
    <2>1. run.steps \in 0..3 /\ run.steps + 1 \in 0..3
      BY DEF Run, Near
    <2>2. run' = [run EXCEPT !.state = s, !.data = d, !.id = NoClient, !.entities = {}, !.steps = run.steps + 1]
      BY DEF Continue
    <2> QED  BY <2>1, <2>2 DEF Run
  <1> QED  BY <1>1 DEF RunEnds, Run

LEMMA WaitEnds ==
    ASSUME run \in Run, run.on, NEW s \in States, NEW d \in Datum, NEW n, n \in 0..4, Good(s, d), d.rounds <= 2,
           Asks(s, n), WaitFor(s, d, n)
    PROVE  /\ run' \in Run /\ run'.on
           /\ RunEnds(run'.state, run'.data, run'.tries, run'.steps, run'.outcome)
  <1>1. /\ run' \in Run /\ run'.on /\ run'.state = s /\ run'.data = d /\ run'.tries = n
        /\ run'.outcome = "WAITING_USER"
    BY DEF WaitFor, Run
  <1> QED  BY <1>1 DEF RunEnds, Run

LEMMA OverEnds ==
    ASSUME run \in Run, run.on, run.state \in States, NEW d \in Datum, Good(run.state, d), Complete(d) \/ Escalate(d)
    PROVE  /\ run' \in Run /\ run'.on
           /\ RunEnds(run'.state, run'.data, run'.tries, run'.steps, run'.outcome)
  <1>1. /\ run' \in Run /\ run'.on /\ run'.state = run.state /\ run'.data = d /\ run'.tries = run.tries
        /\ run'.outcome \in {"COMPLETED", "ESCALATED"}
    BY DEF Complete, Escalate, Run
  <1> QED  BY <1>1 DEF RunEnds, Run

-----------------------------------------------------------------------------
(* Workflows: the handlers *)

LEMMA GoesOn ==
    ASSUME EngineInv, OnlyRun, NEW w, NEW s, At_(w, s), NEW to \in States, NEW d, Good(to, d), d.rounds <= 2,
           Near(to, run.steps + 1), Continue(to, d)
    PROVE  EngineInv'
  <1>1. d \in Datum
    BY DEF Good
  <1> QED  BY <1>1, HandlerAt, ContinueEnds, RunKeeps

LEMMA Waits ==
    ASSUME EngineInv, OnlyRun, NEW w, NEW s, At_(w, s), NEW to, NEW d, NEW n, n \in 0..4, Good(to, d), d.rounds <= 2,
           Asks(to, n), WaitFor(to, d, n)
    PROVE  EngineInv'
  <1>1. d \in Datum
    BY DEF Good
  <1>2. to \in States
    <2>1. workflow \in WorkflowTypes
      BY DEF EngineInv, CaseTypes
    <2> QED  BY <2>1, StepsAre DEF Asks, States
  <1>3. run \in Run /\ run.on
    BY HandlerAt
  <1> QED  BY <1>1, <1>2, <1>3, WaitEnds, RunKeeps

LEMMA IsOver ==
    ASSUME EngineInv, OnlyRun, NEW w, NEW s, At_(w, s), NEW d, Good(s, d), Complete(d) \/ Escalate(d)
    PROVE  EngineInv'
  <1>1. d \in Datum
    BY DEF Good
  <1>2. run \in Run /\ run.on /\ run.state = s /\ s \in States
    BY HandlerAt
  <1> QED  BY <1>1, <1>2, OverEnds, RunKeeps

\* The handlers that end whatever the data are.
LEMMA EndingKeeps ==
    ASSUME EngineInv, RespondDebt \/ WaitingUpgrade \/ BillingRespond \/ RecordPayment \/ CreateTicketAndEscalate \/ RespondAnswer
    PROVE  EngineInv'
  <1>1. \E w \in WorkflowTypes, s \in States : At_(w, s) /\ (Complete(run.data) \/ Escalate(run.data)) /\ OnlyRun
    <2>1. PICK w \in {Technical, "SALES", Money, Moving, "GENERAL_INQUIRY"},
               s \in {"RESPOND_DEBT", "WAITING_USER_UPGRADE", "RESPOND_NO_DEBT", "RESPOND_DEBT_WITH_OPTIONS", "RECORD_PAYMENT",
                      "CREATE_TICKET_AND_ESCALATE", "RESPOND_ANSWER"} :
             At_(w, s) /\ (Complete(run.data) \/ Escalate(run.data)) /\ OnlyRun
      BY DEF RespondDebt, WaitingUpgrade, BillingRespond, RecordPayment, CreateTicketAndEscalate, RespondAnswer
    <2> QED  BY <2>1, HandlerAt
  <1>2. PICK w \in WorkflowTypes, s \in States : At_(w, s) /\ (Complete(run.data) \/ Escalate(run.data)) /\ OnlyRun
    BY <1>1
  <1>3. Good(s, run.data)
    BY <1>2, HandlerAt
  <1> QED  BY <1>2, <1>3, IsOver

\* Where the client is looked for nothing is on offer, and no handler has come before.
LEMMA Validating ==
    ASSUME EngineInv, NEW w, ValidateAt(w)
    PROVE  \E s \in FirstStates :
             /\ s # "WAITING_USER_DISAMBIGUATE" /\ At_(w, s) /\ run.data.pending = NoClient /\ run.steps = 0 /\ workflow = w /\ w \in WorkflowTypes
             /\ run \in Run /\ run.on /\ run.outcome = "none" /\ run.state = s /\ s \in States
             /\ run.data \in Datum /\ run.data.rounds <= 2 /\ run.tries \in 0..2
             /\ run.tries <= 2 /\ (w # Technical => run.tries = 0) /\ IdKnown \in Clients \cup {NoClient}
             /\ \A to : to # "WAITING_USER_DISAMBIGUATE" => Good(to, run.data)
  <1>1. PICK s \in {"VALIDATE_CLIENT", "WAITING_USER_CLIENT"} : At_(w, s)
    BY DEF ValidateAt
  <1>2. s \in FirstStates /\ s # "WAITING_USER_DISAMBIGUATE"
    BY DEF FirstStates
  <1>3. /\ run \in Run /\ run.on /\ run.outcome = "none" /\ run.state = s /\ workflow = w /\ w \in WorkflowTypes
        /\ s \in States /\ run.data \in Datum /\ Good(s, run.data) /\ run.data.rounds <= 2
        /\ run.tries \in 0..2 /\ (w # Technical => run.tries = 0) /\ run.steps \in 0..3 /\ Near(s, run.steps)
        /\ run.id \in Clients \cup {NoClient}
    BY <1>1, HandlerAt
  <1>4. run.data.pending = NoClient /\ run.steps = 0
    BY <1>2, <1>3 DEF Good, Near
  <1>5. IdKnown \in Clients \cup {NoClient}
    BY <1>3 DEF IdKnown, Datum
  <1>6. ASSUME NEW to, to # "WAITING_USER_DISAMBIGUATE" PROVE Good(to, run.data)
    BY <1>3, <1>4, <1>6 DEF Good
  <1>7. run.tries <= 2
    BY <1>3
  <1> QED  BY <1>1, <1>2, <1>3, <1>4, <1>5, <1>6, <1>7

LEMMA AskIdKeeps ==
    ASSUME EngineInv, SupportAskId \/ RelocationAskId
    PROVE  EngineInv'
  <1>1. PICK w \in {Technical, Moving} : ValidateAt(w) /\ AskId(w)
    BY DEF SupportAskId, RelocationAskId
  <1>2. PICK s \in FirstStates : /\ At_(w, s) /\ workflow = w /\ w \in WorkflowTypes /\ run.data.rounds <= 2
                                 /\ Good("WAITING_USER_CLIENT", run.data)
    BY <1>1, Validating
  <1>3. Asks("WAITING_USER_CLIENT", 0)
    BY <1>1, <1>2, StepsAre DEF Identifying, Asks
  <1>4. WaitFor("WAITING_USER_CLIENT", run.data, 0) /\ OnlyRun
    BY <1>1 DEF AskId
  <1> QED  BY <1>2, <1>3, <1>4, Waits

LEMMA KnownKeeps ==
    ASSUME EngineInv, SupportKnown \/ RelocationKnown
    PROVE  EngineInv'
  <1>1. PICK w \in {Technical, Moving}, to \in SecondStates : ValidateAt(w) /\ Continue(to, run.data) /\ OnlyRun
    BY DEF SupportKnown, RelocationKnown, SecondStates
  <1>2. PICK s \in FirstStates : /\ At_(w, s) /\ run.data.rounds <= 2 /\ run.steps = 0
                                 /\ Good(to, run.data)
    BY <1>1, Validating DEF SecondStates
  <1>3. to \in States /\ Near(to, run.steps + 1)
    BY <1>2 DEF States, Near, FirstStates, SecondStates, ThirdStates
  <1> QED  BY <1>1, <1>2, <1>3, GoesOn

LEMMA SupportReuseKeeps ==
    ASSUME EngineInv, SupportReuse
    PROVE  EngineInv'
  <1> DEFINE d == [run.data EXCEPT !.client = remembered, !.contract = remembered, !.pending = NoClient, !.ip = FALSE]
  <1>1. PICK s \in FirstStates : /\ At_(Technical, s) /\ run.data.rounds <= 2 /\ run.steps = 0 /\ run.data \in Datum
                                 /\ workflow = Technical
    BY Validating DEF SupportReuse
  <1>2. remembered \in Clients \cup {NoClient}
    BY DEF EngineInv, CaseTypes
  <1>3. d \in Datum /\ d.pending = NoClient /\ d.contract = remembered /\ d.client = remembered /\ d.rounds = run.data.rounds
    BY <1>1, <1>2 DEF Datum
  <1>4. Continue("CHECK_CLIENT_STATUS", d) /\ OnlyRun
    BY DEF SupportReuse
  <1>5. "CHECK_CLIENT_STATUS" \in States /\ Near("CHECK_CLIENT_STATUS", run.steps + 1)
    BY <1>1 DEF States, Near, FirstStates, SecondStates, ThirdStates
  <1> HIDE DEF d
  <1>6. Good("CHECK_CLIENT_STATUS", d)
    BY <1>1, <1>3 DEF Good, Technical, Money
  <1> QED  BY <1>1, <1>3, <1>4, <1>5, <1>6, GoesOn

LEMMA RelocationReuseKeeps ==
    ASSUME EngineInv, RelocationReuse
    PROVE  EngineInv'
  <1> DEFINE d == [run.data EXCEPT !.client = remembered, !.contract = remembered]
  <1>1. PICK s \in FirstStates : /\ At_(Moving, s) /\ run.data.rounds <= 2 /\ run.steps = 0 /\ run.data \in Datum
                                 /\ workflow = Moving /\ run.data.pending = NoClient
    BY Validating DEF RelocationReuse
  <1>2. remembered \in Clients \cup {NoClient}
    BY DEF EngineInv, CaseTypes
  <1>3. d \in Datum /\ d.pending = NoClient /\ d.contract = remembered /\ d.client = remembered /\ d.rounds = run.data.rounds
    BY <1>1, <1>2 DEF Datum
  <1>4. Continue("GATHER_RELOCATION_DETAILS", d) /\ OnlyRun
    BY DEF RelocationReuse
  <1>5. "GATHER_RELOCATION_DETAILS" \in States /\ Near("GATHER_RELOCATION_DETAILS", run.steps + 1)
    BY <1>1 DEF States, Near, FirstStates, SecondStates, ThirdStates
  <1> HIDE DEF d
  <1>6. Good("GATHER_RELOCATION_DETAILS", d)
    BY <1>1, <1>3 DEF Good, Moving, Money
  <1> QED  BY <1>1, <1>3, <1>4, <1>5, <1>6, GoesOn

\* The client is remembered with one contract more, or none more.
LEMMA RememberIs ==
    ASSUME EngineInv, NEW c \in Clients, Remember(c)
    PROVE  /\ remembered' \in Clients \cup {NoClient} /\ known' \in [Clients -> 0..2]
           /\ UNCHANGED <<workflow, saved, standing, pointed, borrowed>>
  <1>1. known \in [Clients -> 0..2] /\ Contracts[c] \in 0..2
    BY NationalIds DEF EngineInv, CaseTypes
  <1>2. PICK n \in 1..Contracts[c] : known' = [known EXCEPT ![c] = n]
    BY DEF Remember
  <1>3. n \in 0..2
    BY <1>1, <1>2
  <1> QED  BY <1>1, <1>2, <1>3 DEF Remember

LEMMA NotFoundKeeps ==
    ASSUME EngineInv, NEW w \in Identifying, ValidateAt(w), NEW d \in Datum, d.pending = NoClient, borrowed \/ d.contract = NoClient,
           w = Money => d.contract = NoClient, d.rounds <= 2, NotFound(d), OnlyRun
    PROVE  EngineInv'
  <1> DEFINE e == [d EXCEPT !.client = NoClient]
  <1>1. PICK s \in FirstStates : At_(w, s) /\ workflow = w /\ w \in WorkflowTypes /\ run.tries \in 0..2
    BY Validating
  <1>2. e \in Datum /\ e.pending = NoClient /\ e.contract = d.contract /\ e.rounds = d.rounds
    BY DEF Datum
  <1>3. Asks("WAITING_USER_CLIENT", run.tries + 1) /\ run.tries + 1 \in 0..4
    <2>1. Asks("WAITING_USER_CLIENT", 3) /\ \A s2 \in DOMAIN StepsOf(workflow) : StepsOf(workflow)[s2].max \in 2..4
      BY <1>1, StepsAre
    <2> QED  BY <1>1, <2>1 DEF Asks
  <1>4. WaitFor("WAITING_USER_CLIENT", e, run.tries + 1)
    BY DEF NotFound
  <1> HIDE DEF e
  <1>5. Good("WAITING_USER_CLIENT", e)
    BY <1>1, <1>2 DEF Good
  <1> QED  BY <1>1, <1>2, <1>3, <1>4, <1>5, Waits

\* A handler that has stored who writes goes on.
LEMMA KnowingGoesOn ==
    ASSUME EngineInv, NEW c \in Clients, Remember(c), NEW w, NEW s, At_(w, s), NEW to \in States, NEW d, Good(to, d),
           d.rounds <= 2, Near(to, run.steps + 1), Continue(to, d)
    PROVE  EngineInv'
  <1>1. d \in Datum
    BY DEF Good
  <1>2. /\ run' \in Run /\ run'.on
        /\ RunEnds(run'.state, run'.data, run'.tries, run'.steps, run'.outcome)
    BY <1>1, HandlerAt, ContinueEnds
  <1> QED  BY <1>2, RememberIs, RememberKeeps

LEMMA SupportLookupKeeps ==
    ASSUME EngineInv, SupportLookup
    PROVE  EngineInv'
  <1> DEFINE d == [run.data EXCEPT !.client = IdKnown]
  <1>1. PICK s \in FirstStates :
          /\ At_(Technical, s) /\ run.data.rounds <= 2 /\ run.steps = 0 /\ run.data \in Datum /\ workflow = Technical
          /\ run.data.pending = NoClient /\ IdKnown \in Clients \cup {NoClient} /\ Good("WAITING_USER_CLIENT", run.data)
          /\ s # "WAITING_USER_DISAMBIGUATE" /\ Technical \in WorkflowTypes /\ run \in Run /\ run.on
    BY Validating DEF SupportLookup
  <1>2. IdKnown \in Clients /\ ValidateAt(Technical)
    BY <1>1 DEF SupportLookup
  <1>3. /\ d \in Datum /\ d.pending = NoClient /\ d.client = IdKnown /\ d.contract = run.data.contract
        /\ d.rounds = run.data.rounds
    BY <1>1 DEF Datum
  <1>4. borrowed \/ run.data.contract = NoClient
    BY <1>1 DEF SupportLookup, Identified, Good
  <1>5. \/ Escalate(d) /\ OnlyRun
        \/ Contracts[IdKnown] = 0 /\ NotFound(d) /\ OnlyRun
        \/ /\ Contracts[IdKnown] > 1 /\ WaitFor("WAITING_USER_DISAMBIGUATE", [d EXCEPT !.pending = IdKnown], 0)
           /\ remembered' = IdKnown /\ known' = [known EXCEPT ![IdKnown] = Contracts[IdKnown]]
           /\ UNCHANGED <<workflow, saved, standing, pointed, borrowed>>
        \/ /\ \E ip \in BOOLEAN : Continue("CHECK_CLIENT_STATUS", [d EXCEPT !.contract = IdKnown, !.pending = NoClient, !.ip = ip])
           /\ Remember(IdKnown)
    BY DEF SupportLookup
  <1> HIDE DEF d
  <1>6. Good(s, d)
    BY <1>1, <1>3, <1>4 DEF Good, Technical, Money
  <1>7. CASE Escalate(d) /\ OnlyRun
    BY <1>1, <1>6, <1>7, IsOver
  <1>8. CASE NotFound(d) /\ OnlyRun
    BY <1>1, <1>2, <1>3, <1>4, <1>8, NotFoundKeeps DEF Identifying, Technical, Money
  <1>9. CASE /\ WaitFor("WAITING_USER_DISAMBIGUATE", [d EXCEPT !.pending = IdKnown], 0)
             /\ remembered' = IdKnown /\ known' = [known EXCEPT ![IdKnown] = Contracts[IdKnown]]
             /\ UNCHANGED <<workflow, saved, standing, pointed, borrowed>>
    <2> DEFINE e == [d EXCEPT !.pending = IdKnown]
    <2>1. e \in Datum /\ e.pending = IdKnown /\ e.contract = d.contract /\ e.client = IdKnown /\ e.rounds = d.rounds
      BY <1>2, <1>3 DEF Datum
    <2>2. WaitFor("WAITING_USER_DISAMBIGUATE", e, 0)
      BY <1>9
    <2> HIDE DEF e
    <2>3. Good("WAITING_USER_DISAMBIGUATE", e) /\ e.rounds <= 2
      BY <1>1, <1>2, <1>3, <1>4, <2>1, NationalIds DEF Good, Technical, Money
    <2>4. Asks("WAITING_USER_DISAMBIGUATE", 0) /\ "WAITING_USER_DISAMBIGUATE" \in States
      BY <1>1, StepsAre DEF States, FirstStates
    <2>5. /\ run' \in Run /\ run'.on
          /\ RunEnds(run'.state, run'.data, run'.tries, run'.steps, run'.outcome)
      BY <1>1, <2>1, <2>2, <2>3, <2>4, WaitEnds
    <2>6. known' \in [Clients -> 0..2] /\ remembered' \in Clients \cup {NoClient}
      BY <1>2, <1>9, NationalIds DEF EngineInv, CaseTypes
    <2> QED  BY <1>9, <2>5, <2>6, RememberKeeps
  <1>10. ASSUME NEW ip \in BOOLEAN, Remember(IdKnown),
                Continue("CHECK_CLIENT_STATUS", [d EXCEPT !.contract = IdKnown, !.pending = NoClient, !.ip = ip])
         PROVE  EngineInv'
    <2> DEFINE e == [d EXCEPT !.contract = IdKnown, !.pending = NoClient, !.ip = ip]
    <2>1. e \in Datum /\ e.pending = NoClient /\ e.contract = IdKnown /\ e.client = IdKnown /\ e.rounds = d.rounds
      BY <1>2, <1>3 DEF Datum
    <2>2. Continue("CHECK_CLIENT_STATUS", e)
      BY <1>10
    <2> HIDE DEF e
    <2>3. Good("CHECK_CLIENT_STATUS", e) /\ e.rounds <= 2
      BY <1>1, <1>3, <2>1 DEF Good, Technical, Money
    <2>4. "CHECK_CLIENT_STATUS" \in States /\ Near("CHECK_CLIENT_STATUS", run.steps + 1)
      BY <1>1 DEF States, Near, FirstStates, SecondStates, ThirdStates
    <2> QED  BY <1>1, <1>2, <1>10, <2>2, <2>3, <2>4, KnowingGoesOn
  <1> QED  BY <1>5, <1>7, <1>8, <1>9, <1>10

LEMMA DisambiguateKeeps ==
    ASSUME EngineInv, Disambiguate
    PROVE  EngineInv'
  <1>1. /\ At_(Technical, "WAITING_USER_DISAMBIGUATE") /\ workflow = Technical /\ run.data \in Datum
        /\ Good("WAITING_USER_DISAMBIGUATE", run.data) /\ run.data.rounds <= 2 /\ run.steps = 0 /\ Technical \in WorkflowTypes
    <2>1. At_(Technical, "WAITING_USER_DISAMBIGUATE")
      BY DEF Disambiguate
    <2>2. Near("WAITING_USER_DISAMBIGUATE", run.steps)
      BY <2>1, HandlerAt
    <2>3. run.steps = 0
      BY <2>2 DEF Near, FirstStates
    <2> QED  BY <2>1, <2>3, HandlerAt
  <1>2. CASE "option" \in run.text \cup run.entities
    <2>1. PICK ip \in BOOLEAN :
            Continue("CHECK_CLIENT_STATUS", [run.data EXCEPT !.contract = run.data.pending, !.pending = NoClient, !.ip = ip])
      BY <1>2 DEF Disambiguate
    <2> DEFINE e == [run.data EXCEPT !.contract = run.data.pending, !.pending = NoClient, !.ip = ip]
    <2>2. /\ e \in Datum /\ e.pending = NoClient /\ e.contract = run.data.pending /\ e.client = run.data.client
          /\ e.rounds = run.data.rounds
      BY <1>1 DEF Datum
    <2>3. Continue("CHECK_CLIENT_STATUS", e)
      BY <2>1
    <2> HIDE DEF e
    <2>4. Good("CHECK_CLIENT_STATUS", e) /\ e.rounds <= 2
      BY <1>1, <2>2 DEF Good, Technical, Money
    <2>5. "CHECK_CLIENT_STATUS" \in States /\ Near("CHECK_CLIENT_STATUS", run.steps + 1)
      BY <1>1 DEF States, Near, FirstStates, SecondStates, ThirdStates
    <2>6. Remember(run.data.client)
      BY <1>2 DEF Disambiguate
    <2>7. run.data.client \in Clients
      BY <1>1 DEF Datum, Good
    <2> QED  BY <1>1, <2>3, <2>4, <2>5, <2>6, <2>7, KnowingGoesOn
  <1>3. CASE "option" \notin run.text \cup run.entities
    <2>1. WaitFor("WAITING_USER_DISAMBIGUATE", run.data, 0) /\ OnlyRun
      BY <1>3 DEF Disambiguate
    <2>2. Asks("WAITING_USER_DISAMBIGUATE", 0)
      BY <1>1, StepsAre
    <2> QED  BY <1>1, <2>1, <2>2, Waits
  <1> QED  BY <1>2, <1>3

LEMMA RelocationLookupKeeps ==
    ASSUME EngineInv, RelocationLookup
    PROVE  EngineInv'
  <1> DEFINE d == [run.data EXCEPT !.client = IdKnown]
             e == [d EXCEPT !.contract = IdKnown]
  <1>1. PICK s \in FirstStates :
          /\ At_(Moving, s) /\ run.data.rounds <= 2 /\ run.steps = 0 /\ run.data \in Datum /\ workflow = Moving
          /\ run.data.pending = NoClient /\ IdKnown \in Clients \cup {NoClient} /\ Good(s, run.data)
          /\ s # "WAITING_USER_DISAMBIGUATE"
    BY Validating DEF RelocationLookup
  <1>2. IdKnown \in Clients /\ ValidateAt(Moving)
    BY <1>1 DEF RelocationLookup
  <1>3. /\ d \in Datum /\ d.pending = NoClient /\ d.client = IdKnown /\ d.contract = run.data.contract
        /\ d.rounds = run.data.rounds
        /\ e \in Datum /\ e.pending = NoClient /\ e.client = IdKnown /\ e.contract = IdKnown /\ e.rounds = run.data.rounds
    BY <1>1 DEF Datum
  <1>4. borrowed \/ run.data.contract = NoClient
    BY <1>1 DEF RelocationLookup, Identified, Good
  <1>5. \/ Escalate(d) /\ OnlyRun
        \/ NotFound(d) /\ OnlyRun
        \/ Continue("GATHER_RELOCATION_DETAILS", e) /\ Remember(IdKnown)
    BY DEF RelocationLookup
  <1> HIDE DEF d, e
  <1>6. Good(s, d) /\ Good("GATHER_RELOCATION_DETAILS", e)
    BY <1>1, <1>3, <1>4 DEF Good, Moving, Money
  <1>7. CASE Escalate(d) /\ OnlyRun
    BY <1>1, <1>6, <1>7, IsOver
  <1>8. CASE NotFound(d) /\ OnlyRun
    BY <1>1, <1>2, <1>3, <1>4, <1>8, NotFoundKeeps DEF Identifying, Moving, Money
  <1>9. CASE Continue("GATHER_RELOCATION_DETAILS", e) /\ Remember(IdKnown)
    <2>1. "GATHER_RELOCATION_DETAILS" \in States /\ Near("GATHER_RELOCATION_DETAILS", run.steps + 1) /\ e.rounds <= 2
      BY <1>1, <1>3 DEF States, Near, FirstStates, SecondStates, ThirdStates
    <2> QED  BY <1>1, <1>2, <1>6, <1>9, <2>1, KnowingGoesOn
  <1> QED  BY <1>5, <1>7, <1>8, <1>9

LEMMA CheckClientStatusKeeps ==
    ASSUME EngineInv, CheckClientStatus
    PROVE  EngineInv'
  <1>1. At_(Technical, "CHECK_CLIENT_STATUS") /\ OnlyRun
    BY DEF CheckClientStatus
  <1>2. Good("CHECK_CLIENT_STATUS", run.data) /\ run.data.rounds <= 2 /\ Near("CHECK_CLIENT_STATUS", run.steps) /\ run.steps \in 0..3
    BY <1>1, HandlerAt
  <1>3. ASSUME NEW to \in {"CHECK_BALANCE", "DIAGNOSTIC"}, Continue(to, run.data) PROVE EngineInv'
    <2>1. Good(to, run.data)
      BY <1>2 DEF Good
    <2>2. to \in States /\ Near(to, run.steps + 1)
      BY <1>2 DEF States, Near, FirstStates, SecondStates, ThirdStates, LastStates
    <2> QED  BY <1>1, <1>2, <1>3, <2>1, <2>2, GoesOn
  <1>4. ASSUME Escalate(run.data) PROVE EngineInv'
    BY <1>1, <1>2, <1>4, IsOver
  <1> QED  BY <1>3, <1>4 DEF CheckClientStatus

LEMMA SupportBalanceKeeps ==
    ASSUME EngineInv, SupportBalance
    PROVE  EngineInv'
  <1>1. At_(Technical, "CHECK_BALANCE") /\ OnlyRun
    BY DEF SupportBalance
  <1>2. Good("CHECK_BALANCE", run.data) /\ run.data.rounds <= 2 /\ Near("CHECK_BALANCE", run.steps) /\ run.steps \in 0..3
    BY <1>1, HandlerAt
  <1>3. ASSUME NEW to \in {"RESPOND_DEBT", "DIAGNOSTIC"}, Continue(to, run.data) PROVE EngineInv'
    <2>1. Good(to, run.data)
      BY <1>2 DEF Good
    <2>2. to \in States /\ Near(to, run.steps + 1)
      BY <1>2 DEF States, Near, FirstStates, SecondStates, ThirdStates, LastStates
    <2> QED  BY <1>1, <1>2, <1>3, <2>1, <2>2, GoesOn
  <1>4. ASSUME Escalate(run.data) PROVE EngineInv'
    BY <1>1, <1>2, <1>4, IsOver
  <1> QED  BY <1>3, <1>4 DEF SupportBalance

LEMMA DiagnoseKeeps ==
    ASSUME EngineInv, NEW s \in {"DIAGNOSTIC", "WAITING_USER_DIAGNOSTIC"}, Diagnose(s)
    PROVE  EngineInv'
  <1> DEFINE rounds == IF s = "DIAGNOSTIC" THEN 1 ELSE run.data.rounds + 1
             d == [run.data EXCEPT !.rounds = rounds]
  <1>1. At_(Technical, s) /\ OnlyRun
    BY DEF Diagnose
  <1>2. /\ Good(s, run.data) /\ run.data.rounds \in 0..2 /\ run.data \in Datum /\ workflow = Technical
        /\ workflow \in WorkflowTypes
    <2>1. Good(s, run.data) /\ run.data.rounds <= 2 /\ run.data \in Datum /\ workflow = Technical /\ workflow \in WorkflowTypes
      BY <1>1, HandlerAt
    <2>2. run.data.rounds \in 0..3
      BY <2>1 DEF Datum
    <2> QED  BY <2>1, <2>2
  <1>3. rounds \in 1..3
    BY <1>2
  <1>4. \/ Escalate(run.data)
        \/ Complete(run.data)
        \/ rounds > 2 /\ Escalate(d)
        \/ ~(rounds > 2) /\ WaitFor("WAITING_USER_DIAGNOSTIC", d, 0)
    <2>1. ASSUME NEW raw \in Answers PROVE Normalized(raw) \in {"ESCALATED", "COMPLETED", "WAITING_USER"}
      BY DEF Normalized, Answers
    <2> QED  BY <2>1 DEF Diagnose
  <1> HIDE DEF rounds
  <1>5. d \in Datum /\ d.client = run.data.client /\ d.contract = run.data.contract /\ d.pending = run.data.pending /\ d.rounds = rounds
    BY <1>2, <1>3 DEF Datum
  <1> HIDE DEF d
  <1>6. Good(s, d) /\ Good("WAITING_USER_DIAGNOSTIC", d)
    BY <1>2, <1>5 DEF Good
  <1>7. ASSUME ~(rounds > 2), WaitFor("WAITING_USER_DIAGNOSTIC", d, 0) PROVE EngineInv'
    <2>1. Asks("WAITING_USER_DIAGNOSTIC", 0) /\ d.rounds <= 2
      BY <1>2, <1>3, <1>5, <1>7, StepsAre
    <2> QED  BY <1>1, <1>6, <1>7, <2>1, Waits
  <1>8. ASSUME Escalate(run.data) \/ Complete(run.data) \/ Escalate(d) PROVE EngineInv'
    BY <1>1, <1>2, <1>6, <1>8, IsOver
  <1> QED  BY <1>4, <1>7, <1>8

\* Where the customer is, or will be, served.
LEMMA LocatedKeeps ==
    ASSUME EngineInv, OnlyRun, NEW s, At_("SALES", s), s \in {"COLLECT_PREFERENCE", "WAITING_USER_LOCATION"},
           NEW place, NEW d, Good(s, d), d.rounds <= 2, Located(d, place)
    PROVE  EngineInv'
  <1>1. workflow = "SALES" /\ workflow \in WorkflowTypes /\ Near(s, run.steps) /\ d \in Datum
    BY HandlerAt DEF Good
  <1>2. ASSUME NEW c \in {"yes", "no"}, NEW to, to # "WAITING_USER_DISAMBIGUATE"
        PROVE Good(to, [d EXCEPT !.coverage = c]) /\ [d EXCEPT !.coverage = c].rounds <= 2
    <2> DEFINE e == [d EXCEPT !.coverage = c]
    <2>1. e \in Datum /\ e.client = d.client /\ e.contract = d.contract /\ e.pending = d.pending /\ e.rounds = d.rounds
      BY <1>1 DEF Datum
    <2> HIDE DEF e
    <2>2. Good(to, e) /\ e.rounds <= 2
      BY <1>2, <2>1 DEF Good
    <2> QED  BY <2>2 DEF e
  <1>3. ASSUME Continue("QUERY_PLANS", [d EXCEPT !.coverage = "yes"]) PROVE EngineInv'
    <2>1. "QUERY_PLANS" \in States /\ Near("QUERY_PLANS", run.steps + 1)
      BY <1>1 DEF States, Near, FirstStates, SecondStates, ThirdStates
    <2>2. Good("QUERY_PLANS", [d EXCEPT !.coverage = "yes"]) /\ [d EXCEPT !.coverage = "yes"].rounds <= 2
      BY <1>2
    <2> QED  BY <1>3, <2>1, <2>2, GoesOn
  <1>4. ASSUME WaitFor("WAITING_USER_LOCATION", [d EXCEPT !.coverage = "no"], 0) PROVE EngineInv'
    <2>1. Asks("WAITING_USER_LOCATION", 0)
      BY <1>1, StepsAre
    <2> DEFINE e == [d EXCEPT !.coverage = "no"]
    <2>2. Good("WAITING_USER_LOCATION", e) /\ e.rounds <= 2
      BY <1>2
    <2>3. WaitFor("WAITING_USER_LOCATION", e, 0)
      BY <1>4
    <2> HIDE DEF e
    <2> QED  BY <2>1, <2>2, <2>3, Waits
  <1>5. ASSUME Complete([d EXCEPT !.coverage = "no"]) PROVE EngineInv'
    <2>1. Good(s, [d EXCEPT !.coverage = "no"])
      BY <1>2
    <2> QED  BY <1>5, <2>1, IsOver
  <1> QED  BY <1>3, <1>4, <1>5 DEF Located

LEMMA CollectPreferenceKeeps ==
    ASSUME EngineInv, CollectPreference
    PROVE  EngineInv'
  <1> DEFINE d == [run.data EXCEPT !.purpose = SalesPurpose]
             e == [d EXCEPT !.given = Location]
  <1>1. At_("SALES", "COLLECT_PREFERENCE") /\ OnlyRun
    BY DEF CollectPreference
  <1>2. /\ run.data \in Datum /\ run.data.rounds <= 2 /\ Good("COLLECT_PREFERENCE", run.data)
        /\ Near("COLLECT_PREFERENCE", run.steps) /\ workflow = "SALES" /\ workflow \in WorkflowTypes
    BY <1>1, HandlerAt
  <1>3. Location \subseteq Fields
    BY FieldsAre DEF Location
  <1>4. /\ d \in Datum /\ d.client = run.data.client /\ d.contract = run.data.contract /\ d.pending = run.data.pending
        /\ d.rounds = run.data.rounds
    BY <1>2 DEF Datum, SalesPurpose
  <1>5. e \in Datum /\ e.client = d.client /\ e.contract = d.contract /\ e.pending = d.pending /\ e.rounds = d.rounds
    BY <1>3, <1>4 DEF Datum
  <1>6. \/ Continue("QUERY_PLANS", d)
        \/ WaitFor("WAITING_USER_LOCATION", d, 0)
        \/ Located(e, Location)
    BY DEF CollectPreference
  <1> HIDE DEF d, e
  <1>7. /\ Good("QUERY_PLANS", d) /\ Good("WAITING_USER_LOCATION", d) /\ Good("COLLECT_PREFERENCE", e)
        /\ d.rounds <= 2 /\ e.rounds <= 2
    BY <1>2, <1>4, <1>5 DEF Good
  <1>8. CASE Continue("QUERY_PLANS", d)
    <2>1. "QUERY_PLANS" \in States /\ Near("QUERY_PLANS", run.steps + 1)
      BY <1>2 DEF States, Near, FirstStates, SecondStates, ThirdStates
    <2> QED  BY <1>1, <1>7, <1>8, <2>1, GoesOn
  <1>9. CASE WaitFor("WAITING_USER_LOCATION", d, 0)
    <2>1. Asks("WAITING_USER_LOCATION", 0)
      BY <1>2, StepsAre
    <2> QED  BY <1>1, <1>7, <1>9, <2>1, Waits
  <1>10. CASE Located(e, Location)
    BY <1>1, <1>7, <1>10, LocatedKeeps
  <1> QED  BY <1>6, <1>8, <1>9, <1>10

LEMMA WaitingLocationKeeps ==
    ASSUME EngineInv, WaitingLocation
    PROVE  EngineInv'
  <1> DEFINE place == run.data.given \cup Location
             d == [run.data EXCEPT !.given = place]
  <1>1. At_("SALES", "WAITING_USER_LOCATION") /\ OnlyRun /\ Located(d, place)
    BY DEF WaitingLocation
  <1>2. run.data \in Datum /\ run.data.rounds <= 2 /\ Good("WAITING_USER_LOCATION", run.data)
    BY <1>1, HandlerAt
  <1>3. place \subseteq Fields
    BY <1>2, FieldsAre DEF Location, Datum
  <1> HIDE DEF place
  <1>4. /\ d \in Datum /\ d.client = run.data.client /\ d.contract = run.data.contract /\ d.pending = run.data.pending
        /\ d.rounds = run.data.rounds
    BY <1>2, <1>3 DEF Datum
  <1> HIDE DEF d
  <1>5. Good("WAITING_USER_LOCATION", d) /\ d.rounds <= 2
    BY <1>2, <1>4 DEF Good
  <1> QED  BY <1>1, <1>5, LocatedKeeps

LEMMA QueryPlansKeeps ==
    ASSUME EngineInv, QueryPlans
    PROVE  EngineInv'
  <1>1. At_("SALES", "QUERY_PLANS") /\ OnlyRun /\ (Continue("RESPOND_OFFER", run.data) \/ Escalate(run.data))
    BY DEF QueryPlans
  <1>2. Good("QUERY_PLANS", run.data) /\ run.data.rounds <= 2 /\ Near("QUERY_PLANS", run.steps) /\ run.steps \in 0..3
    BY <1>1, HandlerAt
  <1>3. Good("RESPOND_OFFER", run.data)
    BY <1>2 DEF Good
  <1>4. "RESPOND_OFFER" \in States /\ Near("RESPOND_OFFER", run.steps + 1)
    BY <1>2 DEF States, Near, FirstStates, SecondStates, ThirdStates, LastStates
  <1> QED  BY <1>1, <1>2, <1>3, <1>4, GoesOn, IsOver

LEMMA RespondOfferKeeps ==
    ASSUME EngineInv, RespondOffer
    PROVE  EngineInv'
  <1>1. At_("SALES", "RESPOND_OFFER") /\ OnlyRun
        /\ (WaitFor("WAITING_USER_UPGRADE", run.data, 0) \/ Complete(run.data) \/ Escalate(run.data))
    BY DEF RespondOffer
  <1>2. /\ Good("RESPOND_OFFER", run.data) /\ run.data.rounds <= 2 /\ workflow = "SALES" /\ workflow \in WorkflowTypes
    BY <1>1, HandlerAt
  <1>3. Good("WAITING_USER_UPGRADE", run.data)
    BY <1>2 DEF Good
  <1>4. Asks("WAITING_USER_UPGRADE", 0)
    BY <1>2, StepsAre
  <1> QED  BY <1>1, <1>2, <1>3, <1>4, Waits, IsOver

\* The data of a payment: who asks stays the same.
LEMMA MergedIs ==
    ASSUME EngineInv, run \in Run, NEW d \in Datum
    PROVE  /\ Merged(d) \in Datum /\ Merged(d).client = d.client /\ Merged(d).contract = d.contract
           /\ Merged(d).pending = d.pending /\ Merged(d).rounds = d.rounds
  <1>1. d.given \cup (run.entities \cap {"amount", "reference"}) \subseteq Fields
    BY FieldsAre DEF Datum
  <1> QED  BY <1>1 DEF Merged, Datum

LEMMA ForPaymentIs ==
    ASSUME EngineInv, NEW s, At_(Money, s)
    PROVE  /\ ForPayment \in Datum /\ ForPayment.client = run.data.client /\ ForPayment.contract = NoClient
           /\ ForPayment.pending = run.data.pending /\ ForPayment.rounds = run.data.rounds /\ ForPayment.rounds <= 2
           /\ \A to : (s # "WAITING_USER_DISAMBIGUATE" /\ to # "WAITING_USER_DISAMBIGUATE") => Good(to, ForPayment)
  <1> DEFINE d == [run.data EXCEPT !.purpose = BillingPurpose(run.data)]
  <1>1. /\ run \in Run /\ run.data \in Datum /\ run.data.rounds <= 2 /\ Good(s, run.data) /\ workflow = Money
    BY HandlerAt
  <1>2. BillingPurpose(run.data) \in {"none", "sales", "upgrade", "balance", "record_payment", "payment_methods"}
    BY <1>1 DEF BillingPurpose, Datum
  <1>3. /\ d \in Datum /\ d.client = run.data.client /\ d.contract = run.data.contract /\ d.pending = run.data.pending
        /\ d.rounds = run.data.rounds
    BY <1>1, <1>2 DEF Datum
  <1>4. ForPayment = Merged(d)
    BY DEF ForPayment
  <1> HIDE DEF d
  <1>5. /\ ForPayment \in Datum /\ ForPayment.client = run.data.client /\ ForPayment.contract = run.data.contract
        /\ ForPayment.pending = run.data.pending /\ ForPayment.rounds = run.data.rounds
    BY <1>1, <1>3, <1>4, MergedIs
  <1>6. run.data.contract = NoClient
    BY <1>1 DEF Good
  <1>7. ASSUME NEW to, s # "WAITING_USER_DISAMBIGUATE", to # "WAITING_USER_DISAMBIGUATE" PROVE Good(to, ForPayment)
    BY <1>1, <1>5, <1>6, <1>7 DEF Good
  <1> QED  BY <1>1, <1>5, <1>6, <1>7

LEMMA BillingFirstKeeps ==
    ASSUME EngineInv, BillingMethods \/ BillingAskId
    PROVE  EngineInv'
  <1>1. ValidateAt(Money) /\ OnlyRun
        /\ (Continue("RESPOND_PAYMENT_METHODS", ForPayment) \/ WaitFor("WAITING_USER_CLIENT", ForPayment, 0))
    BY DEF BillingMethods, BillingAskId
  <1>2. PICK s \in FirstStates : /\ s # "WAITING_USER_DISAMBIGUATE" /\ At_(Money, s) /\ run.steps = 0
                                 /\ workflow = Money /\ workflow \in WorkflowTypes
    BY <1>1, Validating
  <1>3. Good("RESPOND_PAYMENT_METHODS", ForPayment) /\ Good("WAITING_USER_CLIENT", ForPayment) /\ ForPayment.rounds <= 2
    BY <1>2, ForPaymentIs
  <1>4. "RESPOND_PAYMENT_METHODS" \in States /\ Near("RESPOND_PAYMENT_METHODS", run.steps + 1)
    BY <1>2 DEF States, Near, FirstStates, SecondStates, ThirdStates
  <1>5. Asks("WAITING_USER_CLIENT", 0)
    BY <1>2, StepsAre DEF Identifying, Asks
  <1>6. CASE Continue("RESPOND_PAYMENT_METHODS", ForPayment)
    BY <1>1, <1>2, <1>3, <1>4, <1>6, GoesOn
  <1>7. CASE WaitFor("WAITING_USER_CLIENT", ForPayment, 0)
    BY <1>1, <1>2, <1>3, <1>5, <1>7, Waits
  <1> QED  BY <1>1, <1>6, <1>7

LEMMA BillingReuseKeeps ==
    ASSUME EngineInv, BillingReuse
    PROVE  EngineInv'
  <1> DEFINE d == [ForPayment EXCEPT !.client = remembered]
  <1>1. ValidateAt(Money) /\ OnlyRun /\ Continue("CHECK_BALANCE", d)
    BY DEF BillingReuse
  <1>2. PICK s \in FirstStates : /\ s # "WAITING_USER_DISAMBIGUATE" /\ At_(Money, s) /\ run.steps = 0
                                 /\ run.data.pending = NoClient
    BY <1>1, Validating
  <1>3. ForPayment \in Datum /\ ForPayment.contract = NoClient /\ ForPayment.pending = NoClient /\ ForPayment.rounds <= 2
    BY <1>2, ForPaymentIs
  <1>4. remembered \in Clients \cup {NoClient}
    BY DEF EngineInv, CaseTypes
  <1>5. d \in Datum /\ d.contract = NoClient /\ d.pending = NoClient /\ d.rounds <= 2
    BY <1>3, <1>4 DEF Datum
  <1> HIDE DEF d
  <1>6. Good("CHECK_BALANCE", d)
    BY <1>5 DEF Good
  <1>7. "CHECK_BALANCE" \in States /\ Near("CHECK_BALANCE", run.steps + 1)
    BY <1>2 DEF States, Near, FirstStates, SecondStates, ThirdStates
  <1> QED  BY <1>1, <1>2, <1>5, <1>6, <1>7, GoesOn

LEMMA BillingLookupKeeps ==
    ASSUME EngineInv, BillingLookup
    PROVE  EngineInv'
  <1> DEFINE d == [ForPayment EXCEPT !.client = IdKnown]
  <1>1. /\ ValidateAt(Money) /\ IdKnown # NoClient
        /\ \/ Escalate(d) /\ OnlyRun
           \/ NotFound(d) /\ OnlyRun
           \/ Continue("CHECK_BALANCE", d) /\ Remember(IdKnown)
    BY DEF BillingLookup
  <1>2. PICK s \in FirstStates : /\ s # "WAITING_USER_DISAMBIGUATE" /\ At_(Money, s) /\ run.steps = 0
                                 /\ run.data.pending = NoClient /\ IdKnown \in Clients \cup {NoClient}
    BY <1>1, Validating
  <1>3. ForPayment \in Datum /\ ForPayment.contract = NoClient /\ ForPayment.pending = NoClient /\ ForPayment.rounds <= 2
    BY <1>2, ForPaymentIs
  <1>4. d \in Datum /\ d.contract = NoClient /\ d.pending = NoClient /\ d.rounds <= 2
    BY <1>2, <1>3 DEF Datum
  <1> HIDE DEF d
  <1>5. Good("CHECK_BALANCE", d) /\ Good(s, d)
    BY <1>2, <1>4 DEF Good
  <1>6. "CHECK_BALANCE" \in States /\ Near("CHECK_BALANCE", run.steps + 1)
    BY <1>2 DEF States, Near, FirstStates, SecondStates, ThirdStates
  <1>7. CASE Escalate(d) /\ OnlyRun
    BY <1>2, <1>5, <1>7, IsOver
  <1>8. CASE NotFound(d) /\ OnlyRun
    BY <1>1, <1>4, <1>8, NotFoundKeeps DEF Identifying
  <1>9. CASE Continue("CHECK_BALANCE", d) /\ Remember(IdKnown)
    <2>1. IdKnown \in Clients
      BY <1>1, <1>2
    <2> QED  BY <1>2, <1>4, <1>5, <1>6, <1>9, <2>1, KnowingGoesOn
  <1> QED  BY <1>1, <1>7, <1>8, <1>9

LEMMA BillingBalanceKeeps ==
    ASSUME EngineInv, BillingBalance
    PROVE  EngineInv'
  <1>1. /\ At_(Money, "CHECK_BALANCE") /\ OnlyRun
        /\ \/ Escalate(ForPayment)
           \/ \E to \in LastStates : Continue(to, ForPayment)
           \/ WaitFor("WAITING_USER_RECEIPT", ForPayment, 0)
    BY DEF BillingBalance, LastStates
  <1>2. Near("CHECK_BALANCE", run.steps) /\ run.steps \in 0..3 /\ workflow = Money /\ workflow \in WorkflowTypes
    BY <1>1, HandlerAt
  <1>3. ForPayment.rounds <= 2 /\ \A to : to # "WAITING_USER_DISAMBIGUATE" => Good(to, ForPayment)
    BY <1>1, ForPaymentIs
  <1>4. CASE Escalate(ForPayment)
    BY <1>1, <1>3, <1>4, IsOver
  <1>5. ASSUME NEW to \in LastStates, Continue(to, ForPayment) PROVE EngineInv'
    <2>1. to \in States /\ Near(to, run.steps + 1) /\ to # "WAITING_USER_DISAMBIGUATE"
      BY <1>2 DEF States, Near, FirstStates, SecondStates, ThirdStates, LastStates
    <2> QED  BY <1>1, <1>3, <1>5, <2>1, GoesOn
  <1>6. CASE WaitFor("WAITING_USER_RECEIPT", ForPayment, 0)
    <2>1. Asks("WAITING_USER_RECEIPT", 0) /\ Good("WAITING_USER_RECEIPT", ForPayment)
      BY <1>2, <1>3, StepsAre
    <2> QED  BY <1>1, <1>3, <1>6, <2>1, Waits
  <1> QED  BY <1>1, <1>4, <1>5, <1>6

LEMMA WaitingReceiptKeeps ==
    ASSUME EngineInv, WaitingReceipt
    PROVE  EngineInv'
  <1> DEFINE paid == [run.data EXCEPT !.purpose = "record_payment"]
             read == Merged(paid)
             unread == [read EXCEPT !.given = read.given \ ({"amount"} \ run.data.given)]
  <1>1. At_(Money, "WAITING_USER_RECEIPT") /\ OnlyRun
    BY DEF WaitingReceipt
  <1>2. /\ run \in Run /\ run.data \in Datum /\ run.data.rounds <= 2 /\ Good("WAITING_USER_RECEIPT", run.data)
        /\ Near("WAITING_USER_RECEIPT", run.steps) /\ workflow = Money /\ workflow \in WorkflowTypes
    BY <1>1, HandlerAt
  <1>3. PICK d \in {read, unread} : Continue("RECORD_PAYMENT", d) \/ WaitFor("WAITING_USER_RECEIPT", d, 0)
    BY DEF WaitingReceipt
  <1>4. /\ paid \in Datum /\ paid.client = run.data.client /\ paid.contract = run.data.contract
        /\ paid.pending = run.data.pending /\ paid.rounds = run.data.rounds
    BY <1>2 DEF Datum
  <1> HIDE DEF paid
  <1>5. /\ read \in Datum /\ read.client = run.data.client /\ read.contract = run.data.contract
        /\ read.pending = run.data.pending /\ read.rounds = run.data.rounds
    BY <1>2, <1>4, MergedIs
  <1> HIDE DEF read
  <1>6. /\ unread \in Datum /\ unread.client = run.data.client /\ unread.contract = run.data.contract
        /\ unread.pending = run.data.pending /\ unread.rounds = run.data.rounds
    BY <1>5 DEF Datum
  <1> HIDE DEF unread
  <1>7. Good("RECORD_PAYMENT", d) /\ Good("WAITING_USER_RECEIPT", d) /\ d.rounds <= 2
    BY <1>2, <1>3, <1>5, <1>6 DEF Good
  <1>8. CASE Continue("RECORD_PAYMENT", d)
    <2>1. "RECORD_PAYMENT" \in States /\ Near("RECORD_PAYMENT", run.steps + 1)
      BY <1>2 DEF States, Near, FirstStates, SecondStates, ThirdStates, LastStates
    <2> QED  BY <1>1, <1>7, <1>8, <2>1, GoesOn
  <1>9. CASE WaitFor("WAITING_USER_RECEIPT", d, 0)
    <2>1. Asks("WAITING_USER_RECEIPT", 0)
      BY <1>2, StepsAre
    <2> QED  BY <1>1, <1>7, <1>9, <2>1, Waits
  <1> QED  BY <1>3, <1>8, <1>9

LEMMA RespondPaymentMethodsKeeps ==
    ASSUME EngineInv, RespondPaymentMethods
    PROVE  EngineInv'
  <1>1. At_(Money, "RESPOND_PAYMENT_METHODS") /\ OnlyRun /\ WaitFor("WAITING_USER_RECEIPT", run.data, run.tries)
    BY DEF RespondPaymentMethods
  <1>2. /\ Good("RESPOND_PAYMENT_METHODS", run.data) /\ run.data.rounds <= 2 /\ workflow = Money /\ workflow \in WorkflowTypes
        /\ run.tries = 0
    BY <1>1, HandlerAt DEF Money, Technical
  <1>3. Asks("WAITING_USER_RECEIPT", 0) /\ Good("WAITING_USER_RECEIPT", run.data)
    BY <1>2, StepsAre DEF Good
  <1> QED  BY <1>1, <1>2, <1>3, Waits

LEMMA GatherRelocationDetailsKeeps ==
    ASSUME EngineInv, GatherRelocationDetails
    PROVE  EngineInv'
  <1>1. At_(Moving, "GATHER_RELOCATION_DETAILS") /\ OnlyRun
    BY DEF GatherRelocationDetails
  <1>2. /\ run \in Run /\ run.data \in Datum /\ run.data.rounds <= 2 /\ Good("GATHER_RELOCATION_DETAILS", run.data)
        /\ Near("GATHER_RELOCATION_DETAILS", run.steps) /\ workflow = Moving /\ workflow \in WorkflowTypes /\ run.tries = 0
    BY <1>1, HandlerAt DEF Moving, Technical
  <1>3. PICK found \in SUBSET (run.text \cap FieldsOf(Moving)) :
          LET d == [run.data EXCEPT !.given = run.data.given \cup found \cup (run.entities \cap FieldsOf(Moving))]
          IN Continue("CREATE_TICKET_AND_ESCALATE", d) \/ WaitFor("GATHER_RELOCATION_DETAILS", d, run.tries + 1)
    BY DEF GatherRelocationDetails
  <1> DEFINE given == run.data.given \cup found \cup (run.entities \cap FieldsOf(Moving))
             d == [run.data EXCEPT !.given = given]
  <1>4. given \subseteq Fields
    <2>1. FieldsOf(Moving) \subseteq Fields
      BY <1>2, FieldsAre
    <2> QED  BY <1>2, <2>1 DEF Datum
  <1>5. Continue("CREATE_TICKET_AND_ESCALATE", d) \/ WaitFor("GATHER_RELOCATION_DETAILS", d, 1)
    BY <1>2, <1>3
  <1> HIDE DEF given
  <1>6. /\ d \in Datum /\ d.client = run.data.client /\ d.contract = run.data.contract
        /\ d.pending = run.data.pending /\ d.rounds = run.data.rounds
    BY <1>2, <1>4 DEF Datum
  <1> HIDE DEF d
  <1>7. Good("CREATE_TICKET_AND_ESCALATE", d) /\ Good("GATHER_RELOCATION_DETAILS", d) /\ d.rounds <= 2
    BY <1>2, <1>6 DEF Good
  <1>8. CASE Continue("CREATE_TICKET_AND_ESCALATE", d)
    <2>1. run.steps \in 0..3
      BY <1>2 DEF Run
    <2>2. "CREATE_TICKET_AND_ESCALATE" \in States /\ Near("CREATE_TICKET_AND_ESCALATE", run.steps + 1)
      BY <1>2, <2>1 DEF States, Near, FirstStates, SecondStates, ThirdStates, LastStates
    <2> QED  BY <1>1, <1>7, <1>8, <2>2, GoesOn
  <1>9. CASE WaitFor("GATHER_RELOCATION_DETAILS", d, 1)
    <2>1. Asks("GATHER_RELOCATION_DETAILS", 1)
      BY <1>2, StepsAre
    <2> QED  BY <1>1, <1>7, <1>9, <2>1, Waits
  <1> QED  BY <1>5, <1>8, <1>9

LEMMA QueryKnowledgeBaseKeeps ==
    ASSUME EngineInv, QueryKnowledgeBase
    PROVE  EngineInv'
  <1> DEFINE purpose == IF WantsUpgrade THEN "upgrade" ELSE run.data.purpose
             d == [run.data EXCEPT !.purpose = purpose]
  <1>1. PICK s \in {"QUERY_KNOWLEDGE_BASE", "WAITING_USER_INQUIRY"} : At_("GENERAL_INQUIRY", s)
    BY DEF QueryKnowledgeBase
  <1>2. /\ run.data \in Datum /\ run.data.rounds <= 2 /\ Good(s, run.data)
        /\ Near(s, run.steps) /\ workflow = "GENERAL_INQUIRY" /\ workflow \in WorkflowTypes /\ run.tries = 0
    BY <1>1, HandlerAt DEF Technical
  <1>3. /\ OnlyRun
        /\ \/ WaitFor("WAITING_USER_INQUIRY", run.data, run.tries)
           \/ Complete(run.data)
           \/ Escalate(d)
           \/ Continue("WAITING_USER_SPECIALIST", d)
           \/ Continue("RESPOND_ANSWER", d)
    BY DEF QueryKnowledgeBase
  <1>4. purpose \in {"none", "sales", "upgrade", "balance", "record_payment", "payment_methods"}
    BY <1>2 DEF Datum
  <1> HIDE DEF purpose
  <1>5. /\ d \in Datum /\ d.client = run.data.client /\ d.contract = run.data.contract
        /\ d.pending = run.data.pending /\ d.rounds = run.data.rounds
    BY <1>2, <1>4 DEF Datum
  <1> HIDE DEF d
  <1>6. /\ Good(s, d) /\ Good("WAITING_USER_SPECIALIST", d) /\ Good("RESPOND_ANSWER", d) /\ d.rounds <= 2
        /\ Good("WAITING_USER_INQUIRY", run.data)
    BY <1>2, <1>5 DEF Good
  <1>7. CASE WaitFor("WAITING_USER_INQUIRY", run.data, run.tries)
    <2>1. Asks("WAITING_USER_INQUIRY", 0)
      BY <1>2, StepsAre
    <2> QED  BY <1>1, <1>2, <1>3, <1>6, <1>7, <2>1, Waits
  <1>8. CASE Complete(run.data) \/ Escalate(d)
    BY <1>1, <1>2, <1>3, <1>6, <1>8, IsOver
  <1>9. ASSUME NEW to \in {"WAITING_USER_SPECIALIST", "RESPOND_ANSWER"}, Continue(to, d) PROVE EngineInv'
    <2>1. to \in States /\ Near(to, run.steps + 1)
      BY <1>2 DEF States, Near, FirstStates, SecondStates, ThirdStates
    <2> QED  BY <1>1, <1>3, <1>6, <1>9, <2>1, GoesOn
  <1> QED  BY <1>3, <1>7, <1>8, <1>9

LEMMA WaitingUserSpecialistKeeps ==
    ASSUME EngineInv, WaitingUserSpecialist
    PROVE  EngineInv'
  <1>1. At_("GENERAL_INQUIRY", "WAITING_USER_SPECIALIST") /\ OnlyRun
        /\ (Complete(run.data) \/ Escalate(run.data) \/ WaitFor("WAITING_USER_SPECIALIST", run.data, 0))
    BY DEF WaitingUserSpecialist
  <1>2. /\ Good("WAITING_USER_SPECIALIST", run.data) /\ run.data.rounds <= 2 /\ workflow = "GENERAL_INQUIRY"
        /\ workflow \in WorkflowTypes
    BY <1>1, HandlerAt
  <1>3. Asks("WAITING_USER_SPECIALIST", 0)
    BY <1>2, StepsAre
  <1> QED  BY <1>1, <1>2, <1>3, Waits, IsOver

-----------------------------------------------------------------------------
(* Workflows: the messages, the end of a run, the agents *)

LEMMA IdleIs == Idle \in Run /\ Good("none", NoData) /\ NoData.rounds = 0
  BY DEF Idle, NoData, Run, Datum, Good

LEMMA IdleStays ==
    ASSUME run \in Run, run = Idle, run' = [run EXCEPT !.stale = run.on]
    PROVE  run' = Idle
  <1>1. run.on = FALSE /\ run.stale = FALSE
    BY DEF Idle
  <1>2. run' \in Run /\ \A f \in DOMAIN run : run'[f] = run[f]
    BY <1>1 DEF Run
  <1>3. DOMAIN run' = DOMAIN run
    OBVIOUS
  <1> QED  BY <1>2, <1>3 DEF Run

LEMMA BeginKeeps ==
    ASSUME EngineInv, NEW msg \in WorkflowMessages, NEW s \in FirstStates \cup SecondStates, NEW d, Good(s, d), d.rounds <= 2,
           NEW n, n \in 0..2, workflow # Technical => n = 0, Begin(msg, s, d, n)
    PROVE  EngineInv'
  <1> DEFINE text == IF workflow = Money THEN {} ELSE msg.gives
  <1>1. /\ run' = [Idle EXCEPT !.on = TRUE, !.state = s, !.data = d, !.tries = n, !.id = msg.id, !.text = text,
                               !.entities = Entities(msg)]
        /\ OnlyRun
    BY DEF Begin, OnlyRun
  <1>2. msg.id \in Clients \cup {NoClient} /\ msg.gives \subseteq Fields
    <2>1. msg.id \in Clients \cup {NoClient} /\ msg.gives \subseteq FieldsOf(workflow)
      BY DEF WorkflowMessages
    <2> QED  BY <2>1, FieldsAre DEF EngineInv, CaseTypes
  <1>3. text \subseteq Fields /\ Entities(msg) \subseteq Fields \cup {"answer", "nationalId"}
    BY <1>2 DEF Entities
  <1> HIDE DEF text
  <1>4. d \in Datum /\ s \in States
    BY DEF Good, States
  <1>5. /\ run' \in Run /\ run'.on /\ run'.state = s /\ run'.data = d /\ run'.tries = n /\ run'.steps = 0
        /\ run'.outcome = "none"
    <2>1. PICK i \in Clients \cup {NoClient} : i = msg.id
      BY <1>2
    <2>2. PICK e \in SUBSET (Fields \cup {"answer", "nationalId"}) : e = Entities(msg)
      BY <1>3
    <2>3. run' = [on |-> TRUE, state |-> s, data |-> d, tries |-> n, id |-> i, text |-> text, entities |-> e,
                  steps |-> 0, outcome |-> "none", stale |-> FALSE]
      BY <1>1, <2>1, <2>2 DEF Idle
    <2>4. n \in 0..4
      OBVIOUS
    <2> QED  BY <1>3, <1>4, <2>3, <2>4 DEF Run
  <1>6. Near(s, 0)
    BY DEF Near, FirstStates, SecondStates, ThirdStates
  <1> QED  BY <1>1, <1>4, <1>5, <1>6, RunKeeps DEF RunEnds

\* The case the message is for.
LEMMA AdvancingIs ==
    ASSUME EngineInv, CanAdvance
    PROVE  /\ ~run.on /\ saved \in Saved /\ Good(saved.state, saved.data) /\ saved.data.rounds <= 2
           /\ saved.tries \in 0..4 /\ saved.state \in States /\ workflow \in WorkflowTypes
           /\ ~Awaiting => saved.tries = 0 /\ saved.state \in FirstStates /\ saved.state # "WAITING_USER_DISAMBIGUATE"
           /\ Awaiting => /\ saved.state \in FirstStates \cup SecondStates
                          /\ Asks(saved.state, saved.tries)
  <1>1. /\ ~run.on /\ saved \in Saved /\ Good(saved.state, saved.data) /\ saved.data.rounds <= 2 /\ workflow \in WorkflowTypes
    BY DEF CanAdvance, EngineInv, SavedInv, CaseTypes
  <1>2. saved.tries \in 0..4 /\ saved.state \in States
    BY <1>1 DEF Saved
  <1>3. InitialState(workflow) \in {"VALIDATE_CLIENT", "COLLECT_PREFERENCE", "QUERY_KNOWLEDGE_BASE"}
    BY <1>1 DEF InitialState, WorkflowTypes, Technical, Money, Moving
  <1>4. "VALIDATE_CLIENT" \notin DOMAIN StepsOf(workflow) /\ "COLLECT_PREFERENCE" \notin DOMAIN StepsOf(workflow)
        /\ "QUERY_KNOWLEDGE_BASE" \notin DOMAIN StepsOf(workflow)
    BY <1>1 DEF WorkflowTypes, StepsOf, SupportSteps, SalesSteps, BillingSteps, RelocationSteps, InquirySteps, Technical, Money, Moving
  <1>5. standing = "ACTIVE" => ~Awaiting /\ saved.tries = 0 /\ saved.state \in FirstStates
                               /\ saved.state # "WAITING_USER_DISAMBIGUATE"
    BY <1>3, <1>4 DEF EngineInv, SavedInv, Awaiting, FirstStates
  <1>6. standing = "WAITING_USER" => Awaiting /\ Asks(saved.state, saved.tries)
    BY DEF EngineInv, SavedInv, Awaiting, Asks
  <1>7. Awaiting => saved.state \in FirstStates \cup SecondStates
    BY <1>1, StepsAre DEF Awaiting
  <1> QED  BY <1>1, <1>2, <1>5, <1>6, <1>7 DEF CanAdvance

LEMMA DecideKeeps ==
    ASSUME EngineInv, CanAdvance, Awaiting, NEW msg, NEW n, n \in 0..4, NEW outcome,
           outcome = "ESCALATED" \/ (outcome = "WAITING_USER" /\ n < StepsOf(workflow)[saved.state].max),
           Decide(msg, outcome, n)
    PROVE  EngineInv'
  <1>1. /\ saved \in Saved /\ Good(saved.state, saved.data) /\ saved.data.rounds <= 2 /\ saved.state \in States
        /\ Asks(saved.state, saved.tries) /\ saved.data \in Datum
    BY AdvancingIs DEF Good
  <1>2. /\ run' \in Run /\ run'.on /\ run'.state = saved.state /\ run'.data = saved.data /\ run'.tries = n
        /\ run'.outcome = outcome
    BY <1>1, IdleIs DEF Decide, Run, Idle
  <1>3. n <= StepsOf(workflow)[saved.state].max \/ outcome = "ESCALATED"
    <2>1. StepsOf(workflow)[saved.state].max \in 2..4
      BY AdvancingIs, StepsAre DEF Awaiting
    <2> QED  BY <2>1
  <1>4. RunEnds(saved.state, saved.data, n, run'.steps, outcome)
    BY <1>1, <1>3 DEF RunEnds, Asks, Awaiting
  <1> QED  BY <1>2, <1>4, RunKeeps DEF Decide, OnlyRun

LEMMA ReceiveKeeps ==
    ASSUME EngineInv, NEW msg \in WorkflowMessages,
           FirstMessage(msg) \/ CorrectId(msg) \/ Guardrail(msg) \/ Incomplete(msg) \/ Answered(msg)
    PROVE  EngineInv'
  <1>1. CanAdvance
    BY DEF FirstMessage, CorrectId, Guardrail, Incomplete, Answered
  <1>2. /\ saved \in Saved /\ Good(saved.state, saved.data) /\ saved.data.rounds <= 2 /\ saved.data \in Datum
        /\ saved.tries \in 0..4 /\ saved.state \in States /\ workflow \in WorkflowTypes
    BY <1>1, AdvancingIs DEF Good
  <1>3. ASSUME Awaiting
        PROVE  /\ saved.state \in FirstStates \cup SecondStates /\ Asks(saved.state, saved.tries)
               /\ StepsOf(workflow)[saved.state].max \in 2..4
               /\ saved.state = "WAITING_USER_DISAMBIGUATE" => saved.tries <= 2 /\ workflow = Technical
    <2>1. saved.state \in FirstStates \cup SecondStates /\ Asks(saved.state, saved.tries)
      BY <1>1, <1>3, AdvancingIs
    <2>2. /\ StepsOf(workflow)[saved.state].max \in 2..4
          /\ saved.state = "WAITING_USER_DISAMBIGUATE" => StepsOf(workflow)[saved.state].max = 3 /\ workflow = Technical
      BY <1>2, <1>3, StepsAre DEF Awaiting
    <2> QED  BY <1>2, <2>1, <2>2 DEF Asks
  <1>4. Awaiting => saved.tries + 1 \in 0..4
    <2>1. ASSUME Awaiting, saved.tries = 4 PROVE FALSE
      <3>1. saved.state = "WAITING_USER_CLIENT" /\ "WAITING_USER_CLIENT" \in DOMAIN StepsOf(workflow)
            /\ StepsOf(workflow)["WAITING_USER_CLIENT"].max = 4
        BY <1>3, <2>1 DEF Asks, Awaiting
      <3>2. "WAITING_USER_CLIENT" \in DOMAIN StepsOf(workflow) => StepsOf(workflow)["WAITING_USER_CLIENT"].max = 3
        BY <1>2 DEF WorkflowTypes, StepsOf, SupportSteps, SalesSteps, BillingSteps, RelocationSteps, InquirySteps, AskClient,
                    Step, Technical, Money, Moving
      <3> QED  BY <3>1, <3>2
    <2> QED  BY <1>2, <2>1
  <1>5. CASE FirstMessage(msg)
    <2>1. ~Awaiting /\ Begin(msg, saved.state, saved.data, saved.tries)
      BY <1>5 DEF FirstMessage
    <2>2. saved.tries = 0 /\ saved.state \in FirstStates
      BY <1>1, <2>1, AdvancingIs
    <2> QED  BY <1>2, <2>1, <2>2, BeginKeeps
  <1>6. CASE CorrectId(msg)
    <2> DEFINE d == [saved.data EXCEPT !.client = msg.id, !.pending = NoClient, !.contract = NoClient]
    <2>1. Awaiting /\ saved.state = "WAITING_USER_DISAMBIGUATE" /\ msg.id # NoClient /\ Begin(msg, "VALIDATE_CLIENT", d, saved.tries)
      BY <1>6 DEF CorrectId, Corrects
    <2>2. msg.id \in Clients \cup {NoClient}
      BY DEF WorkflowMessages
    <2>3. d \in Datum /\ d.pending = NoClient /\ d.contract = NoClient /\ d.rounds = saved.data.rounds
      BY <1>2, <2>2 DEF Datum
    <2> HIDE DEF d
    <2>4. Good("VALIDATE_CLIENT", d) /\ d.rounds <= 2
      BY <1>2, <2>3 DEF Good
    <2>5. saved.tries \in 0..2 /\ workflow = Technical
      BY <1>2, <1>3, <2>1
    <2>6. "VALIDATE_CLIENT" \in FirstStates
      BY DEF FirstStates
    <2> QED  BY <2>1, <2>4, <2>5, <2>6, BeginKeeps
  <1>7. CASE Guardrail(msg)
    <2>1. Awaiting /\ Decide(msg, "ESCALATED", saved.tries + 1)
      BY <1>7 DEF Guardrail
    <2> QED  BY <1>1, <1>4, <2>1, DecideKeeps
  <1>8. CASE Incomplete(msg)
    <2> DEFINE step == StepsOf(workflow)[saved.state]
    <2>1. PICK n \in {saved.tries, saved.tries + 1} : Decide(msg, IF n >= step.max THEN "ESCALATED" ELSE "WAITING_USER", n)
      BY <1>8 DEF Incomplete
    <2>2. Awaiting
      BY <1>8 DEF Incomplete
    <2>3. n \in 0..4 /\ step.max \in 2..4
      BY <1>2, <1>3, <1>4, <2>2
    <2> HIDE DEF step
    <2>4. CASE n >= step.max
      BY <1>1, <2>1, <2>2, <2>3, <2>4, DecideKeeps
    <2>5. CASE ~(n >= step.max)
      <3>1. n < step.max /\ Decide(msg, "WAITING_USER", n)
        BY <2>1, <2>3, <2>5
      <3> QED  BY <1>1, <2>2, <2>3, <3>1, DecideKeeps DEF step
    <2> QED  BY <2>4, <2>5
  <1>9. CASE Answered(msg)
    <2>1. Awaiting /\ Begin(msg, saved.state, saved.data, 0)
      BY <1>9 DEF Answered
    <2> QED  BY <1>2, <1>3, <2>1, BeginKeeps
  <1> QED  BY <1>5, <1>6, <1>7, <1>8, <1>9

\* Somebody moves the case: the run becomes stale, and the case is not the engine's.
LEMMA TakenKeeps ==
    ASSUME EngineInv, Taken
    PROVE  EngineInv'
  <1>1. run \in Run /\ run' = [run EXCEPT !.stale = run.on] /\ standing' \in {"HUMAN_ACTIVE", "CANCELLED"}
    BY DEF EngineInv, RunInv, Taken
  <1>2. /\ run' \in Run /\ run'.on = run.on /\ run'.state = run.state /\ run'.data = run.data /\ run'.tries = run.tries
        /\ run'.steps = run.steps /\ run'.outcome = run.outcome
    BY <1>1 DEF Run
  <1>3. run = Idle => run' = Idle
    BY <1>1, IdleStays
  <1>4. UNCHANGED <<workflow, saved, pointed, remembered, known, borrowed>>
    BY DEF Taken
  <1>5. RunInv'
    BY <1>2, <1>3, <1>4 DEF EngineInv, RunInv, RunEnds, Good, Asks, Near
  <1>6. SavedInv'
    BY <1>1, <1>4 DEF EngineInv, SavedInv, Good
  <1>7. CaseTypes'
    BY <1>1, <1>4 DEF EngineInv, CaseTypes
  <1> QED  BY <1>4, <1>5, <1>6, <1>7 DEF EngineInv

LEMMA IdleKeeps ==
    ASSUME run' = Idle
    PROVE  RunInv'
  <1>1. ~Idle.on
    BY DEF Idle
  <1> QED  BY <1>1, IdleIs DEF RunInv

\* The outcome of a run that nobody overtook: its steps are not used up.
LEMMA StoreKeeps ==
    ASSUME EngineInv, Store
    PROVE  EngineInv'
  <1>1. /\ run \in Run /\ run.on /\ RunEnds(run.state, run.data, run.tries, run.steps, run.outcome)
        /\ run.outcome # "none" \/ run.steps = MaxStepsPerRun
        /\ workflow' = workflow /\ borrowed' = borrowed
    BY DEF EngineInv, RunInv, Store
  <1>2. run.steps \in 0..3 /\ run.outcome \in {"none", "WAITING_USER", "COMPLETED", "ESCALATED"}
    BY <1>1 DEF Run
  <1>3. run.outcome # "none"
    BY <1>1, <1>2 DEF MaxStepsPerRun
  <1>4. /\ saved' = [state |-> run.state, data |-> run.data, tries |-> run.tries] /\ standing' = run.outcome
        /\ pointed' = CASE run.outcome = "WAITING_USER" -> TRUE
                        [] run.outcome \in {"COMPLETED", "ESCALATED"} -> FALSE
                        [] run.outcome = "ACTIVE" -> pointed
        /\ run' = Idle /\ UNCHANGED <<workflow, remembered, known, borrowed>>
    BY <1>3 DEF Store
  <1>5. pointed' \in BOOLEAN /\ (run.outcome = "WAITING_USER" => pointed')
    BY <1>2, <1>3, <1>4
  <1>6. /\ saved' \in Saved /\ saved'.state = run.state /\ saved'.data = run.data /\ saved'.tries = run.tries
    BY <1>1, <1>4 DEF RunEnds, Good, Saved
  <1>7. SavedInv'
    BY <1>1, <1>2, <1>3, <1>4, <1>5, <1>6 DEF SavedInv, RunEnds, Good, Asks
  <1>8. CaseTypes'
    BY <1>2, <1>3, <1>4, <1>5 DEF EngineInv, CaseTypes
  <1> QED  BY <1>4, <1>7, <1>8, IdleKeeps DEF EngineInv

LEMMA ConflictKeeps ==
    ASSUME EngineInv, Conflict
    PROVE  EngineInv'
  <1>1. run' = Idle /\ UNCHANGED <<workflow, saved, standing, pointed, remembered, known, borrowed>>
    BY DEF Conflict
  <1>2. CaseTypes' /\ SavedInv' /\ borrowed' \in BOOLEAN
    BY <1>1 DEF EngineInv, CaseTypes, SavedInv, Good, Asks
  <1> QED  BY <1>1, <1>2, IdleKeeps DEF EngineInv

\* The data of the case are refreshed while no run is in progress.
LEMMA RefreshKeeps ==
    ASSUME EngineInv, NEW d, Refresh(d), d \in Datum, d.rounds <= saved.data.rounds,
           d.pending = saved.data.pending,
           saved.data.client # NoClient => d.client = saved.data.client,
           workflow = Money => d.contract = NoClient,
           \/ borrowed' = TRUE
           \/ borrowed' = borrowed /\ (borrowed \/ (d.contract \in {NoClient, d.client} /\ d.pending \in {NoClient, d.client}))
    PROVE  EngineInv'
  <1>1. ~run.on /\ saved' = [saved EXCEPT !.data = d] /\ UNCHANGED <<workflow, standing, pointed, remembered, known, run>>
    BY DEF Refresh
  <1>2. saved \in Saved /\ Good(saved.state, saved.data) /\ saved.data \in Datum
    BY DEF EngineInv, SavedInv, Good
  <1>3. saved' \in Saved /\ saved'.state = saved.state /\ saved'.data = d /\ saved'.tries = saved.tries
    BY <1>1, <1>2 DEF Saved
  <1>4. Good(saved.state, d)'
    BY <1>1, <1>2, <1>3 DEF Good
  <1>5. d.rounds \in 0..3 /\ saved.data.rounds \in 0..3
    BY <1>2 DEF Datum
  <1>6. SavedInv'
    BY <1>1, <1>2, <1>3, <1>4, <1>5 DEF EngineInv, SavedInv, Asks
  <1>7. RunInv'
    <2>1. run = Idle /\ run' = Idle
      BY <1>1 DEF EngineInv, RunInv
    <2> QED  BY <2>1, IdleKeeps
  <1>8. CaseTypes' /\ borrowed' \in BOOLEAN
    BY <1>1 DEF EngineInv, CaseTypes
  <1> QED  BY <1>6, <1>7, <1>8 DEF EngineInv

LEMMA OfficeStepKeeps ==
    ASSUME EngineInv, OfficeStep
    PROVE  EngineInv'
  <1>1. /\ saved \in Saved /\ Good(saved.state, saved.data) /\ saved.data \in Datum
        /\ remembered \in Clients \cup {NoClient} /\ saved.data.rounds \in 0..3
    <2>1. saved \in Saved /\ Good(saved.state, saved.data) /\ saved.data \in Datum /\ remembered \in Clients \cup {NoClient}
      BY DEF EngineInv, SavedInv, CaseTypes, Good
    <2> QED  BY <2>1 DEF Datum
  <1>2. OfficeId \in Clients \cup {NoClient} /\ (saved.data.client # NoClient => OfficeId = saved.data.client)
    BY <1>1 DEF OfficeId, Datum
  <1>3. Stored \subseteq Clients
    BY <1>1 DEF Stored
  <1>4. CASE SyncCaseData
    <2> DEFINE contract == IF Contracts[OfficeId] > 0 /\ UsesContract THEN OfficeId ELSE saved.data.contract
               d == [saved.data EXCEPT !.client = OfficeId, !.contract = contract]
    <2>1. Refresh(d) /\ borrowed' = borrowed /\ OfficeId # NoClient
      BY <1>4 DEF SyncCaseData
    <2>2. contract \in Clients \cup {NoClient} /\ contract \in {OfficeId, saved.data.contract}
      BY <1>1, <1>2 DEF Datum
    <2>3. workflow = Money => contract = NoClient
      BY <1>1 DEF Good, UsesContract
    <2> HIDE DEF contract
    <2>4. /\ d \in Datum /\ d.client = OfficeId /\ d.contract = contract /\ d.pending = saved.data.pending
          /\ d.rounds = saved.data.rounds
      BY <1>1, <1>2, <2>2 DEF Datum
    <2> HIDE DEF d
    <2>5. borrowed \/ (d.contract \in {NoClient, d.client} /\ d.pending \in {NoClient, d.client})
      BY <1>1, <1>2, <2>2, <2>4 DEF Good
    <2>6. saved.data.client # NoClient => d.client = saved.data.client
      BY <1>2, <2>4
    <2>7. d.rounds <= saved.data.rounds /\ (workflow = Money => d.contract = NoClient)
      BY <1>1, <2>3, <2>4
    <2> QED  BY <2>1, <2>4, <2>5, <2>6, <2>7, RefreshKeeps
  <1>5. CASE SyncFromStored
    <2>1. PICK c \in Stored : Refresh([saved.data EXCEPT !.client = OfficeId, !.contract = c]) /\ borrowed' = TRUE
      BY <1>5 DEF SyncFromStored
    <2> DEFINE d == [saved.data EXCEPT !.client = OfficeId, !.contract = c]
    <2>2. /\ d \in Datum /\ d.client = OfficeId /\ d.contract = c /\ d.pending = saved.data.pending
          /\ d.rounds = saved.data.rounds
      BY <1>1, <1>2, <1>3 DEF Datum
    <2>3. workflow # Money
      BY <1>5 DEF SyncFromStored, UsesContract
    <2>4. Refresh(d)
      BY <2>1
    <2> HIDE DEF d
    <2>5. saved.data.client # NoClient => d.client = saved.data.client
      BY <1>2, <2>2
    <2> QED  BY <1>1, <2>1, <2>2, <2>3, <2>4, <2>5, RefreshKeeps
  <1>6. CASE SyncCaseBalance
    <2>1. /\ run' = [run EXCEPT !.stale = run.on] /\ run \in Run
          /\ UNCHANGED <<workflow, saved, standing, pointed, remembered, known, borrowed>>
      BY <1>6 DEF SyncCaseBalance, EngineInv, RunInv
    <2>2. /\ run' \in Run /\ run'.on = run.on /\ run'.state = run.state /\ run'.data = run.data /\ run'.tries = run.tries
          /\ run'.steps = run.steps /\ run'.outcome = run.outcome
      BY <2>1 DEF Run
    <2>3. run = Idle => run' = Idle
      BY <2>1, IdleStays
    <2>4. RunInv'
      BY <2>1, <2>2, <2>3 DEF EngineInv, RunInv, RunEnds, Good, Asks, Near
    <2> QED  BY <2>1, <2>4 DEF EngineInv, CaseTypes, SavedInv, Good, Asks
  <1>7. CASE TriggerCaseDiagnostic
    <2>1. workflow # Money
      BY <1>7 DEF TriggerCaseDiagnostic, UsesContract
    <2>2. CASE Refresh([saved.data EXCEPT !.rounds = 0]) /\ borrowed' = borrowed
      <3> DEFINE d == [saved.data EXCEPT !.rounds = 0]
      <3>1. /\ d \in Datum /\ d.client = saved.data.client /\ d.contract = saved.data.contract /\ d.pending = saved.data.pending
            /\ d.rounds = 0
        BY <1>1 DEF Datum
      <3>2. Refresh(d)
        BY <2>2
      <3> HIDE DEF d
      <3>3. borrowed \/ (d.contract \in {NoClient, d.client} /\ d.pending \in {NoClient, d.client})
        BY <1>1, <3>1 DEF Good
      <3>4. d.rounds <= saved.data.rounds
        BY <1>1, <3>1
      <3> QED  BY <2>1, <2>2, <3>1, <3>2, <3>3, <3>4, RefreshKeeps
    <2>3. ASSUME NEW c \in Stored, Refresh([saved.data EXCEPT !.contract = c, !.rounds = 0]), borrowed' = TRUE PROVE EngineInv'
      <3>0. PICK k \in Clients \cup {NoClient} : k = c
        BY <1>3
      <3>5. PICK zero \in 0..3 : zero = 0
        OBVIOUS
      <3> DEFINE d == [saved.data EXCEPT !.contract = k, !.rounds = zero]
      <3>1. /\ d \in Datum /\ d.client = saved.data.client /\ d.pending = saved.data.pending /\ d.rounds = zero
        <4>1. saved.data \in Datum
          BY <1>1
        <4> QED  BY <4>1 DEF Datum
      <3>2. Refresh(d)
        BY <2>3, <3>0, <3>5
      <3> HIDE DEF d
      <3>3. d.rounds <= saved.data.rounds
        BY <1>1, <3>1, <3>5
      <3> QED  BY <2>1, <2>3, <3>1, <3>2, <3>3, RefreshKeeps
    <2> QED  BY <1>7, <2>2, <2>3 DEF TriggerCaseDiagnostic
  <1> QED  BY <1>4, <1>5, <1>6, <1>7 DEF OfficeStep

LEMMA HandlersKeep ==
    ASSUME EngineInv, Handler
    PROVE  EngineInv'
  <1>1. CASE \/ SupportKnown \/ SupportReuse \/ SupportAskId \/ SupportLookup \/ Disambiguate
             \/ CheckClientStatus \/ SupportBalance \/ RespondDebt
    BY <1>1, KnownKeeps, SupportReuseKeeps, AskIdKeeps, SupportLookupKeeps, DisambiguateKeeps, CheckClientStatusKeeps,
       SupportBalanceKeeps, EndingKeeps
  <1>2. CASE Diagnostic \/ ContinueDiagnostic
    BY <1>2, DiagnoseKeeps DEF Diagnostic, ContinueDiagnostic
  <1>3. CASE CollectPreference \/ WaitingLocation \/ QueryPlans \/ RespondOffer \/ WaitingUpgrade
    BY <1>3, CollectPreferenceKeeps, WaitingLocationKeeps, QueryPlansKeeps, RespondOfferKeeps, EndingKeeps
  <1>4. CASE \/ BillingMethods \/ BillingReuse \/ BillingAskId \/ BillingLookup \/ BillingBalance
             \/ BillingRespond \/ WaitingReceipt \/ RecordPayment \/ RespondPaymentMethods
    BY <1>4, BillingFirstKeeps, BillingReuseKeeps, BillingLookupKeeps, BillingBalanceKeeps, EndingKeeps, WaitingReceiptKeeps,
       RespondPaymentMethodsKeeps
  <1>5. CASE \/ RelocationKnown \/ RelocationReuse \/ RelocationAskId \/ RelocationLookup
             \/ GatherRelocationDetails \/ CreateTicketAndEscalate
    BY <1>5, KnownKeeps, RelocationReuseKeeps, AskIdKeeps, RelocationLookupKeeps, GatherRelocationDetailsKeeps, EndingKeeps
  <1>6. CASE QueryKnowledgeBase \/ RespondAnswer \/ WaitingUserSpecialist
    BY <1>6, QueryKnowledgeBaseKeeps, EndingKeeps, WaitingUserSpecialistKeeps
  <1> QED  BY <1>1, <1>2, <1>3, <1>4, <1>5, <1>6 DEF Handler

LEMMA WorkflowsNextKeeps ==
    ASSUME EngineInv, [WorkflowsNext]_wfVars
    PROVE  EngineInv'
  <1>1. CASE UNCHANGED wfVars
    BY <1>1 DEF wfVars, EngineInv, CaseTypes, RunInv, SavedInv, RunEnds, Good, Asks
  <1>2. CASE Receive
    BY <1>2, ReceiveKeeps DEF Receive
  <1> QED  BY <1>1, <1>2, HandlersKeep, OfficeStepKeeps, TakenKeeps, StoreKeeps, ConflictKeeps DEF WorkflowsNext

LEMMA WorkflowsInitHolds ==
    ASSUME WorkflowsInit
    PROVE  EngineInv
  <1>1. InitialState(workflow) \in States /\ InitialState(workflow) # "WAITING_USER_DISAMBIGUATE"
    BY DEF WorkflowsInit, InitialState, WorkflowTypes, States, FirstStates, Technical, Money, Moving
  <1>2. NoData \in Datum /\ NoData.rounds = 0 /\ NoData.pending = NoClient /\ NoData.contract = NoClient
    BY DEF NoData, Datum
  <1>3. /\ saved.state = InitialState(workflow) /\ saved.data = NoData /\ saved.tries = 0 /\ saved \in Saved
    BY <1>1, <1>2 DEF WorkflowsInit, Saved
  <1>4. SavedInv
    BY <1>1, <1>2, <1>3 DEF WorkflowsInit, SavedInv, Good
  <1>5. CaseTypes
    BY DEF WorkflowsInit, CaseTypes
  <1>6. RunInv
    BY IdleIs DEF WorkflowsInit, RunInv, Idle
  <1> QED  BY <1>4, <1>5, <1>6 DEF WorkflowsInit, EngineInv

\* Whatever ids the customer types and corrects, the contract that is diagnosed and
\* those on offer are the ones of the client of the case, unless an agent's action
\* fell back on the contracts of the conversation.
THEOREM ContractIsOfClient == WorkflowsSpec => []ContractOfClient
  <1>1. EngineInv => ContractOfClient
    <2> SUFFICES ASSUME EngineInv, ~borrowed, NEW d \in {saved.data, run.data}
                 PROVE  d.contract \in {NoClient, d.client} /\ d.pending \in {NoClient, d.client}
      BY DEF ContractOfClient
    <2>1. CASE d = saved.data
      BY <2>1 DEF EngineInv, SavedInv, Good
    <2>2. CASE d = run.data /\ run.on
      BY <2>2 DEF EngineInv, RunInv, RunEnds, Good
    <2>3. CASE d = run.data /\ ~run.on
      BY <2>3, IdleIs DEF EngineInv, RunInv, Idle, NoData
    <2> QED  BY <2>1, <2>2, <2>3
  <1> QED  BY <1>1, WorkflowsInitHolds, WorkflowsNextKeeps, PTL DEF WorkflowsSpec

\* A run ends by the outcome of a handler and never by the limit of steps, and a
\* case that waits is the active one of its conversation, in a state with a waiting
\* step and within the attempts it allows.
THEOREM NextMessageIsHandled == WorkflowsSpec => []WaitsWithinLimits
  <1>1. EngineInv => WaitsWithinLimits
    <2> SUFFICES ASSUME EngineInv PROVE WaitsWithinLimits
      OBVIOUS
    <2>1. run.steps < MaxStepsPerRun
      BY DEF EngineInv, RunInv, Run, MaxStepsPerRun
    <2>2. standing = "WAITING_USER" => Asks(saved.state, saved.tries) /\ pointed
      BY DEF EngineInv, SavedInv
    <2> QED  BY <2>1, <2>2 DEF WaitsWithinLimits, Asks
  <1> QED  BY <1>1, WorkflowsInitHolds, WorkflowsNextKeeps, PTL DEF WorkflowsSpec
=============================================================================
