----------------------------- MODULE CasesProofs ------------------------------
(***************************************************************************)
(* Theorems about a case and its conversation: the batches that write to   *)
(* cases, the calls of actions, the deliveries of messages, the senders of *)
(* channels and the message templates, for every value of the constants.   *)
(* The module WorkflowsProofs proves the inside of a case.                 *)
(***************************************************************************)
EXTENDS MCCases, WorkflowsProofs,
        SequenceTheorems, FiniteSetTheorems, WellFoundedInduction, TLAPS

-----------------------------------------------------------------------------
(* A set of numbers *)

LEMMA TopOf ==
    ASSUME NEW n \in Nat, NEW S \in SUBSET (1..n), S # {}
    PROVE  \E top \in S : \A o \in S : o <= top
  <1> DEFINE below == {n - c : c \in S}
  <1>1. n \in Nat /\ \A c \in S : c \in 1..n
    OBVIOUS
  <1>2. below \subseteq Nat /\ below # {}
    <2>1. ASSUME NEW c \in S PROVE n - c \in Nat
      <3>1. c \in Int /\ 1 <= c /\ c <= n
        BY <1>1
      <3> QED  BY <1>1, <3>1
    <2> QED  BY <2>1
  <1>3. PICK x \in below : \A y \in below : <<y, x>> \notin OpToRel(<, Nat)
    <2> HIDE DEF below
    <2> QED  BY <1>2, NatLessThanWellFounded, WFMin
  <1>4. PICK top \in S : x = n - top
    OBVIOUS
  <1>5. ASSUME NEW o \in S PROVE o <= top
    <2>1. n - o \in below
      OBVIOUS
    <2>2. ~(n - o < n - top)
      BY <1>2, <1>3, <1>4, <2>1 DEF OpToRel
    <2> QED  BY <1>1, <2>2
  <1> QED  BY <1>5

-----------------------------------------------------------------------------
(* Routing: what holds between the steps of a batch *)

Abouts == Topics \cup {"unbuilt", "people", "unknown", "triage", "none"}
CaseStatuses == {"none", "NEW", "PAUSED"} \cup Automated \cup Human \cup Terminal
Case == [topic : Abouts, status : CaseStatuses, enabled : BOOLEAN, owned : BOOLEAN,
         due : BOOLEAN, schedule : {"none", "set", "noted"}, row : BOOLEAN]
TurnStages == {"idle", "gates", "interpret", "clarify", "human", "activate", "open", "payment",
               "receipt", "advance", "reply", "done", "quiet", "fallback"}
Saying == [kind : {"ANSWER", "DENY", "NEW_INTENT", "REQUEST_HUMAN", "UNCLEAR"}, about : Abouts,
           sure : BOOLEAN, payment : {"no", "told", "shown", "complete"}]
CaseOrNone == {0} \cup CaseSlots
Turn == [at : TurnStages, said : Saying, active : CaseOrNone, on : CaseOrNone, pause : CaseOrNone,
         resume : CaseOrNone, reply : {"none", "clarify", "person", "photo", "receipt", "outcome"},
         touched : SUBSET CaseOrNone, disturbed : BOOLEAN, again : BOOLEAN, threw : BOOLEAN,
         dropped : BOOLEAN]
Tellings == {"none", "asked", "announced", "twice"}

RoutingTypes ==
    /\ cases \in [CaseSlots -> Case] /\ freshest \in [CaseSlots -> Nat]
    /\ pointer \in CaseOrNone /\ turn \in Turn /\ reminder \in CaseOrNone
    /\ reminders \in [CaseSlots -> Tellings] /\ handedBack \in BOOLEAN /\ seized \in SUBSET CaseSlots

\* The cases fill the slots in order; a batch has the room for the case it may create.
SlotsFill ==
    /\ \A c \in CaseSlots : cases[c].status = "none" => cases[c] = Unborn
    /\ \E k \in 0..MaxCases : Born = 1..k
    /\ turn.at \in {"gates", "interpret", "clarify", "human", "activate", "open"} => Unborns # {}

\* The cases a batch is about are cases; what it has seen of them, undisturbed.
TurnKnows ==
    /\ {turn.on, turn.pause, turn.resume, turn.active, reminder} \subseteq {0} \cup Born
    /\ turn.at \in {"payment", "receipt", "advance"} => turn.on # 0
    /\ turn.at \in {"activate", "open"} /\ turn.resume # 0 /\ ~turn.disturbed =>
          cases[turn.resume].status = "PAUSED"

\* Who asked for a schedule has not been reminded of it.
AskedOnce ==
    /\ \A c \in CaseSlots : cases[c].schedule = "set" => reminders[c] = "asked"
    /\ reminder # 0 => reminders[reminder] = "asked"
    /\ RemindedOnce

\* What the bot serves while it goes from one case to another.
OneServed ==
    ~handedBack /\ seized = {} =>
        /\ \A c, d \in Serving : c = d
        /\ turn.at = "advance" /\ cases[turn.on].enabled => Serving \subseteq {turn.on}
        /\ turn.at = "activate" =>
              Serving \subseteq {turn.pause} \/ (turn.pause # 0 /\ ~cases[turn.pause].enabled)
        /\ turn.at = "open" => Serving = {}

\* A paused case is nobody's, nor is the case the bot speaks about.
PausedIsFree ==
    \A c \in CaseSlots : cases[c].status = "PAUSED" /\ cases[c].owned => c \in seized
NobodyHas ==
    (turn.at \in {"interpret", "advance", "activate", "clarify", "open"}
     /\ ~turn.disturbed /\ ~turn.dropped)
        => \A c \in Open \ seized : c = pointer \/ pointer \notin Open => ~WithPerson(cases[c])

RoutingInv ==
    /\ RoutingTypes /\ SlotsFill /\ TurnKnows /\ AskedOnce /\ OneServed /\ PausedIsFree
    /\ NobodyHas /\ PromisedPersonIsThere

-----------------------------------------------------------------------------
(* Slots, rows and ranks *)

LEMMA Slots == 0 \notin CaseSlots /\ CaseSlots \subseteq Nat /\ MaxCases \in Nat
  BY MaxCasesAssumption DEF CaseSlots

LEMMA NewestIs ==
    ASSUME NEW S \in SUBSET CaseSlots, S # {}
    PROVE  Newest(S) \in S
  <1>1. \E top \in S : \A o \in S : o <= top
    BY TopOf, MaxCasesAssumption DEF CaseSlots
  <1> QED  BY <1>1 DEF Newest

LEMMA FreshestIs ==
    ASSUME freshest \in [CaseSlots -> Nat], NEW S \in SUBSET CaseSlots
    PROVE  IF S = {} THEN FreshestOf(S) = 0 ELSE FreshestOf(S) \in S
  <1>1. CASE S = {}
    BY <1>1 DEF FreshestOf
  <1>2. CASE S # {}
    <2> DEFINE ranks == {freshest[c] : c \in S}
    <2>1. ranks \subseteq Nat /\ ranks # {}
      BY <1>2
    <2>2. PICK x \in ranks : \A y \in ranks : <<y, x>> \notin OpToRel(<, Nat)
      <3> HIDE DEF ranks
      <3> QED  BY <2>1, NatLessThanWellFounded, WFMin
    <2>3. PICK c \in S : x = freshest[c]
      OBVIOUS
    <2>4. ASSUME NEW d \in S PROVE freshest[c] <= freshest[d]
      <3>1. freshest[d] \in ranks /\ freshest[c] \in Nat /\ freshest[d] \in Nat
        BY <2>1
      <3>2. ~(freshest[d] < freshest[c])
        BY <2>2, <2>3, <3>1 DEF OpToRel
      <3> QED  BY <3>1, <3>2
    <2>5. \E e \in S : \A d \in S : freshest[e] <= freshest[d]
      BY <2>4
    <2> QED  BY <1>2, <2>5 DEF FreshestOf
  <1> QED  BY <1>1, <1>2

LEMMA FrontIs ==
    ASSUME freshest \in [CaseSlots -> Nat], NEW c \in CaseSlots
    PROVE  Front(c) \in [CaseSlots -> Nat]
  BY DEF Front

LEMMA CaseIs ==
    /\ Unborn \in Case /\ Unborn.status = "none" /\ Unborn.schedule = "none"
    /\ ~Unborn.enabled /\ ~Unborn.owned
    /\ \A topic \in Abouts :
          /\ Newborn(topic) \in Case /\ Newborn(topic).status = "NEW"
          /\ Newborn(topic).schedule = "none" /\ ~Newborn(topic).owned
    /\ Triage \in Case /\ Triage.status = "ESCALATED" /\ Triage.schedule = "none"
  <1>1. /\ Unborn \in Case /\ Unborn.status = "none" /\ Unborn.schedule = "none"
        /\ ~Unborn.enabled /\ ~Unborn.owned
    BY DEF Unborn, Case, Abouts, CaseStatuses
  <1>2. ASSUME NEW topic \in Abouts
        PROVE  /\ Newborn(topic) \in Case /\ Newborn(topic).status = "NEW"
               /\ Newborn(topic).schedule = "none" /\ ~Newborn(topic).owned
    BY <1>1 DEF Newborn, Case, CaseStatuses
  <1>3. "triage" \in Abouts
    BY DEF Abouts
  <1>4. Triage \in Case /\ Triage.status = "ESCALATED" /\ Triage.schedule = "none"
    BY <1>2, <1>3 DEF Triage, Case, CaseStatuses, Human
  <1> QED  BY <1>1, <1>2, <1>4

LEMMA MovedIs ==
    ASSUME NEW row \in Case, NEW status \in CaseStatuses
    PROVE  /\ Moved(row, status) \in Case /\ Moved(row, status).status = status
           /\ Moved(row, status).schedule = row.schedule /\ Moved(row, status).owned = row.owned
           /\ Moved(row, status).enabled = row.enabled /\ Moved(row, status).row = row.row
  BY DEF Moved, Case

LEMMA WriteIs ==
    ASSUME RoutingTypes, NEW c \in CaseSlots, NEW row \in Case, Write(c, row)
    PROVE  /\ cases' \in [CaseSlots -> Case] /\ freshest' \in [CaseSlots -> Nat]
           /\ cases'[c] = row /\ \A d \in CaseSlots : d # c => cases'[d] = cases[d]
  BY FrontIs DEF Write, RoutingTypes

LEMMA NextSlotIs ==
    ASSUME SlotsFill, Unborns # {}
    PROVE  /\ NextSlot \in CaseSlots /\ NextSlot \notin Born
           /\ \E k \in 0..MaxCases : Born \cup {NextSlot} = 1..k
  <1>1. PICK k \in 0..MaxCases : Born = 1..k
    BY DEF SlotsFill
  <1>2. Cardinality(Born) = k
    BY <1>1, FS_Interval
  <1>3. k # MaxCases
    BY <1>1 DEF Unborns, CaseSlots
  <1>4. NextSlot = k + 1 /\ k + 1 \in 0..MaxCases /\ k \in Nat
    BY <1>2, <1>3, MaxCasesAssumption DEF NextSlot
  <1>5. Born \cup {NextSlot} = 1..(k + 1)
    BY <1>1, <1>4
  <1> QED  BY <1>1, <1>4, <1>5, MaxCasesAssumption DEF CaseSlots

-----------------------------------------------------------------------------
(* Handing a case to people *)

LEMMA HandOverIs ==
    ASSUME RoutingTypes, NEW c \in CaseSlots, NEW row \in Case, HandOver(c, row) \/ Pool(c, row)
    PROVE  /\ cases' \in [CaseSlots -> Case] /\ freshest' \in [CaseSlots -> Nat]
           /\ pointer' \in {0, c} /\ ~cases'[c].enabled
           /\ cases'[c].status \in {row.status, "HUMAN_ACTIVE"} /\ cases'[c].schedule = row.schedule
           /\ cases'[c].owned => row.owned \/ cases'[c].status = "HUMAN_ACTIVE"
           /\ \A d \in CaseSlots : d # c => cases'[d] = cases[d]
  <1>1. CASE Pool(c, row)
    <2>1. PICK new \in Case : new = [row EXCEPT !.enabled = FALSE, !.row = TRUE]
      BY DEF Case
    <2>2. ~new.enabled /\ new.status = row.status /\ new.schedule = row.schedule /\ new.owned = row.owned
      BY <2>1 DEF Case
    <2> QED  BY <1>1, <2>1, <2>2, WriteIs DEF Pool
  <1>2. CASE HandOver(c, row) /\ ~Pool(c, row)
    <2>1. PICK new \in Case : new = [row EXCEPT !.enabled = FALSE, !.row = TRUE, !.owned = TRUE,
                                                !.status = "HUMAN_ACTIVE"]
      BY DEF Case, CaseStatuses, Human
    <2>2. ~new.enabled /\ new.status = "HUMAN_ACTIVE" /\ new.schedule = row.schedule
      BY <2>1 DEF Case
    <2> QED  BY <1>2, <2>1, <2>2, WriteIs DEF HandOver
  <1> QED  BY <1>1, <1>2

LEMMA EscalateExistingIs ==
    ASSUME RoutingTypes, NEW c \in CaseSlots, cases[c].status # "none", EscalateExisting(c)
    PROVE  /\ cases' \in [CaseSlots -> Case] /\ freshest' \in [CaseSlots -> Nat]
           /\ pointer' \in {0, c, pointer}
           /\ \A d \in CaseSlots : d # c => cases'[d] = cases[d]
           /\ cases' = cases \/ (~cases'[c].enabled /\ cases'[c].status \in Human)
           /\ cases[c].row \/ (~cases'[c].enabled /\ cases'[c].status \in Human)
           /\ cases'[c].schedule = cases[c].schedule
  <1>1. CASE cases[c].row
    BY <1>1 DEF EscalateExisting, RoutingTypes
  <1>2. CASE ~cases[c].row
    <2> DEFINE row == IF cases[c].status \in Human THEN cases[c] ELSE Moved(cases[c], "ESCALATED")
    <2>1. cases[c] \in Case /\ "ESCALATED" \in CaseStatuses /\ HandOver(c, row)
      BY <1>2 DEF EscalateExisting, RoutingTypes, CaseStatuses, Human
    <2>2. row \in Case /\ row.status \in Human /\ row.schedule = cases[c].schedule
      BY <2>1, MovedIs DEF Human
    <2> HIDE DEF row
    <2> QED  BY <2>1, <2>2, HandOverIs DEF Human
  <1> QED  BY <1>1, <1>2

LEMMA TriageIs ==
    ASSUME RoutingInv, Unborns # {}, SendToTriage \/ SendToDepartment
    PROVE  /\ cases' \in [CaseSlots -> Case] /\ freshest' \in [CaseSlots -> Nat]
           /\ pointer' \in {0, NextSlot} /\ ~cases'[NextSlot].enabled
           /\ cases'[NextSlot].status \in Human /\ cases'[NextSlot].schedule = "none"
           /\ \A d \in CaseSlots : d # NextSlot => cases'[d] = cases[d]
  <1>1. PICK c \in CaseSlots : c = NextSlot
    BY NextSlotIs DEF RoutingInv
  <1>2. Pool(c, Triage) \/ HandOver(c, Triage)
    BY <1>1 DEF SendToTriage, SendToDepartment
  <1> QED  BY <1>1, <1>2, CaseIs, HandOverIs DEF RoutingInv, Human

-----------------------------------------------------------------------------
(* A step that gives the bot no case *)

Settled(c) ==
    /\ cases'[c].schedule \in {cases[c].schedule, "none"}
    /\ cases'[c].status = "none" => cases'[c] = cases[c]
    /\ c \in Born /\ cases'[c].enabled => cases[c].enabled
    /\ cases'[c].status = "PAUSED" /\ cases'[c].owned =>
          c \in seized' \/ (cases[c].status = "PAUSED" /\ cases[c].owned)
Tame(c) ==
    /\ Settled(c)
    /\ cases'[c].status \in Automated /\ cases'[c].enabled => cases[c].status \in Automated /\ cases[c].enabled

Calm(c) ==
    /\ c \in Born /\ cases'[c].enabled => cases[c].enabled
    /\ cases'[c].status \in Automated /\ cases'[c].enabled => cases[c].status \in Automated /\ cases[c].enabled

LEMMA BornIs ==
    ASSUME RoutingTypes, SlotsFill
    PROVE  /\ \A c \in CaseSlots : c \in Born <=> cases[c].status # "none"
           /\ Born \subseteq CaseSlots /\ Open \subseteq Born
           /\ \A c : c \in Serving <=> c \in CaseSlots /\ cases[c].status \in Automated /\ cases[c].enabled
           /\ \A c \in CaseSlots : cases[c].status \in Automated \cup Human \cup {"PAUSED"} => c \in Open
  BY CaseIs DEF SlotsFill, Born, Open, Serving, Automated, Human, Terminal

LEMMA SettledIs ==
    ASSUME NEW c \in CaseSlots, cases'[c] = cases[c]
    PROVE  Tame(c)
  BY DEF Tame, Settled

\* One row changes, and it is that of a case or of the next slot.
LEMMA BornGrows ==
    ASSUME RoutingInv, NEW c \in CaseSlots, cases'[c].status # "none",
           \A d \in CaseSlots : d # c => cases'[d] = cases[d]
    PROVE  Born' = Born \cup {c}
  <1>1. cases'[c] # Unborn
    BY CaseIs
  <1> QED  BY <1>1 DEF Born

LEMMA SlotsKeep ==
    ASSUME RoutingInv, \A c \in CaseSlots : Settled(c),
           Born' = Born \/ (Unborns # {} /\ Born' = Born \cup {NextSlot}),
           turn'.at \in {"gates", "interpret", "clarify", "human", "activate", "open"} => Unborns' # {}
    PROVE  SlotsFill'
  <1>1. \A c \in CaseSlots : cases'[c].status = "none" => cases'[c] = Unborn
    BY DEF RoutingInv, SlotsFill, Settled
  <1>2. \E k \in 0..MaxCases : Born' = 1..k
    BY NextSlotIs DEF RoutingInv, SlotsFill
  <1> QED  BY <1>1, <1>2 DEF SlotsFill

LEMMA AskedKeep ==
    ASSUME RoutingInv, \A c \in CaseSlots : Settled(c), UNCHANGED <<reminder, reminders>>
    PROVE  AskedOnce'
  BY DEF RoutingInv, AskedOnce, RemindedOnce, Settled

LEMMA ServingShrinks ==
    ASSUME RoutingInv, RoutingTypes', SlotsFill', \A c \in CaseSlots : Calm(c)
    PROVE  Serving' \subseteq Serving
  <1>1. \A c : c \in Serving <=> c \in CaseSlots /\ cases[c].status \in Automated /\ cases[c].enabled
    BY BornIs DEF RoutingInv
  <1>2. \A c : c \in Serving' => c \in CaseSlots /\ cases'[c].status \in Automated /\ cases'[c].enabled
    BY DEF Serving, Born
  <1> QED  BY <1>1, <1>2 DEF Calm

LEMMA ServedKeep ==
    ASSUME RoutingInv, RoutingTypes', SlotsFill', \A c \in CaseSlots : Calm(c),
           handedBack' = handedBack, seized \subseteq seized',
           turn'.at \in {"advance", "activate", "open"} =>
               turn'.at = turn.at /\ turn'.on = turn.on /\ turn'.pause = turn.pause
    PROVE  OneServed'
  <1> SUFFICES ASSUME ~handedBack, seized = {}, seized' = {}
               PROVE  /\ \A c, d \in Serving' : c = d
                      /\ turn'.at = "advance" /\ cases'[turn'.on].enabled => Serving' \subseteq {turn'.on}
                      /\ turn'.at = "activate" =>
                            Serving' \subseteq {turn'.pause}
                            \/ (turn'.pause # 0 /\ ~cases'[turn'.pause].enabled)
                      /\ turn'.at = "open" => Serving' = {}
    BY DEF OneServed
  <1>1. Serving' \subseteq Serving
    BY ServingShrinks
  <1>2. /\ \A c, d \in Serving : c = d
        /\ turn.at = "advance" /\ cases[turn.on].enabled => Serving \subseteq {turn.on}
        /\ turn.at = "activate" =>
              Serving \subseteq {turn.pause} \/ (turn.pause # 0 /\ ~cases[turn.pause].enabled)
        /\ turn.at = "open" => Serving = {}
    BY DEF RoutingInv, OneServed
  <1>3. turn'.at = "advance" /\ cases'[turn'.on].enabled => Serving' \subseteq {turn'.on}
    <2>1. SUFFICES ASSUME turn'.at = "advance", cases'[turn'.on].enabled
                   PROVE  Serving' \subseteq {turn'.on}
      OBVIOUS
    <2>2. turn.on \in Born /\ turn.at = "advance" /\ turn'.on = turn.on
      BY <2>1 DEF RoutingInv, TurnKnows
    <2>3. cases[turn.on].enabled
      BY <2>1, <2>2 DEF Calm, Born
    <2> QED  BY <1>1, <1>2, <2>2, <2>3
  <1>4. turn'.at = "activate" =>
            Serving' \subseteq {turn'.pause} \/ (turn'.pause # 0 /\ ~cases'[turn'.pause].enabled)
    <2>1. SUFFICES ASSUME turn'.at = "activate", turn.pause # 0, ~cases[turn.pause].enabled
                   PROVE  ~cases'[turn.pause].enabled
      BY <1>1, <1>2
    <2>2. turn.pause \in Born
      BY <2>1 DEF RoutingInv, TurnKnows
    <2> QED  BY <2>1, <2>2 DEF Calm, Born
  <1> QED  BY <1>1, <1>2, <1>3, <1>4

\* The turn goes where the bot says nothing on its own.
LEMMA Ends ==
    ASSUME RoutingInv, RoutingTypes', \A c \in CaseSlots : Tame(c),
           Born' = Born \/ (Unborns # {} /\ Born' = Born \cup {NextSlot}),
           UNCHANGED <<reminder, reminders, handedBack>>, seized \subseteq seized',
           turn'.at \notin {"advance", "activate", "open"},
           turn'.at \in {"gates", "interpret", "clarify", "human"} => Unborns' # {},
           turn'.at \in {"payment", "receipt"} => turn'.on # 0,
           {turn'.on, turn'.pause, turn'.resume, turn'.active} \subseteq {0} \cup Born',
           turn'.at \in {"interpret", "clarify"} => NobodyHas', PromisedPersonIsThere'
    PROVE  RoutingInv'
  <1>1. SlotsFill'
    BY SlotsKeep DEF Tame
  <1>2. AskedOnce' /\ OneServed'
    BY <1>1, AskedKeep, ServedKeep DEF Tame, Settled, Calm
  <1>3. TurnKnows'
    BY DEF RoutingInv, TurnKnows
  <1>4. PausedIsFree' /\ NobodyHas'
    BY DEF RoutingInv, PausedIsFree, NobodyHas, Tame, Settled
  <1> QED  BY <1>1, <1>2, <1>3, <1>4 DEF RoutingInv

\* A step that is no part of a batch.
LEMMA Meanwhile ==
    ASSUME RoutingInv, RoutingTypes', \A c \in CaseSlots : Tame(c), Born' = Born,
           UNCHANGED <<reminder, reminders, handedBack, seized>>,
           turn'.at = turn.at, turn'.on = turn.on, turn'.pause = turn.pause, turn'.resume = turn.resume,
           turn'.active = turn.active, turn'.disturbed
    PROVE  RoutingInv'
  <1>1. Unborns' = Unborns
    BY DEF Unborns
  <1>2. SlotsFill'
    BY <1>1, SlotsKeep DEF RoutingInv, SlotsFill, Tame
  <1>3. AskedOnce' /\ OneServed'
    BY <1>2, AskedKeep, ServedKeep DEF Tame, Settled, Calm
  <1>4. TurnKnows'
    BY DEF RoutingInv, TurnKnows
  <1>5. PausedIsFree' /\ NobodyHas'
    BY DEF RoutingInv, PausedIsFree, NobodyHas, Tame, Settled
  <1>6. PromisedPersonIsThere'
    BY DEF PromisedPersonIsThere
  <1> QED  BY <1>2, <1>3, <1>4, <1>5, <1>6 DEF RoutingInv

-----------------------------------------------------------------------------
(* The turn *)

LEMMA TurnIs ==
    /\ NoTurn \in Turn /\ NoTurn.on = 0 /\ NoTurn.pause = 0 /\ NoTurn.resume = 0 /\ NoTurn.active = 0
    /\ \A said \in Interpretations : said \in Saying
  <1>1. ASSUME NEW k \in {"ANSWER", "DENY", "NEW_INTENT", "REQUEST_HUMAN", "UNCLEAR"},
               NEW a \in Abouts, NEW s \in BOOLEAN, NEW p \in {"no", "told", "shown", "complete"}
        PROVE  Said(k, a, s, p) \in Saying
    BY DEF Said, Saying
  <1>2. \A said \in Interpretations : said \in Saying
    <2> SUFFICES ASSUME NEW said \in Interpretations PROVE said \in Saying
      OBVIOUS
    <2>1. \/ \E k \in {"ANSWER", "DENY", "NEW_INTENT"}, a \in Topics \cup {"unbuilt", "people", "unknown"},
               s \in BOOLEAN : said = Said(k, a, s, "no")
          \/ \E k \in {"REQUEST_HUMAN", "UNCLEAR"} : said = Said(k, "unknown", TRUE, "no")
          \/ \E p \in {"told", "shown", "complete"} : said = Said("NEW_INTENT", "billing", TRUE, p)
      <3> DEFINE Plain == {Said(k, a, s, "no") : k \in {"ANSWER", "DENY", "NEW_INTENT"},
                              a \in Topics \cup {"unbuilt", "people", "unknown"}, s \in BOOLEAN}
                 Bare == {Said(k, "unknown", TRUE, "no") : k \in {"REQUEST_HUMAN", "UNCLEAR"}}
                 Paid == {Said("NEW_INTENT", "billing", TRUE, p) : p \in {"told", "shown", "complete"}}
      <3>1. Interpretations = Plain \cup Bare \cup Paid
        BY DEF Interpretations
      <3>2. ASSUME said \in Plain
            PROVE  \E k \in {"ANSWER", "DENY", "NEW_INTENT"},
                      a \in Topics \cup {"unbuilt", "people", "unknown"}, s \in BOOLEAN :
                        said = Said(k, a, s, "no")
        BY <3>2
      <3>3. CASE said \in Bare
        BY <3>3
      <3>4. CASE said \in Paid
        BY <3>4
      <3> HIDE DEF Plain, Bare, Paid
      <3> QED  BY <3>1, <3>2, <3>3, <3>4
    <2>2. /\ {"ANSWER", "DENY", "NEW_INTENT"} \cup {"REQUEST_HUMAN", "UNCLEAR"}
                \subseteq {"ANSWER", "DENY", "NEW_INTENT", "REQUEST_HUMAN", "UNCLEAR"}
          /\ Topics \cup {"unbuilt", "people", "unknown"} \subseteq Abouts
          /\ "unknown" \in Abouts /\ "billing" \in Abouts
      BY DEF Abouts, Topics
    <2>3. ASSUME NEW k \in {"ANSWER", "DENY", "NEW_INTENT"},
                 NEW a \in Topics \cup {"unbuilt", "people", "unknown"}, NEW s \in BOOLEAN
          PROVE  Said(k, a, s, "no") \in Saying
      BY <1>1, <2>2
    <2>4. ASSUME NEW k \in {"REQUEST_HUMAN", "UNCLEAR"}
          PROVE  Said(k, "unknown", TRUE, "no") \in Saying
      BY <1>1, <2>2
    <2>5. ASSUME NEW p \in {"told", "shown", "complete"}
          PROVE  Said("NEW_INTENT", "billing", TRUE, p) \in Saying
      BY <1>1, <2>2
    <2> QED  BY <2>1, <2>3, <2>4, <2>5
  <1>3. Said("UNCLEAR", "unknown", FALSE, "no") \in Saying
    BY <1>1 DEF Abouts
  <1>4. /\ NoTurn \in Turn /\ NoTurn.on = 0 /\ NoTurn.pause = 0 /\ NoTurn.resume = 0
        /\ NoTurn.active = 0
    BY <1>3 DEF NoTurn, Turn, TurnStages, CaseOrNone
  <1> QED  BY <1>2, <1>4

LEMMA Unsettled ==
    ASSUME cases' = cases
    PROVE  (\A c \in CaseSlots : Tame(c)) /\ Born' = Born /\ Unborns' = Unborns
  BY SettledIs DEF Born, Unborns

\* The references of a turn that keeps them.
LEMMA RefsKeep ==
    ASSUME RoutingInv, Born \subseteq Born'
    PROVE  {turn.on, turn.pause, turn.resume, turn.active} \subseteq {0} \cup Born'
  BY DEF RoutingInv, TurnKnows

\* A turn of which the stage and the reply change.
LEMMA TurnReplies ==
    ASSUME RoutingTypes, NEW kind \in {"clarify", "person", "photo", "receipt", "outcome"},
           turn' = [turn EXCEPT !.at = "reply", !.reply = kind]
    PROVE  /\ turn' \in Turn /\ turn'.at = "reply" /\ turn'.reply = kind /\ turn'.again = turn.again
           /\ turn'.on = turn.on /\ turn'.pause = turn.pause /\ turn'.resume = turn.resume
           /\ turn'.active = turn.active /\ turn'.disturbed = turn.disturbed
  BY DEF RoutingTypes, Turn, TurnStages

LEMMA TurnAgain ==
    ASSUME RoutingTypes, NEW kind \in {"clarify", "person", "photo", "receipt", "outcome"},
           NEW again \in BOOLEAN,
           turn' = [turn EXCEPT !.at = "reply", !.reply = kind, !.again = again]
    PROVE  /\ turn' \in Turn /\ turn'.at = "reply" /\ turn'.reply = kind /\ (turn'.again <=> again)
           /\ turn'.on = turn.on /\ turn'.pause = turn.pause /\ turn'.resume = turn.resume
           /\ turn'.active = turn.active /\ turn'.disturbed = turn.disturbed
  BY DEF RoutingTypes, Turn, TurnStages

\* A new case for people.
LEMMA TriageKeeps ==
    ASSUME RoutingInv, Unborns # {}, SendToTriage \/ SendToDepartment,
           UNCHANGED <<reminder, reminders, handedBack, seized>>,
           turn' \in Turn, turn'.at = "reply", turn'.on = turn.on, turn'.pause = turn.pause,
           turn'.resume = turn.resume, turn'.active = turn.active
    PROVE  RoutingInv'
  <1>1. PICK c \in CaseSlots : c = NextSlot /\ c \notin Born
    BY NextSlotIs DEF RoutingInv
  <1>2. /\ cases' \in [CaseSlots -> Case] /\ freshest' \in [CaseSlots -> Nat] /\ pointer' \in {0, c}
        /\ ~cases'[c].enabled /\ cases'[c].status \in Human /\ cases'[c].schedule = "none"
        /\ \A d \in CaseSlots : d # c => cases'[d] = cases[d]
    BY <1>1, TriageIs
  <1>3. RoutingTypes'
    BY <1>1, <1>2 DEF RoutingInv, RoutingTypes, CaseOrNone
  <1>4. ASSUME NEW d \in CaseSlots PROVE Tame(d)
    BY <1>1, <1>2, SettledIs DEF Tame, Settled, Human, Automated
  <1>5. Born' = Born \cup {c}
    BY <1>2, BornGrows DEF Human
  <1>6. PromisedPersonIsThere'
    <2>1. c \in Open' /\ cases'[c].status \in Human /\ ~cases'[c].enabled
      BY <1>2, <1>5 DEF Open, Human, Terminal
    <2> QED  BY <2>1 DEF PromisedPersonIsThere
  <1> QED  BY <1>1, <1>3, <1>4, <1>5, <1>6, RefsKeep, Ends

LEMMA ReceiveBatchKeeps ==
    ASSUME RoutingInv, NEW said \in Interpretations, ReceiveBatch(said)
    PROVE  RoutingInv'
  <1>1. PICK new \in Turn : new = [NoTurn EXCEPT !.at = "gates", !.said = said]
    BY TurnIs DEF Turn, TurnStages
  <1>2. turn' = new /\ new.at = "gates" /\ new.on = 0 /\ new.pause = 0 /\ new.resume = 0 /\ new.active = 0
    BY <1>1, TurnIs DEF ReceiveBatch, Turn
  <1>3. cases' = cases /\ Unborns # {}
    BY FS_EmptySet DEF ReceiveBatch
  <1>4. RoutingTypes'
    BY <1>1, <1>2 DEF RoutingInv, RoutingTypes, ReceiveBatch
  <1>5. PromisedPersonIsThere'
    BY <1>2 DEF PromisedPersonIsThere
  <1> QED  BY <1>2, <1>3, <1>4, <1>5, Unsettled, Ends DEF ReceiveBatch

\* Steps that change no case: the stage only.
LEMMA DeliverKeeps ==
    ASSUME RoutingInv, Deliver \/ Throw
    PROVE  RoutingInv'
  <1>1. PICK new \in Turn : new = turn'
    BY DEF Deliver, Throw, RoutingInv, RoutingTypes, Turn, TurnStages
  <1>2. /\ new.at \in {"done", "fallback"} /\ new.on = turn.on /\ new.pause = turn.pause
        /\ new.resume = turn.resume /\ new.active = turn.active
    BY <1>1 DEF Deliver, Throw, RoutingInv, RoutingTypes, Turn
  <1>3. /\ cases' = cases /\ freshest' = freshest /\ pointer' = pointer /\ reminder' = reminder
        /\ reminders' = reminders /\ handedBack' = handedBack /\ seized' = seized
    BY DEF Deliver, Throw
  <1>4. RoutingTypes'
    BY <1>1, <1>3 DEF RoutingInv, RoutingTypes
  <1>5. PromisedPersonIsThere'
    BY <1>1, <1>2 DEF PromisedPersonIsThere
  <1> QED  BY <1>1, <1>2, <1>3, <1>4, <1>5, Unsettled, RefsKeep, Ends

LEMMA ClarifyKeeps ==
    ASSUME RoutingInv, Clarify
    PROVE  RoutingInv'
  <1>1. PICK kind \in {"clarify", "person"} :
            /\ turn' = [turn EXCEPT !.at = "reply", !.reply = kind]
            /\ IF kind = "clarify" THEN UNCHANGED <<cases, freshest, pointer>> ELSE SendToTriage
    BY DEF Clarify, Reply
  <1>2. /\ turn' \in Turn /\ turn'.at = "reply" /\ turn'.reply = kind /\ turn'.on = turn.on
        /\ turn'.pause = turn.pause /\ turn'.resume = turn.resume /\ turn'.active = turn.active
    BY <1>1, TurnReplies DEF RoutingInv
  <1>3. /\ reminder' = reminder /\ reminders' = reminders /\ handedBack' = handedBack
        /\ seized' = seized /\ turn.at = "clarify"
    BY DEF Clarify
  <1>4. CASE kind = "clarify"
    <2>1. cases' = cases /\ freshest' = freshest /\ pointer' = pointer
      BY <1>1, <1>4
    <2>2. RoutingTypes'
      BY <1>2, <1>3, <2>1 DEF RoutingInv, RoutingTypes
    <2>3. PromisedPersonIsThere'
      BY <1>2, <1>4 DEF PromisedPersonIsThere
    <2> QED  BY <1>2, <1>3, <2>1, <2>2, <2>3, Unsettled, RefsKeep, Ends
  <1>5. CASE kind = "person"
    <2>1. Unborns # {} /\ SendToTriage
      BY <1>1, <1>3, <1>5 DEF RoutingInv, SlotsFill
    <2> QED  BY <1>2, <1>3, <2>1, TriageKeeps
  <1> QED  BY <1>4, <1>5

\* A case goes to people, if it has not been asked before.
LEMMA EscalateKeeps ==
    ASSUME RoutingInv, NEW c \in Born, EscalateExisting(c),
           UNCHANGED <<reminder, reminders, handedBack, seized>>,
           turn' \in Turn, turn'.at = "reply", turn'.on = turn.on, turn'.pause = turn.pause,
           turn'.resume = turn.resume, turn'.active = turn.active, cases[c].row => turn'.again
    PROVE  RoutingInv'
  <1>1. c \in CaseSlots /\ cases[c].status # "none"
    BY BornIs DEF RoutingInv
  <1>2. /\ cases' \in [CaseSlots -> Case] /\ freshest' \in [CaseSlots -> Nat]
        /\ pointer' \in {0, c, pointer} /\ \A d \in CaseSlots : d # c => cases'[d] = cases[d]
        /\ cases' = cases \/ (~cases'[c].enabled /\ cases'[c].status \in Human)
        /\ cases[c].row \/ (~cases'[c].enabled /\ cases'[c].status \in Human)
        /\ cases'[c].schedule = cases[c].schedule
    BY <1>1, EscalateExistingIs DEF RoutingInv
  <1>3. RoutingTypes'
    BY <1>1, <1>2 DEF RoutingInv, RoutingTypes, CaseOrNone
  <1>4. ASSUME NEW d \in CaseSlots PROVE Tame(d)
    BY <1>1, <1>2, SettledIs DEF Tame, Settled, Human, Automated
  <1>5. Born' = Born
    <2>1. cases'[c].status # "none"
      BY <1>1, <1>2 DEF Human
    <2> QED  BY <1>1, <1>2, <2>1, BornGrows
  <1>6. PromisedPersonIsThere'
    <2>1. CASE cases[c].row
      BY <2>1 DEF PromisedPersonIsThere
    <2>2. CASE ~cases[c].row
      <3>1. c \in Open' /\ cases'[c].status \in Human /\ ~cases'[c].enabled
        BY <1>2, <1>5, <2>2 DEF Open, Human, Terminal
      <3> QED  BY <3>1 DEF PromisedPersonIsThere
    <2> QED  BY <2>1, <2>2
  <1> QED  BY <1>3, <1>4, <1>5, <1>6, RefsKeep, Ends

LEMMA RequestHumanKeeps ==
    ASSUME RoutingInv, RequestHuman
    PROVE  RoutingInv'
  <1>1. PICK again \in BOOLEAN : again = (turn.on # 0 /\ cases[turn.on].row)
    OBVIOUS
  <1>2. /\ turn' \in Turn /\ turn'.at = "reply" /\ turn'.on = turn.on /\ turn'.pause = turn.pause
        /\ turn'.resume = turn.resume /\ turn'.active = turn.active /\ (turn'.again <=> again)
    BY <1>1, TurnAgain DEF RequestHuman, RoutingInv
  <1>3. /\ reminder' = reminder /\ reminders' = reminders /\ handedBack' = handedBack
        /\ seized' = seized /\ turn.at = "human"
    BY DEF RequestHuman
  <1>4. CASE turn.on # 0
    <2>1. turn.on \in Born /\ EscalateExisting(turn.on)
      BY <1>4 DEF RequestHuman, RoutingInv, TurnKnows
    <2> QED  BY <1>1, <1>2, <1>3, <1>4, <2>1, EscalateKeeps
  <1>5. CASE turn.on = 0
    <2>1. SendToDepartment /\ Unborns # {}
      BY <1>3, <1>5 DEF RequestHuman, RoutingInv, SlotsFill
    <2> QED  BY <1>2, <1>3, <2>1, TriageKeeps
  <1> QED  BY <1>4, <1>5

LEMMA FindActiveIs ==
    ASSUME RoutingInv
    PROVE  IF FindActive = 0 THEN \A c \in CaseSlots : cases[c].status \notin Automated
           ELSE FindActive \in Born /\ cases[FindActive].status \in Automated
  <1> DEFINE robots == {c \in Born : cases[c].status \in Automated}
  <1>1. robots \in SUBSET CaseSlots
    BY DEF Born
  <1>2. IF robots = {} THEN FindActive = 0 ELSE FindActive \in robots
    BY <1>1, FreshestIs DEF FindActive, RoutingInv, RoutingTypes
  <1>3. \A c \in CaseSlots : cases[c].status \in Automated => c \in robots
    BY BornIs DEF RoutingInv, Automated
  <1> QED  BY <1>1, <1>2, <1>3, Slots

LEMMA FallbackKeeps ==
    ASSUME RoutingInv, Fallback
    PROVE  RoutingInv'
  <1>1. PICK c : c = FindActive /\ c \in {0} \cup Born
    BY FindActiveIs
  <1>2. PICK again \in BOOLEAN : again = (c # 0 /\ cases[c].row)
    OBVIOUS
  <1>3. /\ reminder' = reminder /\ reminders' = reminders /\ handedBack' = handedBack /\ seized' = seized
    BY DEF Fallback
  <1>4. CASE /\ turn' = [turn EXCEPT !.at = "reply", !.reply = "person", !.again = c # 0 /\ cases[c].row]
             /\ IF c # 0 THEN EscalateExisting(c) ELSE Unborns # {} /\ SendToTriage
    <2>1. turn' = [turn EXCEPT !.at = "reply", !.reply = "person", !.again = again]
      BY <1>2, <1>4
    <2>2. /\ turn' \in Turn /\ turn'.at = "reply" /\ turn'.on = turn.on /\ turn'.pause = turn.pause
          /\ turn'.resume = turn.resume /\ turn'.active = turn.active /\ (turn'.again <=> again)
      BY <2>1, TurnAgain DEF RoutingInv
    <2>3. CASE c # 0
      BY <1>1, <1>2, <1>3, <1>4, <2>2, <2>3, EscalateKeeps
    <2>4. CASE c = 0
      BY <1>3, <1>4, <2>2, <2>4, TriageKeeps
    <2> QED  BY <2>3, <2>4
  <1>5. CASE /\ turn' = [turn EXCEPT !.at = "done", !.threw = TRUE]
             /\ UNCHANGED <<cases, freshest, pointer>>
    <2>1. /\ turn' \in Turn /\ turn'.at = "done" /\ turn'.on = turn.on /\ turn'.pause = turn.pause
          /\ turn'.resume = turn.resume /\ turn'.active = turn.active
      BY <1>5 DEF RoutingInv, RoutingTypes, Turn, TurnStages
    <2>2. RoutingTypes' /\ cases' = cases
      BY <1>3, <1>5, <2>1 DEF RoutingInv, RoutingTypes
    <2>3. PromisedPersonIsThere'
      BY <2>1 DEF PromisedPersonIsThere
    <2> QED  BY <1>3, <2>1, <2>2, <2>3, Unsettled, RefsKeep, Ends
  <1> QED  BY <1>1, <1>4, <1>5 DEF Fallback

-----------------------------------------------------------------------------
(* From one case to another *)

LEMMA PauseActiveKeeps ==
    ASSUME RoutingInv, PauseActive
    PROVE  RoutingInv'
  <1> DEFINE c == turn.pause
  <1>1. /\ turn' \in Turn /\ turn'.at = "open" /\ turn'.on = turn.on /\ turn'.pause = turn.pause
        /\ turn'.resume = turn.resume /\ turn'.active = turn.active /\ turn'.disturbed = turn.disturbed
        /\ turn'.dropped = turn.dropped /\ turn.at = "activate"
    BY DEF PauseActive, RoutingInv, RoutingTypes, Turn, TurnStages, CaseOrNone
  <1>2. /\ reminder' = reminder /\ reminders' = reminders /\ handedBack' = handedBack /\ pointer' = pointer
        /\ seized' = seized \cup {d \in {c} \cap Born : InPersonsHands(cases[d])}
    BY DEF PauseActive
  <1>3. c \in {0} \cup Born /\ Born \subseteq CaseSlots
    BY BornIs DEF RoutingInv, TurnKnows
  <1>4. /\ cases' \in [CaseSlots -> Case] /\ freshest' \in [CaseSlots -> Nat]
        /\ \A d \in CaseSlots : d # c => cases'[d] = cases[d]
        /\ c # 0 => /\ cases'[c].status = "PAUSED" /\ cases'[c].owned = cases[c].owned
                    /\ cases'[c].enabled = cases[c].enabled /\ cases'[c].schedule = cases[c].schedule
    <2>1. CASE c = 0
      BY <2>1, <1>1, Slots DEF PauseActive, RoutingInv, RoutingTypes
    <2>2. CASE c # 0
      <3>1. cases[c] \in Case
        BY <1>3, <2>2 DEF RoutingInv, RoutingTypes
      <3>2. PICK row \in Case : row = [cases[c] EXCEPT !.status = "PAUSED"]
        BY <3>1 DEF Case, CaseStatuses
      <3>3. /\ row.status = "PAUSED" /\ row.owned = cases[c].owned
            /\ row.enabled = cases[c].enabled /\ row.schedule = cases[c].schedule
        BY <3>1, <3>2 DEF Case
      <3>4. Write(c, row)
        BY <2>2, <3>2 DEF PauseActive
      <3> QED  BY <1>3, <2>2, <3>3, <3>4, WriteIs DEF RoutingInv
    <2> QED  BY <2>1, <2>2
  <1>5. RoutingTypes'
    BY <1>1, <1>2, <1>3, <1>4 DEF RoutingInv, RoutingTypes
  <1>6. ASSUME NEW d \in CaseSlots PROVE Tame(d)
    <2>1. CASE d = c
      BY <1>2, <1>3, <1>4, <2>1, Slots DEF Tame, Settled, InPersonsHands, WithPerson, Automated
    <2> QED  BY <1>4, <2>1, SettledIs
  <1>7. Born' = Born /\ Unborns' = Unborns
    <2>1. CASE c = 0
      BY <1>4, <2>1, Slots DEF Born, Unborns
    <2>2. CASE c # 0
      BY <1>3, <1>4, <2>2, BornGrows DEF Unborns
    <2> QED  BY <2>1, <2>2
  <1>8. SlotsFill' /\ AskedOnce'
    <2>1. Unborns # {}
      BY <1>1 DEF RoutingInv, SlotsFill
    <2> QED  BY <1>2, <1>6, <1>7, <2>1, SlotsKeep, AskedKeep DEF Tame
  <1>9. TurnKnows'
    <2>1. turn'.resume # 0 /\ ~turn'.disturbed => cases'[turn'.resume].status = "PAUSED"
      <3>1. turn.resume \in {0} \cup CaseSlots
        BY BornIs DEF RoutingInv, TurnKnows
      <3> QED  BY <1>1, <1>4, <3>1, Slots DEF RoutingInv, TurnKnows
    <2> QED  BY <1>1, <1>2, <1>7, <2>1 DEF RoutingInv, TurnKnows
  <1>10. OneServed'
    <2> SUFFICES ASSUME ~handedBack, seized = {}, seized' = {} PROVE Serving' = {}
      BY <1>1, <1>2 DEF OneServed
    <2>1. Serving' \subseteq Serving
      BY <1>5, <1>6, <1>8, ServingShrinks DEF Tame, Settled, Calm
    <2>2. Serving \subseteq {c} \/ (c # 0 /\ ~cases[c].enabled)
      BY <1>1 DEF RoutingInv, OneServed
    <2>3. c # 0 => cases[c].enabled
      BY <1>2, <1>3 DEF InPersonsHands
    <2>4. c \notin Serving'
      BY <1>3, <1>4, Slots DEF Serving, Automated, Born
    <2> QED  BY <2>1, <2>2, <2>3, <2>4
  <1>11. PausedIsFree'
    BY <1>2, <1>6 DEF RoutingInv, PausedIsFree, Tame, Settled
  <1>12. NobodyHas'
    <2> SUFFICES ASSUME ~turn.disturbed, ~turn.dropped, NEW d \in Open' \ seized',
                        d = pointer \/ pointer \notin Open'
                 PROVE  ~WithPerson(cases'[d])
      BY <1>1, <1>2 DEF NobodyHas
    <2>1. d \in CaseSlots
      BY DEF Open, Born
    <2>2. CASE d = c
      <3>1. ~InPersonsHands(cases[c])
        BY <1>2, <1>3, <2>1, <2>2, Slots
      <3> QED  BY <1>4, <2>1, <2>2, <3>1, Slots DEF InPersonsHands, WithPerson, Human
    <2>3. CASE d # c
      <3>1. cases'[d] = cases[d] /\ d \in Open \ seized
        BY <1>2, <1>4, <1>7, <2>1, <2>3 DEF Open
      <3>2. ASSUME pointer \in Open PROVE pointer \in Open'
        <4>1. pointer \in Born /\ pointer \in CaseSlots /\ pointer \in Born'
          BY <1>3, <1>7, <3>2 DEF Open
        <4>2. cases'[pointer].status \notin Terminal
          BY <1>4, <3>2, <4>1, Slots DEF Open, Terminal
        <4> QED  BY <1>2, <4>1, <4>2 DEF Open
      <3> QED  BY <1>1, <1>2, <3>1, <3>2 DEF RoutingInv, NobodyHas
    <2> QED  BY <2>2, <2>3
  <1>13. PromisedPersonIsThere'
    BY <1>1 DEF PromisedPersonIsThere
  <1> QED  BY <1>5, <1>8, <1>9, <1>10, <1>11, <1>12, <1>13 DEF RoutingInv

LEMMA ServedIs ==
    ASSUME RoutingInv
    PROVE  /\ Served \in {0} \cup Open
           /\ pointer \in Open => Served = pointer
           /\ pointer \notin Open /\ (\E d \in Open : WithPerson(cases[d])) =>
                 Served # 0 /\ WithPerson(cases[Served])
  <1> DEFINE people == {c \in Open : WithPerson(cases[c])}
             robots == {c \in Open : cases[c].status \in Automated}
             fresh == {c \in Open : cases[c].status = "NEW"}
  <1>1. Open \subseteq CaseSlots
    BY BornIs DEF RoutingInv
  <1>2. /\ people # {} => Newest(people) \in people
        /\ robots # {} => Newest(robots) \in robots
        /\ fresh # {} => Newest(fresh) \in fresh
    <2>1. people \in SUBSET CaseSlots /\ robots \in SUBSET CaseSlots /\ fresh \in SUBSET CaseSlots
      BY <1>1
    <2> HIDE DEF people, robots, fresh
    <2> QED  BY <2>1, NewestIs
  <1>3. Served = IF pointer \in Open THEN pointer
                 ELSE IF people # {} THEN Newest(people)
                 ELSE IF robots # {} THEN Newest(robots)
                 ELSE IF fresh = {} THEN 0 ELSE Newest(fresh)
    BY DEF Served
  <1>4. /\ people \subseteq Open /\ robots \subseteq Open /\ fresh \subseteq Open
        /\ \A d \in people : WithPerson(cases[d])
        /\ \A d \in Open : WithPerson(cases[d]) => d \in people
    OBVIOUS
  <1> HIDE DEF people, robots, fresh
  <1> QED  BY <1>1, <1>2, <1>3, <1>4, Slots

LEMMA GatesKeeps ==
    ASSUME RoutingInv, Gates
    PROVE  RoutingInv'
  <1>1. PICK c : c = Served /\ c \in {0} \cup Open
    BY ServedIs
  <1>2. PICK active : active = FindActive /\ active \in {0} \cup Born
    BY FindActiveIs
  <1>3. /\ reminder' = reminder /\ reminders' = reminders /\ handedBack' = handedBack
        /\ seized' = seized /\ pointer' = pointer /\ turn.at = "gates"
    BY DEF Gates
  <1>4. Unborns # {} /\ Born \subseteq CaseSlots /\ Open \subseteq Born
    BY <1>3, BornIs DEF RoutingInv, SlotsFill
  <1> DEFINE pass == [turn EXCEPT !.at = "interpret", !.active = active]
             others == FreshestOf({d \in Born \ {c} : cases[d].status \in Automated})
             instead == IF active = c THEN others ELSE active
  <1>5. pass \in Turn /\ pass.at = "interpret" /\ pass.active = active /\ pass.on = turn.on
        /\ pass.pause = turn.pause /\ pass.resume = turn.resume /\ (pass.dropped <=> turn.dropped)
    BY <1>2, <1>4 DEF RoutingInv, RoutingTypes, Turn, TurnStages, CaseOrNone
  <1>6. \/ /\ turn' = [turn EXCEPT !.at = "quiet"] /\ freshest' = freshest
           /\ cases' = cases \/ (c # 0 /\ cases' = [cases EXCEPT ![c].enabled = FALSE])
        \/ turn' = [pass EXCEPT !.dropped = TRUE] /\ UNCHANGED <<cases, freshest>>
        \/ /\ c # 0 /\ Write(c, Moved(cases[c], "EXPIRED"))
           /\ turn' = [pass EXCEPT !.dropped = TRUE, !.active = instead]
        \/ /\ c # 0 => ~InPersonsHands(cases[c])
           /\ turn' = pass /\ UNCHANGED <<cases, freshest>>
    BY <1>1, <1>2 DEF Gates, Quiet
  <1> HIDE DEF pass
  <1>7. CASE /\ turn' = [turn EXCEPT !.at = "quiet"] /\ freshest' = freshest
             /\ cases' = cases \/ (c # 0 /\ cases' = [cases EXCEPT ![c].enabled = FALSE])
    <2>1. /\ turn' \in Turn /\ turn'.at = "quiet" /\ turn'.on = turn.on /\ turn'.pause = turn.pause
          /\ turn'.resume = turn.resume /\ turn'.active = turn.active
      BY <1>7 DEF RoutingInv, RoutingTypes, Turn, TurnStages
    <2>2. PromisedPersonIsThere'
      BY <2>1 DEF PromisedPersonIsThere
    <2>3. CASE cases' = cases
      <3>1. RoutingTypes'
        BY <1>3, <1>7, <2>1, <2>3 DEF RoutingInv, RoutingTypes
      <3> QED  BY <1>3, <2>1, <2>2, <2>3, <3>1, Unsettled, RefsKeep, Ends
    <2>4. CASE c # 0 /\ cases' = [cases EXCEPT ![c].enabled = FALSE]
      <3>1. c \in CaseSlots /\ cases[c] \in Case /\ cases[c].status # "none"
        BY <1>1, <1>4, <2>4, BornIs DEF RoutingInv, RoutingTypes
      <3>2. /\ cases' \in [CaseSlots -> Case] /\ ~cases'[c].enabled
            /\ cases'[c].status = cases[c].status /\ cases'[c].schedule = cases[c].schedule
            /\ cases'[c].owned = cases[c].owned /\ \A d \in CaseSlots : d # c => cases'[d] = cases[d]
        BY <2>4, <3>1 DEF RoutingInv, RoutingTypes, Case
      <3>3. RoutingTypes'
        BY <1>3, <1>7, <2>1, <3>2 DEF RoutingInv, RoutingTypes
      <3>4. ASSUME NEW d \in CaseSlots PROVE Tame(d)
        BY <3>1, <3>2, SettledIs DEF Tame, Settled
      <3>5. Born' = Born
        <4>1. cases'[c].status # "none" /\ c \in Born
          BY <1>1, <1>4, <2>4, <3>1, <3>2
        <4>2. Born' = Born \cup {c}
          BY <3>1, <3>2, <4>1, BornGrows
        <4> QED  BY <4>1, <4>2
      <3> QED  BY <1>3, <2>1, <2>2, <3>3, <3>4, <3>5, RefsKeep, Ends
    <2> QED  BY <1>7, <2>3, <2>4
  <1>8. CASE turn' = [pass EXCEPT !.dropped = TRUE] /\ UNCHANGED <<cases, freshest>>
    <2>1. /\ turn' \in Turn /\ turn'.at = "interpret" /\ turn'.on = turn.on /\ turn'.pause = turn.pause
          /\ turn'.resume = turn.resume /\ turn'.active = active /\ turn'.dropped
      BY <1>5, <1>8 DEF Turn
    <2>2. RoutingTypes'
      BY <1>3, <1>8, <2>1 DEF RoutingInv, RoutingTypes
    <2>3. PromisedPersonIsThere' /\ NobodyHas'
      BY <2>1 DEF PromisedPersonIsThere, NobodyHas
    <2> QED  BY <1>2, <1>3, <1>4, <1>8, <2>1, <2>2, <2>3, Unsettled, RefsKeep, Ends
  <1>9. CASE /\ c # 0 /\ Write(c, Moved(cases[c], "EXPIRED"))
             /\ turn' = [pass EXCEPT !.dropped = TRUE, !.active = instead]
    <2>1. instead \in {0} \cup Born
      <3>1. {d \in Born \ {c} : cases[d].status \in Automated} \in SUBSET CaseSlots
        BY <1>4
      <3>2. others \in {0} \cup Born
        BY <3>1, FreshestIs DEF RoutingInv, RoutingTypes
      <3> HIDE DEF others
      <3> QED  BY <1>2, <3>2
    <2>2. /\ turn' \in Turn /\ turn'.at = "interpret" /\ turn'.on = turn.on /\ turn'.pause = turn.pause
          /\ turn'.resume = turn.resume /\ turn'.active = instead /\ turn'.dropped
      <3> HIDE DEF instead
      <3> QED  BY <1>4, <1>5, <1>9, <2>1 DEF Turn, CaseOrNone
    <2>3. c \in CaseSlots /\ cases[c] \in Case /\ "EXPIRED" \in CaseStatuses
      BY <1>1, <1>4, <1>9 DEF RoutingInv, RoutingTypes, CaseStatuses, Terminal
    <2>4. /\ cases' \in [CaseSlots -> Case] /\ freshest' \in [CaseSlots -> Nat]
          /\ cases'[c].status = "EXPIRED" /\ cases'[c].schedule = cases[c].schedule
          /\ cases'[c].enabled = cases[c].enabled /\ \A d \in CaseSlots : d # c => cases'[d] = cases[d]
      BY <1>9, <2>3, MovedIs, WriteIs DEF RoutingInv
    <2>5. RoutingTypes'
      BY <1>3, <2>2, <2>4 DEF RoutingInv, RoutingTypes
    <2>6. ASSUME NEW d \in CaseSlots PROVE Tame(d)
      BY <2>4, SettledIs DEF Tame, Settled, Automated
    <2>7. Born' = Born
      BY <1>1, <1>4, <1>9, <2>3, <2>4, BornGrows
    <2>8. Unborns' # {}
      BY <1>4, <2>7 DEF Unborns
    <2>9. PromisedPersonIsThere' /\ NobodyHas'
      BY <2>2 DEF PromisedPersonIsThere, NobodyHas
    <2> HIDE DEF instead
    <2> QED  BY <1>3, <2>1, <2>2, <2>5, <2>6, <2>7, <2>8, <2>9, RefsKeep, Ends
  <1>10. CASE /\ c # 0 => ~InPersonsHands(cases[c])
              /\ turn' = pass /\ UNCHANGED <<cases, freshest>>
    <2>1. RoutingTypes'
      BY <1>3, <1>5, <1>10 DEF RoutingInv, RoutingTypes
    <2>2. PromisedPersonIsThere'
      BY <1>5, <1>10 DEF PromisedPersonIsThere
    <2>3. NobodyHas'
      <3> SUFFICES ASSUME NEW d \in Open, d = pointer \/ pointer \notin Open
                   PROVE  ~WithPerson(cases[d])
        BY <1>3, <1>10 DEF NobodyHas, Open, Born
      <3>1. c # 0 => ~WithPerson(cases[c])
        BY <1>10 DEF InPersonsHands
      <3>2. CASE d = pointer
        <4>1. c = d /\ d # 0
          BY <1>1, <1>4, <3>2, ServedIs, Slots
        <4> QED  BY <3>1, <4>1
      <3>3. CASE pointer \notin Open
        BY <1>1, <3>1, <3>3, ServedIs
      <3> QED  BY <3>2, <3>3
    <2> QED  BY <1>2, <1>3, <1>4, <1>5, <1>10, <2>1, <2>2, <2>3, Unsettled, RefsKeep, Ends
  <1> QED  BY <1>6, <1>7, <1>8, <1>9, <1>10

\* What the arbitration comes to.
LEMMA DecisionIs ==
    ASSUME RoutingInv
    PROVE  \E stage \in TurnStages, on, pause, resume \in {0} \cup Born :
               /\ Decision = [at |-> stage, on |-> on, pause |-> pause, resume |-> resume]
               /\ stage \in {"human", "clarify", "advance", "activate"}
               /\ stage = "advance" => on = FindActive /\ on # 0
               /\ stage = "activate" => pause = FindActive
               /\ resume # 0 => cases[resume].status = "PAUSED"
  <1> DEFINE said == turn.said
             active == FindActive
             topic == IF said.about \in Topics \cup {"unbuilt"} THEN said.about ELSE "none"
             pending == {c \in Open : ~cases[c].due /\ WithPerson(cases[c])}
             resumable == Resumable(topic)
             Do(stage, on, pause, resume) == [at |-> stage, on |-> on, pause |-> pause, resume |-> resume]
  <1>1. active \in {0} \cup Born
    BY FindActiveIs
  <1>2. pending # {} => Newest(pending) \in Born
    <2>1. pending \in SUBSET CaseSlots /\ pending \subseteq Born
      BY BornIs DEF RoutingInv
    <2> HIDE DEF pending
    <2> QED  BY <2>1, NewestIs
  <1>3. resumable \in {0} \cup Born /\ (resumable # 0 => cases[resumable].status = "PAUSED")
    <2> DEFINE paused == {d \in Born : cases[d].topic = topic /\ cases[d].status = "PAUSED"}
    <2>1. paused \in SUBSET CaseSlots /\ \A d \in paused : d \in Born /\ cases[d].status = "PAUSED"
      BY BornIs DEF RoutingInv
    <2>2. resumable \in {0, FreshestOf(paused)}
      BY DEF Resumable
    <2> HIDE DEF paused, resumable
    <2>3. IF paused = {} THEN FreshestOf(paused) = 0 ELSE FreshestOf(paused) \in paused
      BY <2>1, FreshestIs DEF RoutingInv, RoutingTypes
    <2> QED  BY <2>1, <2>2, <2>3
  <1> DEFINE people == IF pending = {} THEN 0 ELSE Newest(pending)
  <1>4. people \in {0} \cup Born
    BY <1>2
  <1>5. \/ Decision = Do("human", active, 0, 0)
        \/ Decision = Do("clarify", 0, 0, 0)
        \/ active # 0 /\ Decision = Do("advance", active, 0, 0)
        \/ Decision = Do("activate", 0, active, resumable)
        \/ Decision = Do("human", people, 0, 0)
    <2> HIDE DEF topic, active
    <2>1. Decision = IF said.kind = "REQUEST_HUMAN" THEN Do("human", active, 0, 0)
       ELSE IF said.kind = "UNCLEAR" THEN Do("clarify", 0, 0, 0)
       ELSE IF said.sure /\ said.about = "people" THEN Do("human", active, 0, 0)
       ELSE IF active # 0
       THEN IF topic = cases[active].topic THEN Do("advance", active, 0, 0)
            ELSE IF topic # "none" /\ said.sure THEN Do("activate", 0, active, resumable)
            ELSE IF said.kind = "ANSWER" \/ ~said.sure THEN Do("advance", active, 0, 0)
            ELSE IF said.kind = "DENY" THEN Do("human", active, 0, 0)
            ELSE Do("clarify", 0, 0, 0)
       ELSE IF topic = "none" \/ ~said.sure THEN Do("clarify", 0, 0, 0)
       ELSE IF pending # {} THEN Do("human", Newest(pending), 0, 0)
       ELSE Do("activate", 0, active, resumable)
      BY DEF Decision, topic, active
    <2> HIDE DEF Do, pending, resumable, said
    <2> QED  BY <2>1
  <1> HIDE DEF active, resumable, people
  <1>6. {"human", "clarify", "advance", "activate"} \subseteq TurnStages
    BY DEF TurnStages
  <1> QED
    <2>1. ASSUME NEW stage \in {"human", "clarify", "advance", "activate"},
                 NEW on \in {0} \cup Born, NEW pause \in {0} \cup Born, NEW resume \in {0} \cup Born,
                 Decision = Do(stage, on, pause, resume),
                 stage = "advance" => on = active /\ on # 0, stage = "activate" => pause = active,
                 resume # 0 => cases[resume].status = "PAUSED"
          PROVE  \E a \in TurnStages, o, p, r \in {0} \cup Born :
                   /\ Decision = [at |-> a, on |-> o, pause |-> p, resume |-> r]
                   /\ a \in {"human", "clarify", "advance", "activate"}
                   /\ a = "advance" => o = FindActive /\ o # 0
                   /\ a = "activate" => p = FindActive
                   /\ r # 0 => cases[r].status = "PAUSED"
      BY <1>6, <2>1 DEF active
    <2>2. CASE Decision = Do("human", active, 0, 0)
      BY <1>1, <2>1, <2>2
    <2>3. CASE Decision = Do("clarify", 0, 0, 0)
      BY <2>1, <2>3
    <2>4. CASE active # 0 /\ Decision = Do("advance", active, 0, 0)
      BY <1>1, <2>1, <2>4
    <2>5. CASE Decision = Do("activate", 0, active, resumable)
      BY <1>1, <1>3, <2>1, <2>5
    <2>6. CASE Decision = Do("human", people, 0, 0)
      BY <1>4, <2>1, <2>6
    <2> QED  BY <1>5, <2>2, <2>3, <2>4, <2>5, <2>6

LEMMA ArbitrateKeeps ==
    ASSUME RoutingInv, Arbitrate
    PROVE  RoutingInv'
  <1>1. PICK stage \in TurnStages, on, pause, resume \in {0} \cup Born :
            /\ Decision = [at |-> stage, on |-> on, pause |-> pause, resume |-> resume]
            /\ stage \in {"human", "clarify", "advance", "activate"}
            /\ stage = "advance" => on = FindActive /\ on # 0
            /\ stage = "activate" => pause = FindActive
            /\ resume # 0 => cases[resume].status = "PAUSED"
    BY DecisionIs
  <1>2. turn' = [turn EXCEPT !.at = stage, !.on = on, !.pause = pause, !.resume = resume, !.touched = {}]
    BY <1>1 DEF Arbitrate
  <1>3. Born \subseteq CaseSlots
    BY BornIs DEF RoutingInv
  <1>4. /\ turn' \in Turn /\ turn'.at = stage /\ turn'.on = on /\ turn'.pause = pause /\ turn'.resume = resume
        /\ turn'.active = turn.active /\ turn'.disturbed = turn.disturbed /\ turn'.dropped = turn.dropped
    BY <1>1, <1>2, <1>3 DEF RoutingInv, RoutingTypes, Turn, CaseOrNone
  <1>5. /\ cases' = cases /\ freshest' = freshest /\ pointer' = pointer /\ reminder' = reminder
        /\ reminders' = reminders /\ handedBack' = handedBack /\ seized' = seized /\ turn.at = "interpret"
    BY DEF Arbitrate
  <1>6. Born' = Born /\ Unborns' = Unborns /\ Open' = Open /\ Serving' = Serving
    BY <1>5 DEF Born, Unborns, Open, Serving
  <1>7. RoutingTypes'
    BY <1>4, <1>5 DEF RoutingInv, RoutingTypes
  <1>8. SlotsFill' /\ AskedOnce' /\ PausedIsFree'
    BY <1>1, <1>4, <1>5, <1>6
    DEF RoutingInv, SlotsFill, AskedOnce, RemindedOnce, PausedIsFree
  <1>9. TurnKnows'
    BY <1>1, <1>4, <1>5, <1>6 DEF RoutingInv, TurnKnows
  <1>10. OneServed'
    <2> SUFFICES ASSUME ~handedBack, seized = {}
                 PROVE  /\ \A c, d \in Serving : c = d
                        /\ stage = "advance" /\ cases[on].enabled => Serving \subseteq {on}
                        /\ stage = "activate" =>
                              Serving \subseteq {pause} \/ (pause # 0 /\ ~cases[pause].enabled)
      BY <1>1, <1>4, <1>5, <1>6 DEF OneServed
    <2>1. \A c, d \in Serving : c = d
      BY DEF RoutingInv, OneServed
    <2>2. FindActive # 0 /\ cases[FindActive].enabled => FindActive \in Serving
      BY FindActiveIs DEF Serving
    <2>3. FindActive = 0 => Serving = {}
      BY FindActiveIs, <1>3 DEF Serving
    <2> QED  BY <1>1, <2>1, <2>2, <2>3
  <1>11. NobodyHas' /\ PromisedPersonIsThere'
    BY <1>1, <1>4, <1>5, <1>6 DEF RoutingInv, NobodyHas, PromisedPersonIsThere
  <1> QED  BY <1>7, <1>8, <1>9, <1>10, <1>11 DEF RoutingInv

LEMMA OpenCaseKeeps ==
    ASSUME RoutingInv, OpenCase
    PROVE  RoutingInv'
  <1>1. /\ reminder' = reminder /\ reminders' = reminders /\ handedBack' = handedBack
        /\ seized' = seized /\ turn.at = "open"
    BY DEF OpenCase
  <1>2. Unborns # {} /\ Born \subseteq CaseSlots
    BY <1>1, BornIs DEF RoutingInv, SlotsFill
  <1>3. CASE turn.resume = 0 /\ turn.said.about = "unbuilt"
    <2>1. SendToTriage /\ turn' = [turn EXCEPT !.at = "reply", !.reply = "person"]
      BY <1>3 DEF OpenCase, Reply
    <2>2. /\ turn' \in Turn /\ turn'.at = "reply" /\ turn'.on = turn.on /\ turn'.pause = turn.pause
          /\ turn'.resume = turn.resume /\ turn'.active = turn.active
      BY <2>1, TurnReplies DEF RoutingInv
    <2> QED  BY <1>1, <1>2, <2>1, <2>2, TriageKeeps
  <1>4. CASE turn.resume # 0 \/ turn.said.about # "unbuilt"
    <2>1. PICK c \in CaseSlots : c = IF turn.resume # 0 THEN turn.resume ELSE NextSlot
      BY <1>2, NextSlotIs DEF RoutingInv, TurnKnows
    <2>2. PICK next \in {"payment", "advance"} :
              /\ pointer' = c
              /\ turn' = [turn EXCEPT !.at = next, !.on = c, !.touched = turn.touched \ {c}]
              /\ IF turn.resume # 0 THEN UNCHANGED <<cases, freshest>>
                 ELSE Write(c, Newborn(turn.said.about))
      BY <1>4, <2>1 DEF OpenCase
    <2>3. /\ turn' \in Turn /\ turn'.at = next /\ turn'.on = c /\ turn'.pause = turn.pause
          /\ turn'.resume = turn.resume /\ turn'.active = turn.active
          /\ turn'.disturbed = turn.disturbed /\ turn'.dropped = turn.dropped
      BY <2>2 DEF RoutingInv, RoutingTypes, Turn, TurnStages, CaseOrNone
    <2>4. /\ cases' \in [CaseSlots -> Case] /\ freshest' \in [CaseSlots -> Nat]
          /\ turn.resume = 0 => /\ c \notin Born /\ cases'[c].status = "NEW" /\ ~cases'[c].owned
                                /\ cases'[c].schedule = "none"
                                /\ \A d \in CaseSlots : d # c => cases'[d] = cases[d]
      <3>1. CASE turn.resume # 0
        BY <2>2, <3>1 DEF RoutingInv, RoutingTypes
      <3>2. CASE turn.resume = 0
        <4>1. turn.said.about \in Abouts /\ c \notin Born
          BY <1>2, <2>1, <3>2, NextSlotIs DEF RoutingInv, RoutingTypes, Turn, Saying
        <4>2. PICK row \in Case : row = Newborn(turn.said.about)
          BY <4>1, CaseIs
        <4>3. row.status = "NEW" /\ ~row.owned /\ row.schedule = "none"
          BY <4>1, <4>2, CaseIs
        <4> QED  BY <2>2, <3>2, <4>1, <4>2, <4>3, WriteIs DEF RoutingInv
      <3> QED  BY <3>1, <3>2
    <2>5. RoutingTypes'
      BY <1>1, <2>2, <2>3, <2>4 DEF RoutingInv, RoutingTypes, CaseOrNone
    <2>6. ASSUME NEW d \in CaseSlots PROVE Tame(d)
      <3>1. CASE turn.resume # 0
        BY <2>2, <3>1, SettledIs
      <3>2. CASE turn.resume = 0
        BY <2>4, <3>2, SettledIs DEF Tame, Settled, Automated
      <3> QED  BY <3>1, <3>2
    <2>7. Born' = Born \cup {c} /\ (c \in Born \/ c = NextSlot)
      <3>1. CASE turn.resume # 0
        <4>1. c \in Born
          BY <2>1, <3>1 DEF RoutingInv, TurnKnows
        <4> QED  BY <2>2, <3>1, <4>1 DEF Born
      <3>2. CASE turn.resume = 0
        BY <2>1, <2>4, <3>2, BornGrows
      <3> QED  BY <3>1, <3>2
    <2>8. SlotsFill' /\ AskedOnce'
      <3>1. Born' = Born \/ (Unborns # {} /\ Born' = Born \cup {NextSlot})
        BY <1>2, <2>7
      <3> QED  BY <1>1, <2>3, <2>6, <3>1, SlotsKeep, AskedKeep DEF Tame
    <2>9. TurnKnows'
      BY <1>1, <2>3, <2>7, Slots DEF RoutingInv, TurnKnows
    <2>10. OneServed'
      <3> SUFFICES ASSUME ~handedBack, seized = {} PROVE Serving' = {}
        BY <1>1, <2>3 DEF OneServed
      <3>1. Serving' \subseteq Serving
        BY <2>5, <2>6, <2>8, ServingShrinks DEF Tame, Settled, Calm
      <3> QED  BY <1>1, <3>1 DEF RoutingInv, OneServed
    <2>11. PausedIsFree'
      BY <1>1, <2>6 DEF RoutingInv, PausedIsFree, Tame, Settled
    <2>12. NobodyHas'
      <3> SUFFICES ASSUME ~turn.disturbed, NEW d \in Open' \ seized, d = c \/ c \notin Open'
                   PROVE  ~WithPerson(cases'[d])
        BY <1>1, <2>2, <2>3 DEF NobodyHas
      <3>1. CASE turn.resume # 0
        <4>1. c \in Born /\ cases'[c].status = "PAUSED" /\ cases' = cases
          BY <1>1, <2>1, <2>2, <3>1 DEF RoutingInv, TurnKnows
        <4>2. d = c
          BY <2>7, <4>1 DEF Open, Terminal
        <4> QED  BY <4>1, <4>2 DEF RoutingInv, PausedIsFree, WithPerson, Human
      <3>2. CASE turn.resume = 0
        <4>1. d = c
          BY <2>4, <2>7, <3>2 DEF Open, Terminal
        <4> QED  BY <2>4, <3>2, <4>1 DEF WithPerson, Human
      <3> QED  BY <3>1, <3>2
    <2>13. PromisedPersonIsThere'
      BY <2>3 DEF PromisedPersonIsThere
    <2> QED  BY <2>5, <2>8, <2>9, <2>10, <2>11, <2>12, <2>13 DEF RoutingInv
  <1> QED  BY <1>3, <1>4

-----------------------------------------------------------------------------
(* Payments, and the outcome of the workflow *)

LEMMA PaymentReportedKeeps ==
    ASSUME RoutingInv, PaymentReported
    PROVE  RoutingInv'
  <1> DEFINE a == turn.active
             c == turn.on
             closes == a # 0 /\ cases[a].topic = "support"
  <1>1. /\ reminder' = reminder /\ reminders' = reminders /\ handedBack' = handedBack
        /\ seized' = seized /\ pointer' = pointer /\ turn.at = "payment"
    BY DEF PaymentReported
  <1>2. c \in Born /\ a \in {0} \cup Born /\ Born \subseteq CaseSlots /\ c # 0
    BY <1>1, BornIs DEF RoutingInv, TurnKnows
  <1>3. PICK closed : /\ closed = IF closes THEN [cases EXCEPT ![a] = Moved(cases[a], "COMPLETED")] ELSE cases
                      /\ cases' = [closed EXCEPT ![c].due = FALSE]
    BY DEF PaymentReported
  <1>4. /\ closed \in [CaseSlots -> Case]
        /\ \A d \in CaseSlots :
              /\ closed[d].status \in {cases[d].status, "COMPLETED"}
              /\ closed[d].schedule = cases[d].schedule /\ closed[d].owned = cases[d].owned
              /\ closed[d].enabled = cases[d].enabled
              /\ d \notin Born => closed[d] = cases[d]
    <2>1. CASE closes
      <3>1. a \in Born /\ a \in CaseSlots /\ cases[a] \in Case /\ "COMPLETED" \in CaseStatuses
        BY <1>2, <2>1 DEF RoutingInv, RoutingTypes, CaseStatuses, Terminal
      <3>2. PICK row \in Case : row = Moved(cases[a], "COMPLETED")
        BY <3>1, MovedIs
      <3>3. /\ row.status = "COMPLETED" /\ row.schedule = cases[a].schedule
            /\ row.owned = cases[a].owned /\ row.enabled = cases[a].enabled
        BY <3>1, <3>2, MovedIs
      <3> QED  BY <1>3, <2>1, <3>1, <3>2, <3>3 DEF RoutingInv, RoutingTypes
    <2>2. CASE ~closes
      BY <1>3, <2>2 DEF RoutingInv, RoutingTypes
    <2> QED  BY <2>1, <2>2
  <1>5. /\ cases' \in [CaseSlots -> Case] /\ freshest' \in [CaseSlots -> Nat]
        /\ \A d \in CaseSlots :
              /\ cases'[d].status \in {cases[d].status, "COMPLETED"}
              /\ cases'[d].schedule = cases[d].schedule /\ cases'[d].owned = cases[d].owned
              /\ cases'[d].enabled = cases[d].enabled
              /\ d \notin Born => cases'[d] = cases[d]
    <2>1. freshest' = Front(c) /\ freshest \in [CaseSlots -> Nat]
      BY DEF PaymentReported, RoutingInv, RoutingTypes
    <2>2. freshest' \in [CaseSlots -> Nat]
      BY <1>2, <2>1, FrontIs
    <2>3. closed[c] \in Case
      BY <1>2, <1>4
    <2>4. PICK row \in Case : row = [closed[c] EXCEPT !.due = FALSE]
      BY <2>3 DEF Case
    <2>5. /\ row.status = closed[c].status /\ row.schedule = closed[c].schedule
          /\ row.owned = closed[c].owned /\ row.enabled = closed[c].enabled
      BY <2>3, <2>4 DEF Case
    <2>6. cases' = [closed EXCEPT ![c] = row]
      BY <1>3, <2>4
    <2> QED  BY <1>2, <1>4, <2>2, <2>5, <2>6
  <1>6. /\ turn' \in Turn /\ turn'.at \in {"receipt", "reply"} /\ turn'.on = turn.on
        /\ turn'.pause = turn.pause /\ turn'.resume = turn.resume /\ turn'.active = turn.active
        /\ turn'.at = "reply" => turn'.reply = "photo"
    <2>1. CASE turn.said.payment = "shown"
      <3>1. turn' = [turn EXCEPT !.at = "receipt"]
        BY <2>1 DEF PaymentReported
      <3> QED  BY <3>1 DEF RoutingInv, RoutingTypes, Turn, TurnStages
    <2>2. CASE turn.said.payment # "shown"
      <3>1. turn' = [turn EXCEPT !.at = "reply", !.reply = "photo"]
        BY <2>2 DEF PaymentReported, Reply
      <3> QED  BY <3>1, TurnReplies DEF RoutingInv
    <2> QED  BY <2>1, <2>2
  <1>7. RoutingTypes'
    BY <1>1, <1>5, <1>6 DEF RoutingInv, RoutingTypes
  <1>8. ASSUME NEW d \in CaseSlots PROVE Tame(d)
    <2>1. cases'[d].status = "none" => cases'[d] = cases[d]
      BY <1>5, BornIs DEF RoutingInv
    <2> QED  BY <1>5, <2>1 DEF Tame, Settled, Automated
  <1>9. Born' = Born
    <2>1. ASSUME NEW d \in CaseSlots PROVE cases'[d] = Unborn <=> cases[d] = Unborn
      <3>1. CASE d \in Born
        BY <1>5, <3>1, BornIs, CaseIs DEF RoutingInv, Born
      <3> QED  BY <1>5, <3>1 DEF Born
    <2> QED  BY <2>1 DEF Born
  <1>10. PromisedPersonIsThere'
    BY <1>6 DEF PromisedPersonIsThere
  <1> QED  BY <1>1, <1>2, <1>6, <1>7, <1>8, <1>9, <1>10, RefsKeep, Ends

LEMMA PaymentShownKeeps ==
    ASSUME RoutingInv, PaymentShown
    PROVE  RoutingInv'
  <1> DEFINE c == turn.on
  <1>1. /\ reminder' = reminder /\ reminders' = reminders /\ handedBack' = handedBack
        /\ seized' = seized /\ pointer' = c /\ turn.at = "receipt"
    BY DEF PaymentShown
  <1>2. c \in Born /\ c \in CaseSlots /\ cases[c] \in Case /\ cases[c].status # "none"
    BY <1>1, BornIs DEF RoutingInv, TurnKnows, RoutingTypes
  <1>3. PICK again \in BOOLEAN : again = cases[c].row
    BY <1>2 DEF Case
  <1>4. turn' = [turn EXCEPT !.at = "reply", !.reply = "receipt", !.again = again]
    BY <1>3 DEF PaymentShown
  <1>5. /\ turn' \in Turn /\ turn'.at = "reply" /\ turn'.on = turn.on /\ turn'.pause = turn.pause
        /\ turn'.resume = turn.resume /\ turn'.active = turn.active /\ (turn'.again <=> again)
    BY <1>4, TurnAgain DEF RoutingInv
  <1>6. /\ cases' \in [CaseSlots -> Case] /\ freshest' \in [CaseSlots -> Nat] /\ ~cases'[c].enabled
        /\ cases'[c].schedule = cases[c].schedule /\ \A d \in CaseSlots : d # c => cases'[d] = cases[d]
        /\ IF cases[c].row THEN cases'[c].status = cases[c].status /\ cases'[c].owned = cases[c].owned
           ELSE cases'[c].status \in Human
    <2>1. CASE cases[c].row
      <3>1. cases' = [cases EXCEPT ![c].enabled = FALSE] /\ freshest' = freshest
        BY <2>1 DEF PaymentShown
      <3> QED  BY <1>2, <2>1, <3>1 DEF RoutingInv, RoutingTypes, Case
    <2>2. CASE ~cases[c].row
      <3>1. PICK free \in BOOLEAN :
                Write(c, [Moved(cases[c], IF free \/ cases[c].status = "HUMAN_ACTIVE"
                                          THEN "HUMAN_ACTIVE" ELSE "ESCALATED")
                          EXCEPT !.enabled = FALSE, !.row = TRUE, !.owned = @ \/ free])
        BY <2>2 DEF PaymentShown
      <3>2. PICK status \in Human : status = IF free \/ cases[c].status = "HUMAN_ACTIVE"
                                             THEN "HUMAN_ACTIVE" ELSE "ESCALATED"
        BY DEF Human
      <3>3. PICK moved \in Case : /\ moved = Moved(cases[c], status) /\ moved.status = status
                                  /\ moved.schedule = cases[c].schedule
        BY <1>2, MovedIs DEF CaseStatuses
      <3>4. PICK row \in Case : row = [moved EXCEPT !.enabled = FALSE, !.row = TRUE, !.owned = @ \/ free]
        BY <3>3 DEF Case
      <3>5. ~row.enabled /\ row.status = status /\ row.schedule = cases[c].schedule
        BY <3>3, <3>4 DEF Case
      <3>6. Write(c, row)
        BY <3>1, <3>2, <3>3, <3>4
      <3> QED  BY <1>2, <2>2, <3>5, <3>6, WriteIs DEF RoutingInv
    <2> QED  BY <2>1, <2>2
  <1>7. RoutingTypes'
    BY <1>1, <1>2, <1>5, <1>6 DEF RoutingInv, RoutingTypes, CaseOrNone
  <1>8. ASSUME NEW d \in CaseSlots PROVE Tame(d)
    BY <1>2, <1>6, SettledIs DEF Tame, Settled, Human
  <1>9. Born' = Born
    <2>1. cases'[c].status # "none"
      BY <1>2, <1>6 DEF Human
    <2>2. Born' = Born \cup {c}
      BY <1>2, <1>6, <2>1, BornGrows
    <2> QED  BY <1>2, <2>2
  <1>10. PromisedPersonIsThere'
    <2>1. CASE cases[c].row
      BY <1>3, <1>5, <2>1 DEF PromisedPersonIsThere
    <2>2. CASE ~cases[c].row
      <3>1. c \in Open' /\ cases'[c].status \in Human /\ ~cases'[c].enabled
        BY <1>2, <1>6, <1>9, <2>2 DEF Open, Human, Terminal
      <3> QED  BY <3>1 DEF PromisedPersonIsThere
    <2> QED  BY <2>1, <2>2
  <1> QED  BY <1>1, <1>5, <1>7, <1>8, <1>9, <1>10, RefsKeep, Ends

LEMMA AdvanceKeeps ==
    ASSUME RoutingInv, Advance
    PROVE  RoutingInv'
  <1> DEFINE c == turn.on
  <1>1. /\ reminder' = reminder /\ reminders' = reminders /\ handedBack' = handedBack
        /\ seized' = seized /\ turn.at = "advance"
    BY DEF Advance
  <1>2. c \in Born /\ c \in CaseSlots /\ cases[c] \in Case /\ cases[c].status # "none"
    BY <1>1, BornIs DEF RoutingInv, TurnKnows, RoutingTypes
  <1>3. PICK kind \in {"outcome", "person"} :
            /\ turn' = [turn EXCEPT !.at = "reply", !.reply = kind]
            /\ \/ /\ kind = "outcome" /\ Write(c, Moved(cases[c], "WAITING_USER")) /\ pointer' = c
               \/ /\ kind = "outcome" /\ Write(c, Moved(cases[c], "COMPLETED")) /\ pointer' = 0
               \/ /\ kind = "person" /\ pointer' = 0
                  /\ Write(c, [Moved(cases[c], "ESCALATED") EXCEPT !.enabled = FALSE])
               \/ /\ kind = "person" /\ HandOver(c, Moved(cases[c], "ESCALATED"))
    BY DEF Advance, Reply
  <1>4. /\ turn' \in Turn /\ turn'.at = "reply" /\ turn'.reply = kind /\ turn'.on = turn.on
        /\ turn'.pause = turn.pause /\ turn'.resume = turn.resume /\ turn'.active = turn.active
    BY <1>3, TurnReplies DEF RoutingInv
  <1>5. ASSUME NEW status \in {"WAITING_USER", "COMPLETED", "ESCALATED"}
        PROVE  /\ Moved(cases[c], status) \in Case /\ Moved(cases[c], status).status = status
               /\ Moved(cases[c], status).schedule = cases[c].schedule
               /\ Moved(cases[c], status).owned = cases[c].owned
               /\ Moved(cases[c], status).enabled = cases[c].enabled
    BY <1>2, MovedIs DEF CaseStatuses, Automated, Human, Terminal
  <1>6. /\ cases' \in [CaseSlots -> Case] /\ freshest' \in [CaseSlots -> Nat] /\ pointer' \in CaseOrNone
        /\ cases'[c].schedule = cases[c].schedule /\ \A d \in CaseSlots : d # c => cases'[d] = cases[d]
        /\ IF kind = "person" THEN cases'[c].status \in Human /\ ~cases'[c].enabled
           ELSE cases'[c].status \in {"WAITING_USER", "COMPLETED"} /\ cases'[c].enabled = cases[c].enabled
    <2>1. CASE kind = "outcome" /\ Write(c, Moved(cases[c], "WAITING_USER")) /\ pointer' = c
      BY <1>2, <1>5, <2>1, WriteIs DEF RoutingInv, CaseOrNone
    <2>2. CASE kind = "outcome" /\ Write(c, Moved(cases[c], "COMPLETED")) /\ pointer' = 0
      BY <1>2, <1>5, <2>2, WriteIs DEF RoutingInv, CaseOrNone
    <2>3. CASE /\ kind = "person" /\ pointer' = 0
               /\ Write(c, [Moved(cases[c], "ESCALATED") EXCEPT !.enabled = FALSE])
      <3>1. PICK moved \in Case : /\ moved = Moved(cases[c], "ESCALATED") /\ moved.status = "ESCALATED"
                                  /\ moved.schedule = cases[c].schedule
        BY <1>5
      <3>2. PICK row \in Case : row = [moved EXCEPT !.enabled = FALSE]
        BY <3>1 DEF Case
      <3>3. ~row.enabled /\ row.status = "ESCALATED" /\ row.schedule = cases[c].schedule
        BY <3>1, <3>2 DEF Case
      <3>4. Write(c, row)
        BY <2>3, <3>1, <3>2
      <3> QED  BY <1>2, <2>3, <3>3, <3>4, WriteIs DEF RoutingInv, CaseOrNone, Human
    <2>4. CASE kind = "person" /\ HandOver(c, Moved(cases[c], "ESCALATED"))
      <3>1. PICK moved \in Case : /\ moved = Moved(cases[c], "ESCALATED") /\ moved.status = "ESCALATED"
                                  /\ moved.schedule = cases[c].schedule
        BY <1>5
      <3> QED  BY <1>2, <2>4, <3>1, HandOverIs DEF RoutingInv, CaseOrNone, Human
    <2> QED  BY <1>3, <2>1, <2>2, <2>3, <2>4
  <1>7. RoutingTypes'
    BY <1>1, <1>4, <1>6 DEF RoutingInv, RoutingTypes
  <1>8. ASSUME NEW d \in CaseSlots PROVE Settled(d)
    BY <1>2, <1>6, SettledIs DEF Tame, Settled, Human
  <1>9. Born' = Born
    <2>1. cases'[c].status # "none"
      BY <1>6 DEF Human
    <2>2. Born' = Born \cup {c}
      BY <1>2, <1>6, <2>1, BornGrows
    <2> QED  BY <1>2, <2>2
  <1>10. SlotsFill' /\ AskedOnce' /\ PausedIsFree'
    BY <1>1, <1>4, <1>8, <1>9, SlotsKeep, AskedKeep DEF Settled, RoutingInv, PausedIsFree
  <1>11. TurnKnows' /\ NobodyHas'
    BY <1>1, <1>4, <1>9 DEF RoutingInv, TurnKnows, NobodyHas
  <1>12. OneServed'
    <2> SUFFICES ASSUME ~handedBack, seized = {} PROVE \A x, y \in Serving' : x = y
      BY <1>1, <1>4 DEF OneServed
    <2>1. /\ \A x, y \in Serving : x = y
          /\ cases[c].enabled => Serving \subseteq {c}
      BY <1>1 DEF RoutingInv, OneServed
    <2>2. \A x \in Serving' : x # c => x \in Serving
      BY <1>6, <1>9 DEF Serving, Born
    <2>3. c \in Serving' => cases[c].enabled
      BY <1>6 DEF Serving
    <2> QED  BY <2>1, <2>2, <2>3
  <1>13. PromisedPersonIsThere'
    <2>1. CASE kind = "outcome"
      BY <1>4, <2>1 DEF PromisedPersonIsThere
    <2>2. CASE kind = "person"
      <3>1. c \in Open' /\ cases'[c].status \in Human /\ ~cases'[c].enabled
        BY <1>2, <1>6, <1>9, <2>2 DEF Open, Human, Terminal
      <3> QED  BY <3>1 DEF PromisedPersonIsThere
    <2> QED  BY <2>1, <2>2
  <1> QED  BY <1>7, <1>10, <1>11, <1>12, <1>13 DEF RoutingInv

-----------------------------------------------------------------------------
(* Agents, time, reminders *)

LEMMA ActedIs ==
    ASSUME RoutingInv, NEW c \in CaseSlots, Acted(c)
    PROVE  /\ turn' \in Turn /\ turn'.at = turn.at /\ turn'.on = turn.on /\ turn'.pause = turn.pause
           /\ turn'.resume = turn.resume /\ turn'.active = turn.active /\ turn'.disturbed
           /\ reminder' = reminder /\ seized' = seized
  BY DEF Acted, RoutingInv, RoutingTypes, Turn, CaseOrNone

LEMMA OpenIs ==
    ASSUME RoutingInv, NEW c \in Open
    PROVE  c \in CaseSlots /\ c \in Born /\ cases[c] \in Case /\ cases[c].status # "none"
  BY BornIs DEF RoutingInv, RoutingTypes

LEMMA TakeCaseKeeps ==
    ASSUME RoutingInv, NEW c \in CaseSlots, TakeCase(c) \/ CloseCase(c)
    PROVE  RoutingInv'
  <1>1. c \in CaseSlots /\ c \in Born /\ cases[c] \in Case /\ Acted(c)
    BY OpenIs DEF TakeCase, CloseCase
  <1>2. PICK row \in Case : /\ Write(c, row) /\ row.status \in {"HUMAN_ACTIVE", "COMPLETED"}
                            /\ row.schedule = cases[c].schedule
                            /\ row.enabled => cases[c].enabled
    <2>1. CASE TakeCase(c)
      <3>1. PICK moved \in Case : /\ moved = Moved(cases[c], "HUMAN_ACTIVE")
                                  /\ moved.status = "HUMAN_ACTIVE" /\ moved.schedule = cases[c].schedule
        BY <1>1, MovedIs DEF CaseStatuses, Human
      <3>2. PICK row \in Case : row = [moved EXCEPT !.owned = TRUE, !.enabled = FALSE]
        BY DEF Case
      <3>3. row.status = "HUMAN_ACTIVE" /\ row.schedule = cases[c].schedule /\ ~row.enabled
        BY <3>1, <3>2 DEF Case
      <3> QED  BY <2>1, <3>1, <3>2, <3>3 DEF TakeCase
    <2>2. CASE CloseCase(c)
      <3>1. PICK moved \in Case : /\ moved = Moved(cases[c], "COMPLETED")
                                  /\ moved.status = "COMPLETED" /\ moved.schedule = cases[c].schedule
                                  /\ moved.enabled = cases[c].enabled
        BY <1>1, MovedIs DEF CaseStatuses, Terminal
      <3>2. PICK row \in Case : row = [moved EXCEPT !.due = FALSE]
        BY DEF Case
      <3>3. row.status = "COMPLETED" /\ row.schedule = cases[c].schedule /\ row.enabled = cases[c].enabled
        BY <3>1, <3>2 DEF Case
      <3> QED  BY <2>2, <3>1, <3>2, <3>3 DEF CloseCase
    <2> QED  BY <2>1, <2>2
  <1>3. /\ cases' \in [CaseSlots -> Case] /\ freshest' \in [CaseSlots -> Nat]
        /\ cases'[c] = row /\ \A d \in CaseSlots : d # c => cases'[d] = cases[d]
    BY <1>2, WriteIs DEF RoutingInv
  <1>4. pointer' \in CaseOrNone /\ reminders' = reminders /\ handedBack' = handedBack
    BY DEF TakeCase, CloseCase, CaseOrNone
  <1>5. RoutingTypes'
    BY <1>1, <1>3, <1>4, ActedIs DEF RoutingInv, RoutingTypes
  <1>6. ASSUME NEW d \in CaseSlots PROVE Tame(d)
    BY <1>2, <1>3, SettledIs DEF Tame, Settled, Automated
  <1>7. Born' = Born
    <2>1. Born' = Born \cup {c}
      BY <1>2, <1>3, BornGrows
    <2> QED  BY <1>1, <2>1
  <1> QED  BY <1>1, <1>4, <1>5, <1>6, <1>7, ActedIs, Meanwhile

\* Steps that one of the two histories explains.
LEMMA HandBackKeeps ==
    ASSUME RoutingInv, NEW c \in CaseSlots, HandBack(c)
    PROVE  RoutingInv'
  <1>1. /\ c \in Born /\ cases[c] \in Case /\ Acted(c) /\ handedBack' = TRUE
        /\ pointer' = pointer /\ reminders' = reminders
    BY OpenIs DEF HandBack
  <1>2. PICK s \in Automated : Write(c, [Moved(cases[c], s) EXCEPT !.enabled = TRUE, !.owned = FALSE])
    BY DEF HandBack
  <1>3. PICK moved \in Case : /\ moved = Moved(cases[c], s) /\ moved.status = s
                              /\ moved.schedule = cases[c].schedule
    BY <1>1, MovedIs DEF CaseStatuses
  <1>4. PICK row \in Case : row = [moved EXCEPT !.enabled = TRUE, !.owned = FALSE]
    BY DEF Case
  <1>5. row.status = s /\ row.schedule = cases[c].schedule
    BY <1>3, <1>4 DEF Case
  <1>6. /\ cases' \in [CaseSlots -> Case] /\ freshest' \in [CaseSlots -> Nat]
        /\ cases'[c] = row /\ \A d \in CaseSlots : d # c => cases'[d] = cases[d]
    BY <1>2, <1>3, <1>4, WriteIs DEF RoutingInv
  <1>7. s \notin {"none", "PAUSED"}
    BY DEF Automated
  <1>8. Born' = Born /\ Unborns' = Unborns
    <2>1. Born' = Born \cup {c}
      BY <1>5, <1>6, <1>7, BornGrows
    <2> QED  BY <1>1, <2>1 DEF Unborns
  <1>9. RoutingTypes'
    BY <1>1, <1>6, ActedIs DEF RoutingInv, RoutingTypes
  <1>10. SlotsFill'
    BY <1>1, <1>5, <1>6, <1>7, <1>8, ActedIs DEF RoutingInv, SlotsFill
  <1>11. TurnKnows'
    BY <1>1, <1>8, ActedIs DEF RoutingInv, TurnKnows
  <1>12. AskedOnce'
    BY <1>1, <1>5, <1>6, ActedIs DEF RoutingInv, AskedOnce, RemindedOnce
  <1>13. PausedIsFree'
    BY <1>1, <1>5, <1>6, <1>7, ActedIs DEF RoutingInv, PausedIsFree
  <1>14. OneServed' /\ NobodyHas' /\ PromisedPersonIsThere'
    BY <1>1, ActedIs DEF OneServed, NobodyHas, PromisedPersonIsThere
  <1> QED  BY <1>9, <1>10, <1>11, <1>12, <1>13, <1>14 DEF RoutingInv

\* A schedule is asked for, or noted: the rest of the case keeps still.
LEMMA ScheduleKeeps ==
    ASSUME RoutingInv, RoutingTypes', NEW c \in Born,
           \A d \in CaseSlots : d # c => cases'[d] = cases[d],
           cases'[c].status # "none", Calm(c),
           cases'[c].status = "PAUSED" /\ cases'[c].owned => cases[c].status = "PAUSED" /\ cases[c].owned,
           UNCHANGED <<handedBack, seized>>, AskedOnce', reminder' = 0 \/ reminder' = reminder,
           turn'.at = turn.at, turn'.on = turn.on, turn'.pause = turn.pause, turn'.resume = turn.resume,
           turn'.active = turn.active, turn.resume # 0 /\ ~turn'.disturbed => cases'[turn.resume].status = cases[turn.resume].status,
           turn.disturbed => turn'.disturbed, NobodyHas', PromisedPersonIsThere'
    PROVE  RoutingInv'
  <1>1. c \in CaseSlots
    BY BornIs DEF RoutingInv
  <1>2. \A d \in CaseSlots : Calm(d)
    BY DEF Calm
  <1>3. Born' = Born /\ Unborns' = Unborns
    <2>1. Born' = Born \cup {c}
      BY <1>1, BornGrows
    <2> QED  BY <2>1 DEF Unborns
  <1>4. SlotsFill'
    BY <1>3 DEF RoutingInv, SlotsFill
  <1>5. TurnKnows'
    BY <1>3 DEF RoutingInv, TurnKnows
  <1>6. OneServed'
    BY <1>2, <1>4, ServedKeep
  <1>7. PausedIsFree'
    BY DEF RoutingInv, PausedIsFree
  <1> QED  BY <1>4, <1>5, <1>6, <1>7 DEF RoutingInv

LEMMA ScheduleCaseKeeps ==
    ASSUME RoutingInv, NEW c \in CaseSlots, ScheduleCase(c)
    PROVE  RoutingInv'
  <1>1. /\ c \in Born /\ cases[c] \in Case /\ Acted(c) /\ handedBack' = handedBack
        /\ pointer' = pointer /\ reminders' = [reminders EXCEPT ![c] = "asked"]
    BY OpenIs DEF ScheduleCase
  <1>2. PICK moved \in Case : moved = Moved(cases[c], "WAITING_USER") /\ moved.status = "WAITING_USER"
    BY <1>1, MovedIs DEF CaseStatuses, Automated
  <1>3. PICK row \in Case : row = [moved EXCEPT !.schedule = "set", !.enabled = FALSE]
    BY DEF Case
  <1>4. row.status = "WAITING_USER" /\ ~row.enabled /\ row.schedule = "set"
    BY <1>2, <1>3 DEF Case
  <1>5. Write(c, row)
    BY <1>2, <1>3 DEF ScheduleCase
  <1>6. /\ cases' \in [CaseSlots -> Case] /\ freshest' \in [CaseSlots -> Nat]
        /\ cases'[c] = row /\ \A d \in CaseSlots : d # c => cases'[d] = cases[d]
    BY <1>5, WriteIs DEF RoutingInv
  <1>7. RoutingTypes'
    BY <1>1, <1>6, ActedIs DEF RoutingInv, RoutingTypes, Tellings
  <1>8. AskedOnce'
    BY <1>1, <1>6, ActedIs DEF RoutingInv, RoutingTypes, AskedOnce, RemindedOnce
  <1>9. NobodyHas' /\ PromisedPersonIsThere'
    BY <1>1, ActedIs DEF NobodyHas, PromisedPersonIsThere
  <1> QED  BY <1>1, <1>4, <1>6, <1>7, <1>8, <1>9, ActedIs, ScheduleKeeps DEF Calm

LEMMA RemindKeeps ==
    ASSUME RoutingInv, Remind
    PROVE  RoutingInv'
  <1>1. PICK c \in CaseSlots : c = reminder /\ c \in Born
    BY BornIs DEF Remind, RoutingInv, TurnKnows
  <1>2. /\ c # 0 /\ reminder' = 0 /\ handedBack' = handedBack /\ seized' = seized /\ pointer' = pointer
        /\ reminders' = Announced(c) /\ Write(c, [cases[c] EXCEPT !.schedule = "noted"])
        /\ turn' = [turn EXCEPT !.touched = turn.touched \cup {c}]
    BY <1>1 DEF Remind
  <1>3. cases[c] \in Case /\ cases[c].status # "none"
    BY <1>1, BornIs DEF RoutingInv, RoutingTypes
  <1>4. PICK row \in Case : row = [cases[c] EXCEPT !.schedule = "noted"]
    BY <1>3 DEF Case
  <1>5. /\ row.status = cases[c].status /\ row.enabled = cases[c].enabled /\ row.owned = cases[c].owned
        /\ row.schedule = "noted"
    BY <1>3, <1>4 DEF Case
  <1>6. /\ cases' \in [CaseSlots -> Case] /\ freshest' \in [CaseSlots -> Nat]
        /\ cases'[c] = row /\ \A d \in CaseSlots : d # c => cases'[d] = cases[d]
    BY <1>2, <1>4, WriteIs DEF RoutingInv
  <1>7. reminders' = [reminders EXCEPT ![c] = "announced"]
    BY <1>1, <1>2 DEF Announced, RoutingInv, AskedOnce
  <1>8. /\ turn' \in Turn /\ turn'.at = turn.at /\ turn'.on = turn.on /\ turn'.pause = turn.pause
        /\ turn'.resume = turn.resume /\ turn'.active = turn.active /\ turn'.disturbed = turn.disturbed
        /\ turn'.dropped = turn.dropped /\ turn'.reply = turn.reply /\ turn'.again = turn.again
    BY <1>2 DEF RoutingInv, RoutingTypes, Turn, CaseOrNone
  <1>9. RoutingTypes'
    BY <1>1, <1>2, <1>6, <1>7, <1>8 DEF RoutingInv, RoutingTypes, CaseOrNone, Tellings
  <1>10. AskedOnce'
    BY <1>2, <1>5, <1>6, <1>7 DEF RoutingInv, RoutingTypes, AskedOnce, RemindedOnce
  <1>11. Born' = Born
    <2>1. Born' = Born \cup {c}
      BY <1>1, <1>3, <1>5, <1>6, BornGrows
    <2> QED  BY <1>1, <2>1
  <1>12. \A d \in CaseSlots : /\ cases'[d].status = cases[d].status /\ cases'[d].owned = cases[d].owned
                              /\ cases'[d].enabled = cases[d].enabled
    BY <1>5, <1>6
  <1>13. Open' = Open
    BY <1>11, <1>12, BornIs DEF Open, Born
  <1>14. NobodyHas' /\ PromisedPersonIsThere'
    <2>1. Open \subseteq CaseSlots
      BY BornIs DEF RoutingInv
    <2> QED  BY <1>2, <1>8, <1>12, <1>13, <2>1
             DEF RoutingInv, NobodyHas, PromisedPersonIsThere, WithPerson
  <1>15. turn.resume # 0 => cases'[turn.resume].status = cases[turn.resume].status
    <2>1. turn.resume \in {0} \cup CaseSlots
      BY BornIs DEF RoutingInv, TurnKnows
    <2> QED  BY <1>6, <1>12, <2>1, Slots
  <1> QED  BY <1>1, <1>2, <1>3, <1>5, <1>6, <1>8, <1>9, <1>10, <1>14, <1>15, ScheduleKeeps DEF Calm

LEMMA AgentWritesKeeps ==
    ASSUME RoutingInv, AgentWrites
    PROVE  RoutingInv'
  <1>1. /\ cases' = cases /\ freshest' = freshest /\ pointer' = pointer /\ reminder' = reminder
        /\ reminders' = reminders /\ handedBack' = handedBack /\ seized' = seized
        /\ turn' = [turn EXCEPT !.disturbed = TRUE]
    BY DEF AgentWrites
  <1>2. /\ turn' \in Turn /\ turn'.at = turn.at /\ turn'.on = turn.on /\ turn'.pause = turn.pause
        /\ turn'.resume = turn.resume /\ turn'.active = turn.active /\ turn'.disturbed
    BY <1>1 DEF RoutingInv, RoutingTypes, Turn
  <1>3. RoutingTypes'
    BY <1>1, <1>2 DEF RoutingInv, RoutingTypes
  <1> QED  BY <1>1, <1>2, <1>3, Unsettled, Meanwhile

LEMMA DayPassesKeeps ==
    ASSUME RoutingInv, DayPasses
    PROVE  RoutingInv'
  <1>1. /\ freshest' = freshest /\ pointer' = pointer /\ reminder' = reminder /\ turn' = turn
        /\ reminders' = reminders /\ handedBack' = handedBack /\ seized' = seized
        /\ turn.at \in {"idle", "done", "quiet"}
        /\ cases' = [c \in CaseSlots |-> IF c \in Open THEN [cases[c] EXCEPT !.due = TRUE] ELSE cases[c]]
    BY DEF DayPasses
  <1>2. ASSUME NEW c \in CaseSlots
        PROVE  /\ cases'[c] \in Case /\ cases'[c].status = cases[c].status /\ cases'[c].enabled = cases[c].enabled
               /\ cases'[c].owned = cases[c].owned /\ cases'[c].schedule = cases[c].schedule
               /\ c \notin Born => cases'[c] = cases[c]
    BY <1>1 DEF RoutingInv, RoutingTypes, Case, Open
  <1>3. RoutingTypes'
    <2>1. cases' \in [CaseSlots -> Case]
      BY <1>1, <1>2
    <2> QED  BY <1>1, <2>1 DEF RoutingInv, RoutingTypes
  <1>4. ASSUME NEW c \in CaseSlots PROVE Tame(c)
    BY <1>2, BornIs DEF RoutingInv, Tame, Settled
  <1>5. Born' = Born
    <2>1. ASSUME NEW c \in CaseSlots PROVE cases'[c] = Unborn <=> cases[c] = Unborn
      <3>1. CASE c \in Born
        BY <1>2, <3>1, BornIs, CaseIs DEF RoutingInv, Born
      <3> QED  BY <1>2, <3>1 DEF Born
    <2> QED  BY <2>1 DEF Born
  <1>6. PromisedPersonIsThere'
    BY <1>1 DEF PromisedPersonIsThere
  <1> QED  BY <1>1, <1>3, <1>4, <1>5, <1>6, RefsKeep, Ends

LEMMA ReminderDueKeeps ==
    ASSUME RoutingInv, NEW c \in CaseSlots, ReminderDue(c)
    PROVE  RoutingInv'
  <1>1. /\ cases' = cases /\ freshest' = freshest /\ pointer' = pointer /\ reminder' = c /\ turn' = turn
        /\ reminders' = reminders /\ handedBack' = handedBack /\ seized' = seized
        /\ cases[c].schedule = "set" /\ c \in Born
    BY OpenIs DEF ReminderDue
  <1>2. Born' = Born /\ Unborns' = Unborns /\ Open' = Open /\ Serving' = Serving
    BY <1>1 DEF Born, Unborns, Open, Serving
  <1>3. RoutingTypes'
    BY <1>1 DEF RoutingInv, RoutingTypes, CaseOrNone
  <1>4. SlotsFill' /\ TurnKnows' /\ AskedOnce'
    BY <1>1, <1>2 DEF RoutingInv, SlotsFill, TurnKnows, AskedOnce, RemindedOnce
  <1>5. OneServed' /\ PausedIsFree' /\ NobodyHas' /\ PromisedPersonIsThere'
    BY <1>1, <1>2 DEF RoutingInv, OneServed, PausedIsFree, NobodyHas, PromisedPersonIsThere
  <1> QED  BY <1>3, <1>4, <1>5 DEF RoutingInv

-----------------------------------------------------------------------------
(* The theorems *)

LEMMA RoutingNextKeeps ==
    ASSUME RoutingInv, [RoutingNext]_mrVars
    PROVE  RoutingInv'
  <1>1. CASE UNCHANGED mrVars
    <2>1. /\ cases' = cases /\ freshest' = freshest /\ pointer' = pointer /\ reminder' = reminder
          /\ turn' = turn /\ reminders' = reminders /\ handedBack' = handedBack /\ seized' = seized
      BY <1>1 DEF mrVars
    <2>2. Born' = Born /\ Unborns' = Unborns /\ Open' = Open /\ Serving' = Serving
      BY <2>1 DEF Born, Unborns, Open, Serving
    <2>3. RoutingTypes' /\ SlotsFill' /\ TurnKnows' /\ AskedOnce'
      BY <2>1, <2>2 DEF RoutingInv, RoutingTypes, SlotsFill, TurnKnows, AskedOnce, RemindedOnce
    <2>4. OneServed' /\ PausedIsFree' /\ NobodyHas' /\ PromisedPersonIsThere'
      BY <2>1, <2>2 DEF RoutingInv, OneServed, PausedIsFree, NobodyHas, PromisedPersonIsThere
    <2> QED  BY <2>3, <2>4 DEF RoutingInv
  <1>2. CASE \E said \in Interpretations : ReceiveBatch(said)
    BY <1>2, ReceiveBatchKeeps
  <1>3. CASE Gates \/ Arbitrate \/ Clarify \/ RequestHuman \/ PauseActive \/ OpenCase
    BY <1>3, GatesKeeps, ArbitrateKeeps, ClarifyKeeps, RequestHumanKeeps, PauseActiveKeeps, OpenCaseKeeps
  <1>4. CASE PaymentReported \/ PaymentShown \/ Advance \/ Deliver \/ Throw \/ Fallback
    BY <1>4, PaymentReportedKeeps, PaymentShownKeeps, AdvanceKeeps, DeliverKeeps, FallbackKeeps
  <1>5. CASE AgentActs
    BY <1>5, TakeCaseKeeps, HandBackKeeps, ScheduleCaseKeeps DEF AgentActs
  <1>6. CASE AgentWrites \/ DayPasses
    BY <1>6, AgentWritesKeeps, DayPassesKeeps
  <1>7. CASE (\E c \in CaseSlots : ReminderDue(c)) \/ Remind
    BY <1>7, ReminderDueKeeps, RemindKeeps
  <1> QED  BY <1>1, <1>2, <1>3, <1>4, <1>5, <1>6, <1>7 DEF RoutingNext

LEMMA RoutingInitHolds ==
    ASSUME RoutingInit
    PROVE  RoutingInv
  <1>1. NoTurn.at = "idle"
    BY DEF NoTurn
  <1>2. Born = {} /\ Open = {} /\ Serving = {}
    BY DEF RoutingInit, Born, Open, Serving
  <1>3. RoutingTypes
    BY CaseIs, TurnIs DEF RoutingInit, RoutingTypes, CaseOrNone, Tellings
  <1>4. SlotsFill
    <2>1. 0 \in 0..MaxCases /\ {} = 1..0
      BY MaxCasesAssumption
    <2> QED  BY <1>1, <1>2, <2>1 DEF RoutingInit, SlotsFill
  <1>5. TurnKnows
    BY <1>1, TurnIs DEF RoutingInit, TurnKnows
  <1>6. AskedOnce
    BY CaseIs DEF RoutingInit, AskedOnce, RemindedOnce
  <1>7. OneServed /\ NobodyHas /\ PromisedPersonIsThere
    BY <1>1, <1>2 DEF RoutingInit, OneServed, NobodyHas, PromisedPersonIsThere
  <1>8. PausedIsFree
    BY CaseIs DEF RoutingInit, PausedIsFree
  <1> QED  BY <1>3, <1>4, <1>5, <1>6, <1>7, <1>8 DEF RoutingInv

\* Whatever the batches of a conversation, the agents, the timer of the schedules and
\* a restart do in turn, a batch knows the cases it is about, and no step leaves more
\* cases to the bot than it serves.
THEOREM RoutingSafe == RoutingSpec => []RoutingInv
  BY RoutingInitHolds, RoutingNextKeeps, PTL DEF RoutingSpec

\* Topic changes, resumed cases, failures and handovers leave at most one case that
\* the bot would serve on its own, unless an agent gave a case back or a change of
\* topic paused a case that is not the one served.
THEOREM OneCaseIsServed == RoutingSpec => []OneAutomatedCase
  <1>1. RoutingInv => OneAutomatedCase
    <2> SUFFICES ASSUME RoutingInv, ~handedBack, seized = {} PROVE Cardinality(Serving) <= 1
      BY DEF OneAutomatedCase
    <2>1. \A c, d \in Serving : c = d
      BY DEF RoutingInv, OneServed
    <2>2. CASE Serving = {}
      BY <2>2, FS_EmptySet
    <2>3. CASE Serving # {}
      <3>1. PICK c : Serving = {c}
        BY <2>1, <2>3
      <3>2. Cardinality({c}) = 1
        BY FS_Singleton
      <3> QED  BY <3>1, <3>2
    <2> QED  BY <2>2, <2>3
  <1> QED  BY <1>1, RoutingSafe, PTL

\* A customer who is told that a person takes over has a case in the hands of people,
\* with its automation off, when the message goes out undisturbed.
THEOREM PersonIsThere == RoutingSpec => []PromisedPersonIsThere
  <1>1. RoutingInv => PromisedPersonIsThere
    BY DEF RoutingInv
  <1> QED  BY <1>1, RoutingSafe, PTL

\* The bot says nothing on its own while a person has the case the conversation points
\* to, or any case if it points to none: the gates of the batch end it quietly.
THEOREM QuietWhilePersonHasIt == RoutingSpec => []QuietWithPerson
  <1>1. RoutingInv => QuietWithPerson
    BY DEF RoutingInv, NobodyHas, QuietWithPerson
  <1> QED  BY <1>1, RoutingSafe, PTL

\* A schedule is announced to the agents at most once (CheckScheduledReminders).
THEOREM RemindedAtMostOnce == RoutingSpec => []RemindedOnce
  <1>1. RoutingInv => RemindedOnce
    BY DEF RoutingInv, AskedOnce
  <1> QED  BY <1>1, RoutingSafe, PTL

-----------------------------------------------------------------------------
(* Gateway: what holds between the steps of a call *)

Calls == {"idle", "done"} \cup Busy
GatewayTypes ==
    /\ route \in Routes /\ execution \in {"absent", "DISPATCHED", "COMPLETED", "FAILED"}
    /\ registry \in Entries /\ entryCopy \in {"none", "inactive", "active"} /\ admin \in BOOLEAN
    /\ at \in [Invocations -> Calls] /\ found \in [Invocations -> Entries]
    /\ requests \in [Invocations -> Nat] /\ answer \in [Invocations -> {"none", "ok", "retryable", "final"}]
    /\ performed \in Nat /\ barred \in SUBSET Invocations
    /\ overlap \in BOOLEAN /\ silent \in BOOLEAN /\ overtaken \in BOOLEAN

\* Once the action has been done, the only call that goes on has been told so, or
\* it is recorded and no call goes on.
Alone == ~overlap => \A i, j \in Invocations : at[i] \in Busy /\ at[j] \in Busy => i = j
Told ==
    \/ execution = "COMPLETED" /\ \A i \in Invocations : at[i] \notin Busy
    \/ \E i \in Invocations : at[i] \in {"sent", "again", "record"} /\ answer[i] = "ok"
DoneIsTold == ~overlap /\ ~silent => performed = 0 \/ (performed = 1 /\ Told)

\* While an action is off and nobody is changing that, no copy says it is on, and
\* no call that began since has been given one that does.
OffIsOff ==
    route = "n8n" /\ ~overtaken =>
        /\ barred # {} => registry # "active"
        /\ entryCopy = "active" => registry = "active" \/ (admin /\ barred = {})
        /\ \A i \in Invocations : at[i] = "query" /\ found[i] = "active" => registry = "active"
        /\ \A i \in barred : found[i] # "active" /\ requests[i] = 0
Fresh ==
    /\ \A i \in Invocations : at[i] = "idle" => requests[i] = 0 /\ found[i] # "active"
    /\ route = "n8n" => \A i \in Invocations : at[i] # "again"

GatewayInv == GatewayTypes /\ Alone /\ DoneIsTold /\ OffIsOff /\ Fresh

-----------------------------------------------------------------------------
(* Gateway: once, and only if it is on *)

\* A call goes on that was going on.
Continues(i, step) == at[i] \in Busy /\ step \in {"done"} \cup Busy /\ at' = [at EXCEPT ![i] = step]

LEMMA ContinuesIs ==
    ASSUME GatewayInv, NEW i \in Invocations, NEW step, Continues(i, step), overlap' = overlap
    PROVE  /\ at' \in [Invocations -> Calls] /\ at'[i] = step
           /\ \A j \in Invocations : j # i => at'[j] = at[j]
           /\ Alone'
           /\ ~overlap => \A j \in Invocations : at[j] \in Busy => j = i
  <1>1. /\ at' \in [Invocations -> Calls] /\ at'[i] = step
        /\ \A j \in Invocations : j # i => at'[j] = at[j]
    BY DEF Continues, Calls, GatewayInv, GatewayTypes
  <1>2. ~overlap => \A j \in Invocations : at[j] \in Busy => j = i
    BY DEF Continues, GatewayInv, Alone
  <1>3. Alone'
    BY <1>1, <1>2 DEF Alone
  <1> QED  BY <1>1, <1>2, <1>3

\* Who goes on alone, and has not been told "ok" of a request, has done nothing.
LEMMA NothingDone ==
    ASSUME GatewayInv, NEW i \in Invocations, at[i] \in Busy, ~overlap, ~silent,
           at[i] \notin {"sent", "again", "record"} \/ answer[i] # "ok"
    PROVE  performed = 0
  <1>1. \A j \in Invocations : at[j] \in Busy => j = i
    BY DEF GatewayInv, Alone
  <1>2. ~Told
    <2>1. ASSUME NEW j \in Invocations, at[j] \in {"sent", "again", "record"}, answer[j] = "ok" PROVE FALSE
      <3>1. j = i
        BY <1>1, <2>1 DEF Busy
      <3> QED  BY <2>1, <3>1
    <2> QED  BY <2>1 DEF Told
  <1> QED  BY <1>2 DEF GatewayInv, DoneIsTold

\* A step inside of a call that sends no request.
LEMMA InsideKeeps ==
    ASSUME GatewayInv, NEW i \in Invocations, NEW step \in Busy, Continues(i, step),
           UNCHANGED <<route, execution, requests, performed, overlap, silent, registry, admin, barred, overtaken>>,
           found' \in [Invocations -> Entries], answer' \in [Invocations -> {"none", "ok", "retryable", "final"}],
           entryCopy' \in {"none", "inactive", "active"},
           \A j \in Invocations : j # i => answer'[j] = answer[j] /\ found'[j] = found[j],
           at[i] \in {"sent", "again", "record"} /\ answer[i] = "ok" =>
               step \in {"sent", "again", "record"} /\ answer'[i] = "ok",
           step = "again" => route # "n8n", OffIsOff'
    PROVE  GatewayInv'
  <1>1. /\ at' \in [Invocations -> Calls] /\ at'[i] = step /\ Alone'
        /\ \A j \in Invocations : j # i => at'[j] = at[j]
        /\ ~overlap => \A j \in Invocations : at[j] \in Busy => j = i
    BY ContinuesIs
  <1>2. GatewayTypes'
    BY <1>1 DEF GatewayInv, GatewayTypes
  <1>3. DoneIsTold'
    <2> SUFFICES ASSUME ~overlap, ~silent, performed # 0 PROVE performed = 1 /\ Told'
      BY DEF DoneIsTold
    <2>1. performed = 1 /\ at[i] \in {"sent", "again", "record"} /\ answer[i] = "ok"
      BY NothingDone DEF Continues, GatewayInv, DoneIsTold
    <2> QED  BY <1>1, <2>1 DEF Told
  <1>4. Fresh'
    <2>1. step # "idle"
      BY DEF Busy
    <2>2. \A j \in Invocations : at'[j] = "idle" => at[j] = "idle" /\ found'[j] = found[j]
      BY <1>1, <2>1
    <2>3. route = "n8n" => \A j \in Invocations : at'[j] # "again"
      BY <1>1 DEF GatewayInv, Fresh
    <2> QED  BY <2>2, <2>3 DEF GatewayInv, Fresh
  <1> QED  BY <1>1, <1>2, <1>3, <1>4 DEF GatewayInv

LEMMA LookUpKeeps ==
    ASSUME GatewayInv, NEW i \in Invocations, LookUp(i)
    PROVE  GatewayInv'
  <1>1. /\ at[i] = "idle" /\ i \in Invocations
        /\ UNCHANGED <<route, found, requests, performed, silent, registry, entryCopy, admin, overtaken>>
    BY DEF LookUp
  <1>2. CASE execution = "COMPLETED"
    <2>1. /\ at' = [at EXCEPT ![i] = "done"] /\ answer' = [answer EXCEPT ![i] = "ok"]
          /\ UNCHANGED <<execution, overlap, barred>>
      BY <1>2 DEF LookUp
    <2>2. /\ at' \in [Invocations -> Calls] /\ at'[i] = "done"
          /\ \A j \in Invocations : j # i => at'[j] = at[j] /\ answer'[j] = answer[j]
          /\ answer' \in [Invocations -> {"none", "ok", "retryable", "final"}]
      BY <2>1 DEF GatewayInv, GatewayTypes, Calls
    <2>3. GatewayTypes'
      BY <1>1, <2>1, <2>2 DEF GatewayInv, GatewayTypes
    <2>4. Alone' /\ Fresh' /\ OffIsOff'
      BY <1>1, <2>1, <2>2 DEF GatewayInv, Alone, Fresh, OffIsOff, Busy
    <2>5. Told => Told'
      BY <1>1, <2>1, <2>2 DEF Told, Busy
    <2>6. DoneIsTold'
      BY <1>1, <2>1, <2>5 DEF GatewayInv, DoneIsTold
    <2> QED  BY <2>3, <2>4, <2>6 DEF GatewayInv
  <1>3. CASE execution # "COMPLETED"
    <2>1. PICK step \in {"resolve", "send"} : step = IF route = "n8n" THEN "resolve" ELSE "send"
      OBVIOUS
    <2>2. /\ at' = [at EXCEPT ![i] = step] /\ answer' = answer
          /\ execution' = IF execution = "absent" THEN "DISPATCHED" ELSE execution
          /\ overlap' = (overlap \/ \E j \in Invocations : at[j] \in Busy)
          /\ barred' = IF registry # "active" /\ ~admin THEN barred \cup {i} ELSE barred
      BY <1>3, <2>1 DEF LookUp, Enter
    <2>3. /\ at' \in [Invocations -> Calls] /\ at'[i] = step
          /\ \A j \in Invocations : j # i => at'[j] = at[j]
      BY <2>2 DEF GatewayInv, GatewayTypes, Calls, Busy
    <2>4. overlap' \in BOOLEAN /\ (~overlap' => ~overlap /\ \A j \in Invocations : at[j] \notin Busy)
      BY <2>2
    <2>5. GatewayTypes'
      BY <1>1, <2>2, <2>3, <2>4 DEF GatewayInv, GatewayTypes
    <2>6. Alone'
      BY <2>3, <2>4 DEF Alone
    <2>7. DoneIsTold'
      BY <1>1, <1>3, <2>4 DEF GatewayInv, DoneIsTold, Told, Busy
    <2>8. OffIsOff' /\ Fresh'
      BY <1>1, <2>2, <2>3 DEF GatewayInv, OffIsOff, Fresh
    <2> QED  BY <2>5, <2>6, <2>7, <2>8 DEF GatewayInv
  <1> QED  BY <1>2, <1>3

LEMMA EndsKeeps ==
    ASSUME GatewayInv, NEW i \in Invocations, Record(i) \/ Die(i)
    PROVE  GatewayInv'
  <1>1. /\ Continues(i, "done") /\ UNCHANGED <<route, found, requests, answer, performed, overlap>>
        /\ UNCHANGED <<registry, entryCopy, admin, barred, overtaken>>
        /\ execution' \in {execution, "COMPLETED", "FAILED"} /\ silent' \in BOOLEAN
        /\ ~silent' => ~silent
    BY DEF Record, Die, Finish, Continues, rgVars, Busy, GatewayInv, GatewayTypes
  <1>2. /\ at' \in [Invocations -> Calls] /\ at'[i] = "done" /\ Alone'
        /\ \A j \in Invocations : j # i => at'[j] = at[j]
        /\ ~overlap => \A j \in Invocations : at[j] \in Busy => j = i
    BY <1>1, ContinuesIs
  <1>3. GatewayTypes' /\ OffIsOff' /\ Fresh'
    BY <1>1, <1>2 DEF GatewayInv, GatewayTypes, OffIsOff, Fresh
  <1>4. DoneIsTold'
    <2> SUFFICES ASSUME ~overlap, ~silent', performed # 0 PROVE performed = 1 /\ Told'
      BY <1>1 DEF DoneIsTold
    <2>1. performed = 1 /\ at[i] \in {"sent", "again", "record"} /\ answer[i] = "ok"
      BY <1>1, NothingDone DEF Continues, GatewayInv, DoneIsTold
    <2>2. ~Die(i)
      BY <2>1 DEF Die
    <2>3. execution' = "COMPLETED"
      BY <2>1, <2>2 DEF Record, Finish
    <2>4. \A j \in Invocations : at'[j] \notin Busy
      BY <1>2 DEF Busy
    <2> QED  BY <2>1, <2>3, <2>4 DEF Told
  <1> QED  BY <1>2, <1>3, <1>4 DEF GatewayInv

LEMMA ResolveKeeps ==
    ASSUME GatewayInv, NEW i \in Invocations, Resolve(i)
    PROVE  GatewayInv'
  <1>1. PICK step \in {"query", "send"} : step = IF entryCopy = "none" THEN "query" ELSE "send"
    OBVIOUS
  <1>2. PICK entry \in Entries : entry = IF entryCopy = "none" THEN registry ELSE entryCopy
    BY DEF GatewayInv, GatewayTypes, Entries
  <1>3. /\ at[i] = "resolve" /\ Continues(i, step) /\ found' = [found EXCEPT ![i] = entry]
        /\ UNCHANGED <<route, execution, requests, answer, performed, overlap, silent>>
        /\ UNCHANGED <<registry, entryCopy, admin, barred, overtaken>>
    BY <1>1, <1>2 DEF Resolve, Continues, Busy, rgVars
  <1>4. found' \in [Invocations -> Entries] /\ found'[i] = entry /\ \A j \in Invocations : j # i => found'[j] = found[j]
    BY <1>3 DEF GatewayInv, GatewayTypes
  <1>5. at'[i] = step /\ \A j \in Invocations : j # i => at'[j] = at[j]
    BY <1>3, ContinuesIs
  <1>6. OffIsOff'
    BY <1>1, <1>2, <1>3, <1>4, <1>5 DEF GatewayInv, GatewayTypes, OffIsOff
  <1>7. step \in Busy /\ answer' \in [Invocations -> {"none", "ok", "retryable", "final"}]
        /\ entryCopy' \in {"none", "inactive", "active"} /\ step # "again"
    BY <1>3 DEF Busy, GatewayInv, GatewayTypes
  <1> QED  BY <1>3, <1>4, <1>6, <1>7, InsideKeeps

LEMMA ResolvedKeeps ==
    ASSUME GatewayInv, NEW i \in Invocations, Resolved(i)
    PROVE  GatewayInv'
  <1>1. /\ at[i] = "query" /\ Continues(i, "send")
        /\ entryCopy' = IF found[i] = "absent" THEN "none" ELSE found[i]
        /\ UNCHANGED <<route, execution, found, requests, answer, performed, overlap, silent>>
        /\ UNCHANGED <<registry, admin, barred, overtaken>>
    BY DEF Resolved, Continues, Busy
  <1>2. at'[i] = "send" /\ \A j \in Invocations : j # i => at'[j] = at[j]
    BY <1>1, ContinuesIs
  <1>3. OffIsOff'
    BY <1>1, <1>2 DEF GatewayInv, GatewayTypes, OffIsOff
  <1>4. /\ answer' \in [Invocations -> {"none", "ok", "retryable", "final"}]
        /\ found' \in [Invocations -> Entries] /\ entryCopy' \in {"none", "inactive", "active"} /\ "send" \in Busy
    BY <1>1 DEF Busy, GatewayInv, GatewayTypes, Entries
  <1> QED  BY <1>1, <1>3, <1>4, InsideKeeps

\* The steps between the requests.
LEMMA BetweenKeeps ==
    ASSUME GatewayInv, NEW i \in Invocations, Unregistered(i) \/ Retry(i) \/ Posted(i)
    PROVE  GatewayInv'
  <1>1. /\ UNCHANGED <<route, execution, found, requests, performed, overlap, silent>>
        /\ UNCHANGED <<registry, entryCopy, admin, barred, overtaken>>
    BY DEF Unregistered, Retry, Posted, rgVars
  <1>2. PICK step \in {"send", "record", "again"} :
            /\ Continues(i, step) /\ (step = "again" => route # "n8n")
            /\ at[i] = "send" \/ answer' = answer
            /\ answer' = answer \/ answer' = [answer EXCEPT ![i] = "final"]
            /\ at[i] \in {"send", "sent"} /\ (at[i] = "sent" /\ answer[i] = "ok" => step # "send")
    <2>1. CASE Unregistered(i)
      BY <2>1 DEF Unregistered, Continues, Busy
    <2>2. CASE Retry(i)
      <3>1. PICK step \in {"send", "record"} :
                step = IF answer[i] = "retryable" /\ requests[i] < MaxRetries + 1 THEN "send" ELSE "record"
        OBVIOUS
      <3> QED  BY <2>2, <3>1 DEF Retry, Continues, Busy
    <2>3. CASE Posted(i)
      BY <2>3 DEF Posted, Continues, Busy
    <2> QED  BY <2>1, <2>2, <2>3
  <1>3. /\ answer' \in [Invocations -> {"none", "ok", "retryable", "final"}]
        /\ \A j \in Invocations : j # i => answer'[j] = answer[j]
    BY <1>2 DEF GatewayInv, GatewayTypes
  <1>4. at'[i] = step /\ \A j \in Invocations : j # i => at'[j] = at[j]
    BY <1>1, <1>2, ContinuesIs
  <1>5. OffIsOff'
    BY <1>1, <1>2, <1>4 DEF GatewayInv, OffIsOff
  <1>6. step \in Busy /\ found' \in [Invocations -> Entries] /\ entryCopy' \in {"none", "inactive", "active"}
    BY <1>1, <1>2 DEF Busy, GatewayInv, GatewayTypes
  <1> QED  BY <1>1, <1>2, <1>3, <1>5, <1>6, InsideKeeps

LEMMA SendKeepsOnce ==
    ASSUME GatewayInv, NEW i \in Invocations, Send(i)
    PROVE  GatewayInv'
  <1>1. /\ at[i] = "send" /\ Continues(i, "sent") /\ (route = "n8n" => found[i] = "active")
        /\ requests' = [requests EXCEPT ![i] = requests[i] + 1]
        /\ UNCHANGED <<route, execution, found, overlap>>
        /\ UNCHANGED <<registry, entryCopy, admin, barred, overtaken>>
    BY DEF Send, Continues, Busy, rgVars
  <1>2. PICK said \in {"ok", "retryable", "final"} :
            /\ answer' = [answer EXCEPT ![i] = said]
            /\ \/ performed' = performed + 1 /\ said = "ok" /\ silent' = silent
               \/ performed' = performed + 1 /\ silent' = TRUE
               \/ said # "ok" /\ UNCHANGED <<performed, silent>>
    BY DEF Send
  <1>3. /\ at' \in [Invocations -> Calls] /\ at'[i] = "sent" /\ Alone'
        /\ \A j \in Invocations : j # i => at'[j] = at[j]
        /\ ~overlap => \A j \in Invocations : at[j] \in Busy => j = i
    BY <1>1, ContinuesIs
  <1>4. /\ answer' \in [Invocations -> {"none", "ok", "retryable", "final"}] /\ answer'[i] = said
        /\ requests' \in [Invocations -> Nat] /\ \A j \in Invocations : j # i => requests'[j] = requests[j]
        /\ performed' \in Nat /\ silent' \in BOOLEAN
    <2>1. answer' \in [Invocations -> {"none", "ok", "retryable", "final"}] /\ answer'[i] = said
      BY <1>2 DEF GatewayInv, GatewayTypes
    <2>2. requests \in [Invocations -> Nat] /\ requests[i] + 1 \in Nat
      BY DEF GatewayInv, GatewayTypes
    <2>3. requests' \in [Invocations -> Nat] /\ \A j \in Invocations : j # i => requests'[j] = requests[j]
      BY <1>1, <2>2
    <2>4. performed' \in Nat
      BY <1>2 DEF GatewayInv, GatewayTypes
    <2>5. silent' \in BOOLEAN
      BY <1>2 DEF GatewayInv, GatewayTypes
    <2> QED  BY <2>1, <2>3, <2>4, <2>5
  <1>5. GatewayTypes'
    BY <1>1, <1>3, <1>4 DEF GatewayInv, GatewayTypes
  <1>6. DoneIsTold'
    <2> SUFFICES ASSUME ~overlap, ~silent' PROVE performed' = 0 \/ (performed' = 1 /\ Told')
      BY <1>1 DEF DoneIsTold
    <2>1. ~silent
      BY <1>2
    <2>2. performed = 0
      BY <1>1, <2>1, NothingDone DEF Busy
    <2> QED  BY <1>2, <1>3, <1>4, <2>2 DEF Told
  <1>7. OffIsOff'
    BY <1>1, <1>3, <1>4 DEF GatewayInv, OffIsOff
  <1>8. Fresh'
    BY <1>1, <1>3, <1>4 DEF GatewayInv, Fresh
  <1> QED  BY <1>3, <1>5, <1>6, <1>7, <1>8 DEF GatewayInv

LEMMA AskAgainKeeps ==
    ASSUME GatewayInv, NEW i \in Invocations, AskAgain(i)
    PROVE  GatewayInv'
  <1>1. /\ at[i] = "again" /\ Continues(i, "record")
        /\ requests' = [requests EXCEPT ![i] = requests[i] + 1]
        /\ UNCHANGED <<route, execution, found, answer, performed, overlap, silent>>
        /\ UNCHANGED <<registry, entryCopy, admin, barred, overtaken>>
    BY DEF AskAgain, Continues, Busy, rgVars
  <1>2. /\ at' \in [Invocations -> Calls] /\ at'[i] = "record" /\ Alone'
        /\ \A j \in Invocations : j # i => at'[j] = at[j]
    BY <1>1, ContinuesIs
  <1>3. requests' \in [Invocations -> Nat] /\ \A j \in Invocations : j # i => requests'[j] = requests[j]
    BY <1>1 DEF GatewayInv, GatewayTypes
  <1>4. route # "n8n"
    BY <1>1 DEF GatewayInv, Fresh
  <1>5. GatewayTypes' /\ OffIsOff' /\ Fresh'
    BY <1>1, <1>2, <1>3, <1>4 DEF GatewayInv, GatewayTypes, OffIsOff, Fresh
  <1>6. Told => Told'
    BY <1>1, <1>2 DEF Told, Busy
  <1>7. DoneIsTold'
    BY <1>1, <1>6 DEF GatewayInv, DoneIsTold
  <1> QED  BY <1>2, <1>5, <1>7 DEF GatewayInv

\* The registry, its cache and its administrators.
LEMMA RegistryKeeps ==
    ASSUME GatewayInv, UpsertN8nWorkflow \/ DeactivateN8nWorkflow \/ Invalidate \/ CacheExpires \/ UNCHANGED gwVars
    PROVE  GatewayInv'
  <1>1. /\ route' = route /\ execution' = execution /\ at' = at /\ found' = found /\ requests' = requests
        /\ answer' = answer /\ performed' = performed /\ overlap' = overlap /\ silent' = silent
    BY DEF UpsertN8nWorkflow, DeactivateN8nWorkflow, Switch, Invalidate, CacheExpires, exVars, gwVars
  <1>2. Alone' /\ DoneIsTold' /\ Fresh'
    BY <1>1 DEF GatewayInv, Alone, DoneIsTold, Told, Fresh
  <1>3. GatewayTypes' /\ OffIsOff'
    <2>1. ASSUME NEW entry \in {"inactive", "active"}, Switch(entry)
          PROVE  GatewayTypes' /\ OffIsOff'
      <3>1. /\ admin' = TRUE /\ ~admin /\ registry' = entry /\ entryCopy' = entryCopy
            /\ barred' = IF entry = "active" THEN {} ELSE barred
            /\ overtaken' = (overtaken \/ \E i \in Invocations : at[i] = "query")
        BY <2>1 DEF Switch
      <3>2. overtaken' \in BOOLEAN /\ (~overtaken' => ~overtaken /\ \A i \in Invocations : at[i] # "query")
        BY <3>1
      <3>3. GatewayTypes'
        BY <1>1, <3>1, <3>2 DEF GatewayInv, GatewayTypes, Entries
      <3>4. OffIsOff'
        BY <1>1, <3>1, <3>2 DEF GatewayInv, OffIsOff
      <3> QED  BY <3>3, <3>4
    <2>2. CASE Invalidate
      BY <1>1, <2>2 DEF Invalidate, GatewayInv, GatewayTypes, OffIsOff
    <2>3. CASE CacheExpires
      BY <1>1, <2>3 DEF CacheExpires, GatewayInv, GatewayTypes, OffIsOff
    <2>4. CASE UNCHANGED gwVars
      BY <1>1, <2>4 DEF gwVars, rgVars, GatewayInv, GatewayTypes, OffIsOff
    <2> QED  BY <2>1, <2>2, <2>3, <2>4 DEF UpsertN8nWorkflow, DeactivateN8nWorkflow
  <1> QED  BY <1>2, <1>3 DEF GatewayInv

LEMMA GatewayNextKeeps ==
    ASSUME GatewayInv, [GatewayNext]_gwVars
    PROVE  GatewayInv'
  BY LookUpKeeps, EndsKeeps, ResolveKeeps, ResolvedKeeps, BetweenKeeps, SendKeepsOnce, AskAgainKeeps,
     RegistryKeeps DEF GatewayNext, Request, PostJson

LEMMA GatewayInitHolds ==
    ASSUME GatewayInit
    PROVE  GatewayInv
  BY DEF GatewayInit, GatewayInv, GatewayTypes, Alone, DoneIsTold, OffIsOff, Fresh, Calls, Busy, Entries

\* An action is done at most once for its input, as long as the calls do not overlap
\* and no answer or record is lost; one that has been switched off is not asked of
\* n8n by a call that begins afterwards, whatever the cached registry held.
THEOREM DoneOnceIfOn == GatewaySpec => []OnceAndOnlyIfOn
  <1>1. GatewayInv => OnceAndOnlyIfOn
    <2> SUFFICES ASSUME GatewayInv PROVE PerformedOnce /\ OffMeansOff
      BY DEF OnceAndOnlyIfOn
    <2>1. PerformedOnce
      BY DEF GatewayInv, DoneIsTold, PerformedOnce
    <2>2. OffMeansOff
      BY DEF GatewayInv, OffIsOff, OffMeansOff
    <2> QED  BY <2>1, <2>2
  <1> QED  BY <1>1, GatewayInitHolds, GatewayNextKeeps, PTL DEF GatewaySpec

-----------------------------------------------------------------------------
(* Delivery: what holds between the reports *)

Ours(r) == {PlatformId(r), ProviderId(r), MadeUpId(r)}
Ids == {NoId} \cup UNION {Ours(r) : r \in Outgoing}
Row == [of : Outgoing, ext : Ids, status : {"sent", "delivered", "read", "failed"}, age : 0..2]
Sending == [at : {"none", "sending", "answered", "refused", "over"}, by : {"none", "ai", "agent"}, id : Ids]
Echo == [on : BOOLEAN, row : Nat]

DeliveryTypes ==
    /\ alike \in BOOLEAN /\ seenBy \in SUBSET Outgoing /\ excused \in SUBSET Outgoing
    /\ sending \in [Outgoing -> Sending] /\ copy \in [Outgoing -> {"none", "zernio", "meta"}]
    /\ msgRows \in Seq(Row) /\ hook \in [Outgoing -> Echo]

IdsKnow ==
    /\ \A i \in MsgRows, r \in Outgoing : msgRows[i].ext \in Ours(r) => Like(r, msgRows[i].of)
    /\ \A r \in Outgoing : sending[r].id \in {NoId} \cup Ours(r)
    /\ \A r \in Outgoing :
          hook[r].row # 0 => hook[r].row \in MsgRows /\ Like(r, msgRows[hook[r].row].of)

InPost(r) == sending[r].at \in {"sending", "answered", "refused"} \/ (sending[r].at = "none" /\ copy[r] = "none")
RowStored(r) ==
    /\ hook[r].on => copy[r] = "zernio"
    /\ sending[r].at = "sending" => copy[r] = "none"
    /\ r \notin excused =>
          /\ \A i, j \in RowsFor(r) : i = j
          /\ InPost(r) => RowsFor(r) = {}
          /\ hook[r].on /\ hook[r].row = 0 => sending[r].at \in {"none", "over"} /\ RowsFor(r) = {}

DeliveryInv == DeliveryTypes /\ IdsKnow /\ ReadMeansRead /\ \A r \in Outgoing : RowStored(r)

-----------------------------------------------------------------------------
(* Delivery: rows and ids *)

Reported == {"sent", "delivered", "read", "failed"}

LEMMA IdsAre ==
    /\ \A r \in Outgoing : Ours(r) \subseteq Ids /\ NoId \notin Ours(r)
    /\ NoId \in Ids
    /\ \A r, q : \A ext \in Ours(r) \cap Ours(q) : r = q
    /\ \A r : PlatformId(r) \in Ours(r) /\ ProviderId(r) \in Ours(r) /\ MadeUpId(r) \in Ours(r)
  BY DEF Ours, Ids, NoId, PlatformId, ProviderId, MadeUpId

LEMMA NewRowIs ==
    ASSUME NEW r \in Outgoing, NEW ext \in Ids, NEW status \in Reported
    PROVE  /\ NewRow(r, ext, status) \in Row /\ NewRow(r, ext, status).of = r
           /\ NewRow(r, ext, status).ext = ext /\ NewRow(r, ext, status).status = status
  BY DEF NewRow, Row, Reported

LEMMA NoEchoIs == NoEcho \in Echo /\ NoEcho.on = FALSE /\ NoEcho.row = 0
  BY DEF NoEcho, Echo

LEMMA RowsAre ==
    ASSUME NEW rows \in Seq(Row)
    PROVE  DOMAIN rows = 1..Len(rows) /\ Len(rows) \in Nat /\ \A i \in DOMAIN rows : rows[i] \in Row
  BY LenProperties, ElementOfSeq

\* Rows of which nothing but the content changes are rows.
LEMMA EditedIs ==
    ASSUME NEW rows \in Seq(Row), NEW new, new = [i \in DOMAIN rows |-> new[i]],
           \A i \in DOMAIN rows : new[i] \in Row
    PROVE  new \in Seq(Row) /\ DOMAIN new = DOMAIN rows
  <1>1. DOMAIN rows = 1..Len(rows) /\ Len(rows) \in Nat
    BY RowsAre
  <1>2. new \in [1..Len(rows) -> Row]
    BY <1>1
  <1> QED  BY <1>1, <1>2, SeqDef

LEMMA WithStatusIs ==
    ASSUME NEW rows \in Seq(Row), NEW ext \in Ids, NEW status \in Reported
    PROVE  /\ WithStatus(rows, ext, status) \in Seq(Row)
           /\ DOMAIN WithStatus(rows, ext, status) = DOMAIN rows
           /\ \A i \in DOMAIN rows :
                 /\ WithStatus(rows, ext, status)[i].of = rows[i].of
                 /\ WithStatus(rows, ext, status)[i].ext = rows[i].ext
                 /\ WithStatus(rows, ext, status)[i].status =
                       IF rows[i].ext = ext THEN status ELSE rows[i].status
  <1>1. PICK new : new = WithStatus(rows, ext, status)
    OBVIOUS
  <1>2. new = [i \in DOMAIN rows |-> IF rows[i].ext = ext THEN [rows[i] EXCEPT !.status = status] ELSE rows[i]]
    BY <1>1 DEF WithStatus
  <1>3. ASSUME NEW i \in DOMAIN rows
        PROVE  /\ new[i] \in Row /\ new[i].of = rows[i].of /\ new[i].ext = rows[i].ext
               /\ new[i].status = IF rows[i].ext = ext THEN status ELSE rows[i].status
    <2>1. rows[i] \in Row
      BY RowsAre
    <2> QED  BY <1>2, <2>1 DEF Row, Reported
  <1>4. new = [i \in DOMAIN rows |-> new[i]]
    BY <1>2
  <1>5. new \in Seq(Row) /\ DOMAIN new = DOMAIN rows
    BY <1>3, <1>4, EditedIs
  <1> QED  BY <1>1, <1>3, <1>5

LEMMA GiveIdIs ==
    ASSUME DeliveryTypes, NEW i \in MsgRows, NEW ext \in Ids
    PROVE  /\ GiveId(i, ext) \in Seq(Row) /\ DOMAIN GiveId(i, ext) = MsgRows
           /\ \A j \in MsgRows :
                 /\ GiveId(i, ext)[j].of = msgRows[j].of /\ GiveId(i, ext)[j].status = msgRows[j].status
                 /\ \/ GiveId(i, ext)[j].ext = msgRows[j].ext
                    \/ j = i /\ GiveId(i, ext)[j].ext = ext
  <1>1. msgRows \in Seq(Row)
    BY DEF DeliveryTypes
  <1>2. CASE msgRows[i].ext # NoId
    BY <1>1, <1>2 DEF GiveId, MsgRows
  <1>3. CASE msgRows[i].ext = NoId
    <2>1. PICK new : new = GiveId(i, ext)
      OBVIOUS
    <2>2. new = [msgRows EXCEPT ![i].ext = ext]
      BY <1>3, <2>1 DEF GiveId
    <2>3. msgRows[i] \in Row
      BY <1>1, RowsAre DEF MsgRows
    <2>4. PICK changed \in Row : changed = [msgRows[i] EXCEPT !.ext = ext]
      BY <2>3 DEF Row
    <2>5. changed.of = msgRows[i].of /\ changed.status = msgRows[i].status /\ changed.ext = ext
      BY <2>3, <2>4 DEF Row
    <2>6. new = [msgRows EXCEPT ![i] = changed]
      BY <2>2, <2>4
    <2>7. DOMAIN new = MsgRows /\ new[i] = changed /\ \A j \in MsgRows : j # i => new[j] = msgRows[j]
      BY <2>6 DEF MsgRows
    <2>8. new \in Seq(Row)
      BY <1>1, <2>6, ExceptSeq, RowsAre DEF MsgRows
    <2> QED  BY <2>1, <2>5, <2>7, <2>8
  <1> QED  BY <1>2, <1>3

\* A row is given the id, and the rows with it the status.
LEMMA MarkedIs ==
    ASSUME DeliveryTypes, NEW i \in MsgRows, NEW ext \in Ids, NEW status \in Reported,
           NEW new, new = WithStatus(GiveId(i, ext), ext, status)
    PROVE  /\ new \in Seq(Row) /\ DOMAIN new = MsgRows
           /\ \A j \in MsgRows : new[j].of = msgRows[j].of
           /\ \A j \in MsgRows : new[j].ext = msgRows[j].ext \/ (j = i /\ new[j].ext = ext)
           /\ \A j \in MsgRows : new[j].status = msgRows[j].status
                                \/ (new[j].status = status /\ new[j].ext = ext)
  <1>1. PICK given : given = GiveId(i, ext)
    OBVIOUS
  <1>2. given \in Seq(Row) /\ DOMAIN given = MsgRows
    BY <1>1, GiveIdIs
  <1>3. /\ new \in Seq(Row) /\ DOMAIN new = MsgRows
    BY <1>1, <1>2, WithStatusIs
  <1>4. ASSUME NEW j \in MsgRows
        PROVE  /\ new[j].of = msgRows[j].of
               /\ new[j].ext = msgRows[j].ext \/ (j = i /\ new[j].ext = ext)
               /\ new[j].status = msgRows[j].status \/ (new[j].status = status /\ new[j].ext = ext)
    <2>1. /\ given[j].of = msgRows[j].of /\ given[j].status = msgRows[j].status
          /\ given[j].ext = msgRows[j].ext \/ (j = i /\ given[j].ext = ext)
      BY <1>1, GiveIdIs
    <2>2. /\ new[j].of = given[j].of /\ new[j].ext = given[j].ext
          /\ new[j].status = IF given[j].ext = ext THEN status ELSE given[j].status
      BY <1>1, <1>2, WithStatusIs
    <2>3. new[j].of = msgRows[j].of
      BY <2>1, <2>2
    <2>4. new[j].ext = msgRows[j].ext \/ (j = i /\ new[j].ext = ext)
      BY <2>1, <2>2
    <2>5. new[j].status = msgRows[j].status \/ (new[j].status = status /\ new[j].ext = ext)
      BY <2>1, <2>2
    <2> QED  BY <2>3, <2>4, <2>5
  <1> QED  BY <1>3, <1>4

\* What is known belongs to the message, by its id or by its text; nothing is
\* known only if there is no young row of it.
LEMMA FoundIs ==
    ASSUME DeliveryInv, NEW r \in Outgoing, NEW minutes \in Nat
    PROVE  /\ \A i \in FindRecentOutbound(r, PlatformId(r), minutes) : i \in MsgRows /\ Like(r, msgRows[i].of)
           /\ FindRecentOutbound(r, PlatformId(r), minutes) = {} =>
                 \A i \in RowsFor(r) : ~(msgRows[i].age < minutes)
  <1> DEFINE byId == {i \in MsgRows : msgRows[i].ext = PlatformId(r)}
             byBody == {i \in MsgRows : Like(msgRows[i].of, r) /\ msgRows[i].age < minutes}
  <1>1. FindRecentOutbound(r, PlatformId(r), minutes)
          = IF byId # {} THEN byId ELSE {i \in byBody : \A j \in byBody : j <= i}
    BY DEF FindRecentOutbound
  <1>2. \A i \in byId : i \in MsgRows /\ Like(r, msgRows[i].of)
    BY IdsAre DEF DeliveryInv, IdsKnow
  <1>3. \A i \in byBody : i \in MsgRows /\ Like(r, msgRows[i].of)
    BY DEF Like
  <1>4. byBody # {} => \E i \in byBody : \A j \in byBody : j <= i
    <2>1. MsgRows = 1..Len(msgRows) /\ Len(msgRows) \in Nat
      BY RowsAre DEF DeliveryInv, DeliveryTypes, MsgRows
    <2>2. byBody \in SUBSET (1..Len(msgRows))
      BY <2>1
    <2> HIDE DEF byBody
    <2> QED  BY <2>1, <2>2, TopOf
  <1>5. \A i \in RowsFor(r) : msgRows[i].age < minutes => i \in byBody
    BY DEF RowsFor, Like
  <1> HIDE DEF byId, byBody
  <1> QED  BY <1>1, <1>2, <1>3, <1>4, <1>5

-----------------------------------------------------------------------------
(* Delivery: the steps *)

LEMMA SameRowsFor ==
    ASSUME MsgRows' = MsgRows, \A i \in MsgRows : msgRows'[i].of = msgRows[i].of
    PROVE  \A q \in Outgoing : RowsFor(q)' = RowsFor(q)
  BY DEF RowsFor

\* The messages that a step is not about.
LEMMA OthersKeep ==
    ASSUME DeliveryInv, NEW q \in Outgoing, RowsFor(q)' = RowsFor(q), excused \subseteq excused',
           sending'[q] = sending[q], copy'[q] = copy[q], hook'[q] \in {hook[q], NoEcho}
    PROVE  RowStored(q)'
  BY DEF DeliveryInv, RowStored, InPost, NoEcho

\* Rows are given ids and statuses.
LEMMA EditsKeep ==
    ASSUME DeliveryInv, NEW r \in Outgoing, msgRows' \in Seq(Row), MsgRows' = MsgRows,
           \A i \in MsgRows :
              /\ msgRows'[i].of = msgRows[i].of
              /\ \/ msgRows'[i].ext = msgRows[i].ext
                 \/ msgRows'[i].ext \in Ours(r) /\ Like(r, msgRows[i].of)
              /\ \/ msgRows'[i].status = msgRows[i].status
                 \/ msgRows'[i].status # "read"
                 \/ \E q \in seenBy' : Like(q, msgRows[i].of),
           seenBy \subseteq seenBy', seenBy' \in SUBSET Outgoing,
           excused \subseteq excused', excused' \in SUBSET Outgoing,
           UNCHANGED <<alike, sending, copy>>,
           hook' = hook \/ hook' = [hook EXCEPT ![r] = NoEcho]
    PROVE  DeliveryInv'
  <1>1. /\ hook' \in [Outgoing -> Echo]
        /\ \A q \in Outgoing : hook'[q] \in {hook[q], NoEcho}
    BY NoEchoIs DEF DeliveryInv, DeliveryTypes
  <1>2. DeliveryTypes'
    BY <1>1 DEF DeliveryInv, DeliveryTypes
  <1>3. \A q, p : Like(q, p)' <=> Like(q, p)
    BY DEF Like
  <1>4. IdsKnow'
    <2>1. ASSUME NEW i \in MsgRows, NEW q \in Outgoing, msgRows'[i].ext \in Ours(q)
          PROVE  Like(q, msgRows[i].of)
      BY <2>1, IdsAre DEF DeliveryInv, IdsKnow
    <2>2. ASSUME NEW q \in Outgoing, hook'[q].row # 0
          PROVE  hook'[q].row \in MsgRows /\ Like(q, msgRows[hook'[q].row].of)
      BY <1>1, <2>2 DEF DeliveryInv, IdsKnow, NoEcho
    <2> QED  BY <1>3, <2>1, <2>2 DEF DeliveryInv, IdsKnow
  <1>5. ReadMeansRead'
    BY <1>3 DEF DeliveryInv, ReadMeansRead
  <1>6. \A q \in Outgoing : RowStored(q)'
    BY <1>1, SameRowsFor, OthersKeep
  <1> QED  BY <1>2, <1>4, <1>5, <1>6 DEF DeliveryInv

\* A row is stored.
LEMMA AppendsKeep ==
    ASSUME DeliveryInv, NEW r \in Outgoing, NEW ext \in {NoId} \cup Ours(r), NEW status \in Reported,
           msgRows' = Append(msgRows, NewRow(r, ext, status)),
           status = "read" => r \in seenBy',
           seenBy \subseteq seenBy', seenBy' \in SUBSET Outgoing,
           excused \subseteq excused', excused' \in SUBSET Outgoing,
           UNCHANGED <<alike, copy>>,
           hook' = hook \/ hook' = [hook EXCEPT ![r] = NoEcho],
           sending' = sending \/ sending' = [sending EXCEPT ![r] = Over],
           r \in excused' \/ (RowsFor(r) = {} /\ ~InPost(r)' /\ ~(hook'[r].on /\ hook'[r].row = 0))
    PROVE  DeliveryInv'
  <1>1. PICK new \in Row : new = NewRow(r, ext, status) /\ new.of = r /\ new.ext = ext /\ new.status = status
    BY IdsAre, NewRowIs
  <1>2. PICK n \in Nat : MsgRows = 1..n /\ n = Len(msgRows)
    BY RowsAre DEF DeliveryInv, DeliveryTypes, MsgRows
  <1>3. msgRows' \in Seq(Row) /\ Len(msgRows') = n + 1 /\ msgRows'[n + 1] = new
        /\ \A i \in 1..n : msgRows'[i] = msgRows[i]
    BY <1>1, <1>2, AppendProperties DEF DeliveryInv, DeliveryTypes
  <1>4. MsgRows' = 1..(n + 1) /\ \A i \in MsgRows' : i = n + 1 \/ i \in 1..n
    <2>1. MsgRows' = 1..(n + 1)
      BY <1>3, LenProperties DEF MsgRows
    <2>2. \A i \in 1..(n + 1) : i = n + 1 \/ i \in 1..n
      OBVIOUS
    <2> QED  BY <2>1, <2>2
  <1>5. /\ hook' \in [Outgoing -> Echo]
        /\ \A q \in Outgoing : hook'[q] \in {hook[q], NoEcho} /\ (q # r => hook'[q] = hook[q])
    BY NoEchoIs DEF DeliveryInv, DeliveryTypes
  <1>6. /\ sending' \in [Outgoing -> Sending] /\ Over.id = NoId /\ Over.at = "over"
        /\ \A q \in Outgoing : sending'[q] \in {sending[q], Over} /\ (q # r => sending'[q] = sending[q])
    BY IdsAre DEF DeliveryInv, DeliveryTypes, Sending, Over, NotYet
  <1>7. DeliveryTypes'
    BY <1>3, <1>5, <1>6 DEF DeliveryInv, DeliveryTypes
  <1>8. \A q, p : Like(q, p)' <=> Like(q, p)
    BY DEF Like
  <1>9. IdsKnow'
    <2>1. ASSUME NEW i \in MsgRows', NEW q \in Outgoing, msgRows'[i].ext \in Ours(q)
          PROVE  Like(q, msgRows'[i].of)
      <3>1. CASE i = n + 1
        BY <1>1, <1>3, <2>1, <3>1, IdsAre DEF Like
      <3>2. CASE i \in 1..n
        BY <1>2, <1>3, <2>1, <3>2 DEF DeliveryInv, IdsKnow
      <3> QED  BY <1>4, <3>1, <3>2
    <2>2. ASSUME NEW q \in Outgoing, hook'[q].row # 0
          PROVE  hook'[q].row \in MsgRows' /\ Like(q, msgRows'[hook'[q].row].of)
      <3>1. hook[q].row \in 1..n /\ hook'[q].row = hook[q].row /\ Like(q, msgRows[hook[q].row].of)
        BY <1>2, <1>5, <2>2 DEF DeliveryInv, IdsKnow, NoEcho
      <3> QED  BY <1>3, <1>4, <3>1
    <2> QED  BY <1>6, <1>8, <2>1, <2>2 DEF DeliveryInv, IdsKnow
  <1>10. ReadMeansRead'
    <2> SUFFICES ASSUME NEW i \in MsgRows', msgRows'[i].status = "read"
                 PROVE  \E q \in seenBy' : Like(q, msgRows'[i].of)
      BY <1>8 DEF ReadMeansRead
    <2>1. CASE i = n + 1
      BY <1>1, <1>3, <2>1 DEF Like
    <2>2. CASE i \in 1..n
      BY <1>2, <1>3, <2>2 DEF DeliveryInv, ReadMeansRead
    <2> QED  BY <1>4, <2>1, <2>2
  <1>11. ASSUME NEW q \in Outgoing PROVE RowStored(q)'
    <2>1. RowsFor(q)' = IF q = r THEN RowsFor(q) \cup {n + 1} ELSE RowsFor(q)
      BY <1>1, <1>2, <1>3, <1>4 DEF RowsFor
    <2>2. CASE q # r
      BY <1>5, <1>6, <2>1, <2>2, OthersKeep
    <2>3. CASE q = r
      <3>1. /\ hook'[r].on => copy'[r] = "zernio"
            /\ sending'[r].at = "sending" => copy'[r] = "none"
        BY <1>5, <1>6 DEF DeliveryInv, RowStored, NoEcho
      <3> QED  BY <2>1, <2>3, <3>1 DEF RowStored
    <2> QED  BY <2>2, <2>3
  <1> QED  BY <1>7, <1>9, <1>10, <1>11 DEF DeliveryInv

\* Sending: the program's own steps until the answer, and an agent's phone.
LEMMA SendsKeep ==
    ASSUME DeliveryInv, NEW r \in Outgoing,
           (\E by \in {"ai", "agent"} : Ask(r, by)) \/ Provider(r) \/ DieSending(r) \/ PhoneWrites(r)
    PROVE  DeliveryInv'
  <1>1. /\ msgRows' = msgRows /\ hook' = hook /\ seenBy' = seenBy /\ alike' = alike /\ excused' = excused
    BY DEF Ask, Provider, Accepted, Refused, DieSending, PhoneWrites
  <1> DEFINE Went(new, via) ==
        /\ sending' = [sending EXCEPT ![r] = new] /\ copy' = [copy EXCEPT ![r] = via]
        /\ new.id \in {NoId} \cup Ours(r)
        /\ \/ sending[r].at = "none" /\ copy[r] = "none" /\ new.at = "sending" /\ via = "none"
           \/ sending[r].at = "sending" /\ new.at \in {"answered", "refused"}
           \/ new.at = "over" /\ via = copy[r] /\ sending[r].at # "none"
           \/ sending[r].at = "none" /\ copy[r] = "none" /\ new = sending[r] /\ via # "none"
  <1>2. PICK new \in Sending, via \in {"none", "zernio", "meta"} : Went(new, via)
    <2>1. sending[r] \in Sending /\ sending[r].id \in {NoId} \cup Ours(r) /\ copy[r] \in {"none", "zernio", "meta"}
      BY DEF DeliveryInv, DeliveryTypes, IdsKnow
    <2>2. ASSUME NEW by \in {"ai", "agent"}, Ask(r, by)
          PROVE  \E new \in Sending, via \in {"none", "zernio", "meta"} : Went(new, via)
      <3>1. PICK new \in Sending : new = [at |-> "sending", by |-> by, id |-> NoId]
        BY IdsAre DEF Sending
      <3>2. new.at = "sending" /\ new.id = NoId
        BY <3>1
      <3>3. /\ sending' = [sending EXCEPT ![r] = new] /\ copy' = [copy EXCEPT ![r] = "none"]
            /\ sending[r].at = "none" /\ copy[r] = "none"
        BY <2>2, <3>1 DEF Ask, DeliveryInv, DeliveryTypes
      <3> QED  BY <3>2, <3>3
    <2>3. ASSUME NEW id \in Ours(r), NEW via \in {"zernio", "meta"}, Accepted(r, via, id)
          PROVE  \E new \in Sending, way \in {"none", "zernio", "meta"} : Went(new, way)
      <3>1. PICK new \in Sending : new = [sending[r] EXCEPT !.at = "answered", !.id = id]
        BY <2>1, IdsAre DEF Sending
      <3>2. new.at = "answered" /\ new.id = id
        BY <2>1, <3>1 DEF Sending
      <3>3. sending' = [sending EXCEPT ![r] = new] /\ copy' = [copy EXCEPT ![r] = via] /\ sending[r].at = "sending"
        BY <2>3, <3>1 DEF Accepted, DeliveryInv, DeliveryTypes
      <3> QED  BY <3>2, <3>3
    <2>4. ASSUME NEW reached \in BOOLEAN, Refused(r, reached)
          PROVE  \E new \in Sending, via \in {"none", "zernio", "meta"} : Went(new, via)
      <3>1. PICK new \in Sending : new = [sending[r] EXCEPT !.at = "refused"]
        BY <2>1 DEF Sending
      <3>2. new.at = "refused" /\ new.id = sending[r].id
        BY <2>1, <3>1 DEF Sending
      <3>3. PICK via \in {"none", "zernio", "meta"} : via = IF reached THEN "zernio" ELSE copy[r]
        BY <2>1
      <3>4. sending' = [sending EXCEPT ![r] = new] /\ copy' = [copy EXCEPT ![r] = via] /\ sending[r].at = "sending"
        BY <2>4, <3>1, <3>3 DEF Refused, DeliveryInv, DeliveryTypes
      <3> QED  BY <2>1, <3>2, <3>4
    <2>5. ASSUME DieSending(r) PROVE \E new \in Sending, via \in {"none", "zernio", "meta"} : Went(new, via)
      <3>1. Over \in Sending /\ Over.at = "over" /\ Over.id = NoId
        BY IdsAre DEF Over, NotYet, Sending
      <3>2. sending' = [sending EXCEPT ![r] = Over] /\ copy' = [copy EXCEPT ![r] = copy[r]] /\ sending[r].at # "none"
        BY <2>5 DEF DieSending, DeliveryInv, DeliveryTypes
      <3> QED  BY <2>1, <3>1, <3>2
    <2>6. ASSUME PhoneWrites(r) PROVE \E new \in Sending, via \in {"none", "zernio", "meta"} : Went(new, via)
      <3>1. /\ sending' = [sending EXCEPT ![r] = sending[r]] /\ copy' = [copy EXCEPT ![r] = "zernio"]
            /\ sending[r].at = "none" /\ copy[r] = "none"
        BY <2>6 DEF PhoneWrites, DeliveryInv, DeliveryTypes
      <3> QED  BY <2>1, <3>1
    <2>7. Provider(r) => \/ \E id \in Ours(r), via \in {"zernio", "meta"} : Accepted(r, via, id)
                         \/ \E reached \in BOOLEAN : Refused(r, reached)
      BY IdsAre DEF Provider
    <2> QED  BY <2>2, <2>3, <2>4, <2>5, <2>6, <2>7
  <1>3. DeliveryTypes'
    BY <1>1, <1>2 DEF DeliveryInv, DeliveryTypes
  <1>4. \A q \in Outgoing : /\ sending'[q] = IF q = r THEN new ELSE sending[q]
                            /\ copy'[q] = IF q = r THEN via ELSE copy[q]
    BY <1>2 DEF DeliveryInv, DeliveryTypes
  <1>5. MsgRows' = MsgRows /\ \A q, p : Like(q, p)' <=> Like(q, p)
    BY <1>1 DEF MsgRows, Like
  <1>6. IdsKnow' /\ ReadMeansRead'
    BY <1>1, <1>2, <1>4, <1>5 DEF DeliveryInv, IdsKnow, ReadMeansRead
  <1>7. ASSUME NEW q \in Outgoing PROVE RowStored(q)'
    <2>1. RowsFor(q)' = RowsFor(q)
      BY <1>1, <1>5 DEF RowsFor
    <2>2. CASE q # r
      BY <1>1, <1>4, <2>1, <2>2, OthersKeep
    <2>3. CASE q = r
      BY <1>1, <1>2, <1>4, <2>1, <2>3 DEF DeliveryInv, RowStored, InPost
    <2> QED  BY <2>2, <2>3
  <1> QED  BY <1>3, <1>6, <1>7 DEF DeliveryInv

LEMMA InsertOutboundKeeps ==
    ASSUME DeliveryInv, NEW r \in Outgoing, InsertOutbound(r)
    PROVE  DeliveryInv'
  <1>1. /\ sending' = [sending EXCEPT ![r] = Over] /\ sending[r].at \in {"answered", "refused"}
        /\ UNCHANGED <<alike, copy, seenBy, hook, excused>>
        /\ \/ msgRows' = msgRows
           \/ \E status \in {"failed", "sent"} : msgRows' = Append(msgRows, NewRow(r, sending[r].id, status))
    BY DEF InsertOutbound
  <1>2. Over \in Sending /\ Over.at = "over" /\ Over.id = NoId
    BY IdsAre DEF Over, NotYet, Sending
  <1>3. sending' \in [Outgoing -> Sending] /\ sending'[r] = Over /\ \A q \in Outgoing : q # r => sending'[q] = sending[q]
    BY <1>1, <1>2 DEF DeliveryInv, DeliveryTypes
  <1>4. CASE msgRows' = msgRows
    <2>1. DeliveryTypes'
      BY <1>1, <1>3, <1>4 DEF DeliveryInv, DeliveryTypes
    <2>2. MsgRows' = MsgRows /\ \A q, p : Like(q, p)' <=> Like(q, p)
      BY <1>1, <1>4 DEF MsgRows, Like
    <2>3. IdsKnow' /\ ReadMeansRead'
      BY <1>1, <1>2, <1>3, <1>4, <2>2 DEF DeliveryInv, IdsKnow, ReadMeansRead
    <2>4. ASSUME NEW q \in Outgoing PROVE RowStored(q)'
      <3>1. RowsFor(q)' = RowsFor(q)
        BY <1>4, <2>2 DEF RowsFor
      <3>2. CASE q # r
        BY <1>1, <1>3, <3>1, <3>2, OthersKeep
      <3>3. CASE q = r
        BY <1>1, <1>2, <1>3, <3>1, <3>3 DEF DeliveryInv, RowStored, InPost
      <3> QED  BY <3>2, <3>3
    <2> QED  BY <2>1, <2>3, <2>4 DEF DeliveryInv
  <1>5. ASSUME NEW status \in {"failed", "sent"}, msgRows' = Append(msgRows, NewRow(r, sending[r].id, status))
        PROVE  DeliveryInv'
    <2>1. sending[r].id \in {NoId} \cup Ours(r) /\ status \in Reported /\ status # "read"
      BY DEF DeliveryInv, IdsKnow, Reported
    <2>2. r \notin excused => RowsFor(r) = {} /\ ~(hook[r].on /\ hook[r].row = 0)
      BY <1>1 DEF DeliveryInv, RowStored, InPost
    <2>3. ~InPost(r)' /\ seenBy \in SUBSET Outgoing /\ excused \in SUBSET Outgoing
      BY <1>2, <1>3 DEF InPost, DeliveryInv, DeliveryTypes
    <2> QED  BY <1>1, <1>5, <2>1, <2>2, <2>3, AppendsKeep
  <1> QED  BY <1>1, <1>4, <1>5

LEMMA EchoMatchKeeps ==
    ASSUME DeliveryInv, NEW r \in Outgoing, EchoMatch(r)
    PROVE  DeliveryInv'
  <1>1. /\ UNCHANGED <<alike, sending, copy, seenBy, msgRows>> /\ copy[r] = "zernio"
        /\ excused' = excused \/ excused' = excused \cup {r}
        /\ r \notin excused' => /\ sending[r].at \notin {"sending", "answered", "refused"}
                                /\ \A i \in RowsFor(r) : ~(msgRows[i].age > 0)
    BY DEF EchoMatch
  <1>2. PICK i \in Nat : /\ hook' = [hook EXCEPT ![r] = [on |-> TRUE, row |-> i]]
                         /\ i = 0 => FindRecentOutbound(r, PlatformId(r), 1) = {}
                         /\ i # 0 => i \in MsgRows /\ Like(r, msgRows[i].of)
    <2>1. MsgRows \subseteq Nat \ {0}
      BY RowsAre DEF MsgRows, DeliveryInv, DeliveryTypes
    <2> QED  BY <2>1, FoundIs DEF EchoMatch
  <1>3. PICK new \in Echo : new = [on |-> TRUE, row |-> i] /\ new.on /\ new.row = i
    <2>1. [on |-> TRUE, row |-> i] \in Echo
      BY DEF Echo
    <2>2. [on |-> TRUE, row |-> i].on /\ [on |-> TRUE, row |-> i].row = i
      OBVIOUS
    <2> QED  BY <2>1, <2>2
  <1>4. hook' \in [Outgoing -> Echo] /\ hook'[r] = new /\ \A q \in Outgoing : q # r => hook'[q] = hook[q]
    BY <1>2, <1>3 DEF DeliveryInv, DeliveryTypes
  <1>5. DeliveryTypes'
    BY <1>1, <1>4 DEF DeliveryInv, DeliveryTypes
  <1>6. MsgRows' = MsgRows /\ \A q, p : Like(q, p)' <=> Like(q, p)
    BY <1>1 DEF MsgRows, Like
  <1>7. IdsKnow' /\ ReadMeansRead'
    BY <1>1, <1>2, <1>3, <1>4, <1>6 DEF DeliveryInv, IdsKnow, ReadMeansRead
  <1>8. ASSUME NEW q \in Outgoing PROVE RowStored(q)'
    <2>1. RowsFor(q)' = RowsFor(q)
      BY <1>1, <1>6 DEF RowsFor
    <2>2. CASE q # r
      BY <1>1, <1>4, <2>1, <2>2, OthersKeep
    <2>3. CASE q = r
      <3>1. i = 0 /\ r \notin excused' => sending[r].at \in {"none", "over"} /\ RowsFor(r) = {}
        <4> SUFFICES ASSUME i = 0, r \notin excused'
                     PROVE  sending[r].at \in {"none", "over"} /\ RowsFor(r) = {}
          OBVIOUS
        <4>1. sending[r].at \in {"none", "over"}
          BY <1>1 DEF DeliveryInv, DeliveryTypes, Sending
        <4>2. ASSUME NEW k \in RowsFor(r) PROVE FALSE
          <5>1. msgRows[k].age \in 0..2
            BY RowsAre DEF RowsFor, MsgRows, DeliveryInv, DeliveryTypes, Row
          <5>2. ~(msgRows[k].age > 0) /\ ~(msgRows[k].age < 1)
            BY <1>1, <1>2, FoundIs
          <5> QED  BY <5>1, <5>2
        <4> QED  BY <4>1, <4>2
      <3> QED  BY <1>1, <1>3, <1>4, <2>1, <2>3, <3>1 DEF DeliveryInv, RowStored, InPost
    <2> QED  BY <2>2, <2>3
  <1> QED  BY <1>5, <1>7, <1>8 DEF DeliveryInv

LEMMA EchoApplyKeeps ==
    ASSUME DeliveryInv, NEW r \in Outgoing, EchoApply(r)
    PROVE  DeliveryInv'
  <1> DEFINE ext == PlatformId(r)
             i == hook[r].row
  <1>1. /\ hook[r].on /\ hook' = [hook EXCEPT ![r] = NoEcho]
        /\ UNCHANGED <<alike, sending, copy, seenBy, excused>>
        /\ \/ msgRows' = msgRows
           \/ i = 0 /\ msgRows' = Append(msgRows, NewRow(r, ext, "sent"))
           \/ i # 0 /\ msgRows' = WithStatus(GiveId(i, ext), ext, "delivered")
    BY DEF EchoApply
  <1>2. /\ msgRows \in Seq(Row) /\ seenBy \in SUBSET Outgoing /\ excused \in SUBSET Outgoing
        /\ ext \in Ours(r) /\ ext \in Ids /\ hook'[r] = NoEcho
    BY <1>1, IdsAre DEF DeliveryInv, DeliveryTypes
  <1>3. CASE msgRows' = msgRows
    <2>1. MsgRows' = MsgRows
      BY <1>3 DEF MsgRows
    <2> QED  BY <1>1, <1>2, <1>3, <2>1, EditsKeep
  <1>4. CASE i = 0 /\ msgRows' = Append(msgRows, NewRow(r, ext, "sent"))
    <2>1. r \in excused \/ (RowsFor(r) = {} /\ ~InPost(r)')
      BY <1>1, <1>4 DEF DeliveryInv, RowStored, InPost
    <2>2. "sent" \in Reported /\ ~NoEcho.on
      BY NoEchoIs DEF Reported
    <2> QED  BY <1>1, <1>2, <1>4, <2>1, <2>2, AppendsKeep
  <1>5. CASE i # 0 /\ msgRows' = WithStatus(GiveId(i, ext), ext, "delivered")
    <2>1. i \in MsgRows /\ Like(r, msgRows[i].of) /\ "delivered" \in Reported
      BY <1>5 DEF DeliveryInv, IdsKnow, Reported
    <2>2. PICK new : new = msgRows'
      OBVIOUS
    <2>3. /\ new \in Seq(Row) /\ DOMAIN new = MsgRows
          /\ \A j \in MsgRows : new[j].of = msgRows[j].of
          /\ \A j \in MsgRows : new[j].ext = msgRows[j].ext \/ (j = i /\ new[j].ext = ext)
          /\ \A j \in MsgRows : new[j].status = msgRows[j].status
                               \/ (new[j].status = "delivered" /\ new[j].ext = ext)
      <3> HIDE DEF i, ext
      <3> QED  BY <1>2, <1>5, <2>1, <2>2, MarkedIs DEF DeliveryInv
    <2>4. ASSUME NEW j \in MsgRows
          PROVE  /\ new[j].ext = msgRows[j].ext \/ (new[j].ext \in Ours(r) /\ Like(r, msgRows[j].of))
                 /\ new[j].status = msgRows[j].status \/ new[j].status # "read"
      <3> HIDE DEF i, ext
      <3> QED  BY <1>2, <2>1, <2>3
    <2> QED  BY <1>1, <1>2, <2>2, <2>3, <2>4, EditsKeep DEF MsgRows
  <1> QED  BY <1>1, <1>3, <1>4, <1>5

LEMMA ReceiptKeeps ==
    ASSUME DeliveryInv, NEW r \in Outgoing, NEW status \in {"delivered", "read"}, Receipt(r, status)
    PROVE  DeliveryInv'
  <1> DEFINE p == PlatformId(r)
             matches == FindRecentOutbound(r, p, 2)
             i == CHOOSE k \in matches : TRUE
  <1>1. /\ UNCHANGED <<alike, sending, copy, hook, excused>>
        /\ seenBy' = IF status = "read" THEN seenBy \cup {r} ELSE seenBy
        /\ \/ msgRows' = WithStatus(msgRows, p, status)
           \/ msgRows' = WithStatus(msgRows, ProviderId(r), status)
           \/ msgRows' = msgRows
           \/ matches # {} /\ msgRows' = WithStatus(GiveId(i, p), p, status)
    BY DEF Receipt
  <1>2. /\ msgRows \in Seq(Row) /\ seenBy \subseteq seenBy' /\ seenBy' \in SUBSET Outgoing
        /\ excused \in SUBSET Outgoing /\ status \in Reported /\ p \in Ids /\ ProviderId(r) \in Ids
        /\ p \in Ours(r) /\ ProviderId(r) \in Ours(r) /\ (status = "read" => r \in seenBy')
    BY <1>1, IdsAre DEF DeliveryInv, DeliveryTypes, Reported
  <1>3. CASE msgRows' = msgRows
    <2>1. MsgRows' = MsgRows
      BY <1>3 DEF MsgRows
    <2> QED  BY <1>1, <1>2, <1>3, <2>1, EditsKeep
  <1>4. ASSUME NEW ext \in {p, ProviderId(r)}, msgRows' = WithStatus(msgRows, ext, status)
        PROVE  DeliveryInv'
    <2>1. /\ msgRows' \in Seq(Row) /\ MsgRows' = MsgRows
          /\ \A j \in MsgRows :
                /\ msgRows'[j].of = msgRows[j].of /\ msgRows'[j].ext = msgRows[j].ext
                /\ msgRows'[j].status = IF msgRows[j].ext = ext THEN status ELSE msgRows[j].status
      BY <1>2, <1>4, WithStatusIs DEF MsgRows
    <2>2. ASSUME NEW j \in MsgRows, msgRows[j].ext = ext
          PROVE  Like(r, msgRows[j].of)
      BY <1>2, <2>2 DEF DeliveryInv, IdsKnow
    <2>3. \A j \in MsgRows : \/ msgRows'[j].status = msgRows[j].status
                            \/ msgRows'[j].status # "read"
                            \/ \E q \in seenBy' : Like(q, msgRows[j].of)
      BY <1>2, <2>1, <2>2
    <2> QED  BY <1>1, <1>2, <2>1, <2>3, EditsKeep
  <1>5. CASE matches # {} /\ msgRows' = WithStatus(GiveId(i, p), p, status)
    <2>1. PICK k : k = i /\ k \in MsgRows /\ Like(r, msgRows[k].of)
      <3>1. \A k \in matches : k \in MsgRows /\ Like(r, msgRows[k].of)
        BY FoundIs
      <3> HIDE DEF matches
      <3> QED  BY <1>5, <3>1
    <2>2. PICK new : new = msgRows'
      OBVIOUS
    <2>3. /\ new \in Seq(Row) /\ DOMAIN new = MsgRows
          /\ \A j \in MsgRows : new[j].of = msgRows[j].of
          /\ \A j \in MsgRows : new[j].ext = msgRows[j].ext \/ (j = k /\ new[j].ext = p)
          /\ \A j \in MsgRows : new[j].status = msgRows[j].status
                               \/ (new[j].status = status /\ new[j].ext = p)
      <3>1. new = WithStatus(GiveId(k, p), p, status)
        BY <1>5, <2>1, <2>2
      <3> HIDE DEF p, i, matches
      <3> QED  BY <1>2, <2>1, <3>1, MarkedIs DEF DeliveryInv
    <2>4. ASSUME NEW j \in MsgRows
          PROVE  /\ new[j].ext = msgRows[j].ext \/ (new[j].ext \in Ours(r) /\ Like(r, msgRows[j].of))
                 /\ \/ new[j].status = msgRows[j].status
                    \/ new[j].status # "read"
                    \/ \E q \in seenBy' : Like(q, msgRows[j].of)
      <3> HIDE DEF p, i, matches
      <3>1. new[j].ext = msgRows[j].ext \/ (new[j].ext \in Ours(r) /\ Like(r, msgRows[j].of))
        BY <1>2, <2>1, <2>3
      <3>2. new[j].ext = p => Like(r, msgRows[j].of)
        BY <1>2, <2>1, <2>3 DEF DeliveryInv, IdsKnow
      <3>3. new[j].status = msgRows[j].status \/ (new[j].status = status /\ new[j].ext = p)
        BY <2>3
      <3> QED  BY <1>2, <3>1, <3>2, <3>3
    <2> QED  BY <1>1, <1>2, <2>2, <2>3, <2>4, EditsKeep DEF MsgRows
  <1> QED  BY <1>1, <1>3, <1>4, <1>5

LEMMA InsertHistoricalKeeps ==
    ASSUME DeliveryInv, NEW r \in Outgoing, NEW status \in {"sent", "read"}, InsertHistorical(r, status)
    PROVE  DeliveryInv'
  <1> DEFINE ext == ProviderId(r)
  <1>1. /\ UNCHANGED <<alike, sending, copy, hook>>
        /\ seenBy' = IF status = "read" THEN seenBy \cup {r} ELSE seenBy
        /\ excused' = IF HasRow(ext) THEN excused ELSE excused \cup {r}
        /\ msgRows' = IF ~HasRow(ext) THEN Append(msgRows, NewRow(r, ext, status))
                      ELSE [i \in MsgRows |->
                             IF msgRows[i].ext = ext /\ (status # "sent" \/ msgRows[i].status = "sent")
                             THEN [msgRows[i] EXCEPT !.status = status] ELSE msgRows[i]]
    BY DEF InsertHistorical
  <1>2. /\ msgRows \in Seq(Row) /\ seenBy \subseteq seenBy' /\ seenBy' \in SUBSET Outgoing
        /\ excused' \in SUBSET Outgoing /\ excused \subseteq excused' /\ status \in Reported /\ ext \in Ids
        /\ ext \in Ours(r) /\ (status = "read" => r \in seenBy')
    BY <1>1, IdsAre DEF DeliveryInv, DeliveryTypes, Reported
  <1>3. CASE ~HasRow(ext)
    <2>1. r \in excused' /\ msgRows' = Append(msgRows, NewRow(r, ext, status))
      BY <1>1, <1>3
    <2> QED  BY <1>1, <1>2, <2>1, AppendsKeep
  <1>4. CASE HasRow(ext)
    <2>1. msgRows' = [i \in MsgRows |->
                        IF msgRows[i].ext = ext /\ (status # "sent" \/ msgRows[i].status = "sent")
                        THEN [msgRows[i] EXCEPT !.status = status] ELSE msgRows[i]]
      BY <1>1, <1>4
    <2>2. ASSUME NEW j \in MsgRows
          PROVE  /\ msgRows'[j] \in Row /\ msgRows'[j].of = msgRows[j].of /\ msgRows'[j].ext = msgRows[j].ext
                 /\ \/ msgRows'[j].status = msgRows[j].status
                    \/ msgRows'[j].status = status /\ msgRows[j].ext = ext
      <3>1. msgRows[j] \in Row
        BY <1>2, RowsAre DEF MsgRows
      <3> QED  BY <1>2, <2>1, <3>1 DEF Row, Reported
    <2>3. msgRows' \in Seq(Row) /\ MsgRows' = MsgRows
      <3>1. PICK new : new = msgRows'
        OBVIOUS
      <3>2. new = [j \in DOMAIN msgRows |-> new[j]] /\ \A j \in DOMAIN msgRows : new[j] \in Row
        BY <2>1, <2>2, <3>1 DEF MsgRows
      <3>3. new \in Seq(Row) /\ DOMAIN new = DOMAIN msgRows
        BY <1>2, <3>2, EditedIs
      <3> QED  BY <3>1, <3>3 DEF MsgRows
    <2>4. ASSUME NEW j \in MsgRows, msgRows[j].ext = ext
          PROVE  Like(r, msgRows[j].of)
      BY <1>2, <2>4 DEF DeliveryInv, IdsKnow
    <2>5. \A j \in MsgRows : \/ msgRows'[j].status = msgRows[j].status
                            \/ msgRows'[j].status # "read"
                            \/ \E q \in seenBy' : Like(q, msgRows[j].of)
      BY <1>2, <2>2, <2>4
    <2> QED  BY <1>1, <1>2, <2>2, <2>3, <2>5, EditsKeep
  <1> QED  BY <1>3, <1>4

LEMMA MinutePassesKeeps ==
    ASSUME DeliveryInv, NEW r \in Outgoing, MinutePasses
    PROVE  DeliveryInv'
  <1>1. /\ UNCHANGED <<alike, sending, copy, seenBy, hook, excused>>
        /\ msgRows' = [i \in MsgRows |-> [msgRows[i] EXCEPT !.age = IF @ < 2 THEN @ + 1 ELSE 2]]
    BY DEF MinutePasses
  <1>2. msgRows \in Seq(Row) /\ seenBy \in SUBSET Outgoing /\ excused \in SUBSET Outgoing
    BY DEF DeliveryInv, DeliveryTypes
  <1>3. ASSUME NEW j \in MsgRows
        PROVE  /\ msgRows'[j] \in Row /\ msgRows'[j].of = msgRows[j].of /\ msgRows'[j].ext = msgRows[j].ext
               /\ msgRows'[j].status = msgRows[j].status
    <2>1. msgRows[j] \in Row
      BY <1>2, RowsAre DEF MsgRows
    <2>2. PICK age \in 0..2 : age = IF msgRows[j].age < 2 THEN msgRows[j].age + 1 ELSE 2
      BY <2>1 DEF Row
    <2>3. msgRows'[j] = [msgRows[j] EXCEPT !.age = age]
      BY <1>1, <2>2
    <2> QED  BY <2>1, <2>3 DEF Row
  <1>4. msgRows' \in Seq(Row) /\ MsgRows' = MsgRows
    <2>1. PICK new : new = msgRows'
      OBVIOUS
    <2>2. new = [j \in DOMAIN msgRows |-> new[j]] /\ \A j \in DOMAIN msgRows : new[j] \in Row
      BY <1>1, <1>3, <2>1 DEF MsgRows
    <2>3. new \in Seq(Row) /\ DOMAIN new = DOMAIN msgRows
      BY <1>2, <2>2, EditedIs
    <2> QED  BY <2>1, <2>3 DEF MsgRows
  <1> QED  BY <1>1, <1>2, <1>3, <1>4, EditsKeep

LEMMA DeliveryNextKeeps ==
    ASSUME DeliveryInv, [DeliveryNext]_dvVars
    PROVE  DeliveryInv'
  <1>1. ASSUME NEW r \in Outgoing,
               \/ (\E by \in {"ai", "agent"} : Ask(r, by)) \/ Provider(r) \/ DieSending(r) \/ PhoneWrites(r)
               \/ InsertOutbound(r) \/ EchoMatch(r) \/ EchoApply(r)
               \/ (\E status \in {"delivered", "read"} : Receipt(r, status))
               \/ (\E status \in {"sent", "read"} : InsertHistorical(r, status))
        PROVE  DeliveryInv'
    BY <1>1, SendsKeep, InsertOutboundKeeps, EchoMatchKeeps, EchoApplyKeeps, ReceiptKeeps,
       InsertHistoricalKeeps
  <1>2. CASE MinutePasses
    <2>1. PICK i \in MsgRows : msgRows[i] \in Row
      BY <1>2, RowsAre DEF MinutePasses, MsgRows, DeliveryInv, DeliveryTypes
    <2>2. msgRows[i].of \in Outgoing
      BY <2>1 DEF Row
    <2> QED  BY <1>2, <2>2, MinutePassesKeeps
  <1>3. CASE UNCHANGED dvVars
    <2>1. /\ UNCHANGED <<alike, sending, copy, seenBy, msgRows, hook, excused>>
          /\ MsgRows' = MsgRows /\ \A q, p : Like(q, p)' <=> Like(q, p)
      BY <1>3 DEF dvVars, MsgRows, Like
    <2>2. \A q \in Outgoing : RowsFor(q)' = RowsFor(q)
      BY <2>1 DEF RowsFor
    <2>3. \A q \in Outgoing : RowStored(q)'
      BY <2>1, <2>2, OthersKeep
    <2> QED  BY <2>1, <2>3 DEF DeliveryInv, DeliveryTypes, IdsKnow, ReadMeansRead
  <1> QED  BY <1>1, <1>2, <1>3 DEF DeliveryNext

LEMMA DeliveryInitHolds ==
    ASSUME DeliveryInit
    PROVE  DeliveryInv
  <1>1. /\ NotYet \in Sending /\ NotYet.at = "none" /\ NotYet.id = NoId
        /\ <<>> \in Seq(Row) /\ MsgRows = {}
    BY IdsAre, EmptySeq DEF DeliveryInit, NotYet, Sending, MsgRows
  <1>2. DeliveryTypes
    BY <1>1, NoEchoIs DEF DeliveryInit, DeliveryTypes
  <1>3. IdsKnow /\ ReadMeansRead
    BY <1>1, NoEchoIs DEF DeliveryInit, IdsKnow, ReadMeansRead
  <1>4. \A r \in Outgoing : RowStored(r)
    BY <1>1, NoEchoIs DEF DeliveryInit, RowStored, RowsFor
  <1> QED  BY <1>2, <1>3, <1>4 DEF DeliveryInv

\* A message is shown as read only if the customer has read it or one that begins with
\* the same text, by whichever id the report found its row.
THEOREM ReadIsRead == DeliverySpec => []ReadMeansRead
  <1>1. DeliveryInv => ReadMeansRead
    BY DEF DeliveryInv
  <1> QED  BY <1>1, DeliveryInitHolds, DeliveryNextKeeps, PTL DEF DeliverySpec

\* A message the program sent is one row of the conversation, whichever of the insert,
\* the echo and the reports comes first, if they come before the echo is forgotten.
THEOREM StoredOnce == DeliverySpec => []OneRowPerMessage
  <1>1. DeliveryInv => OneRowPerMessage
    <2> SUFFICES ASSUME DeliveryInv, NEW r \in Outgoing, r \notin excused
                 PROVE  Cardinality(RowsFor(r)) <= 1
      BY DEF OneRowPerMessage
    <2>1. \A i, j \in RowsFor(r) : i = j
      BY DEF DeliveryInv, RowStored
    <2>2. CASE RowsFor(r) = {}
      BY <2>2, FS_EmptySet
    <2>3. CASE RowsFor(r) # {}
      <3>1. PICK i : RowsFor(r) = {i}
        BY <2>1, <2>3
      <3>2. Cardinality({i}) = 1
        BY FS_Singleton
      <3> QED  BY <3>1, <3>2
    <2> QED  BY <2>2, <2>3
  <1> QED  BY <1>1, DeliveryInitHolds, DeliveryNextKeeps, PTL DEF DeliverySpec

-----------------------------------------------------------------------------
(* Senders: one copy *)

SendSteps == {"idle", "upload", "account", "lookup", "refresh", "conversation", "request", "reopen",
              "repost", "meta", "metaList", "metaUpload", "metaMedia", "sent", "thrown"}
Post == [at : SendSteps, kind : Kinds, account : Accounts \cup {"none"}, direct : BOOLEAN, second : BOOLEAN]
SendersTypes ==
    /\ post \in [Sends -> Post]
    /\ {resolved, lastInput, configured, live} \subseteq Accounts
    /\ cachedConv \in BOOLEAN /\ inbox \in BOOLEAN
    /\ copies \in [Sends -> Nat] /\ unclear \in [Sends -> BOOLEAN]

\* OneCopy is inductive: what was sent is not sent again, and every step that
\* leaves a send unfinished either changed nothing or has been noted as unclear.
SendersInv == SendersTypes /\ OneCopy

\* One send goes on, and what it does is what its next step says.
Goes(s, new) == post[s].at # "sent" /\ post' = [post EXCEPT ![s] = new]
Tells(s, new) ==
    \/ new.at # "sent" /\ UNCHANGED <<copies, unclear>>
    \/ new.at # "sent" /\ Fails(s)
    \/ new.at = "sent" /\ Delivers(s)

LEMMA SendKeeps ==
    ASSUME SendersInv, NEW s \in Sends, NEW new \in Post, Goes(s, new), Tells(s, new),
           {resolved', lastInput', configured', live'} \subseteq Accounts,
           cachedConv' \in BOOLEAN, inbox' \in BOOLEAN
    PROVE  SendersInv'
  <1>1. /\ copies' \in [Sends -> Nat] /\ unclear' \in [Sends -> BOOLEAN]
        /\ \A d \in Sends : d # s => copies'[d] = copies[d] /\ (unclear'[d] <=> unclear[d])
    <2>1. copies' = copies \/ copies' = [copies EXCEPT ![s] = copies[s] + 1]
      BY DEF Tells, Fails, Delivers
    <2>2. unclear' = unclear \/ unclear' = [unclear EXCEPT ![s] = TRUE]
      BY DEF Tells, Fails, Delivers
    <2>3. copies' \in [Sends -> Nat] /\ \A d \in Sends : d # s => copies'[d] = copies[d]
      BY <2>1 DEF SendersInv, SendersTypes
    <2>4. unclear' \in [Sends -> BOOLEAN] /\ \A d \in Sends : d # s => (unclear'[d] <=> unclear[d])
      BY <2>2 DEF SendersInv, SendersTypes
    <2> QED  BY <2>3, <2>4
  <1>2. /\ post' \in [Sends -> Post] /\ post'[s] = new /\ \A d \in Sends : d # s => post'[d] = post[d]
    BY DEF Goes, SendersInv, SendersTypes
  <1>3. ~unclear[s] => copies[s] = 0
    BY DEF Goes, SendersInv, OneCopy, At
  <1>4. ~unclear'[s] => copies'[s] = IF new.at = "sent" THEN 1 ELSE 0
    <2>1. CASE UNCHANGED <<copies, unclear>> /\ new.at # "sent"
      BY <1>3, <2>1
    <2>2. CASE unclear' = [unclear EXCEPT ![s] = TRUE]
      BY <2>2 DEF SendersInv, SendersTypes
    <2>3. CASE Delivers(s) /\ new.at = "sent"
      BY <1>3, <2>3 DEF Delivers, SendersInv, SendersTypes
    <2> QED  BY <2>1, <2>2, <2>3 DEF Tells, Fails
  <1>5. OneCopy'
    BY <1>1, <1>2, <1>4 DEF SendersInv, OneCopy, At
  <1> QED  BY <1>1, <1>2, <1>5 DEF SendersInv, SendersTypes

LEMMA GotoIs ==
    ASSUME SendersInv, NEW s \in Sends, NEW step \in SendSteps, Goto(s, step), post[s].at # "sent"
    PROVE  \E new \in Post : Goes(s, new) /\ new.at = step
  <1>1. PICK new \in Post : new = [post[s] EXCEPT !.at = step]
    BY DEF SendersInv, SendersTypes, Post
  <1>2. post' = [post EXCEPT ![s] = new] /\ new.at = step
    BY <1>1 DEF Goto, SendersInv, SendersTypes, Post
  <1> QED  BY <1>2 DEF Goes

LEMMA ThrowsIs ==
    ASSUME SendersInv, NEW s \in Sends, Throws(s), post[s].at # "sent"
    PROVE  \E new \in Post : Goes(s, new) /\ new.at # "sent"
  <1>1. AfterThrow(s) \in Post /\ AfterThrow(s).at # "sent"
    BY DEF AfterThrow, NoPost, SendersInv, SendersTypes, Post, SendSteps, Kinds
  <1> QED  BY <1>1 DEF Throws, Goes

\* Steps of a send that ask nothing of a provider that could deliver.
LEMMA PreparesKeeps ==
    ASSUME SendersInv, NEW s \in Sends,
           GetSender(s) \/ UploadMedia(s) \/ MetaUpload(s) \/ GetAccountId(s) \/ Lookup(s)
             \/ RefreshAccount(s) \/ ResolveConversationId(s)
    PROVE  SendersInv'
  <1>1. /\ post[s].at # "sent" /\ copies' = copies /\ unclear' = unclear
        /\ {resolved', lastInput', configured', live'} \subseteq Accounts
        /\ cachedConv' \in BOOLEAN /\ inbox' \in BOOLEAN
    BY DEF GetSender, UploadMedia, MetaUpload, GetAccountId, Lookup, RefreshAccount, LookUpAccount,
           ResolveConversationId, At, Caches, World, SendersInv, SendersTypes
  <1>2. \E new \in Post : Goes(s, new) /\ new.at # "sent"
    <2>1. CASE GetSender(s) \/ UploadMedia(s)
      <3>1. PICK step \in {"upload", "account", "metaUpload", "metaList", "meta"} : Goto(s, step)
        BY <2>1 DEF GetSender, UploadMedia, AtMeta
      <3> QED  BY <1>1, <3>1, GotoIs DEF SendSteps
    <2>2. CASE MetaUpload(s)
      <3>1. Goto(s, "metaMedia") \/ Throws(s)
        BY <2>2 DEF MetaUpload
      <3> QED  BY <1>1, <3>1, GotoIs, ThrowsIs DEF SendSteps
    <2>3. CASE GetAccountId(s)
      <3>1. CASE lastInput = configured
        <4>1. PICK step \in {"request", "conversation"} : step = AfterAccount(s)
          BY DEF AfterAccount
        <4>2. PICK new \in Post : new = [post[s] EXCEPT !.at = step, !.account = resolved]
          BY DEF SendersInv, SendersTypes, Post, SendSteps
        <4>3. post' = [post EXCEPT ![s] = new] /\ new.at = step
          BY <2>3, <3>1, <4>1, <4>2 DEF GetAccountId, SendersInv, SendersTypes, Post
        <4> QED  BY <1>1, <4>3 DEF Goes
      <3>2. CASE lastInput # configured
        <4>1. Goto(s, "lookup")
          BY <2>3, <3>2 DEF GetAccountId
        <4> QED  BY <1>1, <4>1, GotoIs DEF SendSteps
      <3> QED  BY <3>1, <3>2
    <2>4. CASE Lookup(s) \/ RefreshAccount(s)
      <3>1. PICK step \in {"request", "conversation", "repost"} :
                post' = [post EXCEPT ![s].at = step, ![s].account = live] \/ Throws(s)
        BY <2>4 DEF Lookup, RefreshAccount, LookUpAccount, AfterAccount
      <3>2. CASE Throws(s)
        BY <1>1, <3>2, ThrowsIs
      <3>3. CASE post' = [post EXCEPT ![s].at = step, ![s].account = live]
        <4>1. PICK new \in Post : new = [post[s] EXCEPT !.at = step, !.account = live]
          BY DEF SendersInv, SendersTypes, Post, SendSteps
        <4>2. post' = [post EXCEPT ![s] = new] /\ new.at = step
          BY <3>3, <4>1 DEF SendersInv, SendersTypes, Post
        <4> QED  BY <1>1, <4>2 DEF Goes
      <3> QED  BY <3>1, <3>2, <3>3
    <2>5. CASE ResolveConversationId(s)
      <3>1. PICK cached \in BOOLEAN : cached = cachedConv'
        BY <1>1
      <3>2. post' = [post EXCEPT ![s].at = "request", ![s].direct = cached]
        BY <2>5, <3>1 DEF ResolveConversationId
      <3>3. PICK new \in Post : new = [post[s] EXCEPT !.at = "request", !.direct = cached]
        BY DEF SendersInv, SendersTypes, Post, SendSteps
      <3>4. post' = [post EXCEPT ![s] = new] /\ new.at = "request"
        BY <3>2, <3>3 DEF SendersInv, SendersTypes, Post
      <3> QED  BY <1>1, <3>4 DEF Goes
    <2> QED  BY <2>1, <2>2, <2>3, <2>4, <2>5
  <1>3. PICK new \in Post : Goes(s, new) /\ new.at # "sent"
    BY <1>2
  <1>4. Tells(s, new)
    BY <1>1, <1>3 DEF Tells
  <1> QED  BY <1>1, <1>3, <1>4, SendKeeps

\* Requests of Zernio: the first, and the two kinds of a second one.
LEMMA PostsKeeps ==
    ASSUME SendersInv, NEW s \in Sends,
           PostMessage(s) \/ SendTemplate(s) \/ Reopen(s) \/ Repost(s)
    PROVE  SendersInv'
  <1>1. /\ post[s].at # "sent" /\ {resolved', lastInput', configured', live'} \subseteq Accounts
        /\ resolved' = resolved /\ lastInput' = lastInput /\ configured' = configured /\ live' = live
    BY DEF PostMessage, SendTemplate, Reopen, Repost, Posting, At, SendersInv, SendersTypes
  <1>2. /\ cachedConv' \in BOOLEAN /\ inbox' \in BOOLEAN
        /\ \/ Goto(s, "sent") /\ Delivers(s)
           \/ (ToMeta(s) \/ Throws(s)) /\ Fails(s)
           \/ Goto(s, "refresh") /\ UNCHANGED <<copies, unclear>>
           \/ Goto(s, "reopen") /\ UNCHANGED <<copies, unclear>>
    BY DEF PostMessage, SendTemplate, Reopen, Repost, PostAccepted, PostRefused, AccountNotFound,
           ConversationNotFound, SendersInv, SendersTypes
  <1>3. CASE Goto(s, "sent") /\ Delivers(s)
    <2>1. PICK new \in Post : Goes(s, new) /\ new.at = "sent"
      BY <1>1, <1>3, GotoIs DEF SendSteps
    <2> QED  BY <1>1, <1>2, <1>3, <2>1, SendKeeps DEF Tells
  <1>4. CASE (ToMeta(s) \/ Throws(s)) /\ Fails(s)
    <2>1. ToMeta(s) => \E step \in {"metaUpload", "meta"} : Goto(s, step)
      BY DEF ToMeta
    <2>2. PICK new \in Post : Goes(s, new) /\ new.at # "sent"
      BY <1>1, <1>4, <2>1, GotoIs, ThrowsIs DEF SendSteps
    <2> QED  BY <1>1, <1>2, <1>4, <2>2, SendKeeps DEF Tells
  <1>5. CASE (Goto(s, "refresh") \/ Goto(s, "reopen")) /\ UNCHANGED <<copies, unclear>>
    <2>1. PICK new \in Post : Goes(s, new) /\ new.at # "sent"
      BY <1>1, <1>5, GotoIs DEF SendSteps
    <2> QED  BY <1>1, <1>2, <1>5, <2>1, SendKeeps DEF Tells
  <1> QED  BY <1>2, <1>3, <1>4, <1>5

LEMMA CallMetaKeeps ==
    ASSUME SendersInv, NEW s \in Sends, NEW step \in {"meta", "metaList", "metaMedia"}, CallMeta(s, step)
    PROVE  SendersInv'
  <1>1. /\ post[s].at # "sent" /\ {resolved', lastInput', configured', live'} \subseteq Accounts
        /\ cachedConv' \in BOOLEAN /\ inbox' \in BOOLEAN
    BY DEF CallMeta, At, Caches, World, SendersInv, SendersTypes
  <1>2. CASE Goto(s, "sent") /\ Delivers(s)
    <2>1. PICK new \in Post : Goes(s, new) /\ new.at = "sent"
      BY <1>1, <1>2, GotoIs DEF SendSteps
    <2> QED  BY <1>1, <1>2, <2>1, SendKeeps DEF Tells
  <1>3. CASE Throws(s) /\ Fails(s)
    <2>1. PICK new \in Post : Goes(s, new) /\ new.at # "sent"
      BY <1>1, <1>3, ThrowsIs
    <2> QED  BY <1>1, <1>3, <2>1, SendKeeps DEF Tells
  <1> QED  BY <1>2, <1>3 DEF CallMeta

LEMMA SendersNextKeeps ==
    ASSUME SendersInv, [SendersNext]_snVars
    PROVE  SendersInv'
  <1>1. CASE Configure \/ Move \/ Drop \/ UNCHANGED snVars
    <2>1. /\ post' = post /\ copies' = copies /\ unclear' = unclear
          /\ {resolved', lastInput', configured', live'} \subseteq Accounts
          /\ cachedConv' \in BOOLEAN /\ inbox' \in BOOLEAN
      BY <1>1 DEF Configure, Move, Drop, snVars, Caches, Accounts, SendersInv, SendersTypes
    <2> QED  BY <2>1 DEF SendersInv, SendersTypes, OneCopy, At
  <1>2. ASSUME NEW s \in Sends,
               GetSender(s) \/ UploadMedia(s) \/ GetAccountId(s) \/ Lookup(s) \/ RefreshAccount(s)
                 \/ ResolveConversationId(s) \/ MetaUpload(s)
        PROVE  SendersInv'
    BY <1>2, PreparesKeeps
  <1>3. ASSUME NEW s \in Sends,
               SendText(s) \/ SendMedia(s) \/ SendInteractive(s) \/ SendTemplate(s) \/ Reopen(s) \/ Repost(s)
        PROVE  SendersInv'
    BY <1>3, PostsKeeps DEF SendText, SendMedia, SendInteractive
  <1>4. ASSUME NEW s \in Sends, MetaText(s) \/ MetaTemplate(s) \/ MetaInteractive(s) \/ MetaMedia(s)
        PROVE  SendersInv'
    BY <1>4, CallMetaKeeps DEF MetaText, MetaTemplate, MetaInteractive, MetaMedia
  <1> QED  BY <1>1, <1>2, <1>3, <1>4 DEF SendersNext

LEMMA SendersInitHolds ==
    ASSUME SendersInit
    PROVE  SendersInv
  <1>1. ASSUME NEW k \in Kinds PROVE [NoPost EXCEPT !.kind = k] \in Post /\ [NoPost EXCEPT !.kind = k].at = "idle"
    BY DEF NoPost, Post, SendSteps
  <1>2. post \in [Sends -> Post] /\ \A s \in Sends : post[s].at = "idle"
    <2> DEFINE First == {[NoPost EXCEPT !.kind = k] : k \in Kinds}
    <2>1. \A p \in First : p \in Post /\ p.at = "idle"
      BY <1>1
    <2>2. post \in [Sends -> First]
      BY DEF SendersInit
    <2> HIDE DEF First
    <2> QED  BY <2>1, <2>2
  <1> QED  BY <1>2 DEF SendersInit, SendersInv, SendersTypes, Accounts, OneCopy, At

\* Through every retry and fallback of the senders a message that was sent reached
\* the customer once, and one that was not never, unless a request that WhatsApp
\* carried out was answered with an error.
THEOREM EachIsSentOnce == SendersSpec => []OneCopy
  <1>1. SendersInv => OneCopy
    BY DEF SendersInv
  <1> QED  BY <1>1, SendersInitHolds, SendersNextKeeps, PTL DEF SendersSpec

-----------------------------------------------------------------------------
(* Message templates *)

RequestSteps == {"none", "replace", "insert", "submit", "store", "undo", "write", "fetch", "merge",
                 "prune", "delete", "remove"}
\* Steps that change the row the request has read, by its id.
ByRow == {"submit", "store", "undo", "write", "fetch", "delete", "remove"}
AnyStatus == Statuses \cup {"none"}
TemplateRequest == [at : RequestSteps, id : Nat, meta : Nat, status : AnyStatus]

News == [meta : Nat \ {0}, status : Statuses]

TemplateTables ==
    /\ stored \in [id : Nat, meta : Nat, status : AnyStatus] /\ (stored.id = 0 => stored = NoTemplate)
    /\ remote \in [meta : Nat, status : AnyStatus] /\ (remote.meta = 0 => remote = NotAtWhatsApp)
    /\ news \in Seq(News)
    /\ apart \in BOOLEAN /\ madeRows \in Nat /\ madeRemote \in Nat /\ remote.meta <= madeRemote
    /\ \A i \in DOMAIN news : news[i].meta <= madeRemote

TemplateTypes ==
    /\ TemplateTables /\ handling \in [Requests -> TemplateRequest]
    /\ \A q \in Requests : handling[q].at \in ByRow => handling[q].id # 0

\* What WhatsApp decided is the last decision on its way about this template, or
\* `base' when there is none on its way.
LastWord(base) ==
    remote.status # "DISABLED" =>
      \/ base = remote.status /\ \A j \in DOMAIN news : news[j].meta # remote.meta
      \/ \E i \in DOMAIN news :
           /\ news[i].meta = remote.meta /\ news[i].status = remote.status
           /\ \A j \in DOMAIN news : j > i => news[j].meta # remote.meta

Gone == remote = NotAtWhatsApp
Mine(h) == stored.id = h.id
There(h) == stored.id = h.id /\ stored.meta = remote.meta /\ remote.meta # 0

\* What a request relies on at each of its steps.
Relies(h) ==
    /\ h.at \in {"replace", "insert"} => stored = NoTemplate /\ Gone
    /\ h.at = "submit" => Mine(h) /\ stored.meta = 0 /\ Gone
    /\ h.at \in {"undo", "remove"} => Mine(h) /\ Gone
    /\ h.at = "store" => Mine(h) /\ remote.meta = h.meta /\ h.meta # 0 /\ LastWord(h.status)
    /\ h.at \in {"fetch", "delete"} => There(h) /\ h.meta = stored.meta /\ LastWord(stored.status)
    /\ h.at = "write" => There(h) /\ LastWord(h.status)
    /\ h.at = "merge" => remote.meta = h.meta /\ h.meta # 0 /\ LastWord(h.status)
    /\ h.at = "prune" => Gone

InTouch == /\ stored.meta = remote.meta /\ (stored.id = 0 <=> remote.meta = 0)
           /\ remote.meta # 0 => LastWord(stored.status)

Underway(q) == handling[q].at # "none"
ByItself(q) == \A o \in Requests : o # q => ~Underway(o)

TemplatesInv ==
    /\ TemplateTypes
    /\ ~apart => /\ \A q, o \in Requests : Underway(q) /\ Underway(o) => q = o
                 /\ \A q \in Requests : Relies(handling[q])
                 /\ (\A q \in Requests : ~Underway(q)) => InTouch

LEMMA RequestKeeps ==
    ASSUME TemplatesInv, NEW q \in Requests, NEW new \in TemplateRequest,
           handling' = [handling EXCEPT ![q] = new],
           TemplateTables', new.at \in ByRow => new.id # 0,
           ~apart' => ByItself(q) /\ Relies(new)' /\ (new.at = "none" => InTouch')
    PROVE  TemplatesInv'
  <1>1. handling' \in [Requests -> TemplateRequest] /\ handling'[q] = new /\ \A o \in Requests : o # q => handling'[o] = handling[o]
    BY DEF TemplatesInv, TemplateTypes
  <1>2. TemplateTypes'
    BY <1>1 DEF TemplatesInv, TemplateTypes
  <1>3. ASSUME ~apart', NEW o \in Requests, o # q PROVE ~Underway(o)'
    BY <1>1, <1>3 DEF ByItself, Underway
  <1>4. ASSUME ~apart', NEW o \in Requests PROVE Relies(handling[o])'
    <2>1. CASE o = q
      BY <1>1, <1>4, <2>1
    <2>2. CASE o # q
      <3>1. handling'[o].at = "none"
        BY <1>3, <1>4, <2>2 DEF Underway
      <3> QED  BY <3>1 DEF Relies
    <2> QED  BY <2>1, <2>2
  <1>5. ASSUME ~apart', \A o \in Requests : ~Underway(o)' PROVE InTouch'
    BY <1>1, <1>5 DEF Underway
  <1>6. ASSUME ~apart', NEW r \in Requests, NEW o \in Requests, Underway(r)', Underway(o)' PROVE r = o
    BY <1>3, <1>6
  <1> QED  BY <1>2, <1>4, <1>5, <1>6 DEF TemplatesInv

\* A request that is alone when it begins finds both in touch; one that goes on
\* without another having begun is alone.
LEMMA ByItselfWhen ==
    ASSUME TemplatesInv, ~apart, NEW q \in Requests
    PROVE  /\ Underway(q) => ByItself(q) /\ Relies(handling[q])
           /\ ~Underway(q) /\ ~Crossed(q) => ByItself(q) /\ InTouch
  <1>1. Underway(q) => ByItself(q) /\ Relies(handling[q])
    BY DEF TemplatesInv, ByItself
  <1>2. ASSUME ~Underway(q), ~Crossed(q) PROVE ByItself(q) /\ InTouch
    <2>1. \A o \in Requests : ~Underway(o)
      BY <1>2 DEF Crossed, Underway
    <2> QED  BY <2>1 DEF TemplatesInv, ByItself
  <1> QED  BY <1>1, <1>2

LEMMA LastWordSame ==
    ASSUME UNCHANGED <<remote, news>>, NEW b, LastWord(b)
    PROVE  LastWord(b)'
  BY DEF LastWord

\* Nothing is on its way about a template that has just been made.
LEMMA LastWordNew ==
    ASSUME TemplatesInv, UNCHANGED news, NEW s, remote' = [meta |-> madeRemote + 1, status |-> s]
    PROVE  LastWord(s)'
  <1>0. \A j \in DOMAIN news : news[j] \in News
    BY DEF TemplatesInv, TemplateTypes, TemplateTables
  <1>1. \A j \in DOMAIN news : news[j].meta <= madeRemote /\ news[j].meta \in Nat
    BY <1>0 DEF TemplatesInv, TemplateTypes, TemplateTables, News
  <1>2. \A j \in DOMAIN news : news[j].meta # madeRemote + 1
    BY <1>1 DEF TemplatesInv, TemplateTypes, TemplateTables
  <1> QED  BY <1>2 DEF LastWord

LEMMA CreateTemplateKeeps ==
    ASSUME TemplatesInv, NEW q \in Requests, CreateTemplate(q)
    PROVE  TemplatesInv'
  <1>1. PICK new \in TemplateRequest : new = [NoRequest EXCEPT !.at = "replace", !.id = stored.id]
    BY DEF TemplatesInv, TemplateTypes, TemplateTables, TemplateRequest, RequestSteps, AnyStatus, NoRequest
  <1>2. handling' = [handling EXCEPT ![q] = new] /\ new.at = "replace"
    BY <1>1 DEF CreateTemplate, NoRequest
  <1>3. TemplateTables'
    BY DEF TemplatesInv, TemplateTypes, TemplateTables, CreateTemplate, NoRow
  <1>4. ASSUME ~apart' PROVE ByItself(q) /\ Relies(new)'
    <2>1. ByItself(q) /\ InTouch
      BY <1>4, ByItselfWhen DEF CreateTemplate, Asked, Underway
    <2>2. stored = NoTemplate /\ remote = NotAtWhatsApp
      BY <2>1 DEF InTouch, CreateTemplate, TemplatesInv, TemplateTypes, TemplateTables, NoTemplate
    <2> QED  BY <1>2, <2>1, <2>2 DEF Relies, Gone, CreateTemplate, NoRow
  <1> QED  BY <1>2, <1>3, <1>4, RequestKeeps DEF ByRow

LEMMA AtStep ==
    ASSUME NEW h \in TemplateRequest, NEW step \in RequestSteps
    PROVE  \E new \in TemplateRequest : /\ new = [h EXCEPT !.at = step]
                               /\ new.at = step /\ new.id = h.id /\ new.meta = h.meta /\ new.status = h.status
  <1>1. [h EXCEPT !.at = step] \in TemplateRequest
    BY DEF TemplateRequest
  <1> QED  BY <1>1 DEF TemplateRequest

LEMMA AtStepId ==
    ASSUME NEW h \in TemplateRequest, NEW step \in RequestSteps, NEW n \in Nat
    PROVE  \E new \in TemplateRequest : /\ new = [h EXCEPT !.at = step, !.id = n]
                               /\ new.at = step /\ new.id = n /\ new.meta = h.meta /\ new.status = h.status
  <1>1. [h EXCEPT !.at = step, !.id = n] \in TemplateRequest
    BY DEF TemplateRequest
  <1> QED  BY <1>1 DEF TemplateRequest

LEMMA AtStepStatus ==
    ASSUME NEW h \in TemplateRequest, NEW step \in RequestSteps, NEW s \in AnyStatus
    PROVE  \E new \in TemplateRequest : /\ new = [h EXCEPT !.at = step, !.status = s]
                               /\ new.at = step /\ new.id = h.id /\ new.meta = h.meta /\ new.status = s
  <1>1. [h EXCEPT !.at = step, !.status = s] \in TemplateRequest
    BY DEF TemplateRequest
  <1> QED  BY <1>1 DEF TemplateRequest

LEMMA AtStepTold ==
    ASSUME NEW h \in TemplateRequest, NEW step \in RequestSteps, NEW k \in Nat, NEW s \in AnyStatus
    PROVE  \E new \in TemplateRequest : /\ new = [h EXCEPT !.at = step, !.meta = k, !.status = s]
                               /\ new.at = step /\ new.id = h.id /\ new.meta = k /\ new.status = s
  <1>1. [h EXCEPT !.at = step, !.meta = k, !.status = s] \in TemplateRequest
    BY DEF TemplateRequest
  <1> QED  BY <1>1 DEF TemplateRequest

LEMMA NewRequest ==
    ASSUME NEW step \in RequestSteps, NEW n, n \in Nat, NEW k, k \in Nat, NEW s \in AnyStatus
    PROVE  \E new \in TemplateRequest : /\ new = [at |-> step, id |-> n, meta |-> k, status |-> s]
                               /\ new.at = step /\ new.id = n /\ new.meta = k /\ new.status = s
  <1>1. [at |-> step, id |-> n, meta |-> k, status |-> s] \in TemplateRequest
    BY DEF TemplateRequest
  <1> QED  BY <1>1

LEMMA ProceedIs ==
    ASSUME TemplatesInv, NEW q \in Requests, NEW step \in RequestSteps, Proceed(q, step)
    PROVE  \E new \in TemplateRequest : /\ new = [handling[q] EXCEPT !.at = step] /\ new.at = step /\ new.id = handling[q].id
                                /\ new.meta = handling[q].meta /\ new.status = handling[q].status
                                /\ handling' = [handling EXCEPT ![q] = new]
  <1>1. handling \in [Requests -> TemplateRequest] /\ handling[q] \in TemplateRequest
    BY DEF TemplatesInv, TemplateTypes
  <1>2. PICK new \in TemplateRequest : /\ new = [handling[q] EXCEPT !.at = step] /\ new.at = step /\ new.id = handling[q].id
                               /\ new.meta = handling[q].meta /\ new.status = handling[q].status
    BY <1>1, AtStep
  <1>3. handling' = [handling EXCEPT ![q] = new]
    BY <1>1, <1>2 DEF Proceed
  <1> QED  BY <1>2, <1>3

LEMMA DoneIs ==
    ASSUME NEW q \in Requests, Done(q)
    PROVE  \E new \in TemplateRequest : new.at = "none" /\ handling' = [handling EXCEPT ![q] = new]
  <1>1. NoRequest \in TemplateRequest /\ NoRequest.at = "none"
    BY DEF NoRequest, TemplateRequest, RequestSteps, AnyStatus
  <1> QED  BY <1>1 DEF Done

LEMMA ReplaceKeeps ==
    ASSUME TemplatesInv, NEW q \in Requests, Replace(q)
    PROVE  TemplatesInv'
  <1>1. PICK new \in TemplateRequest : new.at = "insert" /\ handling' = [handling EXCEPT ![q] = new]
    BY ProceedIs DEF Replace, RequestSteps
  <1>2. TemplateTables'
    BY DEF TemplatesInv, TemplateTypes, TemplateTables, Replace, DeleteRow, RowOnly, NoTemplate, AnyStatus
  <1>3. ASSUME ~apart' PROVE ByItself(q) /\ Relies(new)'
    <2>1. ByItself(q) /\ Relies(handling[q]) /\ handling[q].at = "replace"
      BY <1>3, ByItselfWhen DEF Replace, Is, Underway
    <2>2. stored = NoTemplate /\ remote = NotAtWhatsApp
      BY <2>1 DEF Relies, Gone
    <2>3. stored' = NoTemplate /\ remote' = NotAtWhatsApp
      BY <2>2 DEF Replace, DeleteRow, RowOnly
    <2> QED  BY <1>1, <2>1, <2>3 DEF Relies, Gone
  <1> QED  BY <1>1, <1>2, <1>3, RequestKeeps DEF ByRow

LEMMA InsertRowKeeps ==
    ASSUME TemplatesInv, NEW q \in Requests, InsertRow(q)
    PROVE  TemplatesInv'
  <1>0. handling[q].at = "insert" /\ apart' = apart /\ remote' = remote /\ news' = news /\ madeRemote' = madeRemote
    BY DEF InsertRow, Is, RowOnly
  <1>1. ASSUME ~apart' PROVE ByItself(q) /\ stored = NoTemplate /\ remote = NotAtWhatsApp
    BY <1>0, <1>1, ByItselfWhen DEF Underway, Relies, Gone
  <1>2. CASE stored # NoTemplate /\ Done(q) /\ NoRow
    <2>1. PICK new \in TemplateRequest : new.at = "none" /\ handling' = [handling EXCEPT ![q] = new]
      BY <1>2, DoneIs
    <2>2. TemplateTables' /\ apart'
      BY <1>0, <1>1, <1>2 DEF TemplatesInv, TemplateTypes, TemplateTables, NoRow
    <2> QED  BY <2>1, <2>2, RequestKeeps DEF ByRow
  <1>3. CASE stored = NoTemplate /\ Insert(0, "PENDING")
             /\ handling' = [handling EXCEPT ![q] = [handling[q] EXCEPT !.at = "submit", !.id = madeRows + 1]]
    <2>1. handling \in [Requests -> TemplateRequest] /\ handling[q] \in TemplateRequest /\ madeRows \in Nat
      BY DEF TemplatesInv, TemplateTypes, TemplateTables
    <2>2. PICK new \in TemplateRequest : /\ new = [handling[q] EXCEPT !.at = "submit", !.id = madeRows + 1]
                                 /\ new.at = "submit" /\ new.id = madeRows + 1
      <3> DEFINE h == [handling[q] EXCEPT !.at = "submit", !.id = madeRows + 1]
      <3>0. "submit" \in RequestSteps /\ madeRows + 1 \in Nat
        BY <2>1 DEF RequestSteps
      <3>1. h \in TemplateRequest
        BY <2>1, <3>0 DEF TemplateRequest
      <3>2. h.at = "submit" /\ h.id = madeRows + 1
        BY <2>1 DEF TemplateRequest
      <3> QED  BY <3>1, <3>2
    <2>3. handling' = [handling EXCEPT ![q] = new] /\ new.id # 0
      BY <1>3, <2>1, <2>2
    <2>4. stored' = [id |-> madeRows + 1, meta |-> 0, status |-> "PENDING"] /\ madeRows' = madeRows + 1
      BY <1>3 DEF Insert
    <2>5. TemplateTables'
      BY <1>0, <2>1, <2>4 DEF TemplatesInv, TemplateTypes, TemplateTables, AnyStatus, Statuses
    <2>6. ASSUME ~apart' PROVE ByItself(q) /\ Relies(new)'
      BY <1>0, <1>1, <2>2, <2>4, <2>6 DEF Relies, Gone, Mine
    <2> QED  BY <2>2, <2>3, <2>5, <2>6, RequestKeeps
  <1> QED  BY <1>2, <1>3 DEF InsertRow

LEMMA TablesIs ==
    ASSUME TemplatesInv
    PROVE  /\ stored.id \in Nat /\ stored.meta \in Nat /\ stored.status \in AnyStatus
           /\ remote.meta \in Nat /\ remote.status \in AnyStatus /\ handling \in [Requests -> TemplateRequest]
           /\ remote = NotAtWhatsApp <=> remote.meta = 0
           /\ stored = NoTemplate <=> stored.id = 0
           /\ stored.id = 0 => stored.meta = 0
           /\ madeRows \in Nat /\ madeRemote \in Nat
           /\ \A q \in Requests : handling[q] \in TemplateRequest /\ (handling[q].at \in ByRow => handling[q].id # 0)
           /\ \A i \in DOMAIN news : news[i] \in News /\ news[i].meta \in Nat /\ news[i].meta # 0
                                    /\ news[i].status \in Statuses /\ news[i].meta <= madeRemote
  <1>1. \A i \in DOMAIN news : news[i] \in News
    BY DEF TemplatesInv, TemplateTypes, TemplateTables
  <1> QED  BY <1>1 DEF TemplatesInv, TemplateTypes, TemplateTables, NotAtWhatsApp, NoTemplate, News

\* submitTemplate, by either gateway.
LEMMA SubmitKeeps ==
    ASSUME TemplatesInv, NEW q \in Requests, NEW gateway, Submit(q, gateway)
    PROVE  TemplatesInv'
  <1>0. /\ handling[q].at = "submit" /\ stored' = stored /\ madeRows' = madeRows /\ news' = news
        /\ handling[q].id # 0 /\ handling[q] \in TemplateRequest /\ handling \in [Requests -> TemplateRequest]
    BY TablesIs DEF Submit, Is, NoRow, ByRow
  <1>1. ASSUME ~apart PROVE ByItself(q) /\ stored.id = handling[q].id /\ stored.meta = 0 /\ remote = NotAtWhatsApp
    BY <1>0, <1>1, ByItselfWhen DEF Underway, Relies, Gone, Mine
  <1>2. CASE Proceed(q, "undo") /\ UNCHANGED <<remote, madeRemote, apart>>
    <2>1. PICK new \in TemplateRequest : new.at = "undo" /\ new.id = handling[q].id /\ handling' = [handling EXCEPT ![q] = new]
      BY <1>2, ProceedIs DEF RequestSteps
    <2>2. TemplateTables'
      BY <1>0, <1>2 DEF TemplatesInv, TemplateTypes, TemplateTables
    <2>3. ASSUME ~apart' PROVE ByItself(q) /\ Relies(new)'
      BY <1>0, <1>1, <1>2, <2>1, <2>3 DEF Relies, Gone, Mine
    <2> QED  BY <1>0, <2>1, <2>2, <2>3, RequestKeeps
  <1>3. ASSUME remote = NotAtWhatsApp, madeRemote' = madeRemote + 1,
               NEW s \in {"PENDING", "APPROVED"}, NEW told \in BOOLEAN,
               remote' = [meta |-> madeRemote + 1, status |-> s],
               handling' = [handling EXCEPT ![q] = [handling[q] EXCEPT !.at = IF told THEN "store" ELSE "undo",
                                                       !.meta = madeRemote + 1, !.status = s]],
               apart' = (apart \/ ~told)
        PROVE  TemplatesInv'
    <2> DEFINE step == IF told THEN "store" ELSE "undo"
               h == [handling[q] EXCEPT !.at = step, !.meta = madeRemote + 1, !.status = s]
    <2>0. step \in RequestSteps /\ s \in AnyStatus /\ s \in Statuses /\ madeRemote + 1 \in Nat /\ madeRemote \in Nat
      BY TablesIs DEF RequestSteps, AnyStatus, Statuses
    <2>1. PICK new \in TemplateRequest : /\ new = h /\ new.at = step /\ new.id = handling[q].id
                                 /\ new.meta = madeRemote + 1 /\ new.status = s
      <3> HIDE DEF step
      <3>1. h \in TemplateRequest
        BY <1>0, <2>0 DEF TemplateRequest
      <3>2. h.at = step /\ h.id = handling[q].id /\ h.meta = madeRemote + 1 /\ h.status = s
        BY <1>0 DEF TemplateRequest
      <3> QED  BY <3>1, <3>2
    <2>2. handling' = [handling EXCEPT ![q] = new]
      BY <1>3, <2>1
    <2>3. TemplateTables'
      <3>1. apart' \in BOOLEAN
        BY <1>3, Zenon DEF TemplatesInv, TemplateTypes, TemplateTables
      <3>2. \A i \in DOMAIN news : news[i].meta <= madeRemote + 1
        BY TablesIs
      <3>3. remote' \in [meta : Nat, status : AnyStatus] /\ remote'.meta # 0 /\ remote'.meta <= madeRemote'
        BY <1>3, <2>0
      <3> QED  BY <1>0, <1>3, <2>0, <3>1, <3>2, <3>3 DEF TemplatesInv, TemplateTypes, TemplateTables
    <2>4. ASSUME ~apart' PROVE ByItself(q) /\ Relies(new)'
      <3>1. told /\ ~apart
        BY <1>3, <2>4
      <3>2. LastWord(s)'
        BY <1>0, <1>3, LastWordNew
      <3>3. new.at = "store" /\ new.status = s /\ new.meta = madeRemote + 1 /\ new.id = handling[q].id
        BY <2>1, <3>1
      <3>4. (LastWord(new.status))'
        BY <3>2, <3>3
      <3>5. remote'.meta = new.meta /\ new.meta # 0 /\ stored'.id = new.id
        BY <1>0, <1>1, <1>3, <2>0, <3>1, <3>3
      <3> QED  BY <1>1, <3>1, <3>3, <3>4, <3>5 DEF Relies, Gone, Mine
    <2>5. new.id # 0 /\ new.at # "none"
      BY <1>0, <2>1
    <2> HIDE DEF step, h
    <2> QED  BY <2>2, <2>3, <2>4, <2>5, RequestKeeps
  <1> QED  BY <1>2, <1>3 DEF Submit

LEMMA StoreMetaIdKeeps ==
    ASSUME TemplatesInv, NEW q \in Requests, StoreMetaId(q)
    PROVE  TemplatesInv'
  <1>0. /\ handling[q].at = "store" /\ madeRows' = madeRows /\ news' = news /\ remote' = remote /\ madeRemote' = madeRemote
        /\ handling[q].id # 0 /\ handling[q] \in TemplateRequest
    BY TablesIs DEF StoreMetaId, Is, RowOnly, ByRow
  <1>1. CASE stored.id = handling[q].id
    <2>1. PICK new \in TemplateRequest : new.at = "none" /\ handling' = [handling EXCEPT ![q] = new]
      BY <1>1, DoneIs DEF StoreMetaId
    <2>2. /\ stored' = [stored EXCEPT !.meta = handling[q].meta, !.status = handling[q].status]
          /\ apart' = (apart \/ Crossed(q))
      BY <1>1 DEF StoreMetaId
    <2>3. stored' \in [id : Nat, meta : Nat, status : AnyStatus] /\ stored'.id = stored.id
          /\ stored'.meta = handling[q].meta /\ stored'.status = handling[q].status
      BY <1>0, <2>2, TablesIs DEF TemplatesInv, TemplateTypes, TemplateTables, TemplateRequest
    <2>4. TemplateTables'
      <3>1. apart' \in BOOLEAN
        BY <2>2, Zenon DEF TemplatesInv, TemplateTypes, TemplateTables, Crossed
      <3> QED  BY <1>0, <1>1, <2>3, <3>1 DEF TemplatesInv, TemplateTypes, TemplateTables
    <2>5. ASSUME ~apart' PROVE ByItself(q) /\ Relies(new)' /\ InTouch'
      <3>1. ~apart
        BY <2>2, <2>5
      <3>2. ByItself(q) /\ LastWord(handling[q].status) /\ remote.meta = handling[q].meta /\ handling[q].meta # 0
        BY <1>0, <3>1, ByItselfWhen DEF Underway, Relies
      <3>3. LastWord(stored.status)'
        BY <1>0, <2>3, <3>2 DEF LastWord
      <3> QED  BY <1>0, <1>1, <2>1, <2>3, <3>2, <3>3 DEF Relies, InTouch
    <2> QED  BY <2>1, <2>4, <2>5, RequestKeeps DEF ByRow
  <1>2. CASE stored.id # handling[q].id
    <2>1. Proceed(q, "undo") /\ apart' = TRUE /\ stored' = stored
      BY <1>2 DEF StoreMetaId
    <2>2. PICK new \in TemplateRequest : new.at = "undo" /\ new.id = handling[q].id /\ handling' = [handling EXCEPT ![q] = new]
      BY <2>1, ProceedIs DEF RequestSteps
    <2>3. TemplateTables'
      BY <1>0, <2>1 DEF TemplatesInv, TemplateTypes, TemplateTables
    <2> QED  BY <1>0, <2>1, <2>2, <2>3, RequestKeeps
  <1> QED  BY <1>1, <1>2

\* A row is deleted by its id, when WhatsApp does not have the template.
LEMMA DeletesKeeps ==
    ASSUME TemplatesInv, NEW q \in Requests, handling[q].at \in {"undo", "remove"}, Done(q),
           DeleteRow(handling[q].id), UNCHANGED madeRows, RowOnly, apart' = (apart \/ Crossed(q))
    PROVE  TemplatesInv'
  <1>1. PICK new \in TemplateRequest : new.at = "none" /\ handling' = [handling EXCEPT ![q] = new]
    BY DoneIs
  <1>2. stored' = NoTemplate \/ stored' = stored
    BY DEF DeleteRow
  <1>3. NoTemplate \in [id : Nat, meta : Nat, status : AnyStatus] /\ NoTemplate.id = 0 /\ NoTemplate.meta = 0
    BY DEF NoTemplate, AnyStatus
  <1>4. TemplateTables'
    <2>1. apart' \in BOOLEAN
      BY Zenon DEF TemplatesInv, TemplateTypes, TemplateTables, Crossed
    <2> QED  BY <1>2, <1>3, <2>1 DEF TemplatesInv, TemplateTypes, TemplateTables, RowOnly
  <1>5. ASSUME ~apart' PROVE ByItself(q) /\ Relies(new)' /\ InTouch'
    <2>1. ByItself(q) /\ stored.id = handling[q].id /\ remote = NotAtWhatsApp
      BY <1>5, ByItselfWhen DEF Underway, Relies, Mine, Gone
    <2>2. stored' = NoTemplate /\ remote' = NotAtWhatsApp /\ NotAtWhatsApp.meta = 0
      BY <2>1 DEF DeleteRow, RowOnly, NotAtWhatsApp
    <2> QED  BY <1>1, <1>3, <2>1, <2>2 DEF Relies, InTouch
  <1> QED  BY <1>1, <1>4, <1>5, RequestKeeps DEF ByRow

\* WhatsApp decides, or tells of something else.
LEMMA NewsKeeps ==
    ASSUME TemplatesInv, remote # NotAtWhatsApp, NEW s \in Statuses,
           remote' = [remote EXCEPT !.status = s], news' = Append(news, [meta |-> remote.meta, status |-> s]),
           apart' \in BOOLEAN, apart => apart', UNCHANGED <<handling, stored, madeRows, madeRemote>>
    PROVE  TemplatesInv'
  <1>0. /\ remote.meta \in Nat /\ remote.meta # 0 /\ remote'.meta = remote.meta /\ remote'.status = s
        /\ remote' \in [meta : Nat, status : AnyStatus] /\ news \in Seq(News) /\ remote.meta <= madeRemote
    BY DEF TemplatesInv, TemplateTypes, TemplateTables, AnyStatus, NotAtWhatsApp
  <1> DEFINE e == [meta |-> remote.meta, status |-> s]
  <1>1. e \in News /\ e.meta = remote.meta /\ e.status = s
    BY <1>0 DEF News
  <1>2. /\ news' \in Seq(News) /\ Len(news) \in Nat /\ DOMAIN news' = 1..(Len(news) + 1) /\ DOMAIN news = 1..Len(news)
        /\ news'[Len(news) + 1] = e /\ \A i \in 1..Len(news) : news'[i] = news[i]
    <2>1. news' = Append(news, e)
      OBVIOUS
    <2> HIDE DEF e
    <2> QED  BY <1>0, <1>1, <2>1
  <1> HIDE DEF e
  <1>3. \A i \in DOMAIN news' : i \in DOMAIN news \/ i = Len(news) + 1
    BY <1>2
  <1>4. TemplateTables'
    <2>1. \A i \in DOMAIN news' : news'[i].meta <= madeRemote
      BY <1>0, <1>1, <1>2, <1>3, TablesIs
    <2> QED  BY <1>0, <1>2, <2>1 DEF TemplatesInv, TemplateTypes, TemplateTables
  <1>5. \A b : LastWord(b)'
    <2>1. Len(news) + 1 \in DOMAIN news' /\ \A j \in DOMAIN news' : ~(j > Len(news) + 1)
      BY <1>2
    <2>2. news'[Len(news) + 1].meta = remote'.meta /\ news'[Len(news) + 1].status = remote'.status
      BY <1>0, <1>1, <1>2
    <2> QED  BY <2>1, <2>2 DEF LastWord
  <1>6. remote = NotAtWhatsApp <=> remote.meta = 0
    BY TablesIs
  <1>7. ASSUME ~apart', NEW q \in Requests PROVE Relies(handling[q])'
    <2>1. Relies(handling[q])
      BY <1>7 DEF TemplatesInv
    <2> QED  BY <1>0, <1>5, <2>1 DEF Relies, Gone, Mine, There
  <1>8. ASSUME ~apart', \A q \in Requests : ~Underway(q)' PROVE InTouch'
    <2>1. InTouch
      BY <1>8 DEF TemplatesInv, Underway
    <2> QED  BY <1>0, <1>5, <2>1 DEF InTouch
  <1>9. ASSUME ~apart', NEW q \in Requests, NEW o \in Requests, Underway(q)', Underway(o)' PROVE q = o
    BY <1>9 DEF TemplatesInv, Underway
  <1>10. TemplateTypes'
    BY <1>4 DEF TemplatesInv, TemplateTypes
  <1> QED  BY <1>7, <1>8, <1>9, <1>10 DEF TemplatesInv

LEMMA ReviewKeeps ==
    ASSUME TemplatesInv, Review
    PROVE  TemplatesInv'
  <1>1. PICK s \in Statuses : remote' = [remote EXCEPT !.status = s]
                              /\ news' = Append(news, [meta |-> remote.meta, status |-> s])
    BY DEF Review
  <1>2. apart' \in BOOLEAN /\ (apart => apart')
    BY Zenon DEF Review, TemplatesInv, TemplateTypes, TemplateTables
  <1> QED  BY <1>1, <1>2, NewsKeeps DEF Review, NoRow

\* Everything may be apart.
LEMMA ApartKeeps ==
    ASSUME TemplatesInv, TemplateTables', UNCHANGED handling, apart'
    PROVE  TemplatesInv'
  BY DEF TemplatesInv, TemplateTypes

LEMMA OtherEventKeeps ==
    ASSUME TemplatesInv, OtherEvent
    PROVE  TemplatesInv'
  <1>0. /\ remote # NotAtWhatsApp /\ news' = Append(news, [meta |-> remote.meta, status |-> "PENDING"])
        /\ apart' = (apart \/ remote.status # "PENDING")
        /\ UNCHANGED <<remote, handling, stored, madeRows, madeRemote>>
    BY DEF OtherEvent, NoRow
  <1>1. apart' \in BOOLEAN
    BY <1>0, Zenon DEF TemplatesInv, TemplateTypes, TemplateTables
  <1>2. CASE remote.status = "PENDING"
    <2>1. remote' = [remote EXCEPT !.status = "PENDING"]
      BY <1>0, <1>2 DEF TemplatesInv, TemplateTypes, TemplateTables
    <2>2. "PENDING" \in Statuses
      BY DEF Statuses
    <2>3. apart => apart'
      BY <1>0, Zenon
    <2> QED  BY <1>0, <1>1, <2>1, <2>2, <2>3, NewsKeeps
  <1>3. CASE remote.status # "PENDING"
    <2> DEFINE e == [meta |-> remote.meta, status |-> "PENDING"]
    <2>1. e \in News /\ e.meta <= madeRemote /\ news \in Seq(News)
      BY <1>0, TablesIs DEF News, Statuses, TemplatesInv, TemplateTypes, TemplateTables
    <2>2. /\ news' \in Seq(News) /\ Len(news) \in Nat /\ DOMAIN news' = 1..(Len(news) + 1) /\ DOMAIN news = 1..Len(news)
          /\ news'[Len(news) + 1] = e /\ \A i \in 1..Len(news) : news'[i] = news[i]
      <3> HIDE DEF e
      <3>1. news' = Append(news, e)
        BY <1>0 DEF e
      <3> QED  BY <2>1, <3>1
    <2> HIDE DEF e
    <2>3. \A i \in DOMAIN news' : news'[i].meta <= madeRemote
      <3>1. \A i \in DOMAIN news' : i \in DOMAIN news \/ i = Len(news) + 1
        BY <2>2
      <3> QED  BY <2>1, <2>2, <3>1, TablesIs
    <2>4. TemplateTables'
      BY <1>0, <1>1, <2>2, <2>3 DEF TemplatesInv, TemplateTypes, TemplateTables
    <2> QED  BY <1>0, <1>3, <2>4, ApartKeeps
  <1> QED  BY <1>2, <1>3

LEMMA ChangedAtWhatsAppKeeps ==
    ASSUME TemplatesInv, ChangedAtWhatsApp
    PROVE  TemplatesInv'
  <1>0. apart' = TRUE /\ UNCHANGED <<handling, stored, madeRows, news>>
    BY DEF ChangedAtWhatsApp, NoRow
  <1>1. CASE remote' = NotAtWhatsApp /\ madeRemote' = madeRemote
    <2>1. NotAtWhatsApp \in [meta : Nat, status : AnyStatus] /\ NotAtWhatsApp.meta = 0
      BY DEF NotAtWhatsApp, AnyStatus
    <2>2. TemplateTables'
      BY <1>0, <1>1, <2>1 DEF TemplatesInv, TemplateTypes, TemplateTables
    <2> QED  BY <1>0, <2>2, ApartKeeps
  <1>2. CASE madeRemote' = madeRemote + 1 /\ remote' = [meta |-> madeRemote + 1, status |-> "APPROVED"]
    <2>1. \A i \in DOMAIN news : news[i].meta <= madeRemote + 1
      BY TablesIs
    <2>2. remote' \in [meta : Nat, status : AnyStatus] /\ remote'.meta # 0 /\ remote'.meta <= madeRemote' /\ madeRemote' \in Nat
      BY <1>2, TablesIs DEF AnyStatus, Statuses
    <2>3. TemplateTables'
      BY <1>0, <1>2, <2>1, <2>2 DEF TemplatesInv, TemplateTypes, TemplateTables
    <2> QED  BY <1>0, <2>3, ApartKeeps
  <1> QED  BY <1>1, <1>2 DEF ChangedAtWhatsApp

LEMMA WebhookKeeps ==
    ASSUME TemplatesInv, NEW q \in Requests, Webhook(q)
    PROVE  TemplatesInv'
  <1>1. PICK i \in DOMAIN news :
          /\ handling[q].at = "none" /\ news' = SubSeq(news, 1, i - 1) \o SubSeq(news, i + 1, Len(news))
          /\ IF stored.meta = news[i].meta
             THEN handling' = [handling EXCEPT ![q] =
                    [at |-> "write", id |-> stored.id, meta |-> stored.meta, status |-> news[i].status]]
             ELSE UNCHANGED handling
          /\ apart' = (apart \/ i # 1 \/ Crossed(q) \/ (remote.meta = news[i].meta /\ stored.meta # remote.meta))
          /\ UNCHANGED <<remote, madeRemote, stored, madeRows>>
    BY DEF Webhook, NoRow
  <1> DEFINE L == Len(news)
  <1>2. /\ news \in Seq(News) /\ L \in Nat /\ DOMAIN news = 1..L /\ i \in 1..L
        /\ \A j \in 1..L : news[j] \in News
    BY DEF TemplatesInv, TemplateTypes, TemplateTables
  <1>3. /\ news' \in Seq(News) /\ Len(news') = L - 1 /\ DOMAIN news' = 1..(L - 1)
        /\ \A j \in 1..(L - 1) : news'[j] = IF j < i THEN news[j] ELSE news[j + 1]
    <2>1. i - 1 \in 0..L /\ i + 1 \in 1..(L + 1)
      BY <1>2
    <2> DEFINE s == SubSeq(news, 1, i - 1)
               t == SubSeq(news, i + 1, L)
    <2>2. s \in Seq(News) /\ Len(s) = i - 1 /\ \A j \in 1..(i - 1) : s[j] = news[j]
      BY <1>2, <2>1
    <2>3. t \in Seq(News) /\ Len(t) = L - i /\ \A j \in 1..(L - i) : t[j] = news[i + j]
      BY <1>2, <2>1
    <2>4. news' = s \o t
      BY <1>1
    <2> HIDE DEF s, t, L
    <2>6. (i - 1) + (L - i) = L - 1 /\ i \in Nat
      BY <1>2
    <2>5. /\ s \o t \in Seq(News) /\ Len(s \o t) = L - 1
          /\ \A j \in 1..(L - 1) : (s \o t)[j] = IF j <= i - 1 THEN s[j] ELSE t[j - (i - 1)]
      <3>1. /\ s \o t \in Seq(News) /\ Len(s \o t) = Len(s) + Len(t)
            /\ \A j \in 1..(Len(s) + Len(t)) : (s \o t)[j] = IF j <= Len(s) THEN s[j] ELSE t[j - Len(s)]
        BY <2>2, <2>3, ConcatProperties
      <3>2. Len(s) + Len(t) = L - 1 /\ Len(s) = i - 1
        BY <2>2, <2>3, <2>6
      <3> QED  BY <3>1, <3>2
    <2>7. \A j \in 1..(L - 1) : news'[j] = IF j < i THEN news[j] ELSE news[j + 1]
      <3> SUFFICES ASSUME NEW j \in 1..(L - 1) PROVE news'[j] = IF j < i THEN news[j] ELSE news[j + 1]
        OBVIOUS
      <3>1. CASE j < i
        BY <1>2, <2>2, <2>4, <2>5, <2>6, <3>1
      <3>2. CASE ~(j < i)
        <4>1. j - (i - 1) \in 1..(L - i) /\ i + (j - (i - 1)) = j + 1 /\ ~(j <= i - 1)
          BY <1>2, <2>6, <3>2
        <4> QED  BY <2>3, <2>4, <2>5, <2>6, <3>2, <4>1
      <3> QED  BY <3>1, <3>2
    <2>8. DOMAIN news' = 1..(L - 1)
      <3>1. news' \in Seq(News) /\ Len(news') = L - 1
        BY <2>4, <2>5
      <3> QED  BY <3>1, LenProperties
    <2> QED  BY <2>4, <2>5, <2>7, <2>8
  <1> HIDE DEF L
  <1>4. \A j \in 1..(L - 1) : news'[j].meta <= madeRemote
    <2> SUFFICES ASSUME NEW j \in 1..(L - 1) PROVE news'[j].meta <= madeRemote
      OBVIOUS
    <2>1. j \in 1..L /\ j + 1 \in 1..L
      BY <1>2
    <2> QED  BY <1>2, <1>3, <2>1, TablesIs
  <1>5. TemplateTables'
    <2>1. apart' \in BOOLEAN
      BY <1>1, Zenon DEF TemplatesInv, TemplateTypes, TemplateTables, Crossed
    <2> QED  BY <1>1, <1>3, <1>4, <2>1 DEF TemplatesInv, TemplateTypes, TemplateTables
  <1>6. PICK x \in DOMAIN news : x = 1
    BY <1>2
  <1> PICK told \in Statuses : told = news[i].status
    BY TablesIs
  \* The oldest decision is taken up, and it is about this template.
  <1>7. ASSUME ~apart', stored.meta = news[i].meta
        PROVE  ByItself(q) /\ stored.meta = remote.meta /\ remote.meta # 0 /\ LastWord(told)'
    <2>1. ByItself(q) /\ InTouch /\ i = 1
      BY <1>1, <1>7, ByItselfWhen DEF Underway
    <2>2. stored.meta = remote.meta /\ remote.meta # 0 /\ LastWord(stored.status) /\ news[i].meta = remote.meta
      BY <1>2, <1>7, <2>1, TablesIs DEF InTouch
    <2>3. LastWord(told)'
      <3> SUFFICES ASSUME remote.status # "DISABLED" PROVE LastWord(told)'
        BY <1>1 DEF LastWord
      <3>1. PICK k \in DOMAIN news : /\ news[k].meta = remote.meta /\ news[k].status = remote.status
                                     /\ \A j \in DOMAIN news : j > k => news[j].meta # remote.meta
        BY <2>2 DEF LastWord
      <3>2. CASE k = 1
        <4>1. \A j \in 1..(L - 1) : news'[j] = news[j + 1] /\ j + 1 \in DOMAIN news /\ j + 1 > k
          BY <1>2, <1>3, <2>1, <3>2
        <4>2. \A j \in DOMAIN news' : news'[j].meta # remote'.meta
          BY <1>1, <1>3, <3>1, <4>1
        <4> QED  BY <1>1, <2>1, <3>1, <3>2, <4>2 DEF LastWord
      <3>3. CASE k # 1
        <4>1. k - 1 \in DOMAIN news' /\ news'[k - 1] = news[k]
          BY <1>2, <1>3, <2>1, <3>3
        <4>2. \A j \in 1..(L - 1) : news'[j] = news[j + 1] /\ j + 1 \in DOMAIN news /\ (j > k - 1 => j + 1 > k)
          BY <1>2, <1>3, <2>1
        <4>3. \A j \in DOMAIN news' : j > k - 1 => news'[j].meta # remote'.meta
          BY <1>1, <1>3, <3>1, <4>2
        <4> QED  BY <1>1, <3>1, <4>1, <4>3 DEF LastWord
      <3> QED  BY <3>2, <3>3
    <2> QED  BY <2>1, <2>2, <2>3
  \* It is about another: what this one awaits stays.
  <1>8. ASSUME ~apart', stored.meta # news[i].meta
        PROVE  ByItself(q) /\ InTouch'
    <2>1. ByItself(q) /\ InTouch /\ i = 1
      BY <1>1, <1>8, ByItselfWhen DEF Underway
    <2>2. stored.meta = remote.meta /\ (remote.meta # 0 => LastWord(stored.status)) /\ news[i].meta # remote.meta
      BY <1>8, <2>1 DEF InTouch
    <2>3. ASSUME remote.meta # 0 PROVE LastWord(stored.status)'
      <3> SUFFICES ASSUME remote.status # "DISABLED" PROVE LastWord(stored.status)'
        BY <1>1 DEF LastWord
      <3>1. CASE stored.status = remote.status /\ \A j \in DOMAIN news : news[j].meta # remote.meta
        <4>1. \A j \in 1..(L - 1) : news'[j] = news[j + 1] /\ j + 1 \in DOMAIN news
          BY <1>2, <1>3, <2>1
        <4>2. \A j \in DOMAIN news' : news'[j].meta # remote'.meta
          BY <1>1, <1>3, <3>1, <4>1
        <4> QED  BY <1>1, <3>1, <4>2 DEF LastWord
      <3>2. ASSUME NEW k \in DOMAIN news, news[k].meta = remote.meta, news[k].status = remote.status,
                   \A j \in DOMAIN news : j > k => news[j].meta # remote.meta
            PROVE  LastWord(stored.status)'
        <4>1. k - 1 \in DOMAIN news' /\ news'[k - 1] = news[k]
          BY <1>2, <1>3, <2>1, <2>2, <3>2
        <4>2. \A j \in 1..(L - 1) : news'[j] = news[j + 1] /\ j + 1 \in DOMAIN news /\ (j > k - 1 => j + 1 > k)
          BY <1>2, <1>3, <2>1
        <4>3. \A j \in DOMAIN news' : j > k - 1 => news'[j].meta # remote'.meta
          BY <1>1, <1>3, <3>2, <4>2
        <4> QED  BY <1>1, <3>2, <4>1, <4>3 DEF LastWord
      <3> QED  BY <2>2, <2>3, <3>1, <3>2 DEF LastWord
    <2> QED  BY <1>1, <2>1, <2>3 DEF InTouch
  <1>9. CASE stored.meta = news[i].meta
    <2>1. stored.id \in Nat /\ stored.id # 0 /\ stored.meta \in Nat /\ told \in AnyStatus
      BY <1>9, TablesIs DEF AnyStatus
    <2>2. PICK new \in TemplateRequest : /\ new = [at |-> "write", id |-> stored.id, meta |-> stored.meta, status |-> told]
                                 /\ new.at = "write" /\ new.id = stored.id /\ new.status = told
      <3>1. "write" \in RequestSteps
        BY DEF RequestSteps
      <3> QED  BY <2>1, <3>1, NewRequest
    <2>3. handling' = [handling EXCEPT ![q] = new]
      BY <1>1, <1>9, <2>2
    <2>4. ASSUME ~apart' PROVE ByItself(q) /\ Relies(new)'
      <3>1. ByItself(q) /\ stored.meta = remote.meta /\ remote.meta # 0 /\ LastWord(new.status)'
        BY <1>7, <1>9, <2>2, <2>4
      <3> QED  BY <1>1, <2>2, <3>1 DEF Relies, There
    <2> QED  BY <1>5, <2>1, <2>2, <2>3, <2>4, RequestKeeps
  <1>10. CASE stored.meta # news[i].meta
    <2>1. PICK new \in TemplateRequest : new = handling[q]
      BY TablesIs
    <2>2. handling' = [handling EXCEPT ![q] = new] /\ new.at = "none"
      BY <1>1, <1>10, <2>1, TablesIs
    <2>3. ~apart' => ByItself(q) /\ Relies(new)' /\ InTouch'
      BY <1>8, <1>10, <2>2 DEF Relies
    <2> QED  BY <1>5, <2>2, <2>3, RequestKeeps DEF ByRow
  <1> QED  BY <1>9, <1>10

\* A read of the row begins a request about it: SyncTemplateStatus, DeleteTemplate.
LEMMA ReadsKeeps ==
    ASSUME TemplatesInv, NEW q \in Requests, NEW new \in TemplateRequest, handling[q].at = "none", stored # NoTemplate,
           handling' = [handling EXCEPT ![q] = new], new.id = stored.id, new.meta = stored.meta,
           new.at \in {"fetch", "delete"} \/ (new.at = "write" /\ new.status = stored.status),
           apart' = (apart \/ Crossed(q)), UNCHANGED <<stored, madeRows, remote, news, madeRemote>>
    PROVE  TemplatesInv'
  <1>1. stored.id # 0 /\ (remote = NotAtWhatsApp <=> remote.meta = 0)
    BY TablesIs
  <1>2. TemplateTables'
    <2>1. apart' \in BOOLEAN
      BY Zenon DEF TemplatesInv, TemplateTypes, TemplateTables, Crossed
    <2> QED  BY <2>1 DEF TemplatesInv, TemplateTypes, TemplateTables
  <1>3. ASSUME ~apart' PROVE ByItself(q) /\ Relies(new)'
    <2>1. ByItself(q) /\ InTouch
      BY <1>3, ByItselfWhen DEF Underway
    <2>2. stored.meta = remote.meta /\ remote.meta # 0 /\ LastWord(stored.status)
      BY <1>1, <2>1 DEF InTouch
    <2>3. LastWord(stored.status)'
      BY <2>2 DEF LastWord
    <2>4. new.status = stored.status => LastWord(new.status)'
      BY <2>2 DEF LastWord
    <2> QED  BY <2>1, <2>2, <2>3, <2>4 DEF Relies, There
  <1> QED  BY <1>1, <1>2, <1>3, RequestKeeps

LEMMA SyncTemplateStatusKeeps ==
    ASSUME TemplatesInv, NEW q \in Requests, SyncTemplateStatus(q)
    PROVE  TemplatesInv'
  <1> PICK step \in RequestSteps : step = IF stored.meta = 0 THEN "write" ELSE "fetch"
    BY DEF RequestSteps
  <1>0. stored.id \in Nat /\ stored.meta \in Nat /\ stored.status \in AnyStatus
    BY TablesIs
  <1>1. PICK new \in TemplateRequest : /\ new = [at |-> step, id |-> stored.id, meta |-> stored.meta, status |-> stored.status]
                               /\ new.at = step /\ new.id = stored.id /\ new.meta = stored.meta /\ new.status = stored.status
    BY <1>0, NewRequest
  <1>2. handling' = [handling EXCEPT ![q] = new]
    BY <1>1 DEF SyncTemplateStatus
  <1> QED  BY <1>1, <1>2, ReadsKeeps DEF SyncTemplateStatus, Asked, NoRow

LEMMA DeleteTemplateKeeps ==
    ASSUME TemplatesInv, NEW q \in Requests, DeleteTemplate(q)
    PROVE  TemplatesInv'
  <1> DEFINE h == [NoRequest EXCEPT !.at = "delete", !.id = stored.id, !.meta = stored.meta]
  <1>1. h \in TemplateRequest /\ h.at = "delete" /\ h.id = stored.id /\ h.meta = stored.meta
    BY TablesIs DEF NoRequest, TemplateRequest, RequestSteps, AnyStatus
  <1>2. PICK new \in TemplateRequest : new = h
    BY <1>1
  <1>3. handling' = [handling EXCEPT ![q] = new]
    BY <1>2 DEF DeleteTemplate
  <1> HIDE DEF h
  <1> QED  BY <1>1, <1>2, <1>3, ReadsKeeps DEF DeleteTemplate, Asked, NoRow

LEMMA FetchTemplateStatusKeeps ==
    ASSUME TemplatesInv, NEW q \in Requests, FetchTemplateStatus(q)
    PROVE  TemplatesInv'
  <1>0. /\ handling[q].at = "fetch" /\ handling[q] \in TemplateRequest /\ handling[q].id # 0 /\ apart' = apart
        /\ UNCHANGED <<stored, madeRows, remote, news, madeRemote>>
    BY TablesIs DEF FetchTemplateStatus, Is, NoRow, RowOnly, ByRow
  <1>1. TemplateTables'
    BY <1>0 DEF TemplatesInv, TemplateTypes, TemplateTables
  <1>2. ASSUME ~apart
        PROVE  ByItself(q) /\ stored.id = handling[q].id /\ stored.meta = remote.meta /\ remote.meta # 0 /\ LastWord(stored.status)
    BY <1>0, <1>2, ByItselfWhen DEF Underway, Relies, There
  <1>3. CASE Done(q)
    <2>1. PICK new \in TemplateRequest : new.at = "none" /\ handling' = [handling EXCEPT ![q] = new]
      BY <1>3, DoneIs
    <2>2. ASSUME ~apart' PROVE ByItself(q) /\ Relies(new)' /\ InTouch'
      <3>1. stored.id # 0 /\ LastWord(stored.status)'
        BY <1>0, <1>2, <2>2 DEF LastWord
      <3> QED  BY <1>0, <1>2, <2>1, <2>2, <3>1 DEF Relies, InTouch
    <2> QED  BY <1>1, <2>1, <2>2, RequestKeeps DEF ByRow
  <1>4. ASSUME NEW gateway \in Gateways, remote.meta = handling[q].meta,
               handling' = [handling EXCEPT ![q] = [handling[q] EXCEPT !.at = "write", !.status = AsFetched(gateway, remote.status)]]
        PROVE  TemplatesInv'
    <2>1. PICK s \in AnyStatus : s = AsFetched(gateway, remote.status)
      BY TablesIs DEF AsFetched, AnyStatus, Statuses
    <2> DEFINE h == [handling[q] EXCEPT !.at = "write", !.status = s]
    <2>5. h \in TemplateRequest /\ h.at = "write" /\ h.id = handling[q].id /\ h.status = s
      BY <1>0, <2>1 DEF TemplateRequest, RequestSteps
    <2>2. PICK new \in TemplateRequest : /\ new = h
                                 /\ new.at = "write" /\ new.id = handling[q].id /\ new.status = s
      BY <2>5
    <2>3. handling' = [handling EXCEPT ![q] = new]
      BY <1>4, <2>1, <2>2
    <2>4. ASSUME ~apart' PROVE ByItself(q) /\ Relies(new)'
      <3>1. LastWord(s)'
        <4>1. remote.status # "DISABLED" => s = remote.status
          BY <2>1 DEF AsFetched
        <4>2. LastWord(stored.status)
          BY <1>0, <1>2, <2>4
        <4> QED  BY <1>0, <4>1, <4>2 DEF LastWord
      <3>2. LastWord(new.status)'
        BY <2>2, <3>1
      <3> QED  BY <1>0, <1>2, <2>2, <2>4, <3>2 DEF Relies, There
    <2> QED  BY <1>0, <1>1, <2>2, <2>3, <2>4, RequestKeeps
  <1> QED  BY <1>3, <1>4 DEF FetchTemplateStatus

LEMMA UpdateStatusKeeps ==
    ASSUME TemplatesInv, NEW q \in Requests, UpdateStatus(q)
    PROVE  TemplatesInv'
  <1>0. /\ handling[q].at = "write" /\ handling[q] \in TemplateRequest /\ handling[q].id # 0
        /\ UNCHANGED <<madeRows, remote, news, madeRemote>> /\ apart' = (apart \/ Crossed(q))
    BY TablesIs DEF UpdateStatus, Is, RowOnly, ByRow
  <1>1. PICK new \in TemplateRequest : new.at = "none" /\ handling' = [handling EXCEPT ![q] = new]
    BY DoneIs DEF UpdateStatus
  <1>2. /\ stored' \in [id : Nat, meta : Nat, status : AnyStatus] /\ stored'.id = stored.id /\ stored'.meta = stored.meta
        /\ stored.id = handling[q].id => stored'.status = handling[q].status
        /\ stored.id # handling[q].id => stored' = stored
    BY <1>0, TablesIs DEF UpdateStatus, TemplatesInv, TemplateTypes, TemplateTables, TemplateRequest
  <1>3. TemplateTables'
    <2>1. apart' \in BOOLEAN
      BY <1>0, Zenon DEF TemplatesInv, TemplateTypes, TemplateTables, Crossed
    <2> QED  BY <1>0, <1>2, <2>1 DEF TemplatesInv, TemplateTypes, TemplateTables
  <1>4. ASSUME ~apart' PROVE ByItself(q) /\ Relies(new)' /\ InTouch'
    <2>1. ByItself(q) /\ stored.id = handling[q].id /\ stored.meta = remote.meta /\ remote.meta # 0 /\ LastWord(handling[q].status)
      BY <1>0, <1>4, ByItselfWhen DEF Underway, Relies, There
    <2>2. LastWord(stored.status)'
      BY <1>0, <1>2, <2>1 DEF LastWord
    <2> QED  BY <1>0, <1>1, <1>2, <2>1, <2>2 DEF Relies, InTouch
  <1> QED  BY <1>1, <1>3, <1>4, RequestKeeps DEF ByRow

LEMMA FetchAllTemplatesKeeps ==
    ASSUME TemplatesInv, provider \in {"zernio", "meta"}, NEW q \in Requests, FetchAllTemplates(q)
    PROVE  TemplatesInv'
  <1>0. handling[q].at = "none" /\ UNCHANGED <<stored, madeRows, remote, news, madeRemote>>
    BY DEF FetchAllTemplates, Asked, NoRow
  <1>1. PICK gateway \in Gateways :
          LET t == IF gateway = "zernio" THEN remote ELSE NotAtWhatsApp IN
          /\ handling' = [handling EXCEPT ![q] = [at |-> IF t = NotAtWhatsApp THEN "prune" ELSE "merge",
                                              id |-> 0, meta |-> t.meta, status |-> AsListed(t.status)]]
          /\ apart' = (gateway = "meta" \/ Crossed(q) \/ news # <<>>)
    BY DEF FetchAllTemplates
  <1> DEFINE t == IF gateway = "zernio" THEN remote ELSE NotAtWhatsApp
  <1>2. t.meta \in Nat /\ t.status \in AnyStatus /\ (t = NotAtWhatsApp <=> t.meta = 0)
    BY TablesIs DEF NotAtWhatsApp, AnyStatus
  <1>3. PICK s \in AnyStatus : s = AsListed(t.status)
    BY <1>2 DEF AsListed, AnyStatus, Statuses
  <1>4. PICK step \in RequestSteps : step = IF t = NotAtWhatsApp THEN "prune" ELSE "merge"
    BY DEF RequestSteps
  <1>5. PICK new \in TemplateRequest : /\ new = [at |-> step, id |-> 0, meta |-> t.meta, status |-> s]
                               /\ new.at = step /\ new.meta = t.meta /\ new.status = s
    <2> HIDE DEF t
    <2> QED  BY <1>2, NewRequest
  <1>6. handling' = [handling EXCEPT ![q] = new] /\ apart' = (gateway = "meta" \/ Crossed(q) \/ news # <<>>)
    BY <1>1, <1>3, <1>4, <1>5
  <1>7. TemplateTables'
    <2>1. apart' \in BOOLEAN
      BY <1>6, Zenon DEF Crossed
    <2> QED  BY <1>0, <2>1 DEF TemplatesInv, TemplateTypes, TemplateTables
  <1>8. ASSUME ~apart' PROVE ByItself(q) /\ Relies(new)'
    <2>1. ByItself(q)
      BY <1>6, <1>8 DEF ByItself, Crossed, Underway
    <2>2. gateway # "meta" /\ news = <<>>
      BY <1>6, <1>8
    <2>3. CASE t = NotAtWhatsApp /\ remote = NotAtWhatsApp
      <3>1. new.at = "prune"
        BY <1>4, <1>5, <2>3
      <3> QED  BY <1>0, <2>1, <2>3, <3>1 DEF Relies, Gone
    <2>4. CASE t = remote /\ remote # NotAtWhatsApp
      <3>1. new.at = "merge" /\ new.meta = remote.meta /\ remote.meta # 0
        BY <1>4, <1>5, <2>4, TablesIs
      <3>2. remote.status # "DISABLED" => new.status = remote.status
        BY <1>3, <1>5, <2>4 DEF AsListed
      <3>3. LastWord(new.status)'
        BY <1>0, <2>2, <3>2 DEF LastWord
      <3> QED  BY <1>0, <2>1, <3>1, <3>3 DEF Relies
    <2>5. gateway = "zernio"
      BY <2>2 DEF Gateways
    <2> QED  BY <2>3, <2>4, <2>5
  <1>9. new.at \notin ByRow /\ new.at # "none"
    BY <1>4, <1>5 DEF ByRow
  <1> QED  BY <1>6, <1>7, <1>8, <1>9, RequestKeeps

LEMMA MergeKeeps ==
    ASSUME TemplatesInv, NEW q \in Requests, Merge(q)
    PROVE  TemplatesInv'
  <1>0. /\ handling[q].at = "merge" /\ handling[q] \in TemplateRequest
        /\ UNCHANGED <<remote, news, madeRemote>> /\ apart' = (apart \/ Crossed(q))
    BY TablesIs DEF Merge, Is, RowOnly
  <1>1. PICK new \in TemplateRequest : new.at = "none" /\ handling' = [handling EXCEPT ![q] = new]
    BY DoneIs DEF Merge
  <1>2. /\ stored' \in [id : Nat, meta : Nat, status : AnyStatus] /\ stored'.id # 0 /\ madeRows' \in Nat
        /\ stored'.meta = handling[q].meta /\ stored'.status = handling[q].status
    <2>1. CASE stored # NoTemplate
      <3>1. stored' = [stored EXCEPT !.meta = handling[q].meta, !.status = handling[q].status] /\ madeRows' = madeRows
        BY <2>1 DEF Merge
      <3> QED  BY <1>0, <2>1, <3>1, TablesIs DEF TemplatesInv, TemplateTypes, TemplateTables, TemplateRequest
    <2>2. CASE stored = NoTemplate
      <3>1. /\ stored' = [id |-> madeRows + 1, meta |-> handling[q].meta, status |-> handling[q].status]
            /\ madeRows' = madeRows + 1
        BY <2>2 DEF Merge, Insert
      <3> QED  BY <1>0, <3>1, TablesIs DEF TemplateRequest
    <2> QED  BY <2>1, <2>2
  <1>3. TemplateTables'
    <2>1. apart' \in BOOLEAN
      BY <1>0, Zenon DEF TemplatesInv, TemplateTypes, TemplateTables, Crossed
    <2> QED  BY <1>0, <1>2, <2>1 DEF TemplatesInv, TemplateTypes, TemplateTables
  <1>4. ASSUME ~apart' PROVE ByItself(q) /\ Relies(new)' /\ InTouch'
    <2>1. ByItself(q) /\ remote.meta = handling[q].meta /\ remote.meta # 0 /\ LastWord(handling[q].status)
      BY <1>0, <1>4, ByItselfWhen DEF Underway, Relies
    <2>2. LastWord(stored.status)'
      BY <1>0, <1>2, <2>1 DEF LastWord
    <2> QED  BY <1>0, <1>1, <1>2, <2>1, <2>2 DEF Relies, InTouch
  <1> QED  BY <1>1, <1>3, <1>4, RequestKeeps DEF ByRow

LEMMA PruneKeeps ==
    ASSUME TemplatesInv, NEW q \in Requests, Prune(q)
    PROVE  TemplatesInv'
  <1>0. /\ handling[q].at = "prune" /\ stored' = NoTemplate /\ madeRows' = madeRows
        /\ UNCHANGED <<remote, news, madeRemote>> /\ apart' = (apart \/ Crossed(q))
    BY DEF Prune, Is, RowOnly
  <1>1. PICK new \in TemplateRequest : new.at = "none" /\ handling' = [handling EXCEPT ![q] = new]
    BY DoneIs DEF Prune
  <1>2. /\ NoTemplate \in [id : Nat, meta : Nat, status : AnyStatus] /\ NoTemplate.id = 0 /\ NoTemplate.meta = 0
        /\ NotAtWhatsApp.meta = 0
    BY DEF NoTemplate, NotAtWhatsApp, AnyStatus
  <1>3. TemplateTables'
    <2>1. apart' \in BOOLEAN
      BY <1>0, Zenon DEF TemplatesInv, TemplateTypes, TemplateTables, Crossed
    <2> QED  BY <1>0, <1>2, <2>1 DEF TemplatesInv, TemplateTypes, TemplateTables
  <1>4. ASSUME ~apart' PROVE ByItself(q) /\ Relies(new)' /\ InTouch'
    <2>1. ByItself(q) /\ remote = NotAtWhatsApp
      BY <1>0, <1>4, ByItselfWhen DEF Underway, Relies, Gone
    <2> QED  BY <1>0, <1>1, <1>2, <2>1 DEF Relies, InTouch
  <1> QED  BY <1>1, <1>3, <1>4, RequestKeeps DEF ByRow

LEMMA DeleteRemoteKeeps ==
    ASSUME TemplatesInv, NEW q \in Requests, DeleteRemote(q)
    PROVE  TemplatesInv'
  <1>0. /\ handling[q].at = "delete" /\ handling[q] \in TemplateRequest /\ handling[q].id # 0
        /\ UNCHANGED <<stored, madeRows, news, madeRemote>>
    BY TablesIs DEF DeleteRemote, Is, NoRow, ByRow
  <1>1. PICK new \in TemplateRequest : /\ new.at = "remove" /\ new.id = handling[q].id
                               /\ handling' = [handling EXCEPT ![q] = new]
    BY ProceedIs DEF DeleteRemote, RequestSteps
  <1>2. /\ apart' \in BOOLEAN /\ (~apart' => ~apart /\ remote' = NotAtWhatsApp)
        /\ remote' = NotAtWhatsApp \/ remote' = remote
    <2>1. \/ remote' = NotAtWhatsApp /\ apart' = apart
          \/ remote' = remote /\ apart' = (apart \/ remote # NotAtWhatsApp)
      BY DEF DeleteRemote
    <2> QED  BY <2>1, Zenon DEF TemplatesInv, TemplateTypes, TemplateTables
  <1>3. TemplateTables'
    <2>1. NotAtWhatsApp \in [meta : Nat, status : AnyStatus] /\ NotAtWhatsApp.meta = 0
      BY DEF NotAtWhatsApp, AnyStatus
    <2> QED  BY <1>0, <1>2, <2>1 DEF TemplatesInv, TemplateTypes, TemplateTables
  <1>4. ASSUME ~apart' PROVE ByItself(q) /\ Relies(new)'
    <2>1. ByItself(q) /\ stored.id = handling[q].id /\ remote' = NotAtWhatsApp
      BY <1>0, <1>2, <1>4, ByItselfWhen DEF Underway, Relies, There
    <2> QED  BY <1>0, <1>1, <2>1 DEF Relies, Mine, Gone
  <1> QED  BY <1>0, <1>1, <1>3, <1>4, RequestKeeps

LEMMA TemplatesNextKeeps ==
    ASSUME TemplatesInv, provider \in {"zernio", "meta"}, [TemplatesNext]_mtVars
    PROVE  TemplatesInv' /\ provider' \in {"zernio", "meta"}
  <1>1. CASE UNCHANGED mtVars
    BY <1>1 DEF mtVars, TemplatesInv, TemplateTypes, TemplateTables, Relies, InTouch, Underway, LastWord, Gone, Mine, There
  <1>2. ASSUME NEW q \in Requests,
               CreateTemplate(q) \/ Replace(q) \/ InsertRow(q) \/ SubmitToZernio(q) \/ SubmitToMeta(q) \/ StoreMetaId(q)
        PROVE  TemplatesInv' /\ provider' = provider
    <2>1. provider' = provider
      BY <1>2 DEF CreateTemplate, Replace, InsertRow, SubmitToZernio, SubmitToMeta, Submit, StoreMetaId, RowOnly
    <2> QED  BY <1>2, <2>1, CreateTemplateKeeps, ReplaceKeeps, InsertRowKeeps, SubmitKeeps, StoreMetaIdKeeps
             DEF SubmitToZernio, SubmitToMeta
  <1>3. ASSUME NEW q \in Requests, Undo(q) \/ DeleteStored(q) \/ DeleteTemplate(q) \/ DeleteRemote(q)
        PROVE  TemplatesInv' /\ provider' = provider
    <2>1. provider' = provider
      BY <1>3 DEF Undo, DeleteStored, DeleteTemplate, DeleteRemote, RowOnly
    <2>2. Undo(q) \/ DeleteStored(q) => TemplatesInv'
      BY DeletesKeeps DEF Undo, DeleteStored, Is
    <2> QED  BY <1>3, <2>1, <2>2, DeleteTemplateKeeps, DeleteRemoteKeeps
  <1>4. ASSUME NEW q \in Requests,
               \/ Webhook(q) \/ SyncTemplateStatus(q) \/ FetchTemplateStatus(q) \/ UpdateStatus(q)
               \/ FetchAllTemplates(q) \/ Merge(q) \/ Prune(q)
        PROVE  TemplatesInv' /\ provider' = provider
    <2>1. provider' = provider
      BY <1>4 DEF Webhook, SyncTemplateStatus, FetchTemplateStatus, UpdateStatus, FetchAllTemplates, Merge, Prune, RowOnly
    <2> QED  BY <1>4, <2>1, WebhookKeeps, SyncTemplateStatusKeeps, FetchTemplateStatusKeeps, UpdateStatusKeeps,
                FetchAllTemplatesKeeps, MergeKeeps, PruneKeeps
  <1>5. CASE Review \/ OtherEvent \/ ChangedAtWhatsApp
    BY <1>5, ReviewKeeps, OtherEventKeeps, ChangedAtWhatsAppKeeps DEF Review, OtherEvent, ChangedAtWhatsApp
  <1> QED  BY <1>1, <1>2, <1>3, <1>4, <1>5 DEF TemplatesNext

LEMMA TemplatesInitHolds ==
    ASSUME TemplatesInit
    PROVE  TemplatesInv
  <1>1. NoRequest \in TemplateRequest /\ NoRequest.at = "none"
    BY DEF NoRequest, TemplateRequest, RequestSteps, AnyStatus
  <1>2. /\ NoTemplate \in [id : Nat, meta : Nat, status : AnyStatus] /\ NoTemplate.id = 0 /\ NoTemplate.meta = 0
        /\ NotAtWhatsApp \in [meta : Nat, status : AnyStatus] /\ NotAtWhatsApp.meta = 0
    BY DEF NoTemplate, NotAtWhatsApp, AnyStatus
  <1>3. handling \in [Requests -> TemplateRequest] /\ \A q \in Requests : handling[q].at = "none"
    BY <1>1 DEF TemplatesInit
  <1>4. TemplateTables
    <2>1. news \in Seq(News) /\ DOMAIN news = {}
      BY DEF TemplatesInit
    <2>2. apart \in BOOLEAN
      BY Zenon DEF TemplatesInit
    <2>3. madeRows \in Nat /\ madeRemote \in Nat /\ remote.meta <= madeRemote
      BY <1>2 DEF TemplatesInit
    <2> QED  BY <1>2, <2>1, <2>2, <2>3 DEF TemplatesInit, TemplateTables
  <1> QED  BY <1>2, <1>3, <1>4 DEF TemplatesInit, TemplatesInv, TemplateTypes, Relies, InTouch, Underway, ByRow

\* At rest the program and WhatsApp have the same template with the status that was
\* decided, whatever the order of creations, decisions, synchronizations and
\* deletions, unless requests crossed, a webhook came out of order, an answer was
\* lost or something was changed at WhatsApp since the last full synchronization.
THEOREM TheyAgreeAtRest == TemplatesSpec => []TemplatesAgree
  <1>1. TemplatesInv => TemplatesAgree
    <2> SUFFICES ASSUME TemplatesInv, ~apart, news = <<>>, \A q \in Requests : handling[q] = NoRequest
                 PROVE  /\ stored.meta = remote.meta /\ (stored = NoTemplate <=> remote = NotAtWhatsApp)
                        /\ remote.status # "DISABLED" /\ remote # NotAtWhatsApp => stored.status = remote.status
      BY DEF TemplatesAgree
    <2>1. InTouch
      BY DEF TemplatesInv, Underway, NoRequest
    <2>2. ~\E i \in DOMAIN news : TRUE
      OBVIOUS
    <2> QED  BY <2>1, <2>2, TablesIs DEF InTouch, LastWord
  <1>2. TemplatesInit => provider \in {"zernio", "meta"}
    BY DEF TemplatesInit
  <1>3. TemplatesInit => TemplatesInv
    BY TemplatesInitHolds
  <1>4. TemplatesInv /\ provider \in {"zernio", "meta"} /\ [TemplatesNext]_mtVars
          => TemplatesInv' /\ (provider \in {"zernio", "meta"})'
    BY TemplatesNextKeeps
  <1> QED  BY <1>1, <1>2, <1>3, <1>4, PTL DEF TemplatesSpec

-----------------------------------------------------------------------------
(* The types, and the limits that the actions keep by themselves *)

\* A request is sent again only below the limit, and asked again only after an answer.
TriesLimited ==
    \A i \in Invocations :
        /\ at[i] \in {"idle", "resolve", "query"} => requests[i] = 0
        /\ at[i] = "send" => requests[i] <= MaxRetries
        /\ at[i] \in {"sent", "again"} => requests[i] <= MaxRetries + 1
        /\ requests[i] <= MaxRetries + 2

LEMMA TriesOfOne ==
    ASSUME GatewayInv, TriesLimited, NEW i \in Invocations, NEW step \in Calls, NEW n \in Nat,
           at' = [at EXCEPT ![i] = step], requests' = [requests EXCEPT ![i] = n],
           step \in {"idle", "resolve", "query"} => n = 0, step = "send" => n <= MaxRetries,
           step \in {"sent", "again"} => n <= MaxRetries + 1, n <= MaxRetries + 2
    PROVE  TriesLimited'
  <1>1. ASSUME NEW j \in Invocations
        PROVE  IF j = i THEN at'[j] = step /\ requests'[j] = n ELSE at'[j] = at[j] /\ requests'[j] = requests[j]
    BY DEF GatewayInv, GatewayTypes
  <1> QED  BY <1>1 DEF TriesLimited

LEMMA TriesKeep ==
    ASSUME GatewayInv, TriesLimited, [GatewayNext]_gwVars
    PROVE  TriesLimited'
  <1>1. ASSUME NEW i \in Invocations
        PROVE  requests[i] \in Nat /\ requests = [requests EXCEPT ![i] = requests[i]] /\ MaxRetries \in Nat
    BY RetriesAssumption DEF GatewayInv, GatewayTypes
  <1>2. ASSUME NEW i \in Invocations, LookUp(i) PROVE TriesLimited'
    <2>1. requests' = [requests EXCEPT ![i] = 0] /\ 0 <= MaxRetries /\ 0 <= MaxRetries + 1 /\ 0 <= MaxRetries + 2
      BY <1>1, <1>2 DEF LookUp, TriesLimited
    <2>2. PICK step \in Calls : at' = [at EXCEPT ![i] = step]
      BY <1>2 DEF LookUp, Enter, Calls, Busy
    <2> QED  BY <2>1, <2>2, TriesOfOne
  <1>3. ASSUME NEW i \in Invocations, Record(i) \/ Die(i) \/ Unregistered(i) PROVE TriesLimited'
    <2>1. PICK step \in {"done", "record"} : at' = [at EXCEPT ![i] = step]
      BY <1>3 DEF Record, Die, Unregistered
    <2>2. requests' = [requests EXCEPT ![i] = requests[i]] /\ requests[i] <= MaxRetries + 2
      BY <1>1, <1>3 DEF Record, Die, Unregistered, TriesLimited
    <2>3. step \in Calls /\ step \notin {"idle", "resolve", "query", "send", "sent", "again"}
      BY DEF Calls, Busy
    <2> QED  BY <1>1, <2>1, <2>2, <2>3, TriesOfOne
  <1>4. ASSUME NEW i \in Invocations, Resolve(i) \/ Resolved(i) PROVE TriesLimited'
    <2>1. PICK step \in Calls : at' = [at EXCEPT ![i] = step]
      BY <1>4 DEF Resolve, Resolved, Calls, Busy
    <2>2. requests' = [requests EXCEPT ![i] = 0] /\ 0 <= MaxRetries /\ 0 <= MaxRetries + 1 /\ 0 <= MaxRetries + 2
      BY <1>1, <1>4 DEF Resolve, Resolved, TriesLimited
    <2> QED  BY <2>1, <2>2, TriesOfOne
  <1>5. ASSUME NEW i \in Invocations, Request(i) \/ PostJson(i) PROVE TriesLimited'
    <2>1. /\ requests' = [requests EXCEPT ![i] = requests[i] + 1] /\ at' = [at EXCEPT ![i] = "sent"]
          /\ requests[i] <= MaxRetries
      BY <1>5 DEF Request, PostJson, Send, TriesLimited
    <2>2. requests[i] + 1 \in Nat /\ requests[i] + 1 <= MaxRetries + 1 /\ requests[i] + 1 <= MaxRetries + 2
      BY <1>1, <2>1
    <2>3. "sent" \in Calls
      BY DEF Calls, Busy
    <2> QED  BY <2>1, <2>2, <2>3, TriesOfOne
  <1>6. ASSUME NEW i \in Invocations, Retry(i) PROVE TriesLimited'
    <2>1. PICK step \in {"send", "record"} :
            at' = [at EXCEPT ![i] = step] /\ (step = "send" => requests[i] < MaxRetries + 1)
      BY <1>6 DEF Retry
    <2>2. requests' = [requests EXCEPT ![i] = requests[i]] /\ requests[i] <= MaxRetries + 1
      BY <1>1, <1>6 DEF Retry, TriesLimited
    <2>3. requests[i] <= MaxRetries + 2 /\ (step = "send" => requests[i] <= MaxRetries)
      BY <1>1, <2>1, <2>2
    <2>4. step \in Calls /\ step \notin {"idle", "resolve", "query", "sent", "again"}
      BY DEF Calls, Busy
    <2> QED  BY <1>1, <2>1, <2>2, <2>3, <2>4, TriesOfOne
  <1>7. ASSUME NEW i \in Invocations, Posted(i) PROVE TriesLimited'
    <2>1. PICK step \in {"again", "record"} : at' = [at EXCEPT ![i] = step]
      BY <1>7 DEF Posted
    <2>2. requests' = [requests EXCEPT ![i] = requests[i]] /\ requests[i] <= MaxRetries + 1
      BY <1>1, <1>7 DEF Posted, TriesLimited
    <2>3. requests[i] <= MaxRetries + 2
      BY <1>1, <2>2
    <2>4. step \in Calls /\ step \notin {"idle", "resolve", "query", "send"}
      BY DEF Calls, Busy
    <2> QED  BY <1>1, <2>1, <2>2, <2>3, <2>4, TriesOfOne
  <1>8. ASSUME NEW i \in Invocations, AskAgain(i) PROVE TriesLimited'
    <2>1. /\ requests' = [requests EXCEPT ![i] = requests[i] + 1] /\ at' = [at EXCEPT ![i] = "record"]
          /\ requests[i] <= MaxRetries + 1
      BY <1>8 DEF AskAgain, TriesLimited
    <2>2. requests[i] + 1 \in Nat /\ requests[i] + 1 <= MaxRetries + 2
      BY <1>1, <2>1
    <2>3. "record" \in Calls
      BY DEF Calls, Busy
    <2> QED  BY <2>1, <2>2, <2>3, TriesOfOne
  <1>9. ASSUME UpsertN8nWorkflow \/ DeactivateN8nWorkflow \/ Invalidate \/ CacheExpires \/ UNCHANGED gwVars
        PROVE  TriesLimited'
    <2>1. at' = at /\ requests' = requests
      BY <1>9 DEF UpsertN8nWorkflow, DeactivateN8nWorkflow, Switch, Invalidate, CacheExpires, gwVars, exVars
    <2> QED  BY <2>1 DEF TriesLimited
  <1> QED  BY <1>2, <1>3, <1>4, <1>5, <1>6, <1>7, <1>8, <1>9 DEF GatewayNext

\* An id is of one row (the unique index).
IdsUnique == \A i, j \in MsgRows : msgRows[i].ext = msgRows[j].ext => i = j \/ msgRows[i].ext = NoId

LEMMA AppendIs ==
    ASSUME IdsUnique, DeliveryTypes, NEW r \in Outgoing, NEW ext \in Ids, NEW status \in Reported,
           ~HasRow(ext), msgRows' = Append(msgRows, NewRow(r, ext, status))
    PROVE  IdsUnique'
  <1>1. msgRows \in Seq(Row) /\ NewRow(r, ext, status).ext = ext
    BY NewRowIs DEF DeliveryTypes
  <1>2. MsgRows = 1..Len(msgRows) /\ MsgRows' = 1..(Len(msgRows) + 1) /\ Len(msgRows) \in Nat
    BY <1>1, NewRowIs, RowsAre, AppendProperties DEF MsgRows
  <1>3. \A i \in MsgRows' : IF i \in MsgRows THEN msgRows'[i] = msgRows[i]
                            ELSE i = Len(msgRows) + 1 /\ msgRows'[i].ext = ext
    BY <1>1, <1>2, NewRowIs, AppendProperties
  <1>4. ext # NoId => \A i \in MsgRows : msgRows[i].ext # ext
    BY DEF HasRow
  <1> QED  BY <1>3, <1>4 DEF IdsUnique

LEMMA GiveIdUnique ==
    ASSUME IdsUnique, DeliveryTypes, NEW i \in MsgRows, NEW ext \in Ids, NEW status \in Reported,
           msgRows[i].ext = NoId => ~HasRow(ext), msgRows' = WithStatus(GiveId(i, ext), ext, status)
    PROVE  IdsUnique'
  <1>1. /\ MsgRows' = MsgRows
        /\ \A j \in MsgRows : msgRows'[j].ext = msgRows[j].ext \/ (j = i /\ msgRows'[j].ext = ext)
    BY MarkedIs DEF MsgRows
  <1>2. CASE msgRows[i].ext = NoId
    <2>1. ext # NoId => \A j \in MsgRows : msgRows[j].ext # ext
      BY <1>2 DEF HasRow
    <2> QED  BY <1>1, <2>1 DEF IdsUnique
  <1>3. CASE msgRows[i].ext # NoId
    <2>1. GiveId(i, ext) = msgRows /\ msgRows \in Seq(Row)
      BY <1>3 DEF GiveId, DeliveryTypes
    <2>2. \A j \in MsgRows : msgRows'[j].ext = msgRows[j].ext
      BY <2>1, WithStatusIs DEF MsgRows
    <2> QED  BY <1>1, <2>2 DEF IdsUnique
  <1> QED  BY <1>2, <1>3

LEMMA EditUnique ==
    ASSUME IdsUnique, MsgRows' = MsgRows, \A j \in MsgRows : msgRows'[j].ext = msgRows[j].ext
    PROVE  IdsUnique'
  BY DEF IdsUnique

LEMMA IdsKeepUnique ==
    ASSUME DeliveryInv, IdsUnique, [DeliveryNext]_dvVars
    PROVE  IdsUnique'
  <1>1. /\ DeliveryTypes /\ msgRows \in Seq(Row)
        /\ \A r \in Outgoing : sending[r].id \in Ids /\ PlatformId(r) \in Ids /\ ProviderId(r) \in Ids
    BY IdsAre DEF DeliveryInv, DeliveryTypes, IdsKnow
  <1>2. ASSUME msgRows' = msgRows PROVE IdsUnique'
    BY <1>2 DEF IdsUnique, MsgRows
  <1>3. ASSUME NEW r \in Outgoing, InsertOutbound(r) PROVE IdsUnique'
    BY <1>1, <1>2, <1>3, AppendIs DEF InsertOutbound, Reported
  <1>4. ASSUME NEW r \in Outgoing, EchoApply(r) PROVE IdsUnique'
    <2>1. CASE hook[r].row = 0
      BY <1>1, <1>2, <1>4, <2>1, AppendIs DEF EchoApply, Reported
    <2>2. CASE hook[r].row # 0
      <3>1. hook[r].row \in MsgRows
        BY <2>2 DEF DeliveryInv, IdsKnow
      <3>2. CASE msgRows[hook[r].row].ext = NoId /\ HasRow(PlatformId(r))
        BY <1>2, <1>4, <2>2, <3>2 DEF EchoApply
      <3>3. CASE ~(msgRows[hook[r].row].ext = NoId /\ HasRow(PlatformId(r)))
        <4>1. msgRows' = WithStatus(GiveId(hook[r].row, PlatformId(r)), PlatformId(r), "delivered")
          BY <1>4, <2>2, <3>3 DEF EchoApply
        <4>2. "delivered" \in Reported
          BY DEF Reported
        <4> QED  BY <1>1, <3>1, <3>3, <4>1, <4>2, GiveIdUnique
      <3> QED  BY <3>2, <3>3
    <2> QED  BY <2>1, <2>2
  <1>5. ASSUME NEW r \in Outgoing, NEW status \in {"delivered", "read"}, Receipt(r, status)
        PROVE  IdsUnique'
    <2> DEFINE p == PlatformId(r)
               matches == FindRecentOutbound(r, p, 2)
               i == CHOOSE k \in matches : TRUE
    <2>1. \/ msgRows' = msgRows
          \/ \E ext \in {p, ProviderId(r)} : msgRows' = WithStatus(msgRows, ext, status)
          \/ ~HasRow(p) /\ matches # {} /\ msgRows' = WithStatus(GiveId(i, p), p, status)
      BY <1>5 DEF Receipt
    <2>2. status \in Reported
      BY DEF Reported
    <2>3. CASE \E ext \in {p, ProviderId(r)} : msgRows' = WithStatus(msgRows, ext, status)
      <3>1. PICK ext \in Ids : msgRows' = WithStatus(msgRows, ext, status)
        BY <1>1, <2>3
      <3> QED  BY <1>1, <2>2, <3>1, WithStatusIs, EditUnique DEF MsgRows
    <2>4. CASE ~HasRow(p) /\ matches # {} /\ msgRows' = WithStatus(GiveId(i, p), p, status)
      <3>1. i \in MsgRows
        <4>1. \A k \in matches : k \in MsgRows
          BY FoundIs
        <4> HIDE DEF matches
        <4> QED  BY <2>4, <4>1
      <3> HIDE DEF i, p
      <3> QED  BY <1>1, <2>2, <2>4, <3>1, GiveIdUnique DEF p
    <2> HIDE DEF p, i, matches
    <2> QED  BY <1>2, <2>1, <2>3, <2>4
  <1>6. ASSUME NEW r \in Outgoing, NEW status \in {"sent", "read"}, InsertHistorical(r, status)
        PROVE  IdsUnique'
    <2>1. status \in Reported
      BY DEF Reported
    <2>2. CASE ~HasRow(ProviderId(r))
      BY <1>1, <1>6, <2>1, <2>2, AppendIs DEF InsertHistorical
    <2>3. CASE HasRow(ProviderId(r))
      <3>1. msgRows' = [i \in MsgRows |->
                          IF msgRows[i].ext = ProviderId(r) /\ (status # "sent" \/ msgRows[i].status = "sent")
                          THEN [msgRows[i] EXCEPT !.status = status] ELSE msgRows[i]]
        BY <1>6, <2>3 DEF InsertHistorical
      <3>2. \A i \in MsgRows : msgRows[i] \in Row
        BY <1>1, RowsAre DEF MsgRows
      <3>3. \A i \in MsgRows : msgRows'[i].ext = msgRows[i].ext
        BY <3>1, <3>2 DEF Row
      <3>4. MsgRows' = MsgRows
        BY <3>1 DEF MsgRows
      <3> QED  BY <3>3, <3>4, EditUnique
    <2> QED  BY <2>2, <2>3
  <1>7. CASE MinutePasses
    <2>1. msgRows' = [i \in MsgRows |-> [msgRows[i] EXCEPT !.age = IF @ < 2 THEN @ + 1 ELSE 2]]
      BY <1>7 DEF MinutePasses
    <2>2. \A i \in MsgRows : msgRows[i] \in Row
      BY <1>1, RowsAre DEF MsgRows
    <2>3. \A i \in MsgRows : msgRows'[i].ext = msgRows[i].ext
      BY <2>1, <2>2 DEF Row
    <2>4. MsgRows' = MsgRows
      BY <2>1 DEF MsgRows
    <2> QED  BY <2>3, <2>4, EditUnique
  <1>8. ASSUME NEW r \in Outgoing,
               \/ (\E by \in {"ai", "agent"} : Ask(r, by)) \/ Provider(r) \/ DieSending(r) \/ PhoneWrites(r)
               \/ EchoMatch(r)
        PROVE  IdsUnique'
    <2>1. msgRows' = msgRows
      BY <1>8 DEF Ask, Provider, Accepted, Refused, DieSending, PhoneWrites, EchoMatch
    <2> QED  BY <1>2, <2>1
  <1>9. CASE UNCHANGED dvVars
    BY <1>2, <1>9 DEF dvVars
  <1> QED  BY <1>3, <1>4, <1>5, <1>6, <1>7, <1>8, <1>9 DEF DeliveryNext

\* The rows are numbered as they are made.
LEMMA NumbersKeep ==
    ASSUME TemplatesInv, stored.id <= madeRows, [TemplatesNext]_mtVars
    PROVE  stored'.id <= madeRows'
  <1>1. /\ stored \in [id : Nat, meta : Nat, status : AnyStatus] /\ madeRows \in Nat /\ NoTemplate.id = 0
        /\ stored.id \in Nat
    BY DEF TemplatesInv, TemplateTypes, TemplateTables, NoTemplate
  <1>2. ASSUME UNCHANGED <<stored, madeRows>> PROVE stored'.id <= madeRows'
    BY <1>2
  <1>3. ASSUME NEW meta, NEW status, Insert(meta, status) PROVE stored'.id <= madeRows'
    BY <1>1, <1>3 DEF Insert
  <1>4. ASSUME NEW id, DeleteRow(id), madeRows' = madeRows PROVE stored'.id <= madeRows'
    BY <1>1, <1>4 DEF DeleteRow
  <1>5. ASSUME NEW meta, NEW status, madeRows' = madeRows,
               stored' \in {stored, [stored EXCEPT !.meta = meta, !.status = status], [stored EXCEPT !.status = status]}
        PROVE  stored'.id <= madeRows'
    BY <1>1, <1>5
  <1>6. ASSUME NEW q \in Requests,
               CreateTemplate(q) \/ SubmitToZernio(q) \/ SubmitToMeta(q) \/ Webhook(q) \/ SyncTemplateStatus(q)
               \/ FetchTemplateStatus(q) \/ FetchAllTemplates(q) \/ DeleteTemplate(q) \/ DeleteRemote(q)
        PROVE  stored'.id <= madeRows'
    BY <1>2, <1>6 DEF CreateTemplate, SubmitToZernio, SubmitToMeta, Submit, Webhook, SyncTemplateStatus,
       FetchTemplateStatus, FetchAllTemplates, DeleteTemplate, DeleteRemote, NoRow
  <1>7. ASSUME NEW q \in Requests, Replace(q) \/ Undo(q) \/ DeleteStored(q) PROVE stored'.id <= madeRows'
    BY <1>4, <1>7 DEF Replace, Undo, DeleteStored
  <1>8. ASSUME NEW q \in Requests, InsertRow(q) PROVE stored'.id <= madeRows'
    BY <1>2, <1>3, <1>8 DEF InsertRow, NoRow
  <1>9. ASSUME NEW q \in Requests, StoreMetaId(q) \/ UpdateStatus(q) PROVE stored'.id <= madeRows'
    BY <1>5, <1>9 DEF StoreMetaId, UpdateStatus
  <1>10. ASSUME NEW q \in Requests, Merge(q) PROVE stored'.id <= madeRows'
    BY <1>3, <1>5, <1>10 DEF Merge
  <1>11. ASSUME NEW q \in Requests, Prune(q) PROVE stored'.id <= madeRows'
    BY <1>1, <1>11 DEF Prune
  <1>12. CASE Review \/ OtherEvent \/ ChangedAtWhatsApp \/ UNCHANGED mtVars
    BY <1>2, <1>12 DEF Review, OtherEvent, ChangedAtWhatsApp, NoRow, mtVars
  <1> QED  BY <1>6, <1>7, <1>8, <1>9, <1>10, <1>11, <1>12 DEF TemplatesNext

-----------------------------------------------------------------------------
\* The ranks of the cases are those of their last changes, a case has a topic, and a
\* case is opened only for a topic that was understood.
Ranked ==
    /\ \A c \in CaseSlots \ Born : freshest[c] = 0
    /\ \A c \in Born : freshest[c] \in Born
    /\ \A r \in Born : \E c \in Born : freshest[c] = r
TopicsKnown == \A c \in Born : cases[c].topic \in Topics \cup {"triage"}
AboutTopic == turn.at \in {"activate", "open"} => turn.said.about \in Topics \cup {"unbuilt"}

LEMMA FrontRanks ==
    ASSUME freshest \in [CaseSlots -> Nat], Ranked, NEW k \in 0..MaxCases, Born = 1..k, NEW c \in CaseSlots,
           c \in Born \/ c = k + 1, freshest' = Front(c), Born' = Born \cup {c}
    PROVE  Ranked'
  <1>1. PICK rank \in Nat : rank = IF c \in Born THEN freshest[c] ELSE k + 1
    BY MaxCasesAssumption
  <1>2. PICK m \in Nat : Born' = 1..m /\ m = (IF c \in Born THEN k ELSE k + 1) /\ m <= MaxCases
    BY MaxCasesAssumption DEF CaseSlots
  <1>3. rank \in 1..m /\ c \in 1..m
    BY <1>1, <1>2 DEF Ranked
  <1>4. freshest'[c] = 1
    BY DEF Front
  <1>5. ASSUME NEW d \in CaseSlots, d # c
        PROVE  freshest'[d] = IF d \in Born /\ freshest[d] < rank THEN freshest[d] + 1 ELSE freshest[d]
    <2>1. freshest[d] \in Nat /\ (d \in Born => freshest[d] \in 1..k) /\ (d \notin Born => freshest[d] = 0)
      BY DEF Ranked
    <2>2. freshest'[d] = IF freshest[d] # 0 /\ (freshest[c] = 0 \/ freshest[d] < freshest[c])
                         THEN freshest[d] + 1 ELSE freshest[d]
      BY <1>5 DEF Front
    <2>3. IF c \in Born THEN freshest[c] = rank /\ freshest[c] # 0 ELSE freshest[c] = 0 /\ rank = k + 1
      BY <1>1 DEF Ranked
    <2> QED  BY <2>1, <2>2, <2>3
  <1>6. \A d \in CaseSlots \ Born' : freshest'[d] = 0
    BY <1>5 DEF Ranked
  <1>7. ASSUME NEW d \in Born' PROVE freshest'[d] \in Born'
    <2>1. CASE d = c
      BY <1>2, <1>3, <1>4, <2>1
    <2>2. CASE d # c
      <3>1. d \in Born /\ d \in CaseSlots /\ freshest[d] \in 1..k
        BY <2>2 DEF Ranked, Born
      <3> QED  BY <1>2, <1>3, <1>5, <2>2, <3>1
    <2> QED  BY <2>1, <2>2
  <1>8. ASSUME NEW r \in Born' PROVE \E d \in Born' : freshest'[d] = r
    <2>1. r \in 1..m /\ 1..k \subseteq 1..m
      BY <1>2
    <2>2. CASE r = 1
      BY <1>4, <2>2
    <2>3. CASE r # 1 /\ r <= rank
      <3>1. r - 1 \in 1..k
        BY <1>1, <1>2, <1>3, <2>1, <2>3
      <3>2. PICK d \in Born : freshest[d] = r - 1
        BY <3>1 DEF Ranked
      <3>3. d \in CaseSlots /\ d # c /\ freshest[d] < rank
        BY <1>1, <2>1, <2>3, <3>2 DEF Born
      <3>4. freshest'[d] = r
        BY <1>5, <2>1, <3>2, <3>3
      <3> QED  BY <3>4
    <2>4. CASE r > rank
      <3>1. r \in 1..k /\ c \in Born
        BY <1>1, <1>2, <1>3, <2>1, <2>4
      <3>2. PICK d \in Born : freshest[d] = r
        BY <3>1 DEF Ranked
      <3>3. d \in CaseSlots /\ d # c /\ ~(freshest[d] < rank)
        BY <1>1, <1>3, <2>1, <2>4, <3>1, <3>2 DEF Born
      <3>4. freshest'[d] = r
        BY <1>5, <3>2, <3>3
      <3> QED  BY <3>4
    <2> QED  BY <1>3, <2>1, <2>2, <2>3, <2>4
  <1> QED  BY <1>6, <1>7, <1>8 DEF Ranked

\* What a step writes: nothing new, one case, or a case in the next slot.
Same(d) == cases'[d].topic = cases[d].topic /\ (cases'[d].status = "none" <=> cases[d].status = "none")
Writes ==
    \/ freshest' = freshest /\ \A d \in CaseSlots : Same(d)
    \/ \E c \in Born : freshest' = Front(c) /\ \A d \in CaseSlots : Same(d)
    \/ /\ Unborns # {} /\ freshest' = Front(NextSlot) /\ \A d \in CaseSlots : d # NextSlot => Same(d)
       /\ cases'[NextSlot].topic \in Topics \cup {"triage"} /\ cases'[NextSlot].status # "none"

LEMMA WritesKeep ==
    ASSUME RoutingInv, RoutingInv', Ranked, TopicsKnown, Writes
    PROVE  Ranked' /\ TopicsKnown'
  <1>1. /\ \A c \in CaseSlots : c \in Born <=> cases[c].status # "none"
        /\ Born \subseteq CaseSlots /\ freshest \in [CaseSlots -> Nat]
    BY BornIs DEF RoutingInv, RoutingTypes
  <1>2. (\A c \in CaseSlots : c \in Born' <=> cases'[c].status # "none") /\ Born' \subseteq CaseSlots
    <2>1. RoutingTypes' /\ SlotsFill'
      BY DEF RoutingInv
    <2>2. Unborn.status = "none"
      BY CaseIs
    <2> QED  BY <2>1, <2>2 DEF SlotsFill, Born
  <1>3. PICK k \in 0..MaxCases : Born = 1..k
    BY DEF RoutingInv, SlotsFill
  <1>4. CASE freshest' = freshest /\ \A d \in CaseSlots : Same(d)
    <2>1. Born' = Born
      BY <1>1, <1>2, <1>4 DEF Same
    <2> QED  BY <1>1, <1>4, <2>1 DEF Ranked, TopicsKnown, Same
  <1>5. ASSUME NEW c \in Born, freshest' = Front(c), \A d \in CaseSlots : Same(d)
        PROVE  Ranked' /\ TopicsKnown'
    <2>1. Born' = Born /\ Born' = Born \cup {c} /\ c \in CaseSlots
      BY <1>1, <1>2, <1>5 DEF Same
    <2>2. TopicsKnown'
      BY <1>1, <1>5, <2>1 DEF TopicsKnown, Same
    <2> QED  BY <1>1, <1>3, <1>5, <2>1, <2>2, FrontRanks
  <1>6. CASE /\ Unborns # {} /\ freshest' = Front(NextSlot) /\ \A d \in CaseSlots : d # NextSlot => Same(d)
             /\ cases'[NextSlot].topic \in Topics \cup {"triage"} /\ cases'[NextSlot].status # "none"
    <2>1. PICK c \in CaseSlots : c = NextSlot /\ c = k + 1
      <3>1. Cardinality(1..k) = k
        BY FS_Interval
      <3> QED  BY <1>3, <1>6, <3>1, NextSlotIs DEF RoutingInv, NextSlot
    <2>2. Born' = Born \cup {c}
      BY <1>1, <1>2, <1>6, <2>1 DEF Same
    <2>3. TopicsKnown'
      BY <1>1, <1>6, <2>1, <2>2 DEF TopicsKnown, Same
    <2> QED  BY <1>1, <1>3, <1>6, <2>1, <2>2, <2>3, FrontRanks
  <1> QED  BY <1>4, <1>5, <1>6 DEF Writes

LEMMA WritesOne ==
    ASSUME RoutingInv, NEW c \in Born, NEW row \in Case, Write(c, row), row.topic = cases[c].topic,
           row.status # "none"
    PROVE  Writes
  <1>1. c \in CaseSlots /\ cases[c].status # "none"
    BY BornIs DEF RoutingInv
  <1>2. freshest' = Front(c) /\ cases'[c] = row /\ \A d \in CaseSlots : d # c => cases'[d] = cases[d]
    BY <1>1, WriteIs DEF RoutingInv, Write
  <1> QED  BY <1>1, <1>2 DEF Writes, Same

LEMMA WritesNext ==
    ASSUME RoutingInv, Unborns # {}, NEW row \in Case, Write(NextSlot, row),
           row.topic \in Topics \cup {"triage"}, row.status # "none"
    PROVE  Writes
  <1>1. NextSlot \in CaseSlots
    BY NextSlotIs DEF RoutingInv
  <1>2. /\ freshest' = Front(NextSlot) /\ cases'[NextSlot] = row
        /\ \A d \in CaseSlots : d # NextSlot => cases'[d] = cases[d]
    BY <1>1, WriteIs DEF RoutingInv, Write
  <1> QED  BY <1>2 DEF Writes, Same

LEMMA WritesNothing ==
    ASSUME UNCHANGED <<cases, freshest>>
    PROVE  Writes
  BY DEF Writes, Same

LEMMA HandOverWrites ==
    ASSUME NEW c, NEW row \in Case, HandOver(c, row) \/ Pool(c, row)
    PROVE  \E new \in Case : Write(c, new) /\ new.topic = row.topic /\ new.status \in {row.status, "HUMAN_ACTIVE"}
  <1>1. CASE Pool(c, row)
    <2>1. PICK new \in Case : new = [row EXCEPT !.enabled = FALSE, !.row = TRUE]
      BY DEF Case
    <2>2. new.topic = row.topic /\ new.status = row.status
      BY <2>1 DEF Case
    <2> QED  BY <1>1, <2>1, <2>2 DEF Pool
  <1>2. CASE HandOver(c, row) /\ ~Pool(c, row)
    <2>1. PICK new \in Case : new = [row EXCEPT !.enabled = FALSE, !.row = TRUE, !.owned = TRUE,
                                                !.status = "HUMAN_ACTIVE"]
      BY DEF Case, CaseStatuses, Human
    <2>2. new.topic = row.topic /\ new.status = "HUMAN_ACTIVE"
      BY <2>1 DEF Case
    <2> QED  BY <1>2, <2>1, <2>2 DEF HandOver
  <1> QED  BY <1>1, <1>2

LEMMA HandsOverOne ==
    ASSUME RoutingInv, NEW c \in Born, NEW row \in Case, HandOver(c, row), row.topic = cases[c].topic,
           row.status # "none"
    PROVE  Writes
  <1>1. PICK new \in Case : Write(c, new) /\ new.topic = row.topic /\ new.status \in {row.status, "HUMAN_ACTIVE"}
    BY HandOverWrites
  <1> QED  BY <1>1, WritesOne

LEMMA MovedTopic ==
    ASSUME NEW row \in Case, NEW status \in CaseStatuses
    PROVE  Moved(row, status) \in Case /\ Moved(row, status).topic = row.topic /\ Moved(row, status).status = status
  BY DEF Moved, Case

LEMMA EscalateWrites ==
    ASSUME RoutingInv, NEW c \in Born, EscalateExisting(c)
    PROVE  Writes
  <1>1. CASE cases[c].row
    BY <1>1, WritesNothing DEF EscalateExisting
  <1>2. CASE ~cases[c].row
    <2>1. cases[c] \in Case /\ cases[c].status # "none" /\ "ESCALATED" \in CaseStatuses
      BY BornIs DEF RoutingInv, RoutingTypes, CaseStatuses, Human
    <2>2. PICK row \in Case : /\ row = IF cases[c].status \in Human THEN cases[c] ELSE Moved(cases[c], "ESCALATED")
                              /\ row.topic = cases[c].topic /\ row.status # "none"
      BY <2>1, MovedTopic
    <2>3. HandOver(c, row)
      BY <1>2, <2>2 DEF EscalateExisting
    <2> QED  BY <2>2, <2>3, HandsOverOne
  <1> QED  BY <1>1, <1>2

LEMMA TriageWrites ==
    ASSUME RoutingInv, Unborns # {}, SendToTriage \/ SendToDepartment
    PROVE  Writes
  <1>1. Triage \in Case /\ Triage.status = "ESCALATED"
    BY CaseIs
  <1>2. Triage.topic = "triage"
    BY DEF Triage, Newborn, Unborn
  <1>3. PICK new \in Case : /\ Write(NextSlot, new) /\ new.topic = Triage.topic
                            /\ new.status \in {Triage.status, "HUMAN_ACTIVE"}
    BY <1>1, HandOverWrites DEF SendToTriage, SendToDepartment
  <1> QED  BY <1>1, <1>2, <1>3, WritesNext

-----------------------------------------------------------------------------
(* What the steps of a batch write *)

LEMMA StatusesAre ==
    /\ {"ACTIVE", "WAITING_USER", "HUMAN_ACTIVE", "ESCALATED", "COMPLETED", "CANCELLED", "EXPIRED", "PAUSED", "NEW"}
         \subseteq CaseStatuses
    /\ Automated \subseteq CaseStatuses \ {"none"}
  BY DEF CaseStatuses, Automated, Human, Terminal

LEMMA GatesWrite ==
    ASSUME RoutingInv, Gates
    PROVE  Writes
  <1>1. Served \in {0} \cup Born /\ Born \subseteq CaseSlots
    BY ServedIs, BornIs DEF RoutingInv
  <1>2. \/ UNCHANGED <<cases, freshest>>
        \/ cases' = [cases EXCEPT ![Served].enabled = FALSE] /\ freshest' = freshest
        \/ Served # 0 /\ Write(Served, Moved(cases[Served], "EXPIRED"))
    BY DEF Gates
  <1>3. CASE cases' = [cases EXCEPT ![Served].enabled = FALSE] /\ freshest' = freshest
    <2>1. \A d \in CaseSlots : cases[d] \in Case
      BY DEF RoutingInv, RoutingTypes
    <2>2. ASSUME NEW d \in CaseSlots PROVE Same(d)
      <3>1. cases'[d] = cases[d] \/ cases'[d] = [cases[d] EXCEPT !.enabled = FALSE]
        BY <1>3 DEF RoutingInv, RoutingTypes
      <3> QED  BY <2>1, <3>1 DEF Same, Case
    <2> QED  BY <1>3, <2>2 DEF Writes
  <1>4. CASE Served # 0 /\ Write(Served, Moved(cases[Served], "EXPIRED"))
    <2>1. PICK c \in Born : c = Served /\ cases[c] \in Case
      BY <1>1, <1>4 DEF RoutingInv, RoutingTypes
    <2> QED  BY <1>4, <2>1, MovedTopic, StatusesAre, WritesOne
  <1> QED  BY <1>2, <1>3, <1>4, WritesNothing

LEMMA RequestHumanWrites ==
    ASSUME RoutingInv, RequestHuman
    PROVE  Writes
  <1>1. turn.on \in {0} \cup Born /\ Unborns # {}
    BY DEF RoutingInv, TurnKnows, SlotsFill, RequestHuman
  <1> QED  BY <1>1, EscalateWrites, TriageWrites DEF RequestHuman

LEMMA PauseActiveWrites ==
    ASSUME RoutingInv, PauseActive
    PROVE  Writes
  <1>1. CASE turn.pause # 0
    <2>1. PICK c \in Born : c = turn.pause /\ cases[c] \in Case
      BY <1>1, BornIs DEF RoutingInv, RoutingTypes, TurnKnows
    <2>2. PICK row \in Case : row = [cases[c] EXCEPT !.status = "PAUSED"]
      BY <2>1, StatusesAre DEF Case
    <2>3. row.topic = cases[c].topic /\ row.status = "PAUSED" /\ Write(c, row)
      BY <1>1, <2>1, <2>2 DEF Case, PauseActive
    <2> QED  BY <2>3, WritesOne
  <1>2. CASE turn.pause = 0
    BY <1>2, WritesNothing DEF PauseActive
  <1> QED  BY <1>1, <1>2

LEMMA OpenCaseWrites ==
    ASSUME RoutingInv, AboutTopic, OpenCase
    PROVE  Writes
  <1>1. Unborns # {} /\ turn.said.about \in Topics \cup {"unbuilt"}
    BY DEF RoutingInv, SlotsFill, AboutTopic, OpenCase
  <1>2. CASE turn.resume = 0 /\ turn.said.about = "unbuilt" /\ SendToTriage
    BY <1>1, <1>2, TriageWrites
  <1>3. CASE turn.resume = 0 /\ turn.said.about # "unbuilt" /\ Write(NextSlot, Newborn(turn.said.about))
    <2>1. PICK topic \in Topics : topic = turn.said.about
      BY <1>1, <1>3
    <2>2. Newborn(topic) \in Case /\ Newborn(topic).status = "NEW"
      BY CaseIs DEF Abouts
    <2>3. Newborn(topic).topic = topic
      BY DEF Newborn, Unborn
    <2> QED  BY <1>1, <1>3, <2>1, <2>2, <2>3, WritesNext
  <1>4. CASE turn.resume # 0 /\ UNCHANGED <<cases, freshest>>
    BY <1>4, WritesNothing
  <1> QED  BY <1>2, <1>3, <1>4 DEF OpenCase

LEMMA PaymentReportedWrites ==
    ASSUME RoutingInv, PaymentReported
    PROVE  Writes
  <1> DEFINE a == turn.active
             closes == a # 0 /\ cases[a].topic = "support"
  <1>1. turn.on \in Born /\ Born \subseteq CaseSlots /\ a \in {0} \cup Born /\ turn.on \in CaseSlots
    BY BornIs DEF RoutingInv, TurnKnows, PaymentReported
  <1>2. \A d \in CaseSlots : cases[d] \in Case /\ (d \in Born => cases[d].status # "none")
    BY BornIs DEF RoutingInv, RoutingTypes
  <1>3. PICK closed : /\ closed = IF closes THEN [cases EXCEPT ![a] = Moved(cases[a], "COMPLETED")] ELSE cases
                      /\ cases' = [closed EXCEPT ![turn.on].due = FALSE]
    BY DEF PaymentReported
  <1>4. ASSUME NEW d \in CaseSlots
        PROVE  /\ closed[d] \in Case /\ closed[d].topic = cases[d].topic
               /\ closed[d].status = "none" <=> cases[d].status = "none"
    <2>1. closed[d] = cases[d] \/ (d \in Born /\ closed[d] = Moved(cases[d], "COMPLETED"))
      BY <1>1, <1>3 DEF RoutingInv, RoutingTypes
    <2>2. "COMPLETED" \in CaseStatuses /\ cases[d] \in Case
      BY <1>2, StatusesAre
    <2>3. PICK moved \in Case : /\ moved = Moved(cases[d], "COMPLETED")
                                /\ moved.topic = cases[d].topic /\ moved.status = "COMPLETED"
      BY <2>2, MovedTopic
    <2> QED  BY <1>2, <2>1, <2>3
  <1>5. ASSUME NEW d \in CaseSlots PROVE Same(d)
    <2>1. DOMAIN closed = CaseSlots
      BY <1>3 DEF RoutingInv, RoutingTypes
    <2>2. cases'[d] = closed[d] \/ cases'[d] = [closed[d] EXCEPT !.due = FALSE]
      BY <1>3, <2>1
    <2> QED  BY <1>4, <2>2 DEF Same, Case
  <1>6. freshest' = Front(turn.on)
    BY DEF PaymentReported
  <1> QED  BY <1>1, <1>5, <1>6 DEF Writes

LEMMA PaymentShownWrites ==
    ASSUME RoutingInv, PaymentShown
    PROVE  Writes
  <1>1. PICK c \in Born : c = turn.on /\ c \in CaseSlots /\ cases[c] \in Case /\ cases[c].status # "none"
    BY BornIs DEF RoutingInv, RoutingTypes, TurnKnows, PaymentShown
  <1>2. CASE cases[c].row
    <2>1. cases' = [cases EXCEPT ![c].enabled = FALSE] /\ freshest' = freshest
      BY <1>1, <1>2 DEF PaymentShown
    <2>2. ASSUME NEW d \in CaseSlots PROVE Same(d)
      <3>1. cases'[d] = cases[d] \/ cases'[d] = [cases[d] EXCEPT !.enabled = FALSE]
        BY <2>1 DEF RoutingInv, RoutingTypes
      <3>2. cases[d] \in Case
        BY DEF RoutingInv, RoutingTypes
      <3> QED  BY <3>1, <3>2 DEF Same, Case
    <2> QED  BY <2>1, <2>2 DEF Writes
  <1>3. CASE ~cases[c].row
    <2>1. PICK free \in BOOLEAN :
             Write(c, [Moved(cases[c], IF free \/ cases[c].status = "HUMAN_ACTIVE"
                                       THEN "HUMAN_ACTIVE" ELSE "ESCALATED")
                        EXCEPT !.enabled = FALSE, !.row = TRUE, !.owned = @ \/ free])
      BY <1>1, <1>3 DEF PaymentShown
    <2>2. PICK status \in {"HUMAN_ACTIVE", "ESCALATED"} :
             status = IF free \/ cases[c].status = "HUMAN_ACTIVE" THEN "HUMAN_ACTIVE" ELSE "ESCALATED"
      OBVIOUS
    <2>3. PICK moved \in Case : /\ moved = Moved(cases[c], status)
                                /\ moved.topic = cases[c].topic /\ moved.status = status
      <3>1. status \in CaseStatuses
        BY StatusesAre
      <3> QED  BY <1>1, <3>1, MovedTopic
    <2>4. PICK own \in BOOLEAN : own = (moved.owned \/ free)
      OBVIOUS
    <2>5. PICK row \in Case : row = [moved EXCEPT !.enabled = FALSE, !.row = TRUE, !.owned = own]
      BY DEF Case
    <2>6. row.topic = cases[c].topic /\ row.status # "none"
      BY <2>2, <2>3, <2>5 DEF Case
    <2>7. Write(c, row)
      BY <2>1, <2>2, <2>3, <2>4, <2>5 DEF Case
    <2> QED  BY <2>6, <2>7, WritesOne
  <1> QED  BY <1>2, <1>3

LEMMA AdvanceWrites ==
    ASSUME RoutingInv, Advance
    PROVE  Writes
  <1>1. PICK c \in Born : c = turn.on /\ cases[c] \in Case
    BY BornIs DEF RoutingInv, RoutingTypes, TurnKnows, Advance
  <1>2. ASSUME NEW status \in {"WAITING_USER", "COMPLETED"}, Write(c, Moved(cases[c], status)) PROVE Writes
    BY <1>1, <1>2, MovedTopic, StatusesAre, WritesOne
  <1>3. PICK moved \in Case : /\ moved = Moved(cases[c], "ESCALATED")
                              /\ moved.topic = cases[c].topic /\ moved.status = "ESCALATED"
    BY <1>1, MovedTopic, StatusesAre
  <1>4. CASE HandOver(c, Moved(cases[c], "ESCALATED"))
    BY <1>3, <1>4, HandsOverOne
  <1>5. CASE Write(c, [Moved(cases[c], "ESCALATED") EXCEPT !.enabled = FALSE])
    <2>1. PICK row \in Case : row = [moved EXCEPT !.enabled = FALSE]
      BY DEF Case
    <2>2. row.topic = cases[c].topic /\ row.status # "none"
      BY <1>3, <2>1 DEF Case
    <2> QED  BY <1>3, <1>5, <2>1, <2>2, WritesOne
  <1> QED  BY <1>1, <1>2, <1>4, <1>5 DEF Advance

LEMMA FallbackWrites ==
    ASSUME RoutingInv, Fallback
    PROVE  Writes
  <1>1. FindActive \in {0} \cup Born
    BY FindActiveIs
  <1> QED  BY <1>1, EscalateWrites, TriageWrites, WritesNothing DEF Fallback

LEMMA AgentWritesOne ==
    ASSUME RoutingInv, NEW c \in CaseSlots, TakeCase(c) \/ HandBack(c) \/ CloseCase(c) \/ ScheduleCase(c)
    PROVE  Writes
  <1>1. c \in Born /\ cases[c] \in Case
    BY OpenIs DEF TakeCase, HandBack, CloseCase, ScheduleCase
  <1>2. PICK status \in {"HUMAN_ACTIVE", "COMPLETED", "WAITING_USER"} \cup Automated :
          \/ Write(c, [Moved(cases[c], status) EXCEPT !.owned = TRUE, !.enabled = FALSE])
          \/ Write(c, [Moved(cases[c], status) EXCEPT !.enabled = TRUE, !.owned = FALSE])
          \/ Write(c, [Moved(cases[c], status) EXCEPT !.due = FALSE])
          \/ Write(c, [Moved(cases[c], status) EXCEPT !.schedule = "set", !.enabled = FALSE])
    BY DEF TakeCase, HandBack, CloseCase, ScheduleCase
  <1>3. PICK moved \in Case : moved = Moved(cases[c], status) /\ moved.topic = cases[c].topic /\ moved.status = status
    BY <1>1, MovedTopic, StatusesAre
  <1>4. PICK row \in {[moved EXCEPT !.owned = TRUE, !.enabled = FALSE], [moved EXCEPT !.enabled = TRUE, !.owned = FALSE],
                      [moved EXCEPT !.due = FALSE], [moved EXCEPT !.schedule = "set", !.enabled = FALSE]} : Write(c, row)
    BY <1>2, <1>3
  <1>5. row \in Case /\ row.topic = moved.topic /\ row.status = moved.status
    BY <1>4 DEF Case
  <1>6. status # "none"
    BY StatusesAre
  <1> QED  BY <1>1, <1>3, <1>4, <1>5, <1>6, WritesOne

LEMMA RemindWrites ==
    ASSUME RoutingInv, Remind
    PROVE  Writes
  <1>1. PICK c \in Born : c = reminder /\ cases[c] \in Case /\ cases[c].status # "none"
    BY BornIs DEF RoutingInv, RoutingTypes, TurnKnows, Remind
  <1>2. PICK row \in Case : row = [cases[c] EXCEPT !.schedule = "noted"]
    BY <1>1 DEF Case
  <1>3. row.topic = cases[c].topic /\ row.status = cases[c].status /\ Write(c, row)
    BY <1>1, <1>2 DEF Case, Remind
  <1> QED  BY <1>1, <1>3, WritesOne

LEMMA DayWrites ==
    ASSUME RoutingInv, DayPasses
    PROVE  Writes
  <1>1. \A d \in CaseSlots : cases[d] \in Case
    BY DEF RoutingInv, RoutingTypes
  <1>2. ASSUME NEW d \in CaseSlots PROVE Same(d)
    <2>1. cases'[d] = cases[d] \/ cases'[d] = [cases[d] EXCEPT !.due = TRUE]
      BY DEF DayPasses
    <2> QED  BY <1>1, <2>1 DEF Same, Case
  <1> QED  BY <1>2 DEF Writes, DayPasses

LEMMA RoutingWrites ==
    ASSUME RoutingInv, AboutTopic, [RoutingNext]_mrVars
    PROVE  Writes
  <1>1. ASSUME (\E said \in Interpretations : ReceiveBatch(said)) \/ Arbitrate \/ Deliver \/ Throw \/ AgentWrites
               \/ (\E c \in CaseSlots : ReminderDue(c)) \/ UNCHANGED mrVars
        PROVE  Writes
    <2>1. UNCHANGED <<cases, freshest>>
      BY <1>1 DEF ReceiveBatch, Arbitrate, Deliver, Throw, AgentWrites, ReminderDue, mrVars
    <2> QED  BY <2>1, WritesNothing
  <1>2. CASE Clarify
    <2>1. Unborns # {}
      BY <1>2 DEF RoutingInv, SlotsFill, Clarify
    <2> QED  BY <1>2, <2>1, TriageWrites, WritesNothing DEF Clarify
  <1> QED  BY <1>1, <1>2, GatesWrite, RequestHumanWrites, PauseActiveWrites, OpenCaseWrites, PaymentReportedWrites,
              PaymentShownWrites, AdvanceWrites, FallbackWrites, AgentWritesOne, RemindWrites, DayWrites
           DEF RoutingNext, AgentActs

\* A topic is opened only after the arbitration has found that the batch is about one.
LEMMA AboutTopicKeeps ==
    ASSUME RoutingInv, AboutTopic, [RoutingNext]_mrVars
    PROVE  AboutTopic'
  <1>1. turn \in Turn
    BY DEF RoutingInv, RoutingTypes
  <1>2. ASSUME turn'.at = turn.at, turn'.said = turn.said PROVE AboutTopic'
    BY <1>2 DEF AboutTopic
  <1>3. ASSUME turn'.at \notin {"activate", "open"} PROVE AboutTopic'
    BY <1>3 DEF AboutTopic
  <1>4. CASE Arbitrate
    <2>1. turn'.at = Decision.at /\ turn'.said = turn.said
      BY <1>1, <1>4 DEF Arbitrate, Turn
    <2>2. Decision.at \in {"activate", "open"} => turn.said.about \in Topics \cup {"unbuilt"}
      BY DEF Decision, Topics
    <2> QED  BY <2>1, <2>2 DEF AboutTopic
  <1>5. CASE PauseActive
    <2>1. turn'.said = turn.said /\ turn.at = "activate"
      BY <1>1, <1>5 DEF PauseActive, Turn
    <2> QED  BY <2>1 DEF AboutTopic
  <1>6. ASSUME (\E said \in Interpretations : ReceiveBatch(said)) \/ Gates \/ Clarify \/ RequestHuman \/ OpenCase
               \/ PaymentReported \/ PaymentShown \/ Advance \/ Deliver \/ Throw \/ Fallback
        PROVE  AboutTopic'
    <2>1. turn'.at \notin {"activate", "open"}
      BY <1>1, <1>6 DEF ReceiveBatch, Gates, Clarify, RequestHuman, OpenCase, PaymentReported, PaymentShown, Advance,
         Deliver, Throw, Fallback, Quiet, Reply, Turn, NoTurn
    <2> QED  BY <1>3, <2>1
  <1>7. ASSUME AgentActs \/ AgentWrites \/ Remind PROVE AboutTopic'
    <2>1. turn'.at = turn.at /\ turn'.said = turn.said
      BY <1>1, <1>7 DEF AgentActs, TakeCase, HandBack, CloseCase, ScheduleCase, Acted, AgentWrites, Remind, Turn
    <2> QED  BY <1>2, <2>1
  <1>8. ASSUME DayPasses \/ (\E c \in CaseSlots : ReminderDue(c)) \/ UNCHANGED mrVars PROVE AboutTopic'
    <2>1. turn' = turn
      BY <1>8 DEF DayPasses, ReminderDue, mrVars
    <2> QED  BY <1>2, <2>1
  <1> QED  BY <1>4, <1>5, <1>6, <1>7, <1>8 DEF RoutingNext

-----------------------------------------------------------------------------
\* The conversation points to a case that there is.
PointsToBorn == pointer \in {0} \cup Born

LEMMA BornStay ==
    ASSUME RoutingInv, RoutingInv', Writes
    PROVE  Born \subseteq Born' /\ \A c \in CaseSlots : cases'[c].status # "none" => c \in Born'
  <1>1. /\ \A c \in CaseSlots : c \in Born <=> cases[c].status # "none"
        /\ Born \subseteq CaseSlots
    BY BornIs DEF RoutingInv
  <1>2. \A c \in CaseSlots : cases'[c].status # "none" => c \in Born'
    BY CaseIs DEF Born
  <1>3. ASSUME NEW c \in Born PROVE cases'[c].status # "none"
    BY <1>1, <1>3 DEF Writes, Same
  <1> QED  BY <1>1, <1>2, <1>3

LEMMA PointerKeeps ==
    ASSUME RoutingInv, RoutingInv', PointsToBorn, AboutTopic, [RoutingNext]_mrVars
    PROVE  PointsToBorn'
  <1>1. Born \subseteq Born' /\ \A c \in CaseSlots : cases'[c].status # "none" => c \in Born'
    BY BornStay, RoutingWrites
  <1>2. ASSUME NEW c \in Born, pointer' \in {0, c, pointer} PROVE PointsToBorn'
    BY <1>1, <1>2 DEF PointsToBorn
  <1>3. ASSUME pointer' \in {0, pointer} PROVE PointsToBorn'
    BY <1>1, <1>3 DEF PointsToBorn
  <1>4. ASSUME NEW c \in Born, EscalateExisting(c) PROVE PointsToBorn'
    <2>1. pointer' \in {0, c, pointer}
      BY <1>4 DEF EscalateExisting, HandOver, Pool
    <2> QED  BY <1>2, <2>1
  <1>5. ASSUME Unborns # {}, SendToTriage \/ SendToDepartment PROVE PointsToBorn'
    <2>1. pointer' \in {0, NextSlot} /\ cases'[NextSlot].status \in Human /\ NextSlot \in CaseSlots
      BY <1>5, TriageIs, NextSlotIs DEF RoutingInv
    <2> QED  BY <1>1, <2>1 DEF PointsToBorn, Human
  <1>6. turn.at \in {"clarify", "human", "open"} => Unborns # {}
    BY DEF RoutingInv, SlotsFill
  <1>7. {turn.on, turn.resume} \subseteq {0} \cup Born /\ (turn.at \in {"receipt", "advance"} => turn.on # 0)
    BY DEF RoutingInv, TurnKnows
  <1>8. CASE Clarify \/ RequestHuman \/ Fallback
    <2>1. FindActive \in {0} \cup Born
      BY FindActiveIs
    <2> QED  BY <1>3, <1>4, <1>5, <1>6, <1>7, <1>8, <2>1 DEF Clarify, RequestHuman, Fallback
  <1>9. CASE OpenCase
    <2>1. CASE SendToTriage
      BY <1>5, <1>6, <1>9, <2>1 DEF OpenCase
    <2>2. CASE turn.resume # 0 /\ pointer' = turn.resume
      BY <1>2, <1>7, <2>2
    <2>3. CASE turn.resume = 0 /\ pointer' = NextSlot /\ Write(NextSlot, Newborn(turn.said.about))
      <3>1. turn.said.about \in Abouts /\ NextSlot \in CaseSlots
        BY <1>6, <1>9, NextSlotIs DEF RoutingInv, AboutTopic, Abouts, OpenCase
      <3>2. Newborn(turn.said.about).status = "NEW"
        BY <3>1, CaseIs
      <3>3. cases'[NextSlot].status = "NEW"
        BY <2>3, <3>1, <3>2 DEF Write, RoutingInv, RoutingTypes
      <3> QED  BY <1>1, <2>3, <3>1, <3>3 DEF PointsToBorn
    <2> QED  BY <1>9, <2>1, <2>2, <2>3 DEF OpenCase
  <1>10. CASE PaymentShown \/ Advance
    <2>1. pointer' \in {0, turn.on}
      BY <1>10 DEF PaymentShown, Advance, HandOver, Pool
    <2>2. turn.on \in Born
      BY <1>7, <1>10 DEF PaymentShown, Advance
    <2> QED  BY <1>2, <2>1, <2>2
  <1>11. ASSUME NEW c \in CaseSlots, TakeCase(c) \/ HandBack(c) \/ CloseCase(c) \/ ScheduleCase(c) PROVE PointsToBorn'
    <2>1. c \in Born /\ pointer' \in {0, c, pointer}
      BY <1>11, OpenIs DEF TakeCase, HandBack, CloseCase, ScheduleCase
    <2> QED  BY <1>2, <2>1
  <1>12. ASSUME \/ (\E said \in Interpretations : ReceiveBatch(said)) \/ Gates \/ Arbitrate \/ PauseActive
                \/ PaymentReported \/ Deliver \/ Throw \/ AgentWrites \/ DayPasses
                \/ (\E c \in CaseSlots : ReminderDue(c)) \/ Remind \/ UNCHANGED mrVars
         PROVE  PointsToBorn'
    <2>1. pointer' = pointer
      BY <1>12 DEF ReceiveBatch, Gates, Arbitrate, PauseActive, PaymentReported, Deliver, Throw, AgentWrites,
         DayPasses, ReminderDue, Remind, mrVars
    <2> QED  BY <1>3, <2>1
  <1> QED  BY <1>8, <1>9, <1>10, <1>11, <1>12 DEF RoutingNext, AgentActs

-----------------------------------------------------------------------------
(* The instance: whichever of the modules runs, the others stay as they are *)

RoutingLimits == Ranked /\ TopicsKnown /\ AboutTopic /\ PointsToBorn
TemplateLimits == provider \in {"zernio", "meta"} /\ stored.id <= madeRows
CasesInv ==
    /\ EngineInv /\ GatewayInv /\ TriesLimited /\ RoutingInv /\ RoutingLimits
    /\ DeliveryInv /\ IdsUnique /\ SendersInv /\ TemplatesInv /\ TemplateLimits

LEMMA RoutingLimitsKeep ==
    ASSUME RoutingInv, RoutingInv', RoutingLimits, [RoutingNext]_mrVars
    PROVE  RoutingLimits'
  <1>1. Ranked' /\ TopicsKnown'
    BY RoutingWrites, WritesKeep DEF RoutingLimits
  <1>2. AboutTopic' /\ PointsToBorn'
    BY AboutTopicKeeps, PointerKeeps DEF RoutingLimits
  <1> QED  BY <1>1, <1>2 DEF RoutingLimits

LEMMA CasesNextKeeps ==
    ASSUME CasesInv, [CasesNext]_<<wfVars, gwVars, mrVars, dvVars, snVars, mtVars, focus>>
    PROVE  CasesInv'
  <1>1. /\ [WorkflowsNext]_wfVars /\ [GatewayNext]_gwVars /\ [RoutingNext]_mrVars
        /\ [DeliveryNext]_dvVars /\ [SendersNext]_snVars /\ [TemplatesNext]_mtVars
    BY DEF CasesNext
  <1>2. EngineInv'
    BY <1>1, WorkflowsNextKeeps DEF CasesInv
  <1>3. GatewayInv' /\ TriesLimited'
    BY <1>1, GatewayNextKeeps, TriesKeep DEF CasesInv
  <1>4. RoutingInv'
    BY <1>1, RoutingNextKeeps DEF CasesInv
  <1>5. RoutingLimits'
    BY <1>1, <1>4, RoutingLimitsKeep DEF CasesInv
  <1>6. DeliveryInv' /\ IdsUnique'
    BY <1>1, DeliveryNextKeeps, IdsKeepUnique DEF CasesInv
  <1>7. SendersInv'
    BY <1>1, SendersNextKeeps DEF CasesInv
  <1>8. TemplatesInv' /\ TemplateLimits'
    BY <1>1, TemplatesNextKeeps, NumbersKeep DEF CasesInv, TemplateLimits
  <1> QED  BY <1>2, <1>3, <1>4, <1>5, <1>6, <1>7, <1>8 DEF CasesInv

LEMMA CasesInitHolds ==
    ASSUME CasesInit
    PROVE  CasesInv
  <1>1. EngineInv /\ GatewayInv /\ RoutingInv /\ DeliveryInv /\ SendersInv /\ TemplatesInv
    BY WorkflowsInitHolds, GatewayInitHolds, RoutingInitHolds, DeliveryInitHolds, SendersInitHolds,
       TemplatesInitHolds DEF CasesInit
  <1>2. TriesLimited
    BY RetriesAssumption DEF CasesInit, GatewayInit, TriesLimited
  <1>3. RoutingLimits
    <2>1. Born = {} /\ turn.at = "idle"
      BY DEF CasesInit, RoutingInit, Born, NoTurn
    <2> QED  BY <2>1 DEF CasesInit, RoutingInit, RoutingLimits, Ranked, TopicsKnown, AboutTopic, PointsToBorn
  <1>4. IdsUnique
    BY DEF CasesInit, DeliveryInit, IdsUnique, MsgRows
  <1>5. TemplateLimits
    BY DEF CasesInit, TemplatesInit, TemplateLimits, NoTemplate
  <1> QED  BY <1>1, <1>2, <1>3, <1>4, <1>5 DEF CasesInv

LEMMA WorkflowsAreTyped ==
    ASSUME EngineInv
    PROVE  WorkflowsTypeOK
  <1>1. run \in Run /\ saved \in Saved
    BY DEF EngineInv, RunInv, SavedInv
  <1> QED  BY <1>1 DEF EngineInv, CaseTypes, Run, Saved, WorkflowsTypeOK, MaxStepsPerRun

LEMMA GatewayIsTyped ==
    ASSUME GatewayInv, TriesLimited
    PROVE  GatewayTypeOK
  <1>1. requests \in [Invocations -> 0..(MaxRetries + 2)]
    BY RetriesAssumption DEF GatewayInv, GatewayTypes, TriesLimited
  <1> QED  BY <1>1 DEF GatewayInv, GatewayTypes, GatewayTypeOK, Calls

LEMMA RoutingIsTyped ==
    ASSUME RoutingInv, RoutingLimits
    PROVE  RoutingTypeOK
  <1>1. \A c \in Born : /\ cases[c].topic \in Topics \cup {"triage"}
                        /\ cases[c].status \in {"NEW", "PAUSED"} \cup Automated \cup Human \cup Terminal
    <2> SUFFICES ASSUME NEW c \in Born
                 PROVE  /\ cases[c].topic \in Topics \cup {"triage"}
                        /\ cases[c].status \in {"NEW", "PAUSED"} \cup Automated \cup Human \cup Terminal
      OBVIOUS
    <2>1. c \in CaseSlots /\ cases[c].status # "none" /\ cases[c] \in Case
      BY BornIs DEF RoutingInv, RoutingTypes
    <2> QED  BY <2>1 DEF Case, CaseStatuses, RoutingLimits, TopicsKnown
  <1>2. Born = 1..Cardinality(Born)
    <2>1. PICK k \in 0..MaxCases : Born = 1..k
      BY DEF RoutingInv, SlotsFill
    <2>2. Cardinality(1..k) = k
      BY <2>1, FS_Interval
    <2> QED  BY <2>1, <2>2
  <1>3. {freshest[c] : c \in Born} = Born /\ \A c \in CaseSlots \ Born : freshest[c] = 0
    BY DEF RoutingLimits, Ranked
  <1>4. pointer \in {0} \cup Born /\ {turn.on, turn.active, reminder} \subseteq {0} \cup Born
    BY DEF RoutingLimits, PointsToBorn, RoutingInv, TurnKnows
  <1>5. DOMAIN cases = CaseSlots
    BY DEF RoutingInv, RoutingTypes
  <1> QED  BY <1>1, <1>2, <1>3, <1>4, <1>5 DEF RoutingTypeOK

LEMMA DeliveryIsTyped ==
    ASSUME DeliveryInv, IdsUnique
    PROVE  DeliveryTypeOK
  <1>1. \A i \in MsgRows : msgRows[i] \in Row
    BY RowsAre DEF DeliveryInv, DeliveryTypes, MsgRows
  <1> QED  BY <1>1 DEF Row, DeliveryInv, IdsKnow, IdsUnique, DeliveryTypeOK

LEMMA SendersAreTyped ==
    ASSUME SendersInv
    PROVE  SendersTypeOK
  <1>1. \A s \in Sends : post[s] \in Post
    BY DEF SendersInv, SendersTypes
  <1> QED  BY <1>1 DEF SendersInv, SendersTypes, Post, SendersTypeOK

LEMMA TemplatesAreTyped ==
    ASSUME TemplatesInv, TemplateLimits
    PROVE  TemplatesTypeOK
  <1>1. \A q \in Requests : handling[q] \in TemplateRequest
    BY DEF TemplatesInv, TemplateTypes
  <1> QED  BY <1>1 DEF TemplatesInv, TemplateTypes, TemplateTables, TemplateLimits, TemplateRequest, AnyStatus, TemplatesTypeOK

\* Whichever of the six modules runs, the cases, the turns, the executions and the rows
\* stay of their types: among these, the ranks by updated_at are those of the cases, the
\* conversation points to a case that there is, and no two rows have one id.
THEOREM CasesAreTyped == CasesSpec => []CasesTypeOK
  <1>1. CasesInv => CasesTypeOK
    BY WorkflowsAreTyped, GatewayIsTyped, RoutingIsTyped, DeliveryIsTyped, SendersAreTyped, TemplatesAreTyped
       DEF CasesInv, CasesTypeOK
  <1> QED  BY <1>1, CasesInitHolds, CasesNextKeeps, PTL DEF CasesSpec
=============================================================================
