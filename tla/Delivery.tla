------------------------------- MODULE Delivery -------------------------------
(***************************************************************************)
(* Outgoing messages of one conversation and their rows.  The program (the *)
(* bot or an agent) sends first and stores the row when WhatsApp answers;   *)
(* an agent may also write from the phone.  WhatsApp reports back through   *)
(* webhooks, in any order and more than once: an echo of each message, that *)
(* it was delivered, read, or failed.  The history import stores messages   *)
(* again.  A message has two ids, the platform's and the provider's, and a  *)
(* row keeps the one it was stored with: what the ids do not match is       *)
(* matched by the beginning of the text among recent rows.                  *)
(***************************************************************************)
EXTENDS Naturals, Sequences, FiniteSets

CONSTANTS
    Outgoing,   \* messages to the customer, a set of numbers
    MaxReports  \* bound: echoes, receipts and imported messages

VARIABLES
    alike,    \* the messages begin with the same 40 characters
    sending,  \* per message, the send: [at, by, id]
    copy,     \* per message, how it reached WhatsApp: none, zernio or meta
    seenBy,   \* messages reported as read
    msgRows,  \* the message table, in order of creation
    hook,     \* per message, the echo in progress: whether, and the row it matched (0 for none)
    reports,  \* counter for the bound
    excused   \* history: messages whose echo came too early or too late, or stored by an import

dvVars == <<alike, sending, copy, seenBy, msgRows, hook, reports, excused>>

NoId == <<"none", 0>>
PlatformId(r) == <<"platform", r>>   \* platformMessageId, wamid
ProviderId(r) == <<"provider", r>>   \* message.id of Zernio
MadeUpId(r) == <<"made", r>>         \* zernio-<timestamp>: the answer had no id

NotYet == [at |-> "none", by |-> "none", id |-> NoId]
Over == [NotYet EXCEPT !.at = "over"]   \* stored, thrown or lost
NoEcho == [on |-> FALSE, row |-> 0]

MsgRows == DOMAIN msgRows
Like(r, q) == alike \/ r = q
RowsFor(r) == {i \in MsgRows : msgRows[i].of = r}
NewRow(r, ext, status) ==
    [of |-> r, ext |-> ext, status |-> status, age |-> 0]

DeliveryInit ==
    /\ alike \in BOOLEAN
    /\ sending = [r \in Outgoing |-> NotYet]
    /\ copy = [r \in Outgoing |-> "none"] /\ seenBy = {} /\ msgRows = <<>>
    /\ hook = [r \in Outgoing |-> NoEcho] /\ excused = {} /\ reports = 0

-----------------------------------------------------------------------------
(* The table: UNIQUE (conversation_id, external_id), many rows without id *)

\* Mutant of HasRow: no such index, a row is looked for among those without a report.
HasRowSent(ext) == ext # NoId /\ \E i \in MsgRows : msgRows[i].ext = ext /\ msgRows[i].status = "sent"

HasRow(ext) == ext # NoId /\ \E i \in MsgRows : msgRows[i].ext = ext
WithStatus(rows, ext, status) ==
    [i \in DOMAIN rows |-> IF rows[i].ext = ext THEN [rows[i] EXCEPT !.status = status] ELSE rows[i]]

\* Mutants of FindRecentOutbound: only the id is looked at; the text is not.
FindRecentById(r, ext, minutes) == {i \in MsgRows : msgRows[i].ext = ext}
FindRecentNewest(r, ext, minutes) ==
    LET byId == {i \in MsgRows : msgRows[i].ext = ext}
        young == {i \in MsgRows : msgRows[i].age < minutes}
    IN IF byId # {} THEN byId ELSE {i \in young : \A j \in young : j <= i}

\* The row with the id, or else the newest with the same beginning that is young
\* enough (of the ten newest: the model has fewer).
FindRecentOutbound(r, ext, minutes) ==
    LET byId == {i \in MsgRows : msgRows[i].ext = ext}
        byBody == {i \in MsgRows : Like(msgRows[i].of, r) /\ msgRows[i].age < minutes}
    IN IF byId # {} THEN byId ELSE {i \in byBody : \A j \in byBody : j <= i}

\* updateExternalId: only a row without an id takes one.
GiveId(i, ext) ==
    IF msgRows[i].ext = NoId THEN [msgRows EXCEPT ![i].ext = ext] ELSE msgRows

-----------------------------------------------------------------------------
(* Sending: ReplyAsHuman, sendCustomerReply, deliverFixedReply *)

Ask(r, by) ==
    /\ sending[r].at = "none" /\ copy[r] = "none"
    /\ sending' = [sending EXCEPT ![r] = [at |-> "sending", by |-> by, id |-> NoId]]
    /\ UNCHANGED <<alike, copy, seenBy, msgRows, hook, reports, excused>>

\* The providers: accepted, refused, or accepted with the answer lost.
Accepted(r, via, id) ==
    /\ sending[r].at = "sending" /\ copy' = [copy EXCEPT ![r] = via]
    /\ sending' = [sending EXCEPT ![r].at = "answered", ![r].id = id]
    /\ UNCHANGED <<alike, seenBy, msgRows, hook, reports, excused>>
Refused(r, reached) ==
    /\ sending[r].at = "sending"
    /\ sending' = [sending EXCEPT ![r].at = "refused"]
    /\ copy' = [copy EXCEPT ![r] = IF reached THEN "zernio" ELSE @]
    /\ UNCHANGED <<alike, seenBy, msgRows, hook, reports, excused>>
Provider(r) ==
    \/ \E id \in {PlatformId(r), ProviderId(r), MadeUpId(r)} : Accepted(r, "zernio", id)
    \/ Accepted(r, "meta", PlatformId(r))
    \/ \E reached \in BOOLEAN : Refused(r, reached)

\* insertOutbound: an echo that was stored first makes it fail.  The bot keeps a
\* row of a refused message, the error of an agent's goes back to the agent.
InsertOutbound(r) ==
    /\ sending[r].at \in {"answered", "refused"}
    /\ LET refused == sending[r].at = "refused"
           clash == HasRow(sending[r].id)
           thrown == clash \/ (refused /\ sending[r].by = "agent")
       IN /\ sending' = [sending EXCEPT ![r] = Over]
          /\ msgRows' = IF thrown THEN msgRows
                        ELSE Append(msgRows, NewRow(r, sending[r].id,
                                                    IF refused THEN "failed" ELSE "sent"))
    /\ UNCHANGED <<alike, copy, seenBy, hook, reports, excused>>

DieSending(r) ==
    /\ sending[r].at \in {"sending", "answered", "refused"}
    /\ sending' = [sending EXCEPT ![r] = Over]
    /\ UNCHANGED <<alike, copy, seenBy, msgRows, hook, reports, excused>>

PhoneWrites(r) ==
    /\ sending[r].at = "none" /\ copy[r] = "none"
    /\ copy' = [copy EXCEPT ![r] = "zernio"]
    /\ UNCHANGED <<alike, sending, seenBy, msgRows, hook, reports, excused>>

-----------------------------------------------------------------------------
(* Webhooks, any number of times *)

\* An outgoing message.sent: the handler looks for the row, then correlates it
\* or stores the message as an agent's.
EchoMatch(r) ==
    /\ copy[r] = "zernio" /\ ~hook[r].on
    /\ \/ /\ FindRecentOutbound(r, PlatformId(r), 1) = {}
          /\ hook' = [hook EXCEPT ![r] = [on |-> TRUE, row |-> 0]]
       \/ \E i \in FindRecentOutbound(r, PlatformId(r), 1) : hook' = [hook EXCEPT ![r] = [on |-> TRUE, row |-> i]]
    \* too early: the row is still to be stored; too late: it is over a minute old
    /\ excused' = IF \/ sending[r].at \in {"sending", "answered", "refused"}
                     \/ \E i \in RowsFor(r) : msgRows[i].age > 0
                  THEN excused \cup {r} ELSE excused
    /\ reports < MaxReports /\ reports' = reports + 1
    /\ UNCHANGED <<alike, sending, copy, seenBy, msgRows>>

\* A row that took the id meanwhile makes the update fail; the webhook is sent again.
EchoApply(r) ==
    LET ext == PlatformId(r) IN
    /\ hook[r].on /\ hook' = [hook EXCEPT ![r] = NoEcho]
    /\ msgRows' =
         IF hook[r].row = 0
         THEN IF HasRow(ext) THEN msgRows ELSE Append(msgRows, NewRow(r, ext, "sent"))
         ELSE IF msgRows[hook[r].row].ext = NoId /\ HasRow(ext) THEN msgRows
         ELSE WithStatus(GiveId(hook[r].row, ext), ext, "delivered")
    /\ UNCHANGED <<alike, sending, copy, seenBy, reports, excused>>

\* delivered (or failed: the same handling) and read: by the platform's id, by the provider's, and then
\* by the text; the last status to arrive is kept.
Receipt(r, status) ==
    /\ copy[r] = "zernio"
    /\ LET p == PlatformId(r)
           found == FindRecentOutbound(r, p, 2)
       IN msgRows' =
            IF HasRow(p) THEN WithStatus(msgRows, p, status)
            ELSE IF HasRow(ProviderId(r)) THEN WithStatus(msgRows, ProviderId(r), status)
            ELSE IF found = {} THEN msgRows
            ELSE WithStatus(GiveId(CHOOSE i \in found : TRUE, p), p, status)
    /\ msgRows' # msgRows
    /\ seenBy' = IF status = "read" THEN seenBy \cup {r} ELSE seenBy
    /\ reports < MaxReports /\ reports' = reports + 1
    /\ UNCHANGED <<alike, sending, copy, hook, excused>>

\* insertHistorical, under the provider's id: a row that has it takes the status,
\* unless that would be a mere "sent".
InsertHistorical(r, status) ==
    /\ copy[r] = "zernio"
    /\ LET ext == ProviderId(r) IN
       /\ msgRows' = IF ~HasRow(ext) THEN Append(msgRows, NewRow(r, ext, status))
                     ELSE [i \in MsgRows |->
                             IF msgRows[i].ext = ext /\ (status # "sent" \/ msgRows[i].status = "sent")
                             THEN [msgRows[i] EXCEPT !.status = status] ELSE msgRows[i]]
       /\ excused' = IF HasRow(ext) THEN excused ELSE excused \cup {r}
    /\ msgRows' # msgRows
    /\ seenBy' = IF status = "read" THEN seenBy \cup {r} ELSE seenBy
    /\ reports < MaxReports /\ reports' = reports + 1
    /\ UNCHANGED <<alike, sending, copy, hook>>

\* A minute passes (the windows are of one and two minutes).
MinutePasses ==
    /\ \E i \in MsgRows : msgRows[i].age < 2
    /\ msgRows' = [i \in MsgRows |-> [msgRows[i] EXCEPT !.age = IF @ < 2 THEN @ + 1 ELSE 2]]
    /\ UNCHANGED <<alike, sending, copy, seenBy, hook, reports, excused>>

DeliveryNext ==
    \/ \E r \in Outgoing :
         \/ \E by \in {"ai", "agent"} : Ask(r, by)
         \/ Provider(r) \/ InsertOutbound(r) \/ DieSending(r) \/ PhoneWrites(r)
         \/ EchoMatch(r) \/ EchoApply(r)
         \/ \E status \in {"delivered", "read"} : Receipt(r, status)
         \/ \E status \in {"sent", "read"} : InsertHistorical(r, status)
    \/ MinutePasses

DeliverySpec == DeliveryInit /\ [][DeliveryNext]_dvVars

-----------------------------------------------------------------------------
(* Properties *)

\* Types of the variables; no two rows have one id (the unique index).
DeliveryTypeOK ==
    /\ \A i \in MsgRows : /\ msgRows[i].of \in Outgoing
                          /\ msgRows[i].status \in {"sent", "delivered", "read", "failed"}
                          /\ msgRows[i].age \in 0..2
    /\ \A i, j \in MsgRows : msgRows[i].ext = msgRows[j].ext => i = j \/ msgRows[i].ext = NoId
    /\ \A r \in Outgoing : hook[r].row \in {0} \cup MsgRows

\* A message the program sent is in the conversation once, and not again when its
\* echoes and receipts arrive, if they do between the insert and a minute later.
OneRowPerMessage == \A r \in Outgoing : r \notin excused => Cardinality(RowsFor(r)) <= 1

\* A message is shown as read only if the customer has read it, or another that
\* begins with the same text: its id, or its text, led to the row.
ReadMeansRead ==
    \A i \in MsgRows : msgRows[i].status = "read" => \E r \in seenBy : Like(r, msgRows[i].of)
=============================================================================
