--------------------------- MODULE MessageTemplates ---------------------------
(***************************************************************************)
(* One message template (one name): the row of the program and the         *)
(* template at WhatsApp, which is created, reviewed and deleted there.     *)
(* A creation stores a row, submits, and stores the id it is given; a      *)
(* webhook says what the review decided; an agent asks for the state of    *)
(* one template, has all of them synchronized, or deletes one.  No request *)
(* excludes another.                                                       *)
(***************************************************************************)
EXTENDS Naturals, Sequences

CONSTANTS
    Requests,      \* requests and webhooks being handled
    MaxTemplates,  \* bound: templates WhatsApp creates, and rows
    MaxReviews,    \* bound: decisions of WhatsApp
    MaxRequests    \* bound: requests

VARIABLES
    provider,  \* where the templates are: zernio, or meta, which the program cannot list
    stored,    \* message_templates: [id, meta, status], NoTemplate for no row
    remote,    \* external: [meta, status], NotAtWhatsApp when WhatsApp has none
    news,      \* decisions on their way: webhooks
    handling,  \* per request: [at, id, meta, status], see NoRequest
    madeRows, madeRemote, reviews, asked,  \* counters for ids and bounds
    apart      \* history: why they may differ, since the last undisturbed synchronization

mtVars == <<provider, stored, remote, news, handling, madeRows, madeRemote, reviews, asked, apart>>

NoTemplate == [id |-> 0, meta |-> 0, status |-> "none"]
NotAtWhatsApp == [meta |-> 0, status |-> "none"]
NoRequest == [at |-> "none", id |-> 0, meta |-> 0, status |-> "none"]
Statuses == {"PENDING", "APPROVED", "REJECTED", "PAUSED", "DISABLED"}

TemplatesInit ==
    /\ provider \in {"zernio", "meta"} /\ stored = NoTemplate /\ remote = NotAtWhatsApp /\ news = <<>>
    /\ handling = [q \in Requests |-> NoRequest]
    /\ madeRows = 0 /\ madeRemote = 0 /\ reviews = 0 /\ asked = 0 /\ apart = FALSE

Is(q, step) == handling[q].at = step
Proceed(q, step) == handling' = [handling EXCEPT ![q].at = step]
Done(q) == handling' = [handling EXCEPT ![q] = NoRequest]
\* Another request has read and is still to write.
Crossed(q) == \E o \in Requests \ {q} : handling[o].at # "none"
RowOnly == UNCHANGED <<provider, remote, news, madeRemote, reviews, asked>>
NoRow == UNCHANGED <<stored, madeRows>>

\* DynamicTemplatesGateway: Meta as well when the settings cannot be read.
Gateways == {provider, "meta"}

Asked(q) == handling[q].at = "none" /\ asked < MaxRequests /\ asked' = asked + 1
Insert(meta, status) ==
    /\ madeRows < MaxTemplates /\ madeRows' = madeRows + 1
    /\ stored' = [id |-> madeRows + 1, meta |-> meta, status |-> status]
DeleteRow(id) == stored' = IF stored.id = id THEN NoTemplate ELSE stored

-----------------------------------------------------------------------------
(* CreateMessageTemplate *)

\* findByName: a row without an id is left over from a creation and is replaced.
CreateTemplate(q) ==
    /\ Asked(q) /\ (stored # NoTemplate => stored.meta = 0)
    /\ handling' = [handling EXCEPT ![q] = [NoRequest EXCEPT !.at = "replace", !.id = stored.id]]
    /\ apart' = (apart \/ Crossed(q)) /\ NoRow
    /\ UNCHANGED <<provider, remote, news, madeRemote, reviews>>

Replace(q) ==
    /\ Is(q, "replace") /\ Proceed(q, "insert") /\ DeleteRow(handling[q].id)
    /\ UNCHANGED <<madeRows, apart>> /\ RowOnly

\* One row per name (a unique index): an error ends the creation.
InsertRow(q) ==
    /\ Is(q, "insert") /\ RowOnly /\ UNCHANGED apart
    /\ \/ stored # NoTemplate /\ Done(q) /\ NoRow
       \/ /\ stored = NoTemplate /\ Insert(0, "PENDING")
          /\ handling' = [handling EXCEPT ![q] = [handling[q] EXCEPT !.at = "submit", !.id = madeRows + 1]]

\* submitTemplate: accepted, refused (also because it has the name), or accepted and
\* the answer lost.
Submit(q, gateway) ==
    /\ Is(q, "submit") /\ gateway \in Gateways /\ NoRow /\ UNCHANGED <<provider, news, reviews, asked>>
    /\ \/ Proceed(q, "undo") /\ UNCHANGED <<remote, madeRemote, apart>>
       \/ /\ remote = NotAtWhatsApp /\ madeRemote < MaxTemplates /\ madeRemote' = madeRemote + 1
          /\ \E status \in {"PENDING", "APPROVED"}, told \in BOOLEAN :
               /\ remote' = [meta |-> madeRemote + 1, status |-> status]
               /\ handling' = [handling EXCEPT ![q] = [handling[q] EXCEPT !.at = IF told THEN "store" ELSE "undo",
                                                  !.meta = madeRemote + 1, !.status = status]]
               /\ apart' = (apart \/ ~told)
SubmitToZernio(q) == Submit(q, "zernio")
SubmitToMeta(q) == Submit(q, "meta")

\* updateMetaTemplateId: by the id of the row; without the row an error.
StoreMetaId(q) ==
    /\ Is(q, "store") /\ RowOnly /\ UNCHANGED madeRows
    /\ IF stored.id = handling[q].id
       THEN /\ stored' = [stored EXCEPT !.meta = handling[q].meta, !.status = handling[q].status]
            /\ Done(q) /\ apart' = (apart \/ Crossed(q))
       ELSE Proceed(q, "undo") /\ apart' = TRUE /\ UNCHANGED stored

\* Mutant of Undo: the row stays.
UndoNothing(q) == Is(q, "undo") /\ Done(q) /\ NoRow /\ UNCHANGED apart /\ RowOnly

\* Whatever fails after the insert takes the row with it.
Undo(q) ==
    /\ Is(q, "undo") /\ Done(q) /\ DeleteRow(handling[q].id)
    /\ UNCHANGED madeRows /\ apart' = (apart \/ Crossed(q)) /\ RowOnly

-----------------------------------------------------------------------------
(* WhatsApp, and its webhooks: parseWhatsAppTemplateStatusUpdates *)

Review ==
    /\ remote # NotAtWhatsApp /\ reviews < MaxReviews /\ reviews' = reviews + 1
    /\ \E status \in Statuses \ {remote.status} :
         /\ remote' = [remote EXCEPT !.status = status]
         /\ news' = Append(news, [meta |-> remote.meta, status |-> status])
    /\ UNCHANGED <<provider, handling, madeRemote, asked, apart>> /\ NoRow

\* An event without a decision (a change of category or quality) reads as PENDING.
OtherEvent ==
    /\ remote # NotAtWhatsApp /\ reviews < MaxReviews /\ reviews' = reviews + 1
    /\ news' = Append(news, [meta |-> remote.meta, status |-> "PENDING"])
    /\ apart' = (apart \/ remote.status # "PENDING")
    /\ UNCHANGED <<provider, remote, handling, madeRemote, asked>> /\ NoRow

\* SyncTemplateStatus, by the id of WhatsApp; the decision is in the webhook.  An
\* unknown id is an error that is only logged.
Webhook(q) ==
    \E i \in DOMAIN news :
        /\ handling[q].at = "none" /\ news' = SubSeq(news, 1, i - 1) \o SubSeq(news, i + 1, Len(news))
        /\ IF stored.meta = news[i].meta
           THEN handling' = [handling EXCEPT ![q] =
                  [at |-> "write", id |-> stored.id, meta |-> stored.meta, status |-> news[i].status]]
           ELSE UNCHANGED handling
        /\ apart' = (apart \/ i # 1 \/ Crossed(q) \/ (remote.meta = news[i].meta /\ stored.meta # remote.meta))
        /\ UNCHANGED <<provider, remote, madeRemote, reviews, asked>> /\ NoRow

-----------------------------------------------------------------------------
(* SyncTemplateStatus of one template, by the id of its row *)

\* What the gateways make of a status: Zernio's knows no DISABLED.
AsFetched(gateway, status) == IF gateway = "zernio" /\ status = "DISABLED" THEN "PENDING" ELSE status
AsListed(status) == IF status = "DISABLED" THEN "APPROVED" ELSE status

SyncTemplateStatus(q) ==
    /\ Asked(q) /\ stored # NoTemplate
    /\ handling' = [handling EXCEPT ![q] = [at |-> IF stored.meta = 0 THEN "write" ELSE "fetch",
                                       id |-> stored.id, meta |-> stored.meta, status |-> stored.status]]
    /\ apart' = (apart \/ Crossed(q)) /\ NoRow
    /\ UNCHANGED <<provider, remote, news, madeRemote, reviews>>

FetchTemplateStatus(q) ==
    /\ Is(q, "fetch") /\ NoRow /\ UNCHANGED apart /\ RowOnly
    /\ \/ Done(q)
       \/ /\ remote.meta = handling[q].meta
          /\ \E gateway \in Gateways :
               handling' = [handling EXCEPT ![q] = [handling[q] EXCEPT !.at = "write",
                                                            !.status = AsFetched(gateway, remote.status)]]

\* updateStatus: by the id of the row; without the row an error.
UpdateStatus(q) ==
    /\ Is(q, "write") /\ Done(q) /\ RowOnly /\ UNCHANGED madeRows
    /\ stored' = IF stored.id = handling[q].id THEN [stored EXCEPT !.status = handling[q].status] ELSE stored
    /\ apart' = (apart \/ Crossed(q))

-----------------------------------------------------------------------------
(* SyncRemoteTemplates *)

\* Meta's templates cannot be listed, which reads as none.
FetchAllTemplates(q) ==
    /\ Asked(q) /\ NoRow /\ UNCHANGED <<provider, remote, news, madeRemote, reviews>>
    /\ \E gateway \in Gateways :
         LET t == IF gateway = "zernio" THEN remote ELSE NotAtWhatsApp IN
         /\ handling' = [handling EXCEPT ![q] = [at |-> IF t = NotAtWhatsApp THEN "prune" ELSE "merge",
                                            id |-> 0, meta |-> t.meta, status |-> AsListed(t.status)]]
         /\ apart' = (gateway = "meta" \/ Crossed(q) \/ news # <<>>)

\* The row takes the id and the status; without a row one is made.  (findByName and
\* the update are one step here: a request between them has crossed.)
Merge(q) ==
    /\ Is(q, "merge") /\ Done(q) /\ RowOnly /\ apart' = (apart \/ Crossed(q))
    /\ IF stored # NoTemplate
       THEN /\ stored' = [stored EXCEPT !.meta = handling[q].meta, !.status = handling[q].status]
            /\ UNCHANGED madeRows
       ELSE Insert(handling[q].meta, handling[q].status)

\* Rows whose name was not listed are deleted.
Prune(q) ==
    /\ Is(q, "prune") /\ Done(q) /\ stored' = NoTemplate
    /\ UNCHANGED madeRows /\ RowOnly /\ apart' = (apart \/ Crossed(q))

-----------------------------------------------------------------------------
(* DeleteMessageTemplate; people delete and create at WhatsApp as well *)

DeleteTemplate(q) ==
    /\ Asked(q) /\ stored # NoTemplate
    /\ handling' = [handling EXCEPT ![q] = [NoRequest EXCEPT !.at = "delete", !.id = stored.id, !.meta = stored.meta]]
    /\ apart' = (apart \/ Crossed(q)) /\ NoRow
    /\ UNCHANGED <<provider, remote, news, madeRemote, reviews>>

\* A failure there is not looked at.
DeleteRemote(q) ==
    /\ Is(q, "delete") /\ Proceed(q, "remove") /\ NoRow /\ UNCHANGED <<provider, news, madeRemote, reviews, asked>>
    /\ \/ handling[q].meta # 0 /\ remote.meta = handling[q].meta /\ remote' = NotAtWhatsApp /\ UNCHANGED apart
       \/ UNCHANGED remote /\ apart' = (apart \/ remote # NotAtWhatsApp)
DeleteStored(q) ==
    /\ Is(q, "remove") /\ Done(q) /\ DeleteRow(handling[q].id)
    /\ UNCHANGED madeRows /\ RowOnly /\ apart' = (apart \/ Crossed(q))

ChangedAtWhatsApp ==
    /\ apart' = TRUE /\ NoRow /\ UNCHANGED <<provider, news, handling, reviews, asked>>
    /\ \/ remote # NotAtWhatsApp /\ remote' = NotAtWhatsApp /\ UNCHANGED madeRemote
       \/ /\ remote = NotAtWhatsApp /\ madeRemote < MaxTemplates /\ madeRemote' = madeRemote + 1
          /\ remote' = [meta |-> madeRemote + 1, status |-> "APPROVED"]

TemplatesNext ==
    \/ \E q \in Requests :
         \/ CreateTemplate(q) \/ Replace(q) \/ InsertRow(q) \/ SubmitToZernio(q) \/ SubmitToMeta(q) \/ StoreMetaId(q) \/ Undo(q)
         \/ Webhook(q) \/ SyncTemplateStatus(q) \/ FetchTemplateStatus(q) \/ UpdateStatus(q)
         \/ FetchAllTemplates(q) \/ Merge(q) \/ Prune(q)
         \/ DeleteTemplate(q) \/ DeleteRemote(q) \/ DeleteStored(q)
    \/ Review \/ OtherEvent \/ ChangedAtWhatsApp

TemplatesSpec == TemplatesInit /\ [][TemplatesNext]_mtVars

-----------------------------------------------------------------------------
(* Properties *)

\* Types of the variables.
TemplatesTypeOK ==
    /\ {stored.status, remote.status} \subseteq Statuses \cup {"none"}
    /\ stored.id <= madeRows /\ remote.meta <= madeRemote
    /\ \A q \in Requests : handling[q].status \in Statuses \cup {"none"}

\* At rest the program has the template if and only if WhatsApp has it, under the same
\* id and with the status that was decided, a DISABLED one apart.  Not so after
\* requests that crossed, a webhook out of order or too early, a change made at
\* WhatsApp, or an answer lost there, until all are synchronized with nothing else
\* going on; and never after a synchronization that could not list them, which
\* deletes the rows.
TemplatesAgree ==
    ~apart /\ news = <<>> /\ (\A q \in Requests : handling[q] = NoRequest) =>
        /\ stored.meta = remote.meta /\ (stored = NoTemplate <=> remote = NotAtWhatsApp)
        /\ remote.status # "DISABLED" /\ remote # NotAtWhatsApp =>
             stored.status = remote.status
=============================================================================
