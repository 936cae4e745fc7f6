---------------------------- MODULE PromptVersions ----------------------------
(***************************************************************************)
(* The versions of one prompt template and the one the assistant uses.     *)
(* Saving, publishing and rolling back are transactions of several         *)
(* statements at READ COMMITTED: a statement sees what was committed when  *)
(* it began, waits for the rows another transaction has written and looks  *)
(* at them again when it gets them.                                        *)
(***************************************************************************)
EXTENDS Integers

CONSTANTS
    Editors,     \* requests that save, publish or roll back
    MaxVersions  \* bound: versions of the template

ASSUME MaxVersionsAssumption == MaxVersions \in Nat \ {0}

VARIABLES
    versions,  \* ai_prompt_versions: per version number, its committed status
    active,    \* active_version_id of the template, 0 for none
    edits,     \* per request: [at, version, as, got, todo, writes, alone]
    cached,    \* the resolver's copy of the active version, NotCached for none
    tidied     \* history: the last publication met no other

pvVars == <<versions, active, edits, cached, tidied>>

Versions == 1..MaxVersions
VersionStatuses == {"DRAFT", "PUBLISHED", "ARCHIVED"}
NotCached == -1
NoEdit == [at |-> "none", version |-> 0, as |-> "DRAFT", got |-> 0, todo |-> {}, writes |-> <<>>, alone |-> FALSE]

Existing == {v \in Versions : versions[v] # "none"}
Newest(vs) == IF vs = {} THEN 0 ELSE CHOOSE v \in vs : \A o \in vs : o <= v

\* A template has no version, or those of the migrations.
PromptInit ==
    /\ active \in {0, 1}
    /\ versions = [v \in Versions |-> IF v = active THEN "PUBLISHED" ELSE "none"]
    /\ edits = [e \in Editors |-> NoEdit]
    /\ cached = NotCached /\ tidied = TRUE

-----------------------------------------------------------------------------
(* Transactions *)

Others(e) == Editors \ {e}
\* A transaction sees its own writes.
Seen(e, v) == IF v \in DOMAIN edits[e].writes THEN edits[e].writes[v] ELSE versions[v]
WithRow(writes, v, status) == [x \in DOMAIN writes \cup {v} |-> IF x = v THEN status ELSE writes[x]]
\* A row a transaction has written is locked until its end.
Locked(e, v) == \E o \in Others(e) : v \in DOMAIN edits[o].writes
TemplateLocked(e) == \E o \in Others(e) : edits[o].at = "commit" /\ edits[o].as # "DRAFT"
Publishing(e) == edits[e].at \notin {"none", "committed"} /\ edits[e].as # "DRAFT"

\* History: publications that run together are not alone, any of them.
BeginEdit(e, edit) ==
    edits' = [o \in Editors |->
                 IF o = e THEN [edit EXCEPT !.alone = ~\E p \in Others(e) : Publishing(p)]
                 ELSE [edits[o] EXCEPT !.alone = @ /\ edit.as = "DRAFT"]]
Go(e, edit) == edits' = [edits EXCEPT ![e] = edit]

-----------------------------------------------------------------------------
(* SavePromptVersion: createVersion *)

\* SELECT MAX(version_number): a number another transaction may be taking as well.
SaveVersion(e, as) ==
    /\ edits[e].at = "none" /\ Newest(Existing) < MaxVersions
    /\ BeginEdit(e, [NoEdit EXCEPT !.at = "insert", !.version = Newest(Existing) + 1, !.as = as])
    /\ UNCHANGED <<versions, active, cached, tidied>>

\* The number is unique; the insertion waits for one that has it.
InsertVersion(e) ==
    /\ edits[e].at = "insert" /\ ~Locked(e, edits[e].version) /\ edits[e].version \notin Existing
    /\ Go(e, [edits[e] EXCEPT !.at = IF edits[e].as = "DRAFT" THEN "commit" ELSE "archive",
                              !.writes = WithRow(@, edits[e].version, edits[e].as)])
    /\ UNCHANGED <<versions, active, cached, tidied>>

-----------------------------------------------------------------------------
(* PublishPromptVersion, RollbackPromptVersion: setActiveVersion *)

SetActive(e, v) == [NoEdit EXCEPT !.at = "archive", !.version = v, !.as = "EXISTING"]

\* Any version: a draft, an archived one, the active one.
Publish(e) ==
    /\ edits[e].at = "none" /\ \E v \in Existing : BeginEdit(e, SetActive(e, v))
    /\ UNCHANGED <<versions, active, cached, tidied>>

\* Without a target: the newest that was not active when the template was read.
Rollback(e) ==
    /\ edits[e].at = "none"
    /\ BeginEdit(e, [NoEdit EXCEPT !.at = "list", !.as = "EXISTING", !.got = active])
    /\ UNCHANGED <<versions, active, cached, tidied>>
ListVersions(e) ==
    /\ edits[e].at = "list" /\ Existing \ {edits[e].got} # {}
    /\ Go(e, [SetActive(e, Newest(Existing \ {edits[e].got})) EXCEPT !.alone = edits[e].alone])
    /\ UNCHANGED <<versions, active, cached, tidied>>

-----------------------------------------------------------------------------
(* The statements both transactions end with *)

\* Mutant of Outgoing: without `AND id != $2'.
OutgoingAll(e) == {v \in Existing : versions[v] = "PUBLISHED"} \cup {edits[e].version}

\* The rows UPDATE ... SET status = 'ARCHIVED' finds when it begins.
Outgoing(e) == {v \in Existing : versions[v] = "PUBLISHED" /\ v # edits[e].version}

Archive(e) ==
    /\ edits[e].at = "archive" /\ Go(e, [edits[e] EXCEPT !.at = "archiving", !.todo = Outgoing(e)])
    /\ UNCHANGED <<versions, active, cached, tidied>>

\* A row it had to wait for is archived only if it is still published.
ArchiveRow(e) ==
    /\ edits[e].at = "archiving"
    /\ \E v \in edits[e].todo :
          /\ ~Locked(e, v)
          /\ Go(e, [edits[e] EXCEPT !.todo = @ \ {v},
                                    !.writes = IF Seen(e, v) = "PUBLISHED" THEN WithRow(@, v, "ARCHIVED")
                                               ELSE @])
    /\ UNCHANGED <<versions, active, cached, tidied>>

Activate(e) ==
    /\ edits[e].at = "archiving" /\ edits[e].todo = {} /\ edits[e].as = "EXISTING"
    /\ ~Locked(e, edits[e].version)
    /\ Go(e, [edits[e] EXCEPT !.as = "PUBLISHED",
                              !.writes = WithRow(@, edits[e].version, "PUBLISHED")])
    /\ UNCHANGED <<versions, active, cached, tidied>>

PointTemplate(e) ==
    /\ edits[e].at = "archiving" /\ edits[e].todo = {} /\ edits[e].as = "PUBLISHED"
    /\ ~TemplateLocked(e) /\ Go(e, [edits[e] EXCEPT !.at = "commit"])
    /\ UNCHANGED <<versions, active, cached, tidied>>

Commit(e) ==
    /\ edits[e].at = "commit" /\ Go(e, [NoEdit EXCEPT !.at = "committed"])
    /\ versions' = [v \in Versions |-> Seen(e, v)]
    /\ active' = IF edits[e].as = "DRAFT" THEN active ELSE edits[e].version
    /\ tidied' = IF edits[e].as = "DRAFT" THEN tidied ELSE edits[e].alone
    /\ UNCHANGED <<cached>>

\* A taken number, a deadlock, a lost connection: ROLLBACK, or after the COMMIT no answer.
FailEdit(e) ==
    /\ edits[e].at # "none" /\ Go(e, NoEdit)
    /\ UNCHANGED <<versions, active, cached, tidied>>

\* invalidateCache; a query answered after it puts the older copy back.
InvalidatePrompt(e) ==
    /\ edits[e].at = "committed" /\ Go(e, NoEdit) /\ cached' \in {NotCached, cached}
    /\ UNCHANGED <<versions, active, tidied>>

-----------------------------------------------------------------------------
(* PromptResolverService *)

\* The copy lasts a minute; an error is answered with the prompt of the code and not kept.
ResolvePrompt ==
    /\ cached = NotCached /\ cached' = active
    /\ UNCHANGED <<versions, active, edits, tidied>>
PromptExpires ==
    /\ cached # NotCached /\ cached' = NotCached
    /\ UNCHANGED <<versions, active, edits, tidied>>

PromptNext ==
    \/ \E e \in Editors :
          \/ \E as \in {"DRAFT", "PUBLISHED"} : SaveVersion(e, as)
          \/ InsertVersion(e) \/ Publish(e) \/ Rollback(e) \/ ListVersions(e)
          \/ Archive(e) \/ ArchiveRow(e) \/ Activate(e) \/ PointTemplate(e)
          \/ Commit(e) \/ FailEdit(e) \/ InvalidatePrompt(e)
    \/ ResolvePrompt \/ PromptExpires

PromptSpec == PromptInit /\ [][PromptNext]_pvVars

-----------------------------------------------------------------------------
(* Properties *)

\* Types of the variables.
PromptTypeOK ==
    /\ versions \in [Versions -> VersionStatuses \cup {"none"}]
    /\ active \in 0..MaxVersions /\ cached \in NotCached..MaxVersions
    /\ \A e \in Editors : DOMAIN edits[e].writes \subseteq Versions /\ edits[e].todo \subseteq Versions

\* setActiveVersion, createVersion: however saves, publications and rollbacks overlap,
\* wait or fail, the version the template points to is published, no draft is
\* ever answered to the assistant, and a publication that met no other leaves no
\* second published version, not even one that an earlier overlap had left.
ActiveIsPublished ==
    /\ active # 0 => versions[active] = "PUBLISHED"
    /\ cached \in Versions => versions[cached] \in {"PUBLISHED", "ARCHIVED"}
    /\ tidied => \A v \in Existing : versions[v] = "PUBLISHED" => v = active
=============================================================================
