---------------------------- MODULE KnowledgeBase ----------------------------
(***************************************************************************)
(* The documents the assistant answers from.  A document has a row, under  *)
(* an id of its own, and pieces in the vector store, under the name of its *)
(* file; every statement commits by itself.                                *)
(***************************************************************************)
EXTENDS Naturals, FiniteSets

CONSTANTS
    Uploads,  \* documents sent in; each is sent once
    Names,    \* names of files
    Pieces    \* pieces of a document

ASSUME UploadsAssumption == "unknown" \notin Uploads /\ "nothing" \notin Uploads

VARIABLES
    rows,     \* rag_documents: the uploads that are listed
    vectors,  \* n8n_vectors: pieces, as [upload, piece]
    nameOf,   \* per upload, the name of its file
    tasks,    \* per upload: [at, left, alone], the request that indexes or deletes it
    sent,     \* uploads begun so far
    indexed   \* history: per name, what the last undisturbed request left of it

kbVars == <<rows, vectors, nameOf, tasks, sent, indexed>>

Unknown == "unknown"
Nothing == "nothing"
Idle == [at |-> "none", left |-> {}, alone |-> FALSE]
VectorsNamed(n) == {v \in vectors : nameOf[v.upload] = n}
PiecesOf(u) == [upload : {u}, piece : Pieces]

KnowledgeInit ==
    /\ rows = {} /\ vectors = {} /\ nameOf \in [Uploads -> Names]
    /\ tasks = [u \in Uploads |-> Idle] /\ sent = {}
    /\ indexed = [n \in Names |-> Nothing]

-----------------------------------------------------------------------------
(* Requests, and the history of those that meet no other about their name *)

Namesakes(u) == {o \in Uploads \ {u} : nameOf[o] = nameOf[u]}
Busy(u) == tasks[u].at # "none"

BeginTask(u, at) ==
    /\ tasks' = [o \in Uploads |->
                    CASE o = u -> [Idle EXCEPT !.at = at, !.alone = ~\E p \in Namesakes(u) : Busy(p)]
                      [] o \in Namesakes(u) -> [tasks[o] EXCEPT !.alone = FALSE]
                      [] OTHER -> tasks[o]]
    /\ indexed' = [indexed EXCEPT ![nameOf[u]] = Unknown]
Step(u, at) == tasks' = [tasks EXCEPT ![u].at = at]
EndTask(u, result) ==
    /\ tasks' = [tasks EXCEPT ![u] = Idle]
    /\ indexed' = IF tasks[u].alone THEN [indexed EXCEPT ![nameOf[u]] = result] ELSE indexed

\* Mutant of DeleteBySource: by document.
DeleteByDocument(u) == vectors' = vectors \ PiecesOf(u)

\* Everything of that name, whatever document it is of.
DeleteBySource(u) == vectors' = vectors \ VectorsNamed(nameOf[u])

-----------------------------------------------------------------------------
(* POST /api/rag/documents: processAndIndexDocument *)

\* Each upload has an id of its own; its text is being extracted.
PostDocument(u) ==
    /\ u \notin sent /\ sent' = sent \cup {u} /\ BeginTask(u, "extracted")
    /\ UNCHANGED <<rows, vectors, nameOf>>

ClearSource(u) ==
    /\ tasks[u].at = "extracted" /\ Step(u, "embedding") /\ DeleteBySource(u)
    /\ UNCHANGED <<rows, nameOf, sent, indexed>>

\* All the pieces are embedded before the first is inserted.
Embedded(u) ==
    /\ tasks[u].at = "embedding"
    /\ tasks' = [tasks EXCEPT ![u].at = "inserting", ![u].left = Pieces]
    /\ UNCHANGED <<rows, vectors, nameOf, sent, indexed>>

IndexChunk(u) ==
    /\ tasks[u].at = "inserting"
    /\ \E p \in tasks[u].left :
          /\ vectors' = vectors \cup {[upload |-> u, piece |-> p]}
          /\ tasks' = [tasks EXCEPT ![u].left = @ \ {p}]
    /\ UNCHANGED <<rows, nameOf, sent, indexed>>

CreateDocument(u) ==
    /\ tasks[u].at = "inserting" /\ tasks[u].left = {}
    /\ rows' = rows \cup {u} /\ EndTask(u, u)
    /\ UNCHANGED <<vectors, nameOf, sent>>

-----------------------------------------------------------------------------
(* DELETE /api/rag/documents/:id: deleteDocument *)

\* Nothing happens for a document that is not listed any more.
FindDocument(u) ==
    /\ ~Busy(u) /\ u \in rows /\ BeginTask(u, "found")
    /\ UNCHANGED <<rows, vectors, nameOf, sent>>

EraseVectors(u) ==
    /\ tasks[u].at = "found" /\ Step(u, "erased") /\ DeleteBySource(u)
    /\ UNCHANGED <<rows, nameOf, sent, indexed>>

DeleteDocument(u) ==
    /\ tasks[u].at = "erased" /\ rows' = rows \ {u} /\ EndTask(u, Nothing)
    /\ UNCHANGED <<vectors, nameOf, sent>>

\* The embedding, a statement or the process fails: what is done stays done.
FailTask(u) ==
    /\ Busy(u) /\ EndTask(u, Unknown)
    /\ UNCHANGED <<rows, vectors, nameOf, sent>>

KnowledgeNext ==
    \E u \in Uploads :
        \/ PostDocument(u) \/ ClearSource(u) \/ Embedded(u) \/ IndexChunk(u) \/ CreateDocument(u)
        \/ FindDocument(u) \/ EraseVectors(u) \/ DeleteDocument(u) \/ FailTask(u)

KnowledgeSpec == KnowledgeInit /\ [][KnowledgeNext]_kbVars

-----------------------------------------------------------------------------
(* Properties *)

\* Types of the variables.
KnowledgeTypeOK ==
    /\ rows \cup {v.upload : v \in vectors} \subseteq sent
    /\ \A n \in Names : indexed[n] \in Uploads \cup {Unknown, Nothing}

\* processAndIndexDocument, deleteDocument: a request about a name that meets no other
\* leaves in the store the pieces of the document just sent, all of them and nothing
\* else of that name, or nothing after a deletion; whatever earlier requests that
\* overlapped or failed half-way had left there.
SearchFindsLastUpload ==
    \A n \in Names :
        /\ indexed[n] = Nothing => VectorsNamed(n) = {}
        /\ indexed[n] \in Uploads => indexed[n] \in rows /\ VectorsNamed(n) = PiecesOf(indexed[n])
=============================================================================
