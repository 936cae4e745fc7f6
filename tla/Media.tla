--------------------------------- MODULE Media ---------------------------------
(***************************************************************************)
(* The images, voice notes and documents of the conversations, kept on     *)
(* disk for ever: a file of data, then a file of metadata that makes it    *)
(* found, then a copy in memory.  Incoming messages and the AI share one   *)
(* download of a medium; the route that shows it downloads for itself.     *)
(* Neither file is written atomically, and the process may stop.           *)
(***************************************************************************)
EXTENDS Naturals, Sequences, SequencesExt

CONSTANTS
    MediaFiles,  \* media: what a provider's id, or its URL without the account, stands for
    Takers,      \* those who ask: see Ask
    MemoryRoom,  \* entries in memory (200 in the code)
    MaxStops     \* bound: restarts

ASSUME MemoryAssumption == MemoryRoom \in Nat \ {0}

VARIABLES
    disk,      \* per medium: [data : none, part or whole, meta]
    memory,    \* Map in insertion order: [file, whole]
    inFlight,  \* downloads that are shared: a set of media
    takers,    \* per taker: [at, file, shared, whole]
    stops,     \* counter for the bound
    rewritten  \* history: media saved by two at a time, or saved again

mdVars == <<disk, memory, inFlight, takers, stops, rewritten>>

SomeFile == CHOOSE f \in MediaFiles : TRUE
Away == [at |-> "away", file |-> SomeFile, shared |-> FALSE, whole |-> TRUE]

MediaInit ==
    /\ disk = [f \in MediaFiles |-> [data |-> "none", meta |-> FALSE]]
    /\ memory = <<>> /\ inFlight = {} /\ takers = [t \in Takers |-> Away]
    /\ stops = 0 /\ rewritten = {}

InMemory(f) == \E i \in DOMAIN memory : memory[i].file = f
Saving(t, f) == takers[t].at \in {"writing", "describing"} /\ takers[t].file = f

\* Mutant of Remembered: nothing is pushed out.
RememberedAll(f, whole) ==
    IF InMemory(f) THEN memory ELSE Append(memory, [file |-> f, whole |-> whole])

\* setMemoryCache: an entry keeps its place; a new one pushes out the oldest.
Remembered(f, whole) ==
    LET entry == [file |-> f, whole |-> whole] IN
    IF InMemory(f) THEN [i \in DOMAIN memory |-> IF memory[i].file = f THEN entry ELSE memory[i]]
    ELSE Append(IF Len(memory) >= MemoryRoom THEN Tail(memory) ELSE memory, entry)

-----------------------------------------------------------------------------
(* get *)

\* resolveMediaTarget: an id, a path, a URL, or our own link to it name one medium.
ResolveMediaTarget(f) == f

Ask(t, target, shared) ==
    LET f == ResolveMediaTarget(target) IN
    /\ takers[t].at = "away" /\ ~InMemory(f)
    /\ takers' = [takers EXCEPT ![t] = [Away EXCEPT !.at = "look", !.file = f, !.shared = shared]]
    /\ UNCHANGED <<disk, memory, inFlight, stops, rewritten>>

\* ensureStored, for a message that came in and for the AI.
EnsureStored(t, target) == Ask(t, target, TRUE)

\* GET /api/media, for the pages of the agents.
HandleMediaProxy(t, target) == Ask(t, target, FALSE)

\* Not found: ensureStored waits for a download under way, or begins one.
Missed(t) ==
    LET joins == takers[t].shared /\ takers[t].file \in inFlight IN
    /\ takers' = [takers EXCEPT ![t].at = IF joins THEN "joined" ELSE "download"]
    /\ inFlight' = IF takers[t].shared THEN inFlight \cup {takers[t].file} ELSE inFlight
    /\ UNCHANGED <<disk, memory, stops, rewritten>>

ReadMeta(t) ==
    /\ takers[t].at = "look"
    /\ IF disk[takers[t].file].meta
       THEN takers' = [takers EXCEPT ![t].at = "read"] /\ UNCHANGED <<disk, memory, inFlight, stops, rewritten>>
       ELSE Missed(t)

\* Whatever is in the file is served and remembered.
ReadData(t) ==
    LET f == takers[t].file IN
    /\ takers[t].at = "read"
    /\ memory' = Remembered(f, disk[f].data = "whole") /\ takers' = [takers EXCEPT ![t] = Away]
    /\ UNCHANGED <<disk, inFlight, stops, rewritten>>

-----------------------------------------------------------------------------
(* downloadAndPersist, handleMediaProxy, and save *)

\* The download is over: nobody waits for it any more.
Over(t) ==
    /\ inFlight' = IF takers[t].shared THEN inFlight \ {takers[t].file} ELSE inFlight
    /\ takers' = [u \in Takers |->
                    IF u = t \/ (takers[t].shared /\ takers[u].at = "joined" /\ takers[u].file = takers[t].file)
                    THEN Away ELSE takers[u]]

\* The provider does not have it, also when asked with the account.
NotThere(t) ==
    /\ takers[t].at = "download" /\ Over(t)
    /\ UNCHANGED <<disk, memory, stops, rewritten>>

\* Opening the file empties it.
SaveData(t) ==
    LET f == takers[t].file IN
    /\ takers[t].at = "download"
    /\ takers' = [takers EXCEPT ![t].at = "writing"]
    /\ disk' = [disk EXCEPT ![f].data = "part"]
    /\ rewritten' = IF disk[f].meta \/ \E u \in Takers : Saving(u, f)
                    THEN rewritten \cup {f} ELSE rewritten
    /\ UNCHANGED <<memory, inFlight, stops>>

\* An agent sends a file of his: saved without looking.
Upload(t, f) ==
    /\ takers[t].at = "away"
    /\ takers' = [takers EXCEPT ![t] = [Away EXCEPT !.at = "download", !.file = f]]
    /\ UNCHANGED <<disk, memory, inFlight, stops, rewritten>>

\* Mutant of DataSaved: the data is not waited for.
DataSavedLater(t) ==
    /\ takers[t].at = "writing"
    /\ takers' = [takers EXCEPT ![t].at = "describing"]
    /\ UNCHANGED <<disk, memory, inFlight, stops, rewritten>>

\* The data is there, if nobody else is writing it; the metadata is begun, and
\* metadata that cannot be parsed is none.
DataSaved(t) ==
    LET f == takers[t].file IN
    /\ takers[t].at = "writing"
    /\ takers' = [takers EXCEPT ![t].at = "describing"]
    /\ disk' = [disk EXCEPT ![f] =
                  [data |-> IF \E u \in Takers \ {t} : takers[u].at = "writing" /\ takers[u].file = f
                            THEN "part" ELSE "whole",
                   meta |-> FALSE]]
    /\ UNCHANGED <<memory, inFlight, stops, rewritten>>

MetaSaved(t) ==
    LET f == takers[t].file IN
    /\ takers[t].at = "describing" /\ Over(t)
    /\ disk' = [disk EXCEPT ![f].meta = TRUE]
    /\ memory' = Remembered(f, TRUE)
    /\ UNCHANGED <<stops, rewritten>>

\* A full or read-only disk: save throws, and the download is over.
SaveFails(t) ==
    /\ takers[t].at \in {"writing", "describing"} /\ Over(t)
    /\ UNCHANGED <<disk, memory, stops, rewritten>>

Stop ==
    /\ stops < MaxStops /\ stops' = stops + 1
    /\ memory' = <<>> /\ inFlight' = {} /\ takers' = [t \in Takers |-> Away]
    /\ UNCHANGED <<disk, rewritten>>

MediaNext ==
    \/ \E t \in Takers :
         \/ \E f \in MediaFiles : Upload(t, f) \/ EnsureStored(t, f) \/ HandleMediaProxy(t, f)
         \/ ReadMeta(t) \/ ReadData(t) \/ NotThere(t) \/ SaveData(t) \/ DataSaved(t)
         \/ MetaSaved(t) \/ SaveFails(t)
    \/ Stop

MediaSpec == MediaInit /\ [][MediaNext]_mdVars

-----------------------------------------------------------------------------
(* Properties *)

\* Types of the variables; the memory stays within its limit, one entry a medium.
MediaTypeOK ==
    /\ \A f \in MediaFiles : disk[f].data \in {"none", "part", "whole"} /\ disk[f].meta \in BOOLEAN
    /\ Len(memory) <= MemoryRoom /\ IsInjective([i \in DOMAIN memory |-> memory[i].file])
    /\ \A t \in Takers : takers[t].at = "joined" => takers[t].file \in inFlight

\* What is found on disk or in memory is the whole file, wherever the process
\* stopped, a disk failed or a medium was pushed out of memory: also for ever, as
\* nothing expires.  Not so for a medium saved by two at a time or once more.
WholeMedia ==
    \A f \in MediaFiles \ rewritten :
        /\ disk[f].meta => disk[f].data = "whole"
        /\ \A i \in DOMAIN memory : memory[i].file = f => memory[i].whole
=============================================================================
