---------------------------- MODULE ServicesProofs ----------------------------
(***************************************************************************)
(* Theorems about the services around the cases: an update of the settings *)
(* takes effect, media are kept whole, reviews are judged once, the active *)
(* version of a prompt is a published one, no router is lost or brought    *)
(* back, a search finds the last upload, an import ends with everything    *)
(* counted, and the types, for every value of the constants.               *)
(***************************************************************************)
EXTENDS MCServices,
        SequenceTheorems, WellFoundedInduction, TLAPS

-----------------------------------------------------------------------------
(* Settings: what is saved, copied and resolved *)

Clients == Admins \cup Readers
Full == [Fields -> FieldValues]
Steps == {"none", "query", "save", "drop", "reply"}

SettingsTypes ==
    /\ row \in Full \cup {NoSettings} /\ cache \in Full \cup {NoSettings} /\ wanted \in Full
    /\ reqs \in [Clients -> [at : Steps, got : Full \cup {NoSettings},
                             form : Forms \cup {NoForm}]]
    /\ \A q \in Clients : reqs[q].at \in {"query", "save", "reply"} => reqs[q].got \in Full
    /\ disturbed \in BOOLEAN

\* Who has read the settings has them as they are.
ReadersKnow ==
    \A q \in Clients : reqs[q].at \in {"query", "save", "reply"} => reqs[q].got = Resolved

\* Between its save and the drop of the copy a request is by itself.
SaverAlone ==
    \A q \in Clients : reqs[q].at = "drop" => \A o \in Clients \ {q} : reqs[o].at = "none"

\* What an update goes through, a request that only reads does not.
OnlyAdminsSave == \A q \in Clients : reqs[q].at \in {"save", "drop", "reply"} => q \in Admins

CopyIsRow ==
    cache \in {NoSettings, Resolved} \/ \E q \in Admins : reqs[q].at = "drop"

SettingsInv ==
    /\ SettingsTypes /\ OnlyAdminsSave
    /\ ~disturbed => ReadersKnow /\ SaverAlone /\ CopyIsRow /\ Resolved = wanted

LEMMA SettingsValues ==
    /\ Env \in Full /\ NoSettings \notin Full
    /\ \A settings \in Full, form \in Forms \cup {NoForm} : Merged(settings, form) \in Full
  <1>1. Env \in Full /\ NoSettings \notin Full
    BY DEF Env, Full, FieldValues, Fields, NoSettings
  <1>2. ASSUME NEW settings \in Full, NEW form \in Forms \cup {NoForm}, NEW f \in Fields
        PROVE  (IF form[f] \in {"absent", Mask} THEN settings[f] ELSE form[f]) \in FieldValues
    BY <1>2 DEF Full, Forms, NoForm, Fields, FieldValues, Mask
  <1> QED  BY <1>1, <1>2 DEF Merged, Full

LEMMA SettledTypes ==
    /\ Settled \in [at : Steps, got : Full \cup {NoSettings}, form : Forms \cup {NoForm}]
    /\ Settled.at = "none"
  BY DEF Settled, Steps

LEMMA GetSettingsKeeps ==
    ASSUME SettingsInv, NEW q \in Clients, NEW form \in Forms \cup {NoForm}, GetSettings(q, form)
    PROVE  SettingsInv'
  <1> DEFINE step == IF cache = NoSettings THEN "query" ELSE "save"
             got == IF cache = NoSettings THEN Resolved ELSE cache
             new == [at |-> step, got |-> got, form |-> form]
  <1>1. /\ reqs[q].at = "none" /\ (q \in Readers => cache = NoSettings)
        /\ reqs' = [reqs EXCEPT ![q] = new]
        /\ disturbed' = (disturbed \/ \E o \in Admins \ {q} : Updating(o))
        /\ UNCHANGED <<row, cache, readFails, wanted>>
    BY DEF GetSettings
  <1>2. got \in Full
    BY SettingsValues DEF SettingsInv, SettingsTypes, Resolved
  <1>3. new \in [at : Steps, got : Full \cup {NoSettings}, form : Forms \cup {NoForm}]
        /\ new.at = step /\ new.got = got
    BY <1>2 DEF Steps
  <1> HIDE DEF new
  <1>4. reqs'[q] = new /\ \A o \in Clients \ {q} : reqs'[o] = reqs[o]
    BY <1>1 DEF SettingsInv, SettingsTypes
  <1>5. SettingsTypes' /\ OnlyAdminsSave'
    <2>1. SettingsTypes'
      BY <1>1, <1>2, <1>3, <1>4 DEF SettingsInv, SettingsTypes
    <2> QED  BY <1>1, <1>3, <1>4, <2>1 DEF SettingsInv, OnlyAdminsSave, Clients
  <1>6. Resolved' = Resolved
    BY <1>1 DEF Resolved
  <1>7. ASSUME ~disturbed'
        PROVE  (ReadersKnow /\ SaverAlone /\ CopyIsRow /\ Resolved = wanted)'
    <2>1. ~disturbed /\ \A o \in Admins \ {q} : reqs[o].at # "drop"
      BY <1>1, <1>7 DEF Updating
    <2>2. \A o \in Clients : reqs[o].at # "drop"
      BY <1>1, <2>1 DEF SettingsInv, OnlyAdminsSave
    <2>3. cache \in {NoSettings, Resolved} /\ got = Resolved
      BY <2>1, <2>2 DEF SettingsInv, CopyIsRow, Clients
    <2>4. ReadersKnow'
      BY <1>3, <1>4, <1>6, <2>1, <2>3 DEF SettingsInv, ReadersKnow
    <2>5. SaverAlone'
      BY <1>3, <1>4, <2>2 DEF SaverAlone
    <2>6. CopyIsRow'
      BY <1>1, <1>6, <2>3 DEF CopyIsRow
    <2> QED  BY <1>1, <1>6, <2>1, <2>4, <2>5, <2>6 DEF SettingsInv
  <1> QED  BY <1>5, <1>7 DEF SettingsInv

LEMMA AnswerKeeps ==
    ASSUME SettingsInv, NEW q \in Clients, Answer(q)
    PROVE  SettingsInv'
  <1>1. /\ reqs[q].at \in {"query", "reply"} /\ UNCHANGED <<row, wanted>> /\ Resolved' = Resolved
    BY DEF Answer, Resolved
  <1>2. PICK settings \in {reqs[q].got, Env} :
          /\ reqs' = [reqs EXCEPT ![q] = Answered(q, settings)]
          /\ \/ cache' = reqs[q].got /\ settings = reqs[q].got /\ UNCHANGED disturbed
             \/ disturbed' = (disturbed \/ Updating(q)) /\ UNCHANGED cache
    BY DEF Answer
  <1>3. settings \in Full /\ disturbed' \in BOOLEAN
    BY <1>1, <1>2, SettingsValues DEF SettingsInv, SettingsTypes, Updating
  <1>4. /\ Answered(q, settings) \in [at : Steps, got : Full \cup {NoSettings}, form : Forms \cup {NoForm}]
        /\ Answered(q, settings).at = IF Updating(q) THEN "save" ELSE "none"
        /\ Updating(q) => Answered(q, settings).got = settings
    BY <1>3, SettledTypes DEF Answered, SettingsInv, SettingsTypes, Steps
  <1>5. reqs'[q] = Answered(q, settings) /\ \A o \in Clients \ {q} : reqs'[o] = reqs[o]
    BY <1>2 DEF SettingsInv, SettingsTypes
  <1>6. SettingsTypes'
    BY <1>1, <1>2, <1>3, <1>4, <1>5 DEF SettingsInv, SettingsTypes
  <1>7. OnlyAdminsSave'
    BY <1>4, <1>5 DEF SettingsInv, OnlyAdminsSave, Updating
  <1>8. ASSUME ~disturbed'
        PROVE  (ReadersKnow /\ SaverAlone /\ CopyIsRow /\ Resolved = wanted)'
    <2>1. ~disturbed
      BY <1>2, <1>8, Zenon
    <2>9. reqs[q].got = Resolved
      BY <1>1, <2>1 DEF SettingsInv, ReadersKnow
    <2>2. Updating(q) => settings = Resolved
      BY <1>2, <1>8, <2>1, <2>9, Zenon
    <2>3. ReadersKnow'
      BY <1>1, <1>4, <1>5, <2>1, <2>2, <2>9 DEF SettingsInv, ReadersKnow
    <2>4. \A o \in Clients : reqs[o].at # "drop"
      BY <1>1, <2>1 DEF SettingsInv, SaverAlone
    <2>5. SaverAlone'
      BY <1>4, <1>5, <2>4 DEF SaverAlone
    <2>6. CopyIsRow'
      <3>1. cache \in {NoSettings, Resolved}
        BY <2>1, <2>4 DEF SettingsInv, CopyIsRow, Clients
      <3> QED  BY <1>1, <1>2, <2>9, <3>1 DEF CopyIsRow
    <2> QED  BY <1>1, <2>1, <2>3, <2>5, <2>6 DEF SettingsInv
  <1> QED  BY <1>6, <1>7, <1>8 DEF SettingsInv

LEMMA SaveKeeps ==
    ASSUME SettingsInv, NEW q \in Admins, Save(q)
    PROVE  SettingsInv'
  <1> DEFINE form == reqs[q].form
  <1>1. /\ reqs[q].at = "save" /\ reqs' = [reqs EXCEPT ![q] = [Settled EXCEPT !.at = "drop"]]
        /\ row' = Merged(reqs[q].got, form)
        /\ wanted' = [f \in Fields |-> IF form[f] \in FieldValues THEN form[f] ELSE wanted[f]]
        /\ disturbed' = (disturbed \/ Overlaps(q)) /\ cache' = cache
    BY DEF Save
  <1>2. q \in Clients /\ reqs[q].got \in Full \cup {NoSettings} /\ form \in Forms \cup {NoForm}
        /\ wanted \in Full
    BY DEF Clients, SettingsInv, SettingsTypes
  <1>3. [Settled EXCEPT !.at = "drop"] \in [at : Steps, got : Full \cup {NoSettings}, form : Forms \cup {NoForm}]
        /\ [Settled EXCEPT !.at = "drop"].at = "drop"
    BY SettledTypes DEF Steps
  <1>4. reqs'[q].at = "drop" /\ \A o \in Clients \ {q} : reqs'[o] = reqs[o]
    BY <1>1, <1>2, <1>3 DEF SettingsInv, SettingsTypes
  <1>5. SettingsTypes' /\ OnlyAdminsSave'
    <2>1. row' \in Full \cup {NoSettings}
      BY <1>1, <1>2, SettingsValues DEF SettingsInv, SettingsTypes
    <2>2. wanted' \in Full
      BY <1>1, <1>2 DEF Full
    <2>3. SettingsTypes'
      BY <1>1, <1>2, <1>3, <1>4, <2>1, <2>2 DEF SettingsInv, SettingsTypes
    <2> QED  BY <1>4, <2>3 DEF SettingsInv, OnlyAdminsSave
  <1>6. ASSUME ~disturbed'
        PROVE  (ReadersKnow /\ SaverAlone /\ CopyIsRow /\ Resolved = wanted)'
    <2>1. ~disturbed /\ \A o \in Clients \ {q} : reqs[o].at = "none"
      BY <1>1, <1>6 DEF Overlaps, SettingsInv, SettingsTypes
    <2>2. reqs[q].got = Resolved /\ Resolved = wanted
      BY <1>1, <1>2, <2>1 DEF SettingsInv, ReadersKnow
    <2>3. row' = wanted' /\ row' \in Full
      <3>1. \A f \in Fields : form[f] \in {"absent", Mask} <=> form[f] \notin FieldValues
        BY <1>2 DEF Forms, NoForm, Fields, FieldValues, Mask
      <3>2. row' = wanted'
        BY <1>1, <2>2, <3>1 DEF Merged
      <3> QED  BY <1>1, <1>2, <2>2, <3>2, SettingsValues
    <2>4. Resolved' = wanted'
      BY <2>3, SettingsValues DEF Resolved
    <2>5. ReadersKnow' /\ SaverAlone' /\ CopyIsRow'
      BY <1>4, <2>1 DEF ReadersKnow, SaverAlone, CopyIsRow, Clients
    <2> QED  BY <2>4, <2>5
  <1> QED  BY <1>5, <1>6 DEF SettingsInv

LEMMA InvalidateCacheKeeps ==
    ASSUME SettingsInv, NEW q \in Admins, InvalidateCache(q)
    PROVE  SettingsInv'
  <1> DEFINE new == [Settled EXCEPT !.at = "reply", !.got = Resolved]
  <1>1. /\ reqs[q].at = "drop" /\ cache' = NoSettings /\ reqs' = [reqs EXCEPT ![q] = new]
        /\ UNCHANGED <<row, readFails, wanted, disturbed>> /\ Resolved' = Resolved
    BY DEF InvalidateCache, Resolved
  <1>2. q \in Clients /\ Resolved \in Full
    BY SettingsValues DEF Clients, SettingsInv, SettingsTypes, Resolved
  <1>3. new \in [at : Steps, got : Full \cup {NoSettings}, form : Forms \cup {NoForm}]
        /\ new.at = "reply" /\ new.got = Resolved
    BY <1>2, SettledTypes DEF Steps, Settled
  <1> HIDE DEF new
  <1>4. reqs'[q] = new /\ \A o \in Clients \ {q} : reqs'[o] = reqs[o]
    BY <1>1, <1>2 DEF SettingsInv, SettingsTypes
  <1>5. SettingsTypes' /\ OnlyAdminsSave'
    <2>1. SettingsTypes'
      BY <1>1, <1>2, <1>3, <1>4 DEF SettingsInv, SettingsTypes
    <2> QED  BY <1>4, <2>1 DEF SettingsInv, OnlyAdminsSave
  <1>6. ASSUME ~disturbed'
        PROVE  (ReadersKnow /\ SaverAlone /\ CopyIsRow /\ Resolved = wanted)'
    BY <1>1, <1>2, <1>3, <1>4, <1>6 DEF SettingsInv, ReadersKnow, SaverAlone, CopyIsRow
  <1> QED  BY <1>5, <1>6 DEF SettingsInv

LEMMA SettingsNextKeeps == SettingsInv /\ [SettingsNext]_seVars => SettingsInv'
  <1> SUFFICES ASSUME SettingsInv, [SettingsNext]_seVars
               PROVE  SettingsInv'
    OBVIOUS
  <1> USE DEF Clients
  <1>1. CASE UNCHANGED seVars
    BY <1>1 DEF seVars, SettingsInv, SettingsTypes, OnlyAdminsSave, ReadersKnow, SaverAlone,
                CopyIsRow, Resolved
  <1>2. CASE CacheExpires
    BY <1>2 DEF CacheExpires, SettingsInv, SettingsTypes, OnlyAdminsSave, ReadersKnow, SaverAlone,
                CopyIsRow, Resolved
  <1> QED  BY <1>1, <1>2, GetSettingsKeeps, AnswerKeeps, SaveKeeps, InvalidateCacheKeeps DEF SettingsNext

LEMMA SettingsInitHolds == SettingsInit => SettingsInv
  <1> SUFFICES ASSUME SettingsInit
               PROVE  SettingsInv
    OBVIOUS
  <1>1. \A q \in Clients : reqs[q].at = "none"
    BY SettledTypes DEF SettingsInit, Clients
  <1>2. SettingsTypes
    BY SettledTypes, SettingsValues DEF SettingsInit, SettingsTypes, Clients
  <1> QED
    BY <1>1, <1>2 DEF SettingsInit, SettingsInv, OnlyAdminsSave, ReadersKnow, SaverAlone, CopyIsRow,
                      Resolved

\* updateChannelSettings, updateAiSettings: what was saved last is what is served, and
\* a form changes nothing it does not name, unless an update meets another request
\* or its own read fails.
THEOREM UpdatesTakeEffect == SettingsSpec => []SettingsTakeEffect
  <1>1. SettingsInv => SettingsTakeEffect
    BY DEF SettingsInv, CopyIsRow, SettingsTakeEffect
  <1> QED  BY <1>1, SettingsInitHolds, SettingsNextKeeps, PTL DEF SettingsSpec

-----------------------------------------------------------------------------
(* Media: the two files of a medium and the memory *)

Taker == [at : {"away", "look", "read", "joined", "download", "writing", "describing"},
          file : MediaFiles \cup {SomeFile}, shared : BOOLEAN, whole : BOOLEAN]

MediaTypes ==
    /\ disk \in [MediaFiles -> [data : {"none", "part", "whole"}, meta : BOOLEAN]]
    /\ memory \in Seq([file : MediaFiles, whole : BOOLEAN])
    /\ takers \in [Takers -> Taker]
    /\ \A t \in Takers : takers[t].at # "away" => takers[t].file \in MediaFiles

Saves(t) == takers[t].at \in {"writing", "describing"}

\* A medium that was saved by one taker only, and once, has one taker at its files.
OneSaves ==
    \A t, u \in Takers :
        Saves(t) /\ Saves(u) /\ takers[t].file = takers[u].file /\ t # u
            => takers[t].file \in rewritten

\* What the files hold when a taker has come so far.
Knows(t) ==
    takers[t].file \notin rewritten =>
        /\ takers[t].at = "writing" => ~disk[takers[t].file].meta
        /\ takers[t].at = "describing" => disk[takers[t].file].data = "whole"
        /\ takers[t].at = "read" => disk[takers[t].file].meta
TakersKnow == \A t \in Takers : Knows(t)

OnDisk == \A f \in MediaFiles \ rewritten : disk[f].meta => disk[f].data = "whole"
InMind == \A i \in DOMAIN memory : memory[i].file \notin rewritten => memory[i].whole

MediaInv == MediaTypes /\ OneSaves /\ TakersKnow /\ OnDisk /\ InMind

-----------------------------------------------------------------------------

LEMMA RememberedHas ==
    ASSUME MediaTypes, NEW f \in MediaFiles, NEW whole \in BOOLEAN
    PROVE  /\ Remembered(f, whole) \in Seq([file : MediaFiles, whole : BOOLEAN])
           /\ \A i \in DOMAIN Remembered(f, whole) :
                \/ Remembered(f, whole)[i] = [file |-> f, whole |-> whole]
                \/ \E j \in DOMAIN memory : Remembered(f, whole)[i] = memory[j]
  <1> DEFINE Entry == [file : MediaFiles, whole : BOOLEAN]
             entry == [file |-> f, whole |-> whole]
             replaced == [i \in DOMAIN memory |-> IF memory[i].file = f THEN entry ELSE memory[i]]
             kept == IF Len(memory) >= MemoryRoom THEN Tail(memory) ELSE memory
  <1>1. memory \in Seq(Entry) /\ entry \in Entry /\ MemoryRoom \in Nat \ {0}
    BY MemoryAssumption DEF MediaTypes
  <1>2. CASE InMemory(f)
    <2>1. Remembered(f, whole) = replaced
      BY <1>2 DEF Remembered
    <2>2. replaced \in Seq(Entry) /\ DOMAIN replaced = DOMAIN memory
      BY <1>1
    <2> QED  BY <2>1, <2>2
  <1>3. CASE ~InMemory(f)
    <2>1. Remembered(f, whole) = Append(kept, entry)
      BY <1>3 DEF Remembered
    <2>2. kept \in Seq(Entry) /\ \A i \in DOMAIN kept : \E j \in DOMAIN memory : kept[i] = memory[j]
      <3>1. CASE Len(memory) >= MemoryRoom
        <4>1. memory # <<>>
          BY <1>1, <3>1
        <4>2. /\ Tail(memory) \in Seq(Entry) /\ Len(Tail(memory)) = Len(memory) - 1
              /\ \A i \in 1..(Len(memory) - 1) : Tail(memory)[i] = memory[i + 1]
          BY <1>1, <4>1, HeadTailProperties
        <4>3. \A i \in DOMAIN Tail(memory) : i + 1 \in DOMAIN memory /\ Tail(memory)[i] = memory[i + 1]
          BY <1>1, <4>2
        <4> QED  BY <3>1, <4>2, <4>3
      <3>2. CASE ~(Len(memory) >= MemoryRoom)
        BY <1>1, <3>2
      <3> QED  BY <3>1, <3>2
    <2> HIDE DEF kept, entry
    <2>3. Append(kept, entry) \in Seq(Entry)
          /\ \A i \in DOMAIN Append(kept, entry) :
               \/ Append(kept, entry)[i] = entry
               \/ i \in DOMAIN kept /\ Append(kept, entry)[i] = kept[i]
      BY <1>1, <2>2, AppendProperties, LenProperties
    <2> QED  BY <2>1, <2>2, <2>3 DEF entry
  <1> QED  BY <1>2, <1>3

LEMMA AwayTypes == Away \in Taker /\ Away.at = "away"
  BY DEF Away, Taker

LEMMA RememberedKeeps ==
    ASSUME MediaInv, NEW f \in MediaFiles, NEW whole \in BOOLEAN, f \notin rewritten => whole,
           memory' = Remembered(f, whole), rewritten' = rewritten
    PROVE  memory' \in Seq([file : MediaFiles, whole : BOOLEAN]) /\ InMind'
  <1>1. MediaTypes
    BY DEF MediaInv
  <1>2. /\ memory' \in Seq([file : MediaFiles, whole : BOOLEAN])
        /\ \A i \in DOMAIN memory' :
             \/ memory'[i] = [file |-> f, whole |-> whole]
             \/ \E j \in DOMAIN memory : memory'[i] = memory[j]
    BY <1>1, RememberedHas
  <1>3. InMind'
    BY <1>2 DEF MediaInv, InMind
  <1> QED  BY <1>2, <1>3

\* Who has nothing to do with t's download goes on as before.
LEMMA OverGives ==
    ASSUME MediaInv, NEW t \in Takers, Over(t)
    PROVE  /\ takers' \in [Takers -> Taker] /\ takers'[t].at = "away"
           /\ \A u \in Takers : takers'[u].at = "away" \/ takers'[u] = takers[u]
  BY AwayTypes DEF MediaInv, MediaTypes, Over

-----------------------------------------------------------------------------
(* One lemma per kind of step *)

\* A step of the taker t alone, which does not touch the files.
LEMMA MoveKeeps ==
    ASSUME MediaInv, NEW t \in Takers, NEW new \in Taker, takers' = [takers EXCEPT ![t] = new],
           UNCHANGED <<disk, rewritten>>, new.at \notin {"writing", "describing"},
           new.at # "away" => new.file \in MediaFiles,
           new.at = "read" => disk[new.file].meta,
           memory' \in Seq([file : MediaFiles, whole : BOOLEAN]), InMind'
    PROVE  MediaInv'
  <1>1. takers'[t] = new /\ \A u \in Takers \ {t} : takers'[u] = takers[u]
    BY DEF MediaInv, MediaTypes
  <1>2. MediaTypes'
    BY <1>1 DEF MediaInv, MediaTypes
  <1>3. OneSaves'
    BY <1>1 DEF MediaInv, OneSaves, Saves
  <1>4. TakersKnow'
    BY <1>1 DEF MediaInv, TakersKnow, Knows
  <1> QED  BY <1>2, <1>3, <1>4 DEF MediaInv, OnDisk

LEMMA AskKeeps ==
    ASSUME MediaInv, NEW t \in Takers, NEW f \in MediaFiles, NEW shared \in BOOLEAN,
           Ask(t, f, shared) \/ Upload(t, f)
    PROVE  MediaInv'
  <1>1. PICK new \in Taker :
          takers' = [takers EXCEPT ![t] = new] /\ new.at \in {"look", "download"} /\ new.file = f
    <2>1. CASE Ask(t, f, shared)
      <3> DEFINE new == [Away EXCEPT !.at = "look", !.file = f, !.shared = shared]
      <3>1. new \in Taker /\ new.at = "look" /\ new.file = f
        BY DEF Away, Taker
      <3>2. takers' = [takers EXCEPT ![t] = new]
        BY <2>1 DEF Ask, ResolveMediaTarget
      <3> QED  BY <3>1, <3>2
    <2>2. CASE Upload(t, f)
      <3> DEFINE new == [Away EXCEPT !.at = "download", !.file = f]
      <3>1. new \in Taker /\ new.at = "download" /\ new.file = f
        BY DEF Away, Taker
      <3>2. takers' = [takers EXCEPT ![t] = new]
        BY <2>2 DEF Upload
      <3> QED  BY <3>1, <3>2
    <2> QED  BY <2>1, <2>2
  <1>2. UNCHANGED <<disk, memory, rewritten>>
    BY DEF Ask, Upload
  <1>3. memory' \in Seq([file : MediaFiles, whole : BOOLEAN]) /\ InMind'
    BY <1>2 DEF MediaInv, MediaTypes, InMind
  <1> QED  BY <1>1, <1>2, <1>3, MoveKeeps

LEMMA ReadMetaKeeps ==
    ASSUME MediaInv, NEW t \in Takers, ReadMeta(t)
    PROVE  MediaInv'
  <1>1. UNCHANGED <<disk, memory, rewritten>> /\ takers[t].at = "look" /\ takers[t] \in Taker
        /\ takers[t].file \in MediaFiles
    BY DEF ReadMeta, Missed, MediaInv, MediaTypes
  <1>2. PICK step \in {"read", "joined", "download"} :
          takers' = [takers EXCEPT ![t].at = step] /\ (step = "read" => disk[takers[t].file].meta)
    BY DEF ReadMeta, Missed
  <1> DEFINE new == [takers[t] EXCEPT !.at = step]
  <1>3. new \in Taker /\ new.at = step /\ new.file = takers[t].file
    BY <1>1 DEF Taker
  <1>4. takers' = [takers EXCEPT ![t] = new]
    BY <1>2
  <1> HIDE DEF new
  <1>5. memory' \in Seq([file : MediaFiles, whole : BOOLEAN]) /\ InMind'
    BY <1>1 DEF MediaInv, MediaTypes, InMind
  <1> QED  BY <1>1, <1>2, <1>3, <1>4, <1>5, MoveKeeps

LEMMA ReadDataKeeps ==
    ASSUME MediaInv, NEW t \in Takers, ReadData(t)
    PROVE  MediaInv'
  <1> DEFINE f == takers[t].file
             whole == disk[f].data = "whole"
  <1>1. /\ takers[t].at = "read" /\ f \in MediaFiles /\ UNCHANGED <<disk, rewritten>>
        /\ memory' = Remembered(f, whole) /\ takers' = [takers EXCEPT ![t] = Away]
    BY DEF ReadData, MediaInv, MediaTypes
  <1>2. f \notin rewritten => whole
    BY <1>1 DEF MediaInv, TakersKnow, Knows, OnDisk
  <1>3. memory' \in Seq([file : MediaFiles, whole : BOOLEAN]) /\ InMind'
    BY <1>1, <1>2, RememberedKeeps
  <1> QED  BY <1>1, <1>3, AwayTypes, MoveKeeps

\* A download that ends without a change of the files.
LEMMA EndKeeps ==
    ASSUME MediaInv, NEW t \in Takers, NotThere(t) \/ SaveFails(t)
    PROVE  MediaInv'
  <1>1. UNCHANGED <<disk, memory, rewritten>> /\ Over(t)
    BY DEF NotThere, SaveFails
  <1>2. /\ takers' \in [Takers -> Taker]
        /\ \A u \in Takers : takers'[u].at = "away" \/ takers'[u] = takers[u]
    BY <1>1, OverGives
  <1>3. MediaTypes'
    BY <1>1, <1>2 DEF MediaInv, MediaTypes
  <1>4. OneSaves' /\ TakersKnow'
    BY <1>1, <1>2 DEF MediaInv, OneSaves, Saves, TakersKnow, Knows
  <1> QED  BY <1>1, <1>3, <1>4 DEF MediaInv, OnDisk, InMind

LEMMA SaveDataKeeps ==
    ASSUME MediaInv, NEW t \in Takers, SaveData(t)
    PROVE  MediaInv'
  <1> DEFINE f == takers[t].file
  <1>1. /\ takers[t].at = "download" /\ f \in MediaFiles /\ memory' = memory
        /\ takers' = [takers EXCEPT ![t].at = "writing"]
        /\ disk' = [disk EXCEPT ![f].data = "part"]
        /\ rewritten' = IF disk[f].meta \/ \E u \in Takers : Saving(u, f)
                        THEN rewritten \cup {f} ELSE rewritten
    BY DEF SaveData, MediaInv, MediaTypes
  <1>2. MediaTypes'
    BY <1>1 DEF MediaInv, MediaTypes, Taker
  <1>3. /\ takers'[t].at = "writing" /\ takers'[t].file = f
        /\ \A u \in Takers \ {t} : takers'[u] = takers[u]
        /\ disk'[f].meta = disk[f].meta /\ \A g \in MediaFiles \ {f} : disk'[g] = disk[g]
    BY <1>1 DEF MediaInv, MediaTypes, Taker
  <1>4. rewritten \subseteq rewritten' /\ rewritten' \subseteq rewritten \cup {f}
    BY <1>1
  <1>5. f \notin rewritten' => ~disk[f].meta /\ \A u \in Takers : ~(Saves(u) /\ takers[u].file = f)
    BY <1>1 DEF Saving, Saves
  <1>6. OneSaves'
    BY <1>3, <1>4, <1>5 DEF MediaInv, OneSaves, Saves
  <1>7. TakersKnow'
    <2> SUFFICES ASSUME NEW u \in Takers
                 PROVE  Knows(u)'
      BY DEF TakersKnow
    <2>1. CASE u = t
      BY <1>3, <1>5, <2>1 DEF Knows
    <2>2. CASE u # t /\ takers[u].file # f
      <3>1. takers[u].at # "away" => disk'[takers[u].file] = disk[takers[u].file]
        BY <1>3, <2>2 DEF MediaInv, MediaTypes
      <3> QED  BY <1>3, <1>4, <2>2, <3>1 DEF MediaInv, TakersKnow, Knows
    <2>3. CASE u # t /\ takers[u].file = f
      BY <1>3, <1>4, <1>5, <2>3 DEF MediaInv, TakersKnow, Knows, Saves
    <2> QED  BY <2>1, <2>2, <2>3
  <1>8. OnDisk' /\ InMind'
    BY <1>1, <1>3, <1>4, <1>5 DEF MediaInv, OnDisk, InMind
  <1> QED  BY <1>2, <1>6, <1>7, <1>8 DEF MediaInv

LEMMA DataSavedKeeps ==
    ASSUME MediaInv, NEW t \in Takers, DataSaved(t)
    PROVE  MediaInv'
  <1> DEFINE f == takers[t].file
             others == \E u \in Takers \ {t} : takers[u].at = "writing" /\ takers[u].file = f
             now == [data |-> IF others THEN "part" ELSE "whole", meta |-> FALSE]
  <1>1. /\ takers[t].at = "writing" /\ f \in MediaFiles /\ UNCHANGED <<memory, rewritten>>
        /\ takers' = [takers EXCEPT ![t].at = "describing"]
        /\ disk' = [disk EXCEPT ![f] = now]
    BY DEF DataSaved, MediaInv, MediaTypes
  <1>2. f \notin rewritten => \A u \in Takers \ {t} : ~(Saves(u) /\ takers[u].file = f)
    BY <1>1 DEF MediaInv, OneSaves, Saves
  <1>3. now.meta = FALSE /\ (f \notin rewritten => now.data = "whole")
        /\ now \in [data : {"none", "part", "whole"}, meta : BOOLEAN]
    BY <1>2 DEF Saves
  <1> HIDE DEF now
  <1>4. MediaTypes'
    BY <1>1, <1>3 DEF MediaInv, MediaTypes, Taker
  <1>5. /\ takers'[t].at = "describing" /\ takers'[t].file = f
        /\ \A u \in Takers \ {t} : takers'[u] = takers[u]
        /\ disk'[f] = now /\ \A g \in MediaFiles \ {f} : disk'[g] = disk[g]
    BY <1>1 DEF MediaInv, MediaTypes, Taker
  <1>6. OneSaves'
    BY <1>1, <1>2, <1>5 DEF MediaInv, OneSaves, Saves
  <1>7. TakersKnow'
    <2> SUFFICES ASSUME NEW u \in Takers, takers'[u].file \notin rewritten
                 PROVE  Knows(u)'
      BY <1>1 DEF TakersKnow, Knows
    <2>1. CASE u = t
      BY <1>1, <1>3, <1>5, <2>1 DEF Knows
    <2>2. CASE u # t /\ takers[u].file # f
      <3>1. takers[u].at # "away" => disk'[takers[u].file] = disk[takers[u].file]
        BY <1>5, <2>2 DEF MediaInv, MediaTypes
      <3> QED  BY <1>1, <1>5, <2>2, <3>1 DEF MediaInv, TakersKnow, Knows
    <2>3. CASE u # t /\ takers[u].file = f
      <3>1. ~disk[f].meta
        BY <1>1, <1>5, <2>3 DEF MediaInv, TakersKnow, Knows
      <3> QED  BY <1>1, <1>2, <1>5, <2>3, <3>1 DEF MediaInv, TakersKnow, Knows, Saves
    <2> QED  BY <2>1, <2>2, <2>3
  <1>8. OnDisk' /\ InMind'
    BY <1>1, <1>3, <1>5 DEF MediaInv, OnDisk, InMind
  <1> QED  BY <1>4, <1>6, <1>7, <1>8 DEF MediaInv

LEMMA MetaSavedKeeps ==
    ASSUME MediaInv, NEW t \in Takers, MetaSaved(t)
    PROVE  MediaInv'
  <1> DEFINE f == takers[t].file
  <1>1. /\ takers[t].at = "describing" /\ f \in MediaFiles /\ rewritten' = rewritten /\ Over(t)
        /\ disk' = [disk EXCEPT ![f].meta = TRUE] /\ memory' = Remembered(f, TRUE)
    BY DEF MetaSaved, MediaInv, MediaTypes
  <1>2. /\ takers' \in [Takers -> Taker] /\ takers'[t].at = "away"
        /\ \A u \in Takers : takers'[u].at = "away" \/ takers'[u] = takers[u]
    BY <1>1, OverGives
  <1>3. memory' \in Seq([file : MediaFiles, whole : BOOLEAN]) /\ InMind'
    BY <1>1, RememberedKeeps
  <1>4. disk' \in [MediaFiles -> [data : {"none", "part", "whole"}, meta : BOOLEAN]]
        /\ disk'[f].data = disk[f].data /\ \A g \in MediaFiles \ {f} : disk'[g] = disk[g]
    BY <1>1 DEF MediaInv, MediaTypes
  <1>5. MediaTypes'
    BY <1>2, <1>3, <1>4 DEF MediaInv, MediaTypes
  <1>6. OneSaves'
    BY <1>1, <1>2 DEF MediaInv, OneSaves, Saves
  <1>7. f \notin rewritten => disk[f].data = "whole" /\ \A u \in Takers \ {t} : ~(Saves(u) /\ takers[u].file = f)
    BY <1>1 DEF MediaInv, TakersKnow, Knows, OneSaves, Saves
  <1>8. TakersKnow'
    <2> SUFFICES ASSUME NEW u \in Takers, takers'[u].file \notin rewritten, takers'[u].at # "away"
                 PROVE  Knows(u)'
      BY <1>1 DEF TakersKnow, Knows
    <2>1. u # t /\ takers'[u] = takers[u]
      BY <1>2
    <2>2. CASE takers[u].file # f
      <3>1. disk'[takers[u].file] = disk[takers[u].file]
        BY <1>4, <2>1, <2>2 DEF MediaInv, MediaTypes
      <3> QED  BY <1>1, <2>1, <3>1 DEF MediaInv, TakersKnow, Knows
    <2>3. CASE takers[u].file = f
      <3>1. disk'[f].meta
        BY <1>1 DEF MediaInv, MediaTypes
      <3> QED  BY <1>1, <1>7, <2>1, <2>3, <3>1 DEF Saves, Knows
    <2> QED  BY <2>2, <2>3
  <1>9. OnDisk'
    BY <1>1, <1>4, <1>7 DEF MediaInv, OnDisk
  <1> QED  BY <1>3, <1>5, <1>6, <1>8, <1>9 DEF MediaInv

LEMMA StopKeeps == MediaInv /\ Stop => MediaInv'
  <1> SUFFICES ASSUME MediaInv, Stop
               PROVE  MediaInv'
    OBVIOUS
  <1>1. memory' = <<>> /\ UNCHANGED <<disk, rewritten>> /\ takers' = [t \in Takers |-> Away]
    BY DEF Stop
  <1>2. MediaTypes'
    BY <1>1, AwayTypes DEF MediaInv, MediaTypes
  <1>3. OneSaves' /\ TakersKnow'
    BY <1>1, AwayTypes DEF OneSaves, Saves, TakersKnow, Knows
  <1> QED  BY <1>1, <1>2, <1>3 DEF MediaInv, OnDisk, InMind

LEMMA MediaNextKeeps == MediaInv /\ [MediaNext]_mdVars => MediaInv'
  <1> SUFFICES ASSUME MediaInv, [MediaNext]_mdVars
               PROVE  MediaInv'
    OBVIOUS
  <1>1. CASE UNCHANGED mdVars
    BY <1>1 DEF mdVars, MediaInv, MediaTypes, OneSaves, Saves, TakersKnow, Knows, OnDisk, InMind
  <1>2. ASSUME NEW t \in Takers, NEW f \in MediaFiles,
               Upload(t, f) \/ EnsureStored(t, f) \/ HandleMediaProxy(t, f)
        PROVE  MediaInv'
    BY <1>2, AskKeeps DEF EnsureStored, HandleMediaProxy
  <1> QED  BY <1>1, <1>2, ReadMetaKeeps, ReadDataKeeps, EndKeeps, SaveDataKeeps, DataSavedKeeps,
              MetaSavedKeeps, StopKeeps DEF MediaNext

LEMMA MediaInitHolds == MediaInit => MediaInv
  <1> SUFFICES ASSUME MediaInit
               PROVE  MediaInv
    OBVIOUS
  <1>1. MediaTypes
    BY AwayTypes DEF MediaInit, MediaTypes
  <1> QED
    BY <1>1, AwayTypes DEF MediaInit, MediaInv, OneSaves, Saves, TakersKnow, Knows, OnDisk, InMind

\* MediaStorage: what is found on disk or in memory is the whole file, whoever asked,
\* wherever the process stopped or the disk failed, unless two saved a medium at a
\* time or it was saved again.
THEOREM MediaAreWhole == MediaSpec => []WholeMedia
  <1>1. MediaInv => WholeMedia
    BY DEF MediaInv, OnDisk, InMind, WholeMedia
  <1> QED  BY <1>1, MediaInitHolds, MediaNextKeeps, PTL DEF MediaSpec

-----------------------------------------------------------------------------
(* Quality: the reviews of a case *)

Statuses == {"pending", "ready", "failed", "reviewed"}
Keys == {"none", "auto", "on_demand", "batch"}
Row == [key : Keys, status : Statuses, claimed : BOOLEAN, total : Nat, analyzed : Nat, scores : Nat]
Points == {"asleep", "watch", "wait", "again", "ending", "claim", "load", "judge"}

QualityTypes ==
    /\ reviews \in Seq(Row) /\ chunks \in Nat /\ marking \in {0} \cup ReviewIds
    /\ drain \in [at : Points, on : {0} \cup ReviewIds, copy : Row, all : Nat]
    /\ drain.at \in {"load", "judge"} => drain.on # 0

\* A row, or a copy of one, counts each chunk once, and a row that is done, all of them.
Counts(kept, all) == kept.analyzed = kept.scores /\ kept.analyzed <= kept.total /\ kept.total <= all
Done(kept) == kept.status \in {"ready", "reviewed"}
RowsCount ==
    \A i \in ReviewIds \ renewed :
        /\ Counts(reviews[i], chunks)
        /\ Done(reviews[i]) => reviews[i].analyzed = reviews[i].total

\* Nobody else settles the row the worker is at, and its copy counts as the row does.
WorkerKnows ==
    drain.at \in {"load", "judge"} /\ drain.on \notin renewed =>
        /\ reviews[drain.on].status = "pending"
        /\ drain.at = "judge" => Counts(drain.copy, drain.all) /\ drain.all <= chunks

\* A row that is being marked is done.
MarkedIsDone == marking # 0 /\ marking \notin renewed => Done(reviews[marking])

QualityInv == QualityTypes /\ RowsCount /\ WorkerKnows /\ MarkedIsDone

-----------------------------------------------------------------------------
(* The rows *)

LEMMA Ids == ASSUME NEW kept \in Seq(Row) PROVE DOMAIN kept = 1..Len(kept) /\ Len(kept) \in Nat
  OBVIOUS

LEMMA NewReviewIs ==
    ASSUME NEW key \in Keys
    PROVE  /\ NewReview(key) \in Row /\ NewReview(key).status = "pending"
           /\ NewReview(key).analyzed = 0 /\ NewReview(key).scores = 0 /\ NewReview(key).total = 0
  BY DEF NewReview, Row, Statuses

LEMMA AwakeIs ==
    /\ Asleep \in [at : Points, on : {0} \cup ReviewIds, copy : Row, all : Nat] /\ Asleep.at = "asleep"
    /\ Awake \in [at : Points, on : {0} \cup ReviewIds, copy : Row, all : Nat] /\ Awake.at = "watch"
  <1>1. NoReview \in Row
    BY NewReviewIs DEF NoReview, Keys
  <1>2. /\ Asleep \in [at : Points, on : {0} \cup ReviewIds, copy : Row, all : Nat]
        /\ Asleep.at = "asleep"
    BY <1>1 DEF Asleep, Points
  <1> QED  BY <1>2 DEF Awake, Points

LEMMA OutcomeIsRow ==
    ASSUME NEW kept \in Row, NEW copy \in Row, NEW all \in Nat, NEW judged \in BOOLEAN
    PROVE  Outcome(kept, copy, all, judged) \in Row
  <1>1. ASSUME NEW t \in Nat, NEW a \in Nat, NEW s \in Nat
        PROVE  MarkReady(kept, t, a, s) \in Row /\ SaveChunkProgress(kept, t, a, s) \in Row
    BY DEF MarkReady, SaveChunkProgress, Row, Statuses
  <1>2. MarkFailed(kept) \in Row
    BY DEF MarkFailed, Row, Statuses
  <1>3. /\ copy.scores \in Nat /\ copy.analyzed \in Nat /\ copy.total \in Nat
        /\ \A a, b \in Nat : Larger(a, b) \in Nat
        /\ \A a \in Nat : a + 1 \in Nat
    BY DEF Row, Larger
  <1>4. ASSUME NEW t \in Nat, NEW a \in Nat, NEW s \in Nat
        PROVE  AfterChunk(kept, t, a, s) \in Row
    BY <1>1 DEF AfterChunk
  <1>5. ASSUME NEW t \in Nat, NEW a \in Nat
        PROVE  FinalizeFromExisting(kept, copy, t, a) \in Row
    BY <1>1, <1>3 DEF FinalizeFromExisting
  <1> QED  BY <1>2, <1>3, <1>4, <1>5 DEF Outcome

\* What the worker makes of a row counts each chunk once; `most' are the chunks now.
LEMMA OutcomeCounts ==
    ASSUME NEW kept \in Row, NEW copy \in Row, NEW all \in Nat, NEW most \in Nat, NEW judged \in BOOLEAN,
           Counts(kept, most) /\ Counts(copy, all) /\ all <= most
    PROVE  /\ Counts(Outcome(kept, copy, all, judged), most)
           /\ Done(Outcome(kept, copy, all, judged)) =>
                Outcome(kept, copy, all, judged).analyzed = Outcome(kept, copy, all, judged).total
  <1>1. copy.scores \in Nat /\ copy.analyzed \in Nat /\ copy.total \in Nat
    BY DEF Row
  <1>2. PICK total \in Nat : total = (IF copy.total > 0 THEN copy.total ELSE all)
    BY <1>1
  <1>3. PICK now \in Nat : now = (IF copy.analyzed < all THEN copy.analyzed ELSE all)
    BY <1>1
  <1>4. PICK more \in Nat : more = (IF total > all THEN total ELSE all)
    OBVIOUS
  <1>5. PICK final \in Nat : final = (IF now > total THEN now ELSE total)
    OBVIOUS
  <1>6. PICK rated \in Nat : rated = (IF copy.scores > 1 THEN copy.scores ELSE 1)
    BY <1>1
  <1>7. PICK next \in Nat : next = now + 1
    OBVIOUS
  <1>8. PICK score \in Nat : score = copy.scores + 1
    BY <1>1
  <1>9. PICK out : out = Outcome(kept, copy, all, judged)
    OBVIOUS
  <1>10. Larger(total, all) = more /\ Larger(now, total) = final /\ Larger(copy.scores, 1) = rated
    BY <1>1, <1>4, <1>5, <1>6 DEF Larger
  <1>11. out = IF total = 0 THEN MarkFailed(kept)
              ELSE IF now >= total \/ now >= all THEN MarkReady(kept, total, final, rated)
              ELSE IF judged
                   THEN IF next >= more THEN MarkReady(kept, more, next, score)
                        ELSE SaveChunkProgress(kept, more, next, score)
              ELSE MarkFailed(kept)
    BY <1>2, <1>3, <1>7, <1>8, <1>9, <1>10 DEF Outcome, AfterChunk, FinalizeFromExisting
  <1> SUFFICES Counts(out, most) /\ (Done(out) => out.analyzed = out.total)
    BY <1>9
  <1>12. CASE out = MarkFailed(kept)
    BY <1>12 DEF Counts, Done, MarkFailed, Row
  <1>13. CASE total # 0 /\ (now >= total \/ now >= all)
    <2>1. /\ out.analyzed = final /\ out.scores = rated /\ out.total = total
      BY <1>11, <1>13 DEF MarkReady, Row
    <2> QED  BY <1>1, <1>2, <1>3, <1>5, <1>6, <1>13, <2>1 DEF Counts
  <1>14. CASE total # 0 /\ ~(now >= total \/ now >= all) /\ judged
    <2>1. next = score /\ next <= more /\ more <= most
      BY <1>1, <1>2, <1>3, <1>4, <1>7, <1>8, <1>14 DEF Counts
    <2>2. CASE next >= more
      <3>1. /\ out.analyzed = next /\ out.scores = score /\ out.total = more
        BY <1>11, <1>14, <2>2 DEF MarkReady, Row
      <3> QED  BY <2>1, <2>2, <3>1 DEF Counts
    <2>3. CASE ~(next >= more)
      <3>1. /\ out.analyzed = next /\ out.scores = score /\ out.total = more /\ out.status = "pending"
        BY <1>11, <1>14, <2>3 DEF SaveChunkProgress, Row
      <3> QED  BY <2>1, <3>1 DEF Counts, Done
    <2> QED  BY <2>2, <2>3
  <1> QED  BY <1>11, <1>12, <1>13, <1>14

-----------------------------------------------------------------------------
(* A step: the rows it may write, and the worker it leaves alone *)

Same(i) ==
    /\ reviews'[i].analyzed = reviews[i].analyzed /\ reviews'[i].scores = reviews[i].scores
    /\ reviews'[i].total = reviews[i].total /\ (Done(reviews'[i]) <=> Done(reviews[i]))
Fresh(i) ==
    reviews'[i].analyzed = 0 /\ reviews'[i].scores = 0 /\ reviews'[i].total = 0

LEMMA RowsKeep ==
    ASSUME QualityInv, QualityTypes', chunks <= chunks', renewed \subseteq renewed', WorkerKnows',
           \A i \in ReviewIds' \ renewed' : Fresh(i) \/ (i \in ReviewIds /\ Same(i)),
           ReviewIds \subseteq ReviewIds',
           \A i \in ReviewIds \ renewed' : Same(i),
           marking' \in {0, marking} \/ Done(reviews'[marking'])
    PROVE  QualityInv'
  <1>1. RowsCount'
    <2> SUFFICES ASSUME NEW i \in ReviewIds' \ renewed'
                 PROVE  /\ Counts(reviews'[i], chunks')
                        /\ Done(reviews'[i]) => reviews'[i].analyzed = reviews'[i].total
      BY DEF RowsCount
    <2>1. reviews'[i] \in Row /\ chunks' \in Nat /\ chunks \in Nat
      BY DEF QualityTypes, QualityInv, ReviewIds
    <2>2. CASE Fresh(i)
      BY <2>1, <2>2 DEF Fresh, Counts
    <2>3. CASE i \in ReviewIds /\ Same(i)
      <3>1. reviews[i] \in Row
        BY <2>3 DEF QualityTypes, QualityInv, ReviewIds
      <3> QED  BY <2>1, <2>3, <3>1 DEF QualityInv, RowsCount, Same, Counts, Row
    <2> QED  BY <2>2, <2>3
  <1>2. MarkedIsDone'
    BY DEF QualityInv, QualityTypes, MarkedIsDone, Same
  <1> QED  BY <1>1, <1>2 DEF QualityInv

LEMMA WorkerStays ==
    ASSUME QualityInv, chunks \in Nat, chunks' \in Nat, chunks <= chunks', renewed \subseteq renewed',
           \/ drain'.at \notin {"load", "judge"}
           \/ drain' = drain /\ \A i \in ReviewIds \ renewed' :
                                reviews[i].status = "pending" => reviews'[i].status = "pending"
    PROVE  WorkerKnows'
  BY DEF QualityInv, QualityTypes, WorkerKnows

\* What wakes the worker does not disturb it at work.
LEMMA ScheduleRunGives ==
    ASSUME QualityInv, ScheduleRun
    PROVE  /\ drain' \in [at : Points, on : {0} \cup ReviewIds, copy : Row, all : Nat]
           /\ drain' = drain \/ drain'.at \in {"watch", "again"}
  <1>1. Awake \in [at : Points, on : {0} \cup ReviewIds, copy : Row, all : Nat] /\ Awake.at = "watch"
    BY AwakeIs
  <1> QED  BY <1>1 DEF QualityInv, QualityTypes, ScheduleRun, Points

LEMMA AppendRow ==
    ASSUME reviews \in Seq(Row), NEW new \in Row, reviews' = Append(reviews, new)
    PROVE  /\ reviews' \in Seq(Row) /\ ReviewIds \subseteq ReviewIds'
           /\ \A i \in ReviewIds : reviews'[i] = reviews[i]
           /\ \A i \in ReviewIds' : i \in ReviewIds \/ reviews'[i] = new
  BY AppendProperties, LenProperties DEF ReviewIds

LEMMA WriteRow ==
    ASSUME reviews \in Seq(Row), NEW i \in ReviewIds, NEW new \in Row,
           reviews' = [reviews EXCEPT ![i] = new]
    PROVE  /\ reviews' \in Seq(Row) /\ ReviewIds' = ReviewIds /\ reviews'[i] = new
           /\ \A j \in ReviewIds \ {i} : reviews'[j] = reviews[j]
  BY DEF ReviewIds

LEMMA CreateKeeps ==
    ASSUME QualityInv, NEW key \in Keys,
           CreatePending(key) \/ (key = "batch" /\ BatchEnqueue)
    PROVE  QualityInv'
  <1>1. /\ ScheduleRun /\ UNCHANGED <<chunks, marking, renewed>>
        /\ reviews' = reviews \/ reviews' = Append(reviews, NewReview(key))
    BY DEF CreatePending, BatchEnqueue, Requested
  <1>2. drain' \in [at : Points, on : {0} \cup ReviewIds, copy : Row, all : Nat]
        /\ (drain' = drain \/ drain'.at \in {"watch", "again"})
    BY <1>1, ScheduleRunGives
  <1>3. /\ reviews' \in Seq(Row) /\ ReviewIds \subseteq ReviewIds'
        /\ \A i \in ReviewIds : reviews'[i] = reviews[i]
        /\ \A i \in ReviewIds' : i \in ReviewIds \/ reviews'[i] = NewReview(key)
    BY <1>1, AppendRow, NewReviewIs DEF QualityInv, QualityTypes, ReviewIds
  <1>4. QualityTypes'
    BY <1>1, <1>2, <1>3 DEF QualityInv, QualityTypes
  <1>5. WorkerKnows'
    BY <1>1, <1>2, <1>3, WorkerStays DEF QualityInv, QualityTypes
  <1>6. \A i \in ReviewIds : Same(i)
    BY <1>3 DEF Same
  <1>7. \A i \in ReviewIds' : Fresh(i) \/ (i \in ReviewIds /\ Same(i))
    BY <1>3, <1>6, NewReviewIs DEF Fresh
  <1> QED  BY <1>1, <1>3, <1>4, <1>5, <1>6, <1>7, RowsKeep DEF QualityInv, QualityTypes

LEMMA RequestOnDemandKeeps == QualityInv /\ RequestOnDemand => QualityInv'
  <1> SUFFICES ASSUME QualityInv, RequestOnDemand, reviews # <<>>
               PROVE  QualityInv'
    <2>1. ASSUME QualityInv, CreatePending("on_demand")
          PROVE  QualityInv'
      BY <2>1, CreateKeeps DEF Keys
    <2> QED  BY <2>1 DEF RequestOnDemand
  <1>1. /\ ScheduleRun /\ UNCHANGED <<chunks, marking, renewed>>
        /\ \/ reviews' = reviews
           \/ reviews[Latest].status = "failed" /\ reviews' = [reviews EXCEPT ![Latest] = Reopened(reviews[Latest])]
    BY DEF RequestOnDemand, Requested
  <1>2. Latest \in ReviewIds /\ reviews \in Seq(Row)
    BY DEF QualityInv, QualityTypes, Latest, ReviewIds
  <1>3. reviews[Latest] \in Row
    BY <1>2 DEF ReviewIds
  <1>9. Reopened(reviews[Latest]) \in Row
    BY <1>3 DEF Reopened, Row, Statuses
  <1>4. drain' \in [at : Points, on : {0} \cup ReviewIds, copy : Row, all : Nat]
        /\ (drain' = drain \/ drain'.at \in {"watch", "again"})
    BY <1>1, ScheduleRunGives
  <1>5. /\ reviews' \in Seq(Row) /\ ReviewIds' = ReviewIds
        /\ \A i \in ReviewIds : reviews'[i] = reviews[i]
                 \/ (reviews[i].status = "failed" /\ reviews'[i] = Reopened(reviews[i]))
    BY <1>1, <1>2, <1>3, <1>9, WriteRow DEF ReviewIds
  <1>6. QualityTypes'
    BY <1>1, <1>4, <1>5 DEF QualityInv, QualityTypes
  <1>7. WorkerKnows'
    BY <1>1, <1>4, <1>5, WorkerStays DEF QualityInv, QualityTypes
  <1>8. \A i \in ReviewIds : Same(i)
    <2> SUFFICES ASSUME NEW i \in ReviewIds
                 PROVE  Same(i)
      OBVIOUS
    <2>1. reviews[i] \in Row
      BY <1>2 DEF ReviewIds
    <2>2. /\ Reopened(reviews[i]).analyzed = reviews[i].analyzed
          /\ Reopened(reviews[i]).scores = reviews[i].scores
          /\ Reopened(reviews[i]).total = reviews[i].total /\ Reopened(reviews[i]).status = "pending"
      BY <2>1 DEF Reopened, Row
    <2> QED  BY <1>5, <2>1, <2>2 DEF Same, Done
  <1> QED  BY <1>1, <1>5, <1>6, <1>7, <1>8, RowsKeep DEF QualityInv, QualityTypes

\* A row that is reset is out of the account.
LEMMA ReanalyzeKeeps == QualityInv /\ Reanalyze => QualityInv'
  <1> SUFFICES ASSUME QualityInv, NEW i \in ReviewIds,
                      Requested, ScheduleRun, renewed' = renewed \cup {i},
                      reviews' = [reviews EXCEPT ![i] =
                                    [reviews[i] EXCEPT !.status = "pending", !.claimed = FALSE, !.analyzed = 0]]
               PROVE  QualityInv'
    BY DEF Reanalyze
  <1> DEFINE new == [reviews[i] EXCEPT !.status = "pending", !.claimed = FALSE, !.analyzed = 0]
  <1>1. UNCHANGED <<chunks, marking>> /\ reviews \in Seq(Row)
    BY DEF Requested, QualityInv, QualityTypes
  <1>2. reviews[i] \in Row
    BY <1>1 DEF ReviewIds
  <1>3. new \in Row
    BY <1>2 DEF Row, Statuses
  <1>4. reviews' = [reviews EXCEPT ![i] = new]
    OBVIOUS
  <1> HIDE DEF new
  <1>5. /\ reviews' \in Seq(Row) /\ ReviewIds' = ReviewIds
        /\ \A j \in ReviewIds \ {i} : reviews'[j] = reviews[j]
    BY <1>1, <1>3, <1>4, WriteRow
  <1>6. drain' \in [at : Points, on : {0} \cup ReviewIds, copy : Row, all : Nat]
        /\ (drain' = drain \/ drain'.at \in {"watch", "again"})
    BY ScheduleRunGives
  <1>7. QualityTypes'
    BY <1>1, <1>5, <1>6 DEF QualityInv, QualityTypes
  <1>8. WorkerKnows'
    BY <1>1, <1>5, <1>6, WorkerStays DEF QualityInv, QualityTypes
  <1>9. \A j \in ReviewIds \ renewed' : Same(j)
    BY <1>5 DEF Same
  <1> QED  BY <1>1, <1>5, <1>7, <1>8, <1>9, RowsKeep DEF QualityInv, QualityTypes

LEMMA MarkReviewedKeeps == QualityInv /\ MarkReviewed => QualityInv'
  <1> SUFFICES ASSUME QualityInv, MarkReviewed
               PROVE  QualityInv'
    OBVIOUS
  <1> DEFINE new == [reviews[marking] EXCEPT !.status = "reviewed"]
  <1>1. /\ marking \in ReviewIds /\ marking' = 0 /\ reviews' = [reviews EXCEPT ![marking] = new]
        /\ UNCHANGED <<chunks, drain, renewed>> /\ reviews \in Seq(Row)
    BY DEF MarkReviewed, QualityInv, QualityTypes
  <1>2. reviews[marking] \in Row
    BY <1>1 DEF ReviewIds
  <1>3. /\ new \in Row /\ new.status = "reviewed" /\ new.analyzed = reviews[marking].analyzed
        /\ new.scores = reviews[marking].scores /\ new.total = reviews[marking].total
    BY <1>2 DEF Row, Statuses
  <1> HIDE DEF new
  <1>4. /\ reviews' \in Seq(Row) /\ ReviewIds' = ReviewIds /\ reviews'[marking] = new
        /\ \A j \in ReviewIds \ {marking} : reviews'[j] = reviews[j]
    BY <1>1, <1>3, WriteRow
  <1>5. QualityTypes'
    BY <1>1, <1>4 DEF QualityInv, QualityTypes
  <1>6. marking \notin renewed => Done(reviews[marking])
    BY <1>1 DEF QualityInv, QualityTypes, MarkedIsDone, MarkReviewed
  <1>7. \A j \in ReviewIds \ renewed' : Same(j)
    BY <1>1, <1>3, <1>4, <1>6 DEF Same, Done
  <1>8. \A j \in ReviewIds \ renewed : reviews[j].status = "pending" => reviews'[j].status = "pending"
    BY <1>4, <1>6 DEF Done
  <1>9. WorkerKnows'
    BY <1>1, <1>8, WorkerStays DEF QualityInv, QualityTypes
  <1> QED  BY <1>1, <1>4, <1>5, <1>7, <1>9, RowsKeep DEF QualityInv, QualityTypes

\* The steps that write no row.
LEMMA RowsStayKeeps ==
    ASSUME QualityInv, reviews' = reviews, renewed' = renewed, chunks <= chunks', chunks' \in Nat,
           drain' \in [at : Points, on : {0} \cup ReviewIds, copy : Row, all : Nat],
           drain' = drain \/ drain'.at \notin {"load", "judge"},
           marking' = 0 \/ marking' = marking \/ (marking' \in ReviewIds /\ Done(reviews[marking']))
    PROVE  QualityInv'
  <1>1. QualityTypes' /\ ReviewIds' = ReviewIds
    BY DEF QualityInv, QualityTypes, ReviewIds
  <1>2. WorkerKnows'
    BY WorkerStays DEF QualityInv, QualityTypes
  <1>3. \A j \in ReviewIds : Same(j)
    BY DEF Same
  <1> QED  BY <1>1, <1>2, <1>3, RowsKeep

\* The worker at rest: the claims that are stale fail, or are freed by a restart.
LEMMA WatchKeeps ==
    ASSUME QualityInv, Watch \/ ReclaimPending
    PROVE  QualityInv'
  <1>1. reviews \in Seq(Row) /\ \A i \in ReviewIds : reviews[i] \in Row
    BY DEF QualityInv, QualityTypes, ReviewIds
  <1>2. UNCHANGED <<chunks, renewed>> /\ marking' \in {0, marking} /\ drain'.at \in {"watch", "claim"}
        /\ drain' \in [at : Points, on : {0} \cup ReviewIds, copy : Row, all : Nat]
    BY AwakeIs DEF Watch, DrainOnly, ReclaimPending, QualityInv, QualityTypes, Points
  <1>3. /\ DOMAIN reviews' = DOMAIN reviews
        /\ \A i \in ReviewIds :
             \/ reviews'[i] = reviews[i]
             \/ reviews'[i] = [reviews[i] EXCEPT !.claimed = FALSE]
             \/ reviews[i].status = "pending" /\ reviews'[i] = MarkFailed(reviews[i])
    BY DEF Watch, StuckPending, ReclaimPending, ReviewIds
  <1>4. ASSUME NEW i \in ReviewIds
        PROVE  reviews'[i] \in Row /\ Same(i)
    <2>1. reviews[i] \in Row
      BY <1>1
    <2>2. /\ [reviews[i] EXCEPT !.claimed = FALSE] \in Row
          /\ [reviews[i] EXCEPT !.claimed = FALSE].status = reviews[i].status
          /\ [reviews[i] EXCEPT !.claimed = FALSE].analyzed = reviews[i].analyzed
          /\ [reviews[i] EXCEPT !.claimed = FALSE].scores = reviews[i].scores
          /\ [reviews[i] EXCEPT !.claimed = FALSE].total = reviews[i].total
      BY <2>1 DEF Row
    <2>3. /\ MarkFailed(reviews[i]) \in Row /\ MarkFailed(reviews[i]).status = "failed"
          /\ MarkFailed(reviews[i]).analyzed = reviews[i].analyzed
          /\ MarkFailed(reviews[i]).scores = reviews[i].scores
          /\ MarkFailed(reviews[i]).total = reviews[i].total
      BY <2>1 DEF MarkFailed, Row, Statuses
    <2> QED  BY <1>3, <2>1, <2>2, <2>3 DEF Same, Done
  <1>5. reviews' \in Seq(Row) /\ ReviewIds' = ReviewIds
    <2>1. \E f : reviews' = [i \in 1..Len(reviews) |-> f[i]]
      <3>1. \E f : reviews' = [i \in ReviewIds |-> f[i]]
        <4>1. CASE Watch
          <5>1. PICK stale \in SUBSET StuckPending :
                  reviews' = [i \in ReviewIds |-> IF i \in stale THEN MarkFailed(reviews[i]) ELSE reviews[i]]
            BY <4>1 DEF Watch
          <5>2. reviews' = [i \in ReviewIds |-> reviews'[i]]
            BY <5>1
          <5> QED  BY <5>2
        <4>2. CASE ReclaimPending
          <5>1. reviews' = [i \in ReviewIds |-> [reviews[i] EXCEPT !.claimed = FALSE]]
            BY <4>2 DEF ReclaimPending
          <5>2. reviews' = [i \in ReviewIds |-> reviews'[i]]
            BY <5>1
          <5> QED  BY <5>2
        <4> QED  BY <4>1, <4>2
      <3> QED  BY <1>1, <3>1 DEF ReviewIds
    <2>2. \A i \in 1..Len(reviews) : reviews'[i] \in Row
      BY <1>1, <1>4 DEF ReviewIds
    <2> QED  BY <1>1, <1>3, <2>1, <2>2 DEF ReviewIds
  <1>6. QualityTypes'
    BY <1>2, <1>5 DEF QualityInv, QualityTypes
  <1>7. WorkerKnows'
    BY <1>2, WorkerStays DEF QualityInv, QualityTypes
  <1> QED  BY <1>2, <1>4, <1>5, <1>6, <1>7, RowsKeep DEF QualityInv, QualityTypes

LEMMA ClaimKeeps == QualityInv /\ Claim => QualityInv'
  <1> SUFFICES ASSUME QualityInv, NEW step \in {"claim", "again"}, NEW otherwise \in {"wait", "ending"},
                      ClaimNextPending(step, otherwise)
               PROVE  QualityInv'
    BY DEF Claim
  <1>1. UNCHANGED <<chunks, marking, renewed>> /\ reviews \in Seq(Row)
        /\ drain \in [at : Points, on : {0} \cup ReviewIds, copy : Row, all : Nat]
    BY DEF ClaimNextPending, DrainOnly, QualityInv, QualityTypes
  <1>2. CASE drain' = [drain EXCEPT !.at = otherwise] /\ UNCHANGED reviews
    <2>1. drain' \in [at : Points, on : {0} \cup ReviewIds, copy : Row, all : Nat] /\ drain'.at = otherwise
      BY <1>1, <1>2 DEF Points
    <2> QED  BY <1>1, <1>2, <2>1, RowsStayKeeps DEF QualityInv, QualityTypes
  <1>3. ASSUME NEW i \in ReviewIds, reviews[i].status = "pending",
               reviews' = [reviews EXCEPT ![i].claimed = TRUE],
               drain' = [drain EXCEPT !.at = "load", !.on = i]
        PROVE  QualityInv'
    <2> DEFINE new == [reviews[i] EXCEPT !.claimed = TRUE]
    <2>1. reviews[i] \in Row
      BY <1>1 DEF ReviewIds
    <2>2. /\ new \in Row /\ new.status = "pending" /\ new.analyzed = reviews[i].analyzed
          /\ new.scores = reviews[i].scores /\ new.total = reviews[i].total
      BY <1>3, <2>1 DEF Row
    <2>3. reviews' = [reviews EXCEPT ![i] = new]
      BY <1>3
    <2> HIDE DEF new
    <2>4. /\ reviews' \in Seq(Row) /\ ReviewIds' = ReviewIds /\ reviews'[i] = new
          /\ \A j \in ReviewIds \ {i} : reviews'[j] = reviews[j]
      BY <1>1, <2>2, <2>3, WriteRow
    <2>5. drain' \in [at : Points, on : {0} \cup ReviewIds, copy : Row, all : Nat]
          /\ drain'.at = "load" /\ drain'.on = i
      BY <1>1, <1>3 DEF Points
    <2>6. QualityTypes'
      BY <1>1, <2>4, <2>5 DEF QualityInv, QualityTypes, ReviewIds
    <2>7. WorkerKnows'
      BY <2>2, <2>4, <2>5 DEF WorkerKnows
    <2>8. \A j \in ReviewIds : Same(j)
      BY <1>3, <2>2, <2>4 DEF Same, Done
    <2> QED  BY <1>1, <2>4, <2>6, <2>7, <2>8, RowsKeep DEF QualityInv, QualityTypes
  <1> QED  BY <1>2, <1>3 DEF ClaimNextPending

LEMMA LoadKeeps == QualityInv /\ Load => QualityInv'
  <1> SUFFICES ASSUME QualityInv, Load
               PROVE  QualityInv'
    OBVIOUS
  <1>1. UNCHANGED <<chunks, marking, renewed, reviews>> /\ reviews \in Seq(Row) /\ chunks \in Nat
        /\ drain.at = "load" /\ drain.on \in ReviewIds
        /\ drain \in [at : Points, on : {0} \cup ReviewIds, copy : Row, all : Nat]
    BY DEF Load, DrainOnly, QualityInv, QualityTypes
  <1>2. CASE drain' = Awake
    BY <1>1, <1>2, AwakeIs, RowsStayKeeps
  <1>3. CASE reviews[drain.on].status = "pending"
             /\ drain' = [drain EXCEPT !.at = "judge", !.copy = reviews[drain.on], !.all = chunks]
    <2>1. reviews[drain.on] \in Row
      BY <1>1 DEF ReviewIds
    <2>2. /\ drain' \in [at : Points, on : {0} \cup ReviewIds, copy : Row, all : Nat]
          /\ drain'.at = "judge" /\ drain'.on = drain.on /\ drain'.copy = reviews[drain.on]
          /\ drain'.all = chunks
      BY <1>1, <1>3, <2>1 DEF Points
    <2>3. QualityTypes' /\ ReviewIds' = ReviewIds
      BY <1>1, <2>2 DEF QualityInv, QualityTypes, ReviewIds
    <2>4. WorkerKnows'
      BY <1>1, <1>3, <2>2 DEF QualityInv, RowsCount, WorkerKnows
    <2>5. \A j \in ReviewIds : Same(j)
      BY <1>1 DEF Same
    <2> QED  BY <1>1, <2>3, <2>4, <2>5, RowsKeep
  <1> QED  BY <1>2, <1>3 DEF Load, Fragment

LEMMA JudgeKeeps == QualityInv /\ Judge => QualityInv'
  <1> SUFFICES ASSUME QualityInv, Judge
               PROVE  QualityInv'
    OBVIOUS
  <1> DEFINE i == drain.on
  <1>1. /\ UNCHANGED <<chunks, marking, renewed>> /\ reviews \in Seq(Row) /\ chunks \in Nat
        /\ drain.at = "judge" /\ i \in ReviewIds /\ drain' = Awake /\ drain.copy \in Row
        /\ drain.all \in Nat
    BY DEF Judge, DrainOnly, QualityInv, QualityTypes
  <1>2. PICK judged \in BOOLEAN :
          reviews' = [reviews EXCEPT ![i] = Outcome(reviews[i], drain.copy, drain.all, judged)]
    BY DEF Judge
  <1> DEFINE new == Outcome(reviews[i], drain.copy, drain.all, judged)
  <1>3. reviews[i] \in Row
    BY <1>1 DEF ReviewIds
  <1>4. new \in Row
    BY <1>1, <1>3, OutcomeIsRow
  <1> HIDE DEF new
  <1>5. /\ reviews' \in Seq(Row) /\ ReviewIds' = ReviewIds /\ reviews'[i] = new
        /\ \A j \in ReviewIds \ {i} : reviews'[j] = reviews[j]
    BY <1>1, <1>2, <1>4, WriteRow DEF new
  <1>6. QualityTypes' /\ WorkerKnows'
    BY <1>1, <1>5, AwakeIs DEF QualityInv, QualityTypes, WorkerKnows
  <1>7. ASSUME i \notin renewed
        PROVE  Counts(new, chunks) /\ (Done(new) => new.analyzed = new.total) /\ marking # i
    <2>1. /\ reviews[i].status = "pending" /\ Counts(drain.copy, drain.all) /\ drain.all <= chunks
          /\ Counts(reviews[i], chunks)
      BY <1>1, <1>7 DEF QualityInv, WorkerKnows, RowsCount
    <2>2. marking # i
      BY <1>1, <1>7, <2>1 DEF QualityInv, MarkedIsDone, Done, QualityTypes
    <2>3. Counts(new, chunks) /\ (Done(new) => new.analyzed = new.total)
      BY <1>1, <1>3, <2>1, OutcomeCounts DEF new
    <2> QED  BY <2>2, <2>3
  <1>8. RowsCount'
    BY <1>1, <1>5, <1>7 DEF QualityInv, RowsCount
  <1>9. MarkedIsDone'
    BY <1>1, <1>5, <1>7 DEF QualityInv, QualityTypes, MarkedIsDone
  <1> QED  BY <1>6, <1>8, <1>9 DEF QualityInv

LEMMA QualityNextKeeps == QualityInv /\ [QualityNext]_qaVars => QualityInv'
  <1> SUFFICES ASSUME QualityInv, [QualityNext]_qaVars
               PROVE  QualityInv'
    OBVIOUS
  <1>1. /\ drain \in [at : Points, on : {0} \cup ReviewIds, copy : Row, all : Nat]
        /\ chunks \in Nat /\ marking \in {0} \cup ReviewIds
    BY DEF QualityInv, QualityTypes
  <1>2. CASE UNCHANGED qaVars
    BY <1>1, <1>2, RowsStayKeeps DEF qaVars
  <1>3. CASE TryAutoEnqueue \/ BatchEnqueue
    BY <1>3, CreateKeeps DEF TryAutoEnqueue, Keys
  <1>4. CASE ListEligible \/ FindPending
    BY <1>1, <1>4, RowsStayKeeps DEF ListEligible, Requested, FindPending
  <1>5. CASE \E i \in ReviewIds : ReadForReview(i)
    BY <1>1, <1>5, RowsStayKeeps DEF ReadForReview, Done
  <1>6. CASE MoreMessages
    BY <1>1, <1>6, RowsStayKeeps DEF MoreMessages
  <1>7. CASE WaitOver \/ EndLoop
    <2>1. /\ UNCHANGED <<reviews, renewed, chunks, marking>> /\ drain'.at \in {"again", "asleep"}
          /\ drain' \in [at : Points, on : {0} \cup ReviewIds, copy : Row, all : Nat]
      BY <1>1, <1>7, AwakeIs DEF WaitOver, EndLoop, DrainOnly, Points
    <2> QED  BY <1>1, <2>1, RowsStayKeeps
  <1>8. CASE DatabaseError
    <2>1. /\ UNCHANGED <<reviews, renewed, chunks, marking>> /\ drain' \in {Awake, Asleep}
      BY <1>8 DEF DatabaseError
    <2> QED  BY <1>1, <2>1, AwakeIs, RowsStayKeeps
  <1> QED
    BY <1>2, <1>3, <1>4, <1>5, <1>6, <1>7, <1>8, RequestOnDemandKeeps, ReanalyzeKeeps,
       MarkReviewedKeeps, WatchKeeps, ClaimKeeps, LoadKeeps, JudgeKeeps DEF QualityNext, Draining

LEMMA QualityInitHolds == QualityInit => QualityInv
  <1> SUFFICES ASSUME QualityInit
               PROVE  QualityInv
    OBVIOUS
  <1>1. reviews = <<>> /\ marking = 0 /\ drain = Asleep /\ chunks \in 0..MaxChunks /\ ReviewIds = {}
    BY DEF QualityInit, ReviewIds
  <1>2. chunks \in Nat
    BY <1>1
  <1>3. QualityTypes
    BY <1>1, <1>2, AwakeIs DEF QualityTypes
  <1> QED  BY <1>1, <1>3, AwakeIs DEF QualityInv, RowsCount, WorkerKnows, MarkedIsDone

\* RunQualityAnalysis: a review that is done rests on every chunk of the case once,
\* through failed chunks, errors and restarts, unless it was reset on request.
THEOREM ReviewsAreJudgedOnce == QualitySpec => []JudgedOnce
  <1>1. QualityInv => JudgedOnce
    BY DEF QualityInv, RowsCount, Counts, Done, JudgedOnce
  <1> QED  BY <1>1, QualityInitHolds, QualityNextKeeps, PTL DEF QualitySpec

-----------------------------------------------------------------------------
(* Prompt versions: what transactions write and lock *)

EditStages == {"none", "insert", "list", "archive", "archiving", "commit", "committed"}
Writes == UNION {[D -> VersionStatuses] : D \in SUBSET Versions}
Edit == [at : EditStages, version : 0..MaxVersions, as : {"DRAFT", "PUBLISHED", "EXISTING"},
         got : 0..MaxVersions, todo : SUBSET Versions, writes : Writes, alone : BOOLEAN]

PromptTypes ==
    /\ versions \in [Versions -> VersionStatuses \cup {"none"}]
    /\ active \in 0..MaxVersions /\ cached \in NotCached..MaxVersions /\ tidied \in BOOLEAN
    /\ edits \in [Editors -> Edit]

\* What a transaction has written when it has come so far.
WritesOf(e) ==
    /\ edits[e].at \in {"none", "insert", "list", "committed"} => DOMAIN edits[e].writes = {}
    /\ edits[e].as # "DRAFT" =>
          \A v \in DOMAIN edits[e].writes :
              edits[e].writes[v] = IF v = edits[e].version THEN "PUBLISHED" ELSE "ARCHIVED"
    /\ edits[e].at \in {"archive", "archiving", "commit"} /\ edits[e].as = "PUBLISHED" =>
          edits[e].version \in DOMAIN edits[e].writes
    /\ edits[e].at = "commit" /\ edits[e].as = "DRAFT" =>
          /\ DOMAIN edits[e].writes = {edits[e].version}
          /\ edits[e].writes[edits[e].version] = "DRAFT" /\ edits[e].version \notin Existing
StageOf(e) ==
    /\ edits[e].at \in {"insert", "archive", "archiving", "commit"} => edits[e].version \in Versions
    /\ edits[e].at \in {"insert", "commit"} => edits[e].as # "EXISTING"
    /\ edits[e].at \in {"list", "archive", "archiving"} => edits[e].as # "DRAFT"
    /\ edits[e].version \notin edits[e].todo
    /\ edits[e].at # "archiving" => edits[e].todo = {}
\* A publication that is alone has found every published version but its own.
Found(e) ==
    Publishing(e) /\ edits[e].alone /\ edits[e].at \in {"archiving", "commit"} =>
        \A v \in Existing : versions[v] = "PUBLISHED" /\ v # edits[e].version =>
            v \in edits[e].todo \cup DOMAIN edits[e].writes
Sound(e) == WritesOf(e) /\ StageOf(e) /\ Found(e)

\* A row is written by one transaction at a time.
RowLocks ==
    \A e, o \in Editors : e # o => DOMAIN edits[e].writes \cap DOMAIN edits[o].writes = {}
AloneIsAlone ==
    \A e, o \in Editors : e # o /\ Publishing(e) /\ edits[e].alone => ~Publishing(o)

PromptInv ==
    /\ PromptTypes /\ (\A e \in Editors : Sound(e)) /\ RowLocks /\ AloneIsAlone
    /\ ActiveIsPublished

-----------------------------------------------------------------------------

LEMMA NewestIs ==
    ASSUME NEW vs \in SUBSET Versions, vs # {}
    PROVE  Newest(vs) \in vs /\ \A o \in vs : o <= Newest(vs)
  <1> DEFINE below == {MaxVersions - v : v \in vs}
  <1>1. MaxVersions \in Nat /\ \A v \in vs : v \in 1..MaxVersions
    BY MaxVersionsAssumption DEF Versions
  <1>2. below \subseteq Nat /\ below # {}
    BY <1>1
  <1>3. PICK x \in below : \A y \in below : <<y, x>> \notin OpToRel(<, Nat)
    <2> HIDE DEF below
    <2> QED  BY <1>2, NatLessThanWellFounded, WFMin
  <1>4. PICK top \in vs : x = MaxVersions - top
    OBVIOUS
  <1>5. ASSUME NEW o \in vs PROVE o <= top
    <2>1. MaxVersions - o \in below
      OBVIOUS
    <2>2. ~(MaxVersions - o < MaxVersions - top)
      BY <1>2, <1>3, <1>4, <2>1 DEF OpToRel
    <2> QED  BY <1>1, <2>2
  <1> QED  BY <1>5 DEF Newest

LEMMA VersionIsNumber == \A v \in Versions : v \in 0..MaxVersions
  BY MaxVersionsAssumption DEF Versions

LEMMA WritesHas ==
    ASSUME NEW w \in Writes, NEW v \in Versions, NEW s \in VersionStatuses
    PROVE  WithRow(w, v, s) \in Writes
  <1>1. PICK D \in SUBSET Versions : w \in [D -> VersionStatuses]
    BY DEF Writes
  <1>2. WithRow(w, v, s) \in [D \cup {v} -> VersionStatuses]
    BY <1>1 DEF WithRow
  <1>3. D \cup {v} \in SUBSET Versions
    BY <1>1
  <1> QED  BY <1>2, <1>3 DEF Writes

LEMMA NothingWritten == <<>> \in Writes /\ DOMAIN <<>> = {}
  <1>1. <<>> \in [{} -> VersionStatuses]
    OBVIOUS
  <1> QED  BY <1>1 DEF Writes

LEMMA NoEditIs ==
    /\ NoEdit \in Edit /\ NoEdit.at = "none" /\ NoEdit.as = "DRAFT" /\ NoEdit.version = 0
    /\ NoEdit.todo = {} /\ NoEdit.writes = <<>>
  BY NothingWritten, MaxVersionsAssumption DEF NoEdit, Edit, EditStages

\* A step of one transaction that commits nothing.
LEMMA GoKeeps ==
    ASSUME PromptInv, NEW e \in Editors, NEW new \in Edit, Go(e, new),
           versions' = versions, active' = active, tidied' = tidied, cached' \in {NotCached, cached},
           \A v \in DOMAIN new.writes : v \in DOMAIN edits[e].writes \/ ~Locked(e, v),
           Sound(e)',
           new.at \notin {"none", "committed"} /\ new.as # "DRAFT" =>
               Publishing(e) /\ new.alone = edits[e].alone
    PROVE  PromptInv'
  <1>1. /\ edits' \in [Editors -> Edit] /\ edits'[e] = new
        /\ \A o \in Editors : o # e => edits'[o] = edits[o]
    BY DEF Go, PromptInv, PromptTypes
  <1>2. PromptTypes'
    BY <1>1, MaxVersionsAssumption DEF PromptInv, PromptTypes, NotCached
  <1>3. Existing' = Existing
    BY DEF Existing
  <1>4. ASSUME NEW o \in Editors PROVE Sound(o)'
    <2>1. CASE o # e
      BY <1>1, <1>3, <2>1 DEF PromptInv, Sound, WritesOf, StageOf, Found, Publishing
    <2> QED  BY <2>1
  <1>5. RowLocks'
    BY <1>1 DEF PromptInv, RowLocks, Locked, Others
  <1>6. AloneIsAlone'
    BY <1>1 DEF PromptInv, AloneIsAlone, Publishing
  <1>7. ActiveIsPublished'
    BY <1>3 DEF PromptInv, ActiveIsPublished, NotCached, Versions
  <1> QED  BY <1>2, <1>4, <1>5, <1>6, <1>7 DEF PromptInv

\* A request begins.
LEMMA BeginKeeps ==
    ASSUME PromptInv, NEW e \in Editors, NEW new \in Edit, BeginEdit(e, new),
           edits[e].at = "none", UNCHANGED <<versions, active, tidied, cached>>,
           new.at \in {"insert", "list", "archive"}, new.writes = <<>>, new.todo = {},
           new.at = "insert" => new.version \in Versions /\ new.as # "EXISTING",
           new.at = "archive" => new.version \in Versions /\ new.as = "EXISTING",
           new.at = "list" => new.as = "EXISTING"
    PROVE  PromptInv'
  <1> DEFINE by == ~\E p \in Others(e) : Publishing(p)
  <1>1. PICK own \in Edit : own = [new EXCEPT !.alone = by]
    BY DEF Edit
  <1>2. ASSUME NEW o \in Editors
        PROVE  [edits[o] EXCEPT !.alone = @ /\ new.as = "DRAFT"] \in Edit
    BY DEF Edit, PromptInv, PromptTypes
  <1>3. /\ edits' \in [Editors -> Edit] /\ edits'[e] = own
        /\ \A o \in Others(e) : edits'[o] = [edits[o] EXCEPT !.alone = @ /\ new.as = "DRAFT"]
    BY <1>1, <1>2 DEF BeginEdit, Others
  <1>4. /\ own.at = new.at /\ own.version = new.version /\ own.as = new.as
        /\ own.writes = <<>> /\ own.todo = {} /\ (own.alone <=> by)
    BY <1>1 DEF Edit
  <1>5. ASSUME NEW o \in Others(e)
        PROVE  /\ edits'[o].at = edits[o].at /\ edits'[o].version = edits[o].version
               /\ edits'[o].as = edits[o].as /\ edits'[o].writes = edits[o].writes
               /\ edits'[o].todo = edits[o].todo
               /\ (edits'[o].alone <=> edits[o].alone /\ new.as = "DRAFT")
    BY <1>3 DEF Edit, PromptInv, PromptTypes, Others
  <1>6. PromptTypes'
    BY <1>3 DEF PromptInv, PromptTypes
  <1>7. Existing' = Existing
    BY DEF Existing
  <1>8. Sound(e)'
    BY <1>3, <1>4, NothingWritten DEF Sound, WritesOf, StageOf, Found, Publishing
  <1>9. ASSUME NEW o \in Others(e) PROVE Sound(o)'
    <2>1. WritesOf(o)' /\ StageOf(o)'
      BY <1>5, <1>7 DEF PromptInv, Sound, WritesOf, StageOf, Others
    <2>2. Found(o)'
      BY <1>5, <1>7 DEF PromptInv, Sound, Found, Publishing, Others
    <2> QED  BY <2>1, <2>2 DEF Sound
  <1>10. RowLocks'
    BY <1>3, <1>4, <1>5, NothingWritten DEF PromptInv, RowLocks, Others
  <1>11. AloneIsAlone'
    BY <1>3, <1>4, <1>5 DEF PromptInv, AloneIsAlone, Publishing, Others
  <1>12. ActiveIsPublished'
    BY <1>7 DEF PromptInv, ActiveIsPublished
  <1> QED  BY <1>6, <1>8, <1>9, <1>10, <1>11, <1>12 DEF PromptInv, Others

-----------------------------------------------------------------------------
(* The steps *)

LEMMA BeginsKeep ==
    ASSUME PromptInv, NEW e \in Editors,
           (\E as \in {"DRAFT", "PUBLISHED"} : SaveVersion(e, as)) \/ Publish(e) \/ Rollback(e)
    PROVE  PromptInv'
  <1>1. CASE \E as \in {"DRAFT", "PUBLISHED"} : SaveVersion(e, as)
    <2>1. PICK as \in {"DRAFT", "PUBLISHED"} : SaveVersion(e, as)
      BY <1>1
    <2>2. Newest(Existing) + 1 \in Versions
      <3>1. Newest(Existing) = 0 \/ Newest(Existing) \in Versions
        BY NewestIs DEF Existing, Newest
      <3> QED  BY <2>1, <3>1, MaxVersionsAssumption DEF SaveVersion, Versions
    <2> DEFINE v == Newest(Existing) + 1
    <2>3. PICK new : new = [NoEdit EXCEPT !.at = "insert", !.version = v, !.as = as]
      OBVIOUS
    <2>4. /\ new \in Edit /\ new.at = "insert" /\ new.writes = <<>> /\ new.todo = {}
          /\ new.version \in Versions /\ new.as # "EXISTING"
      <3>1. v \in 0..MaxVersions
        BY <2>2, VersionIsNumber
      <3> HIDE DEF v
      <3> QED  BY <2>2, <2>3, <3>1, NoEditIs DEF Edit, EditStages, v
    <2> QED  BY <2>1, <2>3, <2>4, BeginKeeps DEF SaveVersion
  <1>2. CASE Publish(e)
    <2>1. PICK v \in Existing : BeginEdit(e, SetActive(e, v))
      BY <1>2 DEF Publish
    <2>2. PICK new : new = SetActive(e, v)
      OBVIOUS
    <2>3. /\ new \in Edit /\ new.at = "archive" /\ new.writes = <<>> /\ new.todo = {}
          /\ new.version \in Versions /\ new.as = "EXISTING"
      <3>1. v \in Versions /\ v \in 0..MaxVersions
        BY VersionIsNumber DEF Existing
      <3> QED  BY <2>2, <3>1, NoEditIs DEF SetActive, Edit, EditStages
    <2> QED  BY <1>2, <2>1, <2>2, <2>3, BeginKeeps DEF Publish
  <1>3. CASE Rollback(e)
    <2>1. PICK new : new = [NoEdit EXCEPT !.at = "list", !.as = "EXISTING", !.got = active]
      OBVIOUS
    <2>2. new \in Edit /\ new.at = "list" /\ new.writes = <<>> /\ new.todo = {} /\ new.as = "EXISTING"
      BY <2>1, NoEditIs DEF Edit, EditStages, PromptInv, PromptTypes
    <2> QED  BY <1>3, <2>1, <2>2, BeginKeeps DEF Rollback
  <1> QED  BY <1>1, <1>2, <1>3

LEMMA InsertKeeps ==
    ASSUME PromptInv, NEW e \in Editors, InsertVersion(e)
    PROVE  PromptInv'
  <1>1. /\ edits[e] \in Edit /\ edits[e].version \in Versions /\ edits[e].as \in VersionStatuses
        /\ edits[e].as \in {"DRAFT", "PUBLISHED"} /\ edits[e].writes \in Writes
        /\ edits[e].version \notin edits[e].todo
    BY DEF PromptInv, PromptTypes, Edit, Sound, StageOf, InsertVersion, VersionStatuses
  <1>2. PICK w \in Writes : /\ w = WithRow(edits[e].writes, edits[e].version, edits[e].as)
                            /\ DOMAIN w = {edits[e].version} /\ w[edits[e].version] = edits[e].as
    <2>1. DOMAIN edits[e].writes = {}
      BY DEF PromptInv, Sound, WritesOf, InsertVersion
    <2>2. WithRow(edits[e].writes, edits[e].version, edits[e].as) \in Writes
      BY <1>1, WritesHas
    <2>3. /\ DOMAIN WithRow(edits[e].writes, edits[e].version, edits[e].as) = {edits[e].version}
          /\ WithRow(edits[e].writes, edits[e].version, edits[e].as)[edits[e].version] = edits[e].as
      BY <2>1 DEF WithRow
    <2> QED  BY <2>2, <2>3
  <1>3. PICK new : new = [edits[e] EXCEPT
                            !.at = IF edits[e].as = "DRAFT" THEN "commit" ELSE "archive", !.writes = w]
    OBVIOUS
  <1>4. /\ new \in Edit /\ new.at = IF edits[e].as = "DRAFT" THEN "commit" ELSE "archive"
        /\ new.version = edits[e].version /\ new.as = edits[e].as /\ new.todo = edits[e].todo
        /\ new.writes = w /\ new.alone = edits[e].alone
    BY <1>1, <1>3 DEF Edit, EditStages
  <1>5. Go(e, new) /\ edits'[e] = new
    BY <1>2, <1>3 DEF InsertVersion, Go, PromptInv, PromptTypes
  <1>6. /\ edits[e].at = "insert" /\ ~Locked(e, edits[e].version) /\ edits[e].version \notin Existing
        /\ versions' = versions /\ active' = active /\ tidied' = tidied /\ cached' = cached
        /\ Existing' = Existing
    BY DEF InsertVersion, Existing
  <1>7. edits[e].todo = {}
    BY <1>6 DEF PromptInv, Sound, StageOf
  <1> QED  BY <1>1, <1>2, <1>4, <1>5, <1>6, <1>7, GoKeeps DEF Sound, WritesOf, StageOf, Found, Publishing

LEMMA ListKeeps ==
    ASSUME PromptInv, NEW e \in Editors, ListVersions(e)
    PROVE  PromptInv'
  <1>1. PICK v \in Versions : v = Newest(Existing \ {edits[e].got})
    BY NewestIs DEF ListVersions, Existing
  <1>2. PICK new : new = [SetActive(e, v) EXCEPT !.alone = edits[e].alone]
    OBVIOUS
  <1>3. edits[e] \in Edit
    BY DEF PromptInv, PromptTypes
  <1>4. /\ new \in Edit /\ new.at = "archive" /\ new.version = v /\ new.as = "EXISTING"
        /\ new.todo = {} /\ new.writes = <<>> /\ new.alone = edits[e].alone
    <2>1. v \in 0..MaxVersions
      BY VersionIsNumber
    <2> QED  BY <1>2, <1>3, <2>1, NoEditIs DEF SetActive, Edit, EditStages
  <1>5. Go(e, new) /\ edits'[e] = new
    BY <1>1, <1>2, <1>4 DEF ListVersions, Go, PromptInv, PromptTypes
  <1>6. Sound(e)'
    BY <1>4, <1>5, NothingWritten DEF Sound, WritesOf, StageOf, Found
  <1>7. Publishing(e)
    BY DEF ListVersions, Publishing, PromptInv, Sound, StageOf
  <1> QED  BY <1>4, <1>5, <1>6, <1>7, NothingWritten, GoKeeps DEF ListVersions

LEMMA ArchiveKeeps ==
    ASSUME PromptInv, NEW e \in Editors, Archive(e)
    PROVE  PromptInv'
  <1>1. edits[e] \in Edit /\ Outgoing(e) \in SUBSET Versions
    BY DEF PromptInv, PromptTypes, Outgoing, Existing
  <1>2. PICK new : new = [edits[e] EXCEPT !.at = "archiving", !.todo = Outgoing(e)]
    OBVIOUS
  <1>3. /\ new \in Edit /\ new.at = "archiving" /\ new.todo = Outgoing(e)
        /\ new.version = edits[e].version /\ new.as = edits[e].as
        /\ new.writes = edits[e].writes /\ new.alone = edits[e].alone
    BY <1>1, <1>2 DEF Edit, EditStages
  <1>4. Go(e, new) /\ edits'[e] = new /\ Existing' = Existing
    BY <1>2, <1>3 DEF Archive, Go, PromptInv, PromptTypes, Existing
  <1>5. WritesOf(e)' /\ StageOf(e)'
    BY <1>3, <1>4 DEF Archive, PromptInv, Sound, WritesOf, StageOf, Outgoing
  <1>6. Found(e)'
    BY <1>3, <1>4 DEF Archive, Found, Outgoing
  <1>7. Publishing(e)
    BY DEF Archive, Publishing, PromptInv, Sound, StageOf
  <1> QED  BY <1>3, <1>4, <1>5, <1>6, <1>7, GoKeeps DEF Archive, Sound

LEMMA ArchiveRowKeeps ==
    ASSUME PromptInv, NEW e \in Editors, ArchiveRow(e)
    PROVE  PromptInv'
  <1>1. edits[e] \in Edit /\ edits[e].writes \in Writes /\ edits[e].at = "archiving"
    BY DEF PromptInv, PromptTypes, Edit, ArchiveRow
  <1> DEFINE Written(v) == IF Seen(e, v) = "PUBLISHED" THEN WithRow(edits[e].writes, v, "ARCHIVED")
                           ELSE edits[e].writes
  <1>2. PICK v \in edits[e].todo :
            /\ ~Locked(e, v)
            /\ Go(e, [edits[e] EXCEPT !.todo = edits[e].todo \ {v}, !.writes = Written(v)])
    BY DEF ArchiveRow
  <1>3. v \in Versions /\ v # edits[e].version /\ edits[e].as # "DRAFT"
    BY <1>1, <1>2 DEF Edit, PromptInv, Sound, StageOf
  <1>4. PICK w \in Writes : w = Written(v)
    BY <1>1, <1>3, WritesHas DEF VersionStatuses
  <1>5. /\ DOMAIN edits[e].writes \subseteq DOMAIN w /\ DOMAIN w \subseteq DOMAIN edits[e].writes \cup {v}
        /\ \A x \in DOMAIN w : IF x = v THEN w[v] = "ARCHIVED" ELSE w[x] = edits[e].writes[x]
        /\ v \in DOMAIN w \/ versions[v] # "PUBLISHED"
    <2>1. CASE Seen(e, v) = "PUBLISHED"
      BY <1>4, <2>1 DEF WithRow
    <2>2. CASE Seen(e, v) # "PUBLISHED"
      BY <1>1, <1>3, <1>4, <2>2 DEF Seen, PromptInv, Sound, WritesOf
    <2> QED  BY <2>1, <2>2
  <1>6. PICK new : new = [edits[e] EXCEPT !.todo = edits[e].todo \ {v}, !.writes = w]
    OBVIOUS
  <1>7. /\ new \in Edit /\ new.at = "archiving" /\ new.todo = edits[e].todo \ {v}
        /\ new.version = edits[e].version /\ new.as = edits[e].as
        /\ new.writes = w /\ new.alone = edits[e].alone
    BY <1>1, <1>6 DEF Edit
  <1>8. Go(e, new) /\ edits'[e] = new /\ Existing' = Existing
    BY <1>2, <1>4, <1>6, <1>7 DEF ArchiveRow, Go, PromptInv, PromptTypes, Existing
  <1>9. WritesOf(e)' /\ StageOf(e)'
    BY <1>1, <1>3, <1>5, <1>7, <1>8 DEF PromptInv, Sound, WritesOf, StageOf
  <1>10. Found(e)'
    BY <1>1, <1>3, <1>5, <1>7, <1>8 DEF ArchiveRow, PromptInv, Sound, Found, Publishing
  <1>11. Publishing(e)
    BY <1>1, <1>3 DEF Publishing
  <1> QED  BY <1>2, <1>5, <1>7, <1>8, <1>9, <1>10, <1>11, GoKeeps DEF ArchiveRow, Sound

LEMMA ActivateKeeps ==
    ASSUME PromptInv, NEW e \in Editors, Activate(e)
    PROVE  PromptInv'
  <1>1. edits[e] \in Edit /\ edits[e].writes \in Writes /\ edits[e].version \in Versions
    BY DEF PromptInv, PromptTypes, Edit, Activate, Sound, StageOf
  <1>2. PICK w \in Writes :
            /\ w = WithRow(edits[e].writes, edits[e].version, "PUBLISHED")
            /\ DOMAIN w = {edits[e].version} \cup DOMAIN edits[e].writes
            /\ w[edits[e].version] = "PUBLISHED"
            /\ \A x \in DOMAIN edits[e].writes : x # edits[e].version => w[x] = edits[e].writes[x]
    <2>1. WithRow(edits[e].writes, edits[e].version, "PUBLISHED") \in Writes
      BY <1>1, WritesHas DEF VersionStatuses
    <2> QED  BY <2>1 DEF WithRow
  <1>3. PICK new : new = [edits[e] EXCEPT !.as = "PUBLISHED", !.writes = w]
    OBVIOUS
  <1>4. /\ new \in Edit /\ new.at = edits[e].at /\ new.todo = edits[e].todo
        /\ new.version = edits[e].version /\ new.as = "PUBLISHED"
        /\ new.writes = w /\ new.alone = edits[e].alone
    BY <1>1, <1>3 DEF Edit
  <1>5. Go(e, new) /\ edits'[e] = new /\ Existing' = Existing
    BY <1>2, <1>3, <1>4 DEF Activate, Go, PromptInv, PromptTypes, Existing
  <1>6. WritesOf(e)' /\ StageOf(e)'
    BY <1>1, <1>2, <1>4, <1>5 DEF Activate, PromptInv, Sound, WritesOf, StageOf
  <1>7. Found(e)'
    BY <1>1, <1>2, <1>4, <1>5 DEF Activate, PromptInv, Sound, Found, Publishing
  <1>8. Publishing(e)
    BY DEF Activate, Publishing
  <1> QED  BY <1>2, <1>4, <1>5, <1>6, <1>7, <1>8, GoKeeps DEF Activate, Sound

LEMMA PointKeeps ==
    ASSUME PromptInv, NEW e \in Editors, PointTemplate(e)
    PROVE  PromptInv'
  <1>1. edits[e] \in Edit
    BY DEF PromptInv, PromptTypes
  <1>2. PICK new : new = [edits[e] EXCEPT !.at = "commit"]
    OBVIOUS
  <1>3. /\ new \in Edit /\ new.at = "commit" /\ new.todo = edits[e].todo
        /\ new.version = edits[e].version /\ new.as = edits[e].as
        /\ new.writes = edits[e].writes /\ new.alone = edits[e].alone
    BY <1>1, <1>2 DEF Edit, EditStages
  <1>4. Go(e, new) /\ edits'[e] = new /\ Existing' = Existing
    BY <1>2, <1>3 DEF PointTemplate, Go, PromptInv, PromptTypes, Existing
  <1>5. WritesOf(e)' /\ StageOf(e)'
    BY <1>3, <1>4 DEF PointTemplate, PromptInv, Sound, WritesOf, StageOf
  <1>6. Found(e)'
    BY <1>3, <1>4 DEF PointTemplate, PromptInv, Sound, Found, Publishing
  <1>7. Publishing(e)
    BY DEF PointTemplate, Publishing
  <1> QED  BY <1>3, <1>4, <1>5, <1>6, <1>7, GoKeeps DEF PointTemplate, Sound

LEMMA LeaveKeeps ==
    ASSUME PromptInv, NEW e \in Editors, FailEdit(e) \/ InvalidatePrompt(e)
    PROVE  PromptInv'
  <1>1. Go(e, NoEdit) /\ edits'[e] = NoEdit
    BY DEF FailEdit, InvalidatePrompt, Go, PromptInv, PromptTypes
  <1>2. Sound(e)'
    BY <1>1, NothingWritten DEF Sound, WritesOf, StageOf, Found, Publishing, NoEdit
  <1>3. NoEdit.at = "none" /\ NoEdit.writes = <<>>
    BY DEF NoEdit
  <1> QED
    BY <1>1, <1>2, <1>3, NoEditIs, NothingWritten, GoKeeps DEF FailEdit, InvalidatePrompt

\* The end of a transaction: what it has written takes effect.
LEMMA CommitKeeps ==
    ASSUME PromptInv, NEW e \in Editors, Commit(e)
    PROVE  PromptInv'
  <1>1. PICK new \in Edit : new = [NoEdit EXCEPT !.at = "committed"]
    BY NoEditIs DEF Edit, EditStages
  <1>2. /\ new.at = "committed" /\ new.as = "DRAFT" /\ new.writes = <<>> /\ new.todo = {}
        /\ new.version = 0
    BY <1>1 DEF NoEdit
  <1>3. /\ edits' \in [Editors -> Edit] /\ edits'[e] = new
        /\ \A o \in Editors : o # e => edits'[o] = edits[o]
    BY <1>1 DEF Commit, Go, PromptInv, PromptTypes
  <1>4. edits[e] \in Edit /\ edits[e].at = "commit" /\ cached' = cached
    BY DEF Commit, PromptInv, PromptTypes
  <1>5. PICK D \in SUBSET Versions : edits[e].writes \in [D -> VersionStatuses]
    BY <1>4 DEF Edit, Writes
  <1>6. versions' = [v \in Versions |-> IF v \in D THEN edits[e].writes[v] ELSE versions[v]]
    BY <1>5 DEF Commit, Seen
  <1>7. /\ versions' \in [Versions -> VersionStatuses \cup {"none"}] /\ DOMAIN edits[e].writes = D
        /\ \A v \in Versions : versions'[v] = IF v \in D THEN edits[e].writes[v] ELSE versions[v]
    BY <1>5, <1>6 DEF PromptInv, PromptTypes
  <1>8. /\ edits[e].version \in Versions /\ edits[e].as \in {"DRAFT", "PUBLISHED"}
        /\ edits[e].todo = {} /\ WritesOf(e) /\ Found(e)
    BY <1>4 DEF PromptInv, Sound, StageOf, Edit
  <1>9. active' = (IF edits[e].as = "DRAFT" THEN active ELSE edits[e].version)
        /\ tidied' = (IF edits[e].as = "DRAFT" THEN tidied ELSE edits[e].alone)
    BY DEF Commit
  <1>10. PromptTypes'
    BY <1>3, <1>4, <1>7, <1>8, <1>9 DEF PromptInv, PromptTypes, Edit, Versions
  <1>11. /\ Existing' = Existing \cup D
         /\ \A v \in D : v \in Existing => versions'[v] # "DRAFT"
    BY <1>4, <1>5, <1>7, <1>8 DEF Existing, VersionStatuses, WritesOf, PromptInv, PromptTypes
  <1>12. ASSUME NEW o \in Editors PROVE Sound(o)'
    <2>1. CASE o = e
      BY <1>2, <1>3, <2>1, NothingWritten DEF Sound, WritesOf, StageOf, Found, Publishing
    <2>2. CASE o # e
      <3>1. DOMAIN edits[o].writes \cap D = {} /\ edits'[o] = edits[o] /\ Sound(o)
        BY <1>3, <1>7, <2>2 DEF PromptInv, RowLocks
      <3>2. WritesOf(o)' /\ StageOf(o)'
        BY <1>11, <3>1 DEF Sound, WritesOf, StageOf
      <3>3. Found(o)'
        <4>1. SUFFICES ASSUME Publishing(o), edits[o].alone, edits[o].at \in {"archiving", "commit"},
                              NEW v \in Existing', versions'[v] = "PUBLISHED", v # edits[o].version
                       PROVE  v \in edits[o].todo \cup DOMAIN edits[o].writes
          BY <3>1 DEF Found, Publishing
        <4>2. ~Publishing(e)
          BY <2>2, <4>1 DEF PromptInv, AloneIsAlone
        <4>3. edits[e].as = "DRAFT"
          BY <1>4, <4>2 DEF Publishing
        <4>4. v \notin D
          BY <1>4, <1>7, <1>8, <4>1, <4>3 DEF WritesOf
        <4>5. v \in Existing /\ versions[v] = "PUBLISHED"
          BY <1>7, <1>11, <4>1, <4>4 DEF Existing
        <4> QED  BY <3>1, <4>1, <4>5 DEF Sound, Found
      <3> QED  BY <3>2, <3>3 DEF Sound
    <2> QED  BY <2>1, <2>2
  <1>13. RowLocks'
    BY <1>2, <1>3, NothingWritten DEF PromptInv, RowLocks
  <1>14. AloneIsAlone'
    BY <1>2, <1>3 DEF PromptInv, AloneIsAlone, Publishing
  <1>15. ActiveIsPublished'
    <2>1. active' # 0 => versions'[active'] = "PUBLISHED"
      <3>1. CASE edits[e].as = "DRAFT"
        <4>1. active # 0 => active \in Existing
          BY MaxVersionsAssumption DEF PromptInv, PromptTypes, ActiveIsPublished, Existing, Versions
        <4>2. active # 0 => active \notin D
          BY <1>4, <1>7, <1>8, <3>1, <4>1 DEF WritesOf
        <4> QED  BY <1>7, <1>9, <3>1, <4>1, <4>2 DEF PromptInv, ActiveIsPublished, Existing
      <3>2. CASE edits[e].as = "PUBLISHED"
        BY <1>4, <1>7, <1>8, <1>9, <3>2 DEF WritesOf
      <3> QED  BY <1>8, <3>1, <3>2
    <2>2. cached' \in Versions => versions'[cached'] \in {"PUBLISHED", "ARCHIVED"}
      BY <1>4, <1>5, <1>7, <1>11 DEF PromptInv, ActiveIsPublished, VersionStatuses, Existing
    <2>3. tidied' => \A v \in Existing' : versions'[v] = "PUBLISHED" => v = active'
      <3>1. CASE edits[e].as = "DRAFT"
        BY <1>4, <1>7, <1>8, <1>9, <1>11, <3>1 DEF WritesOf, PromptInv, ActiveIsPublished, Existing
      <3>2. CASE edits[e].as = "PUBLISHED"
        <4> SUFFICES ASSUME edits[e].alone, NEW v \in Existing', versions'[v] = "PUBLISHED",
                            v # edits[e].version
                     PROVE  FALSE
          BY <1>9, <3>2
        <4>1. v \in D => edits[e].writes[v] = "ARCHIVED"
          BY <1>7, <1>8, <3>2 DEF WritesOf
        <4>2. v \notin D /\ v \in Existing /\ versions[v] = "PUBLISHED"
          BY <1>7, <1>11, <4>1 DEF Existing
        <4> QED  BY <1>4, <1>7, <1>8, <3>2, <4>2 DEF Found, Publishing
      <3> QED  BY <1>8, <3>1, <3>2
    <2> QED  BY <2>1, <2>2, <2>3 DEF ActiveIsPublished
  <1> QED  BY <1>10, <1>12, <1>13, <1>14, <1>15 DEF PromptInv

LEMMA ResolverKeeps ==
    ASSUME PromptInv, ResolvePrompt \/ PromptExpires \/ UNCHANGED pvVars
    PROVE  PromptInv'
  <1>1. /\ versions' = versions /\ active' = active /\ edits' = edits /\ tidied' = tidied
        /\ cached' \in {NotCached, active, cached}
    BY DEF ResolvePrompt, PromptExpires, pvVars
  <1>2. Existing' = Existing
    BY <1>1 DEF Existing
  <1>3. PromptTypes' /\ RowLocks' /\ AloneIsAlone'
    BY <1>1, MaxVersionsAssumption
    DEF PromptInv, PromptTypes, RowLocks, AloneIsAlone, Publishing, NotCached
  <1>4. \A e \in Editors : Sound(e)'
    BY <1>1, <1>2 DEF PromptInv, Sound, WritesOf, StageOf, Found, Publishing
  <1>5. ActiveIsPublished'
    BY <1>1, <1>2 DEF PromptInv, ActiveIsPublished, NotCached, Versions
  <1> QED  BY <1>3, <1>4, <1>5 DEF PromptInv

LEMMA PromptNextKeeps == ASSUME PromptInv, [PromptNext]_pvVars PROVE PromptInv'
  BY BeginsKeep, InsertKeeps, ListKeeps, ArchiveKeeps, ArchiveRowKeeps, ActivateKeeps, PointKeeps,
     CommitKeeps, LeaveKeeps, ResolverKeeps DEF PromptNext

LEMMA PromptInitHolds == ASSUME PromptInit PROVE PromptInv
  <1>1. 1 \in Versions /\ 0 \notin Versions /\ MaxVersions \in Nat
    BY MaxVersionsAssumption DEF Versions
  <1>2. PromptTypes
    <2>1. versions \in [Versions -> VersionStatuses \cup {"none"}] /\ edits \in [Editors -> Edit]
      BY NoEditIs DEF PromptInit, VersionStatuses
    <2>2. active \in 0..MaxVersions
      BY <1>1, VersionIsNumber, MaxVersionsAssumption DEF PromptInit
    <2>3. cached \in NotCached..MaxVersions /\ tidied \in BOOLEAN
      BY <1>1 DEF PromptInit, NotCached
    <2> QED  BY <2>1, <2>2, <2>3 DEF PromptTypes
  <1>3. \A e \in Editors : edits[e] = NoEdit
    BY DEF PromptInit
  <1>4. NoEdit.at = "none" /\ NoEdit.writes = <<>> /\ NoEdit.todo = {} /\ NoEdit.as = "DRAFT"
    BY DEF NoEdit
  <1>5. \A e \in Editors : Sound(e)
    BY <1>3, <1>4, NothingWritten DEF Sound, WritesOf, StageOf, Found, Publishing
  <1>6. RowLocks /\ AloneIsAlone
    BY <1>3, <1>4, NothingWritten DEF RowLocks, AloneIsAlone, Publishing
  <1>7. ActiveIsPublished
    BY <1>1 DEF PromptInit, ActiveIsPublished, NotCached, Existing, Versions
  <1> QED  BY <1>2, <1>5, <1>6, <1>7 DEF PromptInv

\* setActiveVersion, createVersion: however saves, publications and rollbacks overlap,
\* wait or fail, the version the template points to is published, the assistant is
\* answered with no draft, and a publication that met no other leaves one published
\* version, for any number of requests and of versions.
THEOREM ActiveVersionIsPublished == PromptSpec => []ActiveIsPublished
  <1>1. PromptInv => ActiveIsPublished
    BY DEF PromptInv
  <1> QED  BY PromptInitHolds, PromptNextKeeps, <1>1, PTL DEF PromptSpec

-----------------------------------------------------------------------------
(* Topology: no router is lost or brought back.  As long as nothing has      *)
(* crossed, at most one request holds a list, so what it holds is the row,   *)
(* apart from what a listing has merged into it; and a router that is gone   *)
(* for good is not at the microservice either, unless an import is about to  *)
(* save it.                                                                  *)

CallSteps == {"none", "read", "ask", "save", "copy"}
Request == [at : CallSteps, op : Operations, of : Routers, ok : BOOLEAN, list : SUBSET Routers]

TopologyTypes ==
    /\ remote \subseteq Routers /\ saved \subseteq Routers
    /\ copied \in [on : BOOLEAN, list : SUBSET Routers]
    /\ calls \in [Calls -> Request]
    /\ meant \in [Routers -> {"in", "out", "open"}]
    /\ crossed \in BOOLEAN

OneHolds == \A c, d \in Calls : Holding(c) /\ Holding(d) => c = d

CopyIsList == copied.on /\ (\A c \in Calls : calls[c].at # "copy") => copied.list = saved

\* What a request knows of the row.
KnowsRow(c) ==
    /\ calls[c].at \in {"ask", "copy"} => calls[c].list = saved
    /\ calls[c].at = "save" /\ calls[c].op # "list" => calls[c].list = saved
    /\ calls[c].at = "save" /\ calls[c].op = "list" =>
         saved \subseteq calls[c].list /\ \A r \in calls[c].list \ saved : meant[r] # "out"
HolderKnows == \A c \in Calls : KnowsRow(c)

Importing(c, r) == calls[c].at = "save" /\ calls[c].op = "import" /\ calls[c].of = r
GoneIsGone ==
    \A r \in remote : meant[r] = "out" => \E c \in Calls : Importing(c, r)

RoutersStay == \A r \in Routers : /\ meant[r] = "in" => r \in saved
                                  /\ meant[r] = "out" => r \notin saved

Uncrossed == OneHolds /\ CopyIsList /\ HolderKnows /\ GoneIsGone /\ RoutersStay
TopologyInv == TopologyTypes /\ (~crossed => Uncrossed)

-----------------------------------------------------------------------------
(* One step per action *)

LEMMA NoCallTypes == NoCall \in Request /\ NoCall.at = "none"
  BY RoutersAssumption DEF NoCall, Request, CallSteps, Operations

LEMMA BeginCallKeeps ==
    ASSUME TopologyInv, NEW c \in Calls, NEW op \in Operations, NEW r \in Routers, Begin(c, op, r)
    PROVE  TopologyInv'
  <1>1. /\ calls[c].at = "none" /\ UNCHANGED <<saved, copied, crossed>>
        /\ remote' \in {remote, Proxied(op, r)}
        /\ \E ok \in BOOLEAN :
             calls' = [calls EXCEPT ![c] = [NoCall EXCEPT !.at = "read", !.op = op, !.of = r, !.ok = ok]]
        /\ meant' = IF op \in {"create", "update", "delete", "import"}
                    THEN [meant EXCEPT ![r] = "open"] ELSE meant
    BY DEF Begin
  <1>2. /\ calls' \in [Calls -> Request] /\ calls'[c].at = "read"
        /\ \A d \in Calls \ {c} : calls'[d] = calls[d]
    <2>1. PICK ok \in BOOLEAN :
            calls' = [calls EXCEPT ![c] = [NoCall EXCEPT !.at = "read", !.op = op, !.of = r, !.ok = ok]]
      BY <1>1
    <2> DEFINE new == [NoCall EXCEPT !.at = "read", !.op = op, !.of = r, !.ok = ok]
    <2>3. new \in Request /\ new.at = "read"
      BY NoCallTypes DEF Request, CallSteps
    <2>4. calls' = [calls EXCEPT ![c] = new] /\ calls \in [Calls -> Request]
      BY <2>1 DEF TopologyInv, TopologyTypes
    <2> HIDE DEF new
    <2> QED  BY <2>3, <2>4
  <1>3. TopologyTypes'
    BY <1>1, <1>2 DEF TopologyInv, TopologyTypes, Proxied
  <1>4. ASSUME ~crossed
        PROVE  Uncrossed'
    <2>1. Uncrossed
      BY <1>4 DEF TopologyInv
    <2>2. \A q \in Routers : meant'[q] # "open" => meant'[q] = meant[q]
      BY <1>1 DEF TopologyInv, TopologyTypes
    <2>3. OneHolds'
      BY <1>2, <2>1 DEF Uncrossed, OneHolds, Holding
    <2>4. CopyIsList'
      BY <1>1, <1>2, <2>1 DEF Uncrossed, CopyIsList
    <2>5. HolderKnows'
      BY <1>1, <1>2, <1>3, <2>1, <2>2 DEF Uncrossed, HolderKnows, KnowsRow, TopologyInv, TopologyTypes, Request
    <2>6. GoneIsGone'
      <3> SUFFICES ASSUME NEW q \in remote', meant'[q] = "out"
                   PROVE  \E d \in Calls : Importing(d, q)'
        BY DEF GoneIsGone
      <3>1. q \in Routers /\ meant[q] = "out"
        BY <1>3, <2>2 DEF TopologyTypes
      <3>2. q \in remote
        BY <1>1, <3>1 DEF Proxied, TopologyInv, TopologyTypes
      <3>3. PICK d \in Calls : Importing(d, q)
        BY <2>1, <3>1, <3>2 DEF Uncrossed, GoneIsGone
      <3> QED  BY <1>1, <1>2, <3>3 DEF Importing
    <2>7. RoutersStay'
      BY <1>1, <2>1, <2>2 DEF Uncrossed, RoutersStay
    <2> QED  BY <2>3, <2>4, <2>5, <2>6, <2>7 DEF Uncrossed
  <1> QED  BY <1>1, <1>3, <1>4 DEF TopologyInv

\* A request that now holds what it read, alone.
LEMMA GetKeeps ==
    ASSUME TopologyInv, NEW c \in Calls, GetNetworkTopology(c)
    PROVE  TopologyInv'
  <1> DEFINE list == IF copied.on THEN copied.list ELSE saved
             next == IF calls[c].op \in {"list", "import"} THEN "ask" ELSE "save"
  <1>1. /\ calls[c].at = "read" /\ UNCHANGED <<remote, saved, meant>>
        /\ \E l \in {list, {}} :
             /\ calls' = [calls EXCEPT ![c].list = l, ![c].at = next]
             /\ ~crossed' => l = list
        /\ ~crossed' => copied' = [on |-> TRUE, list |-> list] /\ ~Crosses(c) /\ ~crossed
        /\ copied' \in {copied, [on |-> TRUE, list |-> list]}
        /\ crossed' \in BOOLEAN
    BY DEF GetNetworkTopology, TopologyInv, TopologyTypes
  <1>0. list \subseteq Routers /\ next \in CallSteps
    BY DEF TopologyInv, TopologyTypes, CallSteps
  <1>2. /\ calls' \in [Calls -> Request] /\ calls'[c].at = next /\ calls'[c].op = calls[c].op
        /\ ~crossed' => calls'[c].list = list
        /\ \A d \in Calls \ {c} : calls'[d] = calls[d]
    <2>1. PICK l \in {list, {}} :
            calls' = [calls EXCEPT ![c].list = l, ![c].at = next] /\ (~crossed' => l = list)
      BY <1>1
    <2>2. l \subseteq Routers /\ next \in CallSteps
      BY <1>0
    <2>3. calls \in [Calls -> Request] /\ calls[c] \in Request
      BY DEF TopologyInv, TopologyTypes
    <2> HIDE DEF list, next
    <2>4. /\ calls'[c] = [calls[c] EXCEPT !.list = l, !.at = next]
          /\ calls' = [calls EXCEPT ![c] = calls'[c]]
          /\ \A d \in Calls \ {c} : calls'[d] = calls[d]
      BY <2>1, <2>3
    <2>5. /\ calls'[c] \in Request /\ calls'[c].at = next
          /\ calls'[c].op = calls[c].op /\ calls'[c].list = l
      BY <2>2, <2>3, <2>4 DEF Request
    <2>6. calls' \in [Calls -> Request]
      BY <2>3, <2>4, <2>5
    <2> QED  BY <2>1, <2>4, <2>5, <2>6
  <1>3. TopologyTypes'
    <2>1. [on |-> TRUE, list |-> list] \in [on : BOOLEAN, list : SUBSET Routers]
      BY <1>0
    <2> HIDE DEF list
    <2> QED  BY <1>1, <1>2, <2>1 DEF TopologyInv, TopologyTypes
  <1>4. ASSUME ~crossed'
        PROVE  Uncrossed'
    <2>1. Uncrossed /\ copied' = [on |-> TRUE, list |-> list] /\ \A d \in Calls \ {c} : ~Holding(d)
      BY <1>1, <1>4 DEF TopologyInv, Crosses
    <2>2. list = saved
      BY <1>1, <2>1 DEF Uncrossed, CopyIsList, Holding
    <2>3. calls'[c].list = saved
      BY <1>2, <1>4, <2>2
    <2>4. OneHolds'
      BY <1>2, <2>1 DEF OneHolds, Holding
    <2>5. CopyIsList'
      BY <1>1, <2>1, <2>2 DEF CopyIsList
    <2>6. HolderKnows'
      BY <1>1, <1>2, <2>1, <2>3 DEF Uncrossed, HolderKnows, KnowsRow, Holding
    <2>7. GoneIsGone'
      BY <1>1, <1>2, <2>1 DEF Uncrossed, GoneIsGone, Importing, Holding
    <2>8. RoutersStay'
      BY <1>1, <2>1 DEF Uncrossed, RoutersStay
    <2> QED  BY <2>4, <2>5, <2>6, <2>7, <2>8 DEF Uncrossed
  <1> QED  BY <1>3, <1>4 DEF TopologyInv

LEMMA MergeKeeps ==
    ASSUME TopologyInv, NEW c \in Calls, MergeRemote(c)
    PROVE  TopologyInv'
  <1>1. /\ calls[c].at = "ask" /\ calls[c].op = "list" /\ UNCHANGED <<remote, saved, copied, meant, crossed>>
        /\ \/ calls' = [calls EXCEPT ![c].at = "save", ![c].list = calls[c].list \cup remote]
           \/ calls' = [calls EXCEPT ![c] = NoCall]
    BY DEF MergeRemote
  <1>2. /\ calls' \in [Calls -> Request]
        /\ \/ /\ calls'[c].at = "save" /\ calls'[c].op = "list"
              /\ calls'[c].list = calls[c].list \cup remote
           \/ calls'[c].at = "none"
        /\ \A d \in Calls \ {c} : calls'[d] = calls[d]
    <2>1. calls \in [Calls -> Request] /\ calls[c].list \cup remote \subseteq Routers
      BY DEF TopologyInv, TopologyTypes, Request
    <2>2. CASE calls' = [calls EXCEPT ![c] = NoCall]
      BY <2>1, <2>2, NoCallTypes
    <2>3. CASE calls' = [calls EXCEPT ![c].at = "save", ![c].list = calls[c].list \cup remote]
      <3>1. /\ calls'[c] = [calls[c] EXCEPT !.at = "save", !.list = calls[c].list \cup remote]
            /\ calls' = [calls EXCEPT ![c] = calls'[c]]
            /\ \A d \in Calls \ {c} : calls'[d] = calls[d]
        BY <2>1, <2>3
      <3>2. calls[c] \in Request
        BY DEF TopologyInv, TopologyTypes
      <3>3. /\ calls'[c] \in Request /\ calls'[c].at = "save" /\ calls'[c].op = "list"
            /\ calls'[c].list = calls[c].list \cup remote
        BY <1>1, <2>1, <3>1, <3>2 DEF Request, CallSteps
      <3> QED  BY <2>1, <3>1, <3>3
    <2> QED  BY <1>1, <2>2, <2>3
  <1>3. TopologyTypes'
    BY <1>1, <1>2 DEF TopologyInv, TopologyTypes
  <1>4. ASSUME ~crossed
        PROVE  Uncrossed'
    <2>1. Uncrossed /\ calls[c].list = saved /\ \A d \in Calls \ {c} : ~Holding(d)
      BY <1>1, <1>4 DEF TopologyInv, Uncrossed, OneHolds, Holding, HolderKnows, KnowsRow
    <2>2. \A r \in remote : meant[r] # "out"
      BY <1>1, <2>1 DEF Uncrossed, GoneIsGone, Importing, Holding
    <2>3. OneHolds'
      BY <1>2, <2>1 DEF OneHolds, Holding
    <2>4. CopyIsList'
      BY <1>1, <1>2, <2>1 DEF Uncrossed, CopyIsList, Holding
    <2>5. HolderKnows'
      BY <1>1, <1>2, <2>1, <2>2 DEF Uncrossed, HolderKnows, KnowsRow, Holding
    <2>6. GoneIsGone' /\ RoutersStay'
      BY <1>1, <2>1, <2>2 DEF Uncrossed, GoneIsGone, RoutersStay
    <2> QED  BY <2>1, <2>3, <2>4, <2>5, <2>6 DEF Uncrossed
  <1> QED  BY <1>1, <1>3, <1>4 DEF TopologyInv

LEMMA ImportKeeps ==
    ASSUME TopologyInv, NEW c \in Calls, CreateImported(c)
    PROVE  TopologyInv'
  <1>1. /\ calls[c].at = "ask" /\ calls[c].op = "import" /\ UNCHANGED <<saved, copied, meant, crossed>>
        /\ calls' = [calls EXCEPT ![c].at = "save"]
        /\ remote' \in {remote, remote \cup {calls[c].of}}
    BY DEF CreateImported
  <1>2. /\ calls' \in [Calls -> Request] /\ calls'[c].at = "save" /\ calls'[c].op = "import"
        /\ calls'[c].of = calls[c].of /\ calls'[c].list = calls[c].list /\ calls[c].of \in Routers
        /\ \A d \in Calls \ {c} : calls'[d] = calls[d]
    BY <1>1 DEF TopologyInv, TopologyTypes, Request, CallSteps
  <1>3. TopologyTypes'
    BY <1>1, <1>2 DEF TopologyInv, TopologyTypes
  <1>4. ASSUME ~crossed
        PROVE  Uncrossed'
    <2>1. Uncrossed /\ calls[c].list = saved /\ \A d \in Calls \ {c} : ~Holding(d)
      BY <1>1, <1>4 DEF TopologyInv, Uncrossed, OneHolds, Holding, HolderKnows, KnowsRow
    <2>2. \A r \in remote : meant[r] # "out"
      BY <1>1, <2>1 DEF Uncrossed, GoneIsGone, Importing, Holding
    <2>3. OneHolds'
      BY <1>2, <2>1 DEF OneHolds, Holding
    <2>4. CopyIsList'
      BY <1>1, <1>2, <2>1 DEF Uncrossed, CopyIsList, Holding
    <2>5. HolderKnows'
      BY <1>1, <1>2, <2>1 DEF Uncrossed, HolderKnows, KnowsRow, Holding
    <2>6. GoneIsGone' /\ RoutersStay'
      BY <1>1, <1>2, <2>1, <2>2 DEF Uncrossed, GoneIsGone, RoutersStay, Importing
    <2> QED  BY <2>1, <2>3, <2>4, <2>5, <2>6 DEF Uncrossed
  <1> QED  BY <1>1, <1>3, <1>4 DEF TopologyInv

LEMMA OltKeeps ==
    ASSUME TopologyInv, NEW c \in Calls, OltWithoutRouter(c)
    PROVE  TopologyInv'
  <1>1. /\ calls[c].at = "save" /\ calls[c].op = "olt"
        /\ UNCHANGED <<remote, saved, copied, meant, crossed>>
        /\ calls' \in [Calls -> Request] /\ calls'[c].at = "none"
        /\ \A d \in Calls \ {c} : calls'[d] = calls[d]
    BY NoCallTypes DEF OltWithoutRouter, TopologyInv, TopologyTypes
  <1>2. TopologyTypes'
    BY <1>1 DEF TopologyInv, TopologyTypes
  <1>3. ASSUME Uncrossed
        PROVE  Uncrossed'
    <2>1. OneHolds' /\ CopyIsList'
      BY <1>1, <1>3 DEF Uncrossed, OneHolds, CopyIsList, Holding
    <2>2. HolderKnows' /\ RoutersStay'
      BY <1>1, <1>3 DEF Uncrossed, HolderKnows, KnowsRow, RoutersStay
    <2>3. GoneIsGone'
      BY <1>1, <1>3 DEF Uncrossed, GoneIsGone, Importing
    <2> QED  BY <2>1, <2>2, <2>3 DEF Uncrossed
  <1> QED  BY <1>1, <1>2, <1>3 DEF TopologyInv

LEMMA SaveListKeeps ==
    ASSUME TopologyInv, NEW c \in Calls, SaveNetworkTopology(c)
    PROVE  TopologyInv'
  <1> DEFINE op == calls[c].op
             r == calls[c].of
             list == Changed(op, calls[c].list, r)
  <1>1. /\ calls[c].at = "save" /\ calls' = [calls EXCEPT ![c].at = "copy", ![c].list = list]
        /\ saved' = list /\ UNCHANGED <<remote, copied>>
        /\ crossed' = (crossed \/ Crosses(c))
        /\ meant' = CASE op \in {"create", "update", "import"} -> [meant EXCEPT ![r] = "in"]
                      [] op = "delete" -> [meant EXCEPT ![r] = IF r \in remote THEN "open" ELSE "out"]
                      [] OTHER -> meant
    BY DEF SaveNetworkTopology
  <1>2. op \in Operations /\ r \in Routers /\ calls[c].list \subseteq Routers
    BY DEF TopologyInv, TopologyTypes, Request
  <1>3. list = IF op \in {"create", "update", "import"} THEN calls[c].list \cup {r}
               ELSE IF op = "delete" THEN calls[c].list \ {r} ELSE calls[c].list
    BY <1>2 DEF Changed, Created, Updated, Imported, Deleted, WithOlt, Operations
  <1>4. list \subseteq Routers
    BY <1>2, <1>3
  <1>5. /\ calls' \in [Calls -> Request] /\ calls'[c].at = "copy" /\ calls'[c].list = list
        /\ \A d \in Calls \ {c} : calls'[d] = calls[d]
    BY <1>1, <1>4 DEF TopologyInv, TopologyTypes, Request, CallSteps
  <1>6. TopologyTypes'
    BY <1>1, <1>2, <1>4, <1>5 DEF TopologyInv, TopologyTypes, Crosses
  <1>7. ASSUME ~crossed'
        PROVE  Uncrossed'
    <2>1. Uncrossed /\ \A d \in Calls \ {c} : ~Holding(d)
      BY <1>1, <1>7 DEF TopologyInv, Crosses
    <2>2. /\ op # "list" => calls[c].list = saved
          /\ saved \subseteq calls[c].list
          /\ \A q \in calls[c].list \ saved : meant[q] # "out"
      BY <1>1, <2>1 DEF Uncrossed, HolderKnows, KnowsRow
    <2>3. \A q \in Routers \ {r} : meant'[q] = meant[q]
      BY <1>1, <1>2 DEF TopologyInv, TopologyTypes
    <2>4. /\ op \in {"create", "update", "import"} => meant'[r] = "in"
          /\ op = "delete" => meant'[r] = (IF r \in remote THEN "open" ELSE "out")
          /\ op \in {"list", "olt"} => meant'[r] = meant[r]
      BY <1>1, <1>2 DEF TopologyInv, TopologyTypes
    <2>5. RoutersStay'
      BY <1>1, <1>2, <1>3, <2>1, <2>2, <2>3, <2>4 DEF Uncrossed, RoutersStay, Operations
    <2>6. GoneIsGone'
      <3> SUFFICES ASSUME NEW q \in remote, meant'[q] = "out"
                   PROVE  FALSE
        BY <1>1 DEF GoneIsGone
      <3>1. q \in Routers /\ meant[q] = "out" /\ (q = r => op \in {"list", "olt"})
        BY <1>2, <2>3, <2>4 DEF TopologyInv, TopologyTypes, Operations
      <3>2. Importing(c, q)
        BY <1>1, <2>1, <3>1 DEF Uncrossed, GoneIsGone, Importing, Holding
      <3> QED  BY <3>1, <3>2 DEF Importing
    <2>7. OneHolds' /\ CopyIsList'
      BY <1>5, <2>1 DEF OneHolds, CopyIsList, Holding
    <2>8. HolderKnows'
      BY <1>1, <1>5, <2>1 DEF HolderKnows, KnowsRow, Holding
    <2> QED  BY <2>5, <2>6, <2>7, <2>8 DEF Uncrossed
  <1> QED  BY <1>6, <1>7 DEF TopologyInv

LEMMA KeepCopyKeeps ==
    ASSUME TopologyInv, NEW c \in Calls, KeepCopy(c)
    PROVE  TopologyInv'
  <1>1. /\ calls[c].at = "copy" /\ copied' = [on |-> TRUE, list |-> calls[c].list]
        /\ UNCHANGED <<remote, saved, meant, crossed>>
        /\ calls' \in [Calls -> Request] /\ calls'[c].at = "none"
        /\ \A d \in Calls \ {c} : calls'[d] = calls[d]
    BY NoCallTypes DEF KeepCopy, TopologyInv, TopologyTypes
  <1>2. TopologyTypes'
    BY <1>1 DEF TopologyInv, TopologyTypes, Request
  <1>3. ASSUME Uncrossed
        PROVE  Uncrossed'
    <2>1. calls[c].list = saved
      BY <1>1, <1>3 DEF Uncrossed, HolderKnows, KnowsRow
    <2>2. OneHolds' /\ CopyIsList'
      BY <1>1, <1>3, <2>1 DEF Uncrossed, OneHolds, CopyIsList, Holding
    <2>3. HolderKnows' /\ RoutersStay'
      BY <1>1, <1>3 DEF Uncrossed, HolderKnows, KnowsRow, RoutersStay
    <2>4. GoneIsGone'
      BY <1>1, <1>3 DEF Uncrossed, GoneIsGone, Importing
    <2> QED  BY <2>2, <2>3, <2>4 DEF Uncrossed
  <1> QED  BY <1>1, <1>2, <1>3 DEF TopologyInv

LEMMA TopologyNextKeeps == TopologyInv /\ [TopologyNext]_ntVars => TopologyInv'
  <1> SUFFICES ASSUME TopologyInv, [TopologyNext]_ntVars
               PROVE  TopologyInv'
    OBVIOUS
  <1>1. CASE UNCHANGED ntVars
    BY <1>1 DEF ntVars, TopologyInv, TopologyTypes, Uncrossed, OneHolds, CopyIsList, HolderKnows, KnowsRow, GoneIsGone,
                Importing, RoutersStay, Holding
  <1>2. CASE CopyExpires
    BY <1>2 DEF CopyExpires, NoCopy, TopologyInv, TopologyTypes, Uncrossed, OneHolds, CopyIsList, HolderKnows, KnowsRow,
                GoneIsGone, Importing, RoutersStay, Holding
  <1> QED  BY <1>1, <1>2, BeginCallKeeps, GetKeeps, MergeKeeps, ImportKeeps, OltKeeps, SaveListKeeps,
              KeepCopyKeeps DEF TopologyNext

-----------------------------------------------------------------------------
(* The theorem *)

LEMMA TopologyInitHolds == TopologyInit => TopologyInv
  <1> SUFFICES ASSUME TopologyInit
               PROVE  TopologyInv
    OBVIOUS
  <1>1. \A c \in Calls : calls[c] = NoCall /\ calls[c].at = "none"
    BY NoCallTypes DEF TopologyInit
  <1>2. TopologyTypes
    BY NoCallTypes DEF TopologyInit, NoCopy, TopologyTypes
  <1>3. OneHolds /\ HolderKnows
    BY <1>1 DEF OneHolds, Holding, HolderKnows, KnowsRow
  <1>4. CopyIsList /\ GoneIsGone /\ RoutersStay
    BY DEF TopologyInit, NoCopy, CopyIsList, GoneIsGone, RoutersStay
  <1> QED  BY <1>2, <1>3, <1>4 DEF TopologyInv, Uncrossed

\* getNetworkTopology, saveNetworkTopology and the routes around them: a router that
\* was created, updated or imported last is in the row, and one deleted from both
\* lists stays away, unless two requests crossed or a read failed.
THEOREM RoutersAreKept == TopologySpec => []RoutersKept
  <1>1. ASSUME TopologyInv PROVE RoutersKept
    <2> SUFFICES ASSUME ~crossed PROVE RoutersKept
      BY DEF RoutersKept
    <2>1. RoutersStay
      BY <1>1 DEF TopologyInv, Uncrossed
    <2> QED  BY <2>1 DEF RoutersStay, RoutersKept
  <1> QED  BY <1>1, TopologyInitHolds, TopologyNextKeeps, PTL DEF TopologySpec

-----------------------------------------------------------------------------
(* Knowledge: a search finds the last upload.  A request that meets no other *)
(* about its name (`alone') knows what the store holds under the name at     *)
(* each of its steps, because nobody else with that name is at work, and the *)
(* steps of other names do not touch it.                                     *)

Stages == {"none", "extracted", "embedding", "inserting", "found", "erased"}
Results == Uploads \cup {Unknown, Nothing}

KnowledgeTypes ==
    /\ rows \subseteq Uploads /\ sent \subseteq Uploads
    /\ vectors \subseteq [upload : Uploads, piece : Pieces]
    /\ nameOf \in [Uploads -> Names]
    /\ tasks \in [Uploads -> [at : Stages, left : SUBSET Pieces, alone : BOOLEAN]]
    /\ indexed \in [Names -> Results]

\* A name with a request at work promises nothing.
BusyIsUnknown == \A u \in Uploads : Busy(u) => indexed[nameOf[u]] = Unknown

\* Who is alone is the only one at work on the name.
AloneOnName ==
    \A u \in Uploads : Busy(u) /\ tasks[u].alone => \A o \in Namesakes(u) : ~Busy(o)

\* What a request that is alone has made of the pieces of its name.
Inserted(u) == [upload : {u}, piece : Pieces \ tasks[u].left]
Progress(u) ==
    /\ tasks[u].at \in {"embedding", "erased"} => VectorsNamed(nameOf[u]) = {}
    /\ tasks[u].at = "inserting" => VectorsNamed(nameOf[u]) = Inserted(u)
AloneProgresses == \A u \in Uploads : Busy(u) /\ tasks[u].alone => Progress(u)

NameKept(n) ==
    /\ indexed[n] = Nothing => VectorsNamed(n) = {}
    /\ indexed[n] \in Uploads => indexed[n] \in rows /\ VectorsNamed(n) = PiecesOf(indexed[n])

Named(n) == indexed[n] \in Uploads => nameOf[indexed[n]] = n
AllNamed == \A n \in Names : Named(n)

KnowledgeInv ==
    /\ KnowledgeTypes /\ BusyIsUnknown /\ AloneOnName /\ AloneProgresses /\ AllNamed
    /\ SearchFindsLastUpload

-----------------------------------------------------------------------------
(* A step of u: what it leaves alone, and what it must see to *)

Elsewhere(u) ==
    /\ nameOf' = nameOf
    /\ \A o \in Uploads \ {u} : /\ tasks'[o].at = tasks[o].at /\ tasks'[o].left = tasks[o].left
                                /\ tasks'[o].alone => tasks[o].alone
    /\ \A n \in Names \ {nameOf[u]} : VectorsNamed(n)' = VectorsNamed(n) /\ indexed'[n] = indexed[n]
    /\ \A o \in Uploads : nameOf[o] # nameOf[u] /\ o \in rows => o \in rows'

Here(u) ==
    /\ Busy(u)' \/ (\E o \in Namesakes(u) : Busy(o)) => indexed'[nameOf[u]] = Unknown
    /\ Busy(u)' /\ tasks'[u].alone => (\A o \in Namesakes(u) : ~Busy(o)) /\ Progress(u)'
    /\ \A o \in Namesakes(u) : ~(Busy(o) /\ tasks'[o].alone)
    /\ indexed'[nameOf[u]] # Unknown => NameKept(nameOf[u])' /\ Named(nameOf[u])'

LEMMA StepKeeps ==
    ASSUME KnowledgeInv, KnowledgeTypes', NEW u \in Uploads, Elsewhere(u), Here(u)
    PROVE  KnowledgeInv'
  <1>1. BusyIsUnknown'
    BY DEF KnowledgeInv, KnowledgeTypes, BusyIsUnknown, Busy, Namesakes, Elsewhere, Here
  <1>2. AloneOnName'
    BY DEF KnowledgeInv, KnowledgeTypes, AloneOnName, Busy, Namesakes, Elsewhere, Here
  <1>3. AloneProgresses'
    <2> SUFFICES ASSUME NEW o \in Uploads \ {u}, Busy(o)', tasks'[o].alone
                 PROVE  Progress(o)'
      BY DEF AloneProgresses, Here
    <2>1. Busy(o) /\ tasks[o].alone /\ nameOf[o] # nameOf[u]
      BY DEF Busy, Namesakes, Elsewhere, Here
    <2>2. Progress(o)
      BY <2>1 DEF KnowledgeInv, AloneProgresses
    <2> QED  BY <2>1, <2>2 DEF Progress, Inserted, Elsewhere, KnowledgeInv, KnowledgeTypes
  <1>4. ASSUME NEW n \in Names
        PROVE  NameKept(n)' /\ Named(n)'
    <2>1. CASE n = nameOf[u] /\ indexed'[n] = Unknown
      BY <2>1, UploadsAssumption DEF NameKept, Named, Unknown, Nothing
    <2>2. CASE n = nameOf[u] /\ indexed'[n] # Unknown
      BY <2>2 DEF Elsewhere, Here
    <2>3. CASE n # nameOf[u]
      <3>1. indexed'[n] = indexed[n] /\ VectorsNamed(n)' = VectorsNamed(n) /\ nameOf' = nameOf
        BY <2>3 DEF Elsewhere
      <3>2. NameKept(n) /\ Named(n)
        BY DEF NameKept, KnowledgeInv, SearchFindsLastUpload, AllNamed
      <3>3. indexed[n] \in rows /\ indexed[n] \in Uploads => indexed[n] \in rows'
        BY <2>3, <3>2 DEF Elsewhere, Named
      <3> QED  BY <3>1, <3>2, <3>3 DEF NameKept, Named, PiecesOf
    <2> QED  BY <2>1, <2>2, <2>3
  <1> QED  BY <1>1, <1>2, <1>3, <1>4 DEF KnowledgeInv, SearchFindsLastUpload, AllNamed, NameKept

-----------------------------------------------------------------------------
(* Beginning, going on and ending *)

LEMMA BeginTypes ==
    ASSUME KnowledgeTypes, NEW u \in Uploads, NEW at \in Stages, BeginTask(u, at)
    PROVE  /\ tasks' \in [Uploads -> [at : Stages, left : SUBSET Pieces, alone : BOOLEAN]]
           /\ indexed' \in [Names -> Results]
           /\ tasks'[u].at = at
           /\ tasks'[u].alone = ~\E p \in Namesakes(u) : Busy(p)
           /\ indexed'[nameOf[u]] = Unknown
           /\ \A n \in Names \ {nameOf[u]} : indexed'[n] = indexed[n]
           /\ \A o \in Namesakes(u) : ~tasks'[o].alone
           /\ \A o \in Uploads \ {u} : /\ tasks'[o].at = tasks[o].at /\ tasks'[o].left = tasks[o].left
                                       /\ tasks'[o].alone => tasks[o].alone
  BY DEF KnowledgeTypes, BeginTask, Idle, Namesakes, Results

LEMMA BeginUploadKeeps ==
    ASSUME KnowledgeInv, NEW u \in Uploads, NEW at \in {"extracted", "found"}, BeginTask(u, at),
           UNCHANGED <<rows, vectors, nameOf>>, sent' \subseteq Uploads
    PROVE  KnowledgeInv'
  <1>1. at \in Stages /\ KnowledgeTypes
    BY DEF Stages, KnowledgeInv
  <1>2. KnowledgeTypes'
    BY <1>1, BeginTypes DEF KnowledgeTypes
  <1>3. Elsewhere(u)
    BY <1>1, BeginTypes DEF Elsewhere, VectorsNamed
  <1>4. Here(u)
    BY <1>1, BeginTypes DEF Here, Progress, Busy
  <1> QED  BY <1>2, <1>3, <1>4, StepKeeps

\* A step of a request between its beginning and its end.
LEMMA OnKeeps ==
    ASSUME KnowledgeInv, NEW u \in Uploads, Busy(u), Busy(u)', KnowledgeTypes',
           \A o \in Uploads \ {u} : tasks'[o] = tasks[o],
           tasks'[u].alone = tasks[u].alone,
           tasks[u].alone => Progress(u)',
           \A n \in Names \ {nameOf[u]} : VectorsNamed(n)' = VectorsNamed(n),
           UNCHANGED <<rows, nameOf, indexed>>
    PROVE  KnowledgeInv'
  <1>1. Elsewhere(u)
    BY DEF Elsewhere
  <1>2. Here(u)
    <2>1. \A o \in Namesakes(u) : u \in Namesakes(o) /\ o \in Uploads \ {u}
      BY DEF Namesakes
    <2>2. \A o \in Namesakes(u) : ~(Busy(o) /\ tasks'[o].alone)
      BY <2>1 DEF KnowledgeInv, AloneOnName
    <2>3. indexed'[nameOf[u]] = Unknown
      BY DEF KnowledgeInv, BusyIsUnknown
    <2> QED  BY <2>2, <2>3 DEF Here, KnowledgeInv, AloneOnName
  <1> QED  BY <1>1, <1>2, StepKeeps

LEMMA EndUploadKeeps ==
    ASSUME KnowledgeInv, NEW u \in Uploads, Busy(u), NEW result \in Results, EndTask(u, result),
           rows' \subseteq Uploads, UNCHANGED <<vectors, nameOf, sent>>,
           \A o \in Uploads \ {u} : o \in rows => o \in rows',
           tasks[u].alone => \/ result = Unknown
                             \/ result = Nothing /\ VectorsNamed(nameOf[u]) = {}
                             \/ result = u /\ u \in rows' /\ VectorsNamed(nameOf[u]) = PiecesOf(u)
    PROVE  KnowledgeInv'
  <1>1. KnowledgeTypes'
    BY DEF KnowledgeInv, KnowledgeTypes, EndTask, Idle, Stages, Results
  <1>2. /\ \A o \in Uploads \ {u} : tasks'[o] = tasks[o]
        /\ \A n \in Names \ {nameOf[u]} : indexed'[n] = indexed[n]
        /\ indexed'[nameOf[u]] = IF tasks[u].alone THEN result ELSE indexed[nameOf[u]]
        /\ ~Busy(u)'
    BY DEF KnowledgeInv, KnowledgeTypes, EndTask, Idle, Busy
  <1>3. \A n \in Names : VectorsNamed(n)' = VectorsNamed(n)
    BY DEF VectorsNamed
  <1>4. Elsewhere(u)
    BY <1>2, <1>3 DEF Elsewhere
  <1>5. Here(u)
    <2>1. \A o \in Namesakes(u) : u \in Namesakes(o) /\ o \in Uploads \ {u}
      BY DEF Namesakes
    <2>2. \A o \in Namesakes(u) : ~(Busy(o) /\ tasks'[o].alone)
      BY <1>2, <2>1 DEF KnowledgeInv, AloneOnName
    <2>3. indexed[nameOf[u]] = Unknown /\ nameOf[u] \in Names
      BY DEF KnowledgeInv, BusyIsUnknown, KnowledgeTypes
    <2>4. (\E o \in Namesakes(u) : Busy(o)) => indexed'[nameOf[u]] = Unknown
      BY <1>2, <2>3 DEF KnowledgeInv, AloneOnName
    <2>5. ASSUME indexed'[nameOf[u]] # Unknown
          PROVE  NameKept(nameOf[u])' /\ Named(nameOf[u])'
      <3>1. CASE indexed'[nameOf[u]] = Nothing /\ VectorsNamed(nameOf[u]) = {}
        BY <1>3, <2>3, <3>1, UploadsAssumption DEF NameKept, Named, Nothing
      <3>2. CASE indexed'[nameOf[u]] = u /\ u \in rows' /\ VectorsNamed(nameOf[u]) = PiecesOf(u)
        BY <1>3, <2>3, <3>2, UploadsAssumption DEF NameKept, Named, Nothing, PiecesOf
      <3> QED  BY <1>2, <2>3, <2>5, <3>1, <3>2
    <2> QED  BY <1>2, <2>2, <2>4, <2>5 DEF Here
  <1> QED  BY <1>1, <1>4, <1>5, StepKeeps

-----------------------------------------------------------------------------
(* What the statements do to the pieces of a name *)

LEMMA DeleteEmpties ==
    ASSUME KnowledgeTypes, NEW u \in Uploads, DeleteBySource(u), UNCHANGED nameOf
    PROVE  /\ vectors' \subseteq [upload : Uploads, piece : Pieces]
           /\ VectorsNamed(nameOf[u])' = {}
           /\ \A n \in Names \ {nameOf[u]} : VectorsNamed(n)' = VectorsNamed(n)
  BY DEF KnowledgeTypes, DeleteBySource, VectorsNamed

LEMMA StageChange ==
    ASSUME KnowledgeTypes, NEW u \in Uploads, NEW at \in Stages, Step(u, at)
    PROVE  /\ tasks' \in [Uploads -> [at : Stages, left : SUBSET Pieces, alone : BOOLEAN]]
           /\ tasks'[u].at = at /\ tasks'[u].alone = tasks[u].alone
           /\ \A o \in Uploads \ {u} : tasks'[o] = tasks[o]
  BY DEF KnowledgeTypes, Step

LEMMA DeletionKeeps ==
    ASSUME KnowledgeInv, NEW u \in Uploads, Busy(u), NEW at \in {"embedding", "erased"}, Step(u, at),
           DeleteBySource(u), UNCHANGED <<rows, nameOf, sent, indexed>>
    PROVE  KnowledgeInv'
  <1>1. KnowledgeTypes /\ at \in Stages
    BY DEF KnowledgeInv, Stages
  <1>2. /\ tasks'[u].at = at /\ tasks'[u].alone = tasks[u].alone
        /\ \A o \in Uploads \ {u} : tasks'[o] = tasks[o]
    BY <1>1, StageChange DEF KnowledgeTypes
  <1>3. KnowledgeTypes'
    BY <1>1, StageChange, DeleteEmpties DEF KnowledgeTypes
  <1>4. Progress(u)' /\ Busy(u)'
    BY <1>1, <1>2, DeleteEmpties DEF Progress, Busy
  <1> QED  BY <1>1, <1>2, <1>3, <1>4, DeleteEmpties, OnKeeps

-----------------------------------------------------------------------------
(* One step per action *)

LEMMA EmbeddedKeeps ==
    ASSUME KnowledgeInv, NEW u \in Uploads, Embedded(u)
    PROVE  KnowledgeInv'
  <1>1. /\ tasks'[u].at = "inserting" /\ tasks'[u].left = Pieces
        /\ tasks'[u].alone = tasks[u].alone /\ \A o \in Uploads \ {u} : tasks'[o] = tasks[o]
        /\ tasks' \in [Uploads -> [at : Stages, left : SUBSET Pieces, alone : BOOLEAN]]
    BY DEF KnowledgeInv, KnowledgeTypes, Embedded, Stages
  <1>2. \A n \in Names : VectorsNamed(n)' = VectorsNamed(n)
    BY DEF Embedded, VectorsNamed
  <1>3. KnowledgeTypes' /\ Busy(u) /\ Busy(u)'
    BY <1>1 DEF KnowledgeInv, KnowledgeTypes, Embedded, Busy
  <1>4. tasks[u].alone => VectorsNamed(nameOf[u]) = {}
    BY <1>3 DEF KnowledgeInv, AloneProgresses, Progress, Embedded
  <1>5. nameOf' = nameOf /\ nameOf[u] \in Names
    BY DEF Embedded, KnowledgeInv, KnowledgeTypes
  <1>6. tasks[u].alone => Progress(u)'
    <2>1. Inserted(u)' = {}
      BY <1>1 DEF Inserted
    <2> QED  BY <1>1, <1>2, <1>4, <1>5, <2>1 DEF Progress
  <1> QED  BY <1>1, <1>2, <1>3, <1>6, OnKeeps DEF Embedded

LEMMA OneMore ==
    ASSUME NEW u, NEW P, NEW p
    PROVE  [upload : {u}, piece : P \cup {p}]
             = [upload : {u}, piece : P] \cup {[upload |-> u, piece |-> p]}
  <1>1. ASSUME NEW x \in [upload : {u}, piece : P \cup {p}]
        PROVE  x \in [upload : {u}, piece : P] \cup {[upload |-> u, piece |-> p]}
    <2>1. x = [upload |-> x.upload, piece |-> x.piece] /\ x.upload = u /\ x.piece \in P \cup {p}
      OBVIOUS
    <2> QED  BY <2>1
  <1>2. ASSUME NEW x \in [upload : {u}, piece : P] \cup {[upload |-> u, piece |-> p]}
        PROVE  x \in [upload : {u}, piece : P \cup {p}]
    OBVIOUS
  <1> QED  BY <1>1, <1>2

LEMMA IndexChunkKeeps ==
    ASSUME KnowledgeInv, NEW u \in Uploads, IndexChunk(u)
    PROVE  KnowledgeInv'
  <1> PICK p \in tasks[u].left :
          /\ vectors' = vectors \cup {[upload |-> u, piece |-> p]}
          /\ tasks' = [tasks EXCEPT ![u].left = @ \ {p}]
    BY DEF IndexChunk
  <1>0. tasks[u].at = "inserting" /\ UNCHANGED <<rows, nameOf, sent, indexed>>
    BY DEF IndexChunk
  <1>1. /\ tasks'[u].at = "inserting" /\ tasks'[u].left = tasks[u].left \ {p}
        /\ tasks'[u].alone = tasks[u].alone /\ \A o \in Uploads \ {u} : tasks'[o] = tasks[o]
        /\ tasks' \in [Uploads -> [at : Stages, left : SUBSET Pieces, alone : BOOLEAN]]
        /\ p \in Pieces /\ tasks[u].left \subseteq Pieces
    BY <1>0 DEF KnowledgeInv, KnowledgeTypes
  <1>2. KnowledgeTypes' /\ Busy(u) /\ Busy(u)'
    BY <1>0, <1>1 DEF KnowledgeInv, KnowledgeTypes, Busy
  <1>3. \A n \in Names \ {nameOf[u]} : VectorsNamed(n)' = VectorsNamed(n)
    BY <1>0 DEF VectorsNamed
  <1>4. VectorsNamed(nameOf[u])' = VectorsNamed(nameOf[u]) \cup {[upload |-> u, piece |-> p]}
    BY <1>0 DEF VectorsNamed
  <1>5. tasks[u].alone => Progress(u)'
    <2>1. Inserted(u)' = Inserted(u) \cup {[upload |-> u, piece |-> p]}
      <3>1. Pieces \ (tasks[u].left \ {p}) = (Pieces \ tasks[u].left) \cup {p}
        BY <1>1
      <3>2. Inserted(u)' = [upload : {u}, piece : Pieces \ (tasks[u].left \ {p})]
        BY <1>1 DEF Inserted
      <3>3. Inserted(u) = [upload : {u}, piece : Pieces \ tasks[u].left]
        BY DEF Inserted
      <3>4. [upload : {u}, piece : (Pieces \ tasks[u].left) \cup {p}]
              = [upload : {u}, piece : Pieces \ tasks[u].left] \cup {[upload |-> u, piece |-> p]}
        BY OneMore
      <3> QED  BY <3>1, <3>2, <3>3, <3>4
    <2>2. tasks[u].alone => VectorsNamed(nameOf[u]) = Inserted(u)
      BY <1>0, <1>2 DEF KnowledgeInv, AloneProgresses, Progress
    <2> QED  BY <1>0, <1>1, <1>4, <2>1, <2>2 DEF Progress
  <1> QED  BY <1>0, <1>1, <1>2, <1>3, <1>5, OnKeeps

LEMMA CreateUploadKeeps ==
    ASSUME KnowledgeInv, NEW u \in Uploads, CreateDocument(u)
    PROVE  KnowledgeInv'
  <1>1. Busy(u) /\ u \in Results
    BY DEF CreateDocument, Busy, Results
  <1>2. tasks[u].alone => VectorsNamed(nameOf[u]) = PiecesOf(u)
    BY <1>1 DEF CreateDocument, KnowledgeInv, AloneProgresses, Progress, Inserted, PiecesOf
  <1> QED  BY <1>1, <1>2, EndUploadKeeps DEF CreateDocument, KnowledgeInv, KnowledgeTypes

LEMMA DeleteDocumentKeeps ==
    ASSUME KnowledgeInv, NEW u \in Uploads, DeleteDocument(u)
    PROVE  KnowledgeInv'
  <1>1. Busy(u) /\ Nothing \in Results
    BY DEF DeleteDocument, Busy, Results
  <1>2. tasks[u].alone => VectorsNamed(nameOf[u]) = {}
    BY <1>1 DEF DeleteDocument, KnowledgeInv, AloneProgresses, Progress
  <1> QED  BY <1>1, <1>2, EndUploadKeeps DEF DeleteDocument, KnowledgeInv, KnowledgeTypes

LEMMA KnowledgeNextKeeps == KnowledgeInv /\ [KnowledgeNext]_kbVars => KnowledgeInv'
  <1> SUFFICES ASSUME KnowledgeInv, [KnowledgeNext]_kbVars
               PROVE  KnowledgeInv'
    OBVIOUS
  <1>1. CASE UNCHANGED kbVars
    <2> USE <1>1 DEF kbVars
    <2>1. KnowledgeTypes' /\ BusyIsUnknown' /\ AloneOnName'
      BY DEF KnowledgeInv, KnowledgeTypes, BusyIsUnknown, AloneOnName, Busy, Namesakes
    <2>2. AloneProgresses'
      BY DEF KnowledgeInv, AloneProgresses, Progress, Busy, Inserted, VectorsNamed
    <2>3. AllNamed' /\ SearchFindsLastUpload'
      BY DEF KnowledgeInv, AllNamed, Named, SearchFindsLastUpload, VectorsNamed
    <2> QED  BY <2>1, <2>2, <2>3 DEF KnowledgeInv
  <1>2. ASSUME NEW u \in Uploads, PostDocument(u)
        PROVE  KnowledgeInv'
    BY <1>2, BeginUploadKeeps DEF PostDocument, KnowledgeInv, KnowledgeTypes
  <1>3. ASSUME NEW u \in Uploads, ClearSource(u)
        PROVE  KnowledgeInv'
    BY <1>3, DeletionKeeps DEF ClearSource, Busy
  <1>4. ASSUME NEW u \in Uploads, FindDocument(u)
        PROVE  KnowledgeInv'
    BY <1>4, BeginUploadKeeps DEF FindDocument, KnowledgeInv, KnowledgeTypes
  <1>5. ASSUME NEW u \in Uploads, EraseVectors(u)
        PROVE  KnowledgeInv'
    BY <1>5, DeletionKeeps DEF EraseVectors, Busy
  <1>6. ASSUME NEW u \in Uploads, FailTask(u)
        PROVE  KnowledgeInv'
    BY <1>6, EndUploadKeeps DEF FailTask, Results, KnowledgeInv, KnowledgeTypes
  <1> QED  BY <1>1, <1>2, <1>3, <1>4, <1>5, <1>6, EmbeddedKeeps, IndexChunkKeeps, CreateUploadKeeps,
              DeleteDocumentKeeps DEF KnowledgeNext

-----------------------------------------------------------------------------
(* The theorem *)

LEMMA KnowledgeInitHolds == KnowledgeInit => KnowledgeInv
  BY UploadsAssumption DEF KnowledgeInit, KnowledgeInv, KnowledgeTypes, BusyIsUnknown, AloneOnName, AloneProgresses,
         AllNamed, Named, SearchFindsLastUpload, Busy, Idle, Stages, Results, Nothing, VectorsNamed

\* processAndIndexDocument, deleteDocument: whatever requests overlapped or failed
\* before, a request about a name that meets no other leaves the pieces of its
\* document and nothing else of that name, or nothing.
THEOREM LastUploadIsFound == KnowledgeSpec => []SearchFindsLastUpload
  <1>1. KnowledgeInv => SearchFindsLastUpload
    BY DEF KnowledgeInv
  <1> QED  BY <1>1, KnowledgeInitHolds, KnowledgeNextKeeps, PTL DEF KnowledgeSpec

-----------------------------------------------------------------------------
(* History: the conversations of one import are in the record, in the queue, *)
(* in the worker's hand, or still to be queued by the Start.                 *)

StartSteps == {"none", "refused", "list", "clear", "push", "done"}
SyncStates == {"none", "IN_PROGRESS"} \cup Finished
SyncRecord == [job : Starts \cup {0}, state : SyncStates, total : Nat, processed : Nat, failed : Nat]
Job == [job : Starts, attempt : 1..MaxAttempts]
SyncSteps == {"rest", "phone", "import", "count", "remaining", "finish"}

HistoryTypes ==
    /\ start \in [Starts -> [at : StartSteps, left : Nat]]
    /\ queue \in Seq(Job) /\ progress \in SyncRecord
    /\ syncing \in [at : SyncSteps, task : Job \cup {NoTask}, copy : SyncRecord]
    /\ syncDied \in BOOLEAN /\ mixed \in BOOLEAN
    /\ \A s \in Starts : start[s].at \in {"clear", "push"} => start[s].left > 0
    /\ syncing.at # "rest" => syncing.task \in Job

Begins(s) == start[s].at \in {"list", "clear", "push"}
Begun == progress.state = "IN_PROGRESS"
AtEase == queue = <<>> /\ syncing.at = "rest"

\* The Start of the record is still at it, with so many left to queue.
Queues == progress.job \in Starts /\ start[progress.job].at \in {"clear", "push"}
ToPush == IF Queues THEN start[progress.job].left ELSE 0
InHand == IF syncing.at \in {"phone", "import", "count"} THEN 1 ELSE 0

\* One Start at a time, and none before the last import is over.
OneStart == \A s, q \in Starts : Begins(s) /\ Begins(q) => s = q
Orderly ==
    \A s \in Starts : /\ start[s].at = "list" => AtEase /\ ~Begun
                      /\ start[s].at = "clear" => AtEase /\ Begun
                      /\ start[s].at \in {"clear", "push"} => progress.job = s

\* The queue and the worker are about the import of the record, and the copy the
\* worker writes back is the record, one conversation later.
JobsAreIts == \A i \in DOMAIN queue : queue[i].job = progress.job
OneMoreOf(copy) ==
    /\ copy.job = progress.job /\ copy.state = progress.state /\ copy.total = progress.total
    /\ copy.processed + copy.failed = progress.processed + progress.failed + 1
CopyIsOurs ==
    /\ syncing.at # "rest" => syncing.task.job = progress.job
    /\ syncing.at \in {"phone", "finish"} => syncing.copy = progress
    /\ syncing.at = "count" => OneMoreOf(syncing.copy)

Balanced == progress.processed + progress.failed + Len(queue) + ToPush + InHand = progress.total
SomebodyImports == Begun => ~AtEase \/ Queues

Accounted == OneStart /\ Orderly /\ JobsAreIts /\ CopyIsOurs /\ Balanced /\ SomebodyImports
HistoryInv == HistoryTypes /\ (~mixed /\ ~syncDied => Accounted)

LEMMA NothingBegun ==
    /\ NoProgress \in SyncRecord /\ NoTask \in [job : {0}, attempt : {0}] /\ 0 \notin Starts
    /\ Resting \in [at : SyncSteps, task : Job \cup {NoTask}, copy : SyncRecord]
    /\ Resting.at = "rest" /\ NoProgress.job = 0 /\ NoProgress.state = "none"
    /\ NoProgress.total = 0 /\ NoProgress.processed = 0 /\ NoProgress.failed = 0
  BY HistoryAssumption DEF NoProgress, SyncRecord, SyncStates, NoTask, Resting, SyncSteps

LEMMA HistoryInitHolds == HistoryInit => HistoryInv
  <1> SUFFICES ASSUME HistoryInit PROVE HistoryInv
    OBVIOUS
  <1>1. HistoryTypes
    <2>1. start \in [Starts -> [at : StartSteps, left : Nat]] /\ \A s \in Starts : start[s].at = "none"
      BY DEF HistoryInit, StartSteps
    <2>2. queue \in Seq(Job)
      BY DEF HistoryInit
    <2>3. syncing \in [at : SyncSteps, task : Job \cup {NoTask}, copy : SyncRecord] /\ syncing.at = "rest"
      BY NothingBegun DEF HistoryInit
    <2> QED  BY <2>1, <2>2, <2>3, NothingBegun DEF HistoryInit, HistoryTypes
  <1>2. OneStart /\ Orderly
    BY DEF HistoryInit, OneStart, Orderly, Begins
  <1>3. JobsAreIts /\ CopyIsOurs /\ SomebodyImports /\ ~Queues
    BY NothingBegun DEF HistoryInit, JobsAreIts, CopyIsOurs, SomebodyImports, Begun, Queues
  <1>4. Balanced
    BY <1>3, NothingBegun DEF HistoryInit, Balanced, ToPush, InHand
  <1> QED  BY <1>1, <1>2, <1>3, <1>4 DEF HistoryInv, Accounted

LEMMA StartHistorySyncKeeps ==
    ASSUME HistoryInv, NEW s \in Starts, StartHistorySync(s)
    PROVE  HistoryInv'
  <1>1. HistoryTypes'
    BY DEF HistoryInv, HistoryTypes, StartHistorySync, StartSteps
  <1>2. ASSUME ~mixed', ~syncDied' PROVE Accounted'
    <2>1. Accounted /\ HistoryTypes /\ (Begun \/ ~SomethingRuns(s))
      BY <1>2 DEF HistoryInv, StartHistorySync, HistoryTypes, Begun
    <2>2. UNCHANGED <<queue, progress, syncing>> /\ start[s].at = "none"
          /\ start' = [start EXCEPT ![s].at = IF Begun THEN "refused" ELSE "list"]
      BY DEF StartHistorySync, Begun
    <2>3. \A q \in Starts : q # s => start'[q] = start[q]
      BY <2>1, <2>2 DEF HistoryTypes
    <2>4. start'[s].at = (IF Begun THEN "refused" ELSE "list") /\ start'[s].left = start[s].left
      BY <2>1, <2>2 DEF HistoryTypes
    <2>5. ~Begun => AtEase /\ \A q \in Starts \ {s} : ~Begins(q)
      BY <2>1 DEF SomethingRuns, AtEase, Begins, Begun
    <2>6. OneStart'
      BY <2>1, <2>3, <2>4, <2>5 DEF Accounted, OneStart, Begins
    <2>7. Orderly'
      BY <2>1, <2>2, <2>3, <2>4, <2>5 DEF Accounted, Orderly, AtEase, Begun
    <2>8. (Queues' <=> Queues) /\ ToPush' = ToPush
      BY <2>2, <2>3, <2>4 DEF Queues, ToPush
    <2>9. JobsAreIts' /\ CopyIsOurs' /\ Balanced' /\ SomebodyImports'
      BY <2>1, <2>2, <2>8 DEF Accounted, JobsAreIts, CopyIsOurs, OneMoreOf, Balanced, SomebodyImports, InHand,
         AtEase, Begun
    <2> QED  BY <2>6, <2>7, <2>9 DEF Accounted
  <1> QED  BY <1>1, <1>2 DEF HistoryInv

LEMMA ListingKeeps ==
    ASSUME HistoryInv, NEW s \in Starts, List(s)
    PROVE  HistoryInv'
  <1>1. /\ HistoryTypes /\ start[s].at = "list" /\ UNCHANGED <<queue, syncing, syncDied, mixed>>
        /\ \A q \in Starts : q # s => start'[q] = start[q]
    BY DEF HistoryInv, HistoryTypes, List
  <1>2. CASE UNCHANGED progress /\ start' = [start EXCEPT ![s].at = "done"]
    <2>1. start'[s].at = "done" /\ start'[s].left = start[s].left
      BY <1>1, <1>2 DEF HistoryTypes
    <2>2. HistoryTypes'
      BY <1>1, <1>2, <2>1 DEF HistoryTypes, StartSteps
    <2>3. ASSUME ~mixed', ~syncDied' PROVE Accounted'
      <3>1. Accounted /\ ~Begun
        BY <1>1, <2>3 DEF HistoryInv, Accounted, Orderly
      <3>2. OneStart' /\ Orderly'
        BY <1>1, <1>2, <2>1, <3>1 DEF Accounted, OneStart, Orderly, Begins, AtEase, Begun
      <3>3. (Queues' <=> Queues) /\ ToPush' = ToPush
        BY <1>1, <1>2, <2>1 DEF Queues, ToPush
      <3> QED  BY <1>1, <1>2, <3>1, <3>2, <3>3 DEF Accounted, JobsAreIts, CopyIsOurs, OneMoreOf, Balanced,
               SomebodyImports, InHand, AtEase, Begun
    <2> QED  BY <2>2, <2>3 DEF HistoryInv
  <1>3. ASSUME NEW n \in Listing,
               progress' = [NoProgress EXCEPT !.job = s, !.total = n,
                              !.state = IF n = 0 THEN "COMPLETED" ELSE "IN_PROGRESS"],
               start' = [start EXCEPT ![s] = [at |-> IF n = 0 THEN "done" ELSE "clear", left |-> n]]
        PROVE  HistoryInv'
    <2>1. n \in Nat
      BY HistoryAssumption DEF Listing
    <2>2. /\ progress' \in SyncRecord /\ progress'.job = s /\ progress'.total = n
          /\ progress'.processed = 0 /\ progress'.failed = 0
          /\ progress'.state = IF n = 0 THEN "COMPLETED" ELSE "IN_PROGRESS"
      BY <1>3, <2>1 DEF NoProgress, SyncRecord, SyncStates, Finished
    <2>3. start'[s].at = (IF n = 0 THEN "done" ELSE "clear") /\ start'[s].left = n
      BY <1>1, <1>3 DEF HistoryTypes
    <2>4. HistoryTypes'
      <3>1. start' \in [Starts -> [at : StartSteps, left : Nat]]
        BY <1>1, <1>3, <2>1 DEF HistoryTypes, StartSteps
      <3>2. \A q \in Starts : start'[q].at \in {"clear", "push"} => start'[q].left > 0
        <4>1. \A q \in Starts \ {s} : start'[q].at \in {"clear", "push"} => start'[q].left > 0
          BY <1>1 DEF HistoryTypes
        <4>2. start'[s].at \in {"clear", "push"} => start'[s].left > 0
          BY <2>1, <2>3
        <4> QED  BY <4>1, <4>2
      <3> QED  BY <1>1, <2>2, <3>1, <3>2 DEF HistoryTypes
    <2>5. ASSUME ~mixed', ~syncDied' PROVE Accounted'
      <3>1. /\ Accounted /\ ~Begun /\ AtEase /\ AtEase'
            /\ \A q \in Starts \ {s} : ~Begins(q)
        BY <1>1, <2>5 DEF HistoryInv, Accounted, Orderly, OneStart, Begins, AtEase
      <3>2. \A q \in Starts \ {s} : start'[q].at \notin {"list", "clear", "push"}
        BY <1>1, <3>1 DEF Begins
      <3>3. OneStart' /\ Orderly'
        BY <2>2, <2>3, <3>1, <3>2 DEF OneStart, Orderly, Begins, Begun
      <3>4. Queues' = (n # 0) /\ ToPush' = n /\ InHand' = 0 /\ Len(queue') = 0
        BY <1>1, <2>2, <2>3, <3>1 DEF Queues, ToPush, InHand, AtEase
      <3>5. JobsAreIts' /\ CopyIsOurs'
        BY <3>1 DEF JobsAreIts, CopyIsOurs, AtEase
      <3>7. SomebodyImports'
        BY <2>2, <3>4 DEF SomebodyImports, Begun
      <3>6. Balanced'
        BY <2>1, <2>2, <3>4 DEF Balanced
      <3> QED  BY <3>3, <3>5, <3>6, <3>7 DEF Accounted
    <2> QED  BY <2>4, <2>5 DEF HistoryInv
  <1> QED  BY <1>2, <1>3 DEF List

LEMMA ClearKeeps ==
    ASSUME HistoryInv, NEW s \in Starts, Clear(s)
    PROVE  HistoryInv'
  <1>1. /\ HistoryTypes /\ start[s].at = "clear" /\ UNCHANGED <<progress, syncing, syncDied, mixed>>
        /\ \A q \in Starts : q # s => start'[q] = start[q]
        /\ start'[s].at = "push" /\ start'[s].left = start[s].left /\ queue' = <<>>
    BY DEF HistoryInv, HistoryTypes, Clear
  <1>2. HistoryTypes'
    <2>1. start' \in [Starts -> [at : StartSteps, left : Nat]]
      BY <1>1 DEF HistoryTypes, Clear, StartSteps
    <2>2. \A q \in Starts : start'[q].at \in {"clear", "push"} => start'[q].left > 0
      BY <1>1 DEF HistoryTypes
    <2>3. queue' \in Seq(Job)
      BY <1>1
    <2> QED  BY <1>1, <2>1, <2>2, <2>3 DEF HistoryTypes
  <1>3. ASSUME ~mixed', ~syncDied' PROVE Accounted'
    <2>1. /\ Accounted /\ Begun /\ AtEase /\ AtEase' /\ UNCHANGED queue /\ progress.job = s
          /\ \A q \in Starts \ {s} : ~Begins(q)
      BY <1>1, <1>3 DEF HistoryInv, Accounted, Orderly, OneStart, Begins, AtEase
    <2>2. \A q \in Starts \ {s} : start'[q].at \notin {"list", "clear", "push"}
      BY <1>1, <2>1 DEF Begins
    <2>3. OneStart' /\ Orderly'
      BY <1>1, <2>1, <2>2 DEF OneStart, Orderly, Begins, Begun
    <2>4. Queues /\ Queues' /\ ToPush' = ToPush
      BY <1>1, <2>1 DEF Queues, ToPush
    <2> QED  BY <1>1, <2>1, <2>3, <2>4 DEF Accounted, JobsAreIts, CopyIsOurs, OneMoreOf, Balanced,
             SomebodyImports, InHand, AtEase, Begun
  <1> QED  BY <1>2, <1>3 DEF HistoryInv

LEMMA PushJobKeeps ==
    ASSUME HistoryInv, NEW s \in Starts, PushJob(s)
    PROVE  HistoryInv'
  <1> DEFINE job == [job |-> s, attempt |-> 1]
  <1>1. /\ HistoryTypes /\ start[s].at = "push" /\ UNCHANGED <<progress, syncing, syncDied, mixed>>
        /\ start[s].left \in Nat \ {0}
    BY DEF HistoryInv, HistoryTypes, PushJob
  <1>2. /\ \A q \in Starts : q # s => start'[q] = start[q]
        /\ start'[s].at = (IF start[s].left = 1 THEN "done" ELSE "push")
        /\ start'[s].left = start[s].left - 1
    BY <1>1 DEF HistoryTypes, PushJob
  <1>3. job \in Job /\ job.job = s
    BY HistoryAssumption DEF Job
  <1> HIDE DEF job
  <1>4. /\ queue' \in Seq(Job) /\ Len(queue') = Len(queue) + 1 /\ queue' # <<>>
        /\ \A i \in DOMAIN queue' : queue'[i] = job \/ (i \in DOMAIN queue /\ queue'[i] = queue[i])
    <2>1. queue' = Append(queue, job) /\ queue \in Seq(Job)
      BY <1>1 DEF PushJob, HistoryTypes, job
    <2> QED  BY <1>3, <2>1, AppendProperties, LenProperties
  <1>5. HistoryTypes'
    <2>1. start' \in [Starts -> [at : StartSteps, left : Nat]]
      BY <1>1 DEF HistoryTypes, PushJob, StartSteps
    <2>2. \A q \in Starts : start'[q].at \in {"clear", "push"} => start'[q].left > 0
      BY <1>1, <1>2 DEF HistoryTypes
    <2> QED  BY <1>1, <1>4, <2>1, <2>2 DEF HistoryTypes
  <1>6. ASSUME ~mixed', ~syncDied' PROVE Accounted'
    <2>1. Accounted /\ progress.job = s /\ \A q \in Starts \ {s} : ~Begins(q)
      BY <1>1, <1>6 DEF HistoryInv, Accounted, Orderly, OneStart, Begins
    <2>2. \A q \in Starts \ {s} : start'[q].at \notin {"list", "clear", "push"}
      BY <1>2, <2>1 DEF Begins
    <2>3. OneStart' /\ Orderly'
      BY <1>1, <1>2, <2>1, <2>2 DEF OneStart, Orderly, Begins
    <2>4. ToPush = start[s].left /\ ToPush' = start[s].left - 1
      BY <1>1, <1>2, <2>1 DEF Queues, ToPush
    <2>5. JobsAreIts' /\ CopyIsOurs' /\ SomebodyImports'
      BY <1>1, <1>3, <1>4, <2>1 DEF Accounted, JobsAreIts, CopyIsOurs, OneMoreOf, SomebodyImports, AtEase, Begun
    <2>6. Balanced'
      <3>1. /\ Len(queue) \in Nat /\ progress.processed \in Nat /\ progress.failed \in Nat
            /\ progress.total \in Nat /\ InHand \in Nat /\ start[s].left \in Nat
        BY <1>1 DEF HistoryTypes, SyncRecord, InHand
      <3>2. InHand' = InHand
        BY <1>1 DEF InHand
      <3> PICK done \in Nat, queued \in Nat, left \in Nat, inHand \in Nat, total \in Nat :
            /\ done = progress.processed + progress.failed /\ queued = Len(queue)
            /\ left = start[s].left /\ inHand = InHand /\ total = progress.total
        BY <3>1
      <3>3. done + queued + left + inHand = total
        BY <2>1, <2>4 DEF Accounted, Balanced
      <3>4. done + (queued + 1) + (left - 1) + inHand = total
        BY <3>3
      <3> QED  BY <1>1, <1>4, <2>4, <3>2, <3>4 DEF Balanced
    <2> QED  BY <2>3, <2>5, <2>6 DEF Accounted
  <1> QED  BY <1>5, <1>6 DEF HistoryInv

\* The worker's steps leave the Starts alone, and none is listing meanwhile.
LEMMA WorkerIs ==
    ASSUME HistoryInv, SyncOnly, ~AtEase, queue' \in Seq(Job), progress' \in SyncRecord,
           syncing' \in [at : SyncSteps, task : Job \cup {NoTask}, copy : SyncRecord],
           syncing'.at # "rest" => syncing'.task \in Job,
           HistoryTypes /\ Accounted =>
               progress'.job = progress.job /\ JobsAreIts' /\ CopyIsOurs' /\ Balanced' /\ SomebodyImports'
    PROVE  HistoryInv'
  <1>1. HistoryTypes'
    BY DEF HistoryInv, HistoryTypes, SyncOnly
  <1>2. ASSUME ~mixed', ~syncDied' PROVE Accounted'
    <2>1. HistoryTypes /\ Accounted /\ UNCHANGED start /\ progress'.job = progress.job
      BY <1>2 DEF HistoryInv, SyncOnly
    <2>2. OneStart' /\ Orderly'
      BY <2>1 DEF Accounted, OneStart, Orderly, Begins
    <2> QED  BY <1>2, <2>1, <2>2 DEF Accounted
  <1> QED  BY <1>1, <1>2 DEF HistoryInv

LEMMA SyncKnows ==
    ASSUME HistoryInv, SyncOnly
    PROVE  /\ HistoryTypes /\ progress \in SyncRecord /\ syncing.copy \in SyncRecord /\ queue \in Seq(Job)
           /\ syncing.at # "rest" => syncing.task \in Job
           /\ Len(queue) \in Nat /\ ToPush \in Nat /\ progress.processed \in Nat /\ progress.failed \in Nat
           /\ progress.total \in Nat
           /\ progress'.job = progress.job => (Queues' <=> Queues) /\ ToPush' = ToPush
  <1>1. HistoryTypes /\ UNCHANGED start
    BY DEF HistoryInv, SyncOnly
  <1>2. ToPush \in Nat
    BY <1>1 DEF HistoryTypes, ToPush, Queues
  <1>3. progress'.job = progress.job => (Queues' <=> Queues) /\ ToPush' = ToPush
    BY <1>1 DEF Queues, ToPush
  <1>4. Len(queue) \in Nat /\ queue \in Seq(Job)
    BY <1>1 DEF HistoryTypes
  <1> QED  BY <1>1, <1>2, <1>3, <1>4 DEF HistoryTypes, SyncRecord

LEMMA OnePopped ==
    ASSUME NEW done, NEW lost, NEW queued, NEW left, NEW total, done \in Nat, lost \in Nat,
           queued \in Nat, left \in Nat, total \in Nat, done + lost + queued + left + 0 = total
    PROVE  done + lost + (queued - 1) + left + 1 = total
  OBVIOUS

LEMMA PopJobKeeps == ASSUME HistoryInv, PopJob PROVE HistoryInv'
  <1>1. /\ SyncOnly /\ UNCHANGED progress /\ syncing.at = "rest" /\ queue # <<>> /\ ~AtEase
        /\ queue' = Tail(queue) /\ syncing' = [at |-> "phone", task |-> Head(queue), copy |-> progress]
    BY DEF PopJob, AtEase
  <1>2. /\ progress \in SyncRecord /\ queue \in Seq(Job) /\ (Queues' <=> Queues) /\ ToPush' = ToPush
        /\ Len(queue) \in Nat /\ progress.total \in Nat /\ ToPush \in Nat
        /\ progress.processed \in Nat /\ progress.failed \in Nat
    BY <1>1, SyncKnows
  <1>3. /\ Head(queue) \in Job /\ Head(queue) = queue[1] /\ 1 \in DOMAIN queue /\ Tail(queue) \in Seq(Job)
        /\ Len(Tail(queue)) = Len(queue) - 1
        /\ \A i \in DOMAIN Tail(queue) : i + 1 \in DOMAIN queue /\ Tail(queue)[i] = queue[i + 1]
    BY <1>1, <1>2, HeadTailProperties, LenProperties
  <1>4. syncing' \in [at : SyncSteps, task : Job \cup {NoTask}, copy : SyncRecord] /\ syncing'.task \in Job
    BY <1>1, <1>2, <1>3 DEF SyncSteps
  <1>5. ASSUME HistoryTypes, Accounted
        PROVE  JobsAreIts' /\ CopyIsOurs' /\ Balanced' /\ SomebodyImports'
    <2>1. JobsAreIts'
      BY <1>1, <1>3, <1>5 DEF Accounted, JobsAreIts
    <2>2. CopyIsOurs'
      BY <1>1, <1>3, <1>5 DEF Accounted, JobsAreIts, CopyIsOurs
    <2>3. SomebodyImports'
      BY <1>1 DEF SomebodyImports, AtEase
    <2>4. InHand = 0 /\ InHand' = 1
      BY <1>1 DEF InHand
    <2>5. progress.processed + progress.failed + Len(queue) + ToPush + 0 = progress.total
      BY <1>5, <2>4 DEF Accounted, Balanced
    <2>6. progress.processed + progress.failed + (Len(queue) - 1) + ToPush + 1 = progress.total
      BY <1>2, <2>5, OnePopped
    <2>7. Balanced'
      BY <1>1, <1>2, <1>3, <2>4, <2>6 DEF Balanced
    <2> QED  BY <2>1, <2>2, <2>3, <2>7
  <1> QED  BY <1>1, <1>2, <1>3, <1>4, <1>5, WorkerIs

LEMMA NotePhoneKeeps == ASSUME HistoryInv, NotePhone PROVE HistoryInv'
  <1>1. /\ SyncOnly /\ UNCHANGED queue /\ syncing.at = "phone" /\ ~AtEase
        /\ syncing' = [syncing EXCEPT !.at = "import"]
        /\ progress' = IF syncing.copy.state = "IN_PROGRESS" THEN syncing.copy ELSE progress
    BY DEF NotePhone, AtEase
  <1>2. /\ HistoryTypes /\ progress \in SyncRecord /\ syncing.copy \in SyncRecord /\ queue \in Seq(Job)
        /\ syncing.task \in Job
    BY <1>1, SyncKnows
  <1>3. syncing' \in [at : SyncSteps, task : Job \cup {NoTask}, copy : SyncRecord]
        /\ syncing'.at = "import" /\ syncing'.task = syncing.task
    BY <1>1, <1>2 DEF HistoryTypes, SyncSteps
  <1>4. ASSUME HistoryTypes, Accounted
        PROVE  progress' = progress /\ JobsAreIts' /\ CopyIsOurs' /\ Balanced' /\ SomebodyImports'
    <2>1. progress' = progress
      BY <1>1, <1>4 DEF Accounted, CopyIsOurs
    <2>2. ToPush' = ToPush
      BY <1>1, <2>1, SyncKnows
    <2> QED  BY <1>1, <1>3, <1>4, <2>1, <2>2 DEF Accounted, JobsAreIts, CopyIsOurs, Balanced, InHand,
             SomebodyImports, AtEase
  <1> QED  BY <1>1, <1>2, <1>3, <1>4, WorkerIs

LEMMA OneCounted ==
    ASSUME NEW done, NEW lost, NEW queued, NEW left, NEW total, NEW sum, done \in Nat, lost \in Nat, sum \in Nat,
           queued \in Nat, left \in Nat, total \in Nat, done + lost + queued + left + 1 = total,
           sum = done + lost + 1
    PROVE  sum + queued + left + 0 = total
  OBVIOUS

LEMMA OneAgain ==
    ASSUME NEW done, NEW lost, NEW queued, NEW left, NEW total, done \in Nat, lost \in Nat,
           queued \in Nat, left \in Nat, total \in Nat, done + lost + queued + left + 1 = total
    PROVE  done + lost + (queued + 1) + left + 0 = total
  OBVIOUS

LEMMA ImportConversationKeeps == ASSUME HistoryInv, ImportConversation PROVE HistoryInv'
  <1>1. SyncOnly /\ UNCHANGED progress /\ syncing.at = "import" /\ ~AtEase
    BY DEF ImportConversation, AtEase
  <1>2. /\ HistoryTypes /\ progress \in SyncRecord /\ queue \in Seq(Job) /\ syncing.task \in Job
        /\ (Queues' <=> Queues) /\ ToPush' = ToPush
        /\ Len(queue) \in Nat /\ progress.total \in Nat /\ ToPush \in Nat
        /\ progress.processed \in Nat /\ progress.failed \in Nat
    BY <1>1, SyncKnows
  <1> DEFINE retried == [syncing.task EXCEPT !.attempt = @ + 1]
             copyOf(ok) == IF ok THEN [progress EXCEPT !.processed = @ + 1] ELSE [progress EXCEPT !.failed = @ + 1]
  <1>3. PICK ok \in BOOLEAN, again \in BOOLEAN, mine \in BOOLEAN :
          /\ again = (~ok /\ syncing.task.attempt < MaxAttempts) /\ mine = (progress.job = syncing.task.job)
          /\ queue' = IF again THEN Append(queue, retried) ELSE queue
          /\ syncing' = [syncing EXCEPT !.at = IF again \/ ~mine THEN "remaining" ELSE "count", !.copy = copyOf(ok)]
    BY DEF ImportConversation
  <1>4. /\ copyOf(ok) \in SyncRecord /\ OneMoreOf(copyOf(ok))
    BY <1>2 DEF SyncRecord, OneMoreOf
  <1>5. again => retried \in Job /\ retried.job = syncing.task.job
    <2> SUFFICES ASSUME again PROVE retried \in Job /\ retried.job = syncing.task.job
      OBVIOUS
    <2>1. syncing.task.attempt < MaxAttempts
      BY <1>3
    <2>2. syncing.task.job \in Starts /\ syncing.task.attempt \in 1..MaxAttempts
      BY <1>2 DEF Job
    <2>3. syncing.task.attempt + 1 \in 1..MaxAttempts
      BY <2>1, <2>2, HistoryAssumption
    <2>4. retried = [job |-> syncing.task.job, attempt |-> syncing.task.attempt + 1]
      BY <1>2 DEF Job
    <2> HIDE DEF retried
    <2> QED  BY <2>2, <2>3, <2>4 DEF Job
  <1> HIDE DEF retried, copyOf
  <1>6. /\ syncing' \in [at : SyncSteps, task : Job \cup {NoTask}, copy : SyncRecord]
        /\ syncing'.at = (IF again \/ ~mine THEN "remaining" ELSE "count")
        /\ syncing'.task = syncing.task /\ syncing'.copy = copyOf(ok)
    BY <1>2, <1>3, <1>4 DEF HistoryTypes, SyncSteps
  <1>7. CASE again
    <2>1. /\ queue' \in Seq(Job) /\ Len(queue') = Len(queue) + 1 /\ queue' # <<>>
          /\ \A i \in DOMAIN queue' : queue'[i] = retried \/ (i \in DOMAIN queue /\ queue'[i] = queue[i])
      BY <1>2, <1>3, <1>5, <1>7, AppendProperties, LenProperties
    <2>2. ASSUME HistoryTypes, Accounted
          PROVE  JobsAreIts' /\ CopyIsOurs' /\ Balanced' /\ SomebodyImports'
      <3>1. JobsAreIts'
        BY <1>1, <1>5, <1>7, <2>1, <2>2 DEF Accounted, JobsAreIts, CopyIsOurs
      <3>2. CopyIsOurs' /\ SomebodyImports'
        BY <1>1, <1>6, <1>7, <2>1, <2>2 DEF Accounted, CopyIsOurs, SomebodyImports, AtEase
      <3>3. InHand = 1 /\ InHand' = 0
        BY <1>1, <1>6, <1>7 DEF InHand
      <3>4. progress.processed + progress.failed + Len(queue) + ToPush + 1 = progress.total
        BY <2>2, <3>3 DEF Accounted, Balanced
      <3>5. progress.processed + progress.failed + (Len(queue) + 1) + ToPush + 0 = progress.total
        BY <1>2, <3>4, OneAgain
      <3>6. Balanced'
        BY <1>1, <1>2, <2>1, <3>3, <3>5 DEF Balanced
      <3> QED  BY <3>1, <3>2, <3>6
    <2> QED  BY <1>1, <1>2, <1>6, <2>1, <2>2, WorkerIs
  <1>8. CASE ~again
    <2>1. UNCHANGED queue
      BY <1>3, <1>8
    <2>2. ASSUME HistoryTypes, Accounted
          PROVE  JobsAreIts' /\ CopyIsOurs' /\ Balanced' /\ SomebodyImports'
      <3>1. mine /\ syncing'.at = "count"
        BY <1>1, <1>3, <1>6, <1>8, <2>2 DEF Accounted, CopyIsOurs
      <3>2. JobsAreIts' /\ SomebodyImports'
        BY <1>1, <2>1, <2>2, <3>1 DEF Accounted, JobsAreIts, SomebodyImports, AtEase
      <3>3. CopyIsOurs'
        BY <1>1, <1>4, <1>6, <2>2, <3>1 DEF Accounted, CopyIsOurs, OneMoreOf
      <3>4. InHand' = InHand
        BY <1>1, <3>1 DEF InHand
      <3>5. Balanced'
        BY <1>1, <1>2, <2>1, <2>2, <3>4 DEF Accounted, Balanced
      <3> QED  BY <3>2, <3>3, <3>5
    <2> QED  BY <1>1, <1>2, <1>6, <2>1, <2>2, WorkerIs
  <1> QED  BY <1>7, <1>8

LEMMA CountKeeps == ASSUME HistoryInv, Count PROVE HistoryInv'
  <1>1. /\ SyncOnly /\ UNCHANGED queue /\ syncing.at = "count" /\ ~AtEase
        /\ progress' = syncing.copy /\ syncing' = [syncing EXCEPT !.at = "remaining"]
    BY DEF Count, AtEase
  <1>2. /\ HistoryTypes /\ progress' \in SyncRecord /\ queue \in Seq(Job) /\ syncing.task \in Job
        /\ Len(queue) \in Nat /\ progress.total \in Nat /\ ToPush \in Nat
        /\ progress.processed \in Nat /\ progress.failed \in Nat
    BY <1>1, SyncKnows
  <1>3. syncing' \in [at : SyncSteps, task : Job \cup {NoTask}, copy : SyncRecord]
        /\ syncing'.at = "remaining" /\ syncing'.task = syncing.task
    BY <1>1, <1>2 DEF HistoryTypes, SyncSteps
  <1>4. ASSUME HistoryTypes, Accounted
        PROVE  progress'.job = progress.job /\ JobsAreIts' /\ CopyIsOurs' /\ Balanced' /\ SomebodyImports'
    <2>1. /\ progress'.job = progress.job /\ progress'.state = progress.state /\ progress'.total = progress.total
          /\ progress'.processed + progress'.failed = progress.processed + progress.failed + 1
      BY <1>1, <1>4 DEF Accounted, CopyIsOurs, OneMoreOf
    <2>2. ToPush' = ToPush /\ (Queues' <=> Queues)
      BY <1>1, <2>1, SyncKnows
    <2>3. JobsAreIts' /\ CopyIsOurs' /\ SomebodyImports'
      BY <1>1, <1>3, <1>4, <2>1 DEF Accounted, JobsAreIts, CopyIsOurs, SomebodyImports, AtEase
    <2>4. InHand = 1 /\ InHand' = 0
      BY <1>1, <1>3 DEF InHand
    <2>5. progress.processed + progress.failed + Len(queue) + ToPush + 1 = progress.total
      BY <1>4, <2>4 DEF Accounted, Balanced
    <2>6. progress'.processed + progress'.failed \in Nat
      BY <1>2 DEF SyncRecord
    <2>7. (progress'.processed + progress'.failed) + Len(queue) + ToPush + 0 = progress.total
      BY <1>2, <2>1, <2>5, <2>6, OneCounted
    <2>8. Balanced'
      BY <1>1, <2>1, <2>2, <2>4, <2>7 DEF Balanced
    <2> QED  BY <2>1, <2>3, <2>8
  <1> QED  BY <1>1, <1>2, <1>3, <1>4, WorkerIs

LEMMA RemainingKeeps == ASSUME HistoryInv, Remaining PROVE HistoryInv'
  <1>1. /\ SyncOnly /\ UNCHANGED <<queue, progress>> /\ syncing.at = "remaining" /\ ~AtEase
        /\ syncing' = IF queue = <<>> /\ Begun THEN [syncing EXCEPT !.at = "finish", !.copy = progress] ELSE Resting
    BY DEF Remaining, AtEase, Begun
  <1>2. /\ HistoryTypes /\ progress \in SyncRecord /\ queue \in Seq(Job) /\ syncing.task \in Job
        /\ (Queues' <=> Queues) /\ ToPush' = ToPush
    BY <1>1, SyncKnows
  <1>3. /\ syncing' \in [at : SyncSteps, task : Job \cup {NoTask}, copy : SyncRecord]
        /\ syncing'.at = (IF queue = <<>> /\ Begun THEN "finish" ELSE "rest")
        /\ syncing'.at = "finish" => syncing'.task = syncing.task /\ syncing'.copy = progress
    BY <1>1, <1>2, NothingBegun DEF HistoryTypes, SyncSteps
  <1>4. ASSUME HistoryTypes, Accounted
        PROVE  JobsAreIts' /\ CopyIsOurs' /\ Balanced' /\ SomebodyImports'
    <2>1. JobsAreIts' /\ CopyIsOurs'
      BY <1>1, <1>3, <1>4 DEF Accounted, JobsAreIts, CopyIsOurs
    <2>2. InHand = 0 /\ InHand' = 0
      BY <1>1, <1>3 DEF InHand
    <2>3. Balanced'
      BY <1>1, <1>2, <1>4, <2>2 DEF Accounted, Balanced
    <2>4. SomebodyImports'
      BY <1>1, <1>3 DEF SomebodyImports, AtEase, Begun
    <2> QED  BY <2>1, <2>3, <2>4
  <1> QED  BY <1>1, <1>2, <1>3, <1>4, WorkerIs

LEMMA FinishKeeps == ASSUME HistoryInv, Finish PROVE HistoryInv'
  <1>1. /\ SyncOnly /\ UNCHANGED queue /\ syncing.at = "finish" /\ ~AtEase /\ syncing' = Resting
        /\ progress' = [syncing.copy EXCEPT !.state = IF syncing.copy.failed > 0
                                                      THEN "PARTIALLY_FAILED" ELSE "COMPLETED"]
    BY DEF Finish, AtEase
  <1>2. HistoryTypes /\ progress \in SyncRecord /\ syncing.copy \in SyncRecord /\ queue \in Seq(Job)
    BY <1>1, SyncKnows
  <1>3. /\ progress' \in SyncRecord /\ progress'.state # "IN_PROGRESS"
        /\ progress'.job = syncing.copy.job /\ progress'.total = syncing.copy.total
        /\ progress'.processed = syncing.copy.processed /\ progress'.failed = syncing.copy.failed
    BY <1>1, <1>2 DEF SyncRecord, SyncStates, Finished
  <1>4. ASSUME HistoryTypes, Accounted
        PROVE  progress'.job = progress.job /\ JobsAreIts' /\ CopyIsOurs' /\ Balanced' /\ SomebodyImports'
    <2>1. syncing.copy = progress
      BY <1>1, <1>4 DEF Accounted, CopyIsOurs
    <2>2. ToPush' = ToPush
      BY <1>1, <1>3, <2>1, SyncKnows
    <2>3. InHand = 0 /\ InHand' = 0
      BY <1>1, NothingBegun DEF InHand
    <2>4. Balanced'
      BY <1>1, <1>3, <1>4, <2>1, <2>2, <2>3 DEF Accounted, Balanced
    <2>5. JobsAreIts' /\ CopyIsOurs' /\ SomebodyImports'
      BY <1>1, <1>3, <1>4, <2>1, NothingBegun DEF Accounted, JobsAreIts, CopyIsOurs, SomebodyImports, Begun
    <2> QED  BY <1>3, <2>1, <2>4, <2>5
  <1> QED  BY <1>1, <1>2, <1>3, <1>4, NothingBegun, WorkerIs

LEMMA SyncDieKeeps == ASSUME HistoryInv, SyncDie PROVE HistoryInv'
  <1>1. HistoryTypes /\ UNCHANGED <<queue, progress, mixed>> /\ syncDied' = TRUE /\ syncing' = Resting
    BY DEF HistoryInv, SyncDie
  <1>2. start' \in [Starts -> [at : StartSteps, left : Nat]]
        /\ \A s \in Starts : start'[s].at \notin {"clear", "push"}
    BY <1>1 DEF HistoryTypes, StartSteps, SyncDie
  <1> QED  BY <1>1, <1>2, NothingBegun DEF HistoryInv, HistoryTypes

LEMMA HistoryNextKeeps == HistoryInv /\ [HistoryNext]_hsVars => HistoryInv'
  <1> SUFFICES ASSUME HistoryInv, [HistoryNext]_hsVars PROVE HistoryInv'
    OBVIOUS
  <1>1. CASE UNCHANGED hsVars
    <2>1. UNCHANGED <<start, queue, progress, syncing, syncDied, mixed>>
      BY <1>1 DEF hsVars
    <2>2. HistoryTypes'
      BY <2>1 DEF HistoryInv, HistoryTypes
    <2>3. Accounted => Accounted'
      BY <2>1 DEF Accounted, OneStart, Orderly, JobsAreIts, CopyIsOurs, OneMoreOf, Balanced, SomebodyImports,
         Begins, AtEase, Begun, Queues, ToPush, InHand
    <2> QED  BY <2>1, <2>2, <2>3 DEF HistoryInv
  <1>2. CASE HistoryNext
    BY <1>2, StartHistorySyncKeeps, ListingKeeps, ClearKeeps, PushJobKeeps, PopJobKeeps, NotePhoneKeeps,
       ImportConversationKeeps, CountKeeps, RemainingKeeps, FinishKeeps, SyncDieKeeps
       DEF HistoryNext, Pushing, Working
  <1> QED  BY <1>1, <1>2

\* zernio-history-sync.worker.ts: when nothing of an import is left to be queued, popped
\* or written, the record says that it is over, and counts every conversation once,
\* unless a restart lost a job or another import was started into it.
ImportIsCounted ==
    AtEase /\ (\A s \in Starts : ~Begins(s)) /\ ~mixed /\ ~syncDied =>
        progress.state # "IN_PROGRESS" /\ CountedAll

\* The safety half of SyncEnds: an import cannot come to a stop before it is over.
THEOREM ImportEndsCounted == HistorySpec => []ImportIsCounted
  <1>1. HistoryInv => ImportIsCounted
    <2> SUFFICES ASSUME HistoryInv, AtEase, \A s \in Starts : ~Begins(s), ~mixed, ~syncDied
                 PROVE  progress.state # "IN_PROGRESS" /\ CountedAll
      BY DEF ImportIsCounted
    <2>1. ~Queues /\ ToPush = 0
      BY DEF Begins, Queues, ToPush
    <2>2. InHand = 0 /\ Len(queue) = 0
      BY DEF AtEase, InHand
    <2>3. progress.processed \in Nat /\ progress.failed \in Nat /\ progress.total \in Nat
      BY DEF HistoryInv, HistoryTypes, SyncRecord
    <2>4. ~Begun /\ progress.processed + progress.failed + Len(queue) + ToPush + InHand = progress.total
      BY <2>1 DEF HistoryInv, Accounted, SomebodyImports, Balanced
    <2> QED  BY <2>1, <2>2, <2>3, <2>4 DEF CountedAll, Begun
  <1> QED  BY <1>1, HistoryInitHolds, HistoryNextKeeps, PTL DEF HistorySpec

-----------------------------------------------------------------------------
(* The types, and the limits that the actions keep by themselves.            *)

\* At most the chunks there are, in a row and in the copy the worker has of it.
Small(r) == r.analyzed <= MaxChunks /\ r.total <= MaxChunks
QualityLimits ==
    /\ chunks <= MaxChunks /\ batch \in {"none", "found", "insert"}
    /\ \A i \in ReviewIds : Small(reviews[i])
    /\ Small(drain.copy) /\ drain.all <= MaxChunks

LEMMA OutcomeIsSmall ==
    ASSUME NEW kept \in Row, NEW copy \in Row, NEW all \in Nat, NEW judged \in BOOLEAN,
           Small(kept), Small(copy), all <= MaxChunks
    PROVE  Small(Outcome(kept, copy, all, judged))
  <1>0. MaxChunks \in Nat
    BY QualityAssumption
  <1>1. copy.scores \in Nat /\ copy.analyzed \in Nat /\ copy.total \in Nat
    BY DEF Row
  <1>2. PICK total \in Nat : total = (IF copy.total > 0 THEN copy.total ELSE all)
    BY <1>1
  <1>3. PICK now \in Nat : now = (IF copy.analyzed < all THEN copy.analyzed ELSE all)
    BY <1>1
  <1>4. PICK more \in Nat, final \in Nat, rated \in Nat :
          more = Larger(total, all) /\ final = Larger(now, total) /\ rated = Larger(copy.scores, 1)
    BY <1>1 DEF Larger
  <1>5. total <= MaxChunks /\ now <= MaxChunks /\ more <= MaxChunks /\ final <= MaxChunks
    BY <1>0, <1>1, <1>2, <1>3, <1>4 DEF Larger, Small
  <1>6. ASSUME NEW t, NEW a, NEW s, t <= MaxChunks, a <= MaxChunks
        PROVE  Small(MarkReady(kept, t, a, s)) /\ Small(SaveChunkProgress(kept, t, a, s))
    BY <1>6 DEF MarkReady, SaveChunkProgress, Small, Row
  <1>7. Small(MarkFailed(kept))
    BY DEF MarkFailed, Small, Row
  <1>8. now < total => now + 1 <= MaxChunks
    BY <1>0, <1>5
  <1> QED
    BY <1>1, <1>2, <1>3, <1>4, <1>5, <1>6, <1>7, <1>8 DEF Outcome, AfterChunk, FinalizeFromExisting

LEMMA LimitsNext ==
    ASSUME QualityInv, QualityInv', QualityLimits, [QualityNext]_qaVars
    PROVE  QualityLimits'
  <1>0. MaxChunks \in Nat /\ chunks \in Nat /\ reviews \in Seq(Row) /\ \A i \in ReviewIds : reviews[i] \in Row
    BY QualityAssumption DEF QualityInv, QualityTypes, ReviewIds
  <1>1. Small(NoReview) /\ \A key : Small(NewReview(key))
    BY <1>0 DEF Small, NoReview, NewReview
  <1>2. Small(Asleep.copy) /\ Asleep.all = 0 /\ Small(Awake.copy) /\ Awake.all = 0
    BY <1>1 DEF Asleep, Awake
  <1>3. ASSUME ScheduleRun PROVE Small(drain'.copy) /\ drain'.all <= MaxChunks
    <2>1. drain' \in {Awake, drain} \/ (drain'.copy = drain.copy /\ drain'.all = drain.all)
      BY <1>3 DEF ScheduleRun, QualityInv, QualityTypes
    <2> QED  BY <1>0, <1>2, <2>1 DEF QualityLimits
  <1>4. ASSUME NEW key \in Keys, reviews' = Append(reviews, NewReview(key))
        PROVE  \A i \in ReviewIds' : Small(reviews'[i])
    BY <1>0, <1>1, <1>4, AppendRow, NewReviewIs DEF QualityLimits
  <1>5. ASSUME NEW j \in ReviewIds, NEW new \in Row, Small(new), reviews' = [reviews EXCEPT ![j] = new]
        PROVE  \A i \in ReviewIds' : Small(reviews'[i])
    BY <1>0, <1>5, WriteRow DEF QualityLimits
  <1>6. ASSUME UNCHANGED <<reviews, chunks, drain, batch>> PROVE QualityLimits'
    BY <1>6 DEF QualityLimits, ReviewIds
  <1>7. ASSUME NEW key \in Keys, CreatePending(key) PROVE QualityLimits'
    <2>1. UNCHANGED <<chunks, batch>> /\ ScheduleRun /\ (reviews' = reviews \/ reviews' = Append(reviews, NewReview(key)))
      BY <1>7 DEF CreatePending, Requested
    <2>2. \A i \in ReviewIds' : Small(reviews'[i])
      BY <1>4, <2>1 DEF QualityLimits, ReviewIds
    <2> QED  BY <1>3, <2>1, <2>2 DEF QualityLimits
  <1>8. CASE TryAutoEnqueue
    BY <1>7, <1>8 DEF TryAutoEnqueue, Keys
  <1>9. CASE ListEligible \/ FindPending \/ MoreMessages
    <2>1. UNCHANGED <<reviews, drain>> /\ batch' \in {"none", "found", "insert"} /\ chunks' <= MaxChunks
      BY <1>0, <1>9 DEF ListEligible, FindPending, MoreMessages, Requested, QualityLimits
    <2> QED  BY <2>1 DEF QualityLimits, ReviewIds
  <1>10. CASE BatchEnqueue
    <2>1. UNCHANGED chunks /\ batch' = "none" /\ ScheduleRun /\ reviews' = Append(reviews, NewReview("batch"))
      BY <1>10 DEF BatchEnqueue
    <2> QED  BY <1>3, <1>4, <2>1 DEF QualityLimits, Keys
  <1>11. CASE RequestOnDemand
    <2>1. CASE reviews = <<>>
      BY <1>7, <1>11, <2>1 DEF RequestOnDemand, Keys
    <2>2. CASE reviews # <<>>
      <3>1. /\ UNCHANGED <<chunks, batch>> /\ ScheduleRun /\ Latest \in ReviewIds
            /\ reviews' = reviews \/ reviews' = [reviews EXCEPT ![Latest] = Reopened(reviews[Latest])]
        BY <1>0, <1>11, <2>2 DEF RequestOnDemand, Requested, Latest, ReviewIds
      <3>2. Reopened(reviews[Latest]) \in Row /\ Small(Reopened(reviews[Latest]))
        BY <1>0, <3>1 DEF Reopened, Row, Statuses, Small, QualityLimits
      <3>3. \A i \in ReviewIds' : Small(reviews'[i])
        BY <1>5, <3>1, <3>2 DEF QualityLimits, ReviewIds
      <3> QED  BY <1>3, <3>1, <3>3 DEF QualityLimits
    <2> QED  BY <2>1, <2>2
  <1>12. CASE Reanalyze
    <2> PICK j \in ReviewIds :
          /\ Requested /\ ScheduleRun /\ UNCHANGED batch
          /\ reviews' = [reviews EXCEPT ![j] =
                           [reviews[j] EXCEPT !.status = "pending", !.claimed = FALSE, !.analyzed = 0]]
      BY <1>12 DEF Reanalyze
    <2> DEFINE new == [reviews[j] EXCEPT !.status = "pending", !.claimed = FALSE, !.analyzed = 0]
    <2>3. reviews[j] \in Row /\ Small(reviews[j])
      BY <1>0 DEF QualityLimits
    <2>4. new \in Row /\ new.analyzed = 0 /\ new.total = reviews[j].total
      BY <2>3 DEF Row, Statuses
    <2>1. new \in Row /\ Small(new)
      BY <1>0, <2>3, <2>4 DEF Small
    <2>2. \A i \in ReviewIds' : Small(reviews'[i])
      BY <1>5, <2>1
    <2> QED  BY <1>3, <2>2 DEF QualityLimits, Requested
  <1>13. CASE \E i \in ReviewIds : ReadForReview(i)
    BY <1>6, <1>13 DEF ReadForReview
  <1>14. CASE MarkReviewed
    <2> DEFINE new == [reviews[marking] EXCEPT !.status = "reviewed"]
    <2>1. marking \in ReviewIds /\ reviews' = [reviews EXCEPT ![marking] = new] /\ UNCHANGED <<chunks, drain, batch>>
      BY <1>14 DEF MarkReviewed, QualityInv, QualityTypes
    <2>2. new \in Row /\ Small(new)
      BY <1>0, <2>1 DEF Row, Statuses, Small, QualityLimits
    <2> HIDE DEF new
    <2>3. \A i \in ReviewIds' : Small(reviews'[i])
      BY <1>5, <2>1, <2>2
    <2> QED  BY <2>1, <2>3 DEF QualityLimits
  <1>15. CASE Watch \/ ReclaimPending
    <2>1. /\ DOMAIN reviews' = DOMAIN reviews
          /\ \A i \in ReviewIds :
               \/ reviews'[i] = reviews[i]
               \/ reviews'[i] = [reviews[i] EXCEPT !.claimed = FALSE]
               \/ reviews'[i] = MarkFailed(reviews[i])
      BY <1>15 DEF Watch, StuckPending, ReclaimPending, ReviewIds
    <2>2. \A i \in ReviewIds' : Small(reviews'[i])
      <3> SUFFICES ASSUME NEW i \in ReviewIds PROVE Small(reviews'[i])
        BY <2>1 DEF ReviewIds
      <3>1. reviews[i] \in Row /\ Small(reviews[i])
        BY <1>0 DEF QualityLimits
      <3>2. Small([reviews[i] EXCEPT !.claimed = FALSE]) /\ Small(MarkFailed(reviews[i]))
        BY <3>1 DEF Small, MarkFailed, Row
      <3> QED  BY <2>1, <3>1, <3>2
    <2>3. chunks' = chunks /\ batch' \in {batch, "none"} /\ drain'.copy \in {drain.copy, Awake.copy}
          /\ drain'.all \in {drain.all, 0}
      BY <1>2, <1>15 DEF Watch, ReclaimPending, DrainOnly, QualityInv, QualityTypes
    <2> QED  BY <1>0, <1>2, <2>2, <2>3 DEF QualityLimits
  <1>16. CASE Claim
    <2>1. UNCHANGED <<chunks, batch>> /\ drain'.copy = drain.copy /\ drain'.all = drain.all
      BY <1>16 DEF Claim, ClaimNextPending, DrainOnly, QualityInv, QualityTypes
    <2>2. reviews' = reviews \/ \E j \in ReviewIds : reviews' = [reviews EXCEPT ![j].claimed = TRUE]
      BY <1>16 DEF Claim, ClaimNextPending
    <2>3. \A j \in ReviewIds : [reviews[j] EXCEPT !.claimed = TRUE] \in Row /\ Small([reviews[j] EXCEPT !.claimed = TRUE])
      BY <1>0 DEF Row, Small, QualityLimits
    <2>4. \A i \in ReviewIds' : Small(reviews'[i])
      BY <1>5, <2>2, <2>3 DEF QualityLimits, ReviewIds
    <2> QED  BY <2>1, <2>4 DEF QualityLimits
  <1>17. CASE WaitOver \/ EndLoop \/ DatabaseError
    <2>1. UNCHANGED <<reviews, chunks, batch>> /\ drain'.copy \in {drain.copy, Awake.copy, Asleep.copy}
          /\ drain'.all \in {drain.all, 0}
      BY <1>2, <1>17 DEF WaitOver, EndLoop, DatabaseError, DrainOnly, QualityInv, QualityTypes
    <2> QED  BY <1>0, <1>2, <2>1 DEF QualityLimits, ReviewIds
  <1>18. CASE Load
    <2>1. UNCHANGED <<reviews, chunks, batch>> /\ drain.on \in ReviewIds
          /\ \/ drain' = Awake
             \/ drain'.copy = reviews[drain.on] /\ drain'.all = chunks
      BY <1>18 DEF Load, DrainOnly, Fragment, QualityInv, QualityTypes
    <2> QED  BY <1>0, <1>2, <2>1 DEF QualityLimits, ReviewIds
  <1>19. CASE Judge
    <2>1. UNCHANGED <<chunks, batch>> /\ drain' = Awake /\ drain.on \in ReviewIds /\ drain.copy \in Row /\ drain.all \in Nat
      BY <1>19 DEF Judge, DrainOnly, QualityInv, QualityTypes
    <2>2. PICK judged \in BOOLEAN :
            reviews' = [reviews EXCEPT ![drain.on] = Outcome(reviews[drain.on], drain.copy, drain.all, judged)]
      BY <1>19 DEF Judge
    <2>3. Outcome(reviews[drain.on], drain.copy, drain.all, judged) \in Row
          /\ Small(Outcome(reviews[drain.on], drain.copy, drain.all, judged))
      BY <1>0, <2>1, OutcomeIsRow, OutcomeIsSmall DEF QualityLimits
    <2>4. \A i \in ReviewIds' : Small(reviews'[i])
      BY <1>5, <2>1, <2>2, <2>3
    <2> QED  BY <1>0, <1>2, <2>1, <2>4 DEF QualityLimits
  <1>20. CASE UNCHANGED qaVars
    BY <1>6, <1>20 DEF qaVars
  <1> QED
    BY <1>8, <1>9, <1>10, <1>11, <1>12, <1>13, <1>14, <1>15, <1>16, <1>17, <1>18, <1>19, <1>20
       DEF QualityNext, Draining

\* The memory has room, one entry a medium; who waits for a download, waits for one
\* under way.
MediaLimits ==
    /\ Len(memory) <= MemoryRoom
    /\ \A i, j \in DOMAIN memory : memory[i].file = memory[j].file => i = j
    /\ \A t \in Takers : takers[t].at = "joined" => takers[t].file \in inFlight

LEMMA RememberedFits ==
    ASSUME MediaTypes, MediaLimits, NEW f \in MediaFiles, NEW whole \in BOOLEAN,
           memory' = Remembered(f, whole)
    PROVE  /\ Len(memory') <= MemoryRoom
           /\ \A i, j \in DOMAIN memory' : memory'[i].file = memory'[j].file => i = j
  <1> DEFINE Entry == [file : MediaFiles, whole : BOOLEAN]
             entry == [file |-> f, whole |-> whole]
             kept == IF Len(memory) >= MemoryRoom THEN Tail(memory) ELSE memory
  <1>1. memory \in Seq(Entry) /\ entry \in Entry /\ entry.file = f /\ MemoryRoom \in Nat \ {0}
    BY MemoryAssumption DEF MediaTypes
  <1>2. CASE InMemory(f)
    <2>1. memory' = [i \in DOMAIN memory |-> IF memory[i].file = f THEN entry ELSE memory[i]]
      BY <1>2 DEF Remembered
    <2>2. /\ DOMAIN memory' = DOMAIN memory /\ Len(memory') = Len(memory)
          /\ \A i \in DOMAIN memory : memory'[i].file = memory[i].file
      BY <1>1, <2>1
    <2> QED  BY <2>2 DEF MediaLimits
  <1>3. CASE ~InMemory(f)
    <2>1. memory' = Append(kept, entry)
      BY <1>3 DEF Remembered
    <2>2. /\ kept \in Seq(Entry) /\ Len(kept) < MemoryRoom
          /\ \A i \in DOMAIN kept : kept[i].file # f
          /\ \A i, j \in DOMAIN kept : kept[i].file = kept[j].file => i = j
      <3>1. CASE Len(memory) >= MemoryRoom
        <4>1. memory # <<>> /\ Len(memory) = MemoryRoom
          BY <1>1, <3>1 DEF MediaLimits
        <4>2. /\ Tail(memory) \in Seq(Entry) /\ Len(Tail(memory)) = Len(memory) - 1
              /\ \A i \in 1..(Len(memory) - 1) : Tail(memory)[i] = memory[i + 1]
          BY <1>1, <4>1, HeadTailProperties
        <4>3. \A i \in DOMAIN Tail(memory) : i \in Nat /\ i + 1 \in DOMAIN memory /\ Tail(memory)[i] = memory[i + 1]
          BY <1>1, <4>2
        <4>4. \A i, j \in DOMAIN Tail(memory) : Tail(memory)[i].file = Tail(memory)[j].file => i + 1 = j + 1
          BY <4>3 DEF MediaLimits
        <4>5. \A i, j \in DOMAIN Tail(memory) : Tail(memory)[i].file = Tail(memory)[j].file => i = j
          BY <4>3, <4>4
        <4>6. \A i \in DOMAIN Tail(memory) : Tail(memory)[i].file # f
          BY <1>3, <4>3 DEF InMemory
        <4> QED  BY <1>1, <3>1, <4>1, <4>2, <4>5, <4>6
      <3>2. CASE ~(Len(memory) >= MemoryRoom)
        BY <1>1, <1>3, <3>2 DEF MediaLimits, InMemory
      <3> QED  BY <3>1, <3>2
    <2> HIDE DEF kept, entry
    <2>3. /\ Len(Append(kept, entry)) = Len(kept) + 1 /\ Len(kept) \in Nat
          /\ \A i \in DOMAIN Append(kept, entry) :
               \/ i = Len(kept) + 1 /\ Append(kept, entry)[i] = entry
               \/ i \in DOMAIN kept /\ Append(kept, entry)[i] = kept[i]
      BY <1>1, <2>2, AppendProperties, LenProperties
    <2> QED  BY <1>1, <2>1, <2>2, <2>3
  <1> QED  BY <1>2, <1>3

LEMMA MediaLimitsNext ==
    ASSUME MediaInv, MediaInv', MediaLimits, [MediaNext]_mdVars
    PROVE  MediaLimits'
  <1>0. MediaTypes /\ takers \in [Takers -> Taker] /\ \A t \in Takers : takers[t].at # "away" => takers[t].file \in MediaFiles
    BY DEF MediaInv, MediaTypes
  <1> DEFINE Fits == /\ Len(memory) <= MemoryRoom
                     /\ \A i, j \in DOMAIN memory : memory[i].file = memory[j].file => i = j
             Waits == \A t \in Takers : takers[t].at = "joined" => takers[t].file \in inFlight
  <1>1. UNCHANGED memory => Fits'
    BY DEF MediaLimits
  <1>2. ASSUME NEW t \in Takers, NEW new, new.at # "joined", takers' = [takers EXCEPT ![t] = new],
               inFlight \subseteq inFlight'
        PROVE  Waits'
    BY <1>0, <1>2 DEF MediaLimits
  <1>3. ASSUME NEW t \in Takers, Over(t) PROVE Waits'
    BY <1>0, <1>3, AwayTypes DEF Over, MediaLimits
  <1>4. ASSUME NEW t \in Takers, NEW f \in MediaFiles, Upload(t, f) \/ EnsureStored(t, f) \/ HandleMediaProxy(t, f)
        PROVE  Fits' /\ Waits'
    <2>1. UNCHANGED <<memory, inFlight>> /\ \E new : new.at # "joined" /\ takers' = [takers EXCEPT ![t] = new]
      BY <1>4 DEF Upload, EnsureStored, HandleMediaProxy, Ask, Away, ResolveMediaTarget
    <2> QED  BY <1>1, <1>2, <2>1
  <1>5. ASSUME NEW t \in Takers, ReadMeta(t) PROVE Fits' /\ Waits'
    <2>1. UNCHANGED memory /\ inFlight \subseteq inFlight'
      BY <1>5 DEF ReadMeta, Missed
    <2>2. \E l \in {"read", "download", "joined"} :
             takers' = [takers EXCEPT ![t].at = l] /\ (l = "joined" => takers[t].file \in inFlight)
      BY <1>5, Zenon DEF ReadMeta, Missed
    <2>3. Waits'
      BY <1>0, <2>1, <2>2 DEF MediaLimits, Taker
    <2> QED  BY <1>1, <2>1, <2>3
  <1>6. ASSUME NEW t \in Takers, ReadData(t) PROVE Fits' /\ Waits'
    <2>1. UNCHANGED inFlight /\ takers' = [takers EXCEPT ![t] = Away] /\ takers[t].file \in MediaFiles
          /\ memory' = Remembered(takers[t].file, disk[takers[t].file].data = "whole")
      BY <1>0, <1>6 DEF ReadData
    <2>2. Fits'
      <3> PICK whole \in BOOLEAN : whole = (disk[takers[t].file].data = "whole")
        OBVIOUS
      <3> QED  BY <1>0, <2>1, RememberedFits
    <2> QED  BY <1>2, <2>1, <2>2, AwayTypes
  <1>7. ASSUME NEW t \in Takers, NotThere(t) \/ SaveFails(t) PROVE Fits' /\ Waits'
    BY <1>1, <1>3, <1>7 DEF NotThere, SaveFails
  <1>8. ASSUME NEW t \in Takers, SaveData(t) \/ DataSaved(t) PROVE Fits' /\ Waits'
    <2>1. UNCHANGED <<memory, inFlight>>
          /\ \E l \in {"writing", "describing"} : takers' = [takers EXCEPT ![t].at = l]
      BY <1>8 DEF SaveData, DataSaved
    <2>2. Waits'
      BY <1>0, <2>1 DEF MediaLimits, Taker
    <2> QED  BY <1>1, <2>1, <2>2
  <1>9. ASSUME NEW t \in Takers, MetaSaved(t) PROVE Fits' /\ Waits'
    <2>1. Over(t) /\ memory' = Remembered(takers[t].file, TRUE) /\ takers[t].file \in MediaFiles
      BY <1>0, <1>9 DEF MetaSaved
    <2> QED  BY <1>0, <1>3, <2>1, RememberedFits
  <1>10. ASSUME Stop PROVE Fits' /\ Waits'
    <2>1. memory' = <<>> /\ \A t \in Takers : takers'[t].at = "away"
      BY <1>10, AwayTypes DEF Stop
    <2> QED  BY <2>1, MemoryAssumption
  <1>11. ASSUME UNCHANGED mdVars PROVE Fits' /\ Waits'
    BY <1>11 DEF mdVars, MediaLimits
  <1> HIDE DEF Fits, Waits
  <1>12. Fits' /\ Waits'
    BY <1>4, <1>5, <1>6, <1>7, <1>8, <1>9, <1>10, <1>11, Zenon DEF MediaNext
  <1> QED  BY <1>12 DEF MediaLimits, Fits, Waits

\* What is listed, searched or at work was sent.
KnowledgeSent ==
    /\ rows \subseteq sent /\ \A v \in vectors : v.upload \in sent
    /\ \A u \in Uploads : Busy(u) => u \in sent

LEMMA SentNext ==
    ASSUME KnowledgeInv, KnowledgeSent, [KnowledgeNext]_kbVars
    PROVE  KnowledgeSent'
  <1>0. tasks \in [Uploads -> [at : Stages, left : SUBSET Pieces, alone : BOOLEAN]]
    BY DEF KnowledgeInv, KnowledgeTypes
  <1>1. ASSUME NEW u \in Uploads, NEW at, BeginTask(u, at), u \in sent'
        PROVE  \A o \in Uploads : Busy(o)' => Busy(o) \/ o \in sent'
    BY <1>0, <1>1 DEF BeginTask, Busy
  <1>2. ASSUME NEW u \in Uploads, NEW new, tasks' = [tasks EXCEPT ![u] = new], Busy(u) \/ new.at = "none"
        PROVE  \A o \in Uploads : Busy(o)' => Busy(o)
    BY <1>0, <1>2 DEF Busy
  <1>3. ASSUME NEW u \in Uploads, PostDocument(u) \/ FindDocument(u) PROVE KnowledgeSent'
    <2>1. UNCHANGED <<rows, vectors>> /\ sent \subseteq sent' /\ u \in sent' /\ \E at : BeginTask(u, at)
      BY <1>3 DEF PostDocument, FindDocument, KnowledgeSent
    <2> QED  BY <1>1, <2>1 DEF KnowledgeSent
  <1>4. ASSUME NEW u \in Uploads,
               ClearSource(u) \/ Embedded(u) \/ IndexChunk(u) \/ CreateDocument(u)
               \/ EraseVectors(u) \/ DeleteDocument(u) \/ FailTask(u)
        PROVE  KnowledgeSent'
    <2>1. Busy(u) /\ u \in sent /\ UNCHANGED sent
      BY <1>4 DEF ClearSource, Embedded, IndexChunk, CreateDocument, EraseVectors, DeleteDocument, FailTask,
         Busy, KnowledgeSent
    <2>2. \E new : tasks' = [tasks EXCEPT ![u] = new]
      BY <1>0, <1>4 DEF ClearSource, Embedded, IndexChunk, CreateDocument, EraseVectors, DeleteDocument, FailTask,
         Step, EndTask
    <2>3. rows' \subseteq rows \cup {u} /\ \A v \in vectors' : v \in vectors \/ v.upload = u
      BY <1>4 DEF ClearSource, Embedded, IndexChunk, CreateDocument, EraseVectors, DeleteDocument, FailTask,
         DeleteBySource
    <2> QED  BY <1>2, <2>1, <2>2, <2>3 DEF KnowledgeSent
  <1>5. CASE UNCHANGED kbVars
    BY <1>5 DEF kbVars, KnowledgeSent, Busy
  <1> QED  BY <1>3, <1>4, <1>5 DEF KnowledgeNext

ServicesInv ==
    /\ HistoryInv /\ QualityInv /\ MediaInv /\ SettingsInv /\ TopologyInv /\ PromptInv /\ KnowledgeInv
    /\ QualityLimits /\ MediaLimits /\ KnowledgeSent

LEMMA ServicesTyped == ServicesInv => ServicesTypeOK
  <1> SUFFICES ASSUME ServicesInv PROVE ServicesTypeOK
    OBVIOUS
  <1>1. HistoryTypeOK
    <2>1. /\ progress \in SyncRecord /\ queue \in Seq(Job)
          /\ syncing \in [at : SyncSteps, task : Job \cup {NoTask}, copy : SyncRecord]
      BY DEF ServicesInv, HistoryInv, HistoryTypes
    <2>2. \A i \in DOMAIN queue : queue[i] \in Job
      BY <2>1
    <2>3. \A i \in DOMAIN queue : queue[i].job \in Starts /\ queue[i].attempt \in 1..MaxAttempts
      BY <2>2 DEF Job
    <2> QED  BY <2>1, <2>3 DEF HistoryTypeOK, SyncRecord, SyncStates, SyncSteps
  <1>2. QualityTypeOK
    <2>1. QualityTypes /\ QualityLimits /\ MaxChunks \in Nat /\ \A i \in ReviewIds : reviews[i] \in Row
      BY QualityAssumption DEF ServicesInv, QualityInv, QualityTypes, ReviewIds
    <2>2. \A i \in ReviewIds : /\ reviews[i].status \in Statuses
                               /\ reviews[i].analyzed \in 0..MaxChunks /\ reviews[i].total \in 0..MaxChunks
      BY <2>1 DEF QualityLimits, Small, Row
    <2> QED  BY <2>1, <2>2 DEF QualityTypeOK, QualityTypes, QualityLimits, Statuses
  <1>3. MediaTypeOK
    <2>1. \A f \in MediaFiles : disk[f].data \in {"none", "part", "whole"} /\ disk[f].meta \in BOOLEAN
      BY DEF ServicesInv, MediaInv, MediaTypes
    <2>2. IsInjective([i \in DOMAIN memory |-> memory[i].file])
      BY DEF ServicesInv, MediaLimits, IsInjective
    <2> QED  BY <2>1, <2>2 DEF ServicesInv, MediaLimits, MediaTypeOK
  <1>4. SettingsTypeOK
    BY DEF ServicesInv, SettingsInv, SettingsTypes, SettingsTypeOK, Full, Steps
  <1>5. TopologyTypeOK
    BY DEF ServicesInv, TopologyInv, TopologyTypes, TopologyTypeOK, Request, CallSteps
  <1>6. PromptTypeOK
    <2>1. PromptTypes /\ \A e \in Editors : edits[e] \in Edit
      BY DEF ServicesInv, PromptInv, PromptTypes
    <2>2. \A w \in Writes : DOMAIN w \subseteq Versions
      BY DEF Writes
    <2> QED  BY <2>1, <2>2 DEF PromptTypes, PromptTypeOK, Edit
  <1>7. KnowledgeTypeOK
    BY DEF ServicesInv, KnowledgeInv, KnowledgeTypes, Results, KnowledgeSent, KnowledgeTypeOK
  <1> QED  BY <1>1, <1>2, <1>3, <1>4, <1>5, <1>6, <1>7 DEF ServicesTypeOK

LEMMA ServicesInitHolds == ServicesInit => ServicesInv
  <1> SUFFICES ASSUME ServicesInit PROVE ServicesInv
    OBVIOUS
  <1>1. QualityLimits
    BY QualityAssumption DEF ServicesInit, QualityInit, QualityLimits, ReviewIds, Small, Asleep, NoReview, NewReview
  <1>2. MediaLimits
    BY AwayTypes, MemoryAssumption DEF ServicesInit, MediaInit, MediaLimits
  <1>3. KnowledgeSent
    BY DEF ServicesInit, KnowledgeInit, KnowledgeSent, Busy, Idle
  <1> QED  BY <1>1, <1>2, <1>3, HistoryInitHolds, QualityInitHolds, MediaInitHolds, SettingsInitHolds,
           TopologyInitHolds, PromptInitHolds, KnowledgeInitHolds DEF ServicesInit, ServicesInv

\* Every service runs, or stays as it is while another does.
LEMMA ServicesNextKeeps ==
    ASSUME ServicesInv, [ServicesNext]_<<hsVars, qaVars, mdVars, seVars, ntVars, pvVars, kbVars, focus>>
    PROVE  ServicesInv'
  <1>1. /\ [HistoryNext]_hsVars /\ [QualityNext]_qaVars /\ [MediaNext]_mdVars /\ [SettingsNext]_seVars
        /\ [TopologyNext]_ntVars /\ [PromptNext]_pvVars /\ [KnowledgeNext]_kbVars
    BY Zenon DEF ServicesNext
  <1>2. /\ HistoryInv' /\ QualityInv' /\ MediaInv' /\ SettingsInv' /\ TopologyInv' /\ PromptInv' /\ KnowledgeInv'
    BY <1>1, HistoryNextKeeps, QualityNextKeeps, MediaNextKeeps, SettingsNextKeeps, TopologyNextKeeps,
       PromptNextKeeps, KnowledgeNextKeeps DEF ServicesInv
  <1> QED  BY <1>1, <1>2, LimitsNext, MediaLimitsNext, SentNext DEF ServicesInv

\* The records, rows, copies and files keep their types; a worker never counts more
\* chunks than there are, the memory never holds more media than it has room for,
\* nobody waits for a download that is over, and what is found was sent.
THEOREM ServicesAreTyped == ServicesSpec => []ServicesTypeOK
  <1> QED  BY ServicesInitHolds, ServicesNextKeeps, ServicesTyped, PTL DEF ServicesSpec
=============================================================================
