------------------------------- MODULE Settings -------------------------------
(***************************************************************************)
(* The settings of a channel (or of the AI): one row, a cache of a minute  *)
(* in the process, defaults from the environment.  An update reads the     *)
(* current settings through the cache, merges the form into them, writes   *)
(* all of them and drops the cache.                                        *)
(***************************************************************************)
EXTENDS Naturals

CONSTANTS
    Admins,       \* requests that change settings
    Readers,      \* requests that read them, of any part of the program
    MaxReadFails  \* bound: reads the database does not answer

VARIABLES
    row,       \* system_setting, NoSettings when there is no row
    cache,     \* the copy in the process, NoSettings for none
    reqs,      \* per request: [at, got, form]
    readFails, \* counter for the bound
    wanted,    \* history: per field, what was last saved for it
    disturbed  \* history: an update overlapped another request, or its read failed

seVars == <<row, cache, reqs, readFails, wanted, disturbed>>

Fields == {"provider", "token"}
FieldValues == {"env", "new"}
NoSettings == [f \in Fields |-> "none"]
\* What a client is shown of a secret.
Mask == "mask"
Env == [f \in Fields |-> "env"]
\* What a form says of a field: nothing, the mask it was shown, or a value.
Forms == [provider : FieldValues, token : {"absent", Mask}] \cup [provider : {"absent"}, token : FieldValues]
NoForm == [f \in Fields |-> "absent"]
Settled == [at |-> "none", got |-> NoSettings, form |-> NoForm]

SettingsInit ==
    /\ row = NoSettings /\ cache = NoSettings /\ reqs = [q \in Admins \cup Readers |-> Settled]
    /\ readFails = 0 /\ wanted = Env /\ disturbed = FALSE

-----------------------------------------------------------------------------
(* getChannelSettings, getAiSettings *)

Resolved == IF row = NoSettings THEN Env ELSE row
Updating(q) == q \in Admins /\ reqs[q].at \in {"query", "save", "drop"}
Overlaps(q) == \E o \in DOMAIN reqs \ {q} : reqs[o].at # "none"

\* The cache, or a query that is answered later.
GetSettings(q, form) ==
    /\ reqs[q].at = "none" /\ (q \in Readers => cache = NoSettings)
    /\ reqs' = [reqs EXCEPT ![q] = [at |-> IF cache = NoSettings THEN "query"
                                           ELSE "save",
                                    got |-> IF cache = NoSettings THEN Resolved ELSE cache,
                                    form |-> form]]
    /\ disturbed' = (disturbed \/ \E o \in Admins \ {q} : Updating(o))
    /\ UNCHANGED <<row, cache, readFails, wanted>>

Answered(q, settings) ==
    IF Updating(q) THEN [reqs[q] EXCEPT !.at = "save", !.got = settings] ELSE Settled

\* The answer is cached; without one the defaults are returned and not cached.
Answer(q) ==
    /\ reqs[q].at \in {"query", "reply"}
    /\ \/ /\ cache' = reqs[q].got
          /\ reqs' = [reqs EXCEPT ![q] = Answered(q, @.got)]
          /\ UNCHANGED <<readFails, disturbed>>
       \/ /\ readFails < MaxReadFails /\ readFails' = readFails + 1
          /\ reqs' = [reqs EXCEPT ![q] = Answered(q, Env)]
          /\ disturbed' = (disturbed \/ Updating(q)) /\ UNCHANGED cache
    /\ UNCHANGED <<row, wanted>>

CacheExpires ==
    /\ cache # NoSettings /\ cache' = NoSettings
    /\ UNCHANGED <<row, reqs, readFails, wanted, disturbed>>

-----------------------------------------------------------------------------
(* updateChannelSettings, updateAiSettings *)

\* Mutant of Merged: what the form does not have is taken from the environment.
MergedEnv(current, form) ==
    [f \in Fields |-> IF form[f] \in {"absent", Mask} THEN Env[f] ELSE form[f]]

\* mergeSecret: neither an empty field nor the mask replaces a secret.
Merged(current, form) ==
    [f \in Fields |-> IF form[f] \in {"absent", Mask} THEN current[f] ELSE form[f]]

Save(q) ==
    /\ reqs[q].at = "save" /\ reqs' = [reqs EXCEPT ![q] = [Settled EXCEPT !.at = "drop"]]
    /\ row' = Merged(reqs[q].got, reqs[q].form)
    /\ wanted' = [f \in Fields |-> IF reqs[q].form[f] \in FieldValues THEN reqs[q].form[f] ELSE wanted[f]]
    /\ disturbed' = (disturbed \/ Overlaps(q))
    /\ UNCHANGED <<cache, readFails>>

\* The reply is read again, by a query that fills the cache.
InvalidateCache(q) ==
    /\ reqs[q].at = "drop" /\ cache' = NoSettings
    /\ reqs' = [reqs EXCEPT ![q] = [Settled EXCEPT !.at = "reply", !.got = Resolved]]
    /\ UNCHANGED <<row, readFails, wanted, disturbed>>

SettingsNext ==
    \/ \E q \in Admins : \/ \E form \in Forms : GetSettings(q, form)
                         \/ Answer(q) \/ Save(q) \/ InvalidateCache(q)
    \/ \E q \in Readers : GetSettings(q, NoForm) \/ Answer(q)
    \/ CacheExpires

SettingsSpec == SettingsInit /\ [][SettingsNext]_seVars

-----------------------------------------------------------------------------
(* Properties *)

\* Types of the variables.
SettingsTypeOK ==
    /\ {row, cache} \subseteq [Fields -> FieldValues] \cup {NoSettings}
    /\ \A q \in DOMAIN reqs : reqs[q].at \in {"none", "query", "save", "drop", "reply"}

\* An update changes what its form names and nothing else, and once it is answered
\* nobody is served an older value; whatever was cached, expired or sent back
\* masked.  Not so if it overlaps another request or its own read fails.
SettingsTakeEffect ==
    ~disturbed => /\ Resolved = wanted
                  /\ \/ cache \in {NoSettings, Resolved}
                     \/ \E q \in Admins : reqs[q].at = "drop"
=============================================================================
