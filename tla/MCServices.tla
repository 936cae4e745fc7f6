----------------------------- MODULE MCServices ------------------------------
(* One instance for the services around the cases: a behaviour picks one and runs it. *)
EXTENDS HistorySync, Quality, Media, Settings, NetworkTopology, PromptVersions, KnowledgeBase

VARIABLE focus   \* the module that runs

ServicesInit ==
    /\ HistoryInit
    /\ QualityInit
    /\ MediaInit
    /\ SettingsInit
    /\ TopologyInit
    /\ PromptInit
    /\ KnowledgeInit
    /\ focus \in {"history", "quality", "media", "settings", "topology", "prompts", "knowledge"}
    \* A module that does not run has one initial state.
    /\ focus # "quality" => chunks = 0
    /\ focus # "prompts" => active = 0
    /\ focus # "knowledge" => nameOf = [u \in Uploads |-> CHOOSE n \in Names : TRUE]

\* The settings stop where updates have met: nothing is promised from there on.
ServicesNext ==
    /\ UNCHANGED focus
    /\ \/ focus = "history" /\ HistoryNext /\ UNCHANGED <<qaVars, mdVars, seVars, ntVars, pvVars, kbVars>>
       \/ focus = "quality" /\ QualityNext /\ UNCHANGED <<hsVars, mdVars, seVars, ntVars, pvVars, kbVars>>
       \/ focus = "media" /\ MediaNext /\ UNCHANGED <<hsVars, qaVars, seVars, ntVars, pvVars, kbVars>>
       \/ focus = "settings" /\ ~disturbed /\ SettingsNext /\ UNCHANGED <<hsVars, qaVars, mdVars, ntVars, pvVars, kbVars>>
       \/ focus = "topology" /\ TopologyNext /\ UNCHANGED <<hsVars, qaVars, mdVars, seVars, pvVars, kbVars>>
       \/ focus = "prompts" /\ PromptNext /\ UNCHANGED <<hsVars, qaVars, mdVars, seVars, ntVars, kbVars>>
       \/ focus = "knowledge" /\ KnowledgeNext /\ UNCHANGED <<hsVars, qaVars, mdVars, seVars, ntVars, pvVars>>

\* The loops of the process go on: the import's start and its worker, and the
\* worker of the reviews.  Nothing makes a request, a restart or an error happen.
ServicesSpec ==
    /\ ServicesInit
    /\ [][ServicesNext]_<<hsVars, qaVars, mdVars, seVars, ntVars, pvVars, kbVars, focus>>
    /\ WF_hsVars(focus = "history" /\ Pushing /\ UNCHANGED <<qaVars, mdVars, seVars, ntVars, pvVars, kbVars, focus>>)
    /\ WF_hsVars(focus = "history" /\ Working /\ UNCHANGED <<qaVars, mdVars, seVars, ntVars, pvVars, kbVars, focus>>)
    /\ WF_qaVars(focus = "quality" /\ Draining /\ UNCHANGED <<hsVars, mdVars, seVars, ntVars, pvVars, kbVars, focus>>)

\* The values of the variables are of their types: the records in Redis, the rows
\* and settings in the database, the copies in memory and the files.
ServicesTypeOK ==
    /\ HistoryTypeOK /\ QualityTypeOK /\ MediaTypeOK /\ SettingsTypeOK
    /\ TopologyTypeOK /\ PromptTypeOK /\ KnowledgeTypeOK
==============================================================================
