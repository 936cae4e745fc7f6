------------------------------ MODULE AgentPool ------------------------------
(***************************************************************************)
(* What progressive dispatch promises (docs/spec/02_STATE_MACHINE.md,      *)
(* "Despacho Progresivo"): a queued case is given to an online agent below *)
(* the cap, one case at a time, and does not wait while there is one.      *)
(***************************************************************************)
EXTENDS Naturals, FiniteSets

CONSTANTS Cases, Agents, Nobody, Cap

VARIABLES queued,  \* cases waiting for an agent
          holder,  \* holder[c]: the agent attending c, or Nobody
          online   \* agents that may be given a case

vars == <<queued, holder, online>>

Held(a) == Cardinality({c \in Cases : holder[c] = a})

Init == /\ queued \subseteq Cases
        /\ holder = [c \in Cases |-> Nobody]
        /\ online \subseteq Agents

Dispatch(c, a) ==
    /\ c \in queued /\ a \in online /\ Held(a) < Cap
    /\ queued' = queued \ {c}
    /\ holder' = [holder EXCEPT ![c] = a]
    /\ UNCHANGED online

\* The case is closed, from the queue or from an agent's hands.
Leave(c) ==
    /\ c \in queued \/ holder[c] # Nobody
    /\ queued' = queued \ {c}
    /\ holder' = [holder EXCEPT ![c] = Nobody]
    /\ UNCHANGED online

Presence == online' \in SUBSET Agents /\ UNCHANGED <<queued, holder>>

DispatchAny == \E c \in Cases, a \in Agents : Dispatch(c, a)

Next == DispatchAny \/ (\E c \in Cases : Leave(c)) \/ Presence

Safe == Init /\ [][Next]_vars

Spec == Safe /\ WF_vars(DispatchAny)
=============================================================================
