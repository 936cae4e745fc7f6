------------------------------ MODULE MCCases --------------------------------
(* One instance for the modules of a case and its conversation: a behaviour picks one and runs it. *)
EXTENDS Workflows, ActionGateway, MessageRouting, Delivery, Senders, MessageTemplates, TLC

VARIABLE focus   \* the module that runs

MCContracts == ("id0" :> 0) @@ ("id1" :> 1) @@ ("id2" :> 2)

CasesInit ==
    /\ WorkflowsInit
    /\ GatewayInit
    /\ RoutingInit
    /\ DeliveryInit
    /\ SendersInit
    /\ TemplatesInit
    /\ focus \in {"workflows", "gateway", "routing", "delivery", "senders", "templates"}
    \* A module that does not run has one initial state.
    /\ focus # "workflows" => workflow = "SALES"
    /\ focus # "gateway" => route = "n8n" /\ registry = "active"
    /\ focus # "routing" => ~wrote
    /\ focus # "delivery" => alike
    /\ focus # "templates" => provider = "meta"
    /\ focus # "senders" => inbox /\ cachedConv /\ \A s \in Sends : post[s].kind = "text"
    \* Of two sends one is a text or a file: the other kinds meet these, not themselves.
    /\ focus = "senders" => \A s \in Sends : s > 1 => post[s].kind \in {"text", "media"}

CasesNext ==
    /\ UNCHANGED focus
    /\ \/ focus = "workflows" /\ WorkflowsNext /\ UNCHANGED <<gwVars, mrVars, dvVars, snVars, mtVars>>
       \/ focus = "gateway" /\ GatewayNext /\ UNCHANGED <<wfVars, mrVars, dvVars, snVars, mtVars>>
       \/ focus = "routing" /\ RoutingNext /\ UNCHANGED <<wfVars, gwVars, dvVars, snVars, mtVars>>
       \/ focus = "delivery" /\ DeliveryNext /\ UNCHANGED <<wfVars, gwVars, mrVars, snVars, mtVars>>
       \/ focus = "senders" /\ SendersNext /\ UNCHANGED <<wfVars, gwVars, mrVars, dvVars, mtVars>>
       \/ focus = "templates" /\ TemplatesNext /\ UNCHANGED <<wfVars, gwVars, mrVars, dvVars, snVars>>

CasesSpec == CasesInit /\ [][CasesNext]_<<wfVars, gwVars, mrVars, dvVars, snVars, mtVars, focus>>

\* The values of the variables are of their types: the cases, the turns, the
\* executions and the rows of the database that the modules keep.
CasesTypeOK ==
    /\ WorkflowsTypeOK /\ GatewayTypeOK /\ RoutingTypeOK /\ DeliveryTypeOK /\ SendersTypeOK
    /\ TemplatesTypeOK
==============================================================================
