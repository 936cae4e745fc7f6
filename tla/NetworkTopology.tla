---------------------------- MODULE NetworkTopology ----------------------------
(***************************************************************************)
(* The routers of the network, kept twice: by a microservice, and in one   *)
(* settings row with a copy in the process.  A request calls the           *)
(* microservice, which may be down, reads the whole list, changes it, and  *)
(* writes the whole list back.  Listing writes as well: what the           *)
(* microservice has is merged into the row.                                *)
(***************************************************************************)
EXTENDS Naturals, FiniteSets

CONSTANTS
    Routers,     \* routers, with their OLTs
    Calls,       \* requests
    MaxBegun,    \* bound: requests made by all of them
    MaxUnread    \* bound: reads the database does not answer

ASSUME RoutersAssumption == Routers # {}

VARIABLES
    remote,   \* external: the routers of the microservice
    saved,    \* the row
    copied,   \* the copy in the process: [on, list]
    calls,    \* per request: [at, op, of, ok, list]
    begun, unread,  \* counters for the bounds
    meant,    \* history: per router, what the last request about it left: in, out or open
    crossed   \* history: a request saved while another held a copy, or after a failed read

ntVars == <<remote, saved, copied, calls, begun, unread, meant, crossed>>

Operations == {"list", "create", "update", "delete", "olt", "import"}
NoCopy == [on |-> FALSE, list |-> {}]
NoCall == [at |-> "none", op |-> "list", of |-> CHOOSE r \in Routers : TRUE, ok |-> FALSE, list |-> {}]
Holding(c) == calls[c].at \in {"ask", "save", "copy"}
Crosses(c) == \E d \in Calls \ {c} : Holding(d)

TopologyInit ==
    /\ remote = {} /\ saved = {} /\ copied = NoCopy /\ calls = [c \in Calls |-> NoCall]
    /\ begun = 0 /\ unread = 0 /\ meant = [r \in Routers |-> "open"] /\ crossed = FALSE

-----------------------------------------------------------------------------
(* proxyMikrotik: carried out, refused, or carried out and the answer lost *)

\* Creating, updating and deleting ask the microservice first and go on without it;
\* it has no OLT without its router, and an update creates no router there.
Proxied(op, r) ==
    CASE op = "create" -> remote \cup {r}
      [] op = "delete" -> remote \ {r}
      [] OTHER -> remote
Begin(c, op, r) ==
    /\ calls[c].at = "none" /\ begun < MaxBegun /\ begun' = begun + 1
    /\ \E ok, done \in BOOLEAN :
         /\ ok => done
         /\ op \in {"update", "olt"} /\ ok => r \in remote
         /\ op \in {"list", "import"} => ~done
         /\ remote' = IF done THEN Proxied(op, r) ELSE remote
         /\ calls' = [calls EXCEPT ![c] = [NoCall EXCEPT !.at = "read", !.op = op, !.of = r, !.ok = ok]]
    /\ meant' = IF op \in {"create", "update", "delete", "import"} THEN [meant EXCEPT ![r] = "open"] ELSE meant
    /\ UNCHANGED <<saved, copied, unread, crossed>>

\* getNetworkTopology: the copy or the row; an error reads as an empty list.
GetNetworkTopology(c) ==
    LET go(list) == calls' = [calls EXCEPT ![c].list = list,
                                ![c].at = IF calls[c].op \in {"list", "import"} THEN "ask" ELSE "save"]
    IN
    /\ calls[c].at = "read"
    /\ \/ /\ go(IF copied.on THEN copied.list ELSE saved)
          /\ copied' = [on |-> TRUE, list |-> IF copied.on THEN copied.list ELSE saved]
          /\ UNCHANGED unread /\ crossed' = (crossed \/ Crosses(c))
       \/ /\ ~copied.on /\ unread < MaxUnread /\ unread' = unread + 1
          /\ go({}) /\ crossed' = TRUE /\ UNCHANGED copied
    /\ UNCHANGED <<remote, saved, begun, meant>>

\* GET /routers writes nothing if the microservice is down or has no router.
MergeRemote(c) ==
    /\ calls[c].at = "ask" /\ calls[c].op = "list"
    /\ \E up \in BOOLEAN :
         calls' = IF up /\ remote # {}
                  THEN [calls EXCEPT ![c].at = "save", ![c].list = calls[c].list \cup remote]
                  ELSE [calls EXCEPT ![c] = NoCall]
    /\ UNCHANGED <<remote, saved, copied, begun, unread, meant, crossed>>

\* An import creates the router there if it can.
CreateImported(c) ==
    /\ calls[c].at = "ask" /\ calls[c].op = "import"
    /\ \E up \in BOOLEAN : remote' = IF up THEN remote \cup {calls[c].of} ELSE remote
    /\ calls' = [calls EXCEPT ![c].at = "save"]
    /\ UNCHANGED <<saved, copied, begun, unread, meant, crossed>>

-----------------------------------------------------------------------------
(* saveNetworkTopology: the list that was read, changed, and written whole *)

Created(list, r) == list \cup {r}
Deleted(list, r) == list \ {r}
Imported(list, r) == list \cup {r}

\* Mutant of Updated: a router the row does not have is not added.
UpdatedKnown(list, r) == IF r \in list THEN list \cup {r} ELSE list

\* An update of a router the row does not have adds it.
Updated(list, r) == list \cup {r}

\* The OLTs are written into their router, which is in the list.
WithOlt(list, r) == list

Changed(op, list, r) ==
    CASE op = "create" -> Created(list, r)
      [] op = "update" -> Updated(list, r)
      [] op = "delete" -> Deleted(list, r)
      [] op = "import" -> Imported(list, r)
      [] op = "olt" -> WithOlt(list, r)
      [] OTHER -> list

\* An OLT of a router that is not in the row is not saved: an error, unless the
\* microservice has it.
OltWithoutRouter(c) ==
    /\ calls[c].at = "save" /\ calls[c].op = "olt" /\ calls[c].of \notin calls[c].list
    /\ calls' = [calls EXCEPT ![c] = NoCall]
    /\ UNCHANGED <<remote, saved, copied, begun, unread, meant, crossed>>

SaveNetworkTopology(c) ==
    LET op == calls[c].op
        r == calls[c].of
        list == Changed(op, calls[c].list, r)
    IN
    /\ calls[c].at = "save" /\ (op = "olt" => r \in list)
    /\ calls' = [calls EXCEPT ![c].at = "copy", ![c].list = list]
    /\ saved' = list
    /\ meant' = CASE op \in {"create", "update", "import"} -> [meant EXCEPT ![r] = "in"]
                  [] op = "delete" -> [meant EXCEPT ![r] = IF r \in remote THEN "open" ELSE "out"]
                  [] OTHER -> meant
    /\ crossed' = (crossed \/ Crosses(c))
    /\ UNCHANGED <<remote, copied, begun, unread>>

KeepCopy(c) ==
    /\ calls[c].at = "copy" /\ copied' = [on |-> TRUE, list |-> calls[c].list]
    /\ calls' = [calls EXCEPT ![c] = NoCall]
    /\ UNCHANGED <<remote, saved, begun, unread, meant, crossed>>

CopyExpires ==
    /\ copied.on /\ copied' = NoCopy
    /\ UNCHANGED <<remote, saved, calls, begun, unread, meant, crossed>>

TopologyNext ==
    \/ \E c \in Calls : \/ \E op \in Operations, r \in Routers : Begin(c, op, r)
                        \/ GetNetworkTopology(c) \/ MergeRemote(c) \/ CreateImported(c)
                        \/ OltWithoutRouter(c) \/ SaveNetworkTopology(c) \/ KeepCopy(c)
    \/ CopyExpires

TopologySpec == TopologyInit /\ [][TopologyNext]_ntVars

-----------------------------------------------------------------------------
(* Properties *)

\* Types of the variables.
TopologyTypeOK ==
    /\ remote \subseteq Routers /\ saved \subseteq Routers /\ copied.list \subseteq Routers
    /\ \A c \in Calls : calls[c].at \in {"none", "read", "ask", "save", "copy"} /\ calls[c].op \in Operations

\* The two lists may differ, but a router that was created, updated or imported last
\* is in the row, and one that was deleted from both is not brought back, by
\* listing or through the copy: unless two requests crossed or a read failed.
RoutersKept ==
    ~crossed => \A r \in Routers : /\ meant[r] = "in" => r \in saved
                                   /\ meant[r] = "out" => r \notin saved
=============================================================================
