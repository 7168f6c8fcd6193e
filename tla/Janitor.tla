------------------------------- MODULE Janitor -------------------------------
(***************************************************************************)
(* internal/janitor: each instance of lfsd runs a janitor that every       *)
(* sweepInterval deletes orphan rows, then the stored objects of those     *)
(* rows one by one, then the same for unreferenced rows.  The rows are     *)
(* gone before the first stored object is deleted, and the list of what is *)
(* still to be deleted lives in memory only.                               *)
(***************************************************************************)
EXTENDS Database, Storage

CONSTANT Instance   \* the running instances of lfsd, one janitor each

VARIABLES
    janitor,        \* where each janitor is, and the URIs it has to delete
    undeleted       \* history: the URIs whose deletion failed or was dropped

janitorVars == <<janitor, undeleted>>

JanitorTypeOK ==
    /\ janitor \in [Instance -> [pc : {"idle", "orphan", "unreferenced"},
                                 queue : SUBSET (Uri \cup {Ignored})]]
    /\ undeleted \subseteq Uri \cup {Ignored}

JanitorInit ==
    /\ janitor = [j \in Instance |-> [pc |-> "idle", queue |-> {}]]
    /\ undeleted = {}

\* deleteObjects starts on these URIs.
Pass(j, pc, uris) == janitor' = [janitor EXCEPT ![j] = [pc |-> pc, queue |-> uris]]

\* Faulty variant of PresignURIs: it goes through every backend.
AllURIs(oids) == {URI(b, oid) : b \in Backend, oid \in oids}

\* A pending row has no object_uri: the object may be at any presigning backend.
PresignURIs(oids) == {URI(b, oid) : b \in Presigner, oid \in oids}

\* A pass that fails is one that takes no rows.
SweepOrphans(j, oids) ==
    /\ janitor[j].pc = "idle"
    /\ SweepOrphanObjects(oids)
    /\ Pass(j, "orphan", PresignURIs(oids))
    /\ UNCHANGED <<undeleted, storageVars>>

SweepUnreferenced(j, oids) ==
    /\ janitor[j] = [pc |-> "orphan", queue |-> {}]
    /\ SweepUnreferencedObjects(oids)
    /\ Pass(j, "unreferenced", {objects[oid].uri : oid \in oids})
    /\ UNCHANGED <<undeleted, storageVars>>

\* deleteByURI, or p.Delete for a presigning backend.
DeleteStored(j, uri) ==
    /\ uri \in janitor[j].queue
    /\ janitor' = [janitor EXCEPT ![j].queue = @ \ {uri}]
    /\ \E b \in Backend : Delete(b, uri)
    /\ UNCHANGED <<undeleted, dbVars>>

\* The error is logged and the loop goes on.
DeleteFails(j, uri) ==
    /\ uri \in janitor[j].queue
    /\ janitor' = [janitor EXCEPT ![j].queue = @ \ {uri}]
    /\ undeleted' = undeleted \cup {uri}
    /\ UNCHANGED <<dbVars, storageVars>>

SweepDone(j) ==
    /\ janitor[j] = [pc |-> "unreferenced", queue |-> {}]
    /\ Pass(j, "idle", {})
    /\ UNCHANGED <<undeleted, dbVars, storageVars>>

\* The process dies, and its janitor starts again at the next tick.
JanitorCrash(j) ==
    /\ janitor[j].pc # "idle"
    /\ undeleted' = undeleted \cup janitor[j].queue
    /\ Pass(j, "idle", {})
    /\ UNCHANGED <<dbVars, storageVars>>

JanitorNext ==
    \E j \in Instance :
        \/ \E oids \in SUBSET Oid : SweepOrphans(j, oids) \/ SweepUnreferenced(j, oids)
        \/ \E uri \in janitor[j].queue : DeleteStored(j, uri) \/ DeleteFails(j, uri)
        \/ SweepDone(j)
        \/ JanitorCrash(j)
=============================================================================
