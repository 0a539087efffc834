----------------------------- MODULE ClientSync -----------------------------
(***************************************************************************)
(* `make sync', a process of its own beside the bot of Provisioning: it    *)
(* reads data.json once, then goes from node to node, lists the clients of *)
(* its panel, and creates, updates and attaches the clients of data.json   *)
(* one after the other.  It shares no lock with the bot, whose requests    *)
(* write to the same panels and to the file.  An action is again the code  *)
(* between two awaits with the answer to the call that was awaited.        *)
(***************************************************************************)
EXTENDS Provisioning

CONSTANTS
    MaxSyncs         \* bound: how often the sync is run

ASSUME SyncsAssumption ==
    MaxSyncs \in Nat /\ {"idle", "nodes", "clients"} \cap Client = {}

VARIABLES
    sync,            \* the locals of the sync process
    syncs,
    (* History, read by the properties only *)
    agreed,          \* clients as some sync pushed them to all their nodes
    overtaken        \* clients an older sync's update reached late in this one

syncVars == <<sync, syncs, agreed, overtaken>>

NotRunning ==
    [at     |-> "idle",                       \* where the process is
     dry    |-> FALSE,                        \* --dry-run
     loaded |-> [c \in Client |-> NoRecord],  \* the clients of data.json
     nodes  |-> {},                           \* plans it has not finished
     listed |-> [c \in Client |-> Absent],    \* `existing' of the current node
     node   |-> None,
     todo   |-> {},                           \* targets of the current node
     failed |-> {}]                           \* clients of which it reports errors

SyncInit == Init /\ sync = NotRunning /\ syncs = 0 /\ agreed = {} /\ overtaken = {}
-----------------------------------------------------------------------------
Targets(rec, n) == IF rec = NoRecord THEN {} ELSE NodeTargets(ProvisionedTags(rec), n)

(* _build_node_plans: the clients that want something of a node.           *)
PlanOf(loaded, n) == {c \in Client : Targets(loaded[c], n) # {}}

(* Mutant: the id a client was migrated with is pushed for good.           *)
PushedSub_ClientId(c) == c
PushedSub(c) == EffectiveSubId(c, sync.loaded[c])

(* Mutant: a client is compared with its subId, which it may not have.     *)
NeedsUpdate_NoFallback(c) == sync.listed[c].sub # sync.loaded[c].sub
NeedsUpdate(c) == sync.listed[c].sub # PushedSub(c)
ToAttach(c) == Targets(sync.loaded[c], sync.node) \ sync.listed[c].on

BotUntouched == UNCHANGED <<file, live, queue, pc, local, crashes, history>>

SyncBegin(dry) ==
    /\ sync.at = "idle" /\ syncs < MaxSyncs
    /\ sync' = [NotRunning EXCEPT
                   !.at = "nodes", !.dry = dry, !.loaded = file.clients,
                   !.nodes = {n \in Node : PlanOf(file.clients, n) # {}}]
    /\ syncs' = syncs + 1 /\ overtaken' = {}
    /\ UNCHANGED <<panel, wire, agreed>> /\ BotUntouched

ListNode(n) ==
    /\ sync.at = "nodes" /\ n \in sync.nodes
    /\ sync' = [sync EXCEPT !.at = "clients", !.node = n, !.listed = panel[n],
                            !.todo = PlanOf(sync.loaded, n)]
    /\ UNCHANGED <<panel, wire, syncs, agreed, overtaken>> /\ BotUntouched

(* Mutant: a node that cannot be listed ends the sync.                     *)
NodeFails_Ends(n) ==
    /\ sync.at = "nodes" /\ n \in sync.nodes
    /\ sync' = [sync EXCEPT !.nodes = {}, !.failed = @ \cup PlanOf(sync.loaded, n)]
    /\ UNCHANGED <<panel, wire, syncs, agreed, overtaken>> /\ BotUntouched

NodeFails(n) ==
    /\ sync.at = "nodes" /\ n \in sync.nodes
    /\ sync' = [sync EXCEPT !.nodes = @ \ {n}, !.failed = @ \cup PlanOf(sync.loaded, n)]
    /\ UNCHANGED <<panel, wire, syncs, agreed, overtaken>> /\ BotUntouched

(* Mutant: a node is not left after its last target.                       *)
NextTarget_Stays(c, failed) ==
    sync' = [sync EXCEPT !.todo = @ \ {c}, !.at = "clients", !.failed = @ \cup failed]

(* The target is done with, and so is its node if it was the last.         *)
NextTarget(c, failed) ==
    LET left == sync.todo \ {c}
    IN  sync' = [sync EXCEPT !.todo = left,
                             !.at = IF left = {} THEN "nodes" ELSE "clients",
                             !.nodes = IF left = {} THEN @ \ {sync.node} ELSE @,
                             !.failed = @ \cup failed]

Reconciling(c) == c \in sync.todo /\ Targets(sync.loaded[c], sync.node) \subseteq live

InboundsMissing(c) ==
    /\ sync.at = "clients" /\ c \in sync.todo
    /\ ~ Targets(sync.loaded[c], sync.node) \subseteq live
    /\ NextTarget(c, {c})
    /\ UNCHANGED <<panel, wire, syncs, agreed, overtaken>> /\ BotUntouched

NothingToDo(c) ==
    /\ sync.at = "clients" /\ Reconciling(c)
    /\ sync.listed[c] # Absent /\ ~ NeedsUpdate(c) /\ ToAttach(c) = {}
    /\ NextTarget(c, {})
    /\ UNCHANGED <<panel, wire, syncs, agreed, overtaken>> /\ BotUntouched

(* What a panel does with an update: the client stays where it is attached.*)
PanelUpdate(n, c, s) ==
    /\ panel[n][c] # Absent
    /\ panel' = [panel EXCEPT ![n][c].sub = s]

(* Where the process is about to create, update or attach.                 *)
Creates(c) == sync.at = "clients" /\ Reconciling(c) /\ sync.listed[c] = Absent
Updates(c) ==
    /\ sync.at = "clients" /\ Reconciling(c)
    /\ sync.listed[c] # Absent /\ NeedsUpdate(c)
Attaches(c) ==
    /\ Reconciling(c) /\ sync.listed[c] # Absent /\ ToAttach(c) # {}
    /\ sync.at = c \/ (sync.at = "clients" /\ ~ NeedsUpdate(c))

CreateClient(c) ==
    /\ Creates(c)
    /\ IF sync.dry THEN UNCHANGED panel
       ELSE PanelAdd(sync.node, c, PushedSub(c), Targets(sync.loaded[c], sync.node))
    /\ NextTarget(c, {})
    /\ UNCHANGED <<wire, syncs, agreed, overtaken>> /\ BotUntouched

Writing(c) == ~ sync.dry /\ (Creates(c) \/ Updates(c) \/ Attaches(c))

(* Mutant: the inbounds that were listed are part of the update.           *)
UpdateClient_WithInbounds(c) ==
    /\ Updates(c)
    /\ IF sync.dry THEN UNCHANGED panel
       ELSE panel' = [panel EXCEPT ![sync.node][c] =
                         [sync.listed[c] EXCEPT !.sub = PushedSub(c)]]
    /\ IF ToAttach(c) = {} THEN NextTarget(c, {}) ELSE sync' = [sync EXCEPT !.at = c]
    /\ UNCHANGED <<wire, syncs, agreed, overtaken>> /\ BotUntouched

(* Mutant: a client is either updated or attached.                         *)
UpdateClient_Only(c) ==
    /\ Updates(c)
    /\ IF sync.dry THEN UNCHANGED panel ELSE PanelUpdate(sync.node, c, PushedSub(c))
    /\ NextTarget(c, {})
    /\ UNCHANGED <<wire, syncs, agreed, overtaken>> /\ BotUntouched

UpdateClient(c) ==
    /\ Updates(c)
    /\ IF sync.dry THEN UNCHANGED panel ELSE PanelUpdate(sync.node, c, PushedSub(c))
    /\ IF ToAttach(c) = {} THEN NextTarget(c, {}) ELSE sync' = [sync EXCEPT !.at = c]
    /\ UNCHANGED <<wire, syncs, agreed, overtaken>> /\ BotUntouched

(* Mutant: a client is attached to its targets and to nothing else.        *)
AttachMissing_Replaces(c) ==
    /\ Attaches(c)
    /\ IF sync.dry THEN UNCHANGED panel
       ELSE panel' = [panel EXCEPT ![sync.node][c].on = Targets(sync.loaded[c], sync.node)]
    /\ NextTarget(c, {})
    /\ UNCHANGED <<wire, syncs, agreed, overtaken>> /\ BotUntouched

AttachMissing(c) ==
    /\ Attaches(c)
    /\ IF sync.dry THEN UNCHANGED panel ELSE PanelAttach(sync.node, c, ToAttach(c))
    /\ NextTarget(c, {})
    /\ UNCHANGED <<wire, syncs, agreed, overtaken>> /\ BotUntouched

(* The write of a target that is waited for: add, update or attach.        *)
SyncWrite(c) ==
    [kind   |-> IF Creates(c) THEN "adding" ELSE IF Updates(c) THEN "updating"
                ELSE "attaching",
     node   |-> sync.node, client |-> c, sub |-> PushedSub(c),
     on     |-> Targets(sync.loaded[c], sync.node)]

(* The call of a write raises; the panel may carry it out all the same.    *)
WriteFails(c) ==
    /\ Writing(c)
    /\ NextTarget(c, {c})
    /\ wire' \in {wire, wire \cup {SyncWrite(c)}}
    /\ UNCHANGED <<panel, syncs, agreed, overtaken>> /\ BotUntouched

LateUpdate ==
    \E w \in wire :
        /\ w.kind = "updating" /\ PanelUpdate(w.node, w.client, w.sub)
        /\ wire' = wire \ {w}
        /\ overtaken' = overtaken \cup {w.client}
        /\ UNCHANGED <<sync, syncs, agreed>> /\ BotUntouched

Updating(c) == \E w \in wire : w.kind = "updating" /\ w.client = c

SyncEnd ==
    /\ sync.at = "nodes" /\ sync.nodes = {}
    /\ sync' = NotRunning
    /\ agreed' = IF sync.dry THEN agreed ELSE agreed \cup
          {c \in Client \ (sync.failed \cup overtaken) :
              /\ sync.loaded[c] # NoRecord /\ sync.loaded[c] = file.clients[c]
              /\ ~ Updating(c)}
    /\ UNCHANGED <<panel, wire, syncs, overtaken>> /\ BotUntouched

SyncDies ==
    /\ sync.at # "idle" /\ sync' = NotRunning
    /\ wire' \in {wire} \cup {wire \cup {SyncWrite(c)} : c \in {d \in Client : Writing(d)}}
    /\ UNCHANGED <<panel, syncs, agreed, overtaken>> /\ BotUntouched

SyncStep ==
    \/ \E dry \in BOOLEAN : SyncBegin(dry)
    \/ \E n \in Node : ListNode(n) \/ NodeFails(n)
    \/ \E c \in Client :
          \/ InboundsMissing(c) \/ NothingToDo(c)
          \/ CreateClient(c) \/ UpdateClient(c) \/ AttachMissing(c) \/ WriteFails(c)
    \/ SyncEnd \/ SyncDies

SyncNext ==
    \/ SyncStep
    \/ LateUpdate
    \/ /\ Next
       /\ agreed' = {c \in agreed : file'.clients[c] = file.clients[c]}
       /\ UNCHANGED <<sync, syncs, overtaken>>

SyncSpec == SyncInit /\ [][SyncNext]_<<vars, syncVars>>
-----------------------------------------------------------------------------
(* The values the variables of the sync range over.  What it works on is   *)
(* what it loaded: targets of records, on nodes it has not finished.       *)
SyncTypeOK ==
    /\ sync.at \in {"idle", "nodes", "clients"} \cup Client
    /\ sync.loaded \in Clients
    /\ sync.nodes \subseteq Node
    /\ sync.listed \in [Client -> Entry \cup {Absent}]
    /\ sync.at \notin {"idle", "nodes"} =>
          /\ sync.node \in sync.nodes
          /\ sync.todo # {} /\ sync.todo \subseteq PlanOf(sync.loaded, sync.node)
    /\ sync.at \in Client => sync.at \in sync.todo
    /\ sync.failed \subseteq Client
    /\ syncs \in 0 .. MaxSyncs
    /\ overtaken \subseteq Client
    /\ agreed \subseteq {c \in Client : file.clients[c] # NoRecord}

(* A client of which a sync reported no error is on all its nodes as its   *)
(* record has it, and stays so until the record changes: whatever became   *)
(* of other nodes and clients, and whatever the bot and its late writes do *)
(* on the panels at the same time (sync).  Excepted are clients whose      *)
(* record changed since the sync loaded it, and those an older run's       *)
(* update, given up by its caller, reached late or may still reach: its    *)
(* subId is that of an older record.                                       *)
SyncedMeansAgreed ==
    \A c \in agreed, n \in Node :
        LET rec == file.clients[c] IN
        Targets(rec, n) # {} =>
            /\ panel[n][c] # Absent
            /\ panel[n][c].sub = EffectiveSubId(c, rec)
            /\ Targets(rec, n) \subseteq panel[n][c].on

(* For such a client the next sync has no call to make, even if requests   *)
(* for it are on their way (_needs_update); excepted are the same clients. *)
SyncedOnceIsEnough == \A c \in agreed : ~ Writing(c)

(* "Clients present on a panel but absent from data.json are never         *)
(* touched, and nothing is ever deleted" (ClientSyncService), nor is a dry *)
(* run seen on the panels; data.json is that of its load.                  *)
SyncTouchesOnlyItsOwn ==
    [][SyncStep =>
          \A c \in Client, n \in Node : panel'[n][c] # panel[n][c] =>
              /\ sync.loaded[c] # NoRecord /\ ~ sync.dry
              /\ panel[n][c] # Absent => panel[n][c].on \subseteq panel'[n][c].on]_<<vars, syncVars>>
=============================================================================
