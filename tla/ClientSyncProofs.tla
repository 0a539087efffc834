-------------------------- MODULE ClientSyncProofs --------------------------
(***************************************************************************)
(* What holds of the sync beside the bot, for every set of clients,        *)
(* requests, nodes and tags.                                               *)
(*                                                                         *)
(* The argument: a client on a panel keeps its subId and its inbounds,     *)
(* but for an update of that very client (Keeps).  Therefore what the sync *)
(* listed is still so when it acts on it (AsListed), what it pushed is     *)
(* still so when it ends (AsPushed), and what it agreed on stays, because  *)
(* no update of it is on its way and the next sync has none to make        *)
(* (StillAgreed).                                                          *)
(***************************************************************************)
EXTENDS ClientSync, ProvisioningProofs

-----------------------------------------------------------------------------
(* Types, and what the sync works on *)

SyncRecord ==
    [at : {"idle", "nodes", "clients"} \cup Client, dry : BOOLEAN,
     loaded : Clients, nodes : SUBSET Node,
     listed : [Client -> Entry \cup {Absent}], node : Node \cup {None},
     todo : SUBSET Client, failed : SUBSET Client]

SyncTypes ==
    /\ sync \in SyncRecord
    /\ syncs \in 0 .. MaxSyncs
    /\ overtaken \subseteq Client
    /\ agreed \subseteq {c \in Client : file.clients[c] # NoRecord}

OnNode == sync.at \notin {"idle", "nodes"}

Working ==
    /\ \A n \in sync.nodes : PlanOf(sync.loaded, n) # {}
    /\ sync.todo \subseteq PlanOf(sync.loaded, sync.node)
    /\ OnNode => sync.node \in sync.nodes /\ sync.todo # {}
    /\ sync.at \in Client => sync.at \in sync.todo

-----------------------------------------------------------------------------
(* What the panels keep *)

(* Client c is on node n as this record has it.                            *)
AsRecorded(p, rec, c, n) ==
    Targets(rec, n) # {} =>
        /\ p[n][c] # Absent
        /\ p[n][c].sub = EffectiveSubId(c, rec)
        /\ Targets(rec, n) \subseteq p[n][c].on

(* The clients on the panels stay as they are, except that they may be     *)
(* attached to more inbounds, and those in X be given another subId.       *)
Keeps(X) ==
    \A n \in Node, c \in Client : panel[n][c] # Absent =>
        /\ panel'[n][c] # Absent
        /\ panel[n][c].on \subseteq panel'[n][c].on
        /\ <<n, c>> \notin X => panel'[n][c].sub = panel[n][c].sub

AsListed ==
    OnNode => \A c \in sync.todo \ overtaken : sync.listed[c] # Absent =>
        /\ panel[sync.node][c] # Absent
        /\ sync.listed[c].on \subseteq panel[sync.node][c].on
        /\ IF sync.at = c
           THEN sync.dry \/ panel[sync.node][c].sub = EffectiveSubId(c, sync.loaded[c])
           ELSE panel[sync.node][c].sub = sync.listed[c].sub

(* Of these clients the sync is done with this node.                       *)
DoneWith(c, n) == n \notin sync.nodes \/ (OnNode /\ n = sync.node /\ c \notin sync.todo)

AsPushed ==
    sync.at # "idle" /\ ~ sync.dry =>
        \A c \in Client \ (sync.failed \cup overtaken), n \in Node :
            DoneWith(c, n) => AsRecorded(panel, sync.loaded[c], c, n)

StillAgreed ==
    \A c \in agreed :
        /\ \A n \in Node : AsRecorded(panel, file.clients[c], c, n)
        /\ ~ Updating(c)
        /\ sync.at # "idle" => sync.loaded[c] = file.clients[c]
        /\ OnNode /\ Targets(sync.loaded[c], sync.node) # {} =>
              /\ sync.listed[c] # Absent
              /\ sync.listed[c].sub = EffectiveSubId(c, sync.loaded[c])
              /\ Targets(sync.loaded[c], sync.node) \subseteq sync.listed[c].on

SyncInv == TypeInv /\ SyncTypes /\ Working /\ AsListed /\ AsPushed /\ StillAgreed
-----------------------------------------------------------------------------
(* Writes and panels *)

LEMMA TargetsAreTags ==
    ASSUME NEW rec \in Record \cup {NoRecord}, NEW n
    PROVE  Targets(rec, n) \subseteq Tag
<1>1. ProvisionedTags(rec) \in Seq(Tag)
  BY PlanType
<1> QED BY <1>1, TargetsType DEF Targets

LEMMA EffectiveIsSubId ==
    ASSUME NEW c \in Client, NEW rec \in Record
    PROVE  EffectiveSubId(c, rec) \in SubId
BY DEF EffectiveSubId, Record, SubId

(* An add creates what it says, and disturbs nobody.                       *)
LEMMA AddKeeps ==
    ASSUME TypeOK, NEW n \in Node, NEW c \in Client, NEW s \in SubId,
           NEW on \in SUBSET Tag, PanelAdd(n, c, s, on)
    PROVE  /\ panel' \in Panels /\ Keeps({})
           /\ panel[n][c] = Absent
           /\ panel'[n][c] # Absent /\ panel'[n][c].sub = s /\ panel'[n][c].on = on
<1>1. [sub |-> s, on |-> on] # Absent
  BY NamesAssumption DEF Entry
<1>2. panel' \in Panels
  BY PanelType
<1> QED BY <1>1, <1>2 DEF PanelAdd, Keeps, TypeOK, Panels

LEMMA AttachKeeps ==
    ASSUME TypeOK, NEW n \in Node, NEW c \in Client, NEW on \in SUBSET Tag,
           PanelAttach(n, c, on)
    PROVE  /\ panel' \in Panels /\ Keeps({})
           /\ panel[n][c] # Absent /\ panel'[n][c] # Absent
           /\ panel'[n][c].sub = panel[n][c].sub
           /\ panel'[n][c].on = panel[n][c].on \cup on
<1> DEFINE e == [panel[n][c] EXCEPT !.on = @ \cup on]
<1>1. panel[n][c] \in Entry
  BY DEF PanelAttach, TypeOK, Panels
<1>2. e \in Entry /\ e # Absent /\ e.on = panel[n][c].on \cup on
      /\ e.sub = panel[n][c].sub
  BY <1>1, NamesAssumption DEF Entry
<1>3. /\ panel' = [panel EXCEPT ![n] = [panel[n] EXCEPT ![c] = e]]
      /\ panel[n][c] # Absent
  BY DEF PanelAttach, TypeOK, Panels
<1> HIDE DEF e
<1> QED BY <1>2, <1>3 DEF Keeps, TypeOK, Panels

LEMMA UpdateKeeps ==
    ASSUME TypeOK, NEW n \in Node, NEW c \in Client, NEW s \in SubId,
           PanelUpdate(n, c, s)
    PROVE  /\ panel' \in Panels /\ Keeps({<<n, c>>})
           /\ panel[n][c] # Absent /\ panel'[n][c] # Absent
           /\ panel'[n][c].sub = s /\ panel'[n][c].on = panel[n][c].on
<1> DEFINE e == [panel[n][c] EXCEPT !.sub = s]
<1>1. panel[n][c] \in Entry
  BY DEF PanelUpdate, TypeOK, Panels
<1>2. e \in Entry /\ e # Absent /\ e.on = panel[n][c].on /\ e.sub = s
  BY <1>1, NamesAssumption DEF Entry
<1>3. /\ panel' = [panel EXCEPT ![n] = [panel[n] EXCEPT ![c] = e]]
      /\ panel[n][c] # Absent
  BY DEF PanelUpdate, TypeOK, Panels
<1> HIDE DEF e
<1>4. \A m \in Node, d \in Client : <<m, d>> # <<n, c>> => panel'[m][d] = panel[m][d]
  BY <1>3 DEF TypeOK, Panels
<1>5. panel'[n][c] = e
  BY <1>3 DEF TypeOK, Panels
<1>6. Keeps({<<n, c>>})
  BY <1>2, <1>4, <1>5 DEF Keeps
<1> QED BY <1>2, <1>3, <1>5, <1>6 DEF TypeOK, Panels

LEMMA SameKeeps == ASSUME UNCHANGED panel PROVE Keeps({})
BY DEF Keeps

LEMMA KeepsMore == ASSUME NEW X, Keeps({}) PROVE Keeps(X)
BY DEF Keeps

(* What is as recorded stays so.                                           *)
LEMMA RecordedStays ==
    ASSUME NEW X, Keeps(X), NEW rec, NEW c \in Client, NEW n \in Node,
           <<n, c>> \notin X, AsRecorded(panel, rec, c, n)
    PROVE  AsRecorded(panel', rec, c, n)
BY DEF Keeps, AsRecorded

(* No step of the bot gives a client on a panel another subId, or leaves   *)
(* an update of one on the wire.                                           *)
LEMMA BotKeeps ==
    ASSUME TypeInv, [Next]_vars
    PROVE  Keeps({}) /\ \A c \in Client : Updating(c)' => Updating(c)
<1>1. ASSUME NEW r \in Request, Work(r)
      PROVE  Keeps({}) /\ \A c \in Client : Updating(c)' => Updating(c)
  <2>1. CASE AddClient(r)
    <3>1. PICK n \in Node : PanelAdd(n, who[r], sub[r], missing[r])
      BY <2>1 DEF AddClient
    <3>2. who[r] \in Client /\ sub[r] \in SubId /\ missing[r] \in SUBSET Tag
      BY <2>1, InsideType DEF AddClient, InsideLock, TypeInv, TypeOK
    <3> QED BY <2>1, <3>1, <3>2, AddKeeps DEF AddClient, Updating, TypeInv
  <2>2. CASE AttachClient(r)
    <3>1. PICK n \in Node : PanelAttach(n, who[r], missing[r])
      BY <2>2 DEF AttachClient
    <3>2. who[r] \in Client /\ missing[r] \in SUBSET Tag
      BY <2>2, InsideType DEF AttachClient, InsideLock, TypeInv, TypeOK
    <3> QED BY <2>2, <3>1, <3>2, AttachKeeps DEF AttachClient, Updating, TypeInv
  <2>3. CASE GiveUp(r)
    <3>1. \A w \in PendingWrites(r) : w.kind # "updating"
      BY DEF PendingWrites
    <3> QED BY <2>3, <3>1, SameKeeps DEF GiveUp, Raise, Updating
  <2>4. CASE UNCHANGED <<panel, wire>>
    BY <2>4, SameKeeps DEF Updating
  <2> QED
    BY <1>1, <2>1, <2>2, <2>3, <2>4
       DEF Work, Load, ProvisionNowhere, ListInbounds, InboundNotFound, GetClientNone,
           GetClientFound, Persist, Fail, Raise
<1>2. CASE LateWrite
  <2>1. PICK w \in wire :
          /\ PanelAdd(w.node, w.client, w.sub, w.on) \/ PanelAttach(w.node, w.client, w.on)
          /\ wire' = wire \ {w}
    BY <1>2 DEF LateWrite
  <2>2. w \in Write
    BY DEF TypeInv, TypeOK
  <2>3. Keeps({})
    BY <2>1, <2>2, AddKeeps, AttachKeeps DEF Write, TypeInv
  <2> QED BY <2>1, <2>3 DEF Updating
<1>3. CASE Crash
  <2>1. \A r \in Request : \A w \in PendingWrites(r) : w.kind # "updating"
    BY DEF PendingWrites
  <2>2. \A w \in wire' : w \in wire \/ w.kind # "updating"
    BY <1>3, <2>1 DEF Crash
  <2> QED BY <1>3, <2>2, SameKeeps DEF Crash, Updating
<1>4. CASE UNCHANGED <<panel, wire>>
  BY <1>4, SameKeeps DEF Updating
<1>5. ASSUME NEW r \in Request, EnsureTelegramUser(r) \/ IssueManualClient(r)
      PROVE  UNCHANGED <<panel, wire>>
  BY <1>5 DEF EnsureTelegramUser, IssueManualClient, Enqueue
<1> QED
  BY <1>1, <1>2, <1>3, <1>4, <1>5 DEF Next, Announce, vars
-----------------------------------------------------------------------------
(* The invariant, step by step *)

(* A step of the sync leaves the bot's variables alone, and of panels and  *)
(* wire it leaves what they may be.                                        *)
LEMMA SyncKeepsBot ==
    ASSUME TypeInv, BotUntouched, panel' \in Panels, wire' \in SUBSET Write
    PROVE  TypeInv'
BY DEF TypeInv, TypeOK, Started, InsideHolds, Holds, BotUntouched, local, history

LEMMA NotRunningType ==
    /\ NotRunning \in SyncRecord
    /\ NotRunning.at = "idle" /\ NotRunning.nodes = {} /\ NotRunning.todo = {}
BY DEF NotRunning, SyncRecord, Clients

(* Where the sync has a target, the target's record wants something of the *)
(* node it is at.                                                          *)
LEMMA TargetType ==
    ASSUME SyncInv, OnNode, NEW c \in sync.todo
    PROVE  /\ c \in Client /\ sync.node \in Node
           /\ sync.loaded[c] \in Record
           /\ Targets(sync.loaded[c], sync.node) \in SUBSET Tag
           /\ Targets(sync.loaded[c], sync.node) # {}
           /\ PushedSub(c) = EffectiveSubId(c, sync.loaded[c])
           /\ PushedSub(c) \in SubId
<1>1. c \in Client /\ sync.node \in Node
  BY DEF SyncInv, SyncTypes, Working, SyncRecord
<1>2. sync.loaded[c] \in Record \cup {NoRecord}
  BY <1>1 DEF SyncInv, SyncTypes, SyncRecord, Clients
<1>3. Targets(sync.loaded[c], sync.node) # {}
  BY DEF SyncInv, Working, PlanOf
<1>4. sync.loaded[c] \in Record
  BY <1>2, <1>3 DEF Targets
<1> QED BY <1>1, <1>3, <1>4, TargetsAreTags, EffectiveIsSubId DEF PushedSub

LEMMA SyncWriteType ==
    ASSUME SyncInv, OnNode, NEW c \in sync.todo
    PROVE  SyncWrite(c) \in Write /\ SyncWrite(c).client = c
BY TargetType DEF SyncWrite, Write

(* To be about to write is to be on a node, with this client to do.        *)
LEMMA WritingPlace ==
    ASSUME SyncInv, NEW c \in Client, Creates(c) \/ Updates(c) \/ Attaches(c)
    PROVE  OnNode /\ sync.at \in {"clients", c} /\ c \in sync.todo
BY SyncsAssumption DEF Creates, Updates, Attaches, Reconciling, OnNode

LEMMA NextTargetShape ==
    ASSUME SyncInv, OnNode, NEW c \in sync.todo, NEW F \in SUBSET Client,
           NextTarget(c, F)
    PROVE  /\ sync' \in SyncRecord
           /\ sync'.dry = sync.dry /\ sync'.loaded = sync.loaded
           /\ sync'.listed = sync.listed /\ sync'.node = sync.node
           /\ sync'.todo = sync.todo \ {c} /\ sync'.failed = sync.failed \cup F
           /\ IF sync'.todo = {}
              THEN sync'.at = "nodes" /\ sync'.nodes = sync.nodes \ {sync.node}
              ELSE sync'.at = "clients" /\ sync'.nodes = sync.nodes
BY DEF NextTarget, SyncInv, SyncTypes, SyncRecord

(* Once a target is done with, the rest is as it was.                      *)
LEMMA TargetDone ==
    ASSUME SyncInv, OnNode, NEW c \in sync.todo, NEW F \in SUBSET Client,
           sync.at \in {"clients", c}, NextTarget(c, F),
           panel' \in Panels, Keeps({<<sync.node, c>>}),
           wire' \in SUBSET Write, wire \subseteq wire',
           \A w \in wire' \ wire : w.client = c,
           UNCHANGED <<syncs, agreed, overtaken>>, BotUntouched,
           c \in agreed => Keeps({}) /\ wire' = wire,
           ~ sync.dry /\ c \notin sync.failed \cup F \cup overtaken =>
              AsRecorded(panel', sync.loaded[c], c, sync.node)
    PROVE  SyncInv'
<1>0. /\ sync' \in SyncRecord
      /\ sync'.dry = sync.dry /\ sync'.loaded = sync.loaded
      /\ sync'.listed = sync.listed /\ sync'.node = sync.node
      /\ sync'.todo = sync.todo \ {c} /\ sync'.failed = sync.failed \cup F
      /\ IF sync'.todo = {}
         THEN sync'.at = "nodes" /\ sync'.nodes = sync.nodes \ {sync.node}
         ELSE sync'.at = "clients" /\ sync'.nodes = sync.nodes
      /\ c \in Client /\ sync.node \in Node
  BY NextTargetShape, TargetType
<1> USE <1>0
<1>1. TypeInv'
  BY SyncKeepsBot DEF SyncInv
<1>2. file' = file
  BY DEF BotUntouched
<1>3. SyncTypes'
  BY <1>2 DEF SyncInv, SyncTypes
<1>4. Working'
  <2>1. \A n \in sync'.nodes : PlanOf(sync'.loaded, n) # {}
    BY DEF SyncInv, Working
  <2>2. sync'.todo \subseteq PlanOf(sync'.loaded, sync'.node)
    BY DEF SyncInv, Working
  <2>3. sync'.at \notin Client
    BY SyncsAssumption
  <2>4. sync'.at \notin {"idle", "nodes"} => sync'.node \in sync'.nodes /\ sync'.todo # {}
    BY DEF SyncInv, Working
  <2> QED BY <2>1, <2>2, <2>3, <2>4 DEF Working, OnNode
<1>5. AsListed'
  <2> SUFFICES ASSUME sync'.at = "clients", NEW d \in sync'.todo \ overtaken,
                      sync.listed[d] # Absent
               PROVE  /\ panel'[sync.node][d] # Absent
                      /\ sync.listed[d].on \subseteq panel'[sync.node][d].on
                      /\ panel'[sync.node][d].sub = sync.listed[d].sub
    BY SyncsAssumption DEF AsListed, OnNode, SyncRecord
  <2>1. d \in sync.todo \ overtaken /\ d # c /\ d \in Client
    BY DEF SyncRecord
  <2>2. sync.at # d
    BY <2>1, SyncsAssumption
  <2> QED BY <2>1, <2>2 DEF SyncInv, AsListed, Keeps
<1>6. AsPushed'
  <2> SUFFICES ASSUME ~ sync.dry,
                      NEW d \in Client \ (sync.failed \cup F \cup overtaken),
                      NEW n \in Node, DoneWith(d, n)'
               PROVE  AsRecorded(panel', sync.loaded[d], d, n)
    BY DEF AsPushed
  <2>1. CASE d = c /\ n = sync.node
    BY <2>1
  <2>2. CASE d # c \/ n # sync.node
    <3>1. DoneWith(d, n) \/ (n = sync.node /\ sync'.todo = {})
      BY <2>2 DEF DoneWith, OnNode
    <3>2. n = sync.node /\ sync'.todo = {} => DoneWith(d, n)
      BY <2>2 DEF DoneWith
    <3>3. AsRecorded(panel, sync.loaded[d], d, n)
      BY <3>1, <3>2 DEF SyncInv, AsPushed, OnNode
    <3>4. <<n, d>> \notin {<<sync.node, c>>}
      BY <2>2
    <3> QED BY <3>3, <3>4, RecordedStays
  <2> QED BY <2>1, <2>2
<1>7. StillAgreed'
  <2> SUFFICES ASSUME NEW d \in agreed
               PROVE  /\ \A n \in Node : AsRecorded(panel', file.clients[d], d, n)
                      /\ ~ Updating(d)'
                      /\ sync.loaded[d] = file.clients[d]
                      /\ Targets(sync.loaded[d], sync.node) # {} =>
                            /\ sync.listed[d] # Absent
                            /\ sync.listed[d].sub = EffectiveSubId(d, sync.loaded[d])
                            /\ Targets(sync.loaded[d], sync.node) \subseteq sync.listed[d].on
    BY <1>2 DEF StillAgreed
  <2>1. d \in Client /\ (d = c => Keeps({}) /\ wire' = wire)
    BY DEF SyncInv, SyncTypes
  <2>2. ASSUME NEW n \in Node PROVE AsRecorded(panel', file.clients[d], d, n)
    <3>1. AsRecorded(panel, file.clients[d], d, n)
      BY DEF SyncInv, StillAgreed
    <3>2. CASE d = c
      BY <2>1, <3>1, <3>2 DEF Keeps, AsRecorded
    <3>3. CASE d # c
      <4>1. <<n, d>> \notin {<<sync.node, c>>}
        BY <3>3
      <4> QED BY <2>1, <3>1, <4>1, RecordedStays
    <3> QED BY <3>2, <3>3
  <2>3. ~ Updating(d)'
    BY <2>1 DEF SyncInv, StillAgreed, Updating
  <2> QED BY <2>2, <2>3 DEF SyncInv, StillAgreed, OnNode
<1> QED BY <1>1, <1>3, <1>4, <1>5, <1>6, <1>7 DEF SyncInv
(* What the sync listed of its current target, unless an older update came *)
(* in between, is still so.                                                *)
LEMMA ListedStill ==
    ASSUME SyncInv, OnNode, NEW c \in sync.todo, c \notin overtaken,
           sync.listed[c] # Absent
    PROVE  /\ panel[sync.node][c] # Absent
           /\ sync.listed[c].on \subseteq panel[sync.node][c].on
           /\ sync.at # c => panel[sync.node][c].sub = sync.listed[c].sub
           /\ sync.at = c /\ ~ sync.dry =>
                 panel[sync.node][c].sub = EffectiveSubId(c, sync.loaded[c])
BY DEF SyncInv, AsListed

(* The sync has nothing to write for a client that is agreed on.           *)
LEMMA AgreedNeedsNothing ==
    ASSUME SyncInv, NEW c \in agreed, NEW d \in Client,
           Creates(d) \/ Updates(d) \/ Attaches(d)
    PROVE  d # c
<1>1. OnNode /\ d \in sync.todo
  BY WritingPlace
<1>2. PushedSub(d) = EffectiveSubId(d, sync.loaded[d])
      /\ Targets(sync.loaded[d], sync.node) # {}
  BY <1>1, TargetType
<1> QED
  BY <1>1, <1>2
     DEF SyncInv, StillAgreed, Creates, Updates, Attaches, NeedsUpdate, ToAttach

LEMMA SkipTarget ==
    ASSUME SyncInv, NEW c \in Client, InboundsMissing(c) \/ NothingToDo(c)
    PROVE  SyncInv'
<1>1. OnNode /\ c \in sync.todo /\ sync.at \in {"clients", c}
  BY DEF InboundsMissing, NothingToDo, Reconciling, OnNode
<1>2. /\ UNCHANGED <<panel, wire, syncs, agreed, overtaken>> /\ BotUntouched
      /\ Keeps({<<sync.node, c>>}) /\ Keeps({})
      /\ panel' \in Panels /\ wire' \in SUBSET Write
  BY SameKeeps, KeepsMore
     DEF InboundsMissing, NothingToDo, SyncInv, TypeInv, TypeOK
<1>3. CASE InboundsMissing(c)
  BY <1>1, <1>2, <1>3, TargetDone DEF InboundsMissing
<1>4. CASE NothingToDo(c)
  <2>1. c \notin overtaken => AsRecorded(panel', sync.loaded[c], c, sync.node)
    <3> SUFFICES ASSUME c \notin overtaken
                 PROVE  AsRecorded(panel', sync.loaded[c], c, sync.node)
      OBVIOUS
    <3>1. /\ sync.listed[c] # Absent /\ sync.at # c
          /\ sync.listed[c].sub = EffectiveSubId(c, sync.loaded[c])
          /\ Targets(sync.loaded[c], sync.node) \subseteq sync.listed[c].on
      BY <1>4, SyncsAssumption DEF NothingToDo, NeedsUpdate, PushedSub, ToAttach
    <3> QED BY <1>1, <1>2, <3>1, ListedStill DEF AsRecorded
  <2> QED BY <1>1, <1>2, <1>4, <2>1, TargetDone DEF NothingToDo
<1> QED BY <1>3, <1>4

LEMMA CreateInv ==
    ASSUME SyncInv, NEW c \in Client, CreateClient(c)
    PROVE  SyncInv'
<1>1. OnNode /\ c \in sync.todo /\ sync.at \in {"clients", c} /\ c \notin agreed
  BY WritingPlace, AgreedNeedsNothing DEF CreateClient
<1>2. /\ panel' \in Panels /\ Keeps({})
      /\ ~ sync.dry => AsRecorded(panel', sync.loaded[c], c, sync.node)
  <2>1. CASE sync.dry
    BY <2>1, SameKeeps DEF CreateClient, SyncInv, TypeInv, TypeOK
  <2>2. CASE ~ sync.dry
    BY <1>1, <2>2, AddKeeps, TargetType DEF CreateClient, AsRecorded, SyncInv, TypeInv
  <2> QED BY <2>1, <2>2
<1>3. /\ NextTarget(c, {}) /\ UNCHANGED <<wire, syncs, agreed, overtaken>>
      /\ BotUntouched /\ wire' \in SUBSET Write
  BY DEF CreateClient, SyncInv, TypeInv, TypeOK
<1>4. Keeps({<<sync.node, c>>})
  BY <1>2, KeepsMore
<1> QED BY <1>1, <1>2, <1>3, <1>4, TargetDone

LEMMA AttachInv ==
    ASSUME SyncInv, NEW c \in Client, AttachMissing(c)
    PROVE  SyncInv'
<1>1. OnNode /\ c \in sync.todo /\ sync.at \in {"clients", c} /\ c \notin agreed
  BY WritingPlace, AgreedNeedsNothing DEF AttachMissing
<1>2. /\ panel' \in Panels /\ Keeps({})
      /\ ~ sync.dry /\ c \notin overtaken =>
            AsRecorded(panel', sync.loaded[c], c, sync.node)
  <2>1. CASE sync.dry
    BY <2>1, SameKeeps DEF AttachMissing, SyncInv, TypeInv, TypeOK
  <2>2. CASE ~ sync.dry
    <3>1. ToAttach(c) \in SUBSET Tag
      BY <1>1, TargetType DEF ToAttach
    <3>2. /\ panel' \in Panels /\ Keeps({}) /\ panel'[sync.node][c] # Absent
          /\ panel'[sync.node][c].sub = panel[sync.node][c].sub
          /\ panel'[sync.node][c].on = panel[sync.node][c].on \cup ToAttach(c)
      BY <1>1, <2>2, <3>1, AttachKeeps, TargetType DEF AttachMissing, SyncInv, TypeInv
    <3>3. ASSUME c \notin overtaken
          PROVE  AsRecorded(panel', sync.loaded[c], c, sync.node)
      <4>1. /\ sync.listed[c] # Absent
            /\ sync.at # c => sync.listed[c].sub = EffectiveSubId(c, sync.loaded[c])
        BY DEF AttachMissing, Attaches, NeedsUpdate, PushedSub
      <4>2. /\ sync.listed[c].on \subseteq panel[sync.node][c].on
            /\ panel[sync.node][c].sub = EffectiveSubId(c, sync.loaded[c])
        BY <1>1, <2>2, <3>3, <4>1, ListedStill
      <4> QED BY <3>2, <4>2 DEF AsRecorded, ToAttach
    <3> QED BY <3>2, <3>3
  <2> QED BY <2>1, <2>2
<1>3. /\ NextTarget(c, {}) /\ UNCHANGED <<wire, syncs, agreed, overtaken>>
      /\ BotUntouched /\ wire' \in SUBSET Write
  BY DEF AttachMissing, SyncInv, TypeInv, TypeOK
<1>4. Keeps({<<sync.node, c>>})
  BY <1>2, KeepsMore
<1> QED BY <1>1, <1>2, <1>3, <1>4, TargetDone

LEMMA WriteFailsInv ==
    ASSUME SyncInv, NEW c \in Client, WriteFails(c)
    PROVE  SyncInv'
<1>1. Creates(c) \/ Updates(c) \/ Attaches(c)
  BY DEF WriteFails, Writing
<1>2. OnNode /\ c \in sync.todo /\ sync.at \in {"clients", c} /\ c \notin agreed
  BY <1>1, WritingPlace, AgreedNeedsNothing
<1>3. /\ wire' \in SUBSET Write /\ wire \subseteq wire'
      /\ \A w \in wire' \ wire : w.client = c
  BY <1>2, SyncWriteType DEF WriteFails, SyncInv, TypeInv, TypeOK
<1>4. /\ NextTarget(c, {c}) /\ UNCHANGED <<panel, syncs, agreed, overtaken>>
      /\ BotUntouched /\ panel' \in Panels
  BY DEF WriteFails, SyncInv, TypeInv, TypeOK
<1>5. Keeps({<<sync.node, c>>})
  BY <1>4, SameKeeps, KeepsMore
<1> QED BY <1>2, <1>3, <1>4, <1>5, TargetDone
LEMMA UpdateInv ==
    ASSUME SyncInv, NEW c \in Client, UpdateClient(c)
    PROVE  SyncInv'
<1>1. /\ OnNode /\ c \in sync.todo /\ sync.at = "clients" /\ c \notin agreed
      /\ sync.listed[c] # Absent
  BY WritingPlace, AgreedNeedsNothing DEF UpdateClient, Updates
<1>2. /\ panel' \in Panels /\ Keeps({<<sync.node, c>>})
      /\ panel[sync.node][c] # Absent =>
            panel'[sync.node][c] # Absent /\ panel[sync.node][c].on \subseteq panel'[sync.node][c].on
      /\ ~ sync.dry =>
            /\ panel[sync.node][c] # Absent
            /\ panel'[sync.node][c].sub = EffectiveSubId(c, sync.loaded[c])
  <2>1. CASE sync.dry
    BY <2>1, SameKeeps, KeepsMore DEF UpdateClient, SyncInv, TypeInv, TypeOK
  <2>2. CASE ~ sync.dry
    BY <1>1, <2>2, UpdateKeeps, TargetType DEF UpdateClient, SyncInv, TypeInv
  <2> QED BY <2>1, <2>2
<1>3. /\ UNCHANGED <<wire, syncs, agreed, overtaken>> /\ BotUntouched
      /\ wire' \in SUBSET Write
  BY DEF UpdateClient, SyncInv, TypeInv, TypeOK
<1>4. CASE ToAttach(c) = {}
  <2>1. NextTarget(c, {})
    BY <1>4 DEF UpdateClient
  <2>2. ~ sync.dry /\ c \notin overtaken =>
           AsRecorded(panel', sync.loaded[c], c, sync.node)
    <3> SUFFICES ASSUME ~ sync.dry, c \notin overtaken
                 PROVE  AsRecorded(panel', sync.loaded[c], c, sync.node)
      OBVIOUS
    <3>1. sync.listed[c].on \subseteq panel[sync.node][c].on
      BY <1>1, ListedStill
    <3> QED BY <1>2, <1>4, <3>1 DEF AsRecorded, ToAttach
  <2> QED BY <1>1, <1>2, <1>3, <2>1, <2>2, TargetDone
<1>5. CASE ToAttach(c) # {}
  <2>1. sync' = [sync EXCEPT !.at = c]
    BY <1>5 DEF UpdateClient
  <2>2. /\ sync' \in SyncRecord /\ sync'.at = c
        /\ sync'.dry = sync.dry /\ sync'.loaded = sync.loaded
        /\ sync'.listed = sync.listed /\ sync'.node = sync.node
        /\ sync'.todo = sync.todo /\ sync'.failed = sync.failed
        /\ sync'.nodes = sync.nodes /\ c \notin {"idle", "nodes", "clients"}
        /\ sync.node \in Node
    BY <1>1, <2>1, TargetType, SyncsAssumption DEF SyncInv, SyncTypes, SyncRecord
  <2>3. TypeInv'
    BY <1>2, <1>3, SyncKeepsBot DEF SyncInv
  <2>4. SyncTypes' /\ Working'
    BY <1>1, <1>3, <2>2 DEF SyncInv, SyncTypes, Working, OnNode, BotUntouched
  <2>5. AsListed'
    <3> SUFFICES ASSUME NEW d \in sync.todo \ overtaken, sync.listed[d] # Absent
                 PROVE  /\ panel'[sync.node][d] # Absent
                        /\ sync.listed[d].on \subseteq panel'[sync.node][d].on
                        /\ IF c = d
                           THEN \/ sync.dry
                                \/ panel'[sync.node][d].sub = EffectiveSubId(d, sync.loaded[d])
                           ELSE panel'[sync.node][d].sub = sync.listed[d].sub
      BY <1>3, <2>2 DEF AsListed
    <3>1. d \in Client /\ sync.at # d
      BY <1>1, SyncsAssumption DEF SyncInv, SyncTypes, SyncRecord
    <3>2. /\ panel[sync.node][d] # Absent
          /\ sync.listed[d].on \subseteq panel[sync.node][d].on
          /\ panel[sync.node][d].sub = sync.listed[d].sub
      BY <1>1, <3>1, ListedStill
    <3>3. c # d => <<sync.node, d>> \notin {<<sync.node, c>>}
      OBVIOUS
    <3> QED BY <1>2, <2>2, <3>1, <3>2, <3>3 DEF Keeps
  <2>6. AsPushed'
    <3> SUFFICES ASSUME ~ sync.dry,
                        NEW d \in Client \ (sync.failed \cup overtaken),
                        NEW n \in Node, DoneWith(d, n)'
                 PROVE  AsRecorded(panel', sync.loaded[d], d, n)
      BY <1>3, <2>2 DEF AsPushed
    <3>1. DoneWith(d, n) /\ <<n, d>> \notin {<<sync.node, c>>}
      BY <1>1, <2>2 DEF DoneWith, OnNode, SyncInv, Working
    <3>2. AsRecorded(panel, sync.loaded[d], d, n)
      BY <1>1, <3>1 DEF SyncInv, AsPushed, OnNode
    <3> QED BY <1>2, <3>1, <3>2, RecordedStays
  <2>7. StillAgreed'
    <3> SUFFICES ASSUME NEW d \in agreed
                 PROVE  \A n \in Node : AsRecorded(panel', file.clients[d], d, n)
      BY <1>1, <1>3, <2>2
         DEF SyncInv, StillAgreed, Updating, OnNode, BotUntouched
    <3> SUFFICES ASSUME NEW n \in Node
                 PROVE  AsRecorded(panel', file.clients[d], d, n)
      OBVIOUS
    <3>1. d \in Client /\ <<n, d>> \notin {<<sync.node, c>>}
      BY <1>1 DEF SyncInv, SyncTypes
    <3>2. AsRecorded(panel, file.clients[d], d, n)
      BY DEF SyncInv, StillAgreed
    <3> QED BY <1>2, <3>1, <3>2, RecordedStays
  <2> QED BY <2>3, <2>4, <2>5, <2>6, <2>7 DEF SyncInv
<1> QED BY <1>4, <1>5

LEMMA BeginSyncInv ==
    ASSUME SyncInv, NEW dry \in BOOLEAN, SyncBegin(dry)
    PROVE  SyncInv'
<1> DEFINE plans == {n \in Node : PlanOf(file.clients, n) # {}}
<1>1. /\ sync' = [NotRunning EXCEPT !.at = "nodes", !.dry = dry,
                                    !.loaded = file.clients, !.nodes = plans]
      /\ syncs < MaxSyncs /\ syncs' = syncs + 1 /\ overtaken' = {}
      /\ UNCHANGED <<panel, wire, agreed>> /\ BotUntouched
  BY DEF SyncBegin
<1>2. file.clients \in Clients /\ plans \in SUBSET Node
  BY DEF SyncInv, TypeInv, TypeOK, File
<1>3. /\ sync' \in SyncRecord /\ sync'.at = "nodes" /\ sync'.todo = {}
      /\ sync'.loaded = file.clients /\ sync'.nodes = plans
  BY <1>1, <1>2, NotRunningType DEF SyncRecord
<1>4. TypeInv'
  BY <1>1, SyncKeepsBot DEF SyncInv, TypeInv, TypeOK
<1>5. SyncTypes'
  BY <1>1, <1>3, SyncsAssumption DEF SyncInv, SyncTypes, BotUntouched
<1>6. Working' /\ AsListed'
  BY <1>3, SyncsAssumption DEF Working, AsListed, OnNode
<1>7. AsPushed'
  BY <1>1, <1>3 DEF AsPushed, DoneWith, OnNode, AsRecorded, PlanOf
<1>8. StillAgreed'
  BY <1>1, <1>3 DEF SyncInv, StillAgreed, Updating, OnNode, BotUntouched
<1> QED BY <1>4, <1>5, <1>6, <1>7, <1>8 DEF SyncInv
LEMMA ListNodeInv ==
    ASSUME SyncInv, NEW n \in Node, ListNode(n)
    PROVE  SyncInv'
<1>1. /\ sync.at = "nodes" /\ n \in sync.nodes
      /\ sync' = [sync EXCEPT !.at = "clients", !.node = n, !.listed = panel[n],
                              !.todo = PlanOf(sync.loaded, n)]
      /\ UNCHANGED <<panel, wire, syncs, agreed, overtaken>> /\ BotUntouched
  BY DEF ListNode
<1>2. panel[n] \in [Client -> Entry \cup {Absent}] /\ PlanOf(sync.loaded, n) \in SUBSET Client
  BY DEF SyncInv, TypeInv, TypeOK, Panels, PlanOf
<1>3. /\ sync' \in SyncRecord /\ sync'.at = "clients" /\ sync'.node = n
      /\ sync'.todo = PlanOf(sync.loaded, n) /\ sync'.listed = panel[n]
      /\ sync'.dry = sync.dry /\ sync'.loaded = sync.loaded
      /\ sync'.nodes = sync.nodes /\ sync'.failed = sync.failed
  BY <1>1, <1>2 DEF SyncInv, SyncTypes, SyncRecord
<1>4. TypeInv'
  BY <1>1, SyncKeepsBot DEF SyncInv, TypeInv, TypeOK
<1>5. SyncTypes'
  BY <1>1, <1>3 DEF SyncInv, SyncTypes, BotUntouched
<1>6. Working'
  BY <1>1, <1>3, SyncsAssumption DEF SyncInv, Working, OnNode
<1>7. AsListed'
  BY <1>1, <1>2, <1>3, SyncsAssumption DEF AsListed, OnNode
<1>8. AsPushed'
  <2> SUFFICES ASSUME ~ sync.dry,
                      NEW c \in Client \ (sync.failed \cup overtaken),
                      NEW m \in Node, DoneWith(c, m)'
               PROVE  AsRecorded(panel, sync.loaded[c], c, m)
    BY <1>1, <1>3 DEF AsPushed
  <2>1. CASE m \notin sync.nodes
    BY <1>1, <2>1 DEF SyncInv, AsPushed, DoneWith
  <2>2. CASE m = n /\ c \notin PlanOf(sync.loaded, n)
    BY <2>2 DEF PlanOf, AsRecorded
  <2> QED BY <1>3, <2>1, <2>2 DEF DoneWith
<1>9. StillAgreed'
  <2> SUFFICES ASSUME NEW c \in agreed, Targets(sync.loaded[c], n) # {}
               PROVE  /\ panel[n][c] # Absent
                      /\ panel[n][c].sub = EffectiveSubId(c, sync.loaded[c])
                      /\ Targets(sync.loaded[c], n) \subseteq panel[n][c].on
    BY <1>1, <1>3 DEF SyncInv, StillAgreed, Updating, OnNode, BotUntouched
  <2> QED BY <1>1 DEF SyncInv, StillAgreed, AsRecorded
<1> QED BY <1>4, <1>5, <1>6, <1>7, <1>8, <1>9 DEF SyncInv

LEMMA NodeFailsInv ==
    ASSUME SyncInv, NEW n \in Node, NodeFails(n)
    PROVE  SyncInv'
<1>1. /\ sync.at = "nodes" /\ n \in sync.nodes
      /\ sync' = [sync EXCEPT !.nodes = @ \ {n},
                              !.failed = @ \cup PlanOf(sync.loaded, n)]
      /\ UNCHANGED <<panel, wire, syncs, agreed, overtaken>> /\ BotUntouched
  BY DEF NodeFails
<1>2. PlanOf(sync.loaded, n) \in SUBSET Client
  BY DEF PlanOf
<1>3. /\ sync' \in SyncRecord /\ sync'.at = "nodes" /\ sync'.node = sync.node
      /\ sync'.todo = sync.todo /\ sync'.dry = sync.dry
      /\ sync'.loaded = sync.loaded /\ sync'.nodes = sync.nodes \ {n}
      /\ sync'.failed = sync.failed \cup PlanOf(sync.loaded, n)
  BY <1>1, <1>2 DEF SyncInv, SyncTypes, SyncRecord
<1>4. TypeInv'
  BY <1>1, SyncKeepsBot DEF SyncInv, TypeInv, TypeOK
<1>5. SyncTypes'
  BY <1>1, <1>3 DEF SyncInv, SyncTypes, BotUntouched
<1>6. Working' /\ AsListed'
  BY <1>1, <1>3, SyncsAssumption DEF SyncInv, Working, AsListed, OnNode
<1>7. AsPushed'
  <2> SUFFICES ASSUME ~ sync.dry,
                      NEW c \in Client \ (sync'.failed \cup overtaken),
                      NEW m \in Node, DoneWith(c, m)'
               PROVE  AsRecorded(panel, sync.loaded[c], c, m)
    BY <1>1, <1>3 DEF AsPushed
  <2>1. CASE m = n
    BY <1>3, <2>1 DEF PlanOf, AsRecorded
  <2>2. CASE m \notin sync.nodes
    BY <1>1, <1>3, <2>2 DEF SyncInv, AsPushed, DoneWith
  <2> QED BY <1>3, <2>1, <2>2 DEF DoneWith, OnNode
<1>8. StillAgreed'
  BY <1>1, <1>3 DEF SyncInv, StillAgreed, Updating, OnNode, BotUntouched
<1> QED BY <1>4, <1>5, <1>6, <1>7, <1>8 DEF SyncInv

(* The sync stops: it ends, or it dies.                                    *)
LEMMA StopInv ==
    ASSUME SyncInv, sync.at # "idle", sync' = NotRunning, BotUntouched,
           UNCHANGED <<panel, syncs, overtaken>>, wire' \in SUBSET Write,
           agreed' \subseteq {c \in Client : file.clients[c] # NoRecord},
           \A c \in agreed' :
              /\ \A n \in Node : AsRecorded(panel, file.clients[c], c, n)
              /\ ~ Updating(c)'
    PROVE  SyncInv'
<1>1. TypeInv'
  BY SyncKeepsBot DEF SyncInv, TypeInv, TypeOK
<1>2. SyncTypes' /\ Working' /\ AsListed' /\ AsPushed'
  BY NotRunningType, SyncsAssumption
     DEF SyncInv, SyncTypes, Working, AsListed, AsPushed, OnNode, BotUntouched
<1>3. StillAgreed'
  BY NotRunningType DEF StillAgreed, OnNode, BotUntouched
<1> QED BY <1>1, <1>2, <1>3 DEF SyncInv

LEMMA EndInv ==
    ASSUME SyncInv, SyncEnd
    PROVE  SyncInv'
<1>1. /\ sync.at = "nodes" /\ sync.nodes = {} /\ sync' = NotRunning
      /\ UNCHANGED <<panel, wire, syncs, overtaken>> /\ BotUntouched
  BY DEF SyncEnd
<1>2. ASSUME NEW c \in agreed'
      PROVE  /\ c \in Client /\ file.clients[c] # NoRecord
             /\ \A n \in Node : AsRecorded(panel, file.clients[c], c, n)
             /\ ~ Updating(c)'
  <2>1. Updating(c)' <=> Updating(c)
    BY <1>1 DEF Updating
  <2>2. CASE c \in agreed
    BY <2>1, <2>2 DEF SyncInv, SyncTypes, StillAgreed
  <2>3. CASE c \notin agreed
    <3>1. /\ c \in Client \ (sync.failed \cup overtaken) /\ ~ sync.dry
          /\ sync.loaded[c] # NoRecord /\ sync.loaded[c] = file.clients[c]
          /\ ~ Updating(c)
      BY <1>2, <2>3 DEF SyncEnd
    <3> QED BY <1>1, <2>1, <3>1 DEF SyncInv, AsPushed, DoneWith
  <2> QED BY <2>2, <2>3
<1>3. wire' \in SUBSET Write
  BY <1>1 DEF SyncInv, TypeInv, TypeOK
<1> QED BY <1>1, <1>2, <1>3, StopInv

LEMMA DiesInv ==
    ASSUME SyncInv, SyncDies
    PROVE  SyncInv'
<1>1. /\ sync.at # "idle" /\ sync' = NotRunning
      /\ UNCHANGED <<panel, syncs, agreed, overtaken>> /\ BotUntouched
  BY DEF SyncDies
<1>2. wire' = wire \/ \E d \in Client : Writing(d) /\ wire' = wire \cup {SyncWrite(d)}
  BY DEF SyncDies
<1>3. ASSUME NEW d \in Client, Writing(d)
      PROVE  SyncWrite(d) \in Write /\ SyncWrite(d).client = d /\ d \notin agreed
  BY <1>3, WritingPlace, SyncWriteType, AgreedNeedsNothing DEF Writing
<1>4. wire' \in SUBSET Write
  BY <1>2, <1>3 DEF SyncInv, TypeInv, TypeOK
<1>5. \A c \in agreed : ~ Updating(c)'
  BY <1>2, <1>3 DEF SyncInv, StillAgreed, Updating
<1> QED BY <1>1, <1>4, <1>5, StopInv DEF SyncInv, SyncTypes, StillAgreed
(* What others do while the sync stands still: at most an older update     *)
(* comes late, and then its client is not one that is agreed on.           *)
LEMMA MeanwhileInv ==
    ASSUME SyncInv, TypeInv', UNCHANGED <<sync, syncs>>,
           NEW X, Keeps(X), overtaken' \subseteq Client, overtaken \subseteq overtaken',
           \A n \in Node, c \in Client : <<n, c>> \in X => c \in overtaken' \ agreed,
           \A c \in Client : Updating(c)' => Updating(c),
           agreed' \subseteq {c \in agreed : file'.clients[c] = file.clients[c]}
    PROVE  SyncInv'
<1>1. SyncTypes' /\ Working'
  BY DEF SyncInv, SyncTypes, Working, OnNode
<1>2. AsListed'
  <2> SUFFICES ASSUME OnNode, NEW c \in sync.todo \ overtaken',
                      sync.listed[c] # Absent
               PROVE  /\ panel'[sync.node][c] # Absent
                      /\ sync.listed[c].on \subseteq panel'[sync.node][c].on
                      /\ panel'[sync.node][c].sub = panel[sync.node][c].sub
    BY DEF SyncInv, AsListed, OnNode
  <2>1. c \in Client /\ sync.node \in Node /\ c \notin overtaken
    BY TargetType
  <2>2. panel[sync.node][c] # Absent /\ sync.listed[c].on \subseteq panel[sync.node][c].on
    BY <2>1, ListedStill
  <2>3. <<sync.node, c>> \notin X
    BY <2>1
  <2> QED BY <2>1, <2>2, <2>3 DEF Keeps
<1>3. AsPushed'
  <2> SUFFICES ASSUME sync.at # "idle", ~ sync.dry,
                      NEW c \in Client \ (sync.failed \cup overtaken'),
                      NEW n \in Node, DoneWith(c, n)
               PROVE  AsRecorded(panel', sync.loaded[c], c, n)
    BY DEF AsPushed, DoneWith, OnNode
  <2>1. AsRecorded(panel, sync.loaded[c], c, n)
    BY DEF SyncInv, AsPushed
  <2>2. <<n, c>> \notin X
    OBVIOUS
  <2> QED BY <2>1, <2>2, RecordedStays
<1>4. StillAgreed'
  <2> SUFFICES ASSUME NEW c \in agreed, file'.clients[c] = file.clients[c], NEW n \in Node
               PROVE  AsRecorded(panel', file.clients[c], c, n) /\ ~ Updating(c)'
    BY DEF SyncInv, SyncTypes, StillAgreed, OnNode
  <2>1. c \in Client /\ AsRecorded(panel, file.clients[c], c, n) /\ ~ Updating(c)
    BY DEF SyncInv, SyncTypes, StillAgreed
  <2>2. <<n, c>> \notin X
    BY <2>1
  <2> QED BY <2>1, <2>2, RecordedStays
<1> QED BY <1>1, <1>2, <1>3, <1>4 DEF SyncInv

LEMMA LateUpdateInv ==
    ASSUME SyncInv, LateUpdate
    PROVE  SyncInv'
<1>1. PICK w \in wire :
        /\ w.kind = "updating" /\ PanelUpdate(w.node, w.client, w.sub)
        /\ wire' = wire \ {w} /\ overtaken' = overtaken \cup {w.client}
        /\ UNCHANGED <<sync, syncs, agreed>> /\ BotUntouched
  BY DEF LateUpdate
<1>2. w \in Write
  BY DEF SyncInv, TypeInv, TypeOK
<1>3. panel' \in Panels /\ Keeps({<<w.node, w.client>>})
  BY <1>1, <1>2, UpdateKeeps DEF Write, SyncInv, TypeInv
<1>4. TypeInv'
  BY <1>1, <1>3, SyncKeepsBot DEF SyncInv, TypeInv, TypeOK
<1>5. w.client \in Client /\ w.client \notin agreed
  BY <1>1, <1>2 DEF Write, SyncInv, StillAgreed, Updating
<1>6. /\ overtaken' \subseteq Client /\ overtaken \subseteq overtaken'
      /\ \A n \in Node, c \in Client :
            <<n, c>> \in {<<w.node, w.client>>} => c \in overtaken' \ agreed
  BY <1>1, <1>5 DEF SyncInv, SyncTypes
<1>7. \A c \in Client : Updating(c)' => Updating(c)
  BY <1>1 DEF Updating
<1>8. agreed' \subseteq {c \in agreed : file'.clients[c] = file.clients[c]}
  BY <1>1 DEF BotUntouched
<1> QED BY <1>1, <1>3, <1>4, <1>6, <1>7, <1>8, MeanwhileInv

LEMMA BotInv ==
    ASSUME SyncInv, Next, UNCHANGED <<sync, syncs, overtaken>>,
           agreed' = {c \in agreed : file'.clients[c] = file.clients[c]}
    PROVE  SyncInv'
<1>1. TypeInv'
  BY NextTypeInv DEF SyncInv
<1>2. Keeps({}) /\ \A c \in Client : Updating(c)' => Updating(c)
  BY BotKeeps DEF SyncInv
<1>3. /\ \A n \in Node, c \in Client : <<n, c>> \in {} => c \in overtaken' \ agreed
      /\ overtaken' \subseteq Client /\ overtaken \subseteq overtaken'
  BY DEF SyncInv, SyncTypes
<1> QED BY <1>1, <1>2, <1>3, MeanwhileInv

LEMMA StutterInv ==
    ASSUME SyncInv, UNCHANGED <<vars, syncVars>>
    PROVE  SyncInv'
<1>1. UNCHANGED vars
  BY DEF vars
<1>2. TypeInv'
  BY <1>1, NextTypeInv DEF SyncInv
<1>3. Keeps({}) /\ \A c \in Client : Updating(c)' => Updating(c)
  BY <1>1, BotKeeps DEF SyncInv
<1>4. /\ UNCHANGED <<sync, syncs, agreed, overtaken>>
      /\ agreed' \subseteq {c \in agreed : file'.clients[c] = file.clients[c]}
      /\ \A n \in Node, c \in Client : <<n, c>> \in {} => c \in overtaken' \ agreed
      /\ overtaken' \subseteq Client /\ overtaken \subseteq overtaken'
  BY <1>1 DEF syncVars, vars, SyncInv, SyncTypes
<1> QED BY <1>2, <1>3, <1>4, MeanwhileInv

LEMMA InitSyncInv == SyncInit => SyncInv
<1> SUFFICES ASSUME SyncInit PROVE SyncInv
  OBVIOUS
<1>1. TypeInv
  BY InitTypeInv DEF SyncInit
<1>2. SyncTypes /\ Working /\ AsListed /\ AsPushed /\ StillAgreed
  BY NotRunningType, SyncsAssumption
     DEF SyncInit, SyncTypes, Working, AsListed, AsPushed, StillAgreed, OnNode
<1> QED BY <1>1, <1>2 DEF SyncInv

LEMMA NextSyncInv == SyncInv /\ [SyncNext]_<<vars, syncVars>> => SyncInv'
<1> SUFFICES ASSUME SyncInv, [SyncNext]_<<vars, syncVars>> PROVE SyncInv'
  OBVIOUS
<1>1. CASE UNCHANGED <<vars, syncVars>>  BY <1>1, StutterInv
<1>2. CASE LateUpdate                    BY <1>2, LateUpdateInv
<1>3. CASE Next /\ UNCHANGED <<sync, syncs, overtaken>>
           /\ agreed' = {c \in agreed : file'.clients[c] = file.clients[c]}
  BY <1>3, BotInv
<1>4. CASE SyncStep
  <2>1. ASSUME NEW dry \in BOOLEAN, SyncBegin(dry) PROVE SyncInv'
    BY <2>1, BeginSyncInv
  <2>2. ASSUME NEW n \in Node, ListNode(n) \/ NodeFails(n) PROVE SyncInv'
    BY <2>2, ListNodeInv, NodeFailsInv
  <2>3. ASSUME NEW c \in Client, InboundsMissing(c) \/ NothingToDo(c) PROVE SyncInv'
    BY <2>3, SkipTarget
  <2>4. ASSUME NEW c \in Client,
               CreateClient(c) \/ UpdateClient(c) \/ AttachMissing(c) \/ WriteFails(c)
        PROVE  SyncInv'
    BY <2>4, CreateInv, UpdateInv, AttachInv, WriteFailsInv
  <2>5. CASE SyncEnd \/ SyncDies
    BY <2>5, EndInv, DiesInv
  <2> QED BY <1>4, <2>1, <2>2, <2>3, <2>4, <2>5 DEF SyncStep
<1> QED BY <1>1, <1>2, <1>3, <1>4 DEF SyncNext

LEMMA SpecSyncInv == SyncSpec => []SyncInv
BY InitSyncInv, NextSyncInv, PTL DEF SyncSpec

-----------------------------------------------------------------------------
(* The variables of the sync keep to their types, and it works on targets  *)
(* of the records it loaded, on nodes it has not finished.                 *)
THEOREM SyncTypeCorrect == SyncSpec => []SyncTypeOK
<1>1. SyncInv => SyncTypeOK
  BY DEF SyncInv, SyncTypes, Working, SyncRecord, SyncTypeOK, OnNode
<1> QED BY <1>1, SpecSyncInv, PTL

(* A client of which a sync reported no error is on all its nodes as its   *)
(* record has it, until the record changes; clients that changed while it  *)
(* ran or were reached by an older run's late update excepted.             *)
THEOREM SyncAgrees == SyncSpec => []SyncedMeansAgreed
<1>1. SyncInv => SyncedMeansAgreed
  BY DEF SyncInv, StillAgreed, AsRecorded, SyncedMeansAgreed
<1> QED BY <1>1, SpecSyncInv, PTL

(* The next sync has no call to make for such a client.                    *)
THEOREM SecondSyncIdle == SyncSpec => []SyncedOnceIsEnough
<1>1. SyncInv => SyncedOnceIsEnough
  BY AgreedNeedsNothing DEF SyncInv, SyncTypes, SyncedOnceIsEnough, Writing
<1> QED BY <1>1, SpecSyncInv, PTL
-----------------------------------------------------------------------------
(* What a sync does to the panels *)

(* A step of the sync changes nothing, or, unless it is a dry run, the     *)
(* entry of its target on the node it is at.                               *)
LEMMA SyncStepChanges ==
    ASSUME SyncInv, SyncStep
    PROVE  /\ BotUntouched
           /\ \/ UNCHANGED panel
              \/ \E c \in sync.todo :
                    /\ OnNode /\ ~ sync.dry /\ Keeps({<<sync.node, c>>})
                    /\ \A n \in Node, d \in Client :
                          panel'[n][d] # panel[n][d] => n = sync.node /\ d = c
<1>1. ASSUME NEW c \in Client, CreateClient(c) \/ UpdateClient(c) \/ AttachMissing(c)
      PROVE  \/ UNCHANGED panel
             \/ /\ c \in sync.todo /\ OnNode /\ ~ sync.dry /\ Keeps({<<sync.node, c>>})
                /\ \A n \in Node, d \in Client :
                      panel'[n][d] # panel[n][d] => n = sync.node /\ d = c
  <2>1. CASE sync.dry
    BY <1>1, <2>1 DEF CreateClient, UpdateClient, AttachMissing
  <2>2. CASE ~ sync.dry
    <3>1. OnNode /\ c \in sync.todo
      BY <1>1, WritingPlace DEF CreateClient, UpdateClient, AttachMissing
    <3>2. /\ sync.node \in Node /\ PushedSub(c) \in SubId /\ ToAttach(c) \in SUBSET Tag
          /\ Targets(sync.loaded[c], sync.node) \in SUBSET Tag
      BY <3>1, TargetType DEF ToAttach
    <3>3. CASE CreateClient(c)
      <4>1. PanelAdd(sync.node, c, PushedSub(c), Targets(sync.loaded[c], sync.node))
        BY <2>2, <3>3 DEF CreateClient
      <4>2. Keeps({<<sync.node, c>>})
        BY <3>2, <4>1, AddKeeps, KeepsMore DEF SyncInv, TypeInv
      <4> QED
        BY <2>2, <3>1, <4>1, <4>2 DEF PanelAdd, SyncInv, TypeInv, TypeOK, Panels
    <3>4. CASE UpdateClient(c)
      <4>1. PanelUpdate(sync.node, c, PushedSub(c))
        BY <2>2, <3>4 DEF UpdateClient
      <4>2. Keeps({<<sync.node, c>>})
        BY <3>2, <4>1, UpdateKeeps DEF SyncInv, TypeInv
      <4> QED
        BY <2>2, <3>1, <4>1, <4>2 DEF PanelUpdate, SyncInv, TypeInv, TypeOK, Panels
    <3>5. CASE AttachMissing(c)
      <4>1. PanelAttach(sync.node, c, ToAttach(c))
        BY <2>2, <3>5 DEF AttachMissing
      <4>2. Keeps({<<sync.node, c>>})
        BY <3>2, <4>1, AttachKeeps, KeepsMore DEF SyncInv, TypeInv
      <4> QED
        BY <2>2, <3>1, <4>1, <4>2 DEF PanelAttach, SyncInv, TypeInv, TypeOK, Panels
    <3> QED BY <1>1, <3>3, <3>4, <3>5
  <2> QED BY <2>1, <2>2
<1>2. CASE \E c \in Client : CreateClient(c) \/ UpdateClient(c) \/ AttachMissing(c)
  BY <1>1, <1>2 DEF CreateClient, UpdateClient, AttachMissing
<1>3. CASE \/ \E dry \in BOOLEAN : SyncBegin(dry)
           \/ \E n \in Node : ListNode(n) \/ NodeFails(n)
           \/ \E c \in Client : InboundsMissing(c) \/ NothingToDo(c) \/ WriteFails(c)
           \/ SyncEnd \/ SyncDies
  BY <1>3
     DEF SyncBegin, ListNode, NodeFails, InboundsMissing, NothingToDo, WriteFails,
         SyncEnd, SyncDies
<1> QED BY <1>2, <1>3 DEF SyncStep

(* The sync touches no client that data.json, as it was loaded, does not   *)
(* have; it takes none off an inbound; and a dry run changes no panel.     *)
THEOREM SyncMindsItsOwn == SyncSpec => SyncTouchesOnlyItsOwn
<1> DEFINE Own ==
      SyncStep =>
          \A c \in Client, n \in Node : panel'[n][c] # panel[n][c] =>
              /\ sync.loaded[c] # NoRecord /\ ~ sync.dry
              /\ panel[n][c] # Absent => panel[n][c].on \subseteq panel'[n][c].on
<1>1. SyncInv /\ [SyncNext]_<<vars, syncVars>> => [Own]_<<vars, syncVars>>
  <2> SUFFICES ASSUME SyncInv, SyncStep, NEW c \in Client, NEW n \in Node,
                      panel'[n][c] # panel[n][c]
               PROVE  /\ sync.loaded[c] # NoRecord /\ ~ sync.dry
                      /\ panel[n][c] # Absent => panel[n][c].on \subseteq panel'[n][c].on
    OBVIOUS
  <2>1. PICK d \in sync.todo :
          /\ OnNode /\ ~ sync.dry /\ Keeps({<<sync.node, d>>}) /\ c = d
    BY SyncStepChanges
  <2>2. sync.loaded[c] \in Record
    BY <2>1, TargetType
  <2> QED BY <2>1, <2>2, NamesAssumption DEF Keeps
<1> QED BY <1>1, SpecSyncInv, PTL DEF SyncSpec, SyncTouchesOnlyItsOwn

(* What the bot answered stands, whatever a sync does meanwhile: the       *)
(* client is attached to every inbound its record asks for.                *)
THEOREM AnswerStands == SyncSpec => []AnsweredMeansAttached
<1> DEFINE Both == SyncInv /\ AttachedInv
<1>1. SyncInit => Both
  BY InitSyncInv, InitAttached DEF SyncInit
<1>2. ASSUME Both, [SyncNext]_<<vars, syncVars>> PROVE AttachedInv'
  <2>1. TypeInv'
    BY <1>2, NextSyncInv DEF SyncInv
  <2>2. CASE [Next]_vars
    BY <1>2, <2>2, NextAttached
  <2>3. CASE SyncStep \/ LateUpdate
    <3>1. BotUntouched
      BY <1>2, <2>3, SyncStepChanges DEF LateUpdate
    <3>2. PanelGrows
      <4>1. CASE SyncStep
        BY <1>2, <4>1, SyncStepChanges, PanelSame DEF Keeps, PanelGrows, OnPanel
      <4>2. CASE LateUpdate
        <5>1. PICK w \in wire : PanelUpdate(w.node, w.client, w.sub)
          BY <4>2 DEF LateUpdate
        <5>2. w \in Write
          BY <1>2 DEF SyncInv, TypeInv, TypeOK
        <5>3. Keeps({<<w.node, w.client>>})
          BY <1>2, <5>1, <5>2, UpdateKeeps DEF Write, SyncInv, TypeInv
        <5> QED BY <5>3 DEF Keeps, PanelGrows, OnPanel
      <4> QED BY <2>3, <4>1, <4>2
    <3>3. \A q \in Request : LoopInv(q)'
      BY <1>2, <3>1, <3>2, SameLoop DEF BotUntouched, local
    <3> QED BY <2>1, <3>3 DEF AttachedInv
  <2> QED BY <1>2, <2>2, <2>3 DEF SyncNext, vars
<1>3. Both /\ [SyncNext]_<<vars, syncVars>> => Both'
  BY <1>2, NextSyncInv
<1>4. Both => AnsweredMeansAttached
  BY AttachedMeansAnswered
<1> QED BY <1>1, <1>3, <1>4, PTL DEF SyncSpec
-----------------------------------------------------------------------------
(* Ids and URLs beside a sync *)

(* A step is one of the service's own, or changes nothing it has.          *)
LEMMA BotOrSync ==
    ASSUME SyncInv, [SyncNext]_<<vars, syncVars>>
    PROVE  [Next]_vars \/ BotUntouched
<1>1. ASSUME SyncStep PROVE BotUntouched
  BY <1>1, SyncStepChanges
<1>2. ASSUME LateUpdate PROVE BotUntouched
  BY <1>2 DEF LateUpdate
<1> QED BY <1>1, <1>2 DEF SyncNext

LEMMA SyncKeepsIds ==
    SyncInv /\ SyncInv' /\ IdInv /\ [SyncNext]_<<vars, syncVars>> => IdInv'
<1> SUFFICES ASSUME SyncInv, SyncInv', IdInv, [SyncNext]_<<vars, syncVars>>
             PROVE  IdInv'
  OBVIOUS
<1>1. CASE [Next]_vars
  BY <1>1, NextIds
<1>2. CASE BotUntouched
  <2>1. /\ TypeInv' /\ file'.clients = file.clients /\ rolledBack' = rolledBack
        /\ UNCHANGED <<pc, snapshot, sub, who>>
    BY <1>2 DEF SyncInv, BotUntouched, local, history
  <2> QED BY <2>1, OtherIds
<1> QED BY <1>1, <1>2, BotOrSync

LEMMA SyncSpecIds == SyncSpec => []IdInv
<1>1. SyncInit => IdInv
  BY InitIds DEF SyncInit
<1> QED BY <1>1, SyncKeepsIds, SpecSyncInv, PTL DEF SyncSpec

(* A sync issues no ids and takes none: with any number of them at work,   *)
(* data.json keeps the registry's promise (sync/service.py writes to the   *)
(* panels only).                                                           *)
THEOREM RegistryBesideSyncs == SyncSpec => ImplementsRegistry
<1>1. SyncInit => Registry!Init
  BY RegistryInit DEF SyncInit
<1>2. SyncInv /\ IdInv /\ [SyncNext]_<<vars, syncVars>> => [Registry!Next]_IssuedIds
  <2> SUFFICES ASSUME SyncInv, IdInv, [SyncNext]_<<vars, syncVars>>
               PROVE  Registry!Next \/ IssuedIds' = IssuedIds
    OBVIOUS
  <2>1. CASE [Next]_vars
    BY <2>1, NextRegistry
  <2>2. CASE BotUntouched
    BY <2>2, RegistrySame DEF BotUntouched, history
  <2> QED BY <2>1, <2>2, BotOrSync
<1> QED
  BY <1>1, <1>2, SpecSyncInv, SyncSpecIds, PTL
  DEF SyncSpec, ImplementsRegistry, Registry!Spec

(* The URLs that were answered find their clients while syncs run, and a   *)
(* record keeps its tokens as UrlsStay has it: all of them if it has a     *)
(* subId, those of its legacy ids if it has none, and stale saves apart.   *)
THEOREM UrlsStayBesideSyncs == SyncSpec => []DeliveredUrlResolves /\ UrlsKept
<1>1. SyncSpec => []DeliveredUrlResolves
  BY SyncSpecIds, IdsDeliver, PTL
<1>2. SyncInv /\ IdInv /\ [SyncNext]_<<vars, syncVars>> => [UrlsSurvive]_vars
  <2> SUFFICES ASSUME SyncInv, IdInv, [SyncNext]_<<vars, syncVars>>
               PROVE  UrlsSurvive
    OBVIOUS
  <2>1. CASE [Next]_vars
    BY <2>1, NextUrls
  <2>2. CASE BotUntouched
    <3>1. file' = file
      BY <2>2 DEF BotUntouched
    <3>2. \A c \in Client, salted \in BOOLEAN : file.clients[c] # NoRecord =>
             {<<"id", i>> : i \in LegacyIds(c, file.clients[c])}
                \subseteq TokensWith(salted, c, file.clients[c])
      BY DEF TokensWith
    <3> QED BY <3>1, <3>2 DEF UrlsSurvive
  <2> QED BY <2>1, <2>2, BotOrSync
<1>3. SyncSpec => UrlsKept
  BY <1>2, SpecSyncInv, SyncSpecIds, PTL DEF SyncSpec, UrlsKept, UrlsSurvive
<1> QED BY <1>1, <1>3
=============================================================================
