------------------------- MODULE ProvisioningProofs -------------------------
(***************************************************************************)
(* What holds of Provisioning for every set of clients, requests, nodes    *)
(* and tags, and for every data.json it may start from.                    *)
(***************************************************************************)
EXTENDS Provisioning, TLAPS

-----------------------------------------------------------------------------
(* Type correctness *)

(* The tags a record asks for are tags of data.json.                       *)
LEMMA PlanType ==
    ASSUME NEW rec \in Record \cup {NoRecord}
    PROVE  ProvisionedTags(rec) \in Seq(Tag)
<1>1. OwnTags(rec) \in Seq(Tag)
  BY ConstantsAssumption, NamesAssumption DEF OwnTags, Record
<1>2. AbroadTags(rec) \in Seq(Tag)
  BY ConstantsAssumption, NamesAssumption DEF AbroadTags, Record
<1> QED BY <1>1, <1>2 DEF ProvisionedTags

(* A record that is written has the type of a record.                      *)
LEMMA RecordType ==
    ASSUME NEW c \in Client, NEW rec \in Record \cup {NoRecord},
           NEW s \in SubId \cup {None}
    PROVE  NextRecord(c, rec, s) \in Record
BY NamesAssumption DEF NextRecord, LegacySubId, Record, SubId

(* The subscription id of a request is one.                                *)
LEMMA FinalSubIdType ==
    ASSUME NEW r \in Request, NEW rec \in Record \cup {NoRecord}
    PROVE  FinalSubId(r, rec) \in SubId
BY NamesAssumption DEF FinalSubId, Record, SubId

(* A request that holds a lock is for some client, whose queue it heads.   *)
LEMMA HolderType ==
    ASSUME TypeOK, NEW r \in Request, Holds(r)
    PROVE  /\ who[r] \in Client
           /\ queue[who[r]] \in Seq(Request)
           /\ queue[who[r]] # <<>>
           /\ Head(queue[who[r]]) = r
BY DEF TypeOK, Holds

(* A panel's table stays one when a client is added or attached.           *)
LEMMA PanelType ==
    ASSUME TypeOK, NEW n \in Node, NEW c \in Client, NEW s \in SubId,
           NEW on \in SUBSET Tag,
           PanelAdd(n, c, s, on) \/ PanelAttach(n, c, on)
    PROVE  panel' \in Panels
<1>1. CASE PanelAdd(n, c, s, on)
  BY <1>1 DEF PanelAdd, TypeOK, Panels, Entry
<1>2. CASE PanelAttach(n, c, on)
  <2>1. panel[n][c] \in Entry
    BY <1>2 DEF PanelAttach, TypeOK, Panels
  <2>2. [panel[n][c] EXCEPT !.on = @ \cup on] \in Entry
    BY <2>1 DEF Entry
  <2> QED BY <1>2, <2>2 DEF PanelAttach, TypeOK, Panels
<1> QED BY <1>1, <1>2

(* A request that leaves its lock leaves the queues queues.                *)
LEMMA LeaveType ==
    ASSUME TypeOK, NEW r \in Request, Holds(r), NEW outcome \in PcValue,
           Leave(r, outcome)
    PROVE  /\ pc' \in [Request -> PcValue]
           /\ queue' \in [Client -> Seq(Request)]
           /\ snapshot' \in [Request -> File \cup {NoSnapshot}]
           /\ done' \in [Request -> SUBSET Node]
           /\ missing' \in [Request -> SUBSET Tag]
<1>1. Tail(queue[who[r]]) \in Seq(Request)
  BY HolderType
<1> QED BY <1>1, HolderType DEF TypeOK, Leave

(* How a request ends after its rename.                                    *)
Ended == {"done", "failed"}

LEMMA SaveLeaves ==
    ASSUME NEW r \in Request, SaveEnds(r)
    PROVE  \E outcome \in Ended :
              /\ Leave(r, outcome)
              /\ disturbed' \in {disturbed, disturbed \cup {who[r]}}
BY DEF SaveEnds, Ended

(* What a request may leave on the wire is a write.                        *)
LEMMA PendingWritesType ==
    ASSUME TypeOK, NEW r \in Request, who[r] \in Client, sub[r] \in SubId
    PROVE  PendingWrites(r) \subseteq Write
BY DEF PendingWrites, TypeOK, Write

(* A request past the lock has a client and an id.                         *)
Started ==
    \A r \in Request :
        /\ pc[r] # "idle" => who[r] \in Client
        /\ pc[r] \in InsideLock => sub[r] \in SubId /\ snapshot[r] \in File

(* A request past the lock is the one that holds it.                       *)
InsideHolds == \A r \in Request : pc[r] \in InsideLock => Holds(r)

TypeInv == TypeOK /\ Started /\ InsideHolds

LEMMA InitTypeInv == Init => TypeInv
<1> SUFFICES ASSUME Init PROVE TypeInv
  OBVIOUS
<1>1. PICK d \in InitialData :
         /\ file = [clients |-> d.clients, subscription |-> None]
         /\ panel = d.panel
         /\ live = d.live
  BY DEF Init
<1>2. d.clients \in Clients /\ d.panel \in Panels /\ d.live \in SUBSET Tag
  BY ConstantsAssumption
<1>3. TypeOK
  BY <1>1, <1>2, ConstantsAssumption
     DEF Init, TypeOK, File, PcValue, InsideLock
<1>4. Started /\ InsideHolds
  BY DEF Init, Started, InsideHolds, InsideLock
<1> QED BY <1>3, <1>4 DEF TypeInv

(* Queueing behind a lock, and leaving one's own, disturbs no other holder.*)
LEMMA EnqueueInv ==
    ASSUME TypeInv, NEW r \in Request, NEW c \in Client, Enqueue(r, c)
    PROVE  TypeInv'
<1> USE DEF TypeInv
<1>1. TypeOK'
  BY DEF TypeOK, Enqueue, PcValue, history
<1>2. Started'
  BY DEF Started, Enqueue, TypeOK, InsideLock
<1>3. InsideHolds'
  <2> SUFFICES ASSUME NEW q \in Request, pc'[q] \in InsideLock PROVE Holds(q)'
    BY DEF InsideHolds
  <2>1. q # r /\ pc[q] \in InsideLock
    BY DEF Enqueue, TypeOK, InsideLock
  <2>2. Holds(q)
    BY <2>1 DEF InsideHolds
  <2>3. queue[who[q]] \in Seq(Request) /\ who'[q] = who[q]
    BY <2>1, <2>2 DEF TypeOK, Enqueue, Holds
  <2>4. Append(queue[who[q]], r) # <<>> /\ Head(Append(queue[who[q]], r)) = q
    BY <2>2, <2>3 DEF Holds
  <2>5. queue'[who[q]] = queue[who[q]] \/ queue'[who[q]] = Append(queue[who[q]], r)
    BY <2>2 DEF Enqueue, TypeOK, Holds
  <2> QED BY <2>2, <2>3, <2>4, <2>5 DEF Holds
<1> QED BY <1>1, <1>2, <1>3

(* Steps of a request past the lock that stay past it.                     *)
LEMMA StayInv ==
    ASSUME TypeInv, TypeOK', NEW r \in Request, Holds(r),
           NEW p \in InsideLock, pc' = [pc EXCEPT ![r] = p],
           UNCHANGED <<queue, who>>,
           \A q \in Request : sub'[q] = sub[q] \/ sub'[q] \in SubId,
           \A q \in Request : snapshot'[q] = snapshot[q] \/ snapshot'[q] \in File,
           sub'[r] \in SubId, snapshot'[r] \in File
    PROVE  TypeInv'
BY DEF TypeInv, Started, InsideHolds, Holds, TypeOK, InsideLock

(* Steps that leave the lock.                                              *)
LEMMA LeaveInv ==
    ASSUME TypeInv, TypeOK', NEW r \in Request, Holds(r),
           NEW outcome \in Ended, Leave(r, outcome), UNCHANGED who,
           \A q \in Request \ {r} : sub'[q] = sub[q]
    PROVE  TypeInv'
<1> USE DEF Ended
<1>1. Started'
  BY DEF TypeInv, Started, Leave, TypeOK, InsideLock, Holds
<1>2. InsideHolds'
  <2> SUFFICES ASSUME NEW q \in Request, pc'[q] \in InsideLock PROVE Holds(q)'
    BY DEF InsideHolds
  <2>1. q # r /\ pc[q] \in InsideLock
    BY DEF Leave, TypeInv, TypeOK, InsideLock
  <2>2. Holds(q)
    BY <2>1 DEF InsideHolds, TypeInv
  <2>3. who[q] # who[r]
    BY <2>1, <2>2 DEF Holds
  <2> QED BY <2>2, <2>3 DEF Holds, Leave, TypeInv, TypeOK
<1> QED BY <1>1, <1>2 DEF TypeInv

LEMMA LoadInv ==
    ASSUME TypeInv, NEW r \in Request, Load(r)
    PROVE  TypeInv'
<1> DEFINE rec == file.clients[who[r]]
<1>1. who[r] \in Client /\ rec \in Record \cup {NoRecord} /\ Holds(r)
  BY DEF Load, Holds, TypeInv, TypeOK, File, Clients
<1>2. FinalSubId(r, rec) \in SubId /\ ProvisionedTags(rec) \in Seq(Tag)
  BY <1>1, FinalSubIdType, PlanType
<1> HIDE DEF rec
<1>3. /\ sub' = [sub EXCEPT ![r] = FinalSubId(r, rec)]
      /\ plan' = [plan EXCEPT ![r] = ProvisionedTags(rec)]
      /\ snapshot' = [snapshot EXCEPT ![r] = file]
      /\ pc' = [pc EXCEPT ![r] = "listing"]
      /\ UNCHANGED <<file, panel, live, queue, who, done, missing, wire,
                     crashes, history>>
  BY DEF Load, rec
<1>4. TypeOK'
  BY <1>2, <1>3 DEF TypeInv, TypeOK, PcValue, InsideLock, history
<1>5. sub'[r] \in SubId /\ snapshot'[r] \in File
  BY <1>2, <1>3 DEF TypeInv, TypeOK
<1>6. \A q \in Request : /\ sub'[q] = sub[q] \/ sub'[q] \in SubId
                         /\ snapshot'[q] = snapshot[q] \/ snapshot'[q] \in File
  BY <1>2, <1>3 DEF TypeInv, TypeOK
<1> QED BY <1>1, <1>3, <1>4, <1>5, <1>6, StayInv DEF InsideLock

LEMMA ProvisionNowhereInv ==
    ASSUME TypeInv, NEW r \in Request, ProvisionNowhere(r)
    PROVE  TypeInv'
<1> DEFINE rec == file.clients[who[r]]
           s == FinalSubId(r, rec)
           next == NextRecord(who[r], rec, s)
<1>1. who[r] \in Client /\ rec \in Record \cup {NoRecord} /\ Holds(r)
  BY DEF ProvisionNowhere, Holds, TypeInv, TypeOK, File, Clients
<1>2. s \in SubId /\ ProvisionedTags(rec) \in Seq(Tag)
  BY <1>1, FinalSubIdType, PlanType
<1>3. next \in Record
  BY <1>1, <1>2, RecordType
<1>4. /\ sub' = [sub EXCEPT ![r] = s]
      /\ plan' = [plan EXCEPT ![r] = ProvisionedTags(rec)]
      /\ file' = [file EXCEPT !.clients[who[r]] = next]
      /\ SaveEnds(r)
      /\ UNCHANGED <<panel, live, who, wire, crashes, announced, rolledBack>>
  BY DEF ProvisionNowhere
<1> HIDE DEF rec, s, next
<1>9. PICK outcome \in Ended :
        Leave(r, outcome) /\ disturbed' \in {disturbed, disturbed \cup {who[r]}}
  BY <1>4, SaveLeaves
<1>5. file' \in File
  BY <1>1, <1>3, <1>4 DEF TypeInv, TypeOK, File, Clients
<1>6. /\ pc' \in [Request -> PcValue]
      /\ queue' \in [Client -> Seq(Request)]
      /\ snapshot' \in [Request -> File \cup {NoSnapshot}]
      /\ done' \in [Request -> SUBSET Node]
      /\ missing' \in [Request -> SUBSET Tag]
  BY <1>1, <1>9, LeaveType DEF TypeInv, PcValue, Ended
<1>7. TypeOK'
  BY <1>1, <1>2, <1>4, <1>5, <1>6, <1>9 DEF TypeInv, TypeOK
<1>8. \A q \in Request \ {r} : sub'[q] = sub[q]
  BY <1>4 DEF TypeInv, TypeOK
<1> QED BY <1>1, <1>4, <1>7, <1>8, <1>9, LeaveInv

LEMMA RaiseInv ==
    ASSUME TypeInv, NEW r \in Request, Holds(r), Raise(r), wire' \in SUBSET Write
    PROVE  TypeInv'
<1>1. /\ pc' \in [Request -> PcValue]
      /\ queue' \in [Client -> Seq(Request)]
      /\ snapshot' \in [Request -> File \cup {NoSnapshot}]
      /\ done' \in [Request -> SUBSET Node]
      /\ missing' \in [Request -> SUBSET Tag]
  BY LeaveType DEF TypeInv, PcValue, Raise
<1>2. disturbed' \in SUBSET Client
  BY DEF Raise, Holds, TypeInv, TypeOK
<1>3. TypeOK'
  BY <1>1, <1>2 DEF Raise, TypeInv, TypeOK
<1> QED BY <1>3, LeaveInv DEF Raise, Ended

LEMMA PersistInv ==
    ASSUME TypeInv, NEW r \in Request, Persist(r)
    PROVE  TypeInv'
<1> DEFINE next == [snapshot[r].clients EXCEPT
                       ![who[r]] = NextRecord(who[r], @, sub[r])]
<1>1. Holds(r) /\ who[r] \in Client /\ sub[r] \in SubId /\ snapshot[r] \in File
  BY DEF Persist, TypeInv, Started, InsideHolds, InsideLock
<1>2. next \in Clients
  <2>1. snapshot[r].clients \in Clients
    BY <1>1 DEF File
  <2>2. NextRecord(who[r], snapshot[r].clients[who[r]], sub[r]) \in Record
    BY <1>1, <2>1, RecordType DEF Clients
  <2> QED BY <2>1, <2>2 DEF Clients
<1>3. /\ file' = [file EXCEPT !.clients = next]
      /\ rolledBack' = rolledBack \cup
             {c \in Client \ {who[r]} : next[c] # file.clients[c]}
      /\ SaveEnds(r)
      /\ UNCHANGED <<panel, live, who, sub, plan, wire, crashes, announced>>
  BY DEF Persist
<1> HIDE DEF next
<1>7. PICK outcome \in Ended :
        Leave(r, outcome) /\ disturbed' \in {disturbed, disturbed \cup {who[r]}}
  BY <1>3, SaveLeaves
<1>4. file' \in File /\ rolledBack' \in SUBSET Client
  BY <1>2, <1>3 DEF TypeInv, TypeOK, File
<1>5. /\ pc' \in [Request -> PcValue]
      /\ queue' \in [Client -> Seq(Request)]
      /\ snapshot' \in [Request -> File \cup {NoSnapshot}]
      /\ done' \in [Request -> SUBSET Node]
      /\ missing' \in [Request -> SUBSET Tag]
  BY <1>1, <1>7, LeaveType DEF TypeInv, PcValue, Ended
<1>6. TypeOK'
  BY <1>1, <1>3, <1>4, <1>5, <1>7 DEF TypeInv, TypeOK
<1> QED BY <1>1, <1>3, <1>6, <1>7, LeaveInv

LEMMA TargetsType ==
    ASSUME NEW p \in Seq(Tag), NEW n
    PROVE  TagsOf(p) \subseteq Tag /\ NodeTargets(p, n) \subseteq Tag
BY DEF TagsOf, NodeTargets

(* Facts about a request past its lock, whichever step it takes.           *)
LEMMA InsideType ==
    ASSUME TypeInv, NEW r \in Request, pc[r] \in InsideLock
    PROVE  Holds(r) /\ who[r] \in Client /\ sub[r] \in SubId /\ snapshot[r] \in File
BY DEF TypeInv, Started, InsideHolds, InsideLock

LEMMA FinishNodeType ==
    ASSUME TypeOK, NEW r \in Request, NEW n \in Node, FinishNode(r, n)
    PROVE  /\ done' \in [Request -> SUBSET Node]
           /\ missing' \in [Request -> SUBSET Tag]
           /\ \E p \in InsideLock : pc' = [pc EXCEPT ![r] = p]
BY DEF TypeOK, FinishNode, InsideLock

(* The steps of the loop over the nodes.                                   *)
LEMMA NodeStepInv ==
    ASSUME TypeInv, NEW r \in Request, pc[r] \in InsideLock,
           UNCHANGED <<file, live, queue, who, snapshot, sub, plan, wire,
                       crashes, history>>,
           panel' \in Panels,
           done' \in [Request -> SUBSET Node],
           missing' \in [Request -> SUBSET Tag],
           \E p \in InsideLock : pc' = [pc EXCEPT ![r] = p]
    PROVE  TypeInv'
<1>1. PICK p \in InsideLock : pc' = [pc EXCEPT ![r] = p]
  OBVIOUS
<1>2. TypeOK'
  BY <1>1 DEF TypeInv, TypeOK, PcValue, history
<1>3. Holds(r) /\ sub[r] \in SubId /\ snapshot[r] \in File
  BY InsideType
<1> QED BY <1>1, <1>2, <1>3, StayInv

LEMMA WorkInv ==
    ASSUME TypeInv, NEW r \in Request, Work(r)
    PROVE  TypeInv'
<1> USE DEF InsideLock
<1>1. CASE Load(r)              BY <1>1, LoadInv
<1>2. CASE ProvisionNowhere(r)  BY <1>2, ProvisionNowhereInv
<1>3. CASE ListInbounds(r)
  <2>1. panel' \in Panels /\ done' \in [Request -> SUBSET Node]
        /\ missing' \in [Request -> SUBSET Tag]
    BY <1>3 DEF ListInbounds, local, TypeInv, TypeOK
  <2> QED BY <1>3, <2>1, NodeStepInv DEF ListInbounds, local
<1>4. CASE InboundNotFound(r)
  BY <1>4, InsideType, RaiseInv DEF InboundNotFound, TypeInv, TypeOK
<1>5. CASE GetClientNone(r)
  <2>1. PICK n \in Node : missing' = [missing EXCEPT ![r] = NodeTargets(plan[r], n)]
    BY <1>5 DEF GetClientNone
  <2>2. missing' \in [Request -> SUBSET Tag]
    BY <2>1, TargetsType DEF TypeInv, TypeOK
  <2>3. panel' \in Panels /\ done' \in [Request -> SUBSET Node]
    BY <1>5 DEF GetClientNone, TypeInv, TypeOK
  <2> QED BY <1>5, <2>2, <2>3, NodeStepInv DEF GetClientNone
<1>6. CASE GetClientFound(r)
  <2> DEFINE lacking(n) == NodeTargets(plan[r], n) \ panel[n][who[r]].on
  <2>1. PICK n \in Node :
          \/ lacking(n) = {} /\ FinishNode(r, n)
          \/ /\ missing' = [missing EXCEPT ![r] = lacking(n)]
             /\ pc' = [pc EXCEPT ![r] = "attaching"]
             /\ UNCHANGED done
    BY <1>6 DEF GetClientFound
  <2>2. lacking(n) \in SUBSET Tag
    BY TargetsType DEF TypeInv, TypeOK
  <2> HIDE DEF lacking
  <2>3. /\ done' \in [Request -> SUBSET Node]
        /\ missing' \in [Request -> SUBSET Tag]
        /\ \E p \in InsideLock : pc' = [pc EXCEPT ![r] = p]
    BY <2>1, <2>2, FinishNodeType DEF TypeInv, TypeOK
  <2>4. panel' \in Panels
    BY <1>6 DEF GetClientFound, TypeInv, TypeOK
  <2> QED BY <1>6, <2>3, <2>4, NodeStepInv DEF GetClientFound
<1>7. CASE AddClient(r)
  <2>1. PICK n \in Node : PanelAdd(n, who[r], sub[r], missing[r]) /\ FinishNode(r, n)
    BY <1>7 DEF AddClient
  <2>2. panel' \in Panels
    BY <1>7, <2>1, PanelType, InsideType DEF AddClient, TypeInv, TypeOK
  <2> QED BY <1>7, <2>1, <2>2, FinishNodeType, NodeStepInv DEF AddClient, TypeInv
<1>8. CASE AttachClient(r)
  <2>1. PICK n \in Node : PanelAttach(n, who[r], missing[r]) /\ FinishNode(r, n)
    BY <1>8 DEF AttachClient
  <2>2. panel' \in Panels
    BY <1>8, <2>1, PanelType, InsideType DEF AttachClient, TypeInv, TypeOK
  <2> QED BY <1>8, <2>1, <2>2, FinishNodeType, NodeStepInv DEF AttachClient, TypeInv
<1>9. CASE Persist(r)  BY <1>9, PersistInv
<1>10. CASE Fail(r)
  BY <1>10, InsideType, RaiseInv DEF Fail, TypeInv, TypeOK
<1>11. CASE GiveUp(r)
  <2>1. PendingWrites(r) \subseteq Write
    BY <1>11, InsideType, PendingWritesType DEF GiveUp, TypeInv
  <2> QED BY <1>11, <2>1, InsideType, RaiseInv DEF GiveUp, TypeInv, TypeOK
<1> QED
  BY <1>1, <1>2, <1>3, <1>4, <1>5, <1>6, <1>7, <1>8, <1>9, <1>10, <1>11 DEF Work

LEMMA LateWriteInv ==
    ASSUME TypeInv, LateWrite
    PROVE  TypeInv'
<1>1. PICK w \in wire :
        /\ \/ PanelAdd(w.node, w.client, w.sub, w.on)
           \/ PanelAttach(w.node, w.client, w.on)
        /\ wire' = wire \ {w}
        /\ UNCHANGED <<file, live, queue, pc, local, crashes, history>>
  BY DEF LateWrite
<1>2. w \in Write
  BY DEF TypeInv, TypeOK
<1>3. panel' \in Panels
  BY <1>1, <1>2, PanelType DEF TypeInv, Write
<1> QED
  BY <1>1, <1>3
     DEF TypeInv, TypeOK, Started, InsideHolds, Holds, local, history

LEMMA AnnounceInv ==
    ASSUME TypeInv, Announce
    PROVE  TypeInv'
<1>1. TypeOK'
  BY DEF TypeInv, TypeOK, Announce, File, local
<1> QED
  BY <1>1 DEF TypeInv, Started, InsideHolds, Holds, Announce, local

LEMMA CrashInv ==
    ASSUME TypeInv, Crash
    PROVE  TypeInv'
<1> DEFINE dead == {r \in Request : pc[r] \in InsideLock \cup {"waiting"}}
<1>1. UNION {PendingWrites(r) : r \in dead} \subseteq Write
  <2> SUFFICES ASSUME NEW r \in dead, NEW w \in PendingWrites(r) PROVE w \in Write
    OBVIOUS
  <2>1. pc[r] \in InsideLock
    BY DEF PendingWrites, InsideLock
  <2> QED BY <2>1, InsideType, PendingWritesType DEF TypeInv
<1>2. {who[r] : r \in dead} \subseteq Client
  BY DEF TypeInv, Started, InsideLock
<1>3. /\ crashes' = crashes + 1 /\ crashes < MaxCrashes
      /\ pc' = [r \in Request |-> IF r \in dead THEN "failed" ELSE pc[r]]
      /\ snapshot' = [r \in Request |-> NoSnapshot]
      /\ wire' = wire \cup UNION {PendingWrites(r) : r \in dead}
      /\ disturbed' = disturbed \cup {who[r] : r \in dead}
      /\ queue' = [c \in Client |-> <<>>]
      /\ done' = [r \in Request |-> {}] /\ missing' = [r \in Request |-> {}]
      /\ UNCHANGED <<file, panel, live, who, sub, plan, announced, rolledBack>>
  BY DEF Crash
<1>4. crashes' \in 0..MaxCrashes
  BY <1>3, ConstantsAssumption DEF TypeInv, TypeOK
<1>5. pc' \in [Request -> PcValue]
  BY <1>3 DEF TypeInv, TypeOK, PcValue
<1>6. \A r \in Request : pc'[r] \notin InsideLock /\ (pc'[r] # "idle" => pc[r] # "idle")
  BY <1>3 DEF InsideLock
<1> HIDE DEF dead
<1>7. TypeOK'
  BY <1>1, <1>2, <1>3, <1>4, <1>5 DEF TypeInv, TypeOK
<1>8. Started' /\ InsideHolds'
  BY <1>3, <1>6 DEF TypeInv, Started, InsideHolds
<1> QED BY <1>7, <1>8 DEF TypeInv

LEMMA NextTypeInv == TypeInv /\ [Next]_vars => TypeInv'
<1> SUFFICES ASSUME TypeInv, [Next]_vars PROVE TypeInv'
  OBVIOUS
<1>1. CASE UNCHANGED vars
  BY <1>1
     DEF TypeInv, TypeOK, Started, InsideHolds, Holds, vars, local, history
<1>2. ASSUME NEW r \in Request, EnsureTelegramUser(r) PROVE TypeInv'
  BY <1>2, EnqueueInv DEF EnsureTelegramUser
<1>3. ASSUME NEW r \in Request, IssueManualClient(r) PROVE TypeInv'
  BY <1>3, EnqueueInv, ConstantsAssumption DEF IssueManualClient
<1>4. ASSUME NEW r \in Request, Work(r) PROVE TypeInv'
  BY <1>4, WorkInv
<1>5. CASE LateWrite  BY <1>5, LateWriteInv
<1>6. CASE Announce   BY <1>6, AnnounceInv
<1>7. CASE Crash      BY <1>7, CrashInv
<1> QED BY <1>1, <1>2, <1>3, <1>4, <1>5, <1>6, <1>7 DEF Next

LEMMA SpecTypeInv == Spec => []TypeInv
<1> QED BY InitTypeInv, NextTypeInv, PTL DEF Spec

(* Every variable of the service keeps to its type, whatever clients,      *)
(* nodes, tags and data.json it runs with.                                 *)
THEOREM TypeCorrect == Spec => []TypeOK
<1>1. TypeInv => TypeOK
  BY DEF TypeInv
<1> QED BY <1>1, SpecTypeInv, PTL

(* The per-client lock works: between its load and its save a request is   *)
(* alone on its client, through errors, timeouts and restarts.             *)
THEOREM LockExcludes == Spec => []OneRequestPerClient
<1>1. TypeInv => OneRequestPerClient
  BY DEF TypeInv, InsideHolds, Holds, OneRequestPerClient
<1> QED BY <1>1, SpecTypeInv, PTL

-----------------------------------------------------------------------------
(* What an answer guarantees on the panels *)

OnPanel(p, n, c, ts) == p[n][c] # Absent /\ ts \subseteq p[n][c].on

(* What the loop over the nodes has established so far, at each of its     *)
(* awaits: the inductive form of AnsweredMeansAttached.                    *)
LoopInv(r) ==
    /\ pc[r] \in {"idle", "waiting"} => done[r] = {}
    /\ pc[r] \in InsideLock =>
          \A n \in done[r] : OnPanel(panel, n, who[r], NodeTargets(plan[r], n))
    /\ pc[r] = "closing" => PlannedNodes(plan[r]) \subseteq done[r]
    /\ pc[r] = "done" => \A n \in PlannedNodes(plan[r]) :
          OnPanel(panel, n, who[r], NodeTargets(plan[r], n))
    /\ pc[r] = "adding" =>
          \A n \in Node : IsNextNode(r, n) => missing[r] = NodeTargets(plan[r], n)
    /\ pc[r] = "attaching" =>
          \A n \in Node : IsNextNode(r, n) =>
             OnPanel(panel, n, who[r], NodeTargets(plan[r], n) \ missing[r])

AttachedInv == TypeInv /\ \A r \in Request : LoopInv(r)

(* The next node is one: the loop does not choose.                         *)
LEMMA NextNodeUnique ==
    ASSUME NEW r, NEW n \in Node, NEW m \in Node,
           plan[r] \in Seq(Tag), IsNextNode(r, n), IsNextNode(r, m)
    PROVE  n = m
<1>1. PICK i \in 1..Len(plan[r]) :
        /\ NodeOf[plan[r][i]] = n
        /\ \A j \in 1..(i - 1) : NodeOf[plan[r][j]] \in done[r] \cup {External}
  BY DEF IsNextNode
<1>2. PICK k \in 1..Len(plan[r]) :
        /\ NodeOf[plan[r][k]] = m
        /\ \A j \in 1..(k - 1) : NodeOf[plan[r][j]] \in done[r] \cup {External}
  BY DEF IsNextNode
<1>3. n \notin done[r] \cup {External} /\ m \notin done[r] \cup {External}
  BY ConstantsAssumption DEF IsNextNode
<1>4. i \in Nat /\ k \in Nat /\ i >= 1 /\ k >= 1
  OBVIOUS
<1>5. ~(i < k)  BY <1>1, <1>2, <1>3, <1>4
<1>6. ~(k < i)  BY <1>1, <1>2, <1>3, <1>4
<1>7. i = k     BY <1>4, <1>5, <1>6
<1> QED BY <1>1, <1>2, <1>7

(* A panel never forgets: writes create clients and attach them.           *)
PanelGrows ==
    \A n \in Node, c \in Client, ts \in SUBSET Tag :
        OnPanel(panel, n, c, ts) => OnPanel(panel', n, c, ts)

LEMMA WriteGrows ==
    ASSUME TypeOK, NEW n \in Node, NEW c \in Client, NEW s \in SubId,
           NEW on \in SUBSET Tag
    PROVE  /\ PanelAdd(n, c, s, on) => PanelGrows /\ OnPanel(panel', n, c, on)
           /\ PanelAttach(n, c, on) =>
                PanelGrows /\ \A ts \in SUBSET Tag :
                   OnPanel(panel, n, c, ts) => OnPanel(panel', n, c, ts \cup on)
<1>1. ASSUME PanelAdd(n, c, s, on) PROVE PanelGrows /\ OnPanel(panel', n, c, on)
  <2>1. [sub |-> s, on |-> on] # Absent
    BY NamesAssumption DEF Entry
  <2> QED BY <1>1, <2>1 DEF PanelAdd, PanelGrows, OnPanel, TypeOK, Panels
<1>2. ASSUME PanelAttach(n, c, on)
      PROVE  PanelGrows /\ \A ts \in SUBSET Tag :
                OnPanel(panel, n, c, ts) => OnPanel(panel', n, c, ts \cup on)
  <2> DEFINE e == [panel[n][c] EXCEPT !.on = @ \cup on]
  <2>1. panel[n][c] \in Entry
    BY <1>2 DEF PanelAttach, TypeOK, Panels
  <2>2. e \in Entry /\ e # Absent /\ e.on = panel[n][c].on \cup on
    BY <2>1, NamesAssumption DEF Entry
  <2>3. /\ panel'[n][c] = e
        /\ \A m \in Node, d \in Client : m # n \/ d # c => panel'[m][d] = panel[m][d]
    BY <1>2 DEF PanelAttach, TypeOK, Panels
  <2> HIDE DEF e
  <2> QED BY <2>1, <2>2, <2>3 DEF PanelGrows, OnPanel
<1> QED BY <1>1, <1>2

LEMMA PanelSame == ASSUME UNCHANGED panel PROVE PanelGrows
BY DEF PanelGrows, OnPanel

LEMMA PlannedType ==
    ASSUME NEW p \in Seq(Tag)
    PROVE  PlannedNodes(p) \subseteq Node
BY ConstantsAssumption DEF PlannedNodes, TagsOf

(* Where a request stands is not disturbed by steps of others.             *)
LEMMA SameLoop ==
    ASSUME AttachedInv, PanelGrows, NEW q \in Request,
           pc'[q] = pc[q], who'[q] = who[q], plan'[q] = plan[q],
           done'[q] = done[q], missing'[q] = missing[q]
    PROVE  LoopInv(q)'
<1>1. \A n \in Node : IsNextNode(q, n)' = IsNextNode(q, n)
  BY DEF IsNextNode
<1>2. pc[q] \in InsideLock \cup {"done"} => who[q] \in Client
  BY DEF AttachedInv, TypeInv, Started, InsideLock
<1>3. \A n \in Node : NodeTargets(plan[q], n) \subseteq Tag
  BY TargetsType DEF AttachedInv, TypeInv, TypeOK
<1>4. LoopInv(q) /\ done[q] \subseteq Node /\ PlannedNodes(plan[q]) \subseteq Node
  BY PlannedType DEF AttachedInv, TypeInv, TypeOK
<1>5. \A n \in Node, ts \in SUBSET Tag : pc[q] \in InsideLock \cup {"done"} =>
         (OnPanel(panel, n, who[q], ts) => OnPanel(panel', n, who'[q], ts))
  BY <1>2 DEF PanelGrows
<1>6. /\ pc'[q] \in InsideLock =>
            \A n \in done'[q] : OnPanel(panel', n, who'[q], NodeTargets(plan'[q], n))
      /\ pc'[q] = "done" => \A n \in PlannedNodes(plan'[q]) :
            OnPanel(panel', n, who'[q], NodeTargets(plan'[q], n))
  BY <1>3, <1>4, <1>5 DEF LoopInv
<1>7. pc'[q] = "attaching" =>
         \A n \in Node : IsNextNode(q, n)' =>
            OnPanel(panel', n, who'[q], NodeTargets(plan'[q], n) \ missing'[q])
  <2> SUFFICES ASSUME pc[q] = "attaching", NEW n \in Node, IsNextNode(q, n)
               PROVE  OnPanel(panel', n, who'[q], NodeTargets(plan[q], n) \ missing[q])
    BY <1>1
  <2>1. OnPanel(panel, n, who[q], NodeTargets(plan[q], n) \ missing[q])
    BY <1>4 DEF LoopInv
  <2>2. NodeTargets(plan[q], n) \ missing[q] \in SUBSET Tag
    BY <1>3
  <2> QED BY <1>5, <2>1, <2>2 DEF InsideLock
<1>8. /\ pc'[q] \in {"idle", "waiting"} => done'[q] = {}
      /\ pc'[q] = "closing" => PlannedNodes(plan'[q]) \subseteq done'[q]
      /\ pc'[q] = "adding" =>
            \A n \in Node : IsNextNode(q, n)' => missing'[q] = NodeTargets(plan'[q], n)
  BY <1>1, <1>4 DEF LoopInv
<1> QED BY <1>6, <1>7, <1>8 DEF LoopInv

(* When a node is done, the loop has what it needs to go on or to end.     *)
LEMMA FinishLoop ==
    ASSUME AttachedInv, PanelGrows, NEW r \in Request, NEW n \in Node,
           pc[r] \in InsideLock, FinishNode(r, n), UNCHANGED <<who, plan>>,
           OnPanel(panel', n, who[r], NodeTargets(plan[r], n))
    PROVE  LoopInv(r)'
<1>1. /\ done'[r] = done[r] \cup {n}
      /\ pc'[r] = IF PlannedNodes(plan[r]) \subseteq done'[r] THEN "closing" ELSE "listing"
  BY DEF FinishNode, AttachedInv, TypeInv, TypeOK
<1>2. who[r] \in Client
  BY InsideType DEF AttachedInv
<1>3. \A m \in Node : NodeTargets(plan[r], m) \in SUBSET Tag
  BY TargetsType DEF AttachedInv, TypeInv, TypeOK
<1>4. done[r] \subseteq Node
      /\ \A m \in done[r] : OnPanel(panel, m, who[r], NodeTargets(plan[r], m))
  BY DEF AttachedInv, TypeInv, TypeOK, LoopInv
<1>5. \A m \in done[r] : OnPanel(panel', m, who[r], NodeTargets(plan[r], m))
  BY <1>2, <1>3, <1>4 DEF PanelGrows
<1> QED BY <1>1, <1>5 DEF LoopInv

LEMMA WorkLoop ==
    ASSUME AttachedInv, NEW r \in Request, Work(r)
    PROVE  PanelGrows /\ LoopInv(r)'
<1> USE DEF AttachedInv
<1>1. ASSUME pc'[r] = "failed" PROVE LoopInv(r)'
  BY <1>1 DEF LoopInv, InsideLock
<1>2. CASE Load(r)
  <2>1. pc'[r] = "listing" /\ done'[r] = {}
    BY <1>2 DEF Load, TypeInv, TypeOK, LoopInv
  <2> QED BY <1>2, <2>1, PanelSame DEF Load, LoopInv
<1>3. CASE ProvisionNowhere(r)
  <2>1. /\ pc'[r] \in Ended /\ UNCHANGED panel
        /\ plan'[r] = ProvisionedTags(file.clients[who[r]])
    BY <1>3, SaveLeaves DEF ProvisionNowhere, Leave, TypeInv, TypeOK
  <2>2. PlannedNodes(plan'[r]) = {}
    BY <1>3, <2>1 DEF ProvisionNowhere
  <2> QED BY <2>1, <2>2, PanelSame DEF LoopInv, Ended, InsideLock
<1>4. CASE ListInbounds(r)
  <2>1. pc'[r] = "looking" /\ pc[r] \in InsideLock
    BY <1>4 DEF ListInbounds, TypeInv, TypeOK, InsideLock
  <2>2. \A n \in done[r] : OnPanel(panel, n, who[r], NodeTargets(plan[r], n))
    BY <2>1 DEF LoopInv
  <2>3. UNCHANGED <<panel, who, plan, done>>
    BY <1>4 DEF ListInbounds, local
  <2>4. \A n \in done'[r] : OnPanel(panel', n, who'[r], NodeTargets(plan'[r], n))
    BY <2>2, <2>3 DEF OnPanel
  <2> QED BY <2>1, <2>3, <2>4, PanelSame DEF LoopInv
<1>5. CASE InboundNotFound(r) \/ Fail(r) \/ GiveUp(r)
  BY <1>1, <1>5, PanelSame
     DEF InboundNotFound, Fail, GiveUp, Raise, Leave, TypeInv, TypeOK
<1>6. CASE GetClientNone(r)
  <2>1. PICK n \in Node :
          IsNextNode(r, n) /\ missing' = [missing EXCEPT ![r] = NodeTargets(plan[r], n)]
    BY <1>6 DEF GetClientNone
  <2>2. pc'[r] = "adding" /\ missing'[r] = NodeTargets(plan[r], n)
        /\ pc[r] \in InsideLock /\ UNCHANGED <<panel, who, plan, done>>
    BY <1>6, <2>1 DEF GetClientNone, TypeInv, TypeOK, InsideLock
  <2>3. \A m \in done'[r] : OnPanel(panel', m, who'[r], NodeTargets(plan'[r], m))
    BY <2>2 DEF LoopInv, OnPanel
  <2>4. \A m \in Node : IsNextNode(r, m)' => m = n
    <3>1. \A m \in Node : IsNextNode(r, m)' = IsNextNode(r, m)
      BY <2>2 DEF IsNextNode
    <3> QED BY <2>1, <3>1, NextNodeUnique DEF TypeInv, TypeOK
  <2> QED BY <2>2, <2>3, <2>4, PanelSame DEF LoopInv
<1>7. CASE GetClientFound(r)
  <2> DEFINE lacking(n) == NodeTargets(plan[r], n) \ panel[n][who[r]].on
  <2>1. PICK n \in Node :
          /\ IsNextNode(r, n)
          /\ panel[n][who[r]] # Absent
          /\ \/ lacking(n) = {} /\ FinishNode(r, n)
             \/ /\ missing' = [missing EXCEPT ![r] = lacking(n)]
                /\ pc' = [pc EXCEPT ![r] = "attaching"]
                /\ UNCHANGED done
    BY <1>7 DEF GetClientFound
  <2>2. pc[r] \in InsideLock /\ UNCHANGED <<panel, who, plan>>
    BY <1>7 DEF GetClientFound, InsideLock
  <2>3. CASE lacking(n) = {} /\ FinishNode(r, n)
    <3>1. OnPanel(panel', n, who[r], NodeTargets(plan[r], n))
      BY <2>1, <2>2, <2>3 DEF OnPanel
    <3> QED BY <2>2, <2>3, <3>1, PanelSame, FinishLoop
  <2>4. CASE /\ missing' = [missing EXCEPT ![r] = lacking(n)]
             /\ pc' = [pc EXCEPT ![r] = "attaching"]
             /\ UNCHANGED done
    <3>1. pc'[r] = "attaching" /\ missing'[r] = lacking(n)
      BY <2>4 DEF TypeInv, TypeOK
    <3>2. \A m \in done'[r] : OnPanel(panel', m, who'[r], NodeTargets(plan'[r], m))
      BY <2>2, <2>4 DEF LoopInv, OnPanel
    <3>3. \A m \in Node : IsNextNode(r, m)' = IsNextNode(r, m)
      BY <2>2, <2>4 DEF IsNextNode
    <3>4. \A m \in Node : IsNextNode(r, m)' => m = n
      BY <2>1, <3>3, NextNodeUnique DEF TypeInv, TypeOK
    <3>5. OnPanel(panel', n, who'[r], NodeTargets(plan'[r], n) \ missing'[r])
      BY <2>1, <2>2, <3>1 DEF OnPanel
    <3> QED BY <2>2, <3>1, <3>2, <3>4, <3>5, PanelSame DEF LoopInv
  <2> QED BY <2>1, <2>3, <2>4
<1>8. CASE AddClient(r)
  <2>1. PICK n \in Node : /\ IsNextNode(r, n)
                          /\ PanelAdd(n, who[r], sub[r], missing[r])
                          /\ FinishNode(r, n)
    BY <1>8 DEF AddClient
  <2>2. pc[r] = "adding" /\ pc[r] \in InsideLock /\ UNCHANGED <<who, plan>>
    BY <1>8 DEF AddClient, InsideLock
  <2>3. missing[r] = NodeTargets(plan[r], n) /\ missing[r] \in SUBSET Tag
    BY <2>1, <2>2 DEF LoopInv, TypeInv, TypeOK
  <2>4. PanelGrows /\ OnPanel(panel', n, who[r], missing[r])
    BY <2>1, <2>2, <2>3, InsideType, WriteGrows DEF TypeInv
  <2>5. OnPanel(panel', n, who[r], NodeTargets(plan[r], n))
    BY <2>2, <2>3, <2>4 DEF OnPanel
  <2> QED BY <2>1, <2>2, <2>4, <2>5, FinishLoop
<1>9. CASE AttachClient(r)
  <2>1. PICK n \in Node : /\ IsNextNode(r, n)
                          /\ PanelAttach(n, who[r], missing[r])
                          /\ FinishNode(r, n)
    BY <1>9 DEF AttachClient
  <2>2. pc[r] = "attaching" /\ pc[r] \in InsideLock /\ UNCHANGED <<who, plan>>
    BY <1>9 DEF AttachClient, InsideLock
  <2> DEFINE had == NodeTargets(plan[r], n) \ missing[r]
  <2>3. OnPanel(panel, n, who[r], had)
    BY <2>1, <2>2 DEF LoopInv
  <2>4. had \in SUBSET Tag /\ missing[r] \in SUBSET Tag
    BY TargetsType DEF TypeInv, TypeOK
  <2> HIDE DEF had
  <2>5. PanelGrows /\ (\A ts \in SUBSET Tag :
           OnPanel(panel, n, who[r], ts) => OnPanel(panel', n, who[r], ts \cup missing[r]))
    BY <2>1, <2>2, <2>4, InsideType, WriteGrows DEF TypeInv
  <2>6. OnPanel(panel', n, who[r], had \cup missing[r])
    BY <2>3, <2>4, <2>5
  <2>7. OnPanel(panel', n, who[r], NodeTargets(plan[r], n))
    BY <2>2, <2>6 DEF OnPanel, had
  <2> QED BY <2>1, <2>2, <2>5, <2>7, FinishLoop
<1>10. CASE Persist(r)
  <2>1. /\ pc'[r] \in Ended /\ pc[r] = "closing" /\ pc[r] \in InsideLock
        /\ UNCHANGED <<panel, who, plan>>
    BY <1>10, SaveLeaves DEF Persist, Leave, TypeInv, TypeOK, InsideLock
  <2>2. \A n \in PlannedNodes(plan'[r]) :
           OnPanel(panel', n, who'[r], NodeTargets(plan'[r], n))
    BY <2>1 DEF LoopInv, OnPanel
  <2> QED BY <2>1, <2>2, PanelSame DEF LoopInv, Ended, InsideLock
<1> QED
  BY <1>2, <1>3, <1>4, <1>5, <1>6, <1>7, <1>8, <1>9, <1>10 DEF Work

(* A request writes its own variables only.                                *)
LEMMA WorkLocal ==
    ASSUME TypeOK, NEW r \in Request, Work(r), NEW q \in Request \ {r}
    PROVE  /\ pc'[q] = pc[q] /\ who'[q] = who[q] /\ plan'[q] = plan[q]
           /\ done'[q] = done[q] /\ missing'[q] = missing[q]
<1> USE DEF TypeOK
<1>1. CASE Load(r)              BY <1>1 DEF Load
<1>2. CASE ProvisionNowhere(r)  BY <1>2, SaveLeaves DEF ProvisionNowhere, Leave
<1>3. CASE ListInbounds(r)      BY <1>3 DEF ListInbounds, local
<1>4. CASE InboundNotFound(r) \/ Fail(r) \/ GiveUp(r)
  BY <1>4 DEF InboundNotFound, Fail, GiveUp, Raise, Leave
<1>5. CASE GetClientNone(r)     BY <1>5 DEF GetClientNone
<1>6. CASE GetClientFound(r)    BY <1>6 DEF GetClientFound, FinishNode
<1>7. CASE AddClient(r)         BY <1>7 DEF AddClient, FinishNode
<1>8. CASE AttachClient(r)      BY <1>8 DEF AttachClient, FinishNode
<1>9. CASE Persist(r)           BY <1>9, SaveLeaves DEF Persist, Leave
<1> QED
  BY <1>1, <1>2, <1>3, <1>4, <1>5, <1>6, <1>7, <1>8, <1>9 DEF Work

LEMMA InitAttached == Init => AttachedInv
BY InitTypeInv DEF Init, AttachedInv, LoopInv, InsideLock

LEMMA NextAttached == AttachedInv /\ [Next]_vars => AttachedInv'
<1> SUFFICES ASSUME AttachedInv, [Next]_vars, NEW q \in Request PROVE LoopInv(q)'
  BY NextTypeInv DEF AttachedInv
<1> USE DEF AttachedInv
<1>1. CASE UNCHANGED vars
  <2>1. /\ pc'[q] = pc[q] /\ who'[q] = who[q] /\ plan'[q] = plan[q]
        /\ done'[q] = done[q] /\ missing'[q] = missing[q] /\ UNCHANGED panel
    BY <1>1 DEF vars, local
  <2> QED BY <2>1, PanelSame, SameLoop
<1>2. ASSUME NEW r \in Request, NEW c \in Client, Enqueue(r, c) PROVE LoopInv(q)'
  <2>1. CASE q = r
    <3>1. pc'[q] = "waiting" /\ done'[q] = {}
      BY <1>2, <2>1 DEF Enqueue, TypeInv, TypeOK, LoopInv
    <3> QED BY <3>1 DEF LoopInv, InsideLock
  <2>2. CASE q # r
    <3>1. /\ pc'[q] = pc[q] /\ who'[q] = who[q] /\ plan'[q] = plan[q]
          /\ done'[q] = done[q] /\ missing'[q] = missing[q] /\ UNCHANGED panel
      BY <1>2, <2>2 DEF Enqueue, TypeInv, TypeOK
    <3> QED BY <3>1, PanelSame, SameLoop
  <2> QED BY <2>1, <2>2
<1>3. ASSUME NEW r \in Request, Work(r) PROVE LoopInv(q)'
  <2>1. PanelGrows /\ LoopInv(r)'
    BY <1>3, WorkLoop
  <2>2. CASE q = r  BY <2>1, <2>2
  <2>3. CASE q # r  BY <1>3, <2>1, <2>3, WorkLocal, SameLoop DEF TypeInv
  <2> QED BY <2>2, <2>3
<1>4. CASE LateWrite
  <2>1. PICK w \in wire :
          /\ PanelAdd(w.node, w.client, w.sub, w.on)
             \/ PanelAttach(w.node, w.client, w.on)
          /\ UNCHANGED <<pc, local>>
    BY <1>4 DEF LateWrite
  <2>2. /\ w.node \in Node /\ w.client \in Client /\ w.sub \in SubId
        /\ w.on \in SUBSET Tag
    BY DEF TypeInv, TypeOK, Write
  <2>3. PanelGrows
    BY <2>1, <2>2, WriteGrows DEF TypeInv
  <2> QED BY <2>1, <2>3, SameLoop DEF local
<1>5. CASE Announce
  BY <1>5, PanelSame, SameLoop DEF Announce, local
<1>6. CASE Crash
  <2>1. /\ pc'[q] \in {pc[q], "failed"}
        /\ pc'[q] \notin InsideLock \cup {"waiting"}
        /\ who'[q] = who[q] /\ plan'[q] = plan[q] /\ done'[q] = {}
        /\ UNCHANGED panel
    BY <1>6 DEF Crash, TypeInv, TypeOK, InsideLock
  <2>2. pc'[q] = "done" => \A n \in PlannedNodes(plan'[q]) :
           OnPanel(panel', n, who'[q], NodeTargets(plan'[q], n))
    BY <2>1 DEF LoopInv, OnPanel
  <2> QED BY <2>1, <2>2 DEF LoopInv, InsideLock
<1>7. ASSUME NEW r \in Request, EnsureTelegramUser(r) \/ IssueManualClient(r)
      PROVE  LoopInv(q)'
  BY <1>2, <1>7, ConstantsAssumption DEF EnsureTelegramUser, IssueManualClient
<1> QED BY <1>1, <1>3, <1>4, <1>5, <1>6, <1>7 DEF Next

(* The invariant at the end of the loop.                                   *)
LEMMA AttachedMeansAnswered == AttachedInv => AnsweredMeansAttached
<1> SUFFICES ASSUME AttachedInv, NEW r \in Request, pc[r] = "done",
                    NEW t \in TagsOf(plan[r]), NodeOf[t] # External
             PROVE  /\ panel[NodeOf[t]][who[r]] # Absent
                    /\ t \in panel[NodeOf[t]][who[r]].on
  BY DEF AnsweredMeansAttached
<1>1. LoopInv(r)
  BY DEF AttachedInv
<1>2. NodeOf[t] \in PlannedNodes(plan[r])
  BY DEF PlannedNodes
<1>3. t \in NodeTargets(plan[r], NodeOf[t])
  BY DEF NodeTargets
<1> QED BY <1>1, <1>2, <1>3 DEF LoopInv, OnPanel

(* When the user has the answer, the client is on every inbound its record *)
(* asked for, whatever failed, timed out or crashed on the way.            *)
THEOREM AnswerMeansAttached == Spec => []AnsweredMeansAttached
BY AttachedMeansAnswered, InitAttached, NextAttached, PTL DEF Spec

-----------------------------------------------------------------------------
(* The announcement a command last put into the file is safe from the      *)
(* saves of stale snapshots: a save of the clients reloads the rest.       *)
THEOREM AnnouncementSafe == Spec => []AnnouncementKept
<1> DEFINE Kept == TypeInv /\ AnnouncementKept
<1>1. Init => Kept
  BY InitTypeInv DEF Init, AnnouncementKept
<1>2. Kept /\ [Next]_vars => Kept'
  <2> SUFFICES ASSUME Kept, [Next]_vars PROVE AnnouncementKept'
    BY NextTypeInv
  <2>1. CASE UNCHANGED vars
    BY <2>1 DEF vars, history, AnnouncementKept
  <2>2. ASSUME NEW r \in Request, NEW c \in Client, Enqueue(r, c)
        PROVE  AnnouncementKept'
    BY <2>2 DEF Enqueue, history, AnnouncementKept
  <2>3. ASSUME NEW r \in Request, Work(r) PROVE AnnouncementKept'
    <3>1. CASE Persist(r) \/ ProvisionNowhere(r)
      BY <3>1 DEF Persist, ProvisionNowhere, AnnouncementKept, TypeInv, TypeOK, File
    <3>2. CASE UNCHANGED <<file, announced>>
      BY <3>2 DEF AnnouncementKept
    <3> QED
      BY <2>3, <3>1, <3>2
         DEF Work, Load, ListInbounds, InboundNotFound, GetClientNone, GetClientFound,
             AddClient, AttachClient, Fail, GiveUp, Raise, history
  <2>4. CASE LateWrite \/ Crash
    BY <2>4 DEF LateWrite, Crash, history, AnnouncementKept
  <2>5. CASE Announce
    BY <2>5 DEF Announce, AnnouncementKept, TypeInv, TypeOK, File
  <2>6. ASSUME NEW r \in Request, EnsureTelegramUser(r) \/ IssueManualClient(r)
        PROVE  AnnouncementKept'
    BY <2>2, <2>6, ConstantsAssumption DEF EnsureTelegramUser, IssueManualClient
  <2> QED BY <2>1, <2>3, <2>4, <2>5, <2>6 DEF Next
<1>3. Kept => AnnouncementKept
  OBVIOUS
<1> QED BY <1>1, <1>2, <1>3, PTL DEF Spec
-----------------------------------------------------------------------------
(***************************************************************************)
(* The subscription ids.                                                   *)
(*                                                                         *)
(* The argument: unless the save of another client wrote an older copy of  *)
(* a record back, the copy a request holds is the record as it is now,     *)
(* because of the lock (InStep); so the id the request draws or takes over *)
(* is the one to write, and what was answered before is what the record    *)
(* says (Recorded).                                                        *)
(***************************************************************************)

InStep ==
    \A r \in Request : pc[r] \in InsideLock =>
        /\ sub[r] = FinalSubId(r, snapshot[r].clients[who[r]])
        /\ who[r] \notin rolledBack =>
              snapshot[r].clients[who[r]] = file.clients[who[r]]

Recorded ==
    \A r \in Request : pc[r] = "done" =>
        /\ who[r] \in Client /\ sub[r] \in SubId
        /\ who[r] \notin rolledBack =>
              /\ file.clients[who[r]] # NoRecord
              /\ file.clients[who[r]].sub = sub[r]

(* An id that a request draws is in no record before that request ended.   *)
Drawn(rec) == rec # NoRecord /\ rec.sub \in Request => pc[rec.sub] \in Ended

DrawnOnce ==
    /\ \A c \in Client : Drawn(file.clients[c])
    /\ \A r \in Request : pc[r] \in InsideLock =>
          \A c \in Client : Drawn(snapshot[r].clients[c])

IdInv == TypeInv /\ InStep /\ Recorded /\ DrawnOnce

(* The record of a client after a request for it has ended well.           *)
LEMMA WrittenRecord ==
    ASSUME NEW c \in Client, NEW r \in Request, NEW rec \in Record \cup {NoRecord}
    PROVE  LET s == FinalSubId(r, rec)
               is == NextRecord(c, rec, s)
           IN  /\ is \in Record /\ is.sub = s /\ s \in SubId /\ s # None
               /\ rec # NoRecord /\ rec.sub # None => s = rec.sub
               /\ rec # NoRecord /\ rec.legacy # None => is.legacy = rec.legacy
               /\ rec # NoRecord /\ rec.legacy = None /\ rec.sub = None => is.legacy = c
               /\ rec # NoRecord /\ rec.legacy = None /\ rec.sub # None => is.legacy = None
<1>1. FinalSubId(r, rec) \in SubId
  BY FinalSubIdType
<1>2. NextRecord(c, rec, FinalSubId(r, rec)) \in Record
  BY <1>1, RecordType
<1> QED
  BY <1>1, <1>2, NamesAssumption DEF FinalSubId, NextRecord, LegacySubId

(* What a request that ends well writes: its client's record, from the     *)
(* record as it is now, unless that one was rolled back; and of the other  *)
(* clients only what is then rolled back.                                  *)
LEMMA SaveWrites ==
    ASSUME IdInv, NEW r \in Request, Persist(r) \/ ProvisionNowhere(r)
    PROVE  /\ who[r] \in Client /\ Holds(r) /\ pc'[r] \in Ended
           /\ \A q \in Request \ {r} : pc'[q] = pc[q] /\ sub'[q] = sub[q]
                                       /\ snapshot'[q] = snapshot[q]
           /\ UNCHANGED <<panel, who, wire>>
           /\ disturbed' \in {disturbed, disturbed \cup {who[r]}}
           /\ rolledBack \subseteq rolledBack'
           /\ who[r] \in rolledBack' => who[r] \in rolledBack
           /\ pc[r] \notin Ended /\ \E rec \in Record \cup {NoRecord} :
                /\ sub'[r] = FinalSubId(r, rec)
                /\ file'.clients[who[r]] = NextRecord(who[r], rec, FinalSubId(r, rec))
                /\ who[r] \notin rolledBack => rec = file.clients[who[r]]
                /\ \/ rec = file.clients[who[r]]
                   \/ pc[r] \in InsideLock /\ rec = snapshot[r].clients[who[r]]
           /\ \A c \in Client \ {who[r]} :
                /\ c \notin rolledBack' => file'.clients[c] = file.clients[c]
                /\ \/ file'.clients[c] = file.clients[c]
                   \/ pc[r] \in InsideLock /\ file'.clients[c] = snapshot[r].clients[c]
<1>1. CASE ProvisionNowhere(r)
  <2> DEFINE rec == file.clients[who[r]]
  <2>1. who[r] \in Client /\ rec \in Record \cup {NoRecord} /\ Holds(r)
    BY <1>1 DEF ProvisionNowhere, Holds, IdInv, TypeInv, TypeOK, File, Clients
  <2>2. /\ sub' = [sub EXCEPT ![r] = FinalSubId(r, rec)]
        /\ file' = [file EXCEPT !.clients[who[r]] =
                       NextRecord(who[r], rec, FinalSubId(r, rec))]
        /\ SaveEnds(r)
        /\ UNCHANGED <<panel, who, wire, rolledBack>>
        /\ pc[r] \notin Ended
    BY <1>1 DEF ProvisionNowhere, Ended
  <2> HIDE DEF rec
  <2>5. PICK outcome \in Ended :
          Leave(r, outcome) /\ disturbed' \in {disturbed, disturbed \cup {who[r]}}
    BY <2>2, SaveLeaves
  <2>3. /\ file'.clients[who[r]] = NextRecord(who[r], rec, FinalSubId(r, rec))
        /\ \A c \in Client \ {who[r]} : file'.clients[c] = file.clients[c]
    BY <2>1, <2>2 DEF IdInv, TypeInv, TypeOK, File, Clients
  <2>4. /\ pc'[r] \in Ended /\ sub'[r] = FinalSubId(r, rec)
        /\ \A q \in Request \ {r} : pc'[q] = pc[q] /\ sub'[q] = sub[q]
                                    /\ snapshot'[q] = snapshot[q]
    BY <2>2, <2>5 DEF Leave, IdInv, TypeInv, TypeOK
  <2> QED BY <2>1, <2>2, <2>3, <2>4, <2>5 DEF rec
<1>2. CASE Persist(r)
  <2> DEFINE rec == snapshot[r].clients[who[r]]
             next == [snapshot[r].clients EXCEPT
                         ![who[r]] = NextRecord(who[r], @, sub[r])]
  <2>1. /\ Holds(r) /\ who[r] \in Client /\ snapshot[r] \in File
        /\ pc[r] \in InsideLock /\ pc[r] \notin Ended
        /\ sub[r] = FinalSubId(r, rec)
        /\ who[r] \notin rolledBack => rec = file.clients[who[r]]
    BY <1>2, InsideType DEF Persist, InsideLock, IdInv, InStep, Ended
  <2>2. /\ file' = [file EXCEPT !.clients = next]
        /\ rolledBack' = rolledBack \cup
               {c \in Client \ {who[r]} : next[c] # file.clients[c]}
        /\ SaveEnds(r) /\ UNCHANGED <<panel, who, sub, wire>>
    BY <1>2 DEF Persist
  <2>8. PICK outcome \in Ended :
          Leave(r, outcome) /\ disturbed' \in {disturbed, disturbed \cup {who[r]}}
    BY <2>2, SaveLeaves
  <2>3. /\ rec \in Record \cup {NoRecord} /\ file'.clients = next
        /\ next[who[r]] = NextRecord(who[r], rec, sub[r])
    BY <2>1, <2>2 DEF File, Clients, IdInv, TypeInv, TypeOK
  <2>4. \A c \in Client \ {who[r]} :
           /\ c \notin rolledBack' => next[c] = file.clients[c]
           /\ next[c] = snapshot[r].clients[c]
    BY <2>1, <2>2 DEF File, Clients
  <2>5. /\ pc'[r] \in Ended
        /\ \A q \in Request \ {r} : pc'[q] = pc[q] /\ sub'[q] = sub[q]
                                    /\ snapshot'[q] = snapshot[q]
    BY <2>2, <2>8 DEF Leave, IdInv, TypeInv, TypeOK
  <2> HIDE DEF next, rec
  <2>6. /\ rolledBack \subseteq rolledBack'
        /\ who[r] \in rolledBack' => who[r] \in rolledBack
    BY <2>2
  <2>7. rec = snapshot[r].clients[who[r]]
    BY DEF rec
  <2> QED BY <2>1, <2>2, <2>3, <2>4, <2>5, <2>6, <2>7, <2>8
<1> QED BY <1>1, <1>2

LEMMA SaveIds ==
    ASSUME IdInv, NEW r \in Request, Persist(r) \/ ProvisionNowhere(r), TypeInv'
    PROVE  IdInv'
<1>1. PICK rec \in Record \cup {NoRecord} :
        /\ sub'[r] = FinalSubId(r, rec)
        /\ file'.clients[who[r]] = NextRecord(who[r], rec, FinalSubId(r, rec))
        /\ who[r] \notin rolledBack => rec = file.clients[who[r]]
  BY SaveWrites
<1>2. /\ who[r] \in Client /\ Holds(r) /\ pc'[r] \in Ended
      /\ \A q \in Request \ {r} : pc'[q] = pc[q] /\ sub'[q] = sub[q]
                                  /\ snapshot'[q] = snapshot[q]
      /\ who' = who /\ rolledBack \subseteq rolledBack'
      /\ \A c \in Client \ {who[r]} :
            c \notin rolledBack' => file'.clients[c] = file.clients[c]
  BY SaveWrites
<1>3. /\ file'.clients[who[r]].sub = sub'[r] /\ sub'[r] \in SubId
      /\ file'.clients[who[r]] # NoRecord
      /\ rec # NoRecord /\ rec.sub # None => sub'[r] = rec.sub
  BY <1>1, <1>2, WrittenRecord, NamesAssumption
<1>4. InStep'
  <2> SUFFICES ASSUME NEW q \in Request, pc'[q] \in InsideLock
               PROVE  /\ sub'[q] = FinalSubId(q, snapshot'[q].clients[who[q]])
                      /\ who[q] \notin rolledBack' =>
                            snapshot'[q].clients[who[q]] = file'.clients[who[q]]
    BY <1>2 DEF InStep
  <2>1. q # r /\ pc[q] \in InsideLock
    BY <1>2 DEF InsideLock, Ended
  <2>2. Holds(q) /\ who[q] \in Client
    BY <2>1, InsideType DEF IdInv
  <2>3. who[q] # who[r]
    BY <1>2, <2>1, <2>2 DEF Holds
  <2> QED BY <1>2, <2>1, <2>2, <2>3 DEF IdInv, InStep
<1>5. Recorded'
  <2> SUFFICES ASSUME NEW q \in Request, pc'[q] = "done"
               PROVE  /\ who[q] \in Client /\ sub'[q] \in SubId
                      /\ who[q] \notin rolledBack' =>
                            /\ file'.clients[who[q]] # NoRecord
                            /\ file'.clients[who[q]].sub = sub'[q]
    BY <1>2 DEF Recorded
  <2>1. CASE q = r
    BY <1>2, <1>3, <2>1
  <2>2. CASE q # r
    <3>1. /\ who[q] \in Client /\ sub'[q] = sub[q] /\ sub[q] \in SubId
          /\ who[q] \notin rolledBack =>
                file.clients[who[q]] # NoRecord /\ file.clients[who[q]].sub = sub[q]
      BY <1>2, <2>2 DEF IdInv, Recorded
    <3>2. CASE who[q] = who[r]
      BY <1>1, <1>2, <1>3, <3>1, <3>2, NamesAssumption
    <3>3. CASE who[q] # who[r]
      BY <1>2, <3>1, <3>3
    <3> QED BY <3>2, <3>3
  <2> QED BY <2>1, <2>2
<1>6. DrawnOnce'
  <2>1. \A q \in Request : pc[q] \in Ended => pc'[q] \in Ended
    BY <1>2
  <2>2. ASSUME NEW c \in Client PROVE Drawn(file.clients[c])'
    <3>1. CASE c = who[r]
      <4>1. PICK old \in Record \cup {NoRecord} :
              /\ file'.clients[c] = NextRecord(c, old, FinalSubId(r, old))
              /\ Drawn(old)
        BY <3>1, <1>2, SaveWrites DEF IdInv, DrawnOnce
      <4>2. file'.clients[c].sub \in {r, old.sub}
            /\ (file'.clients[c].sub # r => old # NoRecord)
        BY <4>1, <2>2, WrittenRecord DEF FinalSubId
      <4> QED BY <1>2, <2>1, <4>1, <4>2 DEF Drawn
    <3>2. CASE c # who[r]
      <4>1. Drawn(file'.clients[c])
        BY <3>2, <2>2, SaveWrites DEF IdInv, DrawnOnce
      <4> QED BY <2>1, <4>1 DEF Drawn
    <3> QED BY <3>1, <3>2
  <2>3. ASSUME NEW q \in Request, pc'[q] \in InsideLock, NEW c \in Client
        PROVE  Drawn(snapshot[q].clients[c])'
    <3>1. q # r /\ Drawn(snapshot[q].clients[c])
      BY <1>2, <2>3 DEF IdInv, DrawnOnce, InsideLock, Ended
    <3> QED BY <1>2, <2>1, <3>1 DEF Drawn
  <2> QED BY <2>2, <2>3 DEF DrawnOnce
<1> QED BY <1>4, <1>5, <1>6 DEF IdInv

(* A step that saves no record, and lets no request begin or end well.     *)
LEMMA OtherIds ==
    ASSUME IdInv, TypeInv', file'.clients = file.clients, rolledBack' = rolledBack,
           \A q \in Request :
              /\ pc'[q] \in InsideLock => pc[q] \in InsideLock /\ snapshot'[q] = snapshot[q]
              /\ pc'[q] = "done" <=> pc[q] = "done"
              /\ pc[q] = "failed" => pc'[q] = "failed"
              /\ pc'[q] \in InsideLock \cup {"done"} => sub'[q] = sub[q] /\ who'[q] = who[q]
    PROVE  IdInv'
<1>1. InStep' /\ Recorded'
  BY DEF IdInv, InStep, Recorded
<1>2. DrawnOnce'
  BY DEF IdInv, DrawnOnce, Drawn, Ended
<1> QED BY <1>1, <1>2 DEF IdInv

LEMMA LoadIds ==
    ASSUME IdInv, NEW r \in Request, Load(r), TypeInv'
    PROVE  IdInv'
<1>1. /\ sub'[r] = FinalSubId(r, snapshot'[r].clients[who[r]]) /\ snapshot'[r] = file
      /\ pc'[r] = "listing" /\ UNCHANGED <<file, who, rolledBack>>
      /\ \A q \in Request \ {r} : pc'[q] = pc[q] /\ sub'[q] = sub[q]
                                  /\ snapshot'[q] = snapshot[q]
  BY DEF Load, IdInv, TypeInv, TypeOK, history
<1>2. InStep' /\ Recorded'
  BY <1>1 DEF IdInv, InStep, Recorded
<1>3. DrawnOnce'
  <2>1. \A q \in Request : pc[q] \in Ended => pc'[q] \in Ended
    BY <1>1 DEF Load, Ended
  <2> QED BY <1>1, <2>1 DEF IdInv, DrawnOnce, Drawn
<1> QED BY <1>2, <1>3 DEF IdInv

LEMMA WorkIds ==
    ASSUME IdInv, NEW r \in Request, Work(r)
    PROVE  IdInv'
<1>1. TypeInv'
  BY WorkInv DEF IdInv
<1>2. CASE Persist(r) \/ ProvisionNowhere(r)
  BY <1>1, <1>2, SaveIds
<1>3. CASE Load(r)
  BY <1>1, <1>3, LoadIds
<1>4. CASE ListInbounds(r)
  BY <1>1, <1>4, OtherIds
     DEF ListInbounds, local, history, IdInv, TypeInv, TypeOK, InsideLock
<1>5. CASE GetClientNone(r)
  BY <1>1, <1>5, OtherIds
     DEF GetClientNone, history, IdInv, TypeInv, TypeOK, InsideLock
<1>6. CASE GetClientFound(r) \/ AddClient(r) \/ AttachClient(r)
  <2>1. /\ \E p \in InsideLock : pc' = [pc EXCEPT ![r] = p]
        /\ pc[r] \in InsideLock /\ UNCHANGED <<file, who, snapshot, sub, rolledBack>>
    BY <1>6 DEF GetClientFound, AddClient, AttachClient, FinishNode, history, InsideLock
  <2> QED BY <1>1, <2>1, OtherIds DEF IdInv, TypeInv, TypeOK, InsideLock
<1>7. CASE InboundNotFound(r) \/ Fail(r) \/ GiveUp(r)
  <2>1. Raise(r)
    BY <1>7 DEF InboundNotFound, Fail, GiveUp
  <2>2. /\ pc'[r] = "failed" /\ UNCHANGED <<file, who, sub, rolledBack>>
        /\ \A q \in Request \ {r} : pc'[q] = pc[q] /\ snapshot'[q] = snapshot[q]
        /\ pc[r] # "done"
    BY <1>7, <2>1
       DEF InboundNotFound, Fail, GiveUp, Raise, Leave, IdInv, TypeInv, TypeOK, InsideLock
  <2> QED BY <1>1, <2>2, OtherIds DEF InsideLock
<1> QED BY <1>2, <1>3, <1>4, <1>5, <1>6, <1>7 DEF Work

LEMMA NextIds == IdInv /\ [Next]_vars => IdInv'
<1> SUFFICES ASSUME IdInv, [Next]_vars PROVE IdInv'
  OBVIOUS
<1>1. TypeInv'
  BY NextTypeInv DEF IdInv
<1>2. CASE UNCHANGED vars
  BY <1>1, <1>2, OtherIds DEF vars, local, history
<1>3. ASSUME NEW r \in Request, NEW c \in Client, Enqueue(r, c) PROVE IdInv'
  <2>1. /\ pc'[r] = "waiting" /\ pc[r] = "idle" /\ UNCHANGED <<file, sub, snapshot, rolledBack>>
        /\ \A q \in Request \ {r} : pc'[q] = pc[q] /\ who'[q] = who[q]
    BY <1>3 DEF Enqueue, history, IdInv, TypeInv, TypeOK
  <2> QED BY <1>1, <2>1, OtherIds DEF InsideLock
<1>4. ASSUME NEW r \in Request, EnsureTelegramUser(r) \/ IssueManualClient(r) PROVE IdInv'
  BY <1>3, <1>4, ConstantsAssumption DEF EnsureTelegramUser, IssueManualClient
<1>5. ASSUME NEW r \in Request, Work(r) PROVE IdInv'
  BY <1>5, WorkIds
<1>6. CASE LateWrite
  BY <1>1, <1>6, OtherIds DEF LateWrite, local, history
<1>7. CASE Announce
  <2>1. file'.clients = file.clients
    BY <1>7 DEF Announce, IdInv, TypeInv, TypeOK, File
  <2> QED BY <1>1, <1>7, <2>1, OtherIds DEF Announce, local
<1>8. CASE Crash
  <2>1. \A q \in Request : /\ pc'[q] \notin InsideLock
                           /\ pc'[q] = "done" <=> pc[q] = "done"
                           /\ pc[q] = "failed" => pc'[q] = "failed"
    BY <1>8 DEF Crash, InsideLock, IdInv, TypeInv, TypeOK
  <2> QED BY <1>1, <1>8, <2>1, OtherIds DEF Crash
<1> QED BY <1>2, <1>4, <1>5, <1>6, <1>7, <1>8 DEF Next

LEMMA InitIds == Init => IdInv
<1> SUFFICES ASSUME Init PROVE IdInv
  OBVIOUS
<1>1. TypeInv /\ InStep /\ Recorded
  BY InitTypeInv DEF Init, InStep, Recorded, InsideLock
<1>2. DrawnOnce
  BY IdsAssumption DEF Init, DrawnOnce, Drawn, InsideLock
<1> QED BY <1>1, <1>2 DEF IdInv

LEMMA SpecIds == Spec => []IdInv
BY InitIds, NextIds, PTL DEF Spec

(* Only the two saves of a request change the clients section of the file. *)
LEMMA OthersSaveNothing ==
    ASSUME IdInv, [Next]_vars, ~ \E r \in Request : Persist(r) \/ ProvisionNowhere(r)
    PROVE  file'.clients = file.clients /\ rolledBack' = rolledBack
<1>1. Announce => file'.clients = file.clients /\ rolledBack' = rolledBack
  BY DEF Announce, IdInv, TypeInv, TypeOK, File
<1>2. ASSUME NEW r \in Request, Work(r) PROVE UNCHANGED <<file, rolledBack>>
  BY <1>2
     DEF Work, Load, ListInbounds, InboundNotFound, GetClientNone, GetClientFound,
         AddClient, AttachClient, Fail, GiveUp, Raise, history
<1>3. ASSUME NEW r \in Request, EnsureTelegramUser(r) \/ IssueManualClient(r)
      PROVE  UNCHANGED <<file, rolledBack>>
  BY <1>3 DEF EnsureTelegramUser, IssueManualClient, Enqueue, history
<1>4. LateWrite \/ Crash \/ UNCHANGED vars => UNCHANGED <<file, rolledBack>>
  BY DEF LateWrite, Crash, vars, history
<1> QED BY <1>1, <1>2, <1>3, <1>4 DEF Next

-----------------------------------------------------------------------------
(* The record of a client has the id of the last answer.                   *)
LEMMA IdsDeliver == IdInv => DeliveredUrlResolves
<1> SUFFICES ASSUME IdInv, NEW r \in Request, pc[r] = "done", who[r] \notin rolledBack
             PROVE  <<"id", sub[r]>> \in Tokens(who[r], file.clients[who[r]])
  BY DEF DeliveredUrlResolves
<1>1. /\ file.clients[who[r]] # NoRecord /\ file.clients[who[r]].sub = sub[r]
      /\ sub[r] # None
  BY NamesAssumption DEF IdInv, Recorded
<1> QED BY <1>1 DEF Tokens, TokensWith, EffectiveSubId

(* The id a request answered with goes on resolving to its client, until   *)
(* another client's save writes an older copy of the record back.          *)
THEOREM DeliveredResolves == Spec => []DeliveredUrlResolves
BY IdsDeliver, SpecIds, PTL

(* What a step does to the URLs, of the records it does not lose.          *)
UrlsSurvive ==
    \A c \in Client \ rolledBack', salted \in BOOLEAN :
        LET was == file.clients[c]
            is  == TokensWith(salted, c, file'.clients[c]) IN
        was # NoRecord =>
           /\ was.sub # None => TokensWith(salted, c, was) \subseteq is
           /\ {<<"id", i>> : i \in LegacyIds(c, was)} \subseteq is

(* What a save does to the ids of a record it does not lose.               *)
LEMMA SaveKeepsIds ==
    ASSUME IdInv, NEW r \in Request, Persist(r) \/ ProvisionNowhere(r),
           NEW c \in Client \ rolledBack', file.clients[c] # NoRecord
    PROVE  LET was == file.clients[c]
               is  == file'.clients[c]
           IN  /\ is # NoRecord
               /\ was.sub # None => is.sub = was.sub /\ is.legacy = was.legacy
               /\ LegacyIds(c, was) \subseteq LegacyIds(c, is)
<1>1. CASE c = who[r]
  <2>1. PICK rec \in Record \cup {NoRecord} :
          /\ file'.clients[c] = NextRecord(c, rec, FinalSubId(r, rec))
          /\ c \notin rolledBack => rec = file.clients[c]
    BY <1>1, SaveWrites
  <2>2. c \notin rolledBack
    BY <1>1, SaveWrites
  <2> QED
    BY <2>1, <2>2, WrittenRecord, NamesAssumption DEF LegacyIds, SubId
<1>2. CASE c # who[r]
  BY <1>2, SaveWrites
<1> QED BY <1>1, <1>2

LEMMA NextUrls ==
    ASSUME IdInv, [Next]_vars
    PROVE  UrlsSurvive
<1> SUFFICES ASSUME NEW c \in Client \ rolledBack', NEW salted \in BOOLEAN,
                    file.clients[c] # NoRecord
             PROVE  LET was == file.clients[c]
                        is  == TokensWith(salted, c, file'.clients[c])
                    IN  /\ was.sub # None => TokensWith(salted, c, was) \subseteq is
                        /\ {<<"id", i>> : i \in LegacyIds(c, was)} \subseteq is
  BY DEF UrlsSurvive
<1> DEFINE was == file.clients[c]
           is  == file'.clients[c]
<1>1. /\ is # NoRecord
      /\ was.sub # None => is.sub = was.sub /\ is.legacy = was.legacy
      /\ LegacyIds(c, was) \subseteq LegacyIds(c, is)
  BY SaveKeepsIds, OthersSaveNothing
<1> HIDE DEF was, is
<1>2. {<<"id", i>> : i \in LegacyIds(c, was)} \subseteq TokensWith(salted, c, is)
  BY <1>1 DEF TokensWith
<1>3. was.sub # None => TokensWith(salted, c, was) \subseteq TokensWith(salted, c, is)
  BY <1>1 DEF TokensWith, TokenWith, EffectiveSubId, LegacyIds
<1> QED BY <1>2, <1>3 DEF was, is

(* A URL that finds a client keeps finding it, with and without a salt: a  *)
(* record with a subId loses no token, one without keeps the tokens of its *)
(* legacy ids.  Not covered: records another client's save overwrote with  *)
(* an older copy; and, of a record without a subId, its hashed token and   *)
(* the client id it has beside a legacySubId.                              *)
THEOREM UrlsStay == Spec => UrlsKept
<1>1. IdInv /\ [Next]_vars => UrlsSurvive
  BY NextUrls
<1> QED BY <1>1, SpecIds, PTL DEF Spec, UrlsKept, UrlsSurvive
-----------------------------------------------------------------------------
(* The registry *)

LEMMA RegistryInit == Init => Registry!Init
<1> SUFFICES ASSUME Init PROVE Registry!Init
  OBVIOUS
<1>1. PICK d \in InitialData : file.clients = d.clients
  BY DEF Init
<1>2. file.clients \in Clients /\ rolledBack = {}
  BY InitTypeInv DEF Init, TypeInv, TypeOK, File
<1>3. IssuedIds \in [Client -> SubId \cup {None}]
  BY <1>2 DEF IssuedIds, Clients, Record
<1>4. ASSUME NEW c \in Client, NEW e \in Client, c # e, IssuedIds[c] = IssuedIds[e]
      PROVE  IssuedIds[c] = None
  BY <1>1, <1>2, <1>4, IdsAssumption DEF IssuedIds
<1> QED BY <1>3, <1>4 DEF Registry!Init

LEMMA RegistrySame ==
    ASSUME IdInv, file'.clients = file.clients, rolledBack' = rolledBack
    PROVE  IssuedIds' = IssuedIds
BY DEF IssuedIds

(* The id a request draws is no client's before the request has ended.     *)
LEMMA DrawnIsFree ==
    ASSUME IdInv, NEW r \in Request, pc[r] \notin Ended
    PROVE  Registry!Free(r)
<1> SUFFICES ASSUME NEW c \in Client, IssuedIds[c] = r PROVE FALSE
  BY DEF Registry!Free
<1>1. r # Lost /\ r # None
  BY NamesAssumption DEF SubId
<1>2. file.clients[c] # NoRecord /\ file.clients[c].sub = r
  BY <1>1 DEF IssuedIds
<1> QED BY <1>2 DEF IdInv, DrawnOnce, Drawn

LEMMA SaveRegisters ==
    ASSUME IdInv, NEW r \in Request, Persist(r) \/ ProvisionNowhere(r), TypeInv'
    PROVE  Registry!Next
<1> DEFINE c == who[r]
           lost == rolledBack'
<1>1. PICK rec \in Record \cup {NoRecord} :
        /\ file'.clients[c] = NextRecord(c, rec, FinalSubId(r, rec))
        /\ c \notin rolledBack => rec = file.clients[c]
  BY SaveWrites
<1>2. /\ c \in Client /\ pc[r] \notin Ended /\ rolledBack \subseteq lost
      /\ c \in lost => c \in rolledBack
      /\ \A d \in Client \ {c} : d \notin lost => file'.clients[d] = file.clients[d]
  BY SaveWrites
<1>3. lost \in SUBSET Client
  BY DEF TypeInv, TypeOK
<1> DEFINE s == FinalSubId(r, rec)
<1>4. /\ file'.clients[c] # NoRecord /\ file'.clients[c].sub = s /\ s \in SubId
      /\ rec # NoRecord /\ rec.sub # None => s = rec.sub
      /\ rec = NoRecord \/ rec.sub = None => s = r
  BY <1>1, <1>2, WrittenRecord, NamesAssumption DEF FinalSubId
<1>5. /\ IssuedIds' = [d \in Client |-> IF d \in lost THEN Lost
                                      ELSE IF file'.clients[d] = NoRecord THEN None
                                      ELSE file'.clients[d].sub]
      /\ \A d \in Client : d \notin rolledBack =>
            IssuedIds[d] = IF file.clients[d] = NoRecord THEN None ELSE file.clients[d].sub
  BY DEF IssuedIds
<1>6. \A d \in Client \ {c} : d \notin lost =>
         IssuedIds[d] = IF file'.clients[d] = NoRecord THEN None ELSE file'.clients[d].sub
  BY <1>2, <1>5
<1> HIDE DEF c, lost, s
<1>7. CASE c \in lost \/ (rec # NoRecord /\ rec.sub # None)
  <2>1. c \in lost \/ IssuedIds[c] = file'.clients[c].sub
    BY <1>1, <1>2, <1>4, <1>5, <1>7
  <2>2. IssuedIds' = [d \in Client |-> IF d \in lost THEN Lost ELSE IssuedIds[d]]
    BY <1>2, <1>4, <1>5, <1>6, <2>1
  <2> QED BY <1>3, <2>2 DEF Registry!Next, Registry!Lose
<1>8. CASE c \notin lost /\ ~ (rec # NoRecord /\ rec.sub # None)
  <2>1. s = r /\ IssuedIds[c] = None
    BY <1>1, <1>2, <1>4, <1>5, <1>8
  <2>2. Registry!Free(s)
    BY <1>2, <2>1, DrawnIsFree
  <2>3. IssuedIds' = [d \in Client |-> IF d \in lost THEN Lost
                                      ELSE IF d = c THEN s ELSE IssuedIds[d]]
    BY <1>2, <1>4, <1>5, <1>6
  <2> QED BY <1>2, <1>3, <1>4, <1>8, <2>1, <2>2, <2>3 DEF Registry!Next, Registry!Lose
<1> QED BY <1>7, <1>8

LEMMA NextRegistry ==
    ASSUME IdInv, [Next]_vars
    PROVE  Registry!Next \/ IssuedIds' = IssuedIds
<1>1. CASE \E r \in Request : Persist(r) \/ ProvisionNowhere(r)
  BY <1>1, SaveRegisters, NextTypeInv DEF IdInv
<1>2. CASE ~ \E r \in Request : Persist(r) \/ ProvisionNowhere(r)
  BY <1>2, OthersSaveNothing, RegistrySame
<1> QED BY <1>1, <1>2

(* data.json keeps the registry's promise: one id for a client, no other   *)
(* client's, and for good, unless the record is lost.                      *)
THEOREM KeepsRegistry == Spec => ImplementsRegistry
<1>1. IdInv /\ [Next]_vars => [Registry!Next]_IssuedIds
  BY NextRegistry
<1> QED
  BY <1>1, RegistryInit, SpecIds, PTL DEF Spec, ImplementsRegistry, Registry!Spec
-----------------------------------------------------------------------------
(* Panels and records *)

(* What a panel knows of a client is what its record has; and of a client  *)
(* without a record, what a request for it is about to record.             *)
Agrees(c, n) ==
    panel[n][c] # Absent =>
       /\ file.clients[c] = NoRecord =>
             \E r \in Request :
                pc[r] \in InsideLock /\ who[r] = c /\ panel[n][c].sub = sub[r]
       /\ file.clients[c] # NoRecord
             /\ file.clients[c].sub # None /\ file.clients[c].legacy = None
          => panel[n][c].sub = file.clients[c].sub

AgreeInv ==
    /\ IdInv
    /\ \A w \in wire : w.client \in disturbed
    /\ \A c \in Client \ (rolledBack \cup disturbed), n \in Node : Agrees(c, n)

(* A step that saves nothing and ends no undisturbed request, and leaves   *)
(* this panel entry as it is.                                              *)
LEMMA StillAgrees ==
    ASSUME AgreeInv, NEW n \in Node, NEW c \in Client \ (rolledBack \cup disturbed),
           file'.clients[c] = file.clients[c],
           panel'[n][c] # Absent =>
              panel[n][c] # Absent /\ panel'[n][c].sub = panel[n][c].sub,
           \A r \in Request : pc[r] \in InsideLock /\ who[r] = c =>
              pc'[r] \in InsideLock /\ who'[r] = who[r] /\ sub'[r] = sub[r]
    PROVE  Agrees(c, n)'
<1>1. Agrees(c, n)
  BY DEF AgreeInv
<1> QED BY <1>1 DEF Agrees

(* An add of a request writes the id its record has, or will have.         *)
LEMMA AddAgrees ==
    ASSUME AgreeInv, NEW r \in Request, AddClient(r)
    PROVE  \A c \in Client \ (rolledBack \cup disturbed), n \in Node : Agrees(c, n)'
<1>1. PICK m \in Node : PanelAdd(m, who[r], sub[r], missing[r]) /\ FinishNode(r, m)
  BY DEF AddClient
<1>2. /\ who[r] \in Client /\ pc[r] \in InsideLock /\ pc'[r] \in InsideLock
      /\ \A q \in Request \ {r} : pc'[q] = pc[q]
      /\ UNCHANGED <<file, who, sub, rolledBack, disturbed>>
  BY <1>1, InsideType
     DEF AddClient, FinishNode, InsideLock, history, AgreeInv, IdInv, TypeInv, TypeOK
<1>3. ASSUME NEW c \in Client \ (rolledBack \cup disturbed), NEW n \in Node
      PROVE  Agrees(c, n)'
  <2>1. CASE c = who[r] /\ n = m
    <3>1. panel'[n][c].sub = sub[r]
      BY <1>1, <2>1 DEF PanelAdd, AgreeInv, IdInv, TypeInv, TypeOK, Panels
    <3>2. sub[r] = FinalSubId(r, file.clients[c])
      BY <1>2, <2>1 DEF AgreeInv, IdInv, InStep
    <3>3. file.clients[c] # NoRecord /\ file.clients[c].sub # None =>
             sub[r] = file.clients[c].sub
      BY <3>2 DEF FinalSubId
    <3> QED BY <1>2, <2>1, <3>1, <3>3 DEF Agrees
  <2>2. CASE ~ (c = who[r] /\ n = m)
    <3>1. panel'[n][c] = panel[n][c]
      BY <1>1, <2>2 DEF PanelAdd, AgreeInv, IdInv, TypeInv, TypeOK, Panels
    <3> QED BY <1>2, <3>1, StillAgrees
  <2> QED BY <2>1, <2>2
<1> QED BY <1>3

(* What is saved is what the panels were told.                             *)
LEMMA SaveAgrees ==
    ASSUME AgreeInv, NEW r \in Request, Persist(r) \/ ProvisionNowhere(r)
    PROVE  /\ \A c \in Client \ (rolledBack' \cup disturbed), n \in Node : Agrees(c, n)'
           /\ UNCHANGED wire /\ disturbed \subseteq disturbed'
<1>1. PICK rec \in Record \cup {NoRecord} :
        /\ sub'[r] = FinalSubId(r, rec)
        /\ file'.clients[who[r]] = NextRecord(who[r], rec, FinalSubId(r, rec))
        /\ who[r] \notin rolledBack => rec = file.clients[who[r]]
  BY SaveWrites DEF AgreeInv
<1>2. /\ who[r] \in Client /\ Holds(r) /\ rolledBack \subseteq rolledBack'
      /\ \A q \in Request \ {r} : pc'[q] = pc[q] /\ sub'[q] = sub[q]
      /\ UNCHANGED <<panel, who, wire>> /\ disturbed \subseteq disturbed'
      /\ \A c \in Client \ {who[r]} :
            c \notin rolledBack' => file'.clients[c] = file.clients[c]
  BY SaveWrites DEF AgreeInv
<1>3. ASSUME NEW c \in Client \ (rolledBack' \cup disturbed), NEW n \in Node,
             panel[n][c] # Absent
      PROVE  Agrees(c, n)'
  <2>1. Agrees(c, n)
    BY <1>2 DEF AgreeInv
  <2>2. CASE c # who[r]
    BY <1>2, <2>2, StillAgrees
  <2>3. CASE c = who[r]
    <3>1. rec = file.clients[c]
      BY <1>1, <1>2, <2>3
    <3>2. CASE file.clients[c] = NoRecord
      <4>1. PICK q \in Request :
              pc[q] \in InsideLock /\ who[q] = c /\ panel[n][c].sub = sub[q]
        BY <1>3, <2>1, <3>2 DEF Agrees
      <4>2. q = r
        BY <1>2, <2>3, <4>1, InsideType DEF Holds, AgreeInv, IdInv
      <4>3. Persist(r) /\ sub'[r] = sub[r]
        BY <4>1, <4>2 DEF Persist, ProvisionNowhere, InsideLock
      <4>4. file'.clients[c] # NoRecord /\ file'.clients[c].sub = FinalSubId(r, rec)
        BY <1>1, <1>2, <2>3, WrittenRecord, NamesAssumption
      <4>5. file'.clients[c].sub = panel'[n][c].sub
        BY <1>1, <1>2, <4>1, <4>2, <4>3, <4>4
      <4> QED BY <4>4, <4>5 DEF Agrees
    <3>3. CASE file.clients[c] # NoRecord
      BY <1>1, <1>2, <1>3, <2>1, <2>3, <3>1, <3>3, WrittenRecord, NamesAssumption
         DEF Agrees, SubId
    <3> QED BY <3>2, <3>3
  <2> QED BY <2>2, <2>3
<1>4. ASSUME NEW c \in Client, NEW n \in Node, panel[n][c] = Absent PROVE Agrees(c, n)'
  BY <1>2, <1>4 DEF Agrees
<1> QED BY <1>2, <1>3, <1>4

LEMMA AttachKeepsSub ==
    ASSUME TypeOK, NEW m \in Node, NEW d \in Client, NEW on \in SUBSET Tag,
           PanelAttach(m, d, on)
    PROVE  \A n \in Node, c \in Client : panel'[n][c] # Absent =>
              panel[n][c] # Absent /\ panel'[n][c].sub = panel[n][c].sub
<1>1. panel[m][d] \in Entry
  BY DEF PanelAttach, TypeOK, Panels
<1> QED BY <1>1 DEF PanelAttach, TypeOK, Panels, Entry

(* What the steps of one request do to the others, and to the wire.        *)
LEMMA WorkAgrees ==
    ASSUME AgreeInv, NEW r \in Request, Work(r)
    PROVE  /\ \A w \in wire' : w.client \in disturbed'
           /\ \A c \in Client \ (rolledBack' \cup disturbed'), n \in Node : Agrees(c, n)'
<1>1. CASE Persist(r) \/ ProvisionNowhere(r)
  BY <1>1, SaveAgrees DEF AgreeInv
<1>2. CASE AddClient(r)
  BY <1>2, AddAgrees DEF AddClient, AgreeInv, history
<1>3. CASE AttachClient(r)
  <2>1. PICK m \in Node : PanelAttach(m, who[r], missing[r]) /\ FinishNode(r, m)
    BY <1>3 DEF AttachClient
  <2>2. /\ pc[r] \in InsideLock /\ pc'[r] \in InsideLock
        /\ \A q \in Request \ {r} : pc'[q] = pc[q]
        /\ UNCHANGED <<file, who, sub, wire, rolledBack, disturbed>>
    BY <1>3, <2>1
       DEF AttachClient, FinishNode, InsideLock, history, AgreeInv, IdInv, TypeInv, TypeOK
  <2>3. \A n \in Node, c \in Client : panel'[n][c] # Absent =>
           panel[n][c] # Absent /\ panel'[n][c].sub = panel[n][c].sub
    <3>1. TypeOK /\ who[r] \in Client /\ missing[r] \in SUBSET Tag
      BY <2>2, InsideType DEF AgreeInv, IdInv, TypeInv, TypeOK
    <3> QED BY <2>1, <3>1, AttachKeepsSub
  <2> QED BY <2>2, <2>3, StillAgrees DEF AgreeInv
<1>4. CASE Load(r) \/ ListInbounds(r) \/ GetClientNone(r) \/ GetClientFound(r)
  <2>1. /\ \A q \in Request : pc[q] \in InsideLock =>
               pc'[q] \in InsideLock /\ sub'[q] = sub[q]
        /\ UNCHANGED <<file, panel, who, wire, rolledBack, disturbed>>
    BY <1>4
       DEF Load, ListInbounds, GetClientNone, GetClientFound, FinishNode, InsideLock,
           local, history, AgreeInv, IdInv, TypeInv, TypeOK
  <2> QED BY <2>1, StillAgrees DEF AgreeInv
<1>5. CASE InboundNotFound(r) \/ Fail(r) \/ GiveUp(r)
  <2>1. /\ \A q \in Request \ {r} : pc'[q] = pc[q]
        /\ disturbed' = disturbed \cup {who[r]}
        /\ UNCHANGED <<file, panel, who, sub, rolledBack>>
        /\ wire' \subseteq wire \cup PendingWrites(r)
    BY <1>5
       DEF InboundNotFound, Fail, GiveUp, Raise, Leave, AgreeInv, IdInv, TypeInv, TypeOK
  <2>2. \A w \in PendingWrites(r) : w.client = who[r]
    BY DEF PendingWrites
  <2>3. \A w \in wire' : w.client \in disturbed'
    BY <2>1, <2>2 DEF AgreeInv
  <2> QED BY <2>1, <2>3, StillAgrees DEF AgreeInv
<1> QED BY <1>1, <1>2, <1>3, <1>4, <1>5 DEF Work

LEMMA NextAgrees == AgreeInv /\ [Next]_vars => AgreeInv'
<1> SUFFICES ASSUME AgreeInv, [Next]_vars PROVE AgreeInv'
  OBVIOUS
<1> SUFFICES /\ \A w \in wire' : w.client \in disturbed'
             /\ \A c \in Client \ (rolledBack' \cup disturbed'), n \in Node : Agrees(c, n)'
  BY NextIds DEF AgreeInv
<1>1. CASE \E r \in Request : Work(r)
  BY <1>1, WorkAgrees
<1>2. CASE \E r \in Request : EnsureTelegramUser(r) \/ IssueManualClient(r)
  <2>1. PICK r \in Request, c \in Client : Enqueue(r, c)
    BY <1>2, ConstantsAssumption DEF EnsureTelegramUser, IssueManualClient
  <2>2. /\ \A q \in Request : pc[q] \in InsideLock =>
               pc'[q] \in InsideLock /\ who'[q] = who[q]
        /\ UNCHANGED <<file, panel, sub, wire, rolledBack, disturbed>>
    BY <2>1 DEF Enqueue, InsideLock, history, AgreeInv, IdInv, TypeInv, TypeOK
  <2> QED BY <2>2, StillAgrees DEF AgreeInv
<1>3. CASE LateWrite
  <2>1. PICK w \in wire :
          /\ \/ PanelAdd(w.node, w.client, w.sub, w.on)
             \/ PanelAttach(w.node, w.client, w.on)
          /\ wire' = wire \ {w}
          /\ UNCHANGED <<file, pc, local, history>>
    BY <1>3 DEF LateWrite
  <2>2. w.client \in disturbed
    BY DEF AgreeInv
  <2>3. \A n \in Node, c \in Client : c # w.client => panel'[n][c] = panel[n][c]
    <3>1. panel \in Panels /\ w.node \in Node /\ w.client \in Client
      BY DEF AgreeInv, IdInv, TypeInv, TypeOK, Write
    <3>2. \E e : panel' = [panel EXCEPT ![w.node][w.client] = e]
      BY <2>1 DEF PanelAdd, PanelAttach
    <3> QED BY <3>1, <3>2 DEF Panels
  <2>4. UNCHANGED <<file, pc, who, sub, rolledBack, disturbed>> /\ wire' \subseteq wire
    BY <2>1 DEF local, history
  <2>5. \A w2 \in wire' : w2.client \in disturbed'
    BY <2>4 DEF AgreeInv
  <2>6. ASSUME NEW c \in Client \ (rolledBack' \cup disturbed'), NEW n \in Node
        PROVE  Agrees(c, n)'
    <3>1. panel'[n][c] = panel[n][c]
      BY <2>2, <2>3, <2>4
    <3> QED BY <2>4, <3>1, StillAgrees
  <2> QED BY <2>5, <2>6
<1>4. CASE Announce
  <2>1. file'.clients = file.clients /\ UNCHANGED <<panel, pc, who, sub, wire>>
        /\ UNCHANGED <<rolledBack, disturbed>>
    BY <1>4 DEF Announce, local, AgreeInv, IdInv, TypeInv, TypeOK, File
  <2> QED BY <2>1, StillAgrees DEF AgreeInv
<1>5. CASE Crash
  <2> DEFINE dead == {r \in Request : pc[r] \in InsideLock \cup {"waiting"}}
  <2>1. /\ wire' = wire \cup UNION {PendingWrites(r) : r \in dead}
        /\ disturbed' = disturbed \cup {who[r] : r \in dead}
        /\ UNCHANGED <<file, panel, who, sub, rolledBack>>
    BY <1>5 DEF Crash
  <2>2. \A r \in dead : \A w \in PendingWrites(r) : w.client = who[r]
    BY DEF PendingWrites
  <2>3. \A w \in wire' : w.client \in disturbed'
    BY <2>1, <2>2 DEF AgreeInv
  <2>4. \A c \in Client \ disturbed', r \in Request :
           ~ (pc[r] \in InsideLock /\ who[r] = c)
    BY <2>1
  <2> QED BY <2>1, <2>3, <2>4, StillAgrees
<1>6. CASE UNCHANGED vars
  BY <1>6, StillAgrees DEF AgreeInv, vars, local, history
<1> QED BY <1>1, <1>2, <1>3, <1>4, <1>5, <1>6 DEF Next

(* What the panels hold when the service starts is what data.json says:    *)
(* the state migrations and earlier runs leave.                            *)
AgreedAtStart ==
    \A d \in InitialData, c \in Client, n \in Node :
        d.panel[n][c] # Absent =>
            /\ d.clients[c] # NoRecord
            /\ d.clients[c].sub # None /\ d.clients[c].legacy = None
                  => d.panel[n][c].sub = d.clients[c].sub

(* The panels know a client by the subId of its record, as long as no      *)
(* request for it ended in an error: the lock, and the id being taken from *)
(* the record whenever it has one, keep the two stores in step.            *)
THEOREM PanelsAgree ==
    ASSUME AgreedAtStart
    PROVE  Spec => []PanelsAgreeWithRecord
<1>1. Init => AgreeInv
  <2> SUFFICES ASSUME Init PROVE AgreeInv
    OBVIOUS
  <2>1. PICK d \in InitialData :
          file = [clients |-> d.clients, subscription |-> None] /\ panel = d.panel
    BY DEF Init
  <2>2. \A c \in Client, n \in Node : Agrees(c, n)
    BY <2>1 DEF Agrees, AgreedAtStart
  <2> QED BY <2>2, InitIds DEF Init, AgreeInv
<1>2. AgreeInv => PanelsAgreeWithRecord
  BY DEF AgreeInv, Agrees, PanelsAgreeWithRecord
<1> QED BY <1>1, <1>2, NextAgrees, PTL DEF Spec
=============================================================================
