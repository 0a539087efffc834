----------------------- MODULE SubscriptionFeedProofs -----------------------
(***************************************************************************)
(* What holds of SubscriptionFeed for every set of clients, nodes and      *)
(* tags, for every title an operator gives an inbound, and for whatever    *)
(* the panels answer.                                                      *)
(***************************************************************************)
EXTENDS SubscriptionFeed, ProvisioningProofs, LoopLemmas

-----------------------------------------------------------------------------
(* The GETs change nothing of the service: what Provisioning promises is   *)
(* promised beside them.                                                   *)
LEMMA FeedKeepsService == FeedSpec => Spec
<1>1. FeedInit => Init
  BY DEF FeedInit
<1>2. [FeedNext]_<<vars, feedVars>> => [Next]_vars
  BY DEF FeedNext, FeedBegin, ListTitles, GetLinks, GetNoLinks, GetFallbackLinks,
         GetNoFallbackLinks, GetTraffic, NodeFails, FetchTimesOut, SetFetch,
         FeedDeliver, FeedDone, Rename, Elsewhere
<1> QED BY <1>1, <1>2, PTL DEF FeedSpec, Spec

(* An acknowledged announcement is safe beside the GETs as well.           *)
THEOREM AnnouncementSafeInFeeds == FeedSpec => []AnnouncementKept
BY FeedKeepsService, AnnouncementSafe, PTL

-----------------------------------------------------------------------------
(* Whose an id is: the client's that the service started with it for, or   *)
(* that a request drew it for.                                             *)
Drew(c) == {r \in Request : pc[r] # "idle" /\ who[r] = c}
Owned(d, c) == Ids(c, d.clients[c]) \cup Drew(c)
Owns(d, c, rec) ==
    /\ Ids(c, rec) \subseteq Owned(d, c)
    /\ rec # NoRecord => LegacyIds(c, rec) \subseteq Ids(c, d.clients[c])

RecordIds(d) ==
    /\ \A c \in Client : Owns(d, c, file.clients[c])
    /\ \A r \in Request : pc[r] \in InsideLock =>
          \A c \in Client : Owns(d, c, snapshot[r].clients[c])

(* The record the GET found: it has the id of the public URL, or has been  *)
(* given a subId since; and an id it was found by is its legacy id.        *)
UrlId(e) ==
    LET rec == file.clients[feed.client] IN
    /\ feed.url = <<IF Salted THEN "hash" ELSE "id", e>>
    /\ feed.client \notin rolledBack =>
          /\ rec # NoRecord
          /\ rec.sub = e \/ (e = feed.client /\ rec.sub \in Request \cup {None})

AskedFor(d) ==
    LET rec == file.clients[feed.client] IN
    \/ feed.asked = feed.url
    \/ Salted /\ \E x \in SubId : feed.asked = <<"id", x>>
    \/ \E x \in Ids(feed.client, d.clients[feed.client]) :
          /\ feed.asked = <<"id", x>>
          /\ feed.client \notin rolledBack => rec # NoRecord /\ rec.sub # x

TokenInv(d) ==
    feed.at # "idle" =>
       /\ feed.client \in Client
       /\ \E e \in Owned(d, feed.client) : UrlId(e)
       /\ AskedFor(d)

IdsFrom(d) == RecordIds(d) /\ TokenInv(d)

-----------------------------------------------------------------------------
(* The inbounds a request answered with exist, and the client is on them.  *)
LiveInv(r) ==
    /\ pc[r] \in InsideLock =>
          \A n \in done[r] : NodeTargets(plan[r], n) \subseteq live
    /\ pc[r] = "done" =>
          \A n \in PlannedNodes(plan[r]) : NodeTargets(plan[r], n) \subseteq live
    /\ pc[r] \in {"looking", "adding", "attaching"} =>
          \A n \in Node : IsNextNode(r, n) => NodeTargets(plan[r], n) \subseteq live

PromisedInv ==
    \A t \in feed.promised :
       NodeOf[t] # External => t \in AttachedOn(NodeOf[t], feed.client)

TitleMap == UNION {[ts -> Title] : ts \in SUBSET Tag}
LinkMap == UNION {[ks -> Tag] : ks \in SUBSET Title}
Fetch == [at : FetchAt, titles : TitleMap, links : LinkMap,
          of : Client \cup Shared \cup {None}, exact : BOOLEAN]
LinkSet == [tag : Tag, inbound : Tag, of : Client \cup Shared \cup {External}]

FeedType ==
    /\ feed \in [at : {"idle", "fetching", "served"}, client : Client \cup {None},
                 tags : Seq(Tag), asked : ({"id", "hash"} \X SubId) \cup {<<>>},
                 url : ({"id", "hash"} \X SubId) \cup {<<>>},
                 known : SUBSET Tag, promised : SUBSET Tag,
                 fetch : [Node -> Fetch], links : Seq(LinkSet)]
    /\ title \in [Tag -> Title] /\ renames \in 0..MaxRenames
    /\ feed.at = "idle" => feed = NoFeed
    /\ feed.at = "fetching" => feed.links = <<>>
    /\ feed.at # "idle" => feed.client \in Client

(* What a fetch has gathered of a node, in the order of its awaits.        *)
Gathered == {"linking", "fallback", "traffic", "over"}
Nothing(at) ==
    [at |-> at, titles |-> <<>>, links |-> <<>>, of |-> None, exact |-> FALSE]
Fetched(n, f) ==
    LET here == {t \in feed.promised : NodeOf[t] = n} IN
    /\ f.at = "off" <=> n \notin PlannedNodes(feed.tags)
    /\ f.at \notin Gathered => f = Nothing(f.at)
    /\ f.at \in Gathered =>
          f.titles \in [InboundsOf(n) -> Title] /\ (f.exact => Telling(f.titles))
    /\ f.at = "linking" => ~ f.exact
    /\ f.at \in {"linking", "fallback"} => f.of = None
    /\ f.at = "fallback" => Fallback(n) # None
    /\ f.of = None => f.links = <<>>
    /\ f.of # None =>
          /\ f.of \in {feed.client, Fallback(n)}
          /\ \A k \in DOMAIN f.links :
                /\ f.links[k] \in AttachedOn(n, f.of)
                /\ f.exact => f.titles[f.links[k]] = k
    /\ f.exact /\ f.of # feed.client => here = {}
    /\ f.exact /\ f.of = feed.client => \A t \in here : f.titles[t] \in DOMAIN f.links

FetchInv == \A n \in Node : Fetched(n, feed.fetch[n])

(* What the loop over the tags has put together.                           *)
Selected(s) ==
    /\ \A i \in 1..Len(s) :
          \E k \in 1..Len(feed.tags) : HasLink(feed.tags[k]) /\ s[i] = Link(feed.tags[k])
    /\ \A i, j \in 1..Len(s) : i < j =>
          \E k, l \in 1..Len(feed.tags) :
             k < l /\ feed.tags[k] = s[i].tag /\ feed.tags[l] = s[j].tag
    /\ \A k \in 1..Len(feed.tags) : HasLink(feed.tags[k]) =>
          \E i \in 1..Len(s) : s[i] = Link(feed.tags[k])

ServedInv ==
    feed.at = "served" =>
       /\ \A n \in Node : feed.fetch[n].at \in {"off", "over", "failed"}
       /\ Selected(feed.links)

FeedInv ==
    /\ FeedType /\ PromisedInv /\ FetchInv /\ ServedInv
    /\ \A r \in Request : LiveInv(r)
    /\ \E d \in InitialData : IdsFrom(d)

-----------------------------------------------------------------------------
(* What the service does beside a GET *)

(* Panels only gain clients and inbounds of clients, and data.json keeps   *)
(* its inbounds.                                                           *)
LEMMA NextGrows ==
    ASSUME AttachedInv, [Next]_vars
    PROVE  PanelGrows /\ UNCHANGED live
<1>1. ASSUME NEW r \in Request, Work(r) PROVE PanelGrows /\ UNCHANGED live
  <2>1. PanelGrows
    BY <1>1, WorkLoop
  <2>2. UNCHANGED live
    BY <1>1
       DEF Work, Load, ProvisionNowhere, ListInbounds, InboundNotFound, GetClientNone,
           GetClientFound, AddClient, AttachClient, Persist, Fail, GiveUp, Raise
  <2> QED BY <2>1, <2>2
<1>2. ASSUME NEW r \in Request, EnsureTelegramUser(r) \/ IssueManualClient(r)
      PROVE  PanelGrows /\ UNCHANGED live
  BY <1>2, PanelSame DEF EnsureTelegramUser, IssueManualClient, Enqueue
<1>3. CASE LateWrite
  <2>1. PICK w \in wire :
          /\ PanelAdd(w.node, w.client, w.sub, w.on)
             \/ PanelAttach(w.node, w.client, w.on)
          /\ UNCHANGED live
    BY <1>3 DEF LateWrite
  <2>2. /\ w.node \in Node /\ w.client \in Client /\ w.sub \in SubId
        /\ w.on \in SUBSET Tag /\ TypeOK
    BY DEF AttachedInv, TypeInv, TypeOK, Write
  <2> QED BY <2>1, <2>2, WriteGrows
<1>4. CASE Announce \/ Crash \/ UNCHANGED vars
  BY <1>4, PanelSame DEF Announce, Crash, vars
<1> QED BY <1>1, <1>2, <1>3, <1>4 DEF Next

(* A step of the service gives a client at most a further id.              *)
LEMMA NextDrew ==
    ASSUME TypeInv, [Next]_vars, NEW c
    PROVE  Drew(c) \subseteq Drew(c)'
<1> SUFFICES ASSUME NEW q \in Request, pc[q] # "idle"
             PROVE  pc'[q] # "idle" /\ who'[q] = who[q]
  BY DEF Drew
<1> USE DEF TypeInv, TypeOK
<1>1. ASSUME NEW r \in Request, NEW d \in Client, Enqueue(r, d)
      PROVE  pc'[q] # "idle" /\ who'[q] = who[q]
  BY <1>1 DEF Enqueue
<1>2. ASSUME NEW r \in Request, Work(r)
      PROVE  pc'[q] # "idle" /\ who'[q] = who[q]
  BY <1>2
     DEF Work, Load, ProvisionNowhere, ListInbounds, InboundNotFound, GetClientNone,
         GetClientFound, AddClient, AttachClient, Persist, Fail, GiveUp, Raise, Leave,
         SaveEnds, FinishNode, local
<1>3. ASSUME NEW r \in Request, EnsureTelegramUser(r) \/ IssueManualClient(r)
      PROVE  pc'[q] # "idle" /\ who'[q] = who[q]
  BY <1>1, <1>3, ConstantsAssumption DEF EnsureTelegramUser, IssueManualClient
<1>4. CASE LateWrite \/ Announce \/ UNCHANGED vars
  BY <1>4 DEF LateWrite, Announce, local, vars
<1>5. CASE Crash
  BY <1>5 DEF Crash
<1> QED BY <1>2, <1>3, <1>4, <1>5 DEF Next

(* A request that saves gives its client the id it drew, or none.          *)
LEMMA WrittenOwned ==
    ASSUME NEW d \in InitialData, NEW c \in Client, NEW r \in Request,
           pc'[r] # "idle", who'[r] = c, NEW rec \in Record \cup {NoRecord},
           Owns(d, c, rec), Drew(c) \subseteq Drew(c)'
    PROVE  Owns(d, c, NextRecord(c, rec, FinalSubId(r, rec)))'
<1> DEFINE is == NextRecord(c, rec, FinalSubId(r, rec))
<1>1. r \in Drew(c)'
  BY DEF Drew
<1>2. /\ is # NoRecord /\ is.sub = FinalSubId(r, rec) /\ is.sub # None
      /\ rec # NoRecord /\ rec.sub # None => is.sub = rec.sub
      /\ rec # NoRecord /\ rec.legacy # None => is.legacy = rec.legacy
      /\ rec # NoRecord /\ rec.legacy = None /\ rec.sub = None => is.legacy = c
      /\ rec # NoRecord /\ rec.legacy = None /\ rec.sub # None => is.legacy = None
  BY WrittenRecord, NamesAssumption
<1>3. rec = NoRecord => is.legacy = None /\ is.sub = r
  BY DEF NextRecord, LegacySubId, FinalSubId
<1>4. rec # NoRecord /\ rec.sub = None => is.sub = r
  BY <1>2 DEF FinalSubId
<1> HIDE DEF is
<1>5. c # None
  BY NamesAssumption DEF SubId
<1>6. EffectiveSubId(c, is) = is.sub
  BY <1>2 DEF EffectiveSubId
<1>7. LegacyIds(c, is) \subseteq IF rec = NoRecord THEN {} ELSE LegacyIds(c, rec)
  BY <1>2, <1>3, <1>5 DEF LegacyIds
<1>8. is.sub = r \/ (rec # NoRecord /\ is.sub = EffectiveSubId(c, rec))
  BY <1>2, <1>3, <1>4 DEF EffectiveSubId
<1>9. Ids(c, is) \subseteq Ids(c, rec) \cup {r}
  BY <1>2, <1>6, <1>7, <1>8 DEF Ids
<1>10. LegacyIds(c, is) \subseteq Ids(c, d.clients[c])
  BY <1>7 DEF Owns
<1>11. Owns(d, c, is)'
  BY <1>1, <1>9, <1>10 DEF Owns, Owned
<1> QED BY <1>11 DEF is

(* A snapshot is the file at the load, and is kept inside the lock.        *)
LEMMA NextSnapshots ==
    ASSUME TypeInv, [Next]_vars, NEW q \in Request, pc'[q] \in InsideLock
    PROVE  \/ snapshot'[q] = file
           \/ pc[q] \in InsideLock /\ snapshot'[q] = snapshot[q]
<1> USE DEF TypeInv, TypeOK, InsideLock
<1>1. ASSUME NEW r \in Request, NEW d \in Client, Enqueue(r, d)
      PROVE  pc[q] \in InsideLock /\ snapshot'[q] = snapshot[q]
  BY <1>1 DEF Enqueue
<1>2. ASSUME NEW r \in Request, EnsureTelegramUser(r) \/ IssueManualClient(r)
      PROVE  pc[q] \in InsideLock /\ snapshot'[q] = snapshot[q]
  BY <1>1, <1>2, ConstantsAssumption DEF EnsureTelegramUser, IssueManualClient
<1>3. ASSUME NEW r \in Request, Work(r), ~ Load(r)
      PROVE  pc[q] \in InsideLock /\ snapshot'[q] = snapshot[q]
  BY <1>3
     DEF Work, ProvisionNowhere, ListInbounds, InboundNotFound, GetClientNone,
         GetClientFound, AddClient, AttachClient, Persist, Fail, GiveUp, Raise, Leave,
         SaveEnds, FinishNode, local
<1>4. ASSUME NEW r \in Request, Load(r)
      PROVE  \/ snapshot'[q] = file
             \/ pc[q] \in InsideLock /\ snapshot'[q] = snapshot[q]
  BY <1>4 DEF Load
<1>5. CASE LateWrite \/ Announce \/ UNCHANGED vars
  BY <1>5 DEF LateWrite, Announce, local, vars
<1>6. ~ Crash
  BY DEF Crash
<1> QED BY <1>2, <1>3, <1>4, <1>5, <1>6 DEF Next

LEMMA NextRecordIds ==
    ASSUME IdInv, [Next]_vars, NEW d \in InitialData, RecordIds(d)
    PROVE  RecordIds(d)'
<1>1. \A c \in Client : Drew(c) \subseteq Drew(c)'
  BY NextDrew DEF IdInv
<1>2. ASSUME NEW c \in Client, NEW rec, Owns(d, c, rec) PROVE Owns(d, c, rec)'
  BY <1>1, <1>2 DEF Owns, Owned
<1>3. ASSUME NEW c \in Client PROVE Owns(d, c, file.clients[c])'
  <2>1. Owns(d, c, file.clients[c])
    BY DEF RecordIds
  <2>2. CASE ~ \E r \in Request : Persist(r) \/ ProvisionNowhere(r)
    <3>1. file'.clients = file.clients
      BY <2>2, OthersSaveNothing
    <3>2. Owns(d, c, file'.clients[c]) <=> Owns(d, c, file.clients[c])
      BY <3>1
    <3> QED BY <1>1, <2>1, <3>1 DEF Owns, Owned
  <2>3. ASSUME NEW r \in Request, Persist(r) \/ ProvisionNowhere(r)
        PROVE  Owns(d, c, file.clients[c])'
    <3>1. CASE c # who[r]
      <4>1. \/ file'.clients[c] = file.clients[c]
            \/ pc[r] \in InsideLock /\ file'.clients[c] = snapshot[r].clients[c]
        BY <2>3, <3>1, SaveWrites
      <4>2. Owns(d, c, file'.clients[c])
        BY <4>1, <2>1 DEF RecordIds
      <4> QED BY <1>1, <4>2 DEF Owns, Owned
    <3>2. CASE c = who[r]
      <4>1. PICK rec \in Record \cup {NoRecord} :
              /\ file'.clients[c] = NextRecord(c, rec, FinalSubId(r, rec))
              /\ \/ rec = file.clients[c]
                 \/ pc[r] \in InsideLock /\ rec = snapshot[r].clients[c]
        BY <2>3, <3>2, SaveWrites DEF Ended
      <4>2. pc'[r] # "idle" /\ who'[r] = c
        BY <2>3, <3>2, SaveWrites DEF Ended
      <4>3. Owns(d, c, rec)
        BY <4>1, <2>1 DEF RecordIds
      <4>4. Owns(d, c, NextRecord(c, rec, FinalSubId(r, rec)))'
        BY <1>1, <4>2, <4>3, WrittenOwned
      <4> QED BY <4>1, <4>4 DEF Owns, Owned
    <3> QED BY <3>1, <3>2
  <2> QED BY <2>2, <2>3
<1>4. ASSUME NEW r \in Request, pc'[r] \in InsideLock, NEW c \in Client
      PROVE  Owns(d, c, snapshot[r].clients[c])'
  <2>1. \/ snapshot'[r] = file
        \/ pc[r] \in InsideLock /\ snapshot'[r] = snapshot[r]
    BY <1>4, NextSnapshots DEF IdInv
  <2>2. Owns(d, c, snapshot'[r].clients[c])
    BY <2>1 DEF RecordIds
  <2> QED BY <1>1, <2>2 DEF Owns, Owned
<1> QED BY <1>3, <1>4 DEF RecordIds

(* A record that is not lost is as it was, or is saved from what it was.   *)
LEMMA NextSaved ==
    ASSUME IdInv, [Next]_vars, NEW c \in Client \ rolledBack'
    PROVE  /\ c \notin rolledBack
           /\ \/ file'.clients[c] = file.clients[c]
              \/ \E r \in Request : file'.clients[c] =
                    NextRecord(c, file.clients[c], FinalSubId(r, file.clients[c]))
<1>1. CASE ~ \E r \in Request : Persist(r) \/ ProvisionNowhere(r)
  BY <1>1, OthersSaveNothing
<1>2. ASSUME NEW r \in Request, Persist(r) \/ ProvisionNowhere(r)
      PROVE  /\ c \notin rolledBack
             /\ \/ file'.clients[c] = file.clients[c]
                \/ file'.clients[c] =
                      NextRecord(c, file.clients[c], FinalSubId(r, file.clients[c]))
  <2>1. c \notin rolledBack
    BY <1>2, SaveWrites
  <2>2. CASE c = who[r]
    BY <1>2, <2>1, <2>2, SaveWrites
  <2>3. CASE c # who[r]
    BY <1>2, <2>3, SaveWrites
  <2> QED BY <2>1, <2>2, <2>3
<1> QED BY <1>1, <1>2

LEMMA SameLive ==
    ASSUME NEW q \in Request, LiveInv(q), UNCHANGED live,
           pc'[q] = pc[q], plan'[q] = plan[q], done'[q] = done[q]
    PROVE  LiveInv(q)'
<1>1. \A n \in Node : IsNextNode(q, n)' = IsNextNode(q, n)
  BY DEF IsNextNode
<1> QED BY <1>1 DEF LiveInv

(* A request reaches its writes on a node only after list_inbounds.        *)
LEMMA FinishLive ==
    ASSUME AttachedInv, NEW r \in Request, LiveInv(r), NEW n \in Node,
           pc[r] \in {"looking", "adding", "attaching"}, IsNextNode(r, n),
           FinishNode(r, n), UNCHANGED <<plan, live>>
    PROVE  LiveInv(r)'
<1>1. /\ done'[r] = done[r] \cup {n}
      /\ pc'[r] \in {"closing", "listing"}
  BY DEF FinishNode, AttachedInv, TypeInv, TypeOK
<1>2. NodeTargets(plan[r], n) \subseteq live
  BY DEF LiveInv
<1>3. \A m \in done[r] : NodeTargets(plan[r], m) \subseteq live
  BY DEF LiveInv, InsideLock
<1> QED BY <1>1, <1>2, <1>3 DEF LiveInv

LEMMA WorkLive ==
    ASSUME AttachedInv, NEW r \in Request, LiveInv(r), Work(r), UNCHANGED live
    PROVE  LiveInv(r)'
<1> USE DEF AttachedInv
<1>1. ASSUME pc'[r] = "failed" PROVE LiveInv(r)'
  BY <1>1 DEF LiveInv, InsideLock
<1>2. CASE Load(r) \/ ProvisionNowhere(r)
  <2>1. CASE Load(r)
    <3>1. done'[r] = {} /\ pc'[r] = "listing"
      BY <2>1 DEF Load, TypeInv, TypeOK, LoopInv
    <3> QED BY <3>1 DEF LiveInv
  <2>2. CASE ProvisionNowhere(r)
    <3>1. pc'[r] \in Ended /\ plan'[r] = ProvisionedTags(file.clients[who[r]])
      BY <2>2, SaveLeaves DEF ProvisionNowhere, Leave, TypeInv, TypeOK
    <3>2. PlannedNodes(plan'[r]) = {}
      BY <2>2, <3>1 DEF ProvisionNowhere
    <3> QED BY <3>1, <3>2 DEF LiveInv, Ended, InsideLock
  <2> QED BY <1>2, <2>1, <2>2
<1>3. CASE ListInbounds(r)
  <2>1. PICK n \in Node : IsNextNode(r, n) /\ NodeTargets(plan[r], n) \subseteq live
    BY <1>3 DEF ListInbounds
  <2>2. /\ pc'[r] = "looking" /\ pc[r] \in InsideLock
        /\ UNCHANGED <<plan, done>>
    BY <1>3 DEF ListInbounds, TypeInv, TypeOK, InsideLock, local
  <2>3. \A m \in Node : IsNextNode(r, m)' => m = n
    <3>1. \A m \in Node : IsNextNode(r, m)' = IsNextNode(r, m)
      BY <2>2 DEF IsNextNode
    <3> QED BY <2>1, <3>1, NextNodeUnique DEF TypeInv, TypeOK
  <2> QED BY <2>1, <2>2, <2>3 DEF LiveInv
<1>4. CASE InboundNotFound(r) \/ Fail(r) \/ GiveUp(r)
  BY <1>1, <1>4 DEF InboundNotFound, Fail, GiveUp, Raise, Leave, TypeInv, TypeOK
<1>5. ASSUME pc[r] = "looking", pc'[r] \in {"adding", "attaching"},
             UNCHANGED <<plan, done>>
      PROVE  LiveInv(r)'
  <2>1. \A m \in Node : IsNextNode(r, m)' = IsNextNode(r, m)
    BY <1>5 DEF IsNextNode
  <2> QED BY <1>5, <2>1 DEF LiveInv, InsideLock
<1>6. CASE GetClientNone(r)
  BY <1>5, <1>6 DEF GetClientNone, TypeInv, TypeOK
<1>7. CASE GetClientFound(r)
  <2>1. PICK n \in Node :
          /\ IsNextNode(r, n)
          /\ FinishNode(r, n) \/ (pc' = [pc EXCEPT ![r] = "attaching"] /\ UNCHANGED done)
    BY <1>7 DEF GetClientFound
  <2>2. pc[r] = "looking" /\ UNCHANGED plan
    BY <1>7 DEF GetClientFound
  <2>3. CASE FinishNode(r, n)
    BY <2>1, <2>2, <2>3, FinishLive
  <2>4. CASE pc' = [pc EXCEPT ![r] = "attaching"] /\ UNCHANGED done
    BY <1>5, <2>2, <2>4 DEF TypeInv, TypeOK
  <2> QED BY <2>1, <2>3, <2>4
<1>8. CASE AddClient(r) \/ AttachClient(r)
  <2>1. PICK n \in Node : IsNextNode(r, n) /\ FinishNode(r, n)
    BY <1>8 DEF AddClient, AttachClient
  <2>2. pc[r] \in {"adding", "attaching"} /\ UNCHANGED plan
    BY <1>8 DEF AddClient, AttachClient
  <2> QED BY <2>1, <2>2, FinishLive
<1>9. CASE Persist(r)
  <2>1. /\ pc'[r] \in Ended /\ pc[r] = "closing" /\ UNCHANGED plan
    BY <1>9, SaveLeaves DEF Persist, Leave, TypeInv, TypeOK
  <2>2. \A n \in PlannedNodes(plan[r]) : NodeTargets(plan[r], n) \subseteq live
    BY <2>1 DEF LiveInv, LoopInv, InsideLock
  <2> QED BY <2>1, <2>2 DEF LiveInv, Ended, InsideLock
<1> QED
  BY <1>2, <1>3, <1>4, <1>6, <1>7, <1>8, <1>9 DEF Work

LEMMA NextLive ==
    ASSUME AttachedInv, [Next]_vars, NEW q \in Request, LiveInv(q)
    PROVE  LiveInv(q)'
<1> USE DEF AttachedInv
<1>1. UNCHANGED live
  BY NextGrows
<1>2. ASSUME NEW r \in Request, NEW c \in Client, Enqueue(r, c) PROVE LiveInv(q)'
  <2>1. CASE q = r
    BY <1>2, <2>1 DEF Enqueue, TypeInv, TypeOK, LiveInv, InsideLock
  <2>2. CASE q # r
    BY <1>1, <1>2, <2>2, SameLive DEF Enqueue, TypeInv, TypeOK
  <2> QED BY <2>1, <2>2
<1>3. ASSUME NEW r \in Request, EnsureTelegramUser(r) \/ IssueManualClient(r)
      PROVE  LiveInv(q)'
  BY <1>2, <1>3, ConstantsAssumption DEF EnsureTelegramUser, IssueManualClient
<1>4. ASSUME NEW r \in Request, Work(r) PROVE LiveInv(q)'
  <2>1. CASE q = r  BY <1>1, <1>4, <2>1, WorkLive
  <2>2. CASE q # r  BY <1>1, <1>4, <2>2, WorkLocal, SameLive DEF TypeInv
  <2> QED BY <2>1, <2>2
<1>5. CASE LateWrite \/ Announce \/ UNCHANGED vars
  BY <1>1, <1>5, SameLive DEF LateWrite, Announce, local, vars
<1>6. CASE Crash
  <2>1. /\ pc'[q] \in {pc[q], "failed"} /\ pc'[q] \notin InsideLock
        /\ plan'[q] = plan[q]
    BY <1>6 DEF Crash, TypeInv, TypeOK, InsideLock
  <2> QED BY <1>1, <2>1 DEF LiveInv, InsideLock
<1> QED BY <1>3, <1>4, <1>5, <1>6 DEF Next

(* An inbound a panel client is on, it stays on.                           *)
LEMMA NextAttachedOn ==
    ASSUME AttachedInv, [Next]_vars, NEW n \in Node, NEW x \in Client \cup Shared
    PROVE  AttachedOn(n, x) \subseteq AttachedOn(n, x)'
<1>1. PanelGrows /\ UNCHANGED live
  BY NextGrows
<1>2. InboundsOf(n)' = InboundsOf(n) /\ InboundsOf(n) \subseteq Tag
  BY <1>1 DEF InboundsOf, AttachedInv, TypeInv, TypeOK
<1>3. CASE x \in Shared
  BY <1>2, <1>3 DEF AttachedOn
<1>4. CASE x \in Client \ Shared
  <2> SUFFICES ASSUME NEW t \in AttachedOn(n, x) PROVE t \in AttachedOn(n, x)'
    OBVIOUS
  <2>1. t \in InboundsOf(n) /\ OnPanel(panel, n, x, {t})
    BY <1>4 DEF AttachedOn, OnPanel
  <2>2. OnPanel(panel', n, x, {t})
    BY <1>1, <1>2, <1>4, <2>1 DEF PanelGrows
  <2> QED BY <1>2, <1>4, <2>1, <2>2 DEF AttachedOn, OnPanel
<1> QED BY <1>3, <1>4

LEMMA IdsType ==
    ASSUME NEW c \in Client, NEW rec \in Record \cup {NoRecord}
    PROVE  Ids(c, rec) \subseteq SubId /\ None \notin SubId
BY NamesAssumption DEF Ids, EffectiveSubId, LegacyIds, Record, SubId

(* The record a GET found keeps the id of the public URL, or is given its  *)
(* first; and does not take a legacy id for its subId.                     *)
LEMMA NextToken ==
    ASSUME IdInv, [Next]_vars, NEW d \in InitialData, TokenInv(d), feed' = feed
    PROVE  TokenInv(d)'
<1> SUFFICES ASSUME feed.at # "idle" PROVE TokenInv(d)'
  BY DEF TokenInv
<1> DEFINE c == feed.client
           was == file.clients[c]
           is == file'.clients[c]
<1>1. c \in Client /\ d.clients[c] \in Record \cup {NoRecord}
  BY ConstantsAssumption DEF TokenInv, Clients
<1>2. was \in Record \cup {NoRecord}
  BY <1>1 DEF IdInv, TypeInv, TypeOK, File, Clients
<1>3. PICK e \in Owned(d, c) : UrlId(e)
  BY DEF TokenInv
<1>4. e \in Owned(d, c)' /\ e # None
  <2>1. Drew(c) \subseteq Drew(c)' /\ Drew(c) \subseteq SubId
    BY NextDrew DEF IdInv, Drew, SubId
  <2> QED BY <1>1, <2>1, IdsType DEF Owned
<1>5. c \notin rolledBack' /\ was # NoRecord =>
         /\ c \notin rolledBack /\ is # NoRecord
         /\ is.sub = was.sub \/ (was.sub = None /\ is.sub \in Request)
  <2> SUFFICES ASSUME c \notin rolledBack', was # NoRecord
               PROVE  /\ c \notin rolledBack /\ is # NoRecord
                      /\ is.sub = was.sub \/ (was.sub = None /\ is.sub \in Request)
    OBVIOUS
  <2>1. c \notin rolledBack
        /\ (is = was \/ \E r \in Request : is = NextRecord(c, was, FinalSubId(r, was)))
    BY <1>1, NextSaved
  <2>2. ASSUME NEW r \in Request, is = NextRecord(c, was, FinalSubId(r, was))
        PROVE  is # NoRecord /\ (is.sub = was.sub \/ (was.sub = None /\ is.sub \in Request))
    <3>1. is # NoRecord /\ is.sub = FinalSubId(r, was)
      BY <1>1, <1>2, <2>2, WrittenRecord, NamesAssumption
    <3> QED BY <3>1 DEF FinalSubId
  <2> QED BY <2>1, <2>2
<1>6. c \notin rolledBack' => c \notin rolledBack
  BY <1>1, NextSaved
<1>7. UrlId(e)'
  BY <1>3, <1>4, <1>5, <1>6 DEF UrlId
<1>8. AskedFor(d)'
  <2>1. AskedFor(d)
    BY DEF TokenInv
  <2>2. ASSUME NEW x \in Ids(c, d.clients[c]), feed.asked = <<"id", x>>,
               c \notin rolledBack => was # NoRecord /\ was.sub # x
        PROVE  AskedFor(d)'
    <3>1. x \notin Request
      BY <1>1, FeedIdsAssumption
    <3>2. c \notin rolledBack' => is # NoRecord /\ is.sub # x
      BY <1>5, <1>6, <2>2, <3>1
    <3> QED BY <2>2, <3>2 DEF AskedFor
  <2> QED BY <2>1, <2>2 DEF AskedFor
<1> QED BY <1>1, <1>4, <1>7, <1>8 DEF TokenInv

-----------------------------------------------------------------------------
(* Nothing of it undoes what a GET holds.                                  *)
LEMMA NoLinks == <<>> \in TitleMap /\ <<>> \in LinkMap /\ NotAsked \in Fetch
<1>1. ASSUME NEW S PROVE <<>> \in [{} -> S]
  OBVIOUS
<1>2. <<>> \in TitleMap
  BY <1>1 DEF TitleMap
<1>3. <<>> \in LinkMap
  BY <1>1 DEF LinkMap
<1> QED BY <1>2, <1>3 DEF NotAsked, Fetch, FetchAt

LEMMA SamePromised ==
    ASSUME AttachedInv, [Next]_vars, FeedType, PromisedInv, feed' = feed
    PROVE  PromisedInv'
<1> SUFFICES ASSUME NEW t \in feed.promised, NodeOf[t] # External
             PROVE  t \in AttachedOn(NodeOf[t], feed.client)'
  BY DEF PromisedInv
<1>1. NodeOf[t] \in Node
  BY ConstantsAssumption DEF FeedType
<1>2. feed.client \in Client
  BY DEF FeedType, NoFeed
<1> QED BY <1>1, <1>2, NextAttachedOn DEF PromisedInv

LEMMA SameFetched ==
    ASSUME AttachedInv, [Next]_vars, FeedType, NEW n \in Node,
           Fetched(n, feed.fetch[n]), feed' = feed
    PROVE  Fetched(n, feed.fetch[n])'
<1> DEFINE f == feed.fetch[n]
<1>1. InboundsOf(n)' = InboundsOf(n)
  BY NextGrows DEF InboundsOf
<1>2. f.of # None => AttachedOn(n, f.of) \subseteq AttachedOn(n, f.of)'
  <2>1. f \in Fetch
    BY DEF FeedType
  <2> QED BY <2>1, NextAttachedOn DEF Fetch
<1>3. Fallback(n)' = Fallback(n)
  BY DEF Fallback, FirstRequested
<1> QED BY <1>1, <1>2, <1>3 DEF Fetched

LEMMA SameServed ==
    ASSUME ServedInv, feed' = feed
    PROVE  ServedInv'
<1>1. \A t : HasLink(t)' = HasLink(t) /\ Link(t)' = Link(t)
  BY DEF HasLink, Link
<1>2. ASSUME NEW s PROVE Selected(s)' = Selected(s)
  BY <1>1 DEF Selected
<1> QED BY <1>2 DEF ServedInv

(* A step of the service while the GET goes on, and one that ends it.      *)
LEMMA BesideFeed ==
    ASSUME IdInv, AttachedInv, FeedInv, [Next]_vars, feed' = feed,
           title' \in [Tag -> Title], renames' \in 0..MaxRenames
    PROVE  FeedInv'
<1>1. FeedType'
  BY DEF FeedInv, FeedType
<1>2. PromisedInv'
  BY SamePromised DEF FeedInv
<1>3. FetchInv'
  BY SameFetched DEF FeedInv, FetchInv
<1>4. ServedInv'
  BY SameServed DEF FeedInv
<1>5. \A r \in Request : LiveInv(r)'
  BY NextLive DEF FeedInv
<1>6. \E d \in InitialData : IdsFrom(d)'
  BY NextRecordIds, NextToken DEF FeedInv, IdsFrom
<1> QED BY <1>1, <1>2, <1>3, <1>4, <1>5, <1>6 DEF FeedInv

(* A node that has told nothing: not asked, or failed.                     *)
LEMMA FetchedNothing ==
    ASSUME NEW n, NEW at \in {"off", "listing", "failed"},
           at = "off" <=> n \notin PlannedNodes(feed.tags)
    PROVE  Fetched(n, Nothing(at)) /\ Nothing(at) \in Fetch
<1> DEFINE f == Nothing(at)
<1>1. /\ f.at = at /\ f.of = None /\ f.links = <<>> /\ ~ f.exact
      /\ f.at \notin Gathered
  BY DEF Gathered, Nothing
<1>2. f = Nothing(f.at)
  BY <1>1
<1>3. f \in Fetch
  BY NoLinks DEF Nothing, Fetch, FetchAt
<1> HIDE DEF f
<1>4. Fetched(n, f)
  BY <1>1, <1>2 DEF Fetched, Gathered
<1> QED BY <1>3, <1>4 DEF f

NothingAsked == feed = NoFeed /\ title \in [Tag -> Title] /\ renames \in 0..MaxRenames

LEMMA EmptyFeed == NothingAsked => FeedType /\ PromisedInv /\ FetchInv /\ ServedInv
<1> SUFFICES ASSUME NothingAsked PROVE FeedType /\ PromisedInv /\ FetchInv /\ ServedInv
  OBVIOUS
<1> USE DEF NothingAsked
<1>1. FeedType
  BY NoLinks DEF FeedType, NoFeed
<1>2. PromisedInv /\ ServedInv
  BY DEF PromisedInv, ServedInv, NoFeed
<1>3. ASSUME NEW n \in Node PROVE Fetched(n, feed.fetch[n])
  <2>1. feed.fetch[n] = NotAsked /\ feed.tags = <<>> /\ feed.promised = {}
    BY DEF NoFeed
  <2>2. PlannedNodes(feed.tags) = {}
    BY <2>1 DEF PlannedNodes, TagsOf
  <2>3. NotAsked = Nothing("off")
    BY DEF NotAsked, Nothing
  <2> QED BY <2>1, <2>2, <2>3, FetchedNothing
<1> QED BY <1>1, <1>2, <1>3 DEF FetchInv

LEMMA FeedOver ==
    ASSUME IdInv, AttachedInv, FeedInv, [Next]_vars, feed' = NoFeed,
           UNCHANGED <<title, renames>>
    PROVE  FeedInv'
<1>1. FeedType' /\ PromisedInv' /\ FetchInv' /\ ServedInv'
  <2>1. (NothingAsked => FeedType /\ PromisedInv /\ FetchInv /\ ServedInv)'
    BY EmptyFeed, PTL
  <2> QED BY <2>1 DEF NothingAsked, FeedInv, FeedType
<1>2. \A r \in Request : LiveInv(r)'
  BY NextLive DEF FeedInv
<1>3. PICK d \in InitialData : RecordIds(d)
  BY DEF FeedInv, IdsFrom
<1>4. RecordIds(d)' /\ TokenInv(d)'
  BY <1>3, NextRecordIds DEF TokenInv, NoFeed
<1> QED BY <1>1, <1>2, <1>4 DEF FeedInv, IdsFrom

LEMMA InitFeed == FeedInit => FeedInv
<1> SUFFICES ASSUME FeedInit PROVE FeedInv
  OBVIOUS
<1>1. FeedType /\ PromisedInv /\ FetchInv /\ ServedInv
  BY EmptyFeed, FeedAssumption DEF FeedInit, NothingAsked
<1>2. \A r \in Request : LiveInv(r)
  BY DEF FeedInit, Init, LiveInv, InsideLock
<1>3. PICK d \in InitialData : file.clients = d.clients
  BY DEF FeedInit, Init
<1>4. \A c \in Client : Owns(d, c, file.clients[c])
  BY <1>3 DEF Owns, Owned, Ids
<1>5. RecordIds(d) /\ TokenInv(d)
  BY <1>4 DEF FeedInit, Init, InsideLock, RecordIds, TokenInv, NoFeed
<1> QED BY <1>1, <1>2, <1>5 DEF FeedInv, IdsFrom
-----------------------------------------------------------------------------
(* The fetch of a node *)

(* The fallback client of a node that is asked is that of one of the tags. *)
LEMMA FallbackType ==
    ASSUME feed.tags \in Seq(Tag), NEW n, n \in PlannedNodes(feed.tags)
    PROVE  Fallback(n) \in Shared \cup {None}
<1> DEFINE S == {i \in 1..Len(feed.tags) : NodeOf[feed.tags[i]] = n}
<1>1. S # {} /\ S \in SUBSET Nat
  BY DEF PlannedNodes, TagsOf
<1>2. PICK k \in S : \A j \in S : k <= j
  <2> HIDE DEF S
  <2> QED BY <1>1, LeastNat
<1>3. /\ k \in 1..Len(feed.tags) /\ NodeOf[feed.tags[k]] = n
      /\ \A j \in 1..(k - 1) : NodeOf[feed.tags[j]] # n
  <2>1. \A j \in 1..(k - 1) : j \in S => k <= j
    BY <1>2
  <2> QED BY <1>2, <2>1
<1>4. FirstRequested(n) \in Tag
  BY <1>3 DEF FirstRequested
<1> QED BY <1>4, FeedAssumption DEF Fallback

LEMMA SameFallback ==
    ASSUME NEW n, feed'.tags = feed.tags
    PROVE  Fallback(n)' = Fallback(n)
<1> DEFINE First(tags) == CHOOSE i \in 1..Len(tags) :
                             /\ NodeOf[tags[i]] = n
                             /\ \A j \in 1..(i - 1) : NodeOf[tags[j]] # n
<1>1. /\ Fallback(n) = FallbackOf[feed.tags[First(feed.tags)]]
      /\ Fallback(n)' = FallbackOf[feed'.tags[First(feed'.tags)]]
  BY DEF Fallback, FirstRequested
<1> HIDE DEF First
<1> QED BY <1>1

LEMMA AskedIsPlanned ==
    ASSUME FeedInv, NEW n \in Node, feed.fetch[n].at # "off"
    PROVE  /\ feed.tags \in Seq(Tag) /\ n \in PlannedNodes(feed.tags)
           /\ Fallback(n) \in Shared \cup {None}
<1>1. feed.tags \in Seq(Tag) /\ n \in PlannedNodes(feed.tags)
  BY DEF FeedInv, FeedType, FetchInv, Fetched
<1> QED BY <1>1, FallbackType

(* A step of one fetch leaves the others, and the rest of the GET, alone.  *)
LEMMA FetchStep ==
    ASSUME IdInv, AttachedInv, FeedInv, feed.at = "fetching", NEW n \in Node,
           NEW f \in Fetch, Fetched(n, f), SetFetch(n, f)
    PROVE  FeedInv'
<1>1. UNCHANGED <<vars, title, renames>>
  BY DEF SetFetch
<1>2. /\ feed'.at = feed.at /\ feed'.client = feed.client /\ feed'.tags = feed.tags
      /\ feed'.asked = feed.asked /\ feed'.url = feed.url
      /\ feed'.promised = feed.promised /\ feed'.links = feed.links
      /\ feed'.fetch = [feed.fetch EXCEPT ![n] = f]
  BY DEF SetFetch, FeedInv, FeedType
<1>3. FeedType'
  BY <1>1, <1>2 DEF SetFetch, FeedInv, FeedType
<1>4. UNCHANGED <<file, panel, live, pc, who, rolledBack>>
  BY <1>1 DEF vars, local, history
<1>5. PromisedInv'
  BY <1>2, <1>4 DEF FeedInv, PromisedInv, AttachedOn, InboundsOf
<1>6. ServedInv'
  BY <1>2 DEF ServedInv
<1>7. FetchInv'
  <2> SUFFICES ASSUME NEW m \in Node PROVE Fetched(m, feed.fetch[m])'
    BY DEF FetchInv
  <2>1. feed'.fetch[m] = IF m = n THEN f ELSE feed.fetch[m]
    BY <1>2 DEF FeedInv, FeedType
  <2>2. Fetched(m, feed'.fetch[m])
    BY <2>1 DEF FeedInv, FetchInv
  <2>3. Fallback(m)' = Fallback(m)
    BY <1>2, SameFallback
  <2>4. InboundsOf(m)' = InboundsOf(m) /\ \A x : AttachedOn(m, x)' = AttachedOn(m, x)
    BY <1>4 DEF InboundsOf, AttachedOn
  <2> QED BY <1>2, <2>2, <2>3, <2>4 DEF Fetched
<1>8. \A r \in Request : LiveInv(r)'
  BY <1>1, NextLive DEF FeedInv
<1>9. PICK d \in InitialData : RecordIds(d) /\ TokenInv(d)
  BY DEF FeedInv, IdsFrom
<1>10. RecordIds(d)'
  BY <1>1, <1>9, NextRecordIds
<1>11. TokenInv(d)'
  <2>1. \A e : UrlId(e) => UrlId(e)'
    BY <1>2, <1>4 DEF UrlId
  <2>2. AskedFor(d) => AskedFor(d)'
    BY <1>2, <1>4 DEF AskedFor
  <2>3. Owned(d, feed.client)' = Owned(d, feed.client)
    BY <1>2, <1>4 DEF Owned, Drew
  <2> QED BY <1>2, <1>9, <2>1, <2>2, <2>3 DEF TokenInv
<1> QED BY <1>3, <1>5, <1>6, <1>7, <1>8, <1>10, <1>11 DEF FeedInv, IdsFrom
(* What is known of a fetch that goes on.                                  *)
LEMMA InFetch ==
    ASSUME AttachedInv, FeedInv, NEW n \in Node, NEW ats, FetchIs(n, ats),
           "off" \notin ats
    PROVE  /\ feed.at = "fetching" /\ feed.client \in Client /\ feed.client # None
           /\ feed.fetch[n] \in Fetch /\ feed.fetch[n].at \in ats
           /\ Fetched(n, feed.fetch[n])
           /\ n \in PlannedNodes(feed.tags) /\ Fallback(n) \in Shared \cup {None}
           /\ InboundsOf(n) \subseteq Tag /\ Titles(n) \in [InboundsOf(n) -> Title]
<1>1. feed.at = "fetching" /\ feed.fetch[n].at \in ats
  BY DEF FetchIs
<1>2. n \in PlannedNodes(feed.tags) /\ Fallback(n) \in Shared \cup {None}
  BY <1>1, AskedIsPlanned
<1>3. /\ feed.client \in Client /\ feed.client # None /\ feed.fetch[n] \in Fetch
  BY <1>1, NamesAssumption DEF FeedInv, FeedType, SubId
<1>4. InboundsOf(n) \subseteq Tag
  BY DEF InboundsOf, AttachedInv, TypeInv, TypeOK
<1>5. Titles(n) \in [InboundsOf(n) -> Title]
  BY <1>4 DEF Titles, FeedInv, FeedType
<1> QED BY <1>1, <1>2, <1>3, <1>4, <1>5 DEF FeedInv, FetchInv

LEMMA ListTitlesInv ==
    ASSUME IdInv, AttachedInv, FeedInv, NEW n \in Node, ListTitles(n)
    PROVE  FeedInv'
<1> DEFINE f == feed.fetch[n]
           g == [f EXCEPT !.at = "linking", !.titles = Titles(n)]
<1>1. FetchIs(n, {"listing"}) /\ SetFetch(n, g)
  BY DEF ListTitles
<1>2. /\ feed.at = "fetching" /\ f \in Fetch /\ f.at = "listing" /\ Fetched(n, f)
      /\ n \in PlannedNodes(feed.tags) /\ feed.client # None
      /\ InboundsOf(n) \subseteq Tag /\ Titles(n) \in [InboundsOf(n) -> Title]
  BY <1>1, InFetch
<1>3. f.of = None /\ f.links = <<>> /\ ~ f.exact
  BY <1>2 DEF Fetched, Nothing, Gathered
<1>4. /\ g.at = "linking" /\ g.titles = Titles(n) /\ g.of = None /\ g.links = <<>>
      /\ ~ g.exact
  BY <1>2, <1>3 DEF Fetch
<1>5. g \in Fetch
  BY <1>2 DEF Fetch, FetchAt, TitleMap
<1> HIDE DEF g
<1>6. Fetched(n, g)
  BY <1>2, <1>4 DEF Fetched, Gathered
<1> QED BY <1>1, <1>2, <1>5, <1>6, FetchStep

LEMMA GetLinksInv ==
    ASSUME IdInv, AttachedInv, FeedInv, NEW n \in Node, GetLinks(n)
    PROVE  FeedInv'
<1> DEFINE f == feed.fetch[n]
           x == feed.client
           on == AttachedOn(n, x)
           told == (Titles(n) = f.titles /\ Telling(Titles(n)))
           g(h) == [f EXCEPT !.at = "traffic", !.links = h, !.of = x, !.exact = told]
<1>1. PICK h \in LinksByTitle(n, x) : FetchIs(n, {"linking"}) /\ SetFetch(n, g(h))
  BY DEF GetLinks
<1>2. /\ feed.at = "fetching" /\ f \in Fetch /\ f.at = "linking" /\ Fetched(n, f)
      /\ n \in PlannedNodes(feed.tags) /\ x \in Client /\ x # None
      /\ InboundsOf(n) \subseteq Tag /\ Titles(n) \in [InboundsOf(n) -> Title]
  BY <1>1, InFetch
<1>3. f.titles \in [InboundsOf(n) -> Title]
  BY <1>2 DEF Fetched, Gathered
<1>4. on \subseteq InboundsOf(n)
  BY DEF AttachedOn
<1>5. /\ h \in [{title[t] : t \in on} -> on]
      /\ \A k \in DOMAIN h : h[k] \in on /\ title[h[k]] = k
  BY DEF LinksByTitle
<1>6. h \in LinkMap
  <2>1. {title[t] : t \in on} \subseteq Title
    BY <1>2, <1>4 DEF FeedInv, FeedType
  <2>2. h \in [{title[t] : t \in on} -> Tag]
    BY <1>2, <1>4, <1>5
  <2> QED BY <2>1, <2>2 DEF LinkMap
<1>7. \A t \in feed.promised : NodeOf[t] = n => t \in on
  BY ConstantsAssumption DEF FeedInv, PromisedInv
<1>8. told => \A t \in on : f.titles[t] = title[t]
  BY <1>4 DEF Titles
<1> HIDE DEF on, told
<1>9. told \in BOOLEAN
  BY DEF told
<1>10. /\ g(h).at = "traffic" /\ g(h).links = h /\ g(h).of = x /\ g(h).titles = f.titles
       /\ g(h).exact = told
  BY <1>2 DEF Fetch
<1>11. g(h) \in Fetch
  BY <1>2, <1>6, <1>9 DEF Fetch, FetchAt
<1> DEFINE gh == g(h)
<1> HIDE DEF g
<1>12. gh.exact => told
  BY <1>9, <1>10
<1> HIDE DEF gh
<1>13. Fetched(n, gh)
  <2>1. gh.at = "traffic" /\ gh.links = h /\ gh.of = x /\ gh.titles = f.titles
    BY <1>10 DEF gh
  <2>2. gh.exact => Telling(f.titles)
    BY <1>12 DEF told
  <2>3. \A k \in DOMAIN h : h[k] \in AttachedOn(n, x) /\ (gh.exact => f.titles[h[k]] = k)
    BY <1>5, <1>8, <1>12 DEF on
  <2>4. gh.exact => \A t \in {u \in feed.promised : NodeOf[u] = n} : f.titles[t] \in DOMAIN h
    BY <1>5, <1>7, <1>8, <1>12
  <2> QED BY <1>2, <1>3, <2>1, <2>2, <2>3, <2>4 DEF Fetched, Gathered
<1>14. gh \in Fetch /\ SetFetch(n, gh)
  BY <1>1, <1>11 DEF gh
<1> QED BY <1>2, <1>13, <1>14, FetchStep

LEMMA GetNoLinksInv ==
    ASSUME IdInv, AttachedInv, FeedInv, NEW n \in Node, GetNoLinks(n)
    PROVE  FeedInv'
<1> DEFINE f == feed.fetch[n]
           told == (AttachedOn(n, feed.client) = {}
                       /\ Titles(n) = f.titles /\ Telling(Titles(n)))
           at == IF Fallback(n) = None THEN "traffic" ELSE "fallback"
           g == [f EXCEPT !.at = at, !.exact = told]
<1>1. FetchIs(n, {"linking"}) /\ SetFetch(n, g)
  BY DEF GetNoLinks
<1>2. /\ feed.at = "fetching" /\ f \in Fetch /\ f.at = "linking" /\ Fetched(n, f)
      /\ n \in PlannedNodes(feed.tags) /\ feed.client # None
  BY <1>1, InFetch
<1>3. f.titles \in [InboundsOf(n) -> Title] /\ f.of = None /\ f.links = <<>>
  BY <1>2 DEF Fetched, Gathered
<1>4. told => Telling(f.titles) /\ {t \in feed.promised : NodeOf[t] = n} = {}
  BY ConstantsAssumption DEF FeedInv, PromisedInv
<1> HIDE DEF told
<1>5. told \in BOOLEAN
  BY DEF told
<1>6. at \in {"traffic", "fallback"} /\ (at = "fallback" => Fallback(n) # None)
  OBVIOUS
<1> HIDE DEF at
<1>7. /\ g.at = at /\ g.titles = f.titles /\ g.of = None /\ g.links = <<>>
      /\ g.exact = told
  BY <1>2, <1>3 DEF Fetch
<1>8. g \in Fetch
  BY <1>2, <1>5, <1>6 DEF Fetch, FetchAt
<1> HIDE DEF g
<1>9. g.exact => told
  BY <1>5, <1>7
<1>10. Fetched(n, g)
  BY <1>2, <1>3, <1>4, <1>6, <1>7, <1>9 DEF Fetched, Gathered
<1> QED BY <1>1, <1>2, <1>8, <1>10, FetchStep
LEMMA GetFallbackLinksInv ==
    ASSUME IdInv, AttachedInv, FeedInv, NEW n \in Node, GetFallbackLinks(n)
    PROVE  FeedInv'
<1> DEFINE f == feed.fetch[n]
           x == Fallback(n)
           on == AttachedOn(n, x)
           told == (f.exact /\ Titles(n) = f.titles)
           g(h) == [f EXCEPT !.at = "traffic", !.links = h, !.of = x, !.exact = told]
<1>1. PICK h \in LinksByTitle(n, x) : FetchIs(n, {"fallback"}) /\ SetFetch(n, g(h))
  BY DEF GetFallbackLinks
<1>2. /\ feed.at = "fetching" /\ f \in Fetch /\ f.at = "fallback" /\ Fetched(n, f)
      /\ n \in PlannedNodes(feed.tags) /\ feed.client \in Client
      /\ x \in Shared \cup {None}
      /\ InboundsOf(n) \subseteq Tag /\ Titles(n) \in [InboundsOf(n) -> Title]
  BY <1>1, InFetch
<1>3. /\ f.titles \in [InboundsOf(n) -> Title] /\ f.of = None /\ f.of # feed.client
      /\ f.exact => Telling(f.titles)
      /\ f.exact => {t \in feed.promised : NodeOf[t] = n} = {}
      /\ x # None
  BY <1>1, <1>2, InFetch DEF Fetched, Gathered
<1>4. x \in Shared /\ x # feed.client
  BY <1>2, <1>3, FeedAssumption
<1>5. on \subseteq InboundsOf(n)
  BY DEF AttachedOn
<1>6. /\ h \in [{title[t] : t \in on} -> on]
      /\ \A k \in DOMAIN h : h[k] \in on /\ title[h[k]] = k
  BY DEF LinksByTitle
<1>7. h \in LinkMap
  <2>1. {title[t] : t \in on} \subseteq Title
    BY <1>2, <1>5 DEF FeedInv, FeedType
  <2>2. h \in [{title[t] : t \in on} -> Tag]
    BY <1>2, <1>5, <1>6
  <2> QED BY <2>1, <2>2 DEF LinkMap
<1>8. told => f.exact /\ \A t \in on : f.titles[t] = title[t]
  BY <1>5 DEF Titles
<1> HIDE DEF on
<1>9. told \in BOOLEAN
  OBVIOUS
<1> HIDE DEF told
<1>10. /\ g(h).at = "traffic" /\ g(h).links = h /\ g(h).of = x /\ g(h).titles = f.titles
       /\ g(h).exact = told
  BY <1>2 DEF Fetch
<1>11. g(h) \in Fetch
  BY <1>2, <1>4, <1>7, <1>9 DEF Fetch, FetchAt
<1> DEFINE gh == g(h)
<1> HIDE DEF g
<1>12. gh.exact => told
  BY <1>9, <1>10
<1> HIDE DEF gh
<1>13. Fetched(n, gh)
  <2>1. gh.at = "traffic" /\ gh.links = h /\ gh.of = x /\ gh.titles = f.titles
    BY <1>10 DEF gh
  <2>2. gh.exact => Telling(f.titles) /\ {t \in feed.promised : NodeOf[t] = n} = {}
    BY <1>3, <1>8, <1>12
  <2>3. \A k \in DOMAIN h : h[k] \in AttachedOn(n, x) /\ (gh.exact => f.titles[h[k]] = k)
    BY <1>6, <1>8, <1>12 DEF on
  <2> QED BY <1>2, <1>3, <1>4, <2>1, <2>2, <2>3 DEF Fetched, Gathered
<1>14. gh \in Fetch /\ SetFetch(n, gh)
  BY <1>1, <1>11 DEF gh
<1> QED BY <1>2, <1>13, <1>14, FetchStep

LEMMA GetNoFallbackLinksInv ==
    ASSUME IdInv, AttachedInv, FeedInv, NEW n \in Node, GetNoFallbackLinks(n)
    PROVE  FeedInv'
<1> DEFINE f == feed.fetch[n]
           g == [f EXCEPT !.at = "traffic", !.exact = FALSE]
<1>1. FetchIs(n, {"fallback"}) /\ SetFetch(n, g)
  BY DEF GetNoFallbackLinks
<1>2. /\ feed.at = "fetching" /\ f \in Fetch /\ f.at = "fallback" /\ Fetched(n, f)
      /\ n \in PlannedNodes(feed.tags)
  BY <1>1, InFetch
<1>3. f.titles \in [InboundsOf(n) -> Title] /\ f.of = None /\ f.links = <<>>
  BY <1>2 DEF Fetched, Gathered
<1>4. /\ g.at = "traffic" /\ g.titles = f.titles /\ g.of = None /\ g.links = <<>>
      /\ ~ g.exact
  BY <1>2, <1>3 DEF Fetch
<1>5. g \in Fetch
  BY <1>2 DEF Fetch, FetchAt
<1> HIDE DEF g
<1>6. Fetched(n, g)
  BY <1>2, <1>3, <1>4 DEF Fetched, Gathered
<1> QED BY <1>1, <1>2, <1>5, <1>6, FetchStep

(* Traffic is the last, and nothing of the links hangs on it.              *)
LEMMA TrafficOver ==
    ASSUME IdInv, AttachedInv, FeedInv, NEW n \in Node, FetchIs(n, {"traffic"}),
           SetFetch(n, [feed.fetch[n] EXCEPT !.at = "over"])
    PROVE  FeedInv'
<1> DEFINE f == feed.fetch[n]
           g == [f EXCEPT !.at = "over"]
<1>1. /\ feed.at = "fetching" /\ f \in Fetch /\ f.at = "traffic" /\ Fetched(n, f)
      /\ n \in PlannedNodes(feed.tags)
  BY InFetch
<1>2. /\ g.at = "over" /\ g.titles = f.titles /\ g.of = f.of /\ g.links = f.links
      /\ g.exact = f.exact
  BY <1>1 DEF Fetch
<1>3. g \in Fetch
  BY <1>1 DEF Fetch, FetchAt
<1>4. SetFetch(n, g)
  OBVIOUS
<1> HIDE DEF g
<1>5. Fetched(n, g)
  BY <1>1, <1>2 DEF Fetched, Gathered
<1> QED BY <1>1, <1>3, <1>4, <1>5, FetchStep

LEMMA BlankIsNothing ==
    ASSUME NEW at \in FetchAt
    PROVE  [NotAsked EXCEPT !.at = at] = Nothing(at)
<1> DEFINE f == NotAsked
           g == [f EXCEPT !.at = at]
<1>1. /\ f \in Fetch /\ f.titles = <<>> /\ f.links = <<>> /\ f.of = None
      /\ f.exact = FALSE
  BY NoLinks DEF NotAsked
<1> HIDE DEF f
<1>2. g \in Fetch /\ g.at = at /\ g.titles = <<>> /\ g.links = <<>> /\ g.of = None
  BY <1>1 DEF Fetch
<1>3. g.exact = FALSE
  BY <1>1 DEF Fetch
<1> HIDE DEF g
<1>4. g = Nothing(at)
  BY <1>2, <1>3 DEF Fetch, Nothing
<1> QED BY <1>4 DEF f, g

LEMMA FetchFails ==
    ASSUME IdInv, AttachedInv, FeedInv, NEW n \in Node, FetchIs(n, BeforeLinks),
           SetFetch(n, [NotAsked EXCEPT !.at = "failed"])
    PROVE  FeedInv'
<1>1. feed.at = "fetching" /\ n \in PlannedNodes(feed.tags)
  BY InFetch DEF BeforeLinks
<1>2. [NotAsked EXCEPT !.at = "failed"] = Nothing("failed")
  BY BlankIsNothing DEF FetchAt
<1>3. Fetched(n, Nothing("failed")) /\ Nothing("failed") \in Fetch
  BY <1>1, FetchedNothing
<1> QED BY <1>1, <1>2, <1>3, FetchStep

LEMMA FetchInvKept ==
    ASSUME IdInv, AttachedInv, FeedInv, NEW n \in Node,
           \/ ListTitles(n) \/ GetLinks(n) \/ GetNoLinks(n)
           \/ GetFallbackLinks(n) \/ GetNoFallbackLinks(n)
           \/ GetTraffic(n) \/ NodeFails(n) \/ FetchTimesOut(n)
    PROVE  FeedInv'
<1>1. CASE ListTitles(n)          BY <1>1, ListTitlesInv
<1>2. CASE GetLinks(n)            BY <1>2, GetLinksInv
<1>3. CASE GetNoLinks(n)          BY <1>3, GetNoLinksInv
<1>4. CASE GetFallbackLinks(n)    BY <1>4, GetFallbackLinksInv
<1>5. CASE GetNoFallbackLinks(n)  BY <1>5, GetNoFallbackLinksInv
<1>6. CASE GetTraffic(n)          BY <1>6, TrafficOver DEF GetTraffic
<1>7. CASE NodeFails(n)           BY <1>7, FetchFails DEF NodeFails
<1>8. CASE FetchTimesOut(n)       BY <1>8, FetchFails, TrafficOver DEF FetchTimesOut
<1> QED BY <1>1, <1>2, <1>3, <1>4, <1>5, <1>6, <1>7, <1>8
-----------------------------------------------------------------------------
(* Putting the feed together *)

(* The loop over the tags, one tag at a time.                              *)
LEMMA AssembledLoop ==
    ASSUME feed.tags \in Seq(Tag)
    PROVE  \E f :
              /\ Assembled = f[Len(feed.tags)] /\ f[0] = <<>>
              /\ \A i \in 1 .. Len(feed.tags) :
                    f[i] = IF HasLink(feed.tags[i])
                           THEN Append(f[i - 1], Link(feed.tags[i])) ELSE f[i - 1]
<1> DEFINE n == Len(feed.tags)
           X == Seq({Link(t) : t \in Tag})
           step == [i \in 1 .. n |-> [s \in X |->
                      IF HasLink(feed.tags[i]) THEN Append(s, Link(feed.tags[i])) ELSE s]]
           G(h) == [i \in 0 .. n |->
                      IF i = 0 THEN <<>>
                      ELSE IF HasLink(feed.tags[i]) THEN Append(h[i - 1], Link(feed.tags[i]))
                      ELSE h[i - 1]]
           u == CHOOSE h : h = G(h)
<1>1. n \in Nat /\ <<>> \in X /\ step \in [1 .. n -> [X -> X]]
  OBVIOUS
<1>2. PICK f \in [0 .. n -> X] : Goes(f, n, <<>>, step)
  <2> HIDE DEF step, X, n
  <2> QED BY <1>1, LoopExists
<1>3. /\ f[0] = <<>>
      /\ \A i \in 1 .. n :
            f[i] = IF HasLink(feed.tags[i])
                   THEN Append(f[i - 1], Link(feed.tags[i])) ELSE f[i - 1]
  <2>1. ASSUME NEW i \in 1 .. n
        PROVE  f[i] = IF HasLink(feed.tags[i])
                      THEN Append(f[i - 1], Link(feed.tags[i])) ELSE f[i - 1]
    <3>1. f[i] = step[i][f[i - 1]] /\ f[i - 1] \in X
      <4> HIDE DEF step, X
      <4>1. i - 1 \in 0 .. n
        OBVIOUS
      <4> QED BY <1>2, <4>1 DEF Goes
    <3> QED BY <3>1
  <2> QED BY <1>2, <2>1 DEF Goes
<1>4. f = G(f)
  <2> DEFINE val(i) == IF i = 0 THEN <<>>
                       ELSE IF HasLink(feed.tags[i]) THEN Append(f[i - 1], Link(feed.tags[i]))
                       ELSE f[i - 1]
  <2>1. ASSUME NEW i \in 0 .. n PROVE f[i] = val(i)
    <3>1. i = 0 \/ i \in 1 .. n
      BY <1>1
    <3> QED BY <1>3, <3>1
  <2>2. G(f) = [i \in 0 .. n |-> val(i)]
    OBVIOUS
  <2> HIDE DEF val, G
  <2> QED BY <2>1, <2>2
<1>5. u = G(u)
  <2> HIDE DEF G
  <2> QED BY <1>4
<1>6. Assembled = u[n]
  BY DEF Assembled
<1> HIDE DEF u
<1>7. ASSUME NEW i \in 1 .. n
      PROVE  u[i] = IF HasLink(feed.tags[i])
                    THEN Append(u[i - 1], Link(feed.tags[i])) ELSE u[i - 1]
  <2>1. u[i] = G(u)[i]
    BY <1>5
  <2> QED BY <2>1
<1>8. u[0] = <<>>
  BY <1>1, <1>5
<1> QED BY <1>6, <1>7, <1>8

(* What the loop has made of the first n tags.                             *)
SelectedUpTo(n, s) ==
    /\ s \in Seq({Link(t) : t \in Tag})
    /\ \A i \in 1..Len(s) :
          \E k \in 1..n : HasLink(feed.tags[k]) /\ s[i] = Link(feed.tags[k])
    /\ \A i, j \in 1..Len(s) : i < j =>
          \E k, l \in 1..n :
             k < l /\ feed.tags[k] = s[i].tag /\ feed.tags[l] = s[j].tag
    /\ \A k \in 1..n : HasLink(feed.tags[k]) =>
          \E i \in 1..Len(s) : s[i] = Link(feed.tags[k])

LEMMA LinkIsOf == \A t : Link(t).tag = t
BY DEF Link

LEMMA SelectedOneMore ==
    ASSUME feed.tags \in Seq(Tag), NEW n \in 0 .. Len(feed.tags) - 1, NEW s,
           SelectedUpTo(n, s)
    PROVE  LET t == feed.tags[n + 1] IN
           SelectedUpTo(n + 1, IF HasLink(t) THEN Append(s, Link(t)) ELSE s)
<1> DEFINE t == feed.tags[n + 1]
           L == {Link(u) : u \in Tag}
<1>1. t \in Tag /\ n \in Nat /\ s \in Seq(L) /\ Link(t) \in L
  BY DEF SelectedUpTo
<1>2. CASE ~ HasLink(t)
  <2>1. 1..n \subseteq 1..(n + 1) /\ \A k \in 1..(n + 1) : k \in 1..n \/ k = n + 1
    BY <1>1
  <2>2. \A k \in 1..(n + 1) : HasLink(feed.tags[k]) => k \in 1..n
    BY <1>2, <2>1
  <2>3. SelectedUpTo(n + 1, s)
    BY <2>1, <2>2 DEF SelectedUpTo
  <2> QED BY <1>2, <2>3
<1>3. CASE HasLink(t)
  <2> DEFINE z == Append(s, Link(t))
  <2> HIDE DEF L
  <2>1. /\ z \in Seq(L) /\ Len(z) = Len(s) + 1 /\ Len(s) \in Nat
        /\ \A i \in 1..Len(s) : z[i] = s[i]
        /\ z[Len(s) + 1] = Link(t)
    BY <1>1
  <2> HIDE DEF z
  <2>2. \A i \in 1..Len(z) : i \in 1..Len(s) \/ i = Len(s) + 1
    BY <2>1
  <2>3. \A i \in 1..Len(z) :
           \E k \in 1..(n + 1) : HasLink(feed.tags[k]) /\ z[i] = Link(feed.tags[k])
    <3>1. n + 1 \in 1..(n + 1) /\ 1..n \subseteq 1..(n + 1)
      BY <1>1
    <3> QED BY <1>3, <2>1, <2>2, <3>1 DEF SelectedUpTo
  <2>4. \A k \in 1..(n + 1) : HasLink(feed.tags[k]) =>
           \E i \in 1..Len(z) : z[i] = Link(feed.tags[k])
    <3>1. \A k \in 1..(n + 1) : k \in 1..n \/ k = n + 1
      BY <1>1
    <3>2. 1..Len(s) \subseteq 1..Len(z) /\ Len(s) + 1 \in 1..Len(z)
      BY <2>1
    <3> QED BY <2>1, <3>1, <3>2 DEF SelectedUpTo
  <2>5. ASSUME NEW i \in 1..Len(z), NEW j \in 1..Len(z), i < j
        PROVE  \E k, l \in 1..(n + 1) :
                  k < l /\ feed.tags[k] = z[i].tag /\ feed.tags[l] = z[j].tag
    <3>1. i \in 1..Len(s) /\ z[i] = s[i]
      BY <2>1, <2>5
    <3>2. CASE j \in 1..Len(s)
      <4>1. PICK k \in 1..n, l \in 1..n :
              k < l /\ feed.tags[k] = s[i].tag /\ feed.tags[l] = s[j].tag
        BY <2>5, <3>1, <3>2 DEF SelectedUpTo
      <4>2. k \in 1..(n + 1) /\ l \in 1..(n + 1)
        BY <1>1
      <4> QED BY <2>1, <3>1, <3>2, <4>1, <4>2
    <3>3. CASE j = Len(s) + 1
      <4>1. PICK k \in 1..n : s[i] = Link(feed.tags[k])
        BY <3>1 DEF SelectedUpTo
      <4>2. feed.tags[k] = z[i].tag /\ feed.tags[n + 1] = z[j].tag
        BY <2>1, <3>1, <3>3, <4>1, LinkIsOf
      <4>3. k \in 1..(n + 1) /\ n + 1 \in 1..(n + 1) /\ k < n + 1
        BY <1>1
      <4> QED BY <4>2, <4>3
    <3> QED BY <2>2, <3>2, <3>3
  <2>6. SelectedUpTo(n + 1, z)
    BY <2>1, <2>3, <2>4, <2>5 DEF SelectedUpTo, L
  <2> QED BY <1>3, <2>6 DEF z
<1> QED BY <1>2, <1>3

LEMMA AssembledIs ==
    ASSUME feed.tags \in Seq(Tag)
    PROVE  Assembled \in Seq({Link(t) : t \in Tag}) /\ Selected(Assembled)
<1> DEFINE n == Len(feed.tags)
<1>1. PICK f :
        /\ Assembled = f[n] /\ f[0] = <<>>
        /\ \A i \in 1 .. n :
              f[i] = IF HasLink(feed.tags[i])
                     THEN Append(f[i - 1], Link(feed.tags[i])) ELSE f[i - 1]
  BY AssembledLoop
<1> DEFINE S == {k \in 0 .. n : SelectedUpTo(k, f[k])}
<1>2. n \in Nat
  OBVIOUS
<1>3. 0 \in S
  <2>1. <<>> \in Seq({Link(t) : t \in Tag}) /\ Len(<<>>) = 0
    OBVIOUS
  <2>2. 1..0 = {}
    OBVIOUS
  <2>3. SelectedUpTo(0, <<>>)
    BY <2>1, <2>2 DEF SelectedUpTo
  <2> QED BY <1>1, <1>2, <2>3
<1>4. ASSUME NEW k \in 0 .. n - 1, k \in S PROVE k + 1 \in S
  <2>1. k + 1 \in 1 .. n /\ k + 1 \in 0 .. n /\ (k + 1) - 1 = k
    BY <1>2
  <2>2. f[k + 1] = IF HasLink(feed.tags[k + 1])
                   THEN Append(f[k], Link(feed.tags[k + 1])) ELSE f[k]
    BY <1>1, <2>1
  <2>3. SelectedUpTo(k + 1, f[k + 1])
    BY <1>4, <2>2, SelectedOneMore
  <2> QED BY <2>1, <2>3
<1> HIDE DEF S
<1>5. n \in S
  <2> HIDE DEF n
  <2>1. \A k \in 0 .. n : k \in S
    BY <1>2, <1>3, <1>4, UpTo
  <2> QED BY <1>2, <2>1
<1>6. SelectedUpTo(n, Assembled)
  BY <1>1, <1>5 DEF S
<1> QED BY <1>6 DEF SelectedUpTo, Selected

(* A link is one of the fetch of its node, and somebody's.                 *)
LEMMA LinkIs ==
    ASSUME AttachedInv, FeedInv, NEW t \in Tag, HasLink(t)
    PROVE  /\ Link(t) \in LinkSet /\ Link(t).tag = t
           /\ NodeOf[t] = External => t \in feed.known
           /\ NodeOf[t] # External =>
                LET f == feed.fetch[NodeOf[t]] IN
                /\ NodeOf[t] \in Node /\ f \in Fetch /\ Fetched(NodeOf[t], f)
                /\ Link(t) = [tag |-> t, inbound |-> f.links[f.titles[t]], of |-> f.of]
                /\ t \in DOMAIN f.titles /\ f.titles[t] \in DOMAIN f.links
                /\ f.of # None /\ Link(t).inbound \in AttachedOn(NodeOf[t], f.of)
<1>1. CASE NodeOf[t] = External
  BY <1>1 DEF HasLink, Link, LinkSet
<1>2. CASE NodeOf[t] # External
  <2> DEFINE n == NodeOf[t]
             f == feed.fetch[n]
  <2>1. n \in Node /\ f \in Fetch /\ Fetched(n, f)
    BY <1>2, ConstantsAssumption DEF FeedInv, FeedType, FetchInv
  <2>2. /\ t \in DOMAIN f.titles /\ f.titles[t] \in DOMAIN f.links
        /\ Link(t) = [tag |-> t, inbound |-> f.links[f.titles[t]], of |-> f.of]
    BY <1>2 DEF HasLink, Link
  <2> HIDE DEF f
  <2>3. f.of # None
    <3>1. DOMAIN <<>> = {}
      OBVIOUS
    <3> QED BY <2>1, <2>2, <3>1 DEF Fetched
  <2>4. f.links[f.titles[t]] \in AttachedOn(n, f.of)
    BY <2>1, <2>2, <2>3 DEF Fetched
  <2>5. f.links[f.titles[t]] \in Tag
    BY <2>4 DEF AttachedOn, InboundsOf, AttachedInv, TypeInv, TypeOK
  <2>6. f.of \in Client \cup Shared
    BY <2>1, <2>3 DEF Fetch
  <2>7. Link(t) \in LinkSet /\ Link(t).tag = t /\ Link(t).inbound \in AttachedOn(n, f.of)
    BY <2>2, <2>4, <2>5, <2>6 DEF LinkSet
  <2> QED BY <1>2, <2>1, <2>2, <2>3, <2>7 DEF f
<1> QED BY <1>1, <1>2

(* A step of the GET itself leaves the service as it is.                   *)
LEMMA QuietService ==
    ASSUME IdInv, AttachedInv, FeedInv, UNCHANGED vars
    PROVE  /\ UNCHANGED <<file, panel, live, pc, who, rolledBack>>
           /\ \A r \in Request : LiveInv(r)'
           /\ \A d \in InitialData : RecordIds(d) => RecordIds(d)'
<1>1. \A r \in Request : LiveInv(r)'
  BY NextLive DEF FeedInv
<1>2. \A d \in InitialData : RecordIds(d) => RecordIds(d)'
  BY NextRecordIds
<1> QED BY <1>1, <1>2 DEF vars, local, history

LEMMA FeedDeliverInv ==
    ASSUME IdInv, AttachedInv, FeedInv, FeedDeliver
    PROVE  FeedInv'
<1>1. feed.at = "fetching" /\ UNCHANGED <<vars, title, renames>>
      /\ \A n \in Node : feed.fetch[n].at \in {"off", "over", "failed"}
  BY DEF FeedDeliver
<1>2. feed.tags \in Seq(Tag)
  BY DEF FeedInv, FeedType
<1>3. Selected(Assembled) /\ Assembled \in Seq({Link(t) : t \in Tag})
  BY <1>2, AssembledIs
<1> DEFINE s == Assembled
<1>4. feed' = [feed EXCEPT !.at = "served", !.links = s]
  BY DEF FeedDeliver
<1> HIDE DEF s
<1>5. s \in Seq(LinkSet)
  <2>1. ASSUME NEW i \in 1..Len(s) PROVE s[i] \in LinkSet
    <3>1. PICK k \in 1..Len(feed.tags) : HasLink(feed.tags[k]) /\ s[i] = Link(feed.tags[k])
      BY <1>3 DEF Selected, s
    <3>2. feed.tags[k] \in Tag
      BY <1>2
    <3> QED BY <3>1, <3>2, LinkIs
  <2>2. s \in Seq({Link(t) : t \in Tag})
    BY <1>3 DEF s
  <2> QED BY <2>1, <2>2
<1>6. /\ feed'.at = "served" /\ feed'.links = s /\ feed'.client = feed.client
      /\ feed'.tags = feed.tags /\ feed'.asked = feed.asked /\ feed'.url = feed.url
      /\ feed'.promised = feed.promised /\ feed'.known = feed.known
      /\ feed'.fetch = feed.fetch
  BY <1>4 DEF FeedInv, FeedType
<1>7. FeedType'
  BY <1>1, <1>4, <1>5 DEF FeedInv, FeedType
<1>8. UNCHANGED <<file, panel, live, pc, who, rolledBack>>
  BY <1>1, QuietService
<1>9. PromisedInv'
  BY <1>6, <1>8 DEF FeedInv, PromisedInv, AttachedOn, InboundsOf
<1>10. FetchInv'
  <2> SUFFICES ASSUME NEW n \in Node PROVE Fetched(n, feed.fetch[n])'
    BY DEF FetchInv
  <2>1. Fetched(n, feed.fetch[n]) /\ feed'.fetch[n] = feed.fetch[n]
    BY <1>6 DEF FeedInv, FetchInv
  <2>2. Fallback(n)' = Fallback(n)
    BY <1>6, SameFallback
  <2>3. InboundsOf(n)' = InboundsOf(n) /\ \A x : AttachedOn(n, x)' = AttachedOn(n, x)
    BY <1>8 DEF InboundsOf, AttachedOn
  <2> QED BY <1>6, <2>1, <2>2, <2>3 DEF Fetched
<1>11. ServedInv'
  <2>1. \A t : HasLink(t)' = HasLink(t) /\ Link(t)' = Link(t)
    BY <1>6 DEF HasLink, Link
  <2>2. Selected(s)
    BY <1>3 DEF s
  <2>3. Selected(feed'.links)
    BY <1>6, <2>2
  <2>4. PICK z : z = feed'.links
    OBVIOUS
  <2>5. Selected(z)'
    <3>1. Selected(z)' = Selected(z)
      BY <1>6, <2>1 DEF Selected
    <3> QED BY <2>3, <2>4, <3>1
  <2>6. Selected(feed.links)'
    BY <2>4, <2>5 DEF Selected
  <2> QED BY <1>1, <1>6, <2>6 DEF ServedInv
<1>12. PICK d \in InitialData : RecordIds(d) /\ TokenInv(d)
  BY DEF FeedInv, IdsFrom
<1>13. TokenInv(d)'
  <2>1. \A e : UrlId(e) => UrlId(e)'
    BY <1>6, <1>8 DEF UrlId
  <2>2. AskedFor(d) => AskedFor(d)'
    BY <1>6, <1>8 DEF AskedFor
  <2>3. Owned(d, feed.client)' = Owned(d, feed.client)
    BY <1>6, <1>8 DEF Owned, Drew
  <2> QED BY <1>1, <1>6, <1>12, <2>1, <2>2, <2>3 DEF TokenInv
<1> QED BY <1>1, <1>7, <1>9, <1>10, <1>11, <1>12, <1>13, QuietService DEF FeedInv, IdsFrom
-----------------------------------------------------------------------------
(* Beginning a GET *)

LEMMA TagsType ==
    ASSUME NEW rec \in Record \cup {NoRecord}
    PROVE  OwnTags(rec) \in Seq(Tag) /\ AbroadTags(rec) \in Seq(Tag)
<1>1. OwnTags(rec) \in Seq(Tag)
  BY ConstantsAssumption, NamesAssumption DEF OwnTags, Record
<1>2. AbroadTags(rec) \in Seq(Tag)
  BY ConstantsAssumption, NamesAssumption DEF AbroadTags, Record
<1> QED BY <1>1, <1>2

(* What a request has answered with, its client is on.                     *)
LEMMA PromisedIsOn ==
    ASSUME AttachedInv, FeedInv, NEW c \in Client
    PROVE  /\ Promised(c) \subseteq Tag
           /\ \A t \in Promised(c) : NodeOf[t] # External => t \in AttachedOn(NodeOf[t], c)
<1> SUFFICES ASSUME NEW q \in Request, pc[q] = "done", who[q] = c, NEW t \in TagsOf(plan[q])
             PROVE  t \in Tag /\ (NodeOf[t] # External => t \in AttachedOn(NodeOf[t], c))
  BY DEF Promised
<1>1. plan[q] \in Seq(Tag) /\ t \in Tag
  BY TargetsType DEF AttachedInv, TypeInv, TypeOK
<1>2. ASSUME NodeOf[t] # External PROVE t \in AttachedOn(NodeOf[t], c)
  <2>1. NodeOf[t] \in PlannedNodes(plan[q]) /\ t \in NodeTargets(plan[q], NodeOf[t])
    BY <1>2 DEF PlannedNodes, NodeTargets
  <2>2. t \in live
    BY <2>1 DEF FeedInv, LiveInv
  <2>3. panel[NodeOf[t]][c] # Absent /\ t \in panel[NodeOf[t]][c].on
    BY <1>2, AttachedMeansAnswered DEF AnsweredMeansAttached
  <2>4. c \notin Shared
    BY FeedAssumption
  <2> QED BY <2>2, <2>3, <2>4 DEF AttachedOn, InboundsOf
<1> QED BY <1>1, <1>2

(* How a record is found.                                                  *)
LEMMA FoundIs ==
    ASSUME NEW token, NEW c \in Found(token), NEW rec, rec = file.clients[c]
    PROVE  /\ c \in Client /\ rec # NoRecord
           /\ \/ token = <<"id", EffectiveSubId(c, rec)>>
              \/ /\ token # <<"id", EffectiveSubId(c, rec)>>
                 /\ \E x \in LegacyIds(c, rec) : token = <<"id", x>>
              \/ token = PublicToken(c, rec)
BY DEF Found, Registered

LEMMA BeginToken ==
    ASSUME IdInv, NEW token, NEW c \in Found(token), NEW d \in InitialData, RecordIds(d),
           feed'.client = c, feed'.asked = token,
           feed'.url = PublicToken(c, file.clients[c]), UNCHANGED vars
    PROVE  TokenInv(d)'
<1> DEFINE rec == file.clients[c]
           e == EffectiveSubId(c, rec)
<1>1. /\ c \in Client /\ rec # NoRecord
      /\ \/ token = <<"id", e>>
         \/ token # <<"id", e>> /\ \E x \in LegacyIds(c, rec) : token = <<"id", x>>
         \/ token = PublicToken(c, rec)
  BY FoundIs
<1>2. rec \in Record
  BY <1>1 DEF IdInv, TypeInv, TypeOK, File, Clients
<1>3. Ids(c, rec) \subseteq SubId /\ None \notin SubId
  BY <1>1, <1>2, IdsType
<1>4. /\ e \in Ids(c, rec) /\ e \in SubId
      /\ LegacyIds(c, rec) \subseteq SubId
  BY <1>1, <1>3 DEF Ids
<1>5. rec.sub = e \/ (e = c /\ rec.sub = None)
  BY DEF EffectiveSubId
<1>6. /\ e \in Owned(d, c) /\ LegacyIds(c, rec) \subseteq Ids(c, d.clients[c])
  BY <1>1, <1>4 DEF RecordIds, Owns
<1>7. UNCHANGED <<file, pc, who, rolledBack>>
  BY DEF vars, local, history
<1>8. e \in Owned(d, c)'
  BY <1>6, <1>7 DEF Owned, Drew
<1>9. UrlId(e)'
  BY <1>1, <1>5, <1>7 DEF UrlId, PublicToken, TokenWith
<1>10. AskedFor(d)'
  <2>1. CASE token = PublicToken(c, rec)
    BY <2>1 DEF AskedFor
  <2>2. CASE token = <<"id", e>>
    BY <1>4, <2>2 DEF AskedFor, PublicToken, TokenWith
  <2>3. CASE token # <<"id", e>> /\ \E x \in LegacyIds(c, rec) : token = <<"id", x>>
    <3>1. PICK x \in LegacyIds(c, rec) : token = <<"id", x>>
      BY <2>3
    <3>2. x \in SubId /\ x \in Ids(c, d.clients[c]) /\ x # e
      BY <1>4, <1>6, <2>3, <3>1
    <3>3. rec.sub # x
      BY <1>3, <1>5, <3>2
    <3>4. /\ feed'.asked = <<"id", x>> /\ feed'.client = c
          /\ file'.clients[c] # NoRecord /\ file'.clients[c].sub # x
      BY <1>1, <1>7, <3>1, <3>3
    <3> HIDE DEF rec, e
    <3> QED BY <3>2, <3>4 DEF AskedFor
  <2> QED BY <1>1, <2>1, <2>2, <2>3
<1> HIDE DEF rec, e
<1>11. PICK z : z = e
  OBVIOUS
<1>12. z \in Owned(d, feed.client)' /\ UrlId(z)'
  <2>1. Owned(d, feed.client)' = Owned(d, c)'
    BY DEF Owned, Drew
  <2>2. e' = e
    BY <1>7 DEF e, rec
  <2>3. z \in Owned(d, c)'
    BY <1>8, <1>11, <2>2
  <2>4. UrlId(z)'
    BY <1>9, <1>11, <2>2 DEF UrlId
  <2> QED BY <2>1, <2>3, <2>4
<1> QED BY <1>1, <1>10, <1>12 DEF TokenInv

LEMMA FeedBeginInv ==
    ASSUME IdInv, AttachedInv, FeedInv, NEW token \in {"id", "hash"} \X SubId,
           NEW abroad \in BOOLEAN, FeedBegin(token, abroad)
    PROVE  FeedInv'
<1>1. PICK c \in Found(token), known \in SUBSET {t \in Tag : NodeOf[t] = External} :
          LET rec == file.clients[c]
              tags == IF abroad THEN AbroadTags(rec) ELSE OwnTags(rec)
          IN  feed' = [NoFeed EXCEPT
                    !.at = "fetching", !.client = c, !.tags = tags,
                    !.asked = token, !.url = PublicToken(c, rec), !.known = known,
                    !.promised = Promised(c),
                    !.fetch = [n \in Node |->
                        IF n \in PlannedNodes(tags) THEN [NotAsked EXCEPT !.at = "listing"]
                        ELSE NotAsked]]
  BY DEF FeedBegin
<1> DEFINE rec == file.clients[c]
           tags == IF abroad THEN AbroadTags(rec) ELSE OwnTags(rec)
           url == PublicToken(c, rec)
           asks == [n \in Node |->
                      IF n \in PlannedNodes(tags) THEN Nothing("listing") ELSE Nothing("off")]
<1>2. UNCHANGED <<vars, title, renames>>
  BY DEF FeedBegin
<1>3. c \in Client /\ rec # NoRecord
  BY FoundIs
<1>4. rec \in Record
  BY <1>3 DEF IdInv, TypeInv, TypeOK, File, Clients
<1>5. tags \in Seq(Tag)
  BY <1>4, TagsType
<1>6. url \in {"id", "hash"} \X SubId
  <2>1. EffectiveSubId(c, rec) \in SubId
    BY <1>3, <1>4, IdsType DEF Ids
  <2> QED BY <2>1 DEF PublicToken, TokenWith
<1>7. /\ feed'.at = "fetching" /\ feed'.client = c /\ feed'.tags = tags
      /\ feed'.asked = token /\ feed'.url = url /\ feed'.known = known
      /\ feed'.promised = Promised(c) /\ feed'.links = <<>>
      /\ feed' = [at |-> "fetching", client |-> c, tags |-> tags, asked |-> token,
                  url |-> url, known |-> known, promised |-> Promised(c),
                  fetch |-> asks, links |-> <<>>]
  <2>1. NotAsked = Nothing("off")
    BY DEF NotAsked, Nothing
  <2>2. [NotAsked EXCEPT !.at = "listing"] = Nothing("listing")
    BY BlankIsNothing DEF FetchAt
  <2>3. asks = [n \in Node |-> IF n \in PlannedNodes(tags)
                               THEN [NotAsked EXCEPT !.at = "listing"] ELSE NotAsked]
    BY <2>1, <2>2
  <2> HIDE DEF asks, url, tags
  <2>4. feed' = [NoFeed EXCEPT
                    !.at = "fetching", !.client = c, !.tags = tags,
                    !.asked = token, !.url = url, !.known = known,
                    !.promised = Promised(c), !.fetch = asks]
    BY <1>1, <2>3 DEF url, tags
  <2>5. feed' = [at |-> "fetching", client |-> c, tags |-> tags, asked |-> token,
                 url |-> url, known |-> known, promised |-> Promised(c),
                 fetch |-> asks, links |-> <<>>]
    BY <2>4 DEF NoFeed
  <2> QED BY <2>5
<1>8. \A n \in Node : feed'.fetch[n] = IF n \in PlannedNodes(tags) THEN Nothing("listing")
                                       ELSE Nothing("off")
  BY <1>7
<1>9. asks \in [Node -> Fetch]
  <2>1. Nothing("listing") \in Fetch /\ Nothing("off") \in Fetch
    BY NoLinks DEF Nothing, Fetch, FetchAt
  <2> QED BY <2>1
<1>10. Promised(c) \subseteq Tag
       /\ \A t \in Promised(c) : NodeOf[t] # External => t \in AttachedOn(NodeOf[t], c)
  BY <1>3, PromisedIsOn
<1> HIDE DEF tags, url, asks
<1>11. FeedType'
  BY <1>2, <1>3, <1>5, <1>6, <1>7, <1>9, <1>10 DEF FeedInv, FeedType
<1>12. UNCHANGED <<file, panel, live, pc, who, rolledBack>>
  BY <1>2, QuietService
<1>13. PromisedInv'
  BY <1>7, <1>10, <1>12 DEF PromisedInv, AttachedOn, InboundsOf
<1>14. ServedInv'
  BY <1>7 DEF ServedInv
<1>15. FetchInv'
  <2> SUFFICES ASSUME NEW n \in Node PROVE Fetched(n, feed.fetch[n])'
    BY DEF FetchInv
  <2> DEFINE at == IF n \in PlannedNodes(tags) THEN "listing" ELSE "off"
             f == feed'.fetch[n]
  <2>1. f = Nothing(at)
    BY <1>8
  <2>2. at \in {"off", "listing"} /\ (at = "off" <=> n \notin PlannedNodes(feed'.tags))
    BY <1>7
  <2> HIDE DEF at
  <2>3. /\ f.at = at /\ f.of = None /\ f.links = <<>> /\ ~ f.exact
        /\ f = Nothing(f.at)
    BY <2>1 DEF Nothing
  <2>4. f.at \notin Gathered
    BY <2>2, <2>3 DEF Gathered
  <2> QED BY <2>2, <2>3, <2>4 DEF Fetched, Gathered, PlannedNodes
<1>16. PICK d \in InitialData : RecordIds(d)
  BY DEF FeedInv, IdsFrom
<1>17. TokenInv(d)'
  BY <1>2, <1>7, <1>16, BeginToken DEF url
<1> QED
  BY <1>2, <1>11, <1>13, <1>14, <1>15, <1>16, <1>17, QuietService DEF FeedInv, IdsFrom

-----------------------------------------------------------------------------
(* The invariant *)

LEMMA NextFeedInv ==
    IdInv /\ AttachedInv /\ FeedInv /\ [FeedNext]_<<vars, feedVars>> => FeedInv'
<1> SUFFICES ASSUME IdInv, AttachedInv, FeedInv, [FeedNext]_<<vars, feedVars>>
             PROVE  FeedInv'
  OBVIOUS
<1>1. title \in [Tag -> Title] /\ renames \in 0..MaxRenames
  BY DEF FeedInv, FeedType
<1>2. ASSUME NEW kind \in {"id", "hash"}, NEW i \in SubId, NEW abroad \in BOOLEAN,
             FeedBegin(<<kind, i>>, abroad)
      PROVE  FeedInv'
  <2>1. <<kind, i>> \in {"id", "hash"} \X SubId
    OBVIOUS
  <2> QED BY <1>2, <2>1, FeedBeginInv
<1>3. ASSUME NEW n \in Node,
             \/ ListTitles(n) \/ GetLinks(n) \/ GetNoLinks(n)
             \/ GetFallbackLinks(n) \/ GetNoFallbackLinks(n)
             \/ GetTraffic(n) \/ NodeFails(n) \/ FetchTimesOut(n)
      PROVE  FeedInv'
  BY <1>3, FetchInvKept
<1>4. CASE FeedDeliver
  BY <1>4, FeedDeliverInv
<1>5. CASE FeedDone
  BY <1>5, FeedOver DEF FeedDone
<1>6. ASSUME NEW t \in Retitled, Rename(t) PROVE FeedInv'
  <2>1. t \in Tag /\ renames + 1 \in 0..MaxRenames
    BY <1>1, <1>6, FeedAssumption DEF Rename
  <2>2. PICK k \in Title : title' = [title EXCEPT ![t] = k]
    BY <1>6 DEF Rename
  <2>3. /\ title' \in [Tag -> Title] /\ renames' \in 0..MaxRenames
        /\ feed' = feed /\ UNCHANGED vars
    BY <1>1, <1>6, <2>1, <2>2 DEF Rename
  <2> QED BY <2>3, BesideFeed
<1>7. CASE Elsewhere
  <2>1. feed' \in {feed, NoFeed} /\ Next /\ UNCHANGED <<title, renames>>
    BY <1>7 DEF Elsewhere
  <2> QED BY <1>1, <2>1, BesideFeed, FeedOver
<1>8. CASE UNCHANGED <<vars, feedVars>>
  BY <1>1, <1>8, BesideFeed DEF feedVars
<1> QED BY <1>2, <1>3, <1>4, <1>5, <1>6, <1>7, <1>8 DEF FeedNext

LEMMA SpecAttached == Spec => []AttachedInv
BY InitAttached, NextAttached, PTL DEF Spec

LEMMA FeedSpecInv == FeedSpec => [](IdInv /\ AttachedInv /\ FeedInv)
<1>1. FeedSpec => []IdInv /\ []AttachedInv
  BY FeedKeepsService, SpecIds, SpecAttached, PTL
<1> QED BY <1>1, InitFeed, NextFeedInv, PTL DEF FeedSpec

-----------------------------------------------------------------------------
(* What a GET answers with *)

LEMMA ServedLink ==
    ASSUME FeedInv, feed.at = "served", NEW i \in 1..Len(feed.links)
    PROVE  \E t \in Tag :
              t \in TagsOf(feed.tags) /\ HasLink(t) /\ feed.links[i] = Link(t)
<1>1. PICK k \in 1..Len(feed.tags) :
        HasLink(feed.tags[k]) /\ feed.links[i] = Link(feed.tags[k])
  BY DEF FeedInv, ServedInv, Selected
<1>2. feed.tags[k] \in Tag /\ feed.tags[k] \in TagsOf(feed.tags)
  BY DEF FeedInv, FeedType, TagsOf
<1> QED BY <1>1, <1>2

LEMMA FeedInvType == AttachedInv /\ FeedInv => FeedTypeOK
<1> SUFFICES ASSUME AttachedInv, FeedInv PROVE FeedTypeOK
  OBVIOUS
<1>1. /\ feed.at \in {"idle", "fetching", "served"} /\ feed.client \in Client \cup {None}
      /\ feed.tags \in Seq(Tag) /\ feed.known \subseteq Tag /\ feed.promised \subseteq Tag
      /\ title \in [Tag -> Title] /\ renames \in 0..MaxRenames
  BY DEF FeedInv, FeedType
<1>2. ASSUME NEW n \in Node
      PROVE  LET f == feed.fetch[n] IN
             /\ f.at \in FetchAt /\ (f.at = "off" <=> n \notin PlannedNodes(feed.tags))
             /\ f.at \in {"off", "listing", "failed"} => f.titles = <<>>
             /\ DOMAIN f.links \subseteq Title
             /\ f.of \in Client \cup Shared \cup {None} /\ f.exact \in BOOLEAN
  <2>1. PICK f : f = feed.fetch[n]
    OBVIOUS
  <2>2. f \in Fetch /\ Fetched(n, f)
    BY <2>1 DEF FeedInv, FeedType, FetchInv
  <2>3. f.at \in {"off", "listing", "failed"} => f.titles = <<>>
    <3>1. f.at \in {"off", "listing", "failed"} => f = Nothing(f.at)
      BY <2>2 DEF Fetched, Gathered
    <3> QED BY <3>1 DEF Nothing
  <2>4. DOMAIN f.links \subseteq Title
    BY <2>2 DEF Fetch, LinkMap
  <2> QED BY <2>1, <2>2, <2>3, <2>4 DEF Fetch, Fetched
<1>3. ASSUME NEW i \in 1..Len(feed.links)
      PROVE  feed.links[i] \in [tag : TagsOf(feed.tags), inbound : Tag,
                                of : Client \cup Shared \cup {External}]
  <2>1. feed.at = "served"
    <3>1. Len(<<>>) = 0 /\ 1..0 = {} /\ NoFeed.links = <<>>
      BY DEF NoFeed
    <3> QED BY <1>1, <1>3, <3>1 DEF FeedInv, FeedType
  <2>2. PICK t \in Tag : t \in TagsOf(feed.tags) /\ HasLink(t) /\ feed.links[i] = Link(t)
    BY <2>1, ServedLink
  <2>3. Link(t) \in LinkSet /\ Link(t).tag = t
    BY <2>2, LinkIs
  <2> QED BY <2>2, <2>3 DEF LinkSet
<1> QED BY <1>1, <1>2, <1>3 DEF FeedTypeOK

(* The locals of a GET are what build keeps in them: a fetch for every     *)
(* node of the requested tags and for no other, nothing of a node whose    *)
(* fetch failed, and links of requested tags only.                         *)
THEOREM FeedTypeCorrect == FeedSpec => []FeedTypeOK
BY FeedSpecInv, FeedInvType, PTL

(* A link of the feed and its inbound.                                     *)
LEMMA LinkBelongs ==
    ASSUME AttachedInv, FeedInv, NEW t \in Tag, HasLink(t), NodeOf[t] # External
    PROVE  LET n == NodeOf[t] IN
           /\ Link(t).inbound \in AttachedOn(n, Link(t).of)
           /\ Link(t).of \in {feed.client, Fallback(n)}
           /\ feed.fetch[n].exact =>
                 /\ Link(t).inbound = t
                 /\ Link(t).of # feed.client =>
                       {u \in feed.promised : NodeOf[u] = n} = {}
<1> DEFINE n == NodeOf[t]
           f == feed.fetch[n]
<1>1. /\ n \in Node /\ f \in Fetch /\ Fetched(n, f)
      /\ Link(t) = [tag |-> t, inbound |-> f.links[f.titles[t]], of |-> f.of]
      /\ t \in DOMAIN f.titles /\ f.titles[t] \in DOMAIN f.links
      /\ f.of # None /\ Link(t).inbound \in AttachedOn(n, f.of)
  BY LinkIs
<1> HIDE DEF f
<1>2. Link(t).of = f.of /\ Link(t).inbound = f.links[f.titles[t]]
  BY <1>1
<1>3. f.of \in {feed.client, Fallback(n)}
  BY <1>1 DEF Fetched
<1>4. ASSUME f.exact PROVE Link(t).inbound = t
  <2> DEFINE u == f.links[f.titles[t]]
  <2>1. f.titles[u] = f.titles[t]
    BY <1>1, <1>4 DEF Fetched
  <2>2. f.at \in Gathered
    BY <1>1, <1>4 DEF Fetched, Nothing
  <2>3. f.titles \in [InboundsOf(n) -> Title] /\ Telling(f.titles)
    BY <1>1, <1>4, <2>2 DEF Fetched
  <2>4. u \in InboundsOf(n) /\ t \in InboundsOf(n)
    BY <1>1, <1>2, <2>3 DEF AttachedOn
  <2>5. u = t
    BY <2>1, <2>3, <2>4 DEF Telling
  <2> QED BY <1>2, <2>5
<1>5. f.exact /\ f.of # feed.client => {u \in feed.promised : NodeOf[u] = n} = {}
  BY <1>1 DEF Fetched
<1> QED BY <1>1, <1>2, <1>3, <1>4, <1>5 DEF f

LEMMA FeedInvLinks == AttachedInv /\ FeedInv => LinksBelong
<1> SUFFICES ASSUME AttachedInv, FeedInv, feed.at = "served" PROVE LinksBelong
  BY DEF LinksBelong
<1>1. \A i, j \in 1..Len(feed.links) : i < j =>
         \E k, l \in 1..Len(feed.tags) :
            /\ k < l
            /\ feed.tags[k] = feed.links[i].tag /\ feed.tags[l] = feed.links[j].tag
  BY DEF FeedInv, ServedInv, Selected
<1>2. ASSUME NEW i \in 1..Len(feed.links)
      PROVE  LET link == feed.links[i]
                 n == NodeOf[link.tag]
             IN  IF n = External THEN link.tag \in feed.known
                 ELSE /\ link.inbound \in AttachedOn(n, link.of)
                      /\ link.of \in {feed.client, Fallback(n)}
                      /\ feed.fetch[n].exact =>
                            /\ link.inbound = link.tag
                            /\ link.of # feed.client =>
                                  {t \in feed.promised : NodeOf[t] = n} = {}
  <2>1. PICK t \in Tag : HasLink(t) /\ feed.links[i] = Link(t)
    BY ServedLink
  <2>2. feed.links[i].tag = t
    BY <2>1, LinkIsOf
  <2>3. NodeOf[t] = External => t \in feed.known
    BY <2>1, LinkIs
  <2>4. CASE NodeOf[t] = External
    BY <2>2, <2>3, <2>4
  <2>5. CASE NodeOf[t] # External
    BY <2>1, <2>2, <2>5, LinkBelongs
  <2> QED BY <2>4, <2>5
<1> QED BY <1>1, <1>2 DEF LinksBelong

(* A feed has the links of its tags in their order, each the client's own  *)
(* or its node's fallback client's, and of the inbound it is labelled for  *)
(* if the titles told the inbounds apart: build, for whatever              *)
(* saves, attachments and renamings come between its awaits.               *)
THEOREM LinksAreTheClients == FeedSpec => []LinksBelong
BY FeedSpecInv, FeedInvLinks, PTL

-----------------------------------------------------------------------------
(* From the answer of a request to the feed *)

(* An id is of one client.                                                 *)
LEMMA OneOwner ==
    ASSUME NEW d \in InitialData, NEW c \in Client, NEW e \in Client,
           NEW x \in Owned(d, c), x \in Owned(d, e)
    PROVE  c = e
BY FeedIdsAssumption DEF Owned, Drew

(* A client is found by a token of its record, and no other client is.     *)
LEMMA FoundIsClient ==
    ASSUME NEW d \in InitialData, RecordIds(d), NEW c \in Client, NEW x,
           file.clients[c] # NoRecord,
           \/ x = EffectiveSubId(c, file.clients[c])
           \/ ~ Salted /\ x \in LegacyIds(c, file.clients[c])
    PROVE  Found(<<IF Salted THEN "hash" ELSE "id", x>>) = {c}
<1> DEFINE token == <<IF Salted THEN "hash" ELSE "id", x>>
           BySub == {e \in Registered :
                        token = <<"id", EffectiveSubId(e, file.clients[e])>>}
           ByLegacy == {e \in Registered :
                        token \in {<<"id", i>> : i \in LegacyIds(e, file.clients[e])}}
           ByHash == {e \in Registered :
                        Salted /\ token = PublicToken(e, file.clients[e])}
<1>1. x \in Owned(d, c)
  BY DEF RecordIds, Owns, Ids
<1>2. ASSUME NEW e \in Registered, x \in Ids(e, file.clients[e]) PROVE e = c
  <2>1. e \in Client /\ x \in Owned(d, e)
    BY <1>2 DEF RecordIds, Owns, Registered
  <2> QED BY <1>1, <2>1, OneOwner
<1>3. \A e \in Registered :
        /\ EffectiveSubId(e, file.clients[e]) \in Ids(e, file.clients[e])
        /\ LegacyIds(e, file.clients[e]) \subseteq Ids(e, file.clients[e])
  BY DEF Registered, Ids
<1>4. BySub \cup ByLegacy \cup ByHash \subseteq {c}
  BY <1>2, <1>3 DEF PublicToken, TokenWith
<1>5. c \in Registered
  BY DEF Registered
<1>6. CASE Salted
  <2>1. BySub = {} /\ ByLegacy = {}
    BY <1>6
  <2>2. c \in ByHash
    BY <1>5, <1>6 DEF PublicToken, TokenWith
  <2> QED BY <1>4, <2>1, <2>2 DEF Found
<1>7. CASE ~ Salted
  <2>1. c \in BySub \/ c \in ByLegacy
    BY <1>5, <1>7
  <2> QED BY <1>4, <2>1 DEF Found
<1> QED BY <1>6, <1>7

(* The URL a request answered with finds its client, without a redirect.   *)
LEMMA AnswerFinds ==
    ASSUME IdInv, NEW d \in InitialData, RecordIds(d), TokenInv(d),
           NEW r \in Request, pc[r] = "done", who[r] \notin rolledBack
    PROVE  LET answer == <<IF Salted THEN "hash" ELSE "id", sub[r]>> IN
           /\ Found(answer) = {who[r]}
           /\ feed.at = "served" /\ feed.asked = answer => ~ Moved
<1> DEFINE c == who[r]
           rec == file.clients[c]
           answer == <<IF Salted THEN "hash" ELSE "id", sub[r]>>
<1>1. c \in Client /\ rec # NoRecord /\ rec.sub = sub[r] /\ sub[r] # None
  BY NamesAssumption DEF IdInv, Recorded, InStep, TypeInv, TypeOK, SubId
<1>2. EffectiveSubId(c, rec) = sub[r]
  BY <1>1 DEF EffectiveSubId
<1>3. Found(answer) = {c}
  BY <1>1, <1>2, FoundIsClient
<1>4. ASSUME feed.at = "served", feed.asked = answer PROVE feed.asked = feed.url
  <2>1. AskedFor(d) /\ feed.client \in Client
    BY <1>4 DEF TokenInv
  <2>2. ASSUME Salted, NEW x, feed.asked = <<"id", x>> PROVE FALSE
    BY <1>4, <2>2
  <2>3. ASSUME NEW x \in Ids(feed.client, d.clients[feed.client]), feed.asked = <<"id", x>>,
               feed.client \notin rolledBack =>
                  /\ file.clients[feed.client] # NoRecord
                  /\ file.clients[feed.client].sub # x
        PROVE  FALSE
    <3>1. x = sub[r]
      BY <1>4, <2>3
    <3>2. x \in Owned(d, feed.client)
      BY <2>3 DEF Owned
    <3>3. x \in Owned(d, c)
      BY <1>1, <1>2, <3>1 DEF RecordIds, Owns, Ids
    <3>4. feed.client = c
      BY <1>1, <2>1, <3>2, <3>3, OneOwner
    <3> QED BY <1>1, <2>3, <3>1, <3>4
  <2> QED BY <2>1, <2>2, <2>3 DEF AskedFor
<1> QED BY <1>3, <1>4 DEF Moved

(* A feed has the own link of every inbound its client was promised.       *)
LEMMA PromisedIsServed ==
    ASSUME AttachedInv, FeedInv, feed.at = "served",
           NEW t \in TagsOf(feed.tags) \cap feed.promised,
           NodeOf[t] # External, feed.fetch[NodeOf[t]].exact
    PROVE  IsServed(t, feed.client)
<1> DEFINE n == NodeOf[t]
           f == feed.fetch[n]
<1>1. PICK k \in 1..Len(feed.tags) : feed.tags[k] = t
  BY DEF TagsOf
<1>2. t \in Tag /\ feed.client \in Client /\ n \in Node
  BY <1>1, ConstantsAssumption DEF FeedInv, FeedType
<1>3. f \in Fetch /\ Fetched(n, f)
  BY <1>2 DEF FeedInv, FeedType, FetchInv
<1>4. t \in InboundsOf(n)
  BY DEF FeedInv, PromisedInv, AttachedOn
<1> HIDE DEF f
<1>5. f.exact
  BY DEF f
<1>6. f.at \in Gathered
  BY <1>3, <1>5 DEF Fetched, Nothing
<1>7. f.titles \in [InboundsOf(n) -> Title] /\ Telling(f.titles)
  BY <1>3, <1>5, <1>6 DEF Fetched
<1>8. t \in DOMAIN f.titles /\ f.titles[t] # Untitled
  BY <1>4, <1>7 DEF Telling
<1>9. f.of = feed.client
  BY <1>3, <1>5 DEF Fetched
<1>10. f.titles[t] \in DOMAIN f.links
  BY <1>3, <1>5, <1>9 DEF Fetched
<1>11. HasLink(t)
  BY <1>8, <1>10 DEF HasLink, f
<1>12. PICK i \in 1..Len(feed.links) : feed.links[i] = Link(t)
  BY <1>1, <1>11 DEF FeedInv, ServedInv, Selected
<1>13. Link(t).inbound = t
  BY <1>2, <1>11, LinkBelongs
<1>14. Link(t) = [tag |-> t, inbound |-> f.links[f.titles[t]], of |-> f.of]
  BY DEF Link, f
<1>15. Link(t) = [tag |-> t, inbound |-> t, of |-> feed.client]
  BY <1>9, <1>13, <1>14
<1> QED BY <1>12, <1>15 DEF IsServed

(* Where the feed sends its reader, the same client is found.              *)
LEMMA UrlFinds ==
    ASSUME IdInv, NEW d \in InitialData, RecordIds(d), TokenInv(d),
           feed.at # "idle", feed.client \notin rolledBack,
           Found(feed.url) # {feed.client}
    PROVE  /\ PublicToken(feed.client, file.clients[feed.client]) # feed.url
           /\ Salted \/ file.clients[feed.client].legacy # feed.client
<1> DEFINE c == feed.client
           rec == file.clients[c]
<1>1. c \in Client
  BY DEF TokenInv
<1>2. PICK e \in Owned(d, c) : UrlId(e)
  BY DEF TokenInv
<1>3. /\ feed.url = <<IF Salted THEN "hash" ELSE "id", e>> /\ rec # NoRecord
      /\ rec.sub = e \/ (e = c /\ rec.sub \in Request \cup {None})
  BY <1>2 DEF UrlId
<1>4. c # None
  BY <1>1, NamesAssumption DEF SubId
<1>5. e # EffectiveSubId(c, rec)
  BY <1>1, <1>3, FoundIsClient
<1>6. PublicToken(c, rec) # feed.url
  BY <1>3, <1>5 DEF PublicToken, TokenWith
<1>7. ASSUME ~ Salted, rec.legacy = c PROVE FALSE
  <2>1. e = c
    <3>1. rec.sub = e /\ e # None => EffectiveSubId(c, rec) = e
      BY DEF EffectiveSubId
    <3>2. e \in SubId /\ None \notin SubId
      <4>1. d.clients[c] \in Record \cup {NoRecord}
        BY <1>1, ConstantsAssumption DEF Clients
      <4> QED BY <1>1, <4>1, IdsType DEF Owned, Drew, SubId
    <3> QED BY <1>3, <1>5, <3>1, <3>2
  <2>2. e \in LegacyIds(c, rec)
    BY <1>4, <1>7, <2>1 DEF LegacyIds
  <2>3. Found(<<IF Salted THEN "hash" ELSE "id", e>>) = {c}
    BY <1>1, <1>3, <1>7, <2>2, FoundIsClient
  <2> QED BY <1>3, <2>3
<1> QED BY <1>6, <1>7

LEMMA FeedInvServes == IdInv /\ AttachedInv /\ FeedInv => AnsweredMeansServed
<1> SUFFICES ASSUME IdInv, AttachedInv, FeedInv PROVE AnsweredMeansServed
  OBVIOUS
<1>1. PICK d \in InitialData : RecordIds(d) /\ TokenInv(d)
  BY DEF FeedInv, IdsFrom
<1>2. \A r \in Request : pc[r] = "done" /\ who[r] \notin rolledBack =>
         LET answer == <<IF Salted THEN "hash" ELSE "id", sub[r]>> IN
         /\ Found(answer) = {who[r]}
         /\ feed.at = "served" /\ feed.asked = answer => ~ Moved
  BY <1>1, AnswerFinds
<1>3. feed.at = "served" =>
         \A t \in TagsOf(feed.tags) \cap feed.promised :
            NodeOf[t] # External /\ feed.fetch[NodeOf[t]].exact =>
               IsServed(t, feed.client)
  BY PromisedIsServed
<1>4. feed.at = "served" /\ feed.client \notin rolledBack =>
         LET now == PublicToken(feed.client, file.clients[feed.client])
         IN  \/ Found(feed.url) = {feed.client}
             \/ /\ now # feed.url
                /\ Salted \/ file.clients[feed.client].legacy # feed.client
  BY <1>1, UrlFinds
<1> QED BY <1>2, <1>3, <1>4 DEF AnsweredMeansServed

(* What /start answers with is good, from the bot to the feed: its URL     *)
(* finds its client and no other, without a redirect; the feed then has    *)
(* the client's own links wherever nodes answer and tell their inbounds    *)
(* apart; and a redirect leads to the same client.  Not covered: records   *)
(* another client's save overwrote with an older copy, and the redirect of *)
(* a client that is given its subId while it reads, when it is by hash or  *)
(* by a client id its record keeps no legacy id for.                       *)
THEOREM AnswersAreServed == FeedSpec => []AnsweredMeansServed
BY FeedSpecInv, FeedInvServes, PTL
=============================================================================
