---------------------------- MODULE Provisioning ----------------------------
(***************************************************************************)
(* The provisioning service of the control plane: concurrent requests      *)
(* (/start, /abroad, /issue) that make one client present on the 3x-UI     *)
(* panels of every node it should be on, and then write its record into    *)
(* data.json.                                                              *)
(*                                                                         *)
(* The bot runs every Telegram update in an asyncio task of its own, so a  *)
(* request is interleaved with the others at each `await': an action below *)
(* is the code between two awaits, together with the panel's answer to the *)
(* call that was awaited.  The file is read and written synchronously, so  *)
(* a load or a save is atomic here; DataFile.tla opens the save up.        *)
(***************************************************************************)
EXTENDS Naturals, Sequences, FiniteSets

CONSTANTS
    Client,          \* client ids (Telegram ids and generated manual ids)
    ManualId,        \* those generate_manual_client_id may draw
    Request,         \* requests; each is made once
    Node,            \* nodes of data.json
    Tag,             \* inbound tags of data.json
    External,        \* the "node" of an external inbound
    NodeOf,          \* which node declares a tag
    DefaultTags,     \* defaultClientInboundTags
    DefaultAbroad,   \* defaultClientAbroadInboundTags, or None
    Salted,          \* whether VPN_SUBSCRIPTION_TOKEN_SALT is set
    OldSub,          \* subscription ids drawn before the model starts
    Announcement,    \* texts an admin announces
    InitialData,     \* data.json and panels the service may start from
    MaxCrashes,      \* bound: how often the process dies
    None, NoRecord, Absent, NoSnapshot, Lost

(* Two requests never draw the same random token, so the token a request  *)
(* draws is named by the request.  A client id is an id too: it resolves   *)
(* the URL of a record that has no subId.                                  *)
SubId == Request \cup OldSub \cup Client

Record == [sub : SubId \cup {None}, legacy : SubId \cup {None},
           own : Seq(Tag) \cup {None}, abroad : Seq(Tag) \cup {None}]

Entry == [sub : SubId, on : SUBSET Tag]

Clients == [Client -> Record \cup {NoRecord}]
Panels  == [Node -> [Client -> Entry \cup {Absent}]]
File    == [clients : Clients, subscription : Announcement \cup {None}]

ASSUME ConstantsAssumption ==
    /\ MaxCrashes \in Nat /\ Salted \in BOOLEAN
    /\ ManualId \subseteq Client
    /\ External \notin Node
    /\ NodeOf \in [Tag -> Node \cup {External}]
    /\ DefaultTags \in Seq(Tag)
    /\ DefaultAbroad \in Seq(Tag) \cup {None}
    /\ InitialData \subseteq [clients : Clients, panel : Panels, live : SUBSET Tag]

ASSUME NamesAssumption ==
    /\ Request \cap (OldSub \cup Client) = {} /\ OldSub \cap Client = {}
    /\ None \notin SubId \cup Seq(Tag) \cup Announcement
    /\ NoRecord \notin Record /\ Absent \notin Entry /\ NoSnapshot \notin File
    /\ Lost \notin SubId \cup {None}

(* Ids are random tokens: those the service starts with were drawn before, *)
(* each for one client.                                                    *)
ASSUME IdsAssumption ==
    \A d \in InitialData : \A c, e \in Client :
        d.clients[c] # NoRecord =>
            /\ d.clients[c].sub \notin Request
            /\ c # e /\ d.clients[e] # NoRecord /\ d.clients[e].sub = d.clients[c].sub
                  => d.clients[c].sub = None

VARIABLES
    file,       \* data.json: its clients and subscription sections
    panel,      \* what each 3x-UI panel stores about each client
    live,       \* the tags whose inbound exists on its panel
    queue,      \* per client, the asyncio.Lock: its holder, then its waiters
    pc,         \* where each request is
    who,        \* the client a request is for
    snapshot,   \* the state a request loaded once it held the lock
    sub,        \* final_sub_id of a request
    plan,       \* the tags a request provisions, in order
    done,       \* the nodes a request has finished with
    missing,    \* what a request is about to create or attach on its node
    wire,       \* panel writes whose caller gave up before the answer
    crashes,
    (* History, read by the properties only *)
    announced,  \* the announcement an admin's command last put into the file
    rolledBack, \* clients whose record another client's save overwrote
    disturbed   \* clients a request of whose ended in an error

local == <<who, snapshot, sub, plan, done, missing>>
history == <<announced, rolledBack, disturbed>>
vars == <<file, panel, live, queue, pc, local, wire, crashes, history>>

-----------------------------------------------------------------------------
(* What the code computes from a record *)

OwnTags(rec) == IF rec # NoRecord /\ rec.own # None THEN rec.own ELSE DefaultTags

AbroadTags(rec) ==
    IF rec # NoRecord /\ rec.abroad # None THEN rec.abroad
    ELSE IF DefaultAbroad # None THEN DefaultAbroad ELSE DefaultTags

(* The code drops a repeated tag; here the tags of a node are a set.       *)
ProvisionedTags(rec) == OwnTags(rec) \o AbroadTags(rec)

TagsOf(p) == {p[i] : i \in 1..Len(p)}
NodeTargets(p, n) == {t \in TagsOf(p) : NodeOf[t] = n}
PlannedNodes(p) == {NodeOf[t] : t \in TagsOf(p)} \ {External}

(* node_inbounds is a dict: nodes come in the order of their first tag.    *)
IsNextNode(r, n) ==
    /\ n \in Node \ done[r]
    /\ \E i \in 1..Len(plan[r]) :
          /\ NodeOf[plan[r][i]] = n
          /\ \A j \in 1..(i - 1) : NodeOf[plan[r][j]] \in done[r] \cup {External}

(* Mutant: a record without subId is not given its client id as legacy.    *)
LegacySubId_Forgotten(c, rec) == IF rec = NoRecord THEN None ELSE rec.legacy

LegacySubId(c, rec) ==
    IF rec = NoRecord THEN None
    ELSE IF rec.legacy # None THEN rec.legacy
    ELSE IF rec.sub = None THEN c
    ELSE None

(* The token of the URL a client is given: its id, or, when a salt is       *)
(* configured, the id's keyed hash.                                        *)
EffectiveSubId(c, rec) == IF rec.sub # None THEN rec.sub ELSE c
TokenWith(salted, c, rec) ==
    <<IF salted THEN "hash" ELSE "id", EffectiveSubId(c, rec)>>
PublicToken(c, rec) == TokenWith(Salted, c, rec)

LegacyIds(c, rec) ==
    IF rec.legacy # None THEN {rec.legacy} ELSE IF rec.sub # None THEN {} ELSE {c}

(* The tokens under which the subscription endpoint finds a record.        *)
TokensWith(salted, c, rec) ==
    IF rec = NoRecord THEN {}
    ELSE {<<"id", i>> : i \in {EffectiveSubId(c, rec)} \cup LegacyIds(c, rec)}
         \cup {TokenWith(salted, c, rec)}
Tokens(c, rec) == TokensWith(Salted, c, rec)

(* The record _persist_client_record writes for client c.                  *)
NextRecord(c, rec, s) ==
    [sub    |-> s,
     legacy |-> LegacySubId(c, rec),
     own    |-> IF rec = NoRecord THEN None ELSE rec.own,
     abroad |-> IF rec = NoRecord THEN None ELSE rec.abroad]

-----------------------------------------------------------------------------
InsideLock == {"listing", "looking", "adding", "attaching", "closing"}
(* Mutant: the lock does not exclude anybody.                              *)
Holds_NoLock(r) == who[r] \in Client /\ queue[who[r]] # <<>>
Holds(r) == who[r] \in Client /\ queue[who[r]] # <<>> /\ Head(queue[who[r]]) = r

Init ==
    /\ \E d \in InitialData :
          /\ file = [clients |-> d.clients, subscription |-> None]
          /\ panel = d.panel
          /\ live = d.live
    /\ queue = [c \in Client |-> <<>>]
    /\ pc = [r \in Request |-> "idle"]
    /\ who = [r \in Request |-> None]
    /\ snapshot = [r \in Request |-> NoSnapshot]
    /\ sub = [r \in Request |-> None]
    /\ plan = [r \in Request |-> <<>>]
    /\ done = [r \in Request |-> {}]
    /\ missing = [r \in Request |-> {}]
    /\ wire = {}
    /\ crashes = 0
    /\ announced = None
    /\ rolledBack = {}
    /\ disturbed = {}

(* `async with' queues the request; the lock is first in, first out.       *)
Enqueue(r, c) ==
    /\ pc[r] = "idle"
    /\ pc' = [pc EXCEPT ![r] = "waiting"]
    /\ who' = [who EXCEPT ![r] = c]
    /\ queue' = [queue EXCEPT ![c] = Append(@, r)]
    /\ UNCHANGED <<file, panel, live, snapshot, sub, plan, done, missing, wire,
                   crashes, history>>

EnsureTelegramUser(r) == \E c \in Client \ ManualId : Enqueue(r, c)

IssueManualClient(r) ==
    \E c \in ManualId : file.clients[c] = NoRecord /\ Enqueue(r, c)

(* The request leaves the lock, and its local variables are gone; what it  *)
(* answered with (sub, plan) is kept for the properties.                   *)
Leave(r, outcome) ==
    /\ pc' = [pc EXCEPT ![r] = outcome]
    /\ queue' = [queue EXCEPT ![who[r]] = Tail(@)]
    /\ snapshot' = [snapshot EXCEPT ![r] = NoSnapshot]
    /\ done' = [done EXCEPT ![r] = {}]
    /\ missing' = [missing EXCEPT ![r] = {}]

(* Mutant: an exception does not release the lock.                         *)
Raise_KeepsLock(r) ==
    /\ pc' = [pc EXCEPT ![r] = "failed"]
    /\ snapshot' = [snapshot EXCEPT ![r] = NoSnapshot]
    /\ disturbed' = disturbed \cup {who[r]}
    /\ UNCHANGED <<file, panel, live, queue, who, sub, plan, done, missing,
                   crashes, announced, rolledBack>>

Raise(r) ==
    /\ Leave(r, "failed")
    /\ disturbed' = disturbed \cup {who[r]}
    /\ UNCHANGED <<file, panel, live, who, sub, plan, crashes, announced,
                   rolledBack>>

(* The save of a request returns; or it raises after its rename, when the  *)
(* sync of the directory fails: the record is written, and the user is     *)
(* told of an error all the same.                                          *)
SaveEnds(r) ==
    \/ Leave(r, "done") /\ UNCHANGED disturbed
    \/ Leave(r, "failed") /\ disturbed' = disturbed \cup {who[r]}

(* Mutants: a record without subId stays without; every request draws anew. *)
FinalSubId_OfRecord(r, rec) == IF rec # NoRecord THEN rec.sub ELSE r
FinalSubId_Drawn(r, rec) == r
FinalSubId(r, rec) == IF rec # NoRecord /\ rec.sub # None THEN rec.sub ELSE r

(* The state is loaded, and the loop reaches its first await.              *)
Load(r) ==
    /\ pc[r] = "waiting" /\ Holds(r)
    /\ LET rec == file.clients[who[r]] IN
       /\ PlannedNodes(ProvisionedTags(rec)) # {}
       /\ sub' = [sub EXCEPT ![r] = FinalSubId(r, rec)]
       /\ plan' = [plan EXCEPT ![r] = ProvisionedTags(rec)]
    /\ snapshot' = [snapshot EXCEPT ![r] = file]
    /\ pc' = [pc EXCEPT ![r] = "listing"]
    /\ UNCHANGED <<file, panel, live, queue, who, done, missing, wire, crashes,
                   history>>

(* A client of external inbounds only: no node, no await, one step.        *)
ProvisionNowhere(r) ==
    /\ pc[r] = "waiting" /\ Holds(r)
    /\ LET rec == file.clients[who[r]] IN
       /\ PlannedNodes(ProvisionedTags(rec)) = {}
       /\ sub' = [sub EXCEPT ![r] = FinalSubId(r, rec)]
       /\ plan' = [plan EXCEPT ![r] = ProvisionedTags(rec)]
       /\ file' = [file EXCEPT !.clients[who[r]] =
                        NextRecord(who[r], rec, FinalSubId(r, rec))]
    /\ SaveEnds(r)
    /\ UNCHANGED <<panel, live, who, wire, crashes, announced, rolledBack>>

(* list_inbounds answered, and every target inbound is on the panel.       *)
ListInbounds(r) ==
    /\ pc[r] = "listing"
    /\ \E n \in Node : IsNextNode(r, n) /\ NodeTargets(plan[r], n) \subseteq live
    /\ pc' = [pc EXCEPT ![r] = "looking"]
    /\ UNCHANGED <<file, panel, live, queue, local, wire, crashes, history>>

InboundNotFound(r) ==
    /\ pc[r] = "listing"
    /\ \E n \in Node : IsNextNode(r, n) /\ ~ NodeTargets(plan[r], n) \subseteq live
    /\ Raise(r)
    /\ UNCHANGED wire

(* Mutant: the first node ends the loop.                                   *)
FinishNode_First(r, n) ==
    /\ done' = [done EXCEPT ![r] = @ \cup {n}]
    /\ missing' = [missing EXCEPT ![r] = {}]
    /\ pc' = [pc EXCEPT ![r] = "closing"]

(* The loop moves on to the next node, or ends.                            *)
FinishNode(r, n) ==
    /\ done' = [done EXCEPT ![r] = @ \cup {n}]
    /\ missing' = [missing EXCEPT ![r] = {}]
    /\ pc' = [pc EXCEPT ![r] = IF PlannedNodes(plan[r]) \subseteq done'[r]
                               THEN "closing" ELSE "listing"]

(* get_client takes any answer without a client for "there is none": a 404,*)
(* but also a panel that reports an error.                                 *)
GetClientNone(r) ==
    /\ pc[r] = "looking"
    /\ \E n \in Node :
          /\ IsNextNode(r, n)
          /\ missing' = [missing EXCEPT ![r] = NodeTargets(plan[r], n)]
    /\ pc' = [pc EXCEPT ![r] = "adding"]
    /\ UNCHANGED <<file, panel, live, queue, who, snapshot, sub, plan, done,
                   wire, crashes, history>>

GetClientFound(r) ==
    /\ pc[r] = "looking"
    /\ \E n \in Node :
          /\ IsNextNode(r, n)
          /\ panel[n][who[r]] # Absent
          /\ LET lacking == NodeTargets(plan[r], n) \ panel[n][who[r]].on IN
             \/ /\ lacking = {}
                /\ FinishNode(r, n)
             \/ /\ lacking # {}
                /\ missing' = [missing EXCEPT ![r] = lacking]
                /\ pc' = [pc EXCEPT ![r] = "attaching"]
                /\ UNCHANGED done
    /\ UNCHANGED <<file, panel, live, queue, who, snapshot, sub, plan, wire,
                   crashes, history>>

(* What a panel does with an add and with an attach.                       *)
PanelAdd(n, c, s, on) ==
    /\ panel[n][c] = Absent
    /\ panel' = [panel EXCEPT ![n][c] = [sub |-> s, on |-> on]]

PanelAttach(n, c, on) ==
    /\ panel[n][c] # Absent
    /\ panel' = [panel EXCEPT ![n][c].on = @ \cup on]

AddClient(r) ==
    /\ pc[r] = "adding"
    /\ \E n \in Node :
          /\ IsNextNode(r, n)
          /\ PanelAdd(n, who[r], sub[r], missing[r])
          /\ FinishNode(r, n)
    /\ UNCHANGED <<file, live, queue, who, snapshot, sub, plan, wire, crashes,
                   history>>

AttachClient(r) ==
    /\ pc[r] = "attaching"
    /\ \E n \in Node :
          /\ IsNextNode(r, n)
          /\ PanelAttach(n, who[r], missing[r])
          /\ FinishNode(r, n)
    /\ UNCHANGED <<file, live, queue, who, snapshot, sub, plan, wire, crashes,
                   history>>

(* Any awaited call, the load, and the save up to its rename can raise;    *)
(* the exception passes through `finally' and `async with' and leaves file *)
(* and panels alone.                                                       *)
Fail(r) ==
    /\ pc[r] \in InsideLock \/ (pc[r] = "waiting" /\ Holds(r))
    /\ Raise(r)
    /\ UNCHANGED wire

(* The write a request is waiting for: it may reach the panel although     *)
(* nobody waits for the answer any more.                                   *)
PendingWrites(r) ==
    {[kind |-> pc[r], node |-> n, client |-> who[r], sub |-> sub[r],
      on |-> missing[r]] :
        n \in {m \in Node : pc[r] \in {"adding", "attaching"} /\ IsNextNode(r, m)}}

GiveUp(r) ==
    /\ pc[r] \in {"adding", "attaching"}
    /\ Raise(r)
    /\ wire' = wire \cup PendingWrites(r)

LateWrite ==
    \E w \in wire :
       /\ \/ w.kind = "adding" /\ PanelAdd(w.node, w.client, w.sub, w.on)
          \/ w.kind = "attaching" /\ PanelAttach(w.node, w.client, w.on)
       /\ wire' = wire \ {w}
       /\ UNCHANGED <<file, live, queue, pc, local, crashes, history>>

(* Mutant: the save writes the loaded state, not only its clients.         *)
Persist_WholeState(r) ==
    /\ pc[r] = "closing"
    /\ LET next == [snapshot[r].clients EXCEPT
                       ![who[r]] = NextRecord(who[r], @, sub[r])] IN
       /\ file' = [snapshot[r] EXCEPT !.clients = next]
       /\ rolledBack' = rolledBack \cup
             {c \in Client \ {who[r]} : next[c] # file.clients[c]}
    /\ SaveEnds(r)
    /\ UNCHANGED <<panel, live, who, sub, plan, wire, crashes, announced>>

(* _persist_client_record: the clients section of the loaded state, with   *)
(* this record replaced, goes into the file as it is now.                  *)
Persist(r) ==
    /\ pc[r] = "closing"
    /\ LET next == [snapshot[r].clients EXCEPT
                       ![who[r]] = NextRecord(who[r], @, sub[r])] IN
       /\ file' = [file EXCEPT !.clients = next]
       /\ rolledBack' = rolledBack \cup
             {c \in Client \ {who[r]} : next[c] # file.clients[c]}
    /\ SaveEnds(r)
    /\ UNCHANGED <<panel, live, who, sub, plan, wire, crashes, announced>>

(* handle_announce and handle_unannounce, and handle_set_routing for that  *)
(* matter: load and save the subscription section without an await.  The   *)
(* command may be refused after that, like a request in SaveEnds.          *)
Announce ==
    \E a \in Announcement \cup {None} :
       /\ file' = [file EXCEPT !.subscription = a]
       /\ announced' = a
       /\ UNCHANGED <<panel, live, queue, pc, local, wire, crashes, rolledBack,
                      disturbed>>

(* The process dies and starts again: tasks and locks are gone.            *)
Crash ==
    /\ crashes < MaxCrashes
    /\ crashes' = crashes + 1
    /\ LET dead == {r \in Request : pc[r] \in InsideLock \cup {"waiting"}} IN
       /\ dead # {}
       /\ pc' = [r \in Request |-> IF r \in dead THEN "failed" ELSE pc[r]]
       /\ snapshot' = [r \in Request |-> NoSnapshot]
       /\ done' = [r \in Request |-> {}]
       /\ missing' = [r \in Request |-> {}]
       /\ wire' = wire \cup UNION {PendingWrites(r) : r \in dead}
       /\ disturbed' = disturbed \cup {who[r] : r \in dead}
    /\ queue' = [c \in Client |-> <<>>]
    /\ UNCHANGED <<file, panel, live, who, sub, plan, announced, rolledBack>>

Work(r) ==
    \/ Load(r) \/ ProvisionNowhere(r) \/ ListInbounds(r) \/ InboundNotFound(r)
    \/ GetClientNone(r) \/ GetClientFound(r)
    \/ AddClient(r) \/ AttachClient(r)
    \/ Persist(r) \/ Fail(r) \/ GiveUp(r)

Next ==
    \/ \E r \in Request : EnsureTelegramUser(r) \/ IssueManualClient(r) \/ Work(r)
    \/ LateWrite
    \/ Announce
    \/ Crash

Spec == Init /\ [][Next]_vars

(* An asyncio task that can run does run, and an HTTP call ends, with an    *)
(* answer or with the client's 30 s timeout.                               *)
FairSpec == Spec /\ \A r \in Request : WF_vars(Work(r))

-----------------------------------------------------------------------------
(* Properties *)

PcValue == InsideLock \cup {"idle", "waiting", "done", "failed"}

(* The last kind is a write of ClientSync, which shares the wire.          *)
Write == [kind : {"adding", "attaching", "updating"}, node : Node,
          client : Client, sub : SubId, on : SUBSET Tag]

(* The values the variables range over.                                    *)
TypeOK ==
    /\ file \in File
    /\ panel \in Panels
    /\ live \in SUBSET Tag
    /\ queue \in [Client -> Seq(Request)]
    /\ pc \in [Request -> PcValue]
    /\ who \in [Request -> Client \cup {None}]
    /\ snapshot \in [Request -> File \cup {NoSnapshot}]
    /\ sub \in [Request -> SubId \cup {None}]
    /\ plan \in [Request -> Seq(Tag)]
    /\ done \in [Request -> SUBSET Node]
    /\ missing \in [Request -> SUBSET Tag]
    /\ wire \in SUBSET Write
    /\ crashes \in 0..MaxCrashes
    /\ announced \in Announcement \cup {None}
    /\ rolledBack \in SUBSET Client
    /\ disturbed \in SUBSET Client

(* Between its load and its save a request is alone on its client: no      *)
(* other request for that client is past the lock (_client_lock).          *)
OneRequestPerClient ==
    \A r, q \in Request :
        r # q /\ pc[r] \in InsideLock /\ pc[q] \in InsideLock => who[r] # who[q]

(* When a request has answered, its client is attached to every inbound    *)
(* its record asks for, on every node: whatever was created or attached    *)
(* before, by this request, an earlier one, or a write that came late.     *)
AnsweredMeansAttached ==
    \A r \in Request : pc[r] = "done" =>
        \A t \in TagsOf(plan[r]) : NodeOf[t] # External =>
            /\ panel[NodeOf[t]][who[r]] # Absent
            /\ t \in panel[NodeOf[t]][who[r]].on

(* The subscription id a request answered with keeps resolving to that     *)
(* client, until the save of a request for another client has written an   *)
(* older copy of the record back.                                          *)
DeliveredUrlResolves ==
    \A r \in Request : pc[r] = "done" /\ who[r] \notin rolledBack =>
        <<"id", sub[r]>> \in Tokens(who[r], file.clients[who[r]])

(* ...and, as the smoke checklist has it ("the bot returns the same        *)
(* subscription URL"), with no such exception.                             *)
SameUrlForReturningUser ==
    \A r, q \in Request :
        pc[r] = "done" /\ pc[q] = "done" /\ who[r] = who[q] => sub[r] = sub[q]

(* The panels know a client by the subId of its record, if none of its     *)
(* requests ended in an error and no other client's save got in the way.   *)
(* A client that has a legacy id keeps its old subId on the panels.        *)
PanelsAgreeWithRecord ==
    \A c \in Client \ (rolledBack \cup disturbed), n \in Node :
        LET rec == file.clients[c] IN
        rec # NoRecord /\ rec.sub # None /\ rec.legacy = None
            /\ panel[n][c] # Absent => panel[n][c].sub = rec.sub

(* The checklist's "subId equals the subscription identifier", of every    *)
(* new client that was answered.                                           *)
AnsweredMeansPanelsAgree ==
    \A r \in Request : pc[r] = "done" =>
        LET rec == file.clients[who[r]] IN
        rec # NoRecord /\ rec.legacy = None =>
            \A n \in Node : panel[n][who[r]] # Absent => panel[n][who[r]].sub = rec.sub

(* An announcement in the file stays until the next one: a save of the     *)
(* clients from an old snapshot does not bring the old text back.          *)
AnnouncementKept == file.subscription = announced

(* A URL that finds a client keeps finding it, with and without a salt,    *)
(* unless another client's stale save loses the record.  A record with a   *)
(* subId keeps every token it has; one without is given a subId, and keeps *)
(* the tokens of its legacy ids.  The exceptions, of a record without a    *)
(* subId: its hashed token, and, when it has a legacySubId, the client id  *)
(* it was also known by (_legacy_sub_id).                                  *)
UrlsKept ==
    [][\A c \in Client \ rolledBack', salted \in BOOLEAN :
          LET was == file.clients[c]
              is  == TokensWith(salted, c, file'.clients[c]) IN
          was # NoRecord =>
             /\ was.sub # None => TokensWith(salted, c, was) \subseteq is
             /\ {<<"id", i>> : i \in LegacyIds(c, was)} \subseteq is]_vars

(* README: "Public URL compatibility is preserved by client subId and      *)
(* legacySubId fields": the public URL of any record goes on working.      *)
PublicUrlKept ==
    [][\A c \in Client \ rolledBack' :
          file.clients[c] # NoRecord =>
             PublicToken(c, file.clients[c]) \in Tokens(c, file'.clients[c])]_vars

(* A request that was made ends, answered or refused: an error anywhere    *)
(* frees the lock for the requests that wait behind it.                    *)
EveryRequestEnds ==
    \A r \in Request : pc[r] = "waiting" ~> pc[r] \in {"done", "failed"}

(* What the file promises: see ClientRegistry.                             *)
IssuedIds ==
    [c \in Client |-> IF c \in rolledBack THEN Lost
                      ELSE IF file.clients[c] = NoRecord THEN None
                      ELSE file.clients[c].sub]
Registry == INSTANCE ClientRegistry WITH
    Id <- SubId, Nothing <- None, Lost <- Lost, issued <- IssuedIds
ImplementsRegistry == Registry!Spec
=============================================================================
