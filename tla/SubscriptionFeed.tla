-------------------------- MODULE SubscriptionFeed --------------------------
(***************************************************************************)
(* A GET of a subscription URL: SubscriptionService.build, which finds the *)
(* client of the token, asks the panels of its nodes for its links, all at *)
(* once, and puts the feed together.  It runs beside the requests of       *)
(* Provisioning, which change the record and the panels under it.          *)
(*                                                                         *)
(* A panel hands out links by client; which inbound a link is of shows     *)
(* only in its fragment, the title ("remark") of the inbound, which an     *)
(* operator can change, leave empty or give to two inbounds.               *)
(***************************************************************************)
EXTENDS Provisioning

CONSTANTS
    Shared,          \* panel clients that a fallback e-mail may name
    SharedOn,        \* the inbounds each of them is attached to
    FallbackOf,      \* xuiFallbackClientEmail of a tag, or of its node, or None
    Title,           \* titles of inbounds
    Untitled,        \* the empty title
    InitialTitle,
    Retitled,        \* bound: the inbounds an operator retitles
    MaxRenames       \* bound: how often

ASSUME FeedAssumption ==
    /\ Shared \cap Client = {} /\ SharedOn \in [Shared -> SUBSET Tag]
    /\ FallbackOf \in [Tag -> Shared \cup {None}]
    /\ Untitled \in Title /\ InitialTitle \in [Tag -> Title]
    /\ Retitled \subseteq Tag /\ MaxRenames \in Nat

(* The ids a record is found by.                                           *)
Ids(c, rec) ==
    IF rec = NoRecord THEN {} ELSE {EffectiveSubId(c, rec)} \cup LegacyIds(c, rec)

(* Those the service starts with, subId or legacy, were drawn or given     *)
(* before, each for one client.  (That is up to the operator: of two       *)
(* clients with one id, the code serves the one data.json lists first.)    *)
ASSUME FeedIdsAssumption ==
    \A d \in InitialData : \A c, e \in Client :
        /\ Ids(c, d.clients[c]) \cap Request = {}
        /\ c # e => Ids(c, d.clients[c]) \cap Ids(e, d.clients[e]) = {}

VARIABLES
    feed,            \* the locals of the GET
    title,           \* what each inbound is called on its panel
    renames

feedVars == <<feed, title, renames>>

(* What _fetch_node_data knows of a node, and where it is.                 *)
NotAsked ==
    [at     |-> "off",
     titles |-> <<>>,       \* remark_by_inbound
     links  |-> <<>>,       \* link_by_remark: the inbound the link is of
     of     |-> None,       \* whose links they are
     exact  |-> FALSE]      \* history: the panel told the whole truth

NoFeed ==
    [at |-> "idle", client |-> None, tags |-> <<>>,
     asked    |-> <<>>,     \* the token of the GET
     url      |-> <<>>,     \* the token of the client's public URL
     known    |-> {},       \* external tags that resolve to a link
     promised |-> {},       \* history: tags some request answered with before
     fetch |-> [n \in Node |-> NotAsked], links |-> <<>>]

FeedInit == Init /\ feed = NoFeed /\ title = InitialTitle /\ renames = 0
-----------------------------------------------------------------------------
Registered == {c \in Client : file.clients[c] # NoRecord}

(* _find_client: by subId, or else by legacy id, or else by salted hash.   *)
Found(token) ==
    LET BySub == {c \in Registered :
                     token = <<"id", EffectiveSubId(c, file.clients[c])>>}
        ByLegacy == {c \in Registered :
                     token \in {<<"id", i>> : i \in LegacyIds(c, file.clients[c])}}
        ByHash == {c \in Registered : Salted /\ token = PublicToken(c, file.clients[c])}
    IN  IF BySub # {} THEN BySub ELSE IF ByLegacy # {} THEN ByLegacy ELSE ByHash

(* The inbounds of a node, and those of them a panel client is attached to.*)
InboundsOf(n) == {t \in live : NodeOf[t] = n}
AttachedOn(n, x) ==
    InboundsOf(n) \cap
        (IF x \in Shared THEN SharedOn[x]
         ELSE IF panel[n][x] = Absent THEN {} ELSE panel[n][x].on)

Titles(n) == [t \in InboundsOf(n) |-> title[t]]
Telling(titles) ==
    \A t, u \in DOMAIN titles : titles[t] # Untitled /\ (titles[t] = titles[u] => t = u)

(* link_by_remark: of links with one title, the one that comes first.      *)
LinksByTitle(n, x) ==
    LET on == AttachedOn(n, x)
        used == {title[t] : t \in on}
    IN  {f \in [used -> on] : \A k \in used : title[f[k]] = k}

(* _fallback_client_emails, of the first requested inbound of a node.      *)
FirstRequested(n) ==
    LET i == CHOOSE i \in 1..Len(feed.tags) :
                /\ NodeOf[feed.tags[i]] = n
                /\ \A j \in 1..(i - 1) : NodeOf[feed.tags[j]] # n
    IN  feed.tags[i]
Fallback(n) == FallbackOf[FirstRequested(n)]
-----------------------------------------------------------------------------
(* What a request for this client has answered with, up to now.            *)
Promised(c) ==
    IF c \in rolledBack THEN {}
    ELSE UNION {TagsOf(plan[r]) : r \in {q \in Request : pc[q] = "done" /\ who[q] = c}}

(* The state and the resolved references are loaded; a fetch is started    *)
(* for every node that one of the tags is of.                              *)
FeedBegin(token, abroad) ==
    /\ feed.at = "idle"
    /\ \E c \in Found(token), known \in SUBSET {t \in Tag : NodeOf[t] = External} :
          LET rec == file.clients[c]
              tags == IF abroad THEN AbroadTags(rec) ELSE OwnTags(rec)
          IN  /\ known \subseteq TagsOf(tags)
              /\ feed' = [NoFeed EXCEPT
                    !.at = "fetching", !.client = c, !.tags = tags,
                    !.asked = token, !.url = PublicToken(c, rec), !.known = known,
                    !.promised = Promised(c),
                    !.fetch = [n \in Node |->
                        IF n \in PlannedNodes(tags) THEN [NotAsked EXCEPT !.at = "listing"]
                        ELSE NotAsked]]
    /\ UNCHANGED <<vars, title, renames>>

FetchIs(n, at) == feed.at = "fetching" /\ feed.fetch[n].at \in at
SetFetch(n, f) == feed' = [feed EXCEPT !.fetch[n] = f] /\ UNCHANGED <<vars, title, renames>>

ListTitles(n) ==
    /\ FetchIs(n, {"listing"})
    /\ SetFetch(n, [feed.fetch[n] EXCEPT !.at = "linking", !.titles = Titles(n)])

GetLinks(n) ==
    /\ FetchIs(n, {"linking"}) /\ AttachedOn(n, feed.client) # {}
    /\ \E f \in LinksByTitle(n, feed.client) :
          SetFetch(n, [feed.fetch[n] EXCEPT
              !.at = "traffic", !.links = f, !.of = feed.client,
              !.exact = (Titles(n) = feed.fetch[n].titles /\ Telling(Titles(n)))])

(* No links: a client without inbounds, or a panel that reports an error.  *)
GetNoLinks(n) ==
    /\ FetchIs(n, {"linking"})
    /\ SetFetch(n, [feed.fetch[n] EXCEPT
           !.at = IF Fallback(n) = None THEN "traffic" ELSE "fallback",
           !.exact = (AttachedOn(n, feed.client) = {}
                         /\ Titles(n) = feed.fetch[n].titles /\ Telling(Titles(n)))])

GetFallbackLinks(n) ==
    /\ FetchIs(n, {"fallback"})
    /\ \E f \in LinksByTitle(n, Fallback(n)) :
          SetFetch(n, [feed.fetch[n] EXCEPT
              !.at = "traffic", !.links = f, !.of = Fallback(n),
              !.exact = (@ /\ Titles(n) = feed.fetch[n].titles)])

GetNoFallbackLinks(n) ==
    /\ FetchIs(n, {"fallback"})
    /\ SetFetch(n, [feed.fetch[n] EXCEPT !.at = "traffic", !.exact = FALSE])

(* Answered or refused: traffic is not what a feed fails for.              *)
GetTraffic(n) ==
    FetchIs(n, {"traffic"}) /\ SetFetch(n, [feed.fetch[n] EXCEPT !.at = "over"])

BeforeLinks == {"listing", "linking", "fallback"}
(* Mutant: what a failed node had answered is used all the same.           *)
NodeFails_Keeps(n) ==
    FetchIs(n, BeforeLinks) /\ SetFetch(n, [feed.fetch[n] EXCEPT !.at = "failed"])

NodeFails(n) ==
    FetchIs(n, BeforeLinks) /\ SetFetch(n, [NotAsked EXCEPT !.at = "failed"])

(* Mutant: the timeout covers what a feed needs, the links.                *)
FetchTimesOut_Links(n) ==
    FetchIs(n, BeforeLinks) /\ SetFetch(n, [NotAsked EXCEPT !.at = "failed"])

FetchTimesOut(n) ==
    \/ FetchIs(n, BeforeLinks) /\ SetFetch(n, [NotAsked EXCEPT !.at = "failed"])
    \/ FetchIs(n, {"traffic"}) /\ SetFetch(n, [feed.fetch[n] EXCEPT !.at = "over"])

HasLink(t) ==
    IF NodeOf[t] = External THEN t \in feed.known
    ELSE LET f == feed.fetch[NodeOf[t]] IN
         /\ t \in DOMAIN f.titles /\ f.titles[t] # Untitled
         /\ f.titles[t] \in DOMAIN f.links

(* A link, the tag it is labelled and placed for, and whose it is.         *)
Link(t) ==
    IF NodeOf[t] = External THEN [tag |-> t, inbound |-> t, of |-> External]
    ELSE LET f == feed.fetch[NodeOf[t]] IN
         [tag |-> t, inbound |-> f.links[f.titles[t]], of |-> f.of]

(* Mutant: a node that failed fails the feed.                              *)
Assembled_AllOrNothing ==
    LET has == SelectSeq(feed.tags, HasLink) IN
    IF \E n \in Node : feed.fetch[n].at = "failed" THEN <<>>
    ELSE [i \in 1..Len(has) |-> Link(has[i])]

(* Mutant: the links of the nodes first, then the external ones.           *)
Assembled_ExternalLast ==
    LET IsOfNode(t) == HasLink(t) /\ NodeOf[t] # External
        IsExternal(t) == HasLink(t) /\ NodeOf[t] = External
        has == SelectSeq(feed.tags, IsOfNode) \o SelectSeq(feed.tags, IsExternal)
    IN  [i \in 1..Len(has) |-> Link(has[i])]

Assembled ==
    LET upTo[i \in 0 .. Len(feed.tags)] ==
            IF i = 0 THEN <<>>
            ELSE IF HasLink(feed.tags[i]) THEN Append(upTo[i - 1], Link(feed.tags[i]))
            ELSE upTo[i - 1]
    IN  upTo[Len(feed.tags)]

FeedDeliver ==
    /\ feed.at = "fetching"
    /\ \A n \in Node : feed.fetch[n].at \in {"off", "over", "failed"}
    /\ feed' = [feed EXCEPT !.at = "served", !.links = Assembled]
    /\ UNCHANGED <<vars, title, renames>>

(* The answer is a redirect to the public URL, or names it as the new one. *)
Moved == feed.asked # feed.url

FeedDone ==
    feed.at = "served" /\ feed' = NoFeed /\ UNCHANGED <<vars, title, renames>>

(* The operator retitles an inbound in the panel's web interface.          *)
Rename(t) ==
    /\ renames < MaxRenames /\ renames' = renames + 1
    /\ \E k \in Title \ {title[t]} : title' = [title EXCEPT ![t] = k]
    /\ UNCHANGED <<vars, feed>>

(* A step of the rest of the process; when that dies, the GET dies too.    *)
Elsewhere ==
    /\ Next
    /\ feed' = IF crashes' = crashes THEN feed ELSE NoFeed
    /\ UNCHANGED <<title, renames>>

FeedNext ==
    \/ \E kind \in {"id", "hash"}, i \in SubId, abroad \in BOOLEAN :
          FeedBegin(<<kind, i>>, abroad)
    \/ \E n \in Node :
          \/ ListTitles(n) \/ GetLinks(n) \/ GetNoLinks(n)
          \/ GetFallbackLinks(n) \/ GetNoFallbackLinks(n)
          \/ GetTraffic(n) \/ NodeFails(n) \/ FetchTimesOut(n)
    \/ FeedDeliver \/ FeedDone
    \/ \E t \in Retitled : Rename(t)
    \/ Elsewhere

FeedSpec == FeedInit /\ [][FeedNext]_<<vars, feedVars>>

(* A fetch that does not end is ended by its timeout; what is gathered is  *)
(* delivered.  That a panel answers is not assumed.                        *)
FairFeedSpec ==
    /\ FeedSpec
    /\ \A n \in Node : WF_<<vars, feedVars>>(FetchTimesOut(n))
    /\ WF_<<vars, feedVars>>(FeedDeliver)
-----------------------------------------------------------------------------
FetchAt == {"off", "listing", "linking", "fallback", "traffic", "over", "failed"}

(* The values the variables range over.  A feed asks the nodes of its tags *)
(* and no others, and a node that failed has no part in it.                *)
FeedTypeOK ==
    /\ feed.at \in {"idle", "fetching", "served"}
    /\ feed.client \in Client \cup {None}
    /\ feed.tags \in Seq(Tag)
    /\ feed.known \subseteq Tag /\ feed.promised \subseteq Tag
    /\ \A n \in Node :
          LET f == feed.fetch[n] IN
          /\ f.at \in FetchAt
          /\ f.at = "off" <=> n \notin PlannedNodes(feed.tags)
          /\ f.at \in {"off", "listing", "failed"} => f.titles = <<>>
          /\ DOMAIN f.links \subseteq Title
          /\ f.of \in Client \cup Shared \cup {None}
          /\ f.exact \in BOOLEAN
    /\ \A i \in 1..Len(feed.links) :
          feed.links[i] \in [tag : TagsOf(feed.tags), inbound : Tag,
                             of : Client \cup Shared \cup {External}]
    /\ title \in [Tag -> Title] /\ renames \in 0..MaxRenames

IsServed(t, x) ==
    \E i \in 1..Len(feed.links) : feed.links[i] = [tag |-> t, inbound |-> t, of |-> x]

(* What /start answers with is good, from the bot to the feed.  The public *)
(* URL it hands out finds that client and no other, and without a redirect *)
(* (smoke checklist); a feed asked for afterwards has the client's own     *)
(* link for every inbound, as far as nodes answer in time and tell their   *)
(* inbounds apart, whatever the other nodes do; and where a redirect leads *)
(* the same client is found.  Excepted are records another client's save   *)
(* lost, and redirects of a client that is given its subId meanwhile: by   *)
(* hash, or by a client id that the record keeps no legacy id for.         *)
AnsweredMeansServed ==
    /\ \A r \in Request : pc[r] = "done" /\ who[r] \notin rolledBack =>
          LET answer == <<IF Salted THEN "hash" ELSE "id", sub[r]>> IN
          /\ Found(answer) = {who[r]}
          /\ feed.at = "served" /\ feed.asked = answer => ~ Moved
    /\ feed.at = "served" =>
          \A t \in TagsOf(feed.tags) \cap feed.promised :
             NodeOf[t] # External /\ feed.fetch[NodeOf[t]].exact =>
                IsServed(t, feed.client)
    /\ feed.at = "served" /\ feed.client \notin rolledBack =>
          LET now == PublicToken(feed.client, file.clients[feed.client])
          IN  \/ Found(feed.url) = {feed.client}
              \/ /\ now # feed.url
                 /\ Salted \/ file.clients[feed.client].legacy # feed.client

(* The links of a feed come in the order of its tags, each once.  Each is  *)
(* the client's, or that of the fallback client of its node, and only if   *)
(* the client has none there; and each is of the inbound it is labelled    *)
(* for, if the panel's titles told the inbounds apart all along.           *)
LinksBelong ==
    feed.at = "served" =>
       /\ \A i, j \in 1..Len(feed.links) : i < j =>
             \E k, l \in 1..Len(feed.tags) :
                /\ k < l
                /\ feed.tags[k] = feed.links[i].tag /\ feed.tags[l] = feed.links[j].tag
       /\ \A i \in 1..Len(feed.links) :
             LET link == feed.links[i]
                 n == NodeOf[link.tag]
             IN  IF n = External THEN link.tag \in feed.known
                 ELSE /\ link.inbound \in AttachedOn(n, link.of)
                      /\ link.of \in {feed.client, Fallback(n)}
                      /\ feed.fetch[n].exact =>
                            /\ link.inbound = link.tag
                            /\ link.of # feed.client =>
                                  {t \in feed.promised : NodeOf[t] = n} = {}

(* README: "When a subscription client is missing from an XUI inbound,     *)
(* xuiFallbackClientEmail can point it to a shared fallback client."       *)
MissingInboundFallsBack ==
    feed.at = "served" =>
       \A t \in TagsOf(feed.tags) :
          /\ NodeOf[t] # External /\ feed.fetch[NodeOf[t]].exact
          /\ FallbackOf[t] # None /\ t \in AttachedOn(NodeOf[t], FallbackOf[t])
          => \E i \in 1..Len(feed.links) : feed.links[i].tag = t

(* A GET ends, though panels may never answer (node_fetch_timeout_seconds).*)
FeedEnds == feed.at = "fetching" ~> feed.at # "fetching"
=============================================================================
