----------------------- MODULE ExternalSubscriptions -----------------------
(***************************************************************************)
(* External subscriptions: feeds of inbounds run by others.  The loop of   *)
(* the app refreshes the feeds that are due, a manual run refreshes all of *)
(* them; they are two processes, and each loads the resolved file, fetches *)
(* the feeds, and saves the file as it loaded it with the feeds that       *)
(* answered replaced.  References in data.json name an inbound by a slug.  *)
(*                                                                         *)
(* A slug is the sequence of its words (the program joins them with "-"),  *)
(* and a collision is told apart by a number as one more word.             *)
(***************************************************************************)
EXTENDS Naturals, Sequences, SequencesExt

CONSTANTS
    Name,            \* names of feeds
    Url, UrlOf,      \* and their urls; feeds may share one
    Label, Uri,      \* labels and links, as numbers in their order
    Word, Words,     \* words, and those of a label: Words[l]
    Passes,          \* the labels that pass inboundFilter: Passes[n]
    Interval,        \* updateInterval[n], in ticks
    Bodies,          \* what a feed may serve: Bodies[u], sequences of entries
    MaxEvents,       \* bound: manual runs, changes of a feed or of data.json,
                     \* failed reads and stops, together
    Nothing          \* no body, or no answer

Entry == [uri : Uri, label : Label]

ASSUME FeedsAssumption ==
    /\ UrlOf \in [Name -> Url]
    /\ Bodies \in [Url -> SUBSET Seq(Entry)]
    /\ Passes \in [Name -> SUBSET Label]
    /\ Label \subseteq Nat /\ Uri \subseteq Nat

(* A label without any words counts as "untitled" (assign_slugs).          *)
ASSUME WordsAssumption == Words \in [Label -> Seq(Word) \ {<<>>}]

ASSUME BoundsAssumption ==
    /\ Interval \in [Name -> Nat \ {0}]
    /\ MaxEvents \in Nat

VARIABLES
    subscribed,      \* the feeds data.json declares
    served,          \* what each feed answers now
    resolved,        \* the resolved file: per feed its inbounds and their age
    run,             \* per process: the state of its refresh
    events,
    (* History, read by the properties only *)
    misled           \* processes that loaded something else than the file is now

vars == <<subscribed, served, resolved, run, events, misled>>

Process == {"app", "manual"}
-----------------------------------------------------------------------------
(* Slugs *)

(* Mutant: a slug that is taken is used again.                             *)
FreeSlug_Taken(base, used) == base

(* The first of base, base-2, base-3, ... that is not used.                *)
FreeSlug(base, used) ==
    LET numbered(k) == IF k = 1 THEN base ELSE Append(base, k)
        first == CHOOSE k \in 1 .. Cardinality(used) + 1 :
                    /\ numbered(k) \notin used
                    /\ \A j \in 1 .. k - 1 : numbered(j) \in used
    IN  numbered(first)

SlugsOf(inbounds) == {inbounds[i].slug : i \in DOMAIN inbounds}

(* Mutant: slugs are numbered in the order the feed has.                   *)
Sorted_AsServed(entries) == entries

(* By link, then label.                                                    *)
Before(e, f) == e.uri < f.uri \/ (e.uri = f.uri /\ e.label < f.label)
InOrder(entries) ==
    \A i, j \in DOMAIN entries : i < j => ~ Before(entries[j], entries[i])

Reordered(entries, order) == [i \in DOMAIN entries |-> entries[order[i]]]
Orders(entries) ==
    {order \in [DOMAIN entries -> DOMAIN entries] : IsInjective(order)}

Sorted(entries) ==
    CHOOSE s \in {Reordered(entries, order) : order \in Orders(entries)} : InOrder(s)

(* The loop of assign_slugs, over entries in order.                        *)
Slugged(entries) ==
    LET inbound(known, e) ==
            [slug  |-> FreeSlug(Words[e.label], SlugsOf(known)),
             label |-> e.label,
             uri   |-> e.uri]
        upTo[i \in 0 .. Len(entries)] ==
            IF i = 0 THEN <<>>
            ELSE Append(upTo[i - 1], inbound(upTo[i - 1], entries[i]))
    IN  upTo[Len(entries)]

AssignSlugs(entries) == Slugged(Sorted(entries))

Passing(n, body) ==
    LET upTo[i \in 0 .. Len(body)] ==
            IF i = 0 THEN <<>>
            ELSE IF body[i].label \in Passes[n] THEN Append(upTo[i - 1], body[i])
            ELSE upTo[i - 1]
    IN  upTo[Len(body)]

(* build_resolved_inbounds: what a body makes of a feed.                   *)
Built == [n \in Name |-> [body \in Bodies[UrlOf[n]] |-> AssignSlugs(Passing(n, body))]]

(* resolve_reference: the link of the first inbound with such a slug, the  *)
(* one a reference names or those that match its regex.                    *)
Resolve(slugs, inbounds) ==
    LET matches == {i \in DOMAIN inbounds : inbounds[i].slug \in slugs}
    IN  IF matches = {} THEN Nothing
        ELSE inbounds[CHOOSE i \in matches : \A j \in matches : i <= j].uri
-----------------------------------------------------------------------------
Empty == [inbounds |-> <<>>, age |-> 0]
NoFile == [n \in Name |-> Empty]

Idle == [at |-> "idle", names |-> {}, todo |-> {}, loaded |-> NoFile,
         left |-> {}, bodies |-> [u \in Url |-> Nothing], age |-> 0]

Init ==
    /\ subscribed \in SUBSET Name
    /\ served \in [Url -> UNION {Bodies[u] : u \in Url}]
    /\ \A u \in Url : served[u] \in Bodies[u]
    /\ resolved = NoFile
    /\ run = [p \in Process |-> Idle]
    /\ events = 0
    /\ misled = {}

Event == events < MaxEvents /\ events' = events + 1

(* Mutant: a feed that resolved to nothing is not due.                     *)
IsDue_OnlyOld(n, file) ==
    file[n].inbounds # <<>> /\ file[n].age >= Interval[n]

IsDue(n, file) == file[n].inbounds = <<>> \/ file[n].age >= Interval[n]

(* load_state, then load; a file that cannot be read counts as empty.      *)
Begin(p, todo, file) ==
    /\ run[p].at = "idle" /\ todo # {}
    /\ run' = [run EXCEPT ![p] =
                  [Idle EXCEPT !.at = "fetching", !.names = subscribed,
                               !.todo = todo, !.loaded = file,
                               !.left = {UrlOf[n] : n \in todo}]]
    /\ misled' = IF file = resolved THEN misled \ {p} ELSE misled \cup {p}
    /\ UNCHANGED <<subscribed, served, resolved>>

(* Mutant: feeds that data.json does not declare any more are refreshed.   *)
RefreshDue_Orphans(file) ==
    /\ Begin("app", {n \in Name : IsDue(n, file)}, file)
    /\ IF file = resolved THEN UNCHANGED events ELSE Event

RefreshDue(file) ==
    /\ Begin("app", {n \in subscribed : IsDue(n, file)}, file)
    /\ IF file = resolved THEN UNCHANGED events ELSE Event

RefreshAll(file) ==
    /\ Begin("manual", subscribed, file)
    /\ Event

(* The urls of the set are fetched one after the other.                    *)
Fetched(p, u, body) ==
    /\ run[p].at = "fetching" /\ u \in run[p].left
    /\ run' = [run EXCEPT ![p].left = @ \ {u}, ![p].bodies[u] = body]
    /\ UNCHANGED <<subscribed, served, resolved, events, misled>>

FetchAnswers(p, u) == served[u] # Nothing /\ Fetched(p, u, served[u])
FetchFails(p, u) == Fetched(p, u, Nothing)

Answered(p) == {n \in run[p].todo : run[p].bodies[UrlOf[n]] # Nothing}

(* Mutant: a feed that failed is replaced too, by nothing.                 *)
Updated_FailedIsEmpty(p) ==
    [n \in Name |->
        IF n \in Answered(p)
        THEN [inbounds |-> Built[n][run[p].bodies[UrlOf[n]]], age |-> run[p].age]
        ELSE IF n \in run[p].names \ run[p].todo THEN run[p].loaded[n]
        ELSE Empty]

Updated(p) ==
    [n \in Name |->
        IF n \in Answered(p)
        THEN [inbounds |-> Built[n][run[p].bodies[UrlOf[n]]], age |-> run[p].age]
        ELSE IF n \in run[p].names THEN run[p].loaded[n]
        ELSE Empty]

Finish(p) == run' = [run EXCEPT ![p] = Idle]

Save(p) ==
    /\ run[p].at = "fetching" /\ run[p].left = {} /\ Answered(p) # {}
    /\ resolved' = Updated(p)
    /\ misled' = {q \in Process \ {p} : run[q].at # "idle"}
    /\ Finish(p)
    /\ UNCHANGED <<subscribed, served, events>>

NothingChanged(p) ==
    /\ run[p].at = "fetching" /\ run[p].left = {} /\ Answered(p) = {}
    /\ Finish(p)
    /\ UNCHANGED <<subscribed, served, resolved, events, misled>>

(* The process dies, its iteration times out, or the save fails.           *)
Stop(p) ==
    /\ run[p].at # "idle" /\ Event
    /\ Finish(p)
    /\ UNCHANGED <<subscribed, served, resolved, misled>>

Older(age) == IF \A n \in Name : age >= Interval[n] THEN age ELSE age + 1
OlderFile(file) == [n \in Name |-> IF file[n].inbounds = <<>> THEN file[n]
                                   ELSE [file[n] EXCEPT !.age = Older(@)]]

(* A refresh stamps what it fetches with the time it began.                *)
Tick ==
    /\ resolved' = OlderFile(resolved)
    /\ run' = [p \in Process |->
                  IF run[p].at = "idle" THEN run[p]
                  ELSE [run[p] EXCEPT !.age = Older(@), !.loaded = OlderFile(@)]]
    /\ UNCHANGED <<subscribed, served, events, misled>>

FeedChanges(u) ==
    /\ Event
    /\ \E body \in Bodies[u] \cup {Nothing} :
          body # served[u] /\ served' = [served EXCEPT ![u] = body]
    /\ UNCHANGED <<subscribed, resolved, run, misled>>

OperatorDeclares(n) ==
    /\ Event
    /\ subscribed' = (subscribed \ {n}) \cup ({n} \ subscribed)
    /\ UNCHANGED <<served, resolved, run, misled>>

Next ==
    \/ \E file \in {resolved, NoFile} : RefreshDue(file) \/ RefreshAll(file)
    \/ \E p \in Process :
          \/ \E u \in Url : FetchAnswers(p, u) \/ FetchFails(p, u)
          \/ Save(p) \/ NothingChanged(p) \/ Stop(p)
    \/ Tick
    \/ \E u \in Url : FeedChanges(u)
    \/ \E n \in Name : OperatorDeclares(n)

Spec == Init /\ [][Next]_vars

(* The loop goes on, a fetch ends, and a feed that serves something is not *)
(* refused for ever.                                                       *)
FairSpec ==
    /\ Spec
    /\ WF_vars(RefreshDue(resolved)) /\ WF_vars(Tick)
    /\ WF_vars(Save("app") \/ NothingChanged("app"))
    /\ \A u \in Url :
          WF_vars(FetchAnswers("app", u) \/ FetchFails("app", u))
          /\ SF_vars(FetchAnswers("app", u))
-----------------------------------------------------------------------------
EntriesOf(n) == [i \in DOMAIN resolved[n].inbounds |->
                   [uri   |-> resolved[n].inbounds[i].uri,
                    label |-> resolved[n].inbounds[i].label]]

(* The values the variables range over.  A refresh is about feeds that     *)
(* were declared when it began (refresh_due).                              *)
TypeOK ==
    /\ subscribed \subseteq Name
    /\ \A u \in Url : served[u] \in Bodies[u] \cup {Nothing}
    /\ \A n \in Name :
          /\ EntriesOf(n) \in Seq(Entry)
          /\ resolved[n].age \in Nat
    /\ \A p \in Process :
          /\ run[p].at \in {"idle", "fetching"}
          /\ run[p].todo \subseteq run[p].names /\ run[p].names \subseteq Name
          /\ run[p].left \subseteq {UrlOf[n] : n \in run[p].todo}
          /\ \A u \in Url : run[p].bodies[u] \in Bodies[u] \cup {Nothing}
    /\ events \in 0 .. MaxEvents
    /\ misled \subseteq Process

(* Every entry of a feed can be referred to: its slug finds its link, and  *)
(* no other's.  And if no other label is the beginning of its own, the     *)
(* slug is that of its label, whatever else the feed has (assign_slugs).   *)
SlugsRefer ==
    \A n \in Name :
        LET known == resolved[n].inbounds IN
        \A i \in DOMAIN known :
            /\ Resolve({known[i].slug}, known) = known[i].uri
            /\ (\A j \in DOMAIN known \ {i} :
                    ~ IsPrefix(Words[known[j].label], Words[known[i].label]))
                  => known[i].slug = Words[known[i].label]

(* A reference survives a refresh that brings the same entries, in         *)
(* whatever order the feed lists them (assign_slugs).                      *)
SlugsStable ==
    [][\A n \in Name :
          (\E order \in Orders(EntriesOf(n)) :
              EntriesOf(n)' = Reordered(EntriesOf(n), order))
          => resolved[n].inbounds' = resolved[n].inbounds]_vars

(* What the file knows of a feed changes only to what that feed has        *)
(* answered, or if it was dropped from data.json: a feed that fails keeps  *)
(* its entries.  Excepted are refreshes whose copy of the file was not the *)
(* file, for it could not be read or was saved by the other process since  *)
(* (_refresh, ResolvedInboundsStore.load).                                 *)
KnownUntilAnswered ==
    [][\A n \in Name : resolved[n].inbounds' # resolved[n].inbounds =>
          \E p \in Process :
             /\ run[p].at = "fetching" /\ run[p].left = {}
             /\ \/ p \in misled
                \/ n \notin run[p].names
                \/ \E body \in {run[p].bodies[UrlOf[n]]} \ {Nothing} :
                      resolved[n].inbounds' = Built[n][body]]_vars

(* A feed that stays declared and keeps serving something is in the file   *)
(* as it is served, again and again if manual runs undo it.                *)
FeedsArrive ==
    \A n \in Name : \A body \in Bodies[UrlOf[n]] :
        <>[](n \in subscribed /\ served[UrlOf[n]] = body)
            => []<>(resolved[n].inbounds = Built[n][body])
=============================================================================
