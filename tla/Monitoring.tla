----------------------------- MODULE Monitoring -----------------------------
(***************************************************************************)
(* The monitoring alerts task: MonitoringService polls the nodes on the    *)
(* loop every background job runs on (crons/base.py), keeps in memory how  *)
(* long each condition has been active (MonitoringAlertState), and sends   *)
(* each admin in turn a Telegram message about the ones that last.         *)
(*                                                                         *)
(* The polls of one iteration run concurrently, and may take time: `now'   *)
(* is read once, before them, and both the age of a condition and the age  *)
(* of an alert are counted from it.  Time is kept as ages, in ticks; an    *)
(* age stops growing where no comparison can tell it from a greater one.   *)
(***************************************************************************)
EXTENDS Naturals, Sequences, SequencesExt

CONSTANTS
    Node,
    Unavailable,         \* the category of a panel that does not answer
    StatusCategories,    \* those of an answer, in the order they are looked for
    Admins,              \* the admins' chats, in the order they are sent to
    PollInterval, FailureDuration, AlertCooldown, IterationTimeout,
    None,                \* never
    Gap                  \* a poll passed the node over

ASSUME TimesAssumption ==
    {PollInterval, FailureDuration, AlertCooldown, IterationTimeout} \subseteq Nat \ {0}

ASSUME CategoriesAssumption ==
    IsInjective(StatusCategories) /\ Unavailable \notin ToSet(StatusCategories)

ASSUME AdminsAssumption == Len(Admins) \in Nat \ {0} /\ {None, Gap} \cap Nat = {} /\ None # Gap

Category == {Unavailable} \cup ToSet(StatusCategories)

(* What a poll may find: no answer, or any of the conditions of an answer. *)
Observable == {{Unavailable}} \cup SUBSET ToSet(StatusCategories)

(* The conditions of an answer are listed, and told, in this order.        *)
Precedes(c, d) ==
    \E i, j \in 1 .. Len(StatusCategories) :
        i < j /\ StatusCategories[i] = c /\ StatusCategories[j] = d

VARIABLES
    monitored,     \* the nodes of data.json whose monitoring is on
    loop,          \* "sleeping" or "polling"
    slept,         \* time since the last iteration ended
    elapsed,       \* time since the iteration read `now'
    task,          \* per node: where _poll_node is
    active,        \* per node and category: the age of first_seen_at
    lastAlert,     \* per node and category: the age of last_alert_sent_at
    (* History, read by the properties only *)
    stillToSee,    \* how much longer the condition has to be observed until an
                   \* alert may say that it lasted; None if it is not observed,
                   \* Gap if a poll passed the node over in between
    quietFor       \* how much longer the admins, told of it, are to be left alone

state == <<active, lastAlert>>
history == <<stillToSee, quietFor>>
vars == <<monitored, loop, slept, elapsed, task, state, history>>

Nobody(v) == [n \in Node |-> [c \in Category |-> v]]
Idle == [at |-> "idle", candidates |-> {}, to |-> 1]
Asking == [at |-> "asking", candidates |-> {}, to |-> 1]
Sending(cs) == IF cs = {} THEN Idle
               ELSE [at |-> "sending", candidates |-> cs, to |-> 1]

Init ==
    /\ monitored \in SUBSET Node
    /\ loop = "sleeping"
    /\ slept = PollInterval     \* the first run is immediate
    /\ elapsed = 0
    /\ task = [n \in Node |-> Idle]
    /\ active = Nobody(None) /\ lastAlert = Nobody(None)
    /\ stillToSee = Nobody(None) /\ quietFor = Nobody(0)

(* These nodes are passed over, in the middle of an observed condition.    *)
Miss(nodes) ==
    stillToSee' = [n \in Node |-> [c \in Category |->
        IF n \in nodes /\ stillToSee[n][c] # None THEN Gap ELSE stillToSee[n][c]]]

(* interval_delays *)
Due == loop = "sleeping" /\ slept >= PollInterval

StartPoll ==
    /\ Due /\ monitored # {}
    /\ loop' = "polling"
    /\ elapsed' = 0
    /\ task' = [n \in Node |-> IF n \in monitored THEN Asking ELSE Idle]
    /\ Miss(Node \ monitored)
    /\ UNCHANGED <<monitored, slept, state, quietFor>>

(* No node to poll, or a data.json that does not load: nothing happens.    *)
SkipPoll ==
    /\ Due
    /\ slept' = 0
    /\ Miss(Node)
    /\ UNCHANGED <<monitored, loop, elapsed, task, state, quietFor>>

(* Mutant: conditions that are no longer observed stay active.             *)
FirstSeen_NeverCleared(n, conditions) ==
    [c \in Category |->
        IF c \in conditions /\ active[n][c] = None
        THEN elapsed ELSE active[n][c]]

(* Mutant: every observation starts over.                                  *)
FirstSeen_Restarted(n, conditions) ==
    [c \in Category |-> IF c \in conditions THEN elapsed ELSE None]

(* MonitoringAlertState.update *)
FirstSeen(n, conditions) ==
    [c \in Category |->
        IF c \notin conditions THEN None
        ELSE IF active[n][c] = None THEN elapsed ELSE active[n][c]]

(* A time, shortened by what has passed since the iteration's `now'.       *)
Less(span, time) == IF time >= span THEN 0 ELSE span - time

(* Time from then to the iteration's `now'. *)
Before(age, span) == age >= span + elapsed

(* Mutant: no cooldown.                                                    *)
Candidates_NoCooldown(n, conditions) ==
    {c \in conditions : Before(FirstSeen(n, conditions)[c], FailureDuration)}

Candidates(n, conditions) ==
    {c \in conditions :
        /\ Before(FirstSeen(n, conditions)[c], FailureDuration)
        /\ lastAlert[n][c] # None => Before(lastAlert[n][c], AlertCooldown)}

(* get_status answers, or fails, which is a condition too; the state is    *)
(* brought up to date and the alerts chosen before anything else runs.     *)
Observe(n, conditions) ==
    /\ task[n].at = "asking"
    /\ active' = [active EXCEPT ![n] = FirstSeen(n, conditions)]
    /\ task' = [task EXCEPT ![n] = Sending(Candidates(n, conditions))]
    /\ stillToSee' = [stillToSee EXCEPT ![n] = [c \in Category |->
           IF c \notin conditions THEN None
           ELSE IF stillToSee[n][c] = None THEN Less(FailureDuration, elapsed)
           ELSE stillToSee[n][c]]]
    /\ UNCHANGED <<monitored, loop, slept, elapsed, lastAlert, quietFor>>

(* The candidate whose alert is being sent, and what is left after it.     *)
Current(n, c) ==
    /\ task[n].at = "sending" /\ c \in task[n].candidates
    /\ \A d \in task[n].candidates : ~ Precedes(d, c)

NextCandidate(n, c) == Sending(task[n].candidates \ {c})

(* mark_alert_sent: the alert was sent when the iteration began.           *)
MarkAlertSent(n, c) ==
    /\ lastAlert' = [lastAlert EXCEPT ![n][c] = elapsed]
    /\ quietFor' = [quietFor EXCEPT ![n][c] = Less(AlertCooldown, elapsed)]

(* send_alert reaches one more admin; after the last one the alert counts  *)
(* as sent.                                                                *)
SendMessage(n, c) ==
    /\ Current(n, c)
    /\ IF task[n].to < Len(Admins)
       THEN /\ task' = [task EXCEPT ![n].to = @ + 1]
            /\ UNCHANGED <<lastAlert, quietFor>>
       ELSE /\ task' = [task EXCEPT ![n] = NextCandidate(n, c)]
            /\ MarkAlertSent(n, c)
    /\ UNCHANGED <<monitored, loop, slept, elapsed, active, stillToSee>>

(* Telegram refuses: the alert is given up, also for the admins after, and *)
(* not counted as sent.                                                    *)
SendFails(n) ==
    /\ \E c \in Category :
          Current(n, c) /\ task' = [task EXCEPT ![n] = NextCandidate(n, c)]
    /\ UNCHANGED <<monitored, loop, slept, elapsed, state, history>>

EndPoll ==
    /\ loop = "polling" /\ \A n \in Node : task[n].at = "idle"
    /\ loop' = "sleeping" /\ slept' = 0 /\ elapsed' = 0
    /\ UNCHANGED <<monitored, task, state, history>>

(* The iteration is cancelled, wherever its polls are. *)
CancelPoll ==
    /\ loop = "polling" /\ elapsed >= IterationTimeout
    /\ loop' = "sleeping" /\ slept' = 0 /\ elapsed' = 0
    /\ task' = [n \in Node |-> Idle]
    /\ Miss({n \in Node : task[n].at = "asking"})
    /\ UNCHANGED <<monitored, state, quietFor>>

Older(age, cap) == IF age = None \/ age >= cap THEN age ELSE age + 1
AllOlder(ages, cap) == [n \in Node |-> [c \in Category |-> Older(ages[n][c], cap)]]
Nearer(time) == IF time \in {None, Gap} THEN time ELSE Less(time, 1)
AllNearer(times) == [n \in Node |-> [c \in Category |-> Nearer(times[n][c])]]

(* Mutant: an iteration is never cancelled.                                *)
Tick_NoTimeout ==
    /\ slept' = IF loop = "sleeping" THEN Older(slept, PollInterval) ELSE slept
    /\ elapsed' = IF loop = "polling" THEN elapsed + 1 ELSE elapsed
    /\ UNCHANGED <<monitored, loop, task, state, history>>

Tick ==
    /\ loop = "polling" => elapsed < IterationTimeout
    /\ slept' = IF loop = "sleeping" THEN Older(slept, PollInterval) ELSE slept
    /\ elapsed' = IF loop = "polling" THEN elapsed + 1 ELSE elapsed
    /\ active' = AllOlder(active, FailureDuration + IterationTimeout)
    /\ lastAlert' = AllOlder(lastAlert, AlertCooldown + IterationTimeout)
    /\ stillToSee' = AllNearer(stillToSee)
    /\ quietFor' = AllNearer(quietFor)
    /\ UNCHANGED <<monitored, loop, task>>

(* The operator turns the monitoring of a node on or off in data.json. *)
SetMonitoring(n) ==
    /\ monitored' = (monitored \ {n}) \cup ({n} \ monitored)
    /\ UNCHANGED <<loop, slept, elapsed, task, state, history>>

Send == \E n \in Node, c \in Category : SendMessage(n, c)

Next ==
    \/ StartPoll \/ SkipPoll
    \/ \E n \in Node : \E conditions \in Observable : Observe(n, conditions)
    \/ Send
    \/ \E n \in Node : SendFails(n)
    \/ EndPoll \/ CancelPoll
    \/ Tick
    \/ \E n \in Node : SetMonitoring(n)

Spec == Init /\ [][Next]_vars

(* No admin's chat refuses a message about a category for ever; the rest   *)
(* is up to the event loop and to time.                                    *)
FairSpec ==
    /\ Spec
    /\ SF_vars(StartPoll) /\ WF_vars(EndPoll \/ CancelPoll) /\ WF_vars(Tick)
    /\ \A n \in Node :
          /\ SF_vars(\E conditions \in Observable : Observe(n, conditions))
          /\ \A c \in Category, i \in 1 .. Len(Admins) :
                SF_vars(SendMessage(n, c) /\ task[n].to = i)
-----------------------------------------------------------------------------
Ages(cap) == [Node -> [Category -> 0 .. cap \cup {None}]]
Spans(cap) == [Node -> [Category -> 0 .. cap]]

(* The values the variables range over: among them, that no iteration      *)
(* outlives its timeout (run_iterations_forever).                          *)
TypeOK ==
    /\ monitored \subseteq Node
    /\ loop \in {"sleeping", "polling"}
    /\ slept \in 0 .. PollInterval
    /\ elapsed \in 0 .. IterationTimeout
    /\ task \in [Node -> [at : {"idle", "asking", "sending"},
                          candidates : SUBSET Category, to : 1 .. Len(Admins)]]
    /\ active \in Ages(FailureDuration + IterationTimeout)
    /\ lastAlert \in Ages(AlertCooldown + IterationTimeout)
    /\ stillToSee \in [Node -> [Category -> 0 .. FailureDuration \cup {None, Gap}]]
    /\ quietFor \in Spans(AlertCooldown)

(* "Active for: at least ...": an alert is about a condition that every    *)
(* poll of the node has found since it was first observed, and that was    *)
(* FailureDuration ago, less the time that first poll took from `now' to   *)
(* its answer.  The exception is a condition that a poll passed over on    *)
(* the way (Gap): the code counts that time as if it had been observed     *)
(* (poll_once, MonitoringAlertState.update).                               *)
ActiveAsLongAsSaid ==
    \A n \in Node : \A c \in task[n].candidates : stillToSee[n][c] \in {0, Gap}

(* Once every admin was told, an alert of that node and category is not    *)
(* repeated for AlertCooldown, less the time that telling took from `now'  *)
(* to the last message, whether or not the condition went away in between  *)
(* (mark_alert_sent).                                                      *)
RepeatsWaitForCooldown ==
    \A n \in Node : \A c \in task[n].candidates : quietFor[n][c] = 0

(* A condition that every poll finds is told, and told again after each    *)
(* cooldown, to every admin, however often a poll, a message or a whole    *)
(* iteration fails on the way (send_alert, _deliver_candidates).           *)
EveryAdminTold ==
    \A n \in Node, c \in Category, i \in 1 .. Len(Admins) :
        <>[](n \in monitored /\ active[n][c] # None)
            => []<><<SendMessage(n, c) /\ task[n].to = i>>_vars
=============================================================================
