-------------------------- MODULE MonitoringProofs --------------------------
(***************************************************************************)
(* What holds of the alerts, for every set of nodes and categories, every  *)
(* number of admins and all durations.                                     *)
(*                                                                         *)
(* The argument: as long as a condition has still to be observed, or an    *)
(* alert to be held back, the age the service keeps and that rest together *)
(* are no more than the duration it compares the age with (Aligned).  They *)
(* are when the age starts, however late the answer or the last message    *)
(* comes after the `now' it is counted from; and as time passes the one    *)
(* grows by what the other shrinks.                                        *)
(***************************************************************************)
EXTENDS Monitoring, TLAPS

Aligned(n, c) ==
    /\ active[n][c] # None <=> stillToSee[n][c] # None
    /\ active[n][c] # None /\ stillToSee[n][c] \notin {0, Gap} =>
          active[n][c] + stillToSee[n][c] <= FailureDuration
    /\ quietFor[n][c] # 0 =>
          /\ lastAlert[n][c] # None
          /\ lastAlert[n][c] + quietFor[n][c] <= AlertCooldown

(* An alert about c may be sent: it has lasted, and is not a repetition.   *)
Justified(n, c) == stillToSee[n][c] \in {0, Gap} /\ quietFor[n][c] = 0

AlertInv ==
    /\ TypeOK
    /\ \A n \in Node, c \in Category : Aligned(n, c)
    /\ \A n \in Node : \A c \in task[n].candidates : Justified(n, c)

-----------------------------------------------------------------------------
LEMMA Constants ==
    /\ PollInterval \in Nat /\ FailureDuration \in Nat /\ AlertCooldown \in Nat
    /\ IterationTimeout \in Nat /\ Len(Admins) \in Nat \ {0}
    /\ None \notin Nat /\ Gap \notin Nat /\ None # Gap
BY TimesAssumption, AdminsAssumption

(* A duration and what is left of it. *)
LEMMA LessTime ==
    ASSUME NEW span \in Nat, NEW time \in Nat
    PROVE  /\ Less(span, time) \in 0 .. span
           /\ Less(span, time) # 0 => time + Less(span, time) = span
BY DEF Less

LEMMA InitAlerts == Init => AlertInv
<1> SUFFICES ASSUME Init PROVE AlertInv
  OBVIOUS
<1> USE TimesAssumption, AdminsAssumption DEF Init, Nobody, Idle
<1>1. TypeOK
  BY DEF TypeOK, Ages, Spans
<1>2. \A n \in Node, c \in Category : Aligned(n, c)
  BY DEF Aligned
<1> QED BY <1>1, <1>2 DEF AlertInv

(* A step that leaves the ages of what the service knows alone, and counts *)
(* at most a poll as having passed over.                                   *)
LEMMA SameAges ==
    ASSUME AlertInv, UNCHANGED <<active, lastAlert, quietFor>>,
           NEW nodes \in SUBSET Node, Miss(nodes) \/ UNCHANGED stillToSee
    PROVE  /\ stillToSee' \in [Node -> [Category -> 0 .. FailureDuration \cup {None, Gap}]]
           /\ \A n \in Node, c \in Category : Aligned(n, c)'
           /\ \A n \in Node, c \in Category : Justified(n, c) => Justified(n, c)'
<1>1. /\ stillToSee' \in [Node -> [Category -> 0 .. FailureDuration \cup {None, Gap}]]
      /\ \A n \in Node, c \in Category :
            \/ stillToSee'[n][c] = stillToSee[n][c]
            \/ stillToSee[n][c] # None /\ stillToSee'[n][c] = Gap
  BY DEF AlertInv, TypeOK, Miss
<1>2. None # Gap
  BY AdminsAssumption
<1>3. ASSUME NEW n \in Node, NEW c \in Category PROVE Aligned(n, c)'
  BY <1>1, <1>2 DEF AlertInv, Aligned
<1>4. ASSUME NEW n \in Node, NEW c \in Category, Justified(n, c) PROVE Justified(n, c)'
  BY <1>1, <1>2, <1>4 DEF Justified
<1> QED BY <1>1, <1>3, <1>4

(* A step of the loop, after which only alerts that were there are sent.   *)
LEMMA LoopAlerts ==
    ASSUME AlertInv,
           StartPoll \/ SkipPoll \/ EndPoll \/ CancelPoll
           \/ (\E n \in Node : SetMonitoring(n)) \/ UNCHANGED vars
    PROVE  AlertInv'
<1> USE TimesAssumption, AdminsAssumption
<1>1. /\ monitored' \subseteq Node /\ loop' \in {"sleeping", "polling"}
      /\ slept' \in 0 .. PollInterval /\ elapsed' \in 0 .. IterationTimeout
      /\ task' \in [Node -> [at : {"idle", "asking", "sending"},
                             candidates : SUBSET Category, to : 1 .. Len(Admins)]]
      /\ \A n \in Node : task'[n].candidates \subseteq task[n].candidates
  BY DEF AlertInv, TypeOK, StartPoll, SkipPoll, EndPoll, CancelPoll, SetMonitoring,
         Idle, Asking, vars
<1>2. /\ UNCHANGED <<active, lastAlert, quietFor>>
      /\ \E nodes \in SUBSET Node : Miss(nodes) \/ UNCHANGED stillToSee
  BY DEF StartPoll, SkipPoll, EndPoll, CancelPoll, SetMonitoring, state, history, vars
<1>3. PICK nodes \in SUBSET Node : Miss(nodes) \/ UNCHANGED stillToSee
  BY <1>2
<1>4. TypeOK'
  BY <1>1, <1>2, <1>3, SameAges DEF AlertInv, TypeOK
<1>5. \A n \in Node : task[n].candidates \subseteq Category
  BY DEF AlertInv, TypeOK
<1> QED BY <1>1, <1>2, <1>3, <1>4, <1>5, SameAges DEF AlertInv

(* The answer of a panel, or none: conditions begin, go on or go away.     *)
LEMMA ObserveAlerts ==
    ASSUME AlertInv, NEW n \in Node, NEW conditions \in Observable, Observe(n, conditions)
    PROVE  AlertInv'
<1> USE TimesAssumption, AdminsAssumption
<1>1. conditions \subseteq Category
  BY DEF Observable, Category
<1>2. /\ active' = [active EXCEPT ![n] = FirstSeen(n, conditions)]
      /\ task' = [task EXCEPT ![n] = Sending(Candidates(n, conditions))]
      /\ UNCHANGED <<monitored, loop, slept, elapsed, lastAlert, quietFor>>
  BY DEF Observe
<1>3. \A c \in Category :
         /\ c \notin conditions => active'[n][c] = None /\ stillToSee'[n][c] = None
         /\ c \in conditions =>
               /\ active'[n][c] = IF active[n][c] = None THEN elapsed ELSE active[n][c]
               /\ stillToSee'[n][c] = IF stillToSee[n][c] = None
                                     THEN Less(FailureDuration, elapsed) ELSE stillToSee[n][c]
  BY DEF Observe, FirstSeen, AlertInv, TypeOK, Ages
<1>4. \A m \in Node \ {n} : active'[m] = active[m] /\ stillToSee'[m] = stillToSee[m]
                            /\ task'[m] = task[m]
  BY DEF Observe, AlertInv, TypeOK, Ages
<1>5. elapsed \in 0 .. IterationTimeout /\ None \notin Nat /\ Gap \notin Nat
  BY DEF AlertInv, TypeOK
<1>a. /\ Less(FailureDuration, elapsed) \in 0 .. FailureDuration
      /\ Less(FailureDuration, elapsed) # 0 =>
            elapsed + Less(FailureDuration, elapsed) = FailureDuration
  <2>1. elapsed \in Nat /\ FailureDuration \in Nat
    BY <1>5, Constants
  <2> QED BY <2>1, LessTime
<1>6. /\ active' \in Ages(FailureDuration + IterationTimeout)
      /\ stillToSee' \in [Node -> [Category -> 0 .. FailureDuration \cup {None, Gap}]]
  <2>1. FirstSeen(n, conditions)
           \in [Category -> 0 .. FailureDuration + IterationTimeout \cup {None}]
    BY <1>5 DEF FirstSeen, AlertInv, TypeOK, Ages
  <2>2. [c \in Category |-> IF c \notin conditions THEN None
                            ELSE IF stillToSee[n][c] = None THEN Less(FailureDuration, elapsed)
                            ELSE stillToSee[n][c]]
           \in [Category -> 0 .. FailureDuration \cup {None, Gap}]
    BY <1>a DEF AlertInv, TypeOK
  <2> QED BY <2>1, <2>2 DEF Observe, AlertInv, TypeOK, Ages
<1>7. Candidates(n, conditions) \subseteq conditions
  BY DEF Candidates
<1>8. /\ task'[n].candidates = Candidates(n, conditions)
      /\ task' \in [Node -> [at : {"idle", "asking", "sending"},
                             candidates : SUBSET Category, to : 1 .. Len(Admins)]]
  BY <1>1, <1>2, <1>7 DEF Sending, Idle, AlertInv, TypeOK
<1>9. ASSUME NEW m \in Node, NEW c \in Category PROVE Aligned(m, c)'
  <2>1. Aligned(m, c)
    BY DEF AlertInv
  <2>2. CASE m # n
    BY <1>2, <1>4, <2>1, <2>2 DEF Aligned
  <2>3. CASE m = n
    <3>1. CASE c \in conditions /\ active[n][c] = None
      <4>1. /\ active'[n][c] = elapsed
            /\ stillToSee'[n][c] = Less(FailureDuration, elapsed)
        BY <1>3, <2>1, <2>3, <3>1 DEF Aligned
      <4> QED BY <1>2, <1>5, <1>a, <2>1, <2>3, <4>1 DEF Aligned
    <3>2. CASE ~ (c \in conditions /\ active[n][c] = None)
      BY <1>2, <1>3, <1>5, <2>1, <2>3, <3>2 DEF Aligned
    <3> QED BY <3>1, <3>2
  <2> QED BY <2>2, <2>3
<1>10. ASSUME NEW c \in Candidates(n, conditions) PROVE Justified(n, c)'
  <2>1. /\ c \in Category /\ c \in conditions /\ Aligned(n, c)'
        /\ active'[n][c] # None
    BY <1>1, <1>3, <1>5, <1>7, <1>9
  <2>2. /\ active'[n][c] >= FailureDuration
        /\ quietFor'[n][c] = 0 \/ lastAlert[n][c] >= AlertCooldown
    BY <1>2, <1>3, <1>5, <2>1
       DEF Candidates, Before, FirstSeen, Aligned, AlertInv, TypeOK, Ages
  <2>3. /\ stillToSee'[n][c] \in 0 .. FailureDuration \cup {None, Gap}
        /\ active'[n][c] \in 0 .. FailureDuration + IterationTimeout
        /\ quietFor'[n][c] \in 0 .. AlertCooldown
        /\ lastAlert[n][c] \in 0 .. AlertCooldown + IterationTimeout \cup {None}
    BY <1>2, <1>6, <2>1 DEF AlertInv, TypeOK, Ages, Spans
  <2>4. stillToSee'[n][c] \in {0, Gap}
    BY <2>1, <2>2, <2>3, Constants DEF Aligned
  <2>5. quietFor'[n][c] = 0
    BY <1>2, <2>1, <2>2, <2>3, Constants DEF Aligned
  <2> QED BY <2>4, <2>5 DEF Justified
<1>11. ASSUME NEW m \in Node, NEW c \in task'[m].candidates PROVE Justified(m, c)'
  <2>1. CASE m = n
    BY <1>8, <1>10, <1>11, <2>1
  <2>2. CASE m # n
    BY <1>2, <1>4, <1>11, <2>2 DEF Justified, AlertInv
  <2> QED BY <2>1, <2>2
<1>12. TypeOK'
  BY <1>2, <1>6, <1>8 DEF AlertInv, TypeOK
<1> QED BY <1>9, <1>11, <1>12 DEF AlertInv

(* A message reaches an admin, or fails.                                   *)
LEMMA SendAlerts ==
    ASSUME AlertInv, NEW n \in Node, NEW c \in Category,
           \/ SendMessage(n, c)
           \/ SendFails(n)
    PROVE  AlertInv'
<1> USE TimesAssumption, AdminsAssumption
<1>1. /\ UNCHANGED <<monitored, loop, slept, elapsed, active, stillToSee>>
      /\ \/ UNCHANGED <<lastAlert, quietFor>>
         \/ MarkAlertSent(n, c) /\ task' = [task EXCEPT ![n] = NextCandidate(n, c)]
  BY DEF SendMessage, SendFails, state, history
<1>2. /\ task' \in [Node -> [at : {"idle", "asking", "sending"},
                             candidates : SUBSET Category, to : 1 .. Len(Admins)]]
      /\ \A m \in Node : task'[m].candidates \subseteq task[m].candidates
  <2>1. \A d \in Category : NextCandidate(n, d)
           \in [at : {"idle", "asking", "sending"},
                candidates : SUBSET task[n].candidates, to : 1 .. Len(Admins)]
    BY DEF NextCandidate, Sending, Idle
  <2>2. CASE \E d \in Category : task' = [task EXCEPT ![n] = NextCandidate(n, d)]
    BY <2>1, <2>2 DEF AlertInv, TypeOK
  <2>3. CASE task[n].to < Len(Admins) /\ task' = [task EXCEPT ![n].to = @ + 1]
    <3>1. task[n].to + 1 \in 1 .. Len(Admins)
      BY <2>3, Constants DEF AlertInv, TypeOK
    <3> DEFINE new == [at |-> task[n].at, candidates |-> task[n].candidates,
                       to |-> task[n].to + 1]
               Task == [at : {"idle", "asking", "sending"},
                        candidates : SUBSET Category, to : 1 .. Len(Admins)]
    <3>2. task \in [Node -> Task] /\ task[n] \in Task
      BY DEF AlertInv, TypeOK
    <3>3. [task[n] EXCEPT !.to = task[n].to + 1] = new
      BY <3>2
    <3>4. task' = [task EXCEPT ![n] = new]
      BY <2>3, <3>3
    <3>5. new \in Task /\ new.candidates = task[n].candidates
      BY <3>1, <3>2
    <3> HIDE DEF new, Task
    <3>6. task' \in [Node -> Task]
          /\ \A m \in Node : task'[m].candidates \subseteq task[m].candidates
      BY <3>2, <3>4, <3>5
    <3> QED BY <3>6 DEF Task
  <2> QED BY <2>2, <2>3 DEF SendMessage, SendFails
<1>3. CASE UNCHANGED <<lastAlert, quietFor>>
  <2>1. TypeOK'
    BY <1>1, <1>2, <1>3 DEF AlertInv, TypeOK
  <2>2. \A m \in Node, d \in Category : Aligned(m, d)'
    BY <1>1, <1>3 DEF AlertInv, Aligned
  <2>3. \A m \in Node : \A d \in task'[m].candidates : Justified(m, d)'
    BY <1>1, <1>2, <1>3 DEF AlertInv, Justified
  <2> QED BY <2>1, <2>2, <2>3 DEF AlertInv
<1>4. CASE MarkAlertSent(n, c) /\ task' = [task EXCEPT ![n] = NextCandidate(n, c)]
  <2>1. elapsed \in 0 .. IterationTimeout /\ None \notin Nat
    BY DEF AlertInv, TypeOK
  <2>a. /\ Less(AlertCooldown, elapsed) \in 0 .. AlertCooldown
        /\ Less(AlertCooldown, elapsed) # 0 =>
              elapsed + Less(AlertCooldown, elapsed) = AlertCooldown
    <3>1. elapsed \in Nat /\ AlertCooldown \in Nat
      BY <2>1, Constants
    <3> QED BY <3>1, LessTime
  <2>2. /\ lastAlert' \in Ages(AlertCooldown + IterationTimeout)
        /\ quietFor' \in Spans(AlertCooldown)
        /\ lastAlert'[n][c] = elapsed /\ quietFor'[n][c] = Less(AlertCooldown, elapsed)
        /\ \A m \in Node, d \in Category : ~ (m = n /\ d = c) =>
              lastAlert'[m][d] = lastAlert[m][d] /\ quietFor'[m][d] = quietFor[m][d]
    <3>1. /\ lastAlert' = [lastAlert EXCEPT ![n][c] = elapsed]
          /\ quietFor' = [quietFor EXCEPT ![n][c] = Less(AlertCooldown, elapsed)]
      BY <1>4 DEF MarkAlertSent
    <3>2. /\ lastAlert \in [Node -> [Category ->
                              0 .. AlertCooldown + IterationTimeout \cup {None}]]
          /\ quietFor \in [Node -> [Category -> 0 .. AlertCooldown]]
          /\ elapsed \in 0 .. AlertCooldown + IterationTimeout
      BY <2>1, Constants DEF AlertInv, TypeOK, Ages, Spans
    <3>3. /\ lastAlert' \in Ages(AlertCooldown + IterationTimeout)
          /\ lastAlert'[n][c] = elapsed
          /\ \A m \in Node, d \in Category :
                ~ (m = n /\ d = c) => lastAlert'[m][d] = lastAlert[m][d]
      BY <3>1, <3>2 DEF Ages
    <3>4. /\ quietFor' \in Spans(AlertCooldown)
          /\ quietFor'[n][c] = Less(AlertCooldown, elapsed)
          /\ \A m \in Node, d \in Category :
                ~ (m = n /\ d = c) => quietFor'[m][d] = quietFor[m][d]
      BY <2>a, <3>1, <3>2 DEF Spans
    <3> QED BY <3>3, <3>4
  <2>3. TypeOK'
    BY <1>1, <1>2, <2>2 DEF AlertInv, TypeOK
  <2>4. ASSUME NEW m \in Node, NEW d \in Category PROVE Aligned(m, d)'
    BY <1>1, <2>1, <2>a, <2>2, Constants DEF AlertInv, Aligned
  <2>5. c \notin task'[n].candidates
    BY <1>4 DEF NextCandidate, Sending, Idle, AlertInv, TypeOK
  <2>6. ASSUME NEW m \in Node, NEW d \in task'[m].candidates PROVE Justified(m, d)'
    <3>1. Justified(m, d) /\ d \in Category /\ ~ (m = n /\ d = c)
      BY <1>2, <2>5 DEF AlertInv, TypeOK
    <3> QED BY <1>1, <2>2, <3>1 DEF Justified
  <2> QED BY <2>3, <2>4, <2>6 DEF AlertInv
<1> QED BY <1>1, <1>3, <1>4

LEMMA TickAlerts == ASSUME AlertInv, Tick PROVE AlertInv'
<1> USE TimesAssumption, AdminsAssumption
<1> DEFINE F == FailureDuration
           T == IterationTimeout
           A == AlertCooldown
<1>1. /\ monitored' \subseteq Node /\ UNCHANGED <<loop, task>>
      /\ slept' \in 0 .. PollInterval /\ elapsed' \in 0 .. T
  BY Constants DEF Tick, AlertInv, TypeOK, Older
<1>2. ASSUME NEW n \in Node, NEW c \in Category
      PROVE  /\ active'[n][c] = Older(active[n][c], F + T)
             /\ lastAlert'[n][c] = Older(lastAlert[n][c], A + T)
             /\ stillToSee'[n][c] = Nearer(stillToSee[n][c])
             /\ quietFor'[n][c] = Nearer(quietFor[n][c])
             /\ active[n][c] \in 0 .. F + T \cup {None}
             /\ lastAlert[n][c] \in 0 .. A + T \cup {None}
             /\ stillToSee[n][c] \in 0 .. F \cup {None, Gap}
             /\ quietFor[n][c] \in 0 .. A
  BY DEF Tick, AllOlder, AllNearer, AlertInv, TypeOK, Ages, Spans
<1>3. TypeOK'
  <2>1. ASSUME NEW cap \in Nat, NEW ages \in Ages(cap)
        PROVE  AllOlder(ages, cap) \in Ages(cap)
    BY Constants DEF AllOlder, Ages, Older
  <2>2. active' \in Ages(F + T) /\ lastAlert' \in Ages(A + T)
    BY <2>1, Constants DEF Tick, AlertInv, TypeOK
  <2>3. \A n \in Node, c \in Category :
           /\ Nearer(stillToSee[n][c]) \in 0 .. F \cup {None, Gap}
           /\ Nearer(quietFor[n][c]) \in 0 .. A
    BY <1>2, Constants DEF Nearer, Less
  <2>4. /\ stillToSee' \in [Node -> [Category -> 0 .. F \cup {None, Gap}]]
        /\ quietFor' \in Spans(A)
    BY <2>3 DEF Tick, AllNearer, Spans
  <2> QED BY <1>1, <2>2, <2>4 DEF AlertInv, TypeOK
<1>4. ASSUME NEW n \in Node, NEW c \in Category
      PROVE  Aligned(n, c)' /\ (Justified(n, c) => Justified(n, c)')
  <2> DEFINE a == active[n][c]
             l == lastAlert[n][c]
             s == stillToSee[n][c]
             q == quietFor[n][c]
  <2>1. Aligned(n, c)
    BY DEF AlertInv
  <2>2. /\ a \in 0 .. F + T \cup {None} /\ active'[n][c] = Older(a, F + T)
        /\ l \in 0 .. A + T \cup {None} /\ lastAlert'[n][c] = Older(l, A + T)
        /\ s \in 0 .. F \cup {None, Gap} /\ stillToSee'[n][c] = Nearer(s)
        /\ q \in 0 .. A /\ quietFor'[n][c] = Nearer(q)
    BY <1>2
  <2>3. /\ a # None <=> s # None
        /\ a # None /\ s \notin {0, Gap} => a + s <= F
        /\ q # 0 => l # None /\ l + q <= A
    BY <2>1 DEF Aligned
  <2>4. ASSUME Justified(n, c) PROVE s \in {0, Gap} /\ q = 0
    BY <2>4 DEF Justified
  <2> HIDE DEF a, l, s, q
  <2>5. /\ Older(a, F + T) # None <=> Nearer(s) # None
        /\ Older(a, F + T) # None /\ Nearer(s) \notin {0, Gap}
              => Older(a, F + T) + Nearer(s) <= F
    BY <2>2, <2>3, Constants DEF Older, Nearer, Less
  <2>6. Nearer(q) # 0 =>
           Older(l, A + T) # None /\ Older(l, A + T) + Nearer(q) <= A
    BY <2>2, <2>3, Constants DEF Older, Nearer, Less
  <2>7. Aligned(n, c)'
    BY <2>2, <2>5, <2>6 DEF Aligned
  <2>8. ASSUME Justified(n, c) PROVE Justified(n, c)'
    BY <2>2, <2>4, <2>8, Constants DEF Justified, Nearer, Less
  <2> QED BY <2>7, <2>8
<1>5. \A n \in Node : task[n].candidates \subseteq Category
  BY DEF AlertInv, TypeOK
<1> QED BY <1>1, <1>3, <1>4, <1>5 DEF AlertInv

LEMMA SpecAlerts == Spec => []AlertInv
<1>1. AlertInv /\ [Next]_vars => AlertInv'
  <2> SUFFICES ASSUME AlertInv, [Next]_vars PROVE AlertInv'
    OBVIOUS
  <2>1. CASE StartPoll \/ SkipPoll \/ EndPoll \/ CancelPoll
             \/ (\E n \in Node : SetMonitoring(n)) \/ UNCHANGED vars
    BY <2>1, LoopAlerts
  <2>2. CASE \E n \in Node : \E conditions \in Observable : Observe(n, conditions)
    BY <2>2, ObserveAlerts
  <2>3. CASE Send \/ \E n \in Node : SendFails(n)
    <3>1. \A n \in Node : SendFails(n) => \E c \in Category : SendFails(n)
      BY DEF SendFails
    <3> QED BY <2>3, <3>1, SendAlerts DEF Send
  <2>4. CASE Tick
    BY <2>4, TickAlerts
  <2> QED BY <2>1, <2>2, <2>3, <2>4 DEF Next
<1> QED BY <1>1, InitAlerts, PTL DEF Spec
-----------------------------------------------------------------------------
(* Every variable keeps its type: among them, no iteration lasts longer    *)
(* than its timeout, and no age counts past what is compared.              *)
THEOREM TypeCorrect == Spec => []TypeOK
<1>1. AlertInv => TypeOK
  BY DEF AlertInv
<1> QED BY <1>1, SpecAlerts, PTL

(* An alert is only about a condition that every poll has found for        *)
(* FailureDuration, less what the first of them took to answer, and unless *)
(* a poll passed the node over in between (MonitoringAlertState.update).   *)
THEOREM AlertsAreOld == Spec => []ActiveAsLongAsSaid
<1>1. AlertInv => ActiveAsLongAsSaid
  BY DEF AlertInv, Justified, ActiveAsLongAsSaid
<1> QED BY <1>1, SpecAlerts, PTL

(* An alert that every admin got is not repeated for AlertCooldown, less   *)
(* what the telling took (mark_alert_sent).                                *)
THEOREM AlertsAreRare == Spec => []RepeatsWaitForCooldown
<1>1. AlertInv => RepeatsWaitForCooldown
  BY DEF AlertInv, Justified, RepeatsWaitForCooldown
<1> QED BY <1>1, SpecAlerts, PTL
=============================================================================
