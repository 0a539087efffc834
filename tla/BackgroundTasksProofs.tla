----------------------- MODULE BackgroundTasksProofs ------------------------
(***************************************************************************)
(* What holds of the background tasks, for all cron jobs, schedules,       *)
(* settings and durations.                                                 *)
(*                                                                         *)
(* The argument, for the schedules: a cron job that sleeps does so until a *)
(* whole number of minutes from the one that has begun, and this minute is *)
(* the first that matches (Until); a tick either stays in the minute or    *)
(* goes to the next (NextSecond, NextMinute).  For the end: of the tasks   *)
(* still to stop only the next one was told to (Stopping), and who is not  *)
(* to be stopped any more is over, or was skipped for an error (Settled).  *)
(***************************************************************************)
EXTENDS BackgroundTasks, LoopLemmas

-----------------------------------------------------------------------------
(* Arithmetic of the calendar *)

LEMMA Constants ==
    /\ Year \in Nat \ {0} /\ PerMinute \in Nat \ {0} /\ Interval \in Nat \ {0}
    /\ Timeout \in Nat \ {0} /\ Calendar \in Nat \ {0, 1}
    /\ Calendar * PerMinute \in Nat \ {0} /\ Year * PerMinute \in Nat \ {0}
<1>1. /\ Year \in Nat \ {0} /\ PerMinute \in Nat \ {0} /\ Interval \in Nat \ {0}
      /\ Timeout \in Nat \ {0} /\ Calendar \in Nat \ {0, 1}
  BY TimesAssumption
<1>2. \A a, b \in Nat \ {0} : a * b \in Nat \ {0}
  OBVIOUS
<1> QED BY <1>1, <1>2

LEMMA Divided ==
    ASSUME NEW x \in Nat, NEW d \in Nat \ {0}
    PROVE  /\ x \div d \in Nat /\ x % d \in 0 .. d - 1
           /\ x = (x \div d) * d + (x % d)
OBVIOUS

LEMMA DividedOnce ==
    ASSUME NEW d \in Nat \ {0}, NEW a \in Nat, NEW b \in Nat,
           NEW r \in 0 .. d - 1, NEW s \in 0 .. d - 1, a * d + r = b * d + s
    PROVE  a = b /\ r = s
<1>1. ~ a < b
  <2> SUFFICES ASSUME a < b PROVE FALSE
    OBVIOUS
  <2>1. PICK k \in Nat : b = a + 1 + k
    <3>1. b - a - 1 \in Nat /\ b = a + 1 + (b - a - 1)
      OBVIOUS
    <3> QED BY <3>1
  <2>2. b * d = a * d + d + k * d /\ k * d \in Nat /\ a * d \in Nat
    BY <2>1
  <2> QED BY <2>2
<1>2. ~ b < a
  <2> SUFFICES ASSUME b < a PROVE FALSE
    OBVIOUS
  <2>1. PICK k \in Nat : a = b + 1 + k
    <3>1. a - b - 1 \in Nat /\ a = b + 1 + (a - b - 1)
      OBVIOUS
    <3> QED BY <3>1
  <2>2. a * d = b * d + d + k * d /\ k * d \in Nat /\ b * d \in Nat
    BY <2>1
  <2> QED BY <2>2
<1> QED BY <1>1, <1>2

LEMMA DivMod ==
    ASSUME NEW d \in Nat \ {0}, NEW a \in Nat, NEW r \in 0 .. d - 1
    PROVE  (a * d + r) \div d = a /\ (a * d + r) % d = r
<1>1. a * d + r \in Nat
  OBVIOUS
<1> QED BY <1>1, Divided, DividedOnce

LEMMA Around ==
    ASSUME NEW d \in Nat \ {0}, NEW x \in Nat
    PROVE  (x + d) % d = x % d
<1>1. PICK a \in Nat, r \in 0 .. d - 1 : x = a * d + r
  BY Divided
<1>2. x + d = (a + 1) * d + r /\ a + 1 \in Nat
  BY <1>1
<1>3. x % d = r /\ ((a + 1) * d + r) % d = r
  BY <1>1, <1>2, DivMod
<1> QED BY <1>2, <1>3

LEMMA Greatest ==
    /\ \A a, b \in Int : a <= b => Max({a, b}) = b
    /\ \A a, b, c \in Nat :
          LET m == Max({a, b, c}) IN m \in Nat /\ a <= m /\ b <= m /\ c <= m
<1>1. ASSUME NEW a \in Int, NEW b \in Int, a <= b PROVE Max({a, b}) = b
  BY <1>1 DEF Max
<1>2. ASSUME NEW a \in Nat, NEW b \in Nat, NEW c \in Nat
      PROVE  LET m == Max({a, b, c}) IN m \in Nat /\ a <= m /\ b <= m /\ c <= m
  <2>1. \E m \in {a, b, c} : \A n \in {a, b, c} : m >= n
    OBVIOUS
  <2> QED BY <2>1 DEF Max
<1> QED BY <1>1, <1>2

(* Where the clock is a tick later.                                        *)
LEMMA NextSecond ==
    ASSUME NEW x \in 0 .. (Calendar * PerMinute) - 1
    PROVE  LET y == (x + 1) % (Calendar * PerMinute)
               q == x \div PerMinute
               r == x % PerMinute
           IN  /\ y \in 0 .. (Calendar * PerMinute) - 1
               /\ q \in 0 .. Calendar - 1 /\ r \in 0 .. PerMinute - 1
               /\ r + 1 < PerMinute => y \div PerMinute = q /\ y % PerMinute = r + 1
               /\ r + 1 = PerMinute =>
                     y \div PerMinute = (q + 1) % Calendar /\ y % PerMinute = 0
<1> DEFINE P == PerMinute
           C == Calendar
           y == (x + 1) % (C * P)
           q == x \div P
           r == x % P
<1>1. P \in Nat \ {0} /\ C \in Nat \ {0, 1} /\ C * P \in Nat \ {0} /\ x \in Nat /\ x < C * P
  BY Constants
<1>2. q \in Nat /\ r \in 0 .. P - 1 /\ x = q * P + r /\ y \in 0 .. (C * P) - 1
  BY <1>1, Divided
<1> HIDE DEF P, C, q, r, y
<1>3. q < C
  <2> SUFFICES ASSUME C <= q PROVE FALSE
    BY <1>1, <1>2
  <2>1. PICK k \in Nat : q = C + k
    <3>1. q - C \in Nat /\ q = C + (q - C)
      BY <1>1, <1>2
    <3> QED BY <3>1
  <2>2. q * P = C * P + k * P /\ k * P \in Nat
    BY <1>1, <2>1
  <2> QED BY <1>1, <1>2, <2>2
<1>4. CASE x + 1 < C * P
  <2>1. y = x + 1
    <3>1. x + 1 = 0 * (C * P) + (x + 1) /\ x + 1 \in 0 .. (C * P) - 1
      BY <1>1, <1>4
    <3> QED BY <1>1, <3>1, DivMod DEF y
  <2>2. CASE r + 1 < P
    <3>1. y = q * P + (r + 1) /\ r + 1 \in 0 .. P - 1
      BY <1>1, <1>2, <2>1, <2>2
    <3>2. y \div P = q /\ y % P = r + 1
      BY <1>1, <1>2, <3>1, DivMod
    <3> QED BY <1>1, <1>2, <1>3, <2>2, <3>2 DEF P, C, q, r, y
  <2>3. CASE r + 1 = P
    <3>1. y = (q + 1) * P + 0 /\ q + 1 \in Nat
      BY <1>1, <1>2, <2>1, <2>3
    <3>2. y \div P = q + 1 /\ y % P = 0
      <4>1. PICK a \in Nat : a = q + 1 /\ y = a * P + 0
        BY <3>1
      <4>2. 0 \in 0 .. P - 1
        BY <1>1
      <4> QED BY <1>1, <4>1, <4>2, DivMod
    <3>3. q + 1 < C
      <4> SUFFICES ASSUME q + 1 = C PROVE FALSE
        BY <1>1, <1>2, <1>3
      <4> QED BY <1>1, <1>4, <2>1, <3>1
    <3>4. (q + 1) % C = q + 1
      <4>1. q + 1 = 0 * C + (q + 1) /\ q + 1 \in 0 .. C - 1
        BY <1>1, <1>2, <3>3
      <4> QED BY <1>1, <4>1, DivMod
    <3> QED BY <1>1, <1>2, <1>3, <2>3, <3>2, <3>4 DEF P, C, q, r, y
  <2> QED BY <1>1, <1>2, <2>2, <2>3
<1>5. CASE x + 1 = C * P
  <2>1. y = 0
    <3>1. x + 1 = 1 * (C * P) + 0
      BY <1>1, <1>5
    <3> QED BY <1>1, <3>1, DivMod DEF y
  <2>2. q = C - 1 /\ r = P - 1
    <3>1. x = (C - 1) * P + (P - 1) /\ C - 1 \in Nat /\ P - 1 \in 0 .. P - 1
      BY <1>1, <1>5
    <3> QED BY <1>1, <1>2, <3>1, DividedOnce
  <2>3. y \div P = 0 /\ y % P = 0
    <3>1. y = 0 * P + 0
      BY <1>1, <2>1
    <3> QED BY <1>1, <3>1, DivMod
  <2>4. (q + 1) % C = 0
    <3>1. q + 1 = 1 * C + 0
      BY <1>1, <2>2
    <3> QED BY <1>1, <3>1, DivMod
  <2> QED BY <1>1, <1>2, <1>3, <2>2, <2>3, <2>4 DEF P, C, q, r, y
<1> QED BY <1>1, <1>4, <1>5

LEMMA NextMinute ==
    ASSUME NEW q \in 0 .. Calendar - 1, NEW k \in Nat \ {0}
    PROVE  (((q + 1) % Calendar) + (k - 1)) % Calendar = (q + k) % Calendar
<1>1. CASE q + 1 < Calendar
  <2>1. q + 1 = 0 * Calendar + (q + 1) /\ q + 1 \in 0 .. Calendar - 1
    BY <1>1, Constants
  <2>2. (q + 1) % Calendar = q + 1
    BY <2>1, DivMod, Constants
  <2> QED BY <2>2, Constants
<1>2. CASE q + 1 = Calendar
  <2>1. q + 1 = 1 * Calendar + 0
    BY <1>2, Constants
  <2>2. (q + 1) % Calendar = 0
    BY <2>1, DivMod, Constants
  <2>3. ((k - 1) + Calendar) % Calendar = (k - 1) % Calendar
    <3>1. k - 1 \in Nat
      OBVIOUS
    <3> QED BY <3>1, Around, Constants
  <2>4. q + k = (k - 1) + Calendar /\ 0 + (k - 1) = k - 1
    BY <1>2, Constants
  <2> QED BY <2>2, <2>3, <2>4
<1> QED BY <1>1, <1>2, Constants

-----------------------------------------------------------------------------
(* The order in which the tasks are stopped *)

LEMMA Kinds ==
    /\ \A t \in Task : t \in Cron \/ t \in {"external", "monitoring", "bot"}
    /\ {"external", "monitoring", "bot"} \subseteq Task \ Cron
    /\ Loop \subseteq Task /\ Cron \subseteq Loop /\ "bot" \notin Loop
BY TasksAssumption DEF Task, Loop

LEMMA Order ==
    /\ \A t, u \in Task : t # u => StopsBefore(t, u) \/ StopsBefore(u, t)
    /\ \A t \in Cron, u \in Task \ Cron : StopsBefore(t, u)
<1> DEFINE L == Len(Crons)
           Own == <<"external", "monitoring", "bot">>
<1>1. Crons \in Seq(Cron) /\ L \in Nat
  BY TasksAssumption
<1>2. Reverse(Crons) \in Seq(Cron) /\ Len(Reverse(Crons)) = L
      /\ \A i \in 1 .. L : Reverse(Crons)[i] = Crons[(L - i) + 1]
  BY <1>1 DEF Reverse
<1>3. /\ Len(StopOrder) = L + 3
      /\ \A i \in 1 .. L : StopOrder[i] = Crons[(L - i) + 1]
      /\ StopOrder[L + 1] = "external" /\ StopOrder[L + 2] = "monitoring"
      /\ StopOrder[L + 3] = "bot"
  BY <1>1, <1>2 DEF StopOrder
<1>4. ASSUME NEW t \in Cron PROVE \E i \in 1 .. L : StopOrder[i] = t
  <2>1. PICK m \in 1 .. L : Crons[m] = t
    BY <1>1 DEF Cron, Range
  <2>2. (L - m) + 1 \in 1 .. L /\ (L - ((L - m) + 1)) + 1 = m
    BY <1>1
  <2> QED BY <1>3, <2>1, <2>2
<1>5. ASSUME NEW t \in Task \ Cron PROVE \E i \in (L + 1) .. (L + 3) : StopOrder[i] = t
  BY <1>1, <1>3, Kinds
<1> HIDE DEF L
<1>6. ASSUME NEW t \in Task, NEW u \in Task, t # u
      PROVE  StopsBefore(t, u) \/ StopsBefore(u, t)
  <2>1. PICK i \in 1 .. L + 3, j \in 1 .. L + 3 : StopOrder[i] = t /\ StopOrder[j] = u
    BY <1>1, <1>4, <1>5
  <2>2. i < j \/ j < i
    BY <1>1, <1>6, <2>1
  <2> QED BY <1>3, <2>1, <2>2 DEF StopsBefore
<1>7. ASSUME NEW t \in Cron, NEW u \in Task \ Cron PROVE StopsBefore(t, u)
  <2>1. PICK i \in 1 .. L : StopOrder[i] = t
    BY <1>4
  <2>2. PICK j \in (L + 1) .. (L + 3) : StopOrder[j] = u
    BY <1>5
  <2>3. i \in 1 .. L + 3 /\ j \in 1 .. L + 3 /\ i < j
    BY <1>1
  <2> QED BY <1>3, <2>1, <2>2, <2>3 DEF StopsBefore
<1> QED BY <1>6, <1>7

LEMMA OneIsNext ==
    ASSUME NEW tasks \in SUBSET Task, NEW t, NEW u, IsNext(t, tasks), IsNext(u, tasks)
    PROVE  t = u
BY Order DEF IsNext

-----------------------------------------------------------------------------
(* The invariant *)

Places == Over \cup {"off", "new", "asleep", "working", "unwinding"}

(* Only the task that is awaited was told to stop, of those still to stop. *)
Stopping ==
    /\ serving => left = {} /\ cancelled = {}
    /\ \A t \in left : t \in cancelled => IsNext(t, left)

(* The tasks that the error of f skips.                                    *)
Skips(f, t) ==
    /\ at[f] = "failed"
    /\ f \in Cron <=> t \in Cron
    /\ f \in cancelled /\ t \notin cancelled

(* Who is not to be stopped any more is over, or was skipped.              *)
Settled ==
    ~ serving => \A t \in enabled \ left :
        at[t] \in Over \/ \E f \in enabled : Skips(f, t)

Second == clock % PerMinute

(* A cron job sleeps until k minutes from the one that has begun.          *)
Until(t, k) ==
    /\ timer[t] = (k * PerMinute) - Second
    /\ (Minute + k) % Calendar \in schedule[t]
    /\ \A j \in 1 .. k - 1 : (Minute + j) % Calendar \notin schedule[t]

OnTime ==
    \A t \in Cron : at[t] = "asleep" =>
        /\ t \in ranNow => timer[t] > 0
        /\ \E k \in Nat : Until(t, k)

TaskInv == TypeOK /\ Stopping /\ LoopsOnlyStopWhenTold /\ Settled /\ OnTime

LEMMA ClockType ==
    ASSUME clock \in 0 .. (Calendar * PerMinute) - 1
    PROVE  Minute \in 0 .. Calendar - 1 /\ Second \in 0 .. PerMinute - 1
BY NextSecond DEF Minute, Second

LEMMA LongestType ==
    /\ Longest \in Nat /\ Interval <= Longest /\ Timeout <= Longest
    /\ \A k \in 0 .. Year : k * PerMinute <= Longest /\ k * PerMinute \in Nat
<1>1. Longest \in Nat /\ Interval <= Longest /\ Timeout <= Longest
      /\ Year * PerMinute <= Longest
  BY Greatest, Constants DEF Longest
<1>2. ASSUME NEW k \in 0 .. Year
      PROVE  k * PerMinute <= Year * PerMinute /\ k * PerMinute \in Nat
  <2>1. PICK m \in Nat : Year = k + m
    <3>1. Year - k \in Nat /\ Year = k + (Year - k)
      BY Constants
    <3> QED BY <3>1
  <2>2. /\ Year * PerMinute = k * PerMinute + m * PerMinute
        /\ m * PerMinute \in Nat /\ k * PerMinute \in Nat
    BY <2>1, Constants
  <2> QED BY <2>2
<1> QED
  <2>1. ASSUME NEW k \in 0 .. Year PROVE k * PerMinute <= Longest /\ k * PerMinute \in Nat
    BY <1>1, <1>2, Constants
  <2> QED BY <1>1, <2>1

(* The sleep of a loop; a cron job's ends with the next minute that matches. *)
LEMMA DelayType ==
    ASSUME TypeOK, NEW t \in Task, t \in Cron => Matches(t) # {}
    PROVE  /\ Delay(t) \in 0 .. Longest
           /\ t \in Cron =>
                 /\ Delay(t) > 0
                 /\ \E k \in Nat :
                       /\ Delay(t) = (k * PerMinute) - Second
                       /\ (Minute + k) % Calendar \in schedule[t]
                       /\ \A j \in 1 .. k - 1 : (Minute + j) % Calendar \notin schedule[t]
<1>1. CASE t \notin Cron
  BY <1>1, LongestType, Constants DEF Delay
<1>2. CASE t \in Cron
  <2> DEFINE k == Earliest(Matches(t))
  <2>1. Matches(t) \in SUBSET Nat /\ Matches(t) \subseteq 1 .. Year
    BY Constants DEF Matches
  <2>2. k \in Matches(t) /\ \A j \in Matches(t) : k <= j
    BY <1>2, <2>1, LeastNat DEF Earliest
  <2> HIDE DEF k
  <2>3. /\ k \in 1 .. Year /\ (Minute + k) % Calendar \in schedule[t]
        /\ \A j \in 1 .. k - 1 : (Minute + j) % Calendar \notin schedule[t]
    BY <2>1, <2>2, Constants DEF Matches
  <2>4. Second \in 0 .. PerMinute - 1
    BY ClockType DEF TypeOK
  <2>5. k * PerMinute >= PerMinute /\ k * PerMinute \in Nat /\ k * PerMinute <= Longest
    <3>1. PICK m \in Nat : k = m + 1
      <4>1. k - 1 \in Nat /\ k = (k - 1) + 1
        BY <2>3, Constants
      <4> QED BY <4>1
    <3>2. k * PerMinute = m * PerMinute + PerMinute /\ m * PerMinute \in Nat
      BY <3>1, Constants
    <3> QED BY <2>3, <3>2, LongestType, Constants
  <2>6. Delay(t) = Max({0, (k * PerMinute) - Second})
    BY <1>2 DEF Delay, k, Second
  <2>7. Delay(t) = (k * PerMinute) - Second
    BY <2>4, <2>5, <2>6, Greatest, Constants
  <2> QED BY <1>2, <2>3, <2>4, <2>5, <2>7, LongestType, Constants
<1> QED BY <1>1, <1>2

-----------------------------------------------------------------------------
(* The steps *)

LEMMA InitTasks == Init => TaskInv
<1> SUFFICES ASSUME Init PROVE TaskInv
  OBVIOUS
<1> USE DEF Init
<1>1. \A t \in enabled : t \in Task
  BY TasksAssumption
<1>2. TypeOK
  BY <1>1, LongestType DEF TypeOK
<1>3. /\ Stopping /\ LoopsOnlyStopWhenTold /\ Settled /\ OnTime
  BY Kinds DEF Stopping, LoopsOnlyStopWhenTold, Settled, OnTime
<1> QED BY <1>2, <1>3 DEF TaskInv

(* A step of one task that is not over.                                    *)
LEMMA BecomeInv ==
    ASSUME TaskInv, NEW t \in enabled, at[t] \notin Over,
           NEW place \in Places \ {"off", "new"}, NEW ticks \in 0 .. Longest,
           Become(t, place, ticks),
           ranNow' \subseteq Cron, ranNow' \subseteq ranNow \cup {t},
           place = "asleep" => ranNow' = ranNow,
           place = "stopped" => t \in cancelled,
           t \in Loop => place # "returned"
               /\ (place = "failed" => t = "monitoring" \/ (t \in Cron /\ ~ Recurs(t))),
           place = "asleep" /\ t \in Cron =>
               /\ ticks > 0
               /\ \E k \in Nat :
                     /\ ticks = (k * PerMinute) - Second
                     /\ (Minute + k) % Calendar \in schedule[t]
                     /\ \A j \in 1 .. k - 1 : (Minute + j) % Calendar \notin schedule[t]
    PROVE  TaskInv'
<1>1. /\ t \in Task /\ at[t] # "off"
      /\ UNCHANGED <<enabled, schedule, clock, cancelled, serving, left>>
      /\ at' = [at EXCEPT ![t] = place] /\ timer' = [timer EXCEPT ![t] = ticks]
      /\ at'[t] = place /\ timer'[t] = ticks
      /\ \A u \in Task \ {t} : at'[u] = at[u] /\ timer'[u] = timer[u]
  BY DEF Become, TaskInv, TypeOK
<1>2. TypeOK'
  BY <1>1 DEF TaskInv, TypeOK, Places, IsNext, StopsBefore
<1>3. Stopping'
  BY <1>1 DEF TaskInv, Stopping, IsNext, StopsBefore
<1>4. LoopsOnlyStopWhenTold'
  BY <1>1, Kinds DEF TaskInv, LoopsOnlyStopWhenTold, Recurs
<1>5. Settled'
  <2> SUFFICES ASSUME ~ serving, NEW u \in enabled \ left
               PROVE  at'[u] \in Over \/ \E f \in enabled : Skips(f, u)'
    BY <1>1 DEF Settled
  <2>1. enabled \subseteq Task
    BY DEF TaskInv, TypeOK
  <2>2. CASE at[u] \in Over
    BY <1>1, <2>1, <2>2
  <2>3. CASE at[u] \notin Over
    <3>1. PICK f \in enabled : Skips(f, u)
      BY <2>3 DEF TaskInv, Settled
    <3>2. f # t
      BY <3>1 DEF Skips, Over
    <3> QED BY <1>1, <2>1, <3>1, <3>2 DEF Skips
  <2> QED BY <2>2, <2>3
<1>6. OnTime'
  <2>1. Minute' = Minute /\ Second' = Second
    BY <1>1 DEF Minute, Second
  <2> SUFFICES ASSUME NEW u \in Cron, at'[u] = "asleep"
               PROVE  (u \in ranNow' => timer'[u] > 0) /\ \E k \in Nat : Until(u, k)'
    BY DEF OnTime
  <2>2. CASE u = t
    BY <1>1, <2>1, <2>2 DEF Until
  <2>3. CASE u # t
    BY <1>1, <2>1, <2>3, Kinds DEF TaskInv, OnTime, Until
  <2> QED BY <2>2, <2>3
<1> QED BY <1>2, <1>3, <1>4, <1>5, <1>6 DEF TaskInv

LEMMA TurnInv ==
    ASSUME TaskInv, NEW t \in enabled, at[t] \notin Over, NextTurn(t)
    PROVE  TaskInv'
<1>1. TypeOK /\ t \in Task /\ ranNow \subseteq Cron
  BY DEF TaskInv, TypeOK
<1>2. CASE t \in Cron /\ Matches(t) = {}
  <2>1. Minute \in Minutes
    BY <1>1, ClockType, Constants DEF TypeOK, Minutes
  <2>2. ~ Recurs(t)
    BY <1>2, <2>1 DEF Recurs, Matches
  <2>3. Become(t, "failed", 0) /\ 0 \in 0 .. Longest /\ ranNow' = ranNow
    BY <1>2, LongestType DEF NextTurn
  <2> QED BY <1>1, <1>2, <2>2, <2>3, BecomeInv DEF Places, Over
<1>3. CASE ~ (t \in Cron /\ Matches(t) = {})
  <2>1. Become(t, "asleep", Delay(t)) /\ ranNow' = ranNow
    BY <1>3 DEF NextTurn
  <2> QED BY <1>1, <1>3, <2>1, DelayType, BecomeInv DEF Places, Over
<1> QED BY <1>2, <1>3

LEMMA RunsInv ==
    ASSUME TaskInv, NEW t \in enabled, TaskRuns(t)
    PROVE  TaskInv'
<1>1. /\ ranNow \subseteq Cron /\ 0 \in 0 .. Longest /\ Timeout \in 0 .. Longest
      /\ "bot" \notin Loop /\ "bot" \notin Cron /\ "monitoring" \notin Cron
  BY Kinds, LongestType, Constants DEF TaskInv, TypeOK
<1>2. CASE StartLoop(t) \/ End(t)
  BY <1>2, TurnInv DEF StartLoop, End, Over
<1>3. CASE Begin(t)
  BY <1>1, <1>3, BecomeInv DEF Begin, Places, Over
<1>4. CASE Expire(t)
  BY <1>1, <1>4, BecomeInv DEF Expire, Places, Over
<1>5. CASE StartFails(t)
  BY <1>1, <1>5, BecomeInv DEF StartFails, Places, Over
<1>6. CASE Unwound(t)
  <2>1. CASE t \in cancelled
    BY <1>1, <1>6, <2>1, BecomeInv DEF Unwound, Places, Over
  <2>2. CASE t \notin cancelled
    BY <1>6, <2>2, TurnInv DEF Unwound, Over
  <2> QED BY <2>1, <2>2
<1>7. CASE t = "bot" /\ StartBot
  BY <1>1, <1>7, BecomeInv DEF StartBot, Places, Over
<1>8. CASE t = "bot" /\ BotEnds
  <2>1. PICK place \in {"returned", "failed"} : Become(t, place, 0)
    BY <1>8 DEF BotEnds
  <2> QED BY <1>1, <1>8, <2>1, BecomeInv DEF BotEnds, Places, Over
<1> QED BY <1>2, <1>3, <1>4, <1>5, <1>6, <1>7, <1>8 DEF TaskRuns

(* The next of the tasks that are left is told to stop.                    *)
LEMMA CancelInv ==
    ASSUME TaskInv, serving' = FALSE, NEW tasks \in SUBSET enabled, Cancel(tasks),
           tasks \cap cancelled = {},
           \A u \in enabled \ tasks : at[u] \in Over \/ \E f \in enabled : Skips(f, u)
    PROVE  TaskInv'
<1>1. /\ left' = tasks /\ UNCHANGED <<enabled, schedule, clock, timer, ranNow>>
      /\ \A u \in Task \ tasks : at'[u] = at[u] /\ (u \in cancelled' <=> u \in cancelled)
      /\ at' \in [Task -> Places] /\ cancelled \subseteq cancelled' /\ cancelled' \subseteq enabled
      /\ \A u \in Task :
            \/ at'[u] = at[u]
            \/ at'[u] = "stopped" /\ u \in cancelled' /\ at[u] \in {"new", "asleep"}
            \/ at'[u] = "unwinding" /\ at[u] = "working"
      /\ \A u \in tasks : u \in cancelled' <=> IsNext(u, tasks)
  <2>1. left' = tasks /\ UNCHANGED <<enabled, schedule, clock, timer, ranNow>>
        /\ enabled \subseteq Task /\ at \in [Task -> Places] /\ cancelled \subseteq enabled
    BY DEF Cancel, TaskInv, TypeOK, Places
  <2>2. CASE tasks = {} /\ UNCHANGED <<at, cancelled>>
    BY <2>1, <2>2
  <2>3. ASSUME NEW t \in tasks, IsNext(t, tasks), cancelled' = cancelled \cup {t},
               at' = [at EXCEPT ![t] = CASE @ \in {"new", "asleep"} -> "stopped"
                                         [] @ = "working" -> "unwinding"
                                         [] OTHER -> @]
        PROVE  /\ \A u \in Task \ tasks : at'[u] = at[u] /\ (u \in cancelled' <=> u \in cancelled)
               /\ at' \in [Task -> Places] /\ cancelled' \subseteq enabled
               /\ \A u \in Task :
                     \/ at'[u] = at[u]
                     \/ at'[u] = "stopped" /\ u \in cancelled' /\ at[u] \in {"new", "asleep"}
                     \/ at'[u] = "unwinding" /\ at[u] = "working"
               /\ \A u \in tasks : u \in cancelled' <=> IsNext(u, tasks)
    <3>1. t \in Task /\ tasks \subseteq Task /\ at[t] \in Places
      BY <2>1
    <3>2. \A u \in Task \ {t} : at'[u] = at[u]
      BY <2>1, <2>3
    <3>3. at'[t] = CASE at[t] \in {"new", "asleep"} -> "stopped"
                     [] at[t] = "working" -> "unwinding"
                     [] OTHER -> at[t]
      BY <2>1, <2>3, <3>1
    <3>4. \/ at'[t] = at[t]
          \/ at'[t] = "stopped" /\ at[t] \in {"new", "asleep"}
          \/ at'[t] = "unwinding" /\ at[t] = "working"
      BY <3>3
    <3>5. at'[t] \in Places
      BY <3>1, <3>4 DEF Places, Over
    <3>6. \A u \in tasks : u \in cancelled' <=> IsNext(u, tasks)
      BY <2>3, <3>1, OneIsNext
    <3>7. at' \in [Task -> Places]
      <4>1. \E v : at' = [at EXCEPT ![t] = v]
        BY <2>3
      <4> QED BY <2>1, <3>1, <3>5, <4>1
    <3> QED BY <2>1, <2>3, <3>1, <3>2, <3>4, <3>6, <3>7
  <2> QED BY <2>1, <2>2, <2>3 DEF Cancel
<1>2. tasks \subseteq Task /\ enabled \subseteq Task
  BY DEF TaskInv, TypeOK
<1>3. TypeOK'
  <2>2. \A t \in Task : at'[t] = "off" <=> t \notin enabled'
    BY <1>1 DEF TaskInv, TypeOK
  <2>3. \A t \in left' : IsNext(t, left)' => t \in cancelled'
    BY <1>1 DEF IsNext, StopsBefore
  <2> QED BY <1>1, <2>2, <2>3 DEF TaskInv, TypeOK, Places
<1>4. Stopping'
  BY <1>1 DEF Stopping, IsNext, StopsBefore
<1>5. LoopsOnlyStopWhenTold'
  BY <1>1, Kinds DEF TaskInv, LoopsOnlyStopWhenTold, Recurs
<1>6. Settled'
  <2> SUFFICES ASSUME NEW u \in enabled \ tasks
               PROVE  at'[u] \in Over \/ \E f \in enabled : Skips(f, u)'
    BY <1>1 DEF Settled
  <2>1. CASE at[u] \in Over
    BY <1>1, <1>2, <2>1
  <2>2. CASE \E f \in enabled : Skips(f, u)
    <3>1. PICK f \in enabled : Skips(f, u)
      BY <2>2
    <3>2. at'[f] = "failed"
      BY <1>1, <1>2, <3>1 DEF Skips
    <3> QED BY <1>1, <1>2, <3>1, <3>2 DEF Skips
  <2> QED BY <2>1, <2>2
<1>7. OnTime'
  <2>1. Minute' = Minute /\ Second' = Second
    BY <1>1 DEF Minute, Second
  <2>2. ASSUME NEW u \in Cron, at'[u] = "asleep"
        PROVE  (u \in ranNow' => timer'[u] > 0) /\ \E k \in Nat : Until(u, k)'
    <3>1. at[u] = "asleep"
      BY <1>1, <2>2, Kinds
    <3> QED BY <1>1, <2>1, <3>1 DEF TaskInv, OnTime, Until
  <2> QED BY <2>2 DEF OnTime
<1> QED BY <1>3, <1>4, <1>5, <1>6, <1>7 DEF TaskInv

LEMMA StopInv == ASSUME TaskInv, Shutdown \/ Stopped PROVE TaskInv'
<1>1. enabled \subseteq Task /\ left \subseteq enabled
  BY DEF TaskInv, TypeOK
<1>2. CASE Shutdown
  BY <1>2, CancelInv DEF Shutdown, TaskInv, Stopping
<1>3. CASE Stopped
  <2>1. PICK t \in left : IsNext(t, left) /\ at[t] \in Over /\ Cancel(Rest(t))
    BY <1>3 DEF Stopped
  <2>2. serving' = FALSE /\ ~ serving
    BY <1>3 DEF Stopped, TaskInv, Stopping, TypeOK
  <2>3. Rest(t) \in SUBSET enabled /\ Rest(t) \subseteq left \ {t}
    BY <1>1 DEF Rest
  <2>4. t \in cancelled /\ \A u \in left \ {t} : u \notin cancelled
    BY <1>1, <2>1, OneIsNext DEF TaskInv, TypeOK, Stopping
  <2>5. ASSUME NEW u \in enabled \ Rest(t)
        PROVE  at[u] \in Over \/ \E f \in enabled : Skips(f, u)
    <3>1. CASE u \notin left
      BY <2>2, <3>1 DEF TaskInv, Settled
    <3>2. CASE u = t
      BY <2>1, <3>2
    <3>3. CASE u \in left /\ u # t
      <4>1. at[t] = "failed" /\ (t \in Cron => u \in Cron)
        BY <2>5, <3>3 DEF Rest
      <4>2. t \notin Cron => u \notin Cron
        BY <1>1, <2>1, <3>3, Order DEF IsNext
      <4> QED BY <1>1, <2>4, <3>3, <4>1, <4>2 DEF Skips
    <3> QED BY <3>1, <3>2, <3>3
  <2> QED BY <2>1, <2>2, <2>3, <2>4, <2>5, CancelInv
<1> QED BY <1>2, <1>3

LEMMA TickClock ==
    ASSUME TypeOK, Tick
    PROVE  /\ clock' \in 0 .. (Calendar * PerMinute) - 1
           /\ Minute \in 0 .. Calendar - 1 /\ Second \in 0 .. PerMinute - 1
           /\ Second + 1 < PerMinute => Minute' = Minute /\ Second' = Second + 1
           /\ Second + 1 = PerMinute =>
                 /\ Minute' = (Minute + 1) % Calendar /\ Second' = 0
                 /\ Minute' # Minute
<1>1. clock \in 0 .. (Calendar * PerMinute) - 1
      /\ clock' = (clock + 1) % (Calendar * PerMinute)
  BY DEF TypeOK, Tick
<1>2. ASSUME NEW q \in 0 .. Calendar - 1 PROVE (q + 1) % Calendar # q
  <2>1. CASE q + 1 = Calendar
    <3>1. q + 1 = 1 * Calendar + 0
      BY <2>1, Constants
    <3>2. (q + 1) % Calendar = 0
      BY <3>1, DivMod, Constants
    <3> QED BY <2>1, <3>2, Constants
  <2>2. CASE q + 1 < Calendar
    <3>1. q + 1 = 0 * Calendar + (q + 1) /\ q + 1 \in 0 .. Calendar - 1
      BY <2>2, Constants
    <3>2. (q + 1) % Calendar = q + 1
      BY <3>1, DivMod, Constants
    <3> QED BY <3>2
  <2> QED BY <2>1, <2>2, Constants
<1> QED BY <1>1, <1>2, NextSecond DEF Minute, Second

LEMMA TickUntil ==
    ASSUME TypeOK, Tick, NEW t \in Cron, NEW k \in Nat, Until(t, k), at[t] = "asleep"
    PROVE  /\ timer[t] > 0 /\ k > 0
           /\ Second + 1 < PerMinute => Until(t, k)' /\ timer'[t] > 0
           /\ Second + 1 = PerMinute => Until(t, k - 1)' /\ k - 1 \in Nat
<1>1. /\ t \in Sleeping /\ timer[t] > 0 /\ timer[t] \in Nat
      /\ timer'[t] = timer[t] - 1 /\ schedule' = schedule
  BY Kinds, LongestType DEF Tick, Sleeping, TypeOK
<1>2. /\ Minute \in 0 .. Calendar - 1 /\ Second \in 0 .. PerMinute - 1
      /\ timer[t] = (k * PerMinute) - Second
  BY TickClock DEF Until
<1>3. k > 0
  BY <1>1, <1>2, Constants
<1>4. PICK m \in Nat : k = m + 1
  <2>1. k - 1 \in Nat /\ k = (k - 1) + 1
    BY <1>3
  <2> QED BY <2>1
<1>5. k * PerMinute = m * PerMinute + PerMinute /\ m * PerMinute \in Nat
  BY <1>4, Constants
<1>6. CASE Second + 1 < PerMinute
  BY <1>1, <1>2, <1>3, <1>5, <1>6, TickClock, Constants DEF Until
<1>7. CASE Second + 1 = PerMinute
  <2>1. Minute' = (Minute + 1) % Calendar /\ Second' = 0
    BY <1>7, TickClock
  <2>2. timer'[t] = ((k - 1) * PerMinute) - Second' /\ k - 1 = m
    <3>1. k - 1 = m /\ timer'[t] = ((k * PerMinute) - Second) - 1
      BY <1>1, <1>2, <1>4
    <3>2. timer'[t] = (m * PerMinute) - 0
      BY <1>2, <1>5, <1>7, <3>1, Constants
    <3> QED BY <2>1, <3>1, <3>2
  <2>3. \A j \in Nat \ {0} : (Minute' + (j - 1)) % Calendar = (Minute + j) % Calendar
    BY <1>2, <2>1, NextMinute
  <2>4. (Minute' + (k - 1)) % Calendar \in schedule'[t]
    BY <1>1, <1>3, <2>3 DEF Until
  <2>5. ASSUME NEW j \in 1 .. (k - 1) - 1
        PROVE  (Minute' + j) % Calendar \notin schedule'[t]
    <3>1. j + 1 \in Nat \ {0} /\ j + 1 \in 1 .. k - 1 /\ (j + 1) - 1 = j
      BY <1>4
    <3>2. (Minute' + j) % Calendar = (Minute + (j + 1)) % Calendar
      BY <2>3, <3>1
    <3> QED BY <1>1, <3>1, <3>2 DEF Until
  <2>6. Until(t, k - 1)'
    BY <2>2, <2>4, <2>5 DEF Until
  <2> QED BY <1>1, <1>2, <1>3, <1>4, <1>7, <2>2, <2>6, Constants
<1> QED BY <1>1, <1>2, <1>3, <1>6, <1>7, Constants

LEMMA TickInv == ASSUME TaskInv, Tick PROVE TaskInv'
<1>1. UNCHANGED <<enabled, schedule, at, cancelled, serving, left>>
  BY DEF Tick
<1>2. TypeOK'
  <2>1. timer' \in [Task -> 0 .. Longest]
    BY Kinds, LongestType DEF Tick, Sleeping, TaskInv, TypeOK
  <2>2. ranNow' \subseteq Cron /\ clock' \in 0 .. (Calendar * PerMinute) - 1
    BY TickClock DEF Tick, TaskInv, TypeOK
  <2> QED BY <1>1, <2>1, <2>2 DEF TaskInv, TypeOK, IsNext, StopsBefore
<1>3. Stopping' /\ LoopsOnlyStopWhenTold' /\ Settled'
  BY <1>1
     DEF TaskInv, Stopping, LoopsOnlyStopWhenTold, Settled, Skips, Recurs, IsNext, StopsBefore
<1>4. OnTime'
  <2> SUFFICES ASSUME NEW t \in Cron, at'[t] = "asleep"
               PROVE  (t \in ranNow' => timer'[t] > 0) /\ \E k \in Nat : Until(t, k)'
    BY DEF OnTime
  <2>1. PICK k \in Nat : Until(t, k)
    BY <1>1 DEF TaskInv, OnTime
  <2>2. TypeOK /\ at[t] = "asleep" /\ Second \in 0 .. PerMinute - 1
    BY <1>1, TickClock DEF TaskInv
  <2>3. CASE Second + 1 < PerMinute
    BY <2>1, <2>2, <2>3, TickUntil
  <2>4. CASE Second + 1 = PerMinute
    <3>1. Until(t, k - 1)' /\ k - 1 \in Nat
      BY <2>1, <2>2, <2>4, TickUntil
    <3>2. ranNow' = {}
      BY <2>2, <2>4, TickClock DEF Tick
    <3> QED BY <3>1, <3>2
  <2>5. Second + 1 < PerMinute \/ Second + 1 = PerMinute
    BY <2>2, Constants
  <2> QED BY <2>3, <2>4, <2>5
<1> QED BY <1>2, <1>3, <1>4 DEF TaskInv

LEMMA NextTasks == TaskInv /\ [Next]_vars => TaskInv'
<1>1. ASSUME TaskInv, UNCHANGED vars PROVE TaskInv'
  BY <1>1
     DEF vars, TaskInv, TypeOK, Stopping, LoopsOnlyStopWhenTold, Settled, Skips, OnTime,
         Until, Minute, Second, Recurs, IsNext, StopsBefore
<1> QED BY <1>1, RunsInv, StopInv, TickInv DEF Next

LEMMA SpecTasks == Spec => []TaskInv
BY InitTasks, NextTasks, PTL DEF Spec
-----------------------------------------------------------------------------
(* Every variable keeps its type; the task that is awaited while the tasks *)
(* are stopped was told to stop, so that the wait can end.                 *)
THEOREM TypeCorrect == Spec => []TypeOK
<1>1. TaskInv => TypeOK
  BY DEF TaskInv
<1> QED BY <1>1, SpecTasks, PTL

(* No error and no timeout of an iteration ends its loop.                  *)
THEOREM LoopsGoOn == Spec => []LoopsOnlyStopWhenTold
<1>1. TaskInv => LoopsOnlyStopWhenTold
  BY DEF TaskInv
<1> QED BY <1>1, SpecTasks, PTL

(* When the server has stopped, what still runs was skipped for an error.  *)
THEOREM AllStopped == Spec => []NothingLeftRunning
<1>1. TaskInv => NothingLeftRunning
  BY DEF TaskInv, Settled, Skips, NothingLeftRunning
<1> QED BY <1>1, SpecTasks, PTL

LEMMA StepsKeepSchedule ==
    ASSUME TaskInv, [Next]_vars
    PROVE  schedule' = schedule /\ (Tick \/ clock' = clock)
BY DEF Next, vars, TaskRuns, StartLoop, End, NextTurn, Begin, Expire, StartFails, Unwound,
       StartBot, BotEnds, Become, Shutdown, Stopped, Cancel, Tick

(* A cron job begins in a minute of its schedule, and in no minute twice.  *)
THEOREM OnSchedule == Spec => RunsBySchedule
<1>1. ASSUME TaskInv, [Next]_vars, NEW t \in Cron, at[t] = "asleep", at'[t] = "working"
      PROVE  Minute \in schedule[t] /\ t \notin ranNow
  <2>1. timer[t] = 0
    <3>1. TypeOK /\ t \in Task /\ t # "bot"
      BY <1>1, Kinds DEF TaskInv
    <3>2. CASE \E u \in enabled : TaskRuns(u)
      <4>1. PICK u \in enabled : TaskRuns(u)
        BY <3>2
      <4>2. \A place, ticks : Become(u, place, ticks) =>
               u = t /\ place = "working"
        BY <1>1, <3>1 DEF Become, TypeOK
      <4> QED
        BY <3>1, <4>1, <4>2
           DEF TaskRuns, StartLoop, End, NextTurn, Begin, Expire, StartFails, Unwound,
               StartBot, BotEnds
    <3>3. CASE Shutdown \/ Stopped
      <4>1. \A tasks : ~ Cancel(tasks)
        BY <1>1, <3>1 DEF Cancel, TypeOK
      <4> QED BY <3>3, <4>1 DEF Shutdown, Stopped
    <3>4. CASE Tick \/ UNCHANGED vars
      BY <1>1, <3>4 DEF Tick, vars
    <3> QED BY <1>1, <3>2, <3>3, <3>4 DEF Next
  <2>2. PICK k \in Nat : Until(t, k)
    BY <1>1 DEF TaskInv, OnTime
  <2>3. Minute \in 0 .. Calendar - 1 /\ Second \in 0 .. PerMinute - 1
    BY <1>1, ClockType DEF TaskInv, TypeOK
  <2>4. k * PerMinute + 0 = 0 * PerMinute + Second
    BY <2>1, <2>2, <2>3, Constants DEF Until
  <2>5. k = 0
    BY <2>3, <2>4, DividedOnce, Constants
  <2>6. (Minute + 0) % Calendar = Minute
    <3>1. Minute + 0 = 0 * Calendar + Minute
      BY <2>3, Constants
    <3> QED BY <2>3, <3>1, DivMod, Constants
  <2> QED BY <1>1, <2>1, <2>2, <2>5, <2>6 DEF Until, TaskInv, OnTime
<1>2. TaskInv /\ [Next]_vars =>
         [\A t \in Cron : at[t] = "asleep" /\ at'[t] = "working" =>
             Minute \in schedule[t] /\ t \notin ranNow]_vars
  BY <1>1
<1> QED BY <1>2, SpecTasks, PTL DEF Spec, RunsBySchedule

(* No minute of a schedule passes a sleeping job by.                       *)
THEOREM NoneMissed == Spec => NoRunMissed
<1>1. ASSUME TaskInv, [Next]_vars, NEW t \in Cron, Minute' # Minute,
             Minute' \in schedule[t], at'[t] = "asleep"
      PROVE  timer'[t] = 0
  <2>1. Tick /\ TypeOK
    BY <1>1, StepsKeepSchedule DEF Minute, TaskInv
  <2>2. /\ Minute' = (Minute + 1) % Calendar /\ Second + 1 = PerMinute
        /\ Second \in 0 .. PerMinute - 1
    BY <1>1, <2>1, TickClock, Constants
  <2>3. at[t] = "asleep" /\ timer[t] \in Nat
    BY <1>1, <2>1, Kinds, LongestType DEF Tick, TypeOK
  <2>4. PICK k \in Nat : Until(t, k)
    BY <1>1, <2>3 DEF TaskInv, OnTime
  <2>5. timer[t] > 0 /\ k > 0
    BY <2>1, <2>3, <2>4, TickUntil
  <2>6. k = 1
    <3>1. ~ 1 \in 1 .. k - 1
      BY <1>1, <2>2, <2>4 DEF Until
    <3> QED BY <2>5, <3>1
  <2>7. timer[t] = 1
    BY <2>2, <2>4, <2>6, Constants DEF Until
  <2>8. timer'[t] = timer[t] - 1
    BY <2>1, <2>3, Kinds DEF Tick, Sleeping
  <2> QED BY <2>7, <2>8
<1>2. TaskInv /\ [Next]_vars =>
         [\A t \in Cron :
             Minute' # Minute /\ Minute' \in schedule[t] /\ at'[t] = "asleep"
             => timer'[t] = 0]_vars
  BY <1>1
<1> QED BY <1>2, SpecTasks, PTL DEF Spec, NoRunMissed
=============================================================================
