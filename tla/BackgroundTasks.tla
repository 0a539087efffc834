--------------------------- MODULE BackgroundTasks ---------------------------
(***************************************************************************)
(* The tasks that run beside the HTTP server on one event loop: the bot,   *)
(* monitoring, the refresh of external subscriptions and the cron jobs.    *)
(* All but the bot are loops: sleep, run an iteration under a timeout, log *)
(* its error, go on.  When the server stops, the tasks are cancelled and   *)
(* awaited one after the other.                                            *)
(*                                                                         *)
(* Time is counted in ticks, PerMinute of them a minute; the calendar is   *)
(* a cycle of minutes.  The event loop is not late by a tick.              *)
(***************************************************************************)
EXTENDS Integers, Sequences, SequencesExt

CONSTANTS
    Crons,           \* the cron jobs in the order they are registered
    Settings,        \* the sets of tasks the settings may ask for
    Schedules,       \* what an expression can mean: sets of minutes
    Calendar,        \* minutes until the calendar repeats: 4 years, 28 for weekdays
    Year,            \* minutes a schedule is searched for its next run
    PerMinute,       \* ticks
    Interval,        \* pause of "monitoring" and "external", in ticks
    Timeout          \* of an iteration, in ticks

VARIABLES
    enabled,         \* the tasks the settings ask for
    schedule,        \* of each cron job
    clock,           \* ticks since the calendar began
    at,              \* where each task is
    timer,           \* ticks until a sleep, or a timeout, is over
    cancelled,       \* tasks that were told to stop
    serving, left,   \* the server's life; the tasks it has yet to stop
    (* History, read by the properties only *)
    ranNow           \* cron jobs that began an iteration in this minute

vars == <<enabled, schedule, clock, at, timer, cancelled, serving, left, ranNow>>

Cron == Range(Crons)
Loop == Cron \cup {"external", "monitoring"}
Task == Loop \cup {"bot"}
Minutes == 0 .. Calendar - 1
Over == {"returned", "failed", "stopped"}

ASSUME TasksAssumption ==
    /\ Crons \in Seq(Cron) /\ IsInjective(Crons)
    /\ Cron \cap {"external", "monitoring", "bot"} = {}
    /\ \A tasks \in Settings : "external" \in tasks /\ tasks \subseteq Task

(* A calendar of one minute would not tell it from the next one.          *)
ASSUME TimesAssumption ==
    /\ Schedules \subseteq SUBSET Minutes
    /\ {Year, PerMinute, Interval, Timeout} \subseteq Nat \ {0} /\ Calendar \in Nat \ {0, 1}
-----------------------------------------------------------------------------
Minute == clock \div PerMinute

(* Mutant: the search starts with the minute that has begun.               *)
Matches_ThisMinute(t) == {k \in 0 .. Year : (Minute + k) % Calendar \in schedule[t]}

(* The candidates of next_cron_time: the minutes after this one that match. *)
Matches(t) == {k \in 1 .. Year : (Minute + k) % Calendar \in schedule[t]}

Earliest(ks) == CHOOSE k \in ks : \A j \in ks : k <= j

(* Mutant: the seconds of the minute that has begun are slept once more.   *)
Delay_FromMinute(t) ==
    IF t \in Cron THEN Earliest(Matches(t)) * PerMinute
    ELSE IF at[t] = "new" THEN 0 ELSE Interval

(* delay_until_next_run                                                    *)
Delay(t) ==
    IF t \in Cron
    THEN Max({0, (Earliest(Matches(t)) * PerMinute) - (clock % PerMinute)})
    ELSE IF at[t] = "new" THEN 0 ELSE Interval

Init ==
    /\ enabled \in Settings
    /\ schedule \in [Cron -> Schedules]
    /\ clock \in 0 .. (Calendar * PerMinute) - 1
    /\ at = [t \in Task |-> IF t \in enabled THEN "new" ELSE "off"]
    /\ timer = [t \in Task |-> 0]
    /\ cancelled = {} /\ serving = TRUE /\ left = {} /\ ranNow = {}
-----------------------------------------------------------------------------
Become(t, place, ticks) ==
    /\ at' = [at EXCEPT ![t] = place]
    /\ timer' = [timer EXCEPT ![t] = ticks]
    /\ UNCHANGED <<enabled, schedule, clock, cancelled, serving, left>>

(* The top of the loop.  A schedule without a match raises, out of it.     *)
NextTurn(t) ==
    /\ UNCHANGED ranNow
    /\ IF t \in Cron /\ Matches(t) = {} THEN Become(t, "failed", 0)
       ELSE Become(t, "asleep", Delay(t))

StartLoop(t) == t \in Loop /\ at[t] = "new" /\ NextTurn(t)

StartBot == at["bot"] = "new" /\ Become("bot", "working", 0) /\ UNCHANGED ranNow

(* A token Telegram's library refuses: Bot(token) raises.                  *)
StartFails(t) ==
    /\ t \in {"bot", "monitoring"} /\ at[t] = "new"
    /\ Become(t, "failed", 0) /\ UNCHANGED ranNow

Begin(t) ==
    /\ t \in Loop /\ at[t] = "asleep" /\ timer[t] = 0
    /\ Become(t, "working", Timeout)
    /\ ranNow' = ranNow \cup ({t} \cap Cron)

(* Mutant: an error of an iteration ends its loop.                         *)
End_Raises(t) ==
    /\ t \in Loop /\ at[t] = "working"
    /\ NextTurn(t) \/ (Become(t, "failed", 0) /\ UNCHANGED ranNow)

(* An iteration returns or raises: its error is logged.                    *)
End(t) == t \in Loop /\ at[t] = "working" /\ NextTurn(t)

(* Mutant: iterations have no timeout.                                     *)
Expire_Never(t) == FALSE

(* Its awaits raise CancelledError; clients are closed on the way out.     *)
Expire(t) ==
    /\ t \in Loop /\ at[t] = "working" /\ timer[t] = 0
    /\ Become(t, "unwinding", 0) /\ UNCHANGED ranNow

(* Mutant: whoever was cancelled, the loop goes on.                        *)
Unwound_GoesOn(t) == at[t] = "unwinding" /\ NextTurn(t)

(* TimeoutError only if nobody else cancelled the task meanwhile.          *)
Unwound(t) ==
    /\ at[t] = "unwinding"
    /\ IF t \in cancelled THEN Become(t, "stopped", 0) /\ UNCHANGED ranNow
       ELSE NextTurn(t)

(* Polling was stopped, or raised.                                         *)
BotEnds ==
    /\ at["bot"] = "working"
    /\ \E place \in {"returned", "failed"} : Become("bot", place, 0)
    /\ UNCHANGED ranNow
-----------------------------------------------------------------------------
(* The cron jobs are stopped from the last one to the first, the others    *)
(* after them.                                                             *)
StopOrder == Reverse(Crons) \o <<"external", "monitoring", "bot">>

StopsBefore(t, u) ==
    \E i, j \in 1 .. Len(StopOrder) : i < j /\ StopOrder[i] = t /\ StopOrder[j] = u

IsNext(t, tasks) == t \in tasks /\ \A u \in tasks : ~ StopsBefore(u, t)

(* The first of tasks is cancelled, and then awaited.                      *)
Cancel(tasks) ==
    /\ left' = tasks
    /\ \/ tasks = {} /\ UNCHANGED <<at, cancelled>>
       \/ \E t \in tasks :
             /\ IsNext(t, tasks)
             /\ cancelled' = cancelled \cup {t}
             /\ at' = [at EXCEPT ![t] = CASE @ \in {"new", "asleep"} -> "stopped"
                                          [] @ = "working" -> "unwinding"
                                          [] OTHER -> @]
    /\ UNCHANGED <<enabled, schedule, clock, timer, ranNow>>

(* Mutant: tasks that were never started are awaited, too.                 *)
Shutdown_All == serving /\ serving' = FALSE /\ Cancel(Task)

Shutdown == serving /\ serving' = FALSE /\ Cancel(enabled)

(* Mutant: the app stops its own tasks only if the jobs stopped well.      *)
Rest_AllSkipped(t) == IF at[t] = "failed" THEN {} ELSE left \ {t}

(* A task that has failed raises its error again where it is awaited: the  *)
(* cron jobs after it are skipped, or what the app has left of its own.    *)
Rest(t) ==
    IF at[t] # "failed" THEN left \ {t}
    ELSE IF t \in Cron THEN left \ Cron ELSE {}

Stopped ==
    /\ \E t \in left : IsNext(t, left) /\ at[t] \in Over /\ Cancel(Rest(t))
    /\ UNCHANGED serving
-----------------------------------------------------------------------------
Sleeping == {t \in Loop : at[t] \in {"asleep", "working"}}

Tick ==
    /\ \A t \in Task : at[t] # "new"
    /\ \A t \in Sleeping : timer[t] > 0
    /\ clock' = (clock + 1) % (Calendar * PerMinute)
    /\ timer' = [t \in Task |-> IF t \in Sleeping THEN timer[t] - 1 ELSE timer[t]]
    /\ ranNow' = IF Minute' = Minute THEN ranNow ELSE {}
    /\ UNCHANGED <<enabled, schedule, at, cancelled, serving, left>>

TaskRuns(t) ==
    \/ StartLoop(t) \/ Begin(t) \/ End(t) \/ Expire(t)
    \/ StartFails(t) \/ Unwound(t)
    \/ t = "bot" /\ (StartBot \/ BotEnds)

(* Once all is stopped the process ends, and takes with it what is left.   *)
Alive == serving \/ left # {}

Next == Alive /\ ((\E t \in enabled : TaskRuns(t)) \/ Shutdown \/ Stopped \/ Tick)

Spec == Init /\ [][Next]_vars

(* The event loop runs what is ready, time passes, and clean-up ends.  An  *)
(* iteration may hang, and no one needs to stop the server.                *)
Ready(t) ==
    \/ StartLoop(t) \/ Begin(t) \/ Expire(t)
    \/ StartFails(t) \/ Unwound(t)
    \/ t = "bot" /\ StartBot

FairSpec ==
    /\ Spec
    /\ WF_vars(Alive /\ Tick) /\ WF_vars(Stopped)
    /\ \A t \in Task : WF_vars(Alive /\ Ready(t))
-----------------------------------------------------------------------------
Longest == Max({Interval, Timeout, Year * PerMinute})

(* The values the variables range over.  While tasks are being stopped,    *)
(* the one that is awaited was told so.                                    *)
TypeOK ==
    /\ enabled \subseteq Task
    /\ schedule \in [Cron -> Schedules]
    /\ clock \in 0 .. (Calendar * PerMinute) - 1
    /\ at \in [Task -> Over \cup {"off", "new", "asleep", "working", "unwinding"}]
    /\ \A t \in Task : at[t] = "off" <=> t \notin enabled
    /\ timer \in [Task -> 0 .. Longest]
    /\ cancelled \subseteq enabled
    /\ serving \in BOOLEAN
    /\ left \subseteq enabled /\ \A t \in left : IsNext(t, left) => t \in cancelled
    /\ ranNow \subseteq Cron

(* A schedule that has a match within a year of any minute.                *)
Recurs(t) ==
    \A m \in Minutes : \E k \in 1 .. Year : (m + k) % Calendar \in schedule[t]

(* Only a cancellation stops a loop that has begun, whatever its           *)
(* iterations do (run_iterations_forever); excepted are schedules that at  *)
(* some time have no match within a year.                                  *)
LoopsOnlyStopWhenTold ==
    \A t \in Loop :
        /\ at[t] = "stopped" => t \in cancelled
        /\ at[t] = "failed" => t = "monitoring" \/ (t \in Cron /\ ~ Recurs(t))
        /\ at[t] # "returned"

(* An iteration of a cron job begins in a minute of its schedule, and no   *)
(* minute sees two (next_cron_time).                                       *)
RunsBySchedule ==
    [][\A t \in Cron : at[t] = "asleep" /\ at'[t] = "working" =>
          Minute \in schedule[t] /\ t \notin ranNow]_vars

(* No minute of the schedule passes a sleeping job by: the minute begins,  *)
(* and the job is due, or still at work (next_cron_time).                  *)
NoRunMissed ==
    [][\A t \in Cron :
          Minute' # Minute /\ Minute' \in schedule[t] /\ at'[t] = "asleep"
          => timer'[t] = 0]_vars

(* When the server has stopped, every task is over, but for those that     *)
(* the error of an earlier one has skipped: a cron job skips cron jobs     *)
(* registered before it, monitoring skips the bot (run_registered_cron_    *)
(* jobs, lifespan).                                                        *)
NothingLeftRunning ==
    ~ serving /\ left = {} =>
        \A t \in enabled : at[t] \in Over
            \/ \E f \in enabled :
                  /\ at[f] = "failed"
                  /\ f \in Cron <=> t \in Cron
                  /\ f \in cancelled /\ t \notin cancelled

(* A shutdown ends, even if it begins while iterations hang or are being   *)
(* cancelled by their own timeout (lifespan).                              *)
ShutdownEnds == ~ serving ~> left = {}

(* While the server runs, every loop begins an iteration again and again,  *)
(* though iterations fail and hang (run_iterations_forever).               *)
IterationsRecur ==
    \A t \in Loop :
        \/ <>(~ serving)
        \/ <>(t \notin enabled \/ at[t] = "failed")
        \/ []<>(at[t] = "working") /\ []<>(at[t] = "asleep")
=============================================================================
