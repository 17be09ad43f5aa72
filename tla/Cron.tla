-------------------------------- MODULE Cron --------------------------------
(***************************************************************************)
(* The cron of src/src/cron.scm: cron-start spawns a daemon thread that    *)
(* sleeps to the next minute, calls every job of crontab that is due, one  *)
(* after the other, and sleeps again while cron-state is running.  The     *)
(* state and the crontab are plain globals: cron-start, cron-stop and      *)
(* cron-add test or read them in one step and act in another.              *)
(*                                                                         *)
(* Time is counted in minutes; an hour has HourLen of them.  Jobs are      *)
(* application code: a job may fail, which the daemon catches, and may     *)
(* still be running when the minute ends.  A signal may end a nap, even    *)
(* after the minute began and before the tenth of a second that snooze     *)
(* adds is over.                                                           *)
(***************************************************************************)
EXTENDS Naturals, Sequences, FiniteSets, SequencesExt

CONSTANTS
  Users,         \* threads that call cron-add, cron-start, ...
  Jobs,          \* each is added at most once
  Hour, Minute,  \* Jobs -> when it is due; NULL: the empty list, any
  HourLen,
  MaxStarts,     \* BOUND: daemons spawned
  MaxCalls,      \* BOUND: calls of cron-start, cron-stop and cron-clear
  MaxMinute,     \* BOUND: minutes told apart; this one stands for the rest
  NULL

Daemons == 1 .. MaxStarts
Observed == 0 .. MaxMinute - 1

ASSUME ConstantsOK ==
  /\ HourLen \in Nat \ {0} /\ MaxStarts \in Nat /\ MaxCalls \in Nat
  /\ MaxMinute \in Nat \ {0}
  /\ Hour \in [Jobs -> Nat \cup {NULL}] /\ Minute \in [Jobs -> Nat \cup {NULL}]

VARIABLES
  crontab, cron_state,
  minute,             \* the wall clock
  nstarts, dpc, jobs, now,   \* daemons spawned; each: where, runjobs' list
  upc, newtab,        \* each user thread: where, the crontab it will store
  ncalls, added,
  calls,              \* history: how often a job was called for a minute
  since,              \* history: the minute each job entered the crontab
  up,                 \* history: the minute the daemon started
  raced,              \* history: two calls of cron-start, or of cron-stop,
                      \* have overlapped
  upset               \* history: a job has overrun its minute, or a signal
                      \* has come within a tenth of a second after one began

tabVars  == <<crontab, cron_state>>
daemVars == <<nstarts, dpc, jobs, now>>
userVars == <<upc, newtab, ncalls, added>>
histVars == <<calls, since, up, raced, upset>>
vars == <<tabVars, minute, daemVars, userVars, histVars>>

DaemonStates == {"none", "born", "loop", "nap", "due", "run", "job", "exit"}

TypeOK ==
  /\ crontab \in Seq(Jobs) /\ cron_state \in {"stopped", "running", "stopping"}
  /\ minute \in 0 .. MaxMinute
  /\ nstarts \in 0 .. MaxStarts
  /\ dpc \in [Daemons -> DaemonStates]
  /\ \A d \in Daemons : d > nstarts => dpc[d] = "none"
  /\ jobs \in [Daemons -> Seq(Jobs)] /\ now \in [Daemons -> 0 .. MaxMinute]
  /\ upc \in [Users -> {"idle", "spawn", "stop", "store"}]
  /\ newtab \in [Users -> Seq(Jobs)]
  /\ ncalls \in 0 .. MaxCalls /\ added \subseteq Jobs
  /\ calls \in [Jobs -> [Observed -> Nat]]
  /\ since \in [Jobs -> 0 .. MaxMinute] /\ up \in 0 .. MaxMinute
  /\ raced \in BOOLEAN /\ upset \in BOOLEAN

Init ==
  /\ crontab = <<>> /\ cron_state = "stopped" /\ minute = 0
  /\ nstarts = 0 /\ dpc = [d \in Daemons |-> "none"]
  /\ jobs = [d \in Daemons |-> <<>>] /\ now = [d \in Daemons |-> 0]
  /\ upc = [u \in Users |-> "idle"] /\ newtab = [u \in Users |-> <<>>]
  /\ ncalls = 0 /\ added = {}
  /\ calls = [j \in Jobs |-> [m \in Observed |-> 0]]
  /\ since = [j \in Jobs |-> 0] /\ up = 0 /\ raced = FALSE /\ upset = FALSE

running == cron_state = "running"
Alive == {d \in Daemons : dpc[d] # "none"}

-----------------------------------------------------------------------------
(* The user's calls.                                                       *)
Call(u) ==
  /\ upc[u] = "idle" /\ ncalls < MaxCalls
  /\ ncalls' = ncalls + 1

(* cron-start goes on only from 'stopped; the mutant from anything but     *)
(* 'running.                                                               *)
MayStartIfNotRunning == ~running
MayStart == cron_state = "stopped"

cron_start(u) ==
  /\ Call(u) /\ MayStart
  /\ upc' = [upc EXCEPT ![u] = "spawn"]
  /\ raced' = (raced \/ (\E v \in Users : upc[v] = "spawn")
                     \/ (\E d \in Daemons : dpc[d] = "born"))
  /\ UNCHANGED <<tabVars, minute, daemVars, newtab, added, calls, since, up,
                 upset>>

(* call-with-new-thread.                                                   *)
Spawn(u) ==
  /\ upc[u] = "spawn" /\ nstarts < MaxStarts
  /\ nstarts' = nstarts + 1
  /\ dpc' = [dpc EXCEPT ![nstarts + 1] = "born"]
  /\ upc' = [upc EXCEPT ![u] = "idle"]
  /\ UNCHANGED <<tabVars, minute, jobs, now, newtab, ncalls, added, histVars>>

cron_stop(u) ==
  /\ Call(u) /\ running
  /\ upc' = [upc EXCEPT ![u] = "stop"]
  /\ raced' = (raced \/ \E v \in Users : upc[v] = "stop")
  /\ UNCHANGED <<tabVars, minute, daemVars, newtab, added, calls, since, up,
                 upset>>

SetStopping(u) ==
  /\ upc[u] = "stop"
  /\ cron_state' = "stopping"
  /\ upc' = [upc EXCEPT ![u] = "idle"]
  /\ UNCHANGED <<crontab, minute, daemVars, newtab, ncalls, added, histVars>>

cron_clear(u) ==
  /\ Call(u)
  /\ crontab' = <<>>
  /\ UNCHANGED <<cron_state, minute, daemVars, upc, newtab, added, histVars>>

(* cron-add: (cons entry crontab), then set!.                              *)
cron_add(u, j) ==
  /\ upc[u] = "idle" /\ j \notin added
  /\ added' = added \cup {j}
  /\ newtab' = [newtab EXCEPT ![u] = <<j>> \o crontab]
  /\ upc' = [upc EXCEPT ![u] = "store"]
  /\ UNCHANGED <<tabVars, minute, daemVars, ncalls, histVars>>

StoreTab(u) ==
  /\ upc[u] = "store"
  /\ crontab' = newtab[u]
  /\ since' = [j \in Jobs |-> IF Contains(newtab[u], j) /\ ~Contains(crontab, j)
                                THEN minute ELSE since[j]]
  /\ newtab' = [newtab EXCEPT ![u] = <<>>]
  /\ upc' = [upc EXCEPT ![u] = "idle"]
  /\ UNCHANGED <<cron_state, minute, daemVars, ncalls, added, calls, up, raced,
                 upset>>

-----------------------------------------------------------------------------
(* crond.                                                                  *)
SetRunning(d) ==
  /\ dpc[d] = "born"
  /\ cron_state' = "running"
  /\ dpc' = [dpc EXCEPT ![d] = "loop"]
  /\ up' = minute
  /\ UNCHANGED <<crontab, minute, nstarts, jobs, now, userVars, calls, since,
                 raced, upset>>

(* (snooze (- 60.1 (time-sec (time-now)))): until the minute has ended.    *)
(* The mutant wakes before that.                                           *)
NapTooShort == "due"
NapToMinute == "nap"

Loop(d) ==
  /\ dpc[d] = "loop" /\ running
  /\ dpc' = [dpc EXCEPT ![d] = NapToMinute]
  /\ UNCHANGED <<tabVars, minute, nstarts, jobs, now, userVars, histVars>>

(* nanosleep is interrupted: snooze gives #f and the loop starts again.    *)
Interrupted(d) ==
  /\ dpc[d] \in {"nap", "due"}
  /\ dpc' = [dpc EXCEPT ![d] = "loop"]
  /\ upset' = (upset \/ dpc[d] = "due")
  /\ UNCHANGED <<tabVars, minute, nstarts, jobs, now, userVars, calls, since,
                 up, raced>>

(* The nap is over: runjobs on the crontab of this moment, if running.     *)
Wake(d) ==
  /\ dpc[d] = "due"
  /\ IF running
       THEN /\ dpc' = [dpc EXCEPT ![d] = "run"]
            /\ jobs' = [jobs EXCEPT ![d] = crontab]
            /\ now' = [now EXCEPT ![d] = minute]
       ELSE /\ dpc' = [dpc EXCEPT ![d] = "loop"]
            /\ UNCHANGED <<jobs, now>>
  /\ UNCHANGED <<tabVars, minute, nstarts, userVars, histVars>>

(* The empty list means any.                                               *)
check_trigger(trigger, part) == trigger \in {NULL, part}

Due(j, m) == /\ check_trigger(Hour[j], m \div HourLen)
             /\ check_trigger(Minute[j], m % HourLen)

runjob(d) ==
  LET j == Head(jobs[d]) IN
  /\ dpc[d] = "run" /\ jobs[d] # <<>>
  /\ IF Due(j, now[d])
       THEN /\ dpc' = [dpc EXCEPT ![d] = "job"]
            /\ calls' = IF now[d] \in Observed
                          THEN [calls EXCEPT ![j][now[d]] = @ + 1] ELSE calls
            /\ UNCHANGED jobs
       ELSE /\ jobs' = [jobs EXCEPT ![d] = Tail(@)]
            /\ UNCHANGED <<dpc, calls>>
  /\ UNCHANGED <<tabVars, minute, nstarts, now, userVars, since, up, raced,
                 upset>>

(* The job returns, or throws and is caught, and for-each goes on; in the  *)
(* mutant the first call ends the list.                                    *)
NoMoreJobs(s) == <<>>
NextJob(s) == Tail(s)

JobEnds(d) ==
  /\ dpc[d] = "job"
  /\ jobs' = [jobs EXCEPT ![d] = NextJob(@)]
  /\ dpc' = [dpc EXCEPT ![d] = "run"]
  /\ UNCHANGED <<tabVars, minute, nstarts, now, userVars, histVars>>

RunEnds(d) ==
  /\ dpc[d] = "run" /\ jobs[d] = <<>>
  /\ dpc' = [dpc EXCEPT ![d] = "loop"]
  /\ UNCHANGED <<tabVars, minute, nstarts, jobs, now, userVars, histVars>>

LoopEnds(d) ==
  /\ dpc[d] = "loop" /\ ~running
  /\ dpc' = [dpc EXCEPT ![d] = "exit"]
  /\ UNCHANGED <<tabVars, minute, nstarts, jobs, now, userVars, histVars>>

(* (set! cron-state 'stopped) as the thread ends; the mutant leaves it.    *)
leave_state == UNCHANGED cron_state
set_stopped == cron_state' = "stopped"

Exit(d) ==
  /\ dpc[d] = "exit"
  /\ set_stopped
  /\ dpc' = [dpc EXCEPT ![d] = "none"]
  /\ UNCHANGED <<crontab, minute, nstarts, jobs, now, userVars, histVars>>

-----------------------------------------------------------------------------
(* A minute ends.  The daemon's own steps are quick: only a nap, or a job  *)
(* that overruns, lasts to the end of the minute.                          *)
Tick ==
  /\ \A d \in Daemons : dpc[d] \in {"none", "born", "nap", "exit", "job"}
  /\ minute' = IF minute < MaxMinute THEN minute + 1 ELSE minute
  /\ dpc' = [d \in Daemons |-> IF dpc[d] = "nap" THEN "due" ELSE dpc[d]]
  /\ upset' = (upset \/ \E d \in Daemons : dpc[d] = "job")
  /\ UNCHANGED <<tabVars, nstarts, jobs, now, userVars, calls, since, up,
                 raced>>

Begin(u) == \/ cron_start(u) \/ cron_stop(u) \/ cron_clear(u)
            \/ \E j \in Jobs : cron_add(u, j)
Finish(u) == Spawn(u) \/ SetStopping(u) \/ StoreTab(u)

Undisturbed(d) == \/ SetRunning(d) \/ Loop(d) \/ Wake(d) \/ runjob(d)
                  \/ JobEnds(d) \/ RunEnds(d) \/ LoopEnds(d) \/ Exit(d)
crond(d) == Undisturbed(d) \/ Interrupted(d)

Next == \/ \E u \in Users : Begin(u) \/ Finish(u)
        \/ \E d \in Daemons : crond(d)
        \/ Tick

(* Threads go on, time goes on, and jobs end.                              *)
Fairness == /\ \A u \in Users : WF_vars(Finish(u))
            /\ \A d \in Daemons : WF_vars(Undisturbed(d))
            /\ WF_vars(Tick)

Spec == Init /\ [][Next]_vars /\ Fairness

-----------------------------------------------------------------------------
(* Properties.                                                             *)

(* As long as no two calls of cron-start or of cron-stop overlap, at most  *)
(* one daemon lives, across any sequence of stops and restarts.  All       *)
(* variables have their types.                                             *)
OneDaemon == TypeOK /\ (raced \/ Cardinality(Alive) <= 1)

(* Then no job is called twice for the same minute, however the naps are   *)
(* interrupted, the crontab edited or the cron restarted.                  *)
OncePerMinute ==
  raced \/ \A j \in Jobs, m \in Observed : calls[j][m] <= 1

(* The comment on runjob: "call job at appointed hour and minute".  A job  *)
(* that has been in the crontab since before a minute at which it is due,  *)
(* under a daemon that has run since before it, has been called for that   *)
(* minute by its end, as long as no job overran its minute, which makes    *)
(* the daemon sleep over the following ones, and no signal came in the     *)
(* instant after a minute began, which makes it sleep over that one.       *)
CalledWhenDue ==
  ~raced /\ ~upset /\ running =>
    \A j \in ToSet(crontab), m \in Observed :
      m < minute /\ since[j] < m /\ up < m /\ Due(j, m) => calls[j][m] = 1

(* cron-stop takes effect: the state leaves 'stopping, from which          *)
(* cron-start would be refused for ever.                                   *)
StopTakesEffect == cron_state = "stopping" ~> (cron_state # "stopping" \/ raced)

=============================================================================
