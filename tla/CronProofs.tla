----------------------------- MODULE CronProofs -----------------------------
(***************************************************************************)
(* Proofs about Cron, for every number of users, daemons, jobs, calls and  *)
(* minutes and every schedule.                                             *)
(***************************************************************************)
EXTENDS Cron, ListFacts, FiniteSetTheorems, TLAPS

(* Where a daemon is between setting the state to running and leaving its  *)
(* loop.                                                                   *)
Working == {"loop", "nap", "due", "run", "job"}

(* What cron-state says about the daemon and about the calls in progress:  *)
(* with it, at most one daemon lives.                                      *)
OneLife ==
  ~raced =>
    /\ \A d, e \in Daemons : dpc[d] # "none" /\ dpc[e] # "none" => d = e
    /\ \A d \in Daemons :
         /\ dpc[d] = "born" => cron_state = "stopped"
         /\ dpc[d] \in Working => cron_state # "stopped"
         /\ dpc[d] = "exit" => cron_state = "stopping"
    /\ \A u, v \in Users :
         upc[u] = upc[v] /\ upc[u] \in {"spawn", "stop"} => u = v
    /\ \A u \in Users :
         /\ upc[u] = "spawn" =>
              cron_state = "stopped" /\ \A d \in Daemons : dpc[d] = "none"
         /\ upc[u] = "stop" => running
    /\ running => \E d \in Daemons : dpc[d] \in Working

(* The tables hold a job once: it is added once, however stores overlap.   *)
Tabs ==
  /\ IsInjective(crontab) /\ ToSet(crontab) \subseteq added
  /\ \A u \in Users : IsInjective(newtab[u]) /\ ToSet(newtab[u]) \subseteq added
  /\ \A d \in Daemons : IsInjective(jobs[d])
  /\ \A d \in Daemons : dpc[d] = "job" => jobs[d] # <<>>

(* No job has been called for a minute to come.                            *)
FutureBlank ==
  /\ \A j \in Jobs, m \in Observed : m > minute => calls[j][m] = 0
  /\ \A d \in Daemons : now[d] <= minute

(* None has been called for the minute a daemon wakes up in, and those     *)
(* left on its list not for the minute it works for.                       *)
RunsOnce ==
  ~raced =>
    \A d \in Daemons :
      /\ dpc[d] = "due" /\ minute \in Observed =>
           \A j \in Jobs : calls[j][minute] = 0
      /\ dpc[d] \in {"run", "job"} /\ now[d] \in Observed =>
           \A i \in 1 .. Len(jobs[d]) :
             dpc[d] = "run" \/ i > 1 => calls[jobs[d][i]][now[d]] = 0

(* Every job that was in the table before the minute has been called for   *)
(* it when the minute is over or the daemon done with it, and is on the    *)
(* daemon's list before that.                                              *)
Expected(j, m) == since[j] < m /\ up < m /\ Due(j, m)

RunsAll ==
  ~raced /\ ~upset /\ running =>
    /\ \A d \in Daemons : dpc[d] \in {"run", "job"} => now[d] = minute
    /\ \A j \in ToSet(crontab), m \in Observed : Expected(j, m) =>
         /\ m < minute => calls[j][m] = 1
         /\ m = minute => \A d \in Daemons :
              /\ dpc[d] \in {"loop", "nap"} => calls[j][m] = 1
              /\ dpc[d] = "run" =>
                   calls[j][m] = 1 \/ \E i \in 1 .. Len(jobs[d]) : jobs[d][i] = j
              /\ dpc[d] = "job" =>
                   calls[j][m] = 1 \/ \E i \in 2 .. Len(jobs[d]) : jobs[d][i] = j

-----------------------------------------------------------------------------
(* A step's call of one job more.                                          *)
LEMMA CallCounted ==
  ASSUME TypeOK, NEW d \in Daemons, runjob(d), Due(Head(jobs[d]), now[d])
  PROVE  /\ Head(jobs[d]) \in Jobs
         /\ calls' \in [Jobs -> [Observed -> Nat]]
         /\ now[d] \notin Observed => calls' = calls
         /\ \A j \in Jobs, m \in Observed :
              calls'[j][m] = IF j = Head(jobs[d]) /\ m = now[d]
                               THEN calls[j][m] + 1 ELSE calls[j][m]
<1>1. Head(jobs[d]) \in Jobs
  BY DEF TypeOK, runjob
<1>2. CASE now[d] \in Observed
  <2>1. calls' = [calls EXCEPT ![Head(jobs[d])] =
                    [calls[Head(jobs[d])] EXCEPT ![now[d]] =
                       calls[Head(jobs[d])][now[d]] + 1]]
    BY <1>1, <1>2 DEF runjob, TypeOK
  <2>2. QED
    BY <1>1, <1>2, <2>1 DEF TypeOK
<1>3. CASE now[d] \notin Observed
  BY <1>1, <1>3 DEF runjob, TypeOK
<1>4. QED
  BY <1>2, <1>3

(* Every action of the cron keeps the types of its variables.              *)
LEMMA TypeStep ==
  ASSUME TypeOK, Tabs, [Next]_vars
  PROVE  TypeOK'
<1> USE ConstantsOK DEF TypeOK, DaemonStates
<1>1. CASE UNCHANGED vars
  BY <1>1 DEF vars, tabVars, daemVars, userVars, histVars
<1>2. ASSUME NEW u \in Users, cron_start(u) \/ cron_stop(u) PROVE TypeOK'
  <2>1. /\ UNCHANGED <<crontab, cron_state, minute, nstarts, dpc, jobs, now,
                       newtab, added, calls, since, up, upset>>
        /\ ncalls < MaxCalls /\ ncalls' = ncalls + 1
    BY <1>2 DEF cron_start, cron_stop, Call, tabVars, daemVars
  <2>2. raced' \in BOOLEAN
    BY <1>2 DEF cron_start, cron_stop
  <2>3. upc' \in [Users -> {"idle", "spawn", "stop", "store"}]
    BY <1>2 DEF cron_start, cron_stop
  <2>4. ncalls' \in 0 .. MaxCalls
    BY <2>1
  <2>5. QED
    BY <2>1, <2>2, <2>3, <2>4
<1>3. ASSUME NEW u \in Users, cron_clear(u) PROVE TypeOK'
  BY <1>3 DEF cron_clear, Call, daemVars, histVars
<1>4. ASSUME NEW u \in Users, NEW j \in Jobs, cron_add(u, j) PROVE TypeOK'
  BY <1>4 DEF cron_add, tabVars, daemVars, histVars
<1>5. ASSUME NEW u \in Users, Spawn(u) PROVE TypeOK'
  BY <1>5 DEF Spawn, tabVars, histVars, Daemons
<1>6. ASSUME NEW u \in Users, SetStopping(u) PROVE TypeOK'
  BY <1>6 DEF SetStopping, daemVars, histVars
<1>7. ASSUME NEW u \in Users, StoreTab(u) PROVE TypeOK'
  BY <1>7 DEF StoreTab, daemVars
<1>8. ASSUME NEW d \in Daemons, SetRunning(d) PROVE TypeOK'
  BY <1>8 DEF SetRunning, userVars
<1>9. ASSUME NEW d \in Daemons, Loop(d) \/ RunEnds(d) \/ LoopEnds(d) PROVE TypeOK'
  BY <1>9 DEF Loop, RunEnds, LoopEnds, NapToMinute, tabVars, userVars, histVars
<1>10. ASSUME NEW d \in Daemons, Interrupted(d) PROVE TypeOK'
  BY <1>10 DEF Interrupted, tabVars, userVars
<1>11. ASSUME NEW d \in Daemons, Wake(d) PROVE TypeOK'
  BY <1>11 DEF Wake, tabVars, userVars, histVars
<1>12. ASSUME NEW d \in Daemons, runjob(d) PROVE TypeOK'
  <2>1. /\ UNCHANGED <<crontab, cron_state, minute, nstarts, now, upc, newtab,
                       ncalls, added, since, up, raced, upset>>
        /\ jobs[d] # <<>> /\ dpc[d] = "run"
    BY <1>12 DEF runjob, tabVars, userVars
  <2>2. CASE Due(Head(jobs[d]), now[d])
    <3>1. dpc' = [dpc EXCEPT ![d] = "job"] /\ jobs' = jobs
      BY <1>12, <2>2 DEF runjob
    <3>2. calls' \in [Jobs -> [Observed -> Nat]]
      BY <1>12, <2>2, CallCounted
    <3>3. QED
      BY <2>1, <3>1, <3>2
  <2>3. CASE ~Due(Head(jobs[d]), now[d])
    <3>1. jobs' = [jobs EXCEPT ![d] = Tail(jobs[d])] /\ dpc' = dpc /\ calls' = calls
      BY <1>12, <2>3 DEF runjob
    <3>2. jobs' \in [Daemons -> Seq(Jobs)]
      BY <2>1, <3>1
    <3>3. QED
      BY <2>1, <3>1, <3>2
  <2>4. QED
    BY <2>2, <2>3
<1>13. ASSUME NEW d \in Daemons, JobEnds(d) PROVE TypeOK'
  <2>1. /\ UNCHANGED <<crontab, cron_state, minute, nstarts, now, upc, newtab,
                       ncalls, added, calls, since, up, raced, upset>>
        /\ jobs[d] # <<>> /\ jobs' = [jobs EXCEPT ![d] = Tail(jobs[d])]
        /\ dpc' = [dpc EXCEPT ![d] = "run"] /\ dpc[d] = "job"
    BY <1>13 DEF Tabs, JobEnds, NextJob, tabVars, userVars, histVars
  <2>2. jobs' \in [Daemons -> Seq(Jobs)]
    BY <2>1
  <2>3. QED
    BY <2>1, <2>2
<1>14. ASSUME NEW d \in Daemons, Exit(d) PROVE TypeOK'
  BY <1>14 DEF Exit, set_stopped, userVars, histVars
<1>15. CASE Tick
  BY <1>15 DEF Tick, tabVars, userVars
<1>16. QED
  BY <1>1, <1>2, <1>3, <1>4, <1>5, <1>6, <1>7, <1>8, <1>9, <1>10, <1>11, <1>12,
     <1>13, <1>14, <1>15
  DEF Next, Begin, Finish, crond, Undisturbed

-----------------------------------------------------------------------------
(* One daemon: what each call and each of crond's steps does to the state, *)
(* the daemons and the callers.                                            *)
LEMMA LifeStep ==
  ASSUME TypeOK, OneLife, [Next]_vars
  PROVE  OneLife'
<1> SUFFICES ASSUME ~raced' PROVE OneLife'
  BY DEF OneLife
<1> USE DEF Working, running
<1>0. ~raced
  BY DEF Next, Begin, Finish, crond, Undisturbed, vars, histVars, cron_start, cron_stop,
     cron_clear, cron_add, Spawn, SetStopping, StoreTab, SetRunning, Loop, Interrupted,
     Wake, runjob, JobEnds, RunEnds, LoopEnds, Exit, Tick
<1>a. /\ \A d, e \in Daemons : dpc[d] # "none" /\ dpc[e] # "none" => d = e
      /\ \A d \in Daemons :
           /\ dpc[d] = "born" => cron_state = "stopped"
           /\ dpc[d] \in Working => cron_state # "stopped"
           /\ dpc[d] = "exit" => cron_state = "stopping"
      /\ \A u, v \in Users :
           upc[u] = upc[v] /\ upc[u] \in {"spawn", "stop"} => u = v
      /\ \A u \in Users :
           /\ upc[u] = "spawn" =>
                cron_state = "stopped" /\ \A d \in Daemons : dpc[d] = "none"
           /\ upc[u] = "stop" => running
      /\ running => \E d \in Daemons : dpc[d] \in Working
  BY <1>0 DEF OneLife
<1>b. /\ dpc \in [Daemons -> DaemonStates]
      /\ upc \in [Users -> {"idle", "spawn", "stop", "store"}]
  BY DEF TypeOK
<1>1. CASE UNCHANGED <<cron_state, dpc, upc>>
  BY <1>1, <1>a DEF OneLife
<1>2. CASE UNCHANGED vars
  BY <1>1, <1>2 DEF vars, tabVars, daemVars, userVars
<1>3. ASSUME NEW u \in Users, cron_start(u) PROVE OneLife'
  <2>1. /\ cron_state = "stopped" /\ UNCHANGED <<cron_state, dpc>>
        /\ upc' = [upc EXCEPT ![u] = "spawn"]
        /\ \A v \in Users : upc[v] # "spawn"
        /\ \A d \in Daemons : dpc[d] # "born"
    BY <1>3 DEF cron_start, MayStart, tabVars, daemVars
  <2>2. \A d \in Daemons : dpc[d] = "none"
    BY <1>a, <1>b, <2>1 DEF DaemonStates
  <2>3. QED
    BY <1>a, <1>b, <2>1, <2>2 DEF OneLife
<1>4. ASSUME NEW u \in Users, cron_stop(u) PROVE OneLife'
  <2>1. /\ running /\ UNCHANGED <<cron_state, dpc>>
        /\ upc' = [upc EXCEPT ![u] = "stop"]
        /\ \A v \in Users : upc[v] # "stop"
    BY <1>4 DEF cron_stop, tabVars, daemVars
  <2>2. QED
    BY <1>a, <1>b, <2>1 DEF OneLife
<1>5. ASSUME NEW u \in Users, cron_clear(u) PROVE OneLife'
  BY <1>1, <1>5 DEF cron_clear, daemVars
<1>6. ASSUME NEW u \in Users, NEW j \in Jobs, cron_add(u, j) PROVE OneLife'
  BY <1>6, <1>a, <1>b DEF cron_add, tabVars, daemVars, OneLife
<1>7. ASSUME NEW u \in Users, Spawn(u) PROVE OneLife'
  <2>1. /\ upc[u] = "spawn" /\ upc' = [upc EXCEPT ![u] = "idle"]
        /\ cron_state = "stopped" /\ cron_state' = "stopped"
        /\ \A d \in Daemons : dpc[d] = "none"
        /\ nstarts + 1 \in Daemons /\ dpc' = [dpc EXCEPT ![nstarts + 1] = "born"]
    BY <1>7, <1>a, ConstantsOK DEF Spawn, tabVars, TypeOK, Daemons
  <2>2. \A v \in Users : upc'[v] # "spawn" /\ upc'[v] # "stop"
    BY <1>a, <1>b, <2>1
  <2>3. \A d \in Daemons : dpc'[d] = IF d = nstarts + 1 THEN "born" ELSE "none"
    BY <1>b, <2>1
  <2>4. QED
    BY <2>1, <2>2, <2>3 DEF OneLife
<1>8. ASSUME NEW u \in Users, SetStopping(u) PROVE OneLife'
  <2>1. /\ upc[u] = "stop" /\ upc' = [upc EXCEPT ![u] = "idle"] /\ dpc' = dpc
        /\ cron_state = "running" /\ cron_state' = "stopping"
    BY <1>8, <1>a DEF SetStopping, daemVars
  <2>2. \A v \in Users : upc'[v] # "spawn" /\ upc'[v] # "stop"
    BY <1>a, <1>b, <2>1
  <2>3. QED
    BY <1>a, <2>1, <2>2 DEF OneLife
<1>9. ASSUME NEW u \in Users, StoreTab(u) PROVE OneLife'
  BY <1>9, <1>a, <1>b DEF StoreTab, daemVars, OneLife
<1>10. ASSUME NEW d \in Daemons, SetRunning(d) PROVE OneLife'
  <2>1. /\ dpc[d] = "born" /\ dpc' = [dpc EXCEPT ![d] = "loop"] /\ upc' = upc
        /\ cron_state = "stopped" /\ cron_state' = "running"
    BY <1>10, <1>a DEF SetRunning, userVars
  <2>2. \A u \in Users : upc[u] # "spawn" /\ upc[u] # "stop"
    BY <1>a, <2>1
  <2>3. QED
    BY <1>a, <1>b, <2>1, <2>2 DEF OneLife
<1>11. ASSUME NEW d \in Daemons, UNCHANGED <<cron_state, upc>>,
              dpc[d] \in Working, NEW at \in Working, dpc' = [dpc EXCEPT ![d] = at]
       PROVE  OneLife'
  BY <1>11, <1>a, <1>b DEF OneLife
<1>12. ASSUME NEW d \in Daemons, Loop(d) \/ Interrupted(d) \/ RunEnds(d) \/ JobEnds(d)
       PROVE  OneLife'
  BY <1>11, <1>12 DEF Loop, Interrupted, RunEnds, JobEnds, NapToMinute, tabVars, userVars
<1>13. ASSUME NEW d \in Daemons, Wake(d) PROVE OneLife'
  BY <1>11, <1>13 DEF Wake, tabVars, userVars
<1>14. ASSUME NEW d \in Daemons, runjob(d) PROVE OneLife'
  <2>1. UNCHANGED <<cron_state, upc>> /\ dpc[d] = "run"
        /\ (dpc' = dpc \/ dpc' = [dpc EXCEPT ![d] = "job"])
    BY <1>14 DEF runjob, tabVars, userVars
  <2>2. QED
    BY <1>1, <1>11, <2>1
<1>15. ASSUME NEW d \in Daemons, LoopEnds(d) PROVE OneLife'
  <2>1. /\ dpc[d] = "loop" /\ dpc' = [dpc EXCEPT ![d] = "exit"]
        /\ UNCHANGED <<cron_state, upc>> /\ cron_state = "stopping"
    BY <1>15, <1>a DEF LoopEnds, tabVars, userVars, TypeOK
  <2>2. QED
    BY <1>a, <1>b, <2>1 DEF OneLife
<1>16. ASSUME NEW d \in Daemons, Exit(d) PROVE OneLife'
  <2>1. /\ dpc[d] = "exit" /\ dpc' = [dpc EXCEPT ![d] = "none"] /\ upc' = upc
        /\ cron_state = "stopping" /\ cron_state' = "stopped"
    BY <1>16, <1>a DEF Exit, set_stopped, userVars
  <2>2. \A e \in Daemons : dpc'[e] = "none"
    BY <1>a, <1>b, <2>1
  <2>3. \A u \in Users : upc[u] # "spawn" /\ upc[u] # "stop"
    BY <1>a, <2>1
  <2>4. QED
    BY <2>1, <2>2, <2>3 DEF OneLife
<1>17. CASE Tick
  <2>1. /\ UNCHANGED <<cron_state, upc>>
        /\ \A d \in Daemons : dpc'[d] = IF dpc[d] = "nap" THEN "due" ELSE dpc[d]
    BY <1>17 DEF Tick, tabVars, userVars
  <2>2. \A d \in Daemons :
          /\ dpc'[d] = "none" <=> dpc[d] = "none"
          /\ dpc'[d] = "born" <=> dpc[d] = "born"
          /\ dpc'[d] = "exit" <=> dpc[d] = "exit"
          /\ dpc'[d] \in Working <=> dpc[d] \in Working
    BY <2>1
  <2>3. QED
    BY <1>a, <2>1, <2>2 DEF OneLife
<1>18. QED
  BY <1>2, <1>3, <1>4, <1>5, <1>6, <1>7, <1>8, <1>9, <1>10, <1>12, <1>13, <1>14, <1>15,
     <1>16, <1>17
  DEF Next, Begin, Finish, crond, Undisturbed

-----------------------------------------------------------------------------
(* Tables: what cons and cdr do to a list without repetitions.             *)
LEMMA InTable ==
  ASSUME NEW s \in Seq(Jobs)
  PROVE  /\ \A j : j \in ToSet(s) <=> \E i \in 1 .. Len(s) : s[i] = j
         /\ \A j : j \in ToSet(s) <=> Contains(s, j)
         /\ IsInjective(s) <=> \A i, k \in 1 .. Len(s) : s[i] = s[k] => i = k
BY InList

(* A new job in front of a table, and the rest of one.                     *)
LEMMA ConsTable ==
  ASSUME NEW s \in Seq(Jobs), NEW j \in Jobs, IsInjective(s), j \notin ToSet(s)
  PROVE  /\ <<j>> \o s \in Seq(Jobs) /\ IsInjective(<<j>> \o s)
         /\ ToSet(<<j>> \o s) = ToSet(s) \cup {j}
BY ConsList

(* The rest of the table of jobs, as a daemon walks over it.               *)
LEMMA CdrTable ==
  ASSUME NEW s \in Seq(Jobs), s # <<>>
  PROVE  /\ Tail(s) \in Seq(Jobs) /\ Len(Tail(s)) = Len(s) - 1
         /\ Len(s) \in Nat \ {0} /\ Head(s) = s[1]
         /\ \A i \in 1 .. Len(s) - 1 : Tail(s)[i] = s[i + 1]
         /\ IsInjective(s) => IsInjective(Tail(s))
BY CdrList

(* What the daemon's list becomes when a job is done with or not due.      *)
LEMMA JobsStep ==
  ASSUME TypeOK, Tabs, NEW d \in Daemons, jobs[d] # <<>>,
         jobs' = [jobs EXCEPT ![d] = Tail(jobs[d])]
  PROVE  /\ jobs'[d] \in Seq(Jobs) /\ Len(jobs'[d]) = Len(jobs[d]) - 1
         /\ Len(jobs[d]) \in Nat \ {0} /\ Head(jobs[d]) = jobs[d][1]
         /\ \A i \in 1 .. Len(jobs[d]) - 1 : jobs'[d][i] = jobs[d][i + 1]
         /\ IsInjective(jobs'[d])
         /\ \A e \in Daemons : e # d => jobs'[e] = jobs[e]
<1>1. jobs[d] \in Seq(Jobs) /\ IsInjective(jobs[d]) /\ jobs'[d] = Tail(jobs[d])
  BY DEF TypeOK, Tabs
<1>2. QED
  BY <1>1, CdrTable DEF TypeOK

(* No table, and no rest of one that a daemon is running, has a job twice. *)
LEMMA TabsStep ==
  ASSUME TypeOK, Tabs, [Next]_vars
  PROVE  Tabs'
<1>0. /\ crontab \in Seq(Jobs) /\ newtab \in [Users -> Seq(Jobs)] /\ added \subseteq Jobs
      /\ jobs \in [Daemons -> Seq(Jobs)] /\ dpc \in [Daemons -> DaemonStates]
  BY DEF TypeOK
<1>1. CASE UNCHANGED <<crontab, newtab, added, jobs>>
           /\ \A d \in Daemons : dpc'[d] = "job" => jobs[d] # <<>>
  BY <1>1 DEF Tabs
<1>2. CASE UNCHANGED vars
  BY <1>1, <1>2 DEF Tabs, vars, tabVars, daemVars, userVars
<1>3. ASSUME NEW u \in Users, \/ cron_start(u) \/ cron_stop(u) \/ SetStopping(u)
      PROVE  Tabs'
  BY <1>1, <1>3 DEF Tabs, cron_start, cron_stop, SetStopping, tabVars, daemVars
<1>4. ASSUME NEW u \in Users, Spawn(u) PROVE Tabs'
  BY <1>0, <1>1, <1>4 DEF Tabs, Spawn, tabVars
<1>5. ASSUME NEW u \in Users, cron_clear(u) PROVE Tabs'
  <2>1. ToSet(<<>>) = {} /\ IsInjective(<<>>)
    BY DEF ToSet, IsInjective
  <2>2. QED
    BY <1>5, <2>1 DEF Tabs, cron_clear, daemVars
<1>6. ASSUME NEW u \in Users, NEW j \in Jobs, cron_add(u, j) PROVE Tabs'
  <2>1. /\ j \notin added /\ added' = added \cup {j}
        /\ newtab' = [newtab EXCEPT ![u] = <<j>> \o crontab]
        /\ UNCHANGED <<crontab, jobs, dpc>>
    BY <1>6 DEF cron_add, tabVars, daemVars
  <2>2. IsInjective(<<j>> \o crontab) /\ ToSet(<<j>> \o crontab) \subseteq added'
    BY <1>0, <2>1, ConsTable DEF Tabs
  <2>3. ASSUME NEW v \in Users
        PROVE  IsInjective(newtab'[v]) /\ ToSet(newtab'[v]) \subseteq added'
    <3>1. CASE v = u
      BY <1>0, <2>1, <2>2, <3>1
    <3>2. CASE v # u
      BY <1>0, <2>1, <3>2 DEF Tabs
    <3>3. QED
      BY <3>1, <3>2
  <2>4. QED
    BY <2>1, <2>3 DEF Tabs
<1>7. ASSUME NEW u \in Users, StoreTab(u) PROVE Tabs'
  <2>1. ToSet(<<>>) = {} /\ IsInjective(<<>>)
    BY DEF ToSet, IsInjective
  <2>2. /\ crontab' = newtab[u] /\ newtab' = [newtab EXCEPT ![u] = <<>>]
        /\ UNCHANGED <<added, jobs, dpc>>
    BY <1>7 DEF StoreTab, daemVars
  <2>3. ASSUME NEW v \in Users
        PROVE  IsInjective(newtab'[v]) /\ ToSet(newtab'[v]) \subseteq added
    BY <1>0, <2>1, <2>2 DEF Tabs
  <2>4. QED
    BY <2>2, <2>3 DEF Tabs
<1>8. ASSUME NEW d \in Daemons,
             \/ SetRunning(d) \/ Loop(d) \/ Interrupted(d) \/ RunEnds(d)
             \/ LoopEnds(d) \/ Exit(d)
      PROVE  Tabs'
  BY <1>0, <1>1, <1>8 DEF Tabs, SetRunning, Loop, Interrupted, RunEnds, LoopEnds, Exit,
     NapToMinute, tabVars, userVars
<1>9. ASSUME NEW d \in Daemons, Wake(d) PROVE Tabs'
  BY <1>0, <1>9 DEF Tabs, Wake, tabVars, userVars
<1>10. ASSUME NEW d \in Daemons, UNCHANGED <<crontab, newtab, added>>, jobs[d] # <<>>,
              jobs' = [jobs EXCEPT ![d] = Tail(jobs[d])],
              \A e \in Daemons : dpc'[e] = "job" => dpc[e] = "job" /\ e # d
       PROVE  Tabs'
  BY <1>10, JobsStep DEF Tabs
<1>11. ASSUME NEW d \in Daemons, runjob(d) PROVE Tabs'
  <2>1. UNCHANGED <<crontab, newtab, added>> /\ jobs[d] # <<>> /\ dpc[d] = "run"
    BY <1>11 DEF runjob, tabVars, userVars
  <2>2. CASE Due(Head(jobs[d]), now[d])
    BY <1>0, <1>1, <1>11, <2>1, <2>2 DEF Tabs, runjob
  <2>3. CASE ~Due(Head(jobs[d]), now[d])
    BY <1>10, <1>11, <2>1, <2>3 DEF runjob
  <2>4. QED
    BY <2>2, <2>3
<1>12. ASSUME NEW d \in Daemons, JobEnds(d) PROVE Tabs'
  <2>1. /\ UNCHANGED <<crontab, newtab, added>>
        /\ jobs' = [jobs EXCEPT ![d] = Tail(jobs[d])] /\ jobs[d] # <<>>
        /\ dpc' = [dpc EXCEPT ![d] = "run"]
    BY <1>12 DEF Tabs, JobEnds, NextJob, tabVars, userVars
  <2>2. QED
    BY <1>0, <1>10, <2>1
<1>13. CASE Tick
  BY <1>0, <1>1, <1>13 DEF Tabs, Tick, tabVars, userVars
<1>14. QED
  BY <1>2, <1>3, <1>4, <1>5, <1>6, <1>7, <1>8, <1>9, <1>11, <1>12, <1>13
  DEF Next, Begin, Finish, crond, Undisturbed

-----------------------------------------------------------------------------
(* Most steps call nothing and leave the lists and the clock alone.        *)
Still ==
  /\ UNCHANGED <<calls, minute, now, jobs>>
  /\ ~raced' => ~raced
  /\ \A d \in Daemons : dpc'[d] \in {"due", "run", "job"} => dpc'[d] = dpc[d]

(* Only the clock and a daemon that wakes, calls a job or gets it back     *)
(* change what has been called when.                                       *)
LEMMA StillOrNot ==
  ASSUME TypeOK, [Next]_vars
  PROVE  \/ Still \/ Tick
         \/ \E d \in Daemons : Wake(d) \/ runjob(d) \/ JobEnds(d)
<1> USE DEF Still
<1>0. dpc \in [Daemons -> DaemonStates]
  BY DEF TypeOK
<1>1. CASE UNCHANGED vars
  BY <1>1 DEF vars, daemVars, histVars
<1>2. ASSUME NEW u \in Users, Begin(u) PROVE Still
  <2>1. UNCHANGED <<calls, minute, now, jobs, dpc>>
    BY <1>2 DEF Begin, cron_start, cron_stop, cron_clear, cron_add, daemVars, histVars
  <2>2. ~raced' => ~raced
    BY <1>2 DEF Begin, cron_start, cron_stop, cron_clear, cron_add, histVars
  <2>3. QED
    BY <2>1, <2>2
<1>3. ASSUME NEW u \in Users, Finish(u) PROVE Still
  BY <1>0, <1>3 DEF Finish, Spawn, SetStopping, StoreTab, daemVars, histVars
<1>4. ASSUME NEW d \in Daemons, SetRunning(d) \/ Loop(d) \/ Interrupted(d) PROVE Still
  BY <1>0, <1>4 DEF SetRunning, Loop, NapToMinute, Interrupted, histVars
<1>5. ASSUME NEW d \in Daemons, RunEnds(d) \/ LoopEnds(d) \/ Exit(d) PROVE Still
  BY <1>0, <1>5 DEF RunEnds, LoopEnds, Exit, histVars
<1>6. QED
  BY <1>1, <1>2, <1>3, <1>4, <1>5 DEF Next, crond, Undisturbed

CallsInv == FutureBlank /\ RunsOnce /\ OncePerMinute

(* The record of calls stays right: no job twice in a minute.              *)
LEMMA CallsStep ==
  ASSUME TypeOK, OneLife, Tabs, CallsInv, [Next]_vars
  PROVE  CallsInv'
<1> USE DEF CallsInv
<1>0. /\ dpc \in [Daemons -> DaemonStates] /\ jobs \in [Daemons -> Seq(Jobs)]
      /\ now \in [Daemons -> 0 .. MaxMinute] /\ minute \in 0 .. MaxMinute
      /\ calls \in [Jobs -> [Observed -> Nat]] /\ MaxMinute \in Nat \ {0}
      /\ \A m \in Observed : m \in Nat /\ m < MaxMinute
  BY ConstantsOK DEF TypeOK, Observed
<1>a. ~raced => \A d, e \in Daemons : dpc[d] # "none" /\ dpc[e] # "none" => d = e
  BY DEF OneLife
<1>1. CASE Still
  <2>1. FutureBlank' /\ OncePerMinute'
    BY <1>1 DEF Still, FutureBlank, OncePerMinute
  <2>2. RunsOnce'
    BY <1>1 DEF Still, RunsOnce
  <2>3. QED
    BY <2>1, <2>2
<1>2. CASE Tick
  <2>1. /\ UNCHANGED <<calls, now, jobs, raced>>
        /\ minute' = IF minute < MaxMinute THEN minute + 1 ELSE minute
        /\ \A d \in Daemons : dpc'[d] = IF dpc[d] = "nap" THEN "due" ELSE dpc[d]
    BY <1>2 DEF Tick
  <2>2. FutureBlank' /\ OncePerMinute'
    <3>1. minute <= minute' /\ minute' \in Nat
      BY <1>0, <2>1
    <3>2. \A m \in Observed : m > minute' => m > minute
      BY <1>0, <3>1
    <3>3. \A d \in Daemons : now[d] <= minute => now[d] <= minute'
      BY <1>0, <3>1
    <3>4. QED
      BY <2>1, <3>2, <3>3 DEF FutureBlank, OncePerMinute
  <2>3. minute' \in Observed => \A j \in Jobs : calls[j][minute'] = 0
    BY <1>0, <2>1 DEF FutureBlank
  <2>4. QED
    BY <2>1, <2>2, <2>3 DEF RunsOnce
<1>3. ASSUME NEW d \in Daemons, Wake(d) PROVE CallsInv'
  <2>1. /\ UNCHANGED <<calls, minute, raced>> /\ dpc[d] = "due"
        /\ \A e \in Daemons : e # d =>
             dpc'[e] = dpc[e] /\ jobs'[e] = jobs[e] /\ now'[e] = now[e]
    BY <1>0, <1>3 DEF Wake, histVars
  <2>2. \/ /\ dpc'[d] = "run" /\ jobs'[d] = crontab /\ now'[d] = minute
        \/ /\ dpc'[d] = "loop" /\ now'[d] = now[d]
    BY <1>0, <1>3 DEF Wake
  <2>3. \A i \in 1 .. Len(crontab) : crontab[i] \in Jobs
    BY DEF TypeOK
  <2>4. FutureBlank' /\ OncePerMinute'
    <3>0. minute <= minute /\ \A e \in Daemons : now[e] <= minute
      BY <1>0 DEF FutureBlank
    <3>1. \A e \in Daemons : now'[e] <= minute
      BY <2>1, <2>2, <3>0
    <3>2. QED
      BY <2>1, <3>1 DEF FutureBlank, OncePerMinute
  <2>5. ASSUME ~raced, dpc'[d] = "run", now'[d] \in Observed,
               NEW i \in 1 .. Len(jobs'[d])
        PROVE  calls[jobs'[d][i]][now'[d]] = 0
    BY <2>1, <2>2, <2>3, <2>5 DEF RunsOnce
  <2>6. dpc'[d] \in {"run", "loop"}
    BY <2>2
  <2>7. RunsOnce'
    BY <2>1, <2>5, <2>6 DEF RunsOnce
  <2>8. QED
    BY <2>4, <2>7
<1>4. ASSUME NEW d \in Daemons, jobs[d] # <<>>, UNCHANGED <<calls, minute, now, raced>>,
             jobs' = [jobs EXCEPT ![d] = Tail(jobs[d])], dpc[d] \in {"run", "job"},
             dpc' = [dpc EXCEPT ![d] = "run"]
      PROVE  CallsInv'
  <2>1. FutureBlank' /\ OncePerMinute'
    BY <1>4 DEF FutureBlank, OncePerMinute
  <2>2. /\ dpc'[d] = "run"
        /\ \A e \in Daemons : e # d => dpc'[e] = dpc[e] /\ jobs'[e] = jobs[e]
    BY <1>0, <1>4
  <2>3. ASSUME NEW i \in 1 .. Len(jobs'[d])
        PROVE  /\ i + 1 \in 1 .. Len(jobs[d]) /\ i + 1 > 1
               /\ jobs'[d][i] = jobs[d][i + 1]
    <3>1. /\ Len(jobs'[d]) = Len(jobs[d]) - 1 /\ Len(jobs[d]) \in Nat \ {0}
          /\ \A k \in 1 .. Len(jobs[d]) - 1 : jobs'[d][k] = jobs[d][k + 1]
      BY <1>4, JobsStep
    <3>2. QED
      BY <3>1
  <2>4. ASSUME ~raced, now[d] \in Observed, NEW i \in 1 .. Len(jobs'[d])
        PROVE  calls[jobs'[d][i]][now[d]] = 0
    BY <1>4, <2>3, <2>4 DEF RunsOnce
  <2>5. RunsOnce'
    BY <1>4, <2>2, <2>4 DEF RunsOnce
  <2>6. QED
    BY <2>1, <2>5
<1>5. ASSUME NEW d \in Daemons, JobEnds(d) PROVE CallsInv'
  BY <1>4, <1>5 DEF JobEnds, NextJob, Tabs, histVars
<1>6. ASSUME NEW d \in Daemons, runjob(d) PROVE CallsInv'
  <2>1. /\ UNCHANGED <<minute, now, raced>> /\ jobs[d] # <<>> /\ dpc[d] = "run"
    BY <1>6 DEF runjob
  <2>2. CASE ~Due(Head(jobs[d]), now[d])
    <3>1. dpc' = [dpc EXCEPT ![d] = "run"]
      BY <1>0, <1>6, <2>1, <2>2 DEF runjob
    <3>2. QED
      BY <1>4, <1>6, <2>1, <2>2, <3>1 DEF runjob
  <2>3. CASE Due(Head(jobs[d]), now[d])
    <3>1. /\ dpc'[d] = "job" /\ jobs' = jobs
          /\ \A e \in Daemons : e # d => dpc'[e] = dpc[e]
      BY <1>0, <1>6, <2>3 DEF runjob
    <3>2. /\ jobs[d] \in Seq(Jobs) /\ Len(jobs[d]) \in Nat \ {0}
          /\ Head(jobs[d]) = jobs[d][1]
      BY <1>0, <2>1, CdrTable
    <3>3. /\ \A j \in Jobs, m \in Observed :
               calls'[j][m] = IF j = jobs[d][1] /\ m = now[d]
                                THEN calls[j][m] + 1 ELSE calls[j][m]
          /\ jobs[d][1] \in Jobs
      BY <1>6, <2>3, <3>2, CallCounted
    <3>4. FutureBlank'
      <4>1. ASSUME NEW j \in Jobs, NEW m \in Observed, m > minute
            PROVE  calls'[j][m] = 0
        <5>1. m # now[d]
          BY <1>0, <4>1 DEF FutureBlank
        <5>2. QED
          BY <3>3, <4>1, <5>1 DEF FutureBlank
      <4>2. QED
        BY <2>1, <4>1 DEF FutureBlank
    <3>5. ASSUME ~raced, NEW j \in Jobs, NEW m \in Observed PROVE calls'[j][m] <= 1
      <4>1. CASE j = jobs[d][1] /\ m = now[d]
        <5>1. calls[j][m] = 0
          BY <2>1, <3>2, <3>5, <4>1 DEF RunsOnce
        <5>2. QED
          BY <3>3, <4>1, <5>1
      <4>2. CASE ~(j = jobs[d][1] /\ m = now[d])
        BY <3>3, <3>5, <4>2 DEF OncePerMinute
      <4>3. QED
        BY <4>1, <4>2
    <3>6. OncePerMinute'
      BY <2>1, <3>5 DEF OncePerMinute
    <3>7. ASSUME ~raced, NEW e \in Daemons, dpc'[e] \in {"due", "run", "job"}
          PROVE  e = d
      BY <1>a, <2>1, <3>1, <3>7
    <3>8. ASSUME ~raced, now[d] \in Observed, NEW i \in 1 .. Len(jobs[d]), i > 1
          PROVE  calls'[jobs[d][i]][now[d]] = 0
      <4>1. jobs[d][i] \in Jobs /\ calls[jobs[d][i]][now[d]] = 0
        BY <2>1, <3>2, <3>8 DEF RunsOnce
      <4>2. jobs[d][i] # jobs[d][1]
        BY <3>2, <3>8, InTable DEF Tabs
      <4>3. QED
        BY <3>3, <3>8, <4>1, <4>2
    <3>9. RunsOnce'
      BY <2>1, <3>1, <3>7, <3>8 DEF RunsOnce
    <3>10. QED
      BY <3>4, <3>6, <3>9
  <2>4. QED
    BY <2>2, <2>3
<1>7. QED
  BY <1>1, <1>2, <1>3, <1>5, <1>6, StillOrNot

-----------------------------------------------------------------------------
(* Steps that leave what is expected, and what is done about it, as it is. *)
Settled ==
  /\ UNCHANGED <<calls, minute, now, jobs, up>>
  /\ ~raced' /\ ~upset' /\ running' => ~raced /\ ~upset /\ running
  /\ \A j \in ToSet(crontab') : since'[j] < minute =>
       j \in ToSet(crontab) /\ since[j] = since'[j]
  /\ \A d \in Daemons :
       ~upset' =>
         /\ dpc'[d] \in {"run", "job"} => dpc'[d] = dpc[d]
         /\ dpc'[d] \in {"loop", "nap"} => dpc[d] \in {"loop", "nap"}

(* Only the clock and the daemon itself change how far the daemon has got  *)
(* in its minute.                                                          *)
LEMMA SettledOrNot ==
  ASSUME TypeOK, [Next]_vars
  PROVE  \/ Settled \/ Tick
         \/ \E d \in Daemons : \/ SetRunning(d) \/ Wake(d) \/ runjob(d)
                               \/ JobEnds(d) \/ RunEnds(d)
<1> USE DEF Settled, running
<1>0. dpc \in [Daemons -> DaemonStates] /\ crontab \in Seq(Jobs)
      /\ newtab \in [Users -> Seq(Jobs)] /\ minute \in Nat /\ since \in [Jobs -> Nat]
  BY ConstantsOK DEF TypeOK
<1>1. CASE UNCHANGED vars
  BY <1>1 DEF vars, tabVars, daemVars, histVars
<1>2. ASSUME NEW u \in Users, Begin(u) PROVE Settled
  <2>1. UNCHANGED <<calls, minute, now, jobs, dpc, up, upset, cron_state, since>>
    BY <1>2 DEF Begin, cron_start, cron_stop, cron_clear, cron_add, tabVars, daemVars,
       histVars
  <2>2. ~raced' => ~raced
    BY <1>2 DEF Begin, cron_start, cron_stop, cron_clear, cron_add, histVars
  <2>3. crontab' = crontab \/ crontab' = <<>>
    BY <1>2 DEF Begin, cron_start, cron_stop, cron_clear, cron_add, tabVars
  <2>4. ToSet(<<>>) = {}
    BY DEF ToSet
  <2>5. QED
    BY <2>1, <2>2, <2>3, <2>4
<1>3. ASSUME NEW u \in Users, Spawn(u) \/ SetStopping(u) PROVE Settled
  BY <1>0, <1>3 DEF Spawn, SetStopping, tabVars, daemVars, histVars
<1>4. ASSUME NEW u \in Users, StoreTab(u) PROVE Settled
  <2>1. /\ UNCHANGED <<calls, minute, now, jobs, dpc, up, upset, raced, cron_state>>
        /\ crontab' = newtab[u]
        /\ \A j \in Jobs : since'[j] = IF Contains(crontab', j) /\ ~Contains(crontab, j)
                                         THEN minute ELSE since[j]
    BY <1>4 DEF StoreTab, daemVars
  <2>2. ASSUME NEW j \in ToSet(crontab'), since'[j] < minute
        PROVE  j \in ToSet(crontab) /\ since[j] = since'[j]
    <3>1. crontab' \in Seq(Jobs)
      BY <1>0, <2>1
    <3>2. j \in Jobs /\ Contains(crontab', j)
      BY <2>2, <3>1, InTable
    <3>3. since'[j] # minute
      BY <1>0, <2>2
    <3>4. Contains(crontab, j) /\ since[j] = since'[j]
      BY <2>1, <3>2, <3>3
    <3>5. QED
      BY <1>0, <3>4, InTable
  <2>3. QED
    BY <2>1, <2>2
<1>5. ASSUME NEW d \in Daemons, Loop(d) \/ LoopEnds(d) \/ Exit(d) PROVE Settled
  BY <1>0, <1>5 DEF Loop, NapToMinute, LoopEnds, Exit, set_stopped, tabVars, histVars
<1>6. ASSUME NEW d \in Daemons, Interrupted(d) PROVE Settled
  <2>1. /\ UNCHANGED <<calls, minute, now, jobs, up, raced, cron_state, crontab, since>>
        /\ dpc' = [dpc EXCEPT ![d] = "loop"] /\ dpc[d] \in {"nap", "due"}
    BY <1>6 DEF Interrupted, tabVars
  <2>2. ~upset' => ~upset /\ dpc[d] # "due"
    BY <1>6 DEF Interrupted
  <2>3. QED
    BY <1>0, <2>1, <2>2
<1>7. QED
  BY <1>1, <1>2, <1>3, <1>4, <1>5, <1>6 DEF Next, Finish, crond, Undisturbed

(* RunsAll, when now is kept up and the called jobs are accounted for.     *)
LEMMA AllStep ==
  ASSUME TypeOK, OneLife, Tabs, CallsInv, RunsAll, [Next]_vars
  PROVE  RunsAll'
<1> SUFFICES ASSUME ~raced', ~upset', running'
             PROVE  RunsAll'
  BY DEF RunsAll
<1> USE DEF running
<1>0. /\ dpc \in [Daemons -> DaemonStates] /\ jobs \in [Daemons -> Seq(Jobs)]
      /\ crontab \in Seq(Jobs) /\ minute \in Nat /\ MaxMinute \in Nat
      /\ minute <= MaxMinute
      /\ now \in [Daemons -> 0 .. MaxMinute] /\ up \in Nat
      /\ \A m \in Observed : m \in Nat /\ m < MaxMinute
  BY ConstantsOK DEF TypeOK, Observed
<1>1. CASE Settled
  <2>1. ~raced /\ ~upset /\ running /\ UNCHANGED <<calls, minute, now, jobs, up>>
    BY <1>1 DEF Settled
  <2>2. \A d \in Daemons :
          /\ dpc'[d] \in {"run", "job"} => dpc'[d] = dpc[d]
          /\ dpc'[d] \in {"loop", "nap"} => dpc[d] \in {"loop", "nap"}
    BY <1>1 DEF Settled
  <2>3. ASSUME NEW j \in ToSet(crontab'), NEW m \in Observed, Expected(j, m)',
               m <= minute
        PROVE  j \in ToSet(crontab) /\ Expected(j, m)
    <3>1. since'[j] < m /\ up < m /\ Due(j, m)
      BY <2>1, <2>3 DEF Expected
    <3>2. since'[j] < minute
      <4>1. crontab' \in Seq(Jobs)
        BY TypeStep DEF TypeOK
      <4>2. j \in Jobs
        BY <2>3, <4>1, InTable
      <4>3. since'[j] \in Nat
        BY <4>2, TypeStep, ConstantsOK DEF TypeOK
      <4>4. QED
        BY <1>0, <2>3, <3>1, <4>3
    <3>3. QED
      BY <1>1, <3>1, <3>2 DEF Settled, Expected
  <2>4. ASSUME NEW j \in ToSet(crontab'), NEW m \in Observed, Expected(j, m)'
        PROVE  /\ m < minute => calls[j][m] = 1
               /\ m = minute => \A d \in Daemons :
                    /\ dpc'[d] \in {"loop", "nap"} => calls[j][m] = 1
                    /\ dpc'[d] = "run" => calls[j][m] = 1
                         \/ \E i \in 1 .. Len(jobs[d]) : jobs[d][i] = j
                    /\ dpc'[d] = "job" => calls[j][m] = 1
                         \/ \E i \in 2 .. Len(jobs[d]) : jobs[d][i] = j
    <3>1. CASE m <= minute
      <4>1. j \in ToSet(crontab) /\ Expected(j, m)
        BY <2>3, <2>4, <3>1
      <4>2. QED
        BY <2>1, <2>2, <4>1 DEF RunsAll
    <3>2. CASE ~(m <= minute)
      BY <1>0, <3>2
    <3>3. QED
      BY <3>1, <3>2
  <2>5. \A d \in Daemons : dpc'[d] \in {"run", "job"} => now[d] = minute
    BY <2>1, <2>2 DEF RunsAll
  <2>6. QED
    BY <2>1, <2>4, <2>5 DEF RunsAll

<1>a. \A d, e \in Daemons : ~raced /\ dpc[d] # "none" /\ dpc[e] # "none" => d = e
  BY DEF OneLife
<1>2. ASSUME NEW d \in Daemons, SetRunning(d) PROVE RunsAll'
  <2>1. /\ dpc[d] = "born" /\ dpc' = [dpc EXCEPT ![d] = "loop"] /\ up' = minute
        /\ UNCHANGED <<minute, raced>>
    BY <1>2 DEF SetRunning
  <2>2. \A e \in Daemons : dpc'[e] \notin {"run", "job"}
    BY <1>0, <1>a, <2>1
  <2>3. \A m \in Observed : up' < m => ~(m < minute') /\ m # minute'
    BY <1>0, <2>1
  <2>4. QED
    BY <2>2, <2>3 DEF RunsAll, Expected
<1>3. CASE Tick
  <2>1. /\ UNCHANGED <<calls, now, jobs, up, since, crontab, raced, cron_state>>
        /\ minute' = IF minute < MaxMinute THEN minute + 1 ELSE minute
        /\ \A d \in Daemons : dpc[d] \in {"none", "born", "nap", "exit", "job"}
        /\ \A d \in Daemons : dpc'[d] = IF dpc[d] = "nap" THEN "due" ELSE dpc[d]
    BY <1>3 DEF Tick, tabVars
  <2>2. ~upset /\ \A d \in Daemons : dpc[d] # "job"
    BY <1>3 DEF Tick
  <2>3. PICK d \in Daemons : dpc[d] = "nap"
    BY <2>1, <2>2 DEF OneLife, Working
  <2>4. \A e \in Daemons : dpc'[e] \notin {"loop", "nap", "run", "job"}
    BY <2>1, <2>2
  <2>5. \A j \in ToSet(crontab), m \in Observed : Expected(j, m) =>
          (m < minute \/ m = minute => calls[j][m] = 1)
    BY <2>1, <2>2, <2>3 DEF RunsAll
  <2>6. \A m \in Observed : m < minute' => m < minute \/ m = minute
    BY <1>0, <2>1
  <2>7. \A j, m : Expected(j, m)' <=> Expected(j, m)
    BY <2>1 DEF Expected
  <2>8. QED
    BY <2>1, <2>4, <2>5, <2>6, <2>7 DEF RunsAll
<1>4. ASSUME NEW d \in Daemons, UNCHANGED <<minute, up, since, crontab, raced, upset,
                                            cron_state>>,
             dpc[d] # "none",
             \A e \in Daemons : e # d => dpc'[e] = dpc[e],
             dpc'[d] \in {"run", "job"} => now'[d] = minute,
             \A j \in ToSet(crontab), m \in Observed : Expected(j, m) =>
               /\ m < minute => calls'[j][m] = 1
               /\ m = minute =>
                    /\ dpc'[d] \in {"loop", "nap"} => calls'[j][m] = 1
                    /\ dpc'[d] = "run" => calls'[j][m] = 1
                         \/ \E i \in 1 .. Len(jobs'[d]) : jobs'[d][i] = j
                    /\ dpc'[d] = "job" => calls'[j][m] = 1
                         \/ \E i \in 2 .. Len(jobs'[d]) : jobs'[d][i] = j
      PROVE  RunsAll'
  <2>1. \A e \in Daemons : e # d => dpc'[e] = "none"
    BY <1>4, <1>a
  <2>2. \A j, m : Expected(j, m)' <=> Expected(j, m)
    BY <1>4 DEF Expected
  <2>3. QED
    BY <1>4, <2>1, <2>2 DEF RunsAll
<1>5. ASSUME NEW d \in Daemons, Wake(d) PROVE RunsAll'
  <2>1. /\ UNCHANGED <<minute, up, since, crontab, raced, upset, cron_state, calls>>
        /\ dpc[d] = "due"
    BY <1>5 DEF Wake, tabVars, histVars
  <2>2. /\ dpc'[d] = "run" /\ jobs'[d] = crontab /\ now'[d] = minute
        /\ \A e \in Daemons : e # d => dpc'[e] = dpc[e]
    BY <1>0, <1>5, <2>1 DEF Wake
  <2>3. \A j \in ToSet(crontab) : \E i \in 1 .. Len(crontab) : crontab[i] = j
    BY <1>0, InTable
  <2>4. \A j \in ToSet(crontab), m \in Observed : Expected(j, m) =>
          (m < minute => calls[j][m] = 1)
    BY <2>1 DEF RunsAll
  <2>5. QED
    BY <1>4, <2>1, <2>2, <2>3, <2>4
<1>6. ASSUME NEW d \in Daemons, RunEnds(d) PROVE RunsAll'
  <2>1. /\ UNCHANGED <<minute, up, since, crontab, raced, upset, cron_state, calls>>
        /\ dpc[d] = "run" /\ jobs[d] = <<>> /\ dpc'[d] = "loop"
        /\ \A e \in Daemons : e # d => dpc'[e] = dpc[e]
    BY <1>0, <1>6 DEF RunEnds, tabVars, histVars
  <2>2. ~ \E i \in 1 .. Len(jobs[d]) : TRUE
    BY <2>1
  <2>3. \A j \in ToSet(crontab), m \in Observed : Expected(j, m) =>
          (m < minute \/ m = minute => calls[j][m] = 1)
    BY <2>1, <2>2 DEF RunsAll
  <2>4. QED
    BY <1>4, <2>1, <2>3
<1>7. ASSUME NEW d \in Daemons, JobEnds(d) PROVE RunsAll'
  <2>1. /\ UNCHANGED <<minute, up, since, crontab, raced, upset, cron_state, calls, now>>
        /\ dpc[d] = "job" /\ dpc'[d] = "run"
        /\ jobs' = [jobs EXCEPT ![d] = Tail(jobs[d])] /\ jobs[d] # <<>>
        /\ \A e \in Daemons : e # d => dpc'[e] = dpc[e]
    BY <1>0, <1>7 DEF JobEnds, NextJob, Tabs, tabVars, histVars
  <2>2. /\ Len(jobs'[d]) = Len(jobs[d]) - 1 /\ Len(jobs[d]) \in Nat \ {0}
        /\ \A k \in 1 .. Len(jobs[d]) - 1 : jobs'[d][k] = jobs[d][k + 1]
    BY <2>1, JobsStep
  <2>3. ASSUME NEW i \in 2 .. Len(jobs[d])
        PROVE  \E k \in 1 .. Len(jobs'[d]) : jobs'[d][k] = jobs[d][i]
    <3>1. i - 1 \in 1 .. Len(jobs'[d]) /\ (i - 1) + 1 = i
      BY <2>2
    <3>2. QED
      BY <2>2, <3>1
  <2>4. \A j \in ToSet(crontab), m \in Observed : Expected(j, m) =>
          /\ m < minute => calls[j][m] = 1
          /\ m = minute => calls[j][m] = 1 \/ \E i \in 2 .. Len(jobs[d]) : jobs[d][i] = j
    BY <2>1 DEF RunsAll
  <2>5. now[d] = minute
    BY <2>1 DEF RunsAll
  <2>6. \A j \in ToSet(crontab), m \in Observed : Expected(j, m) =>
          /\ m < minute => calls'[j][m] = 1
          /\ m = minute => calls'[j][m] = 1
                          \/ \E k \in 1 .. Len(jobs'[d]) : jobs'[d][k] = j
    <3>1. ASSUME NEW j, \E i \in 2 .. Len(jobs[d]) : jobs[d][i] = j
          PROVE  \E k \in 1 .. Len(jobs'[d]) : jobs'[d][k] = j
      BY <2>3, <3>1
    <3>2. calls' = calls
      BY <2>1
    <3>3. QED
      BY <2>4, <3>1, <3>2, Zenon
  <2>7. now'[d] = minute /\ dpc'[d] = "run" /\ dpc[d] # "none"
    BY <2>1, <2>5
  <2>8. QED
    BY <1>4, <2>1, <2>6, <2>7
<1>8. ASSUME NEW d \in Daemons, runjob(d) PROVE RunsAll'
  <2>1. /\ UNCHANGED <<minute, up, since, crontab, raced, upset, cron_state, now>>
        /\ dpc[d] = "run" /\ jobs[d] # <<>>
    BY <1>8 DEF runjob, tabVars
  <2>2. now[d] = minute
    BY <2>1 DEF RunsAll
  <2>3. \A j \in ToSet(crontab), m \in Observed : Expected(j, m) =>
          /\ m < minute => calls[j][m] = 1
          /\ m = minute => calls[j][m] = 1 \/ \E i \in 1 .. Len(jobs[d]) : jobs[d][i] = j
    BY <2>1 DEF RunsAll
  <2>4. CASE ~Due(Head(jobs[d]), now[d])
    <3>1. /\ jobs' = [jobs EXCEPT ![d] = Tail(jobs[d])] /\ dpc' = dpc
          /\ calls' = calls
      BY <1>8, <2>4 DEF runjob
    <3>2. /\ Len(jobs'[d]) = Len(jobs[d]) - 1 /\ Len(jobs[d]) \in Nat \ {0}
          /\ \A k \in 1 .. Len(jobs[d]) - 1 : jobs'[d][k] = jobs[d][k + 1]
          /\ Head(jobs[d]) = jobs[d][1]
      BY <2>1, <3>1, JobsStep
    <3>3. ASSUME NEW i \in 1 .. Len(jobs[d]), Due(jobs[d][i], minute)
          PROVE  \E k \in 1 .. Len(jobs'[d]) : jobs'[d][k] = jobs[d][i]
      <4>1. i # 1
        BY <2>2, <2>4, <3>2, <3>3
      <4>2. i - 1 \in 1 .. Len(jobs'[d]) /\ (i - 1) + 1 = i
        BY <3>2, <4>1
      <4>3. QED
        BY <3>2, <4>2
    <3>4. \A j \in ToSet(crontab), m \in Observed : Expected(j, m) =>
            (m = minute => calls[j][m] = 1
                           \/ \E k \in 1 .. Len(jobs'[d]) : jobs'[d][k] = j)
      BY <2>3, <3>3 DEF Expected
    <3>5. QED
      BY <1>4, <2>1, <2>2, <2>3, <3>1, <3>4
  <2>5. CASE Due(Head(jobs[d]), now[d])
    <3>1. /\ dpc'[d] = "job" /\ jobs' = jobs
          /\ \A e \in Daemons : e # d => dpc'[e] = dpc[e]
      BY <1>0, <1>8, <2>5 DEF runjob
    <3>2. jobs[d] \in Seq(Jobs) /\ Len(jobs[d]) \in Nat \ {0} /\ Head(jobs[d]) = jobs[d][1]
      BY <1>0, <2>1, CdrTable
    <3>3. /\ \A j \in Jobs, m \in Observed :
               calls'[j][m] = IF j = jobs[d][1] /\ m = minute
                                THEN calls[j][m] + 1 ELSE calls[j][m]
          /\ jobs[d][1] \in Jobs
      BY <1>8, <2>2, <2>5, <3>2, CallCounted
    <3>4. minute \in Observed => calls[jobs[d][1]][minute] = 0
      BY <2>1, <2>2, <3>2 DEF CallsInv, RunsOnce
    <3>5. ASSUME NEW j \in ToSet(crontab), NEW m \in Observed, Expected(j, m)
          PROVE  /\ m < minute => calls'[j][m] = 1
                 /\ m = minute => calls'[j][m] = 1
                      \/ \E i \in 2 .. Len(jobs[d]) : jobs[d][i] = j
      <4>1. j \in Jobs
        BY <1>0, InTable
      <4>2. m < minute => m # minute
        BY <1>0
      <4>3. CASE j = jobs[d][1]
        BY <2>3, <3>3, <3>4, <3>5, <4>1, <4>2, <4>3
      <4>4. CASE j # jobs[d][1]
        <5>1. \A i \in 1 .. Len(jobs[d]) : jobs[d][i] = j => i \in 2 .. Len(jobs[d])
          BY <3>2, <4>4
        <5>2. QED
          BY <2>3, <3>3, <3>5, <4>1, <4>4, <5>1
      <4>5. QED
        BY <4>3, <4>4
    <3>6. QED
      BY <1>4, <2>1, <2>2, <3>1, <3>5
  <2>6. QED
    BY <2>4, <2>5
<1>9. QED
  BY <1>1, <1>2, <1>3, <1>5, <1>6, <1>7, <1>8, SettledOrNot

-----------------------------------------------------------------------------
CronInv == TypeOK /\ OneLife /\ Tabs /\ CallsInv /\ RunsAll

(* The invariant holds before the first call.                              *)
LEMMA CronInit == Init => CronInv
<1> SUFFICES ASSUME Init PROVE CronInv
  OBVIOUS
<1>1. TypeOK
  <2>1. <<>> \in Seq(Jobs) /\ 0 \in 0 .. MaxMinute /\ 0 \in 0 .. MaxStarts
        /\ 0 \in 0 .. MaxCalls
    BY ConstantsOK
  <2>2. /\ dpc \in [Daemons -> DaemonStates]
        /\ \A d \in Daemons : dpc[d] = "none"
        /\ now \in [Daemons -> 0 .. MaxMinute]
    BY <2>1 DEF Init, DaemonStates
  <2>3. jobs \in [Daemons -> Seq(Jobs)] /\ newtab \in [Users -> Seq(Jobs)]
    BY <2>1 DEF Init
  <2>4. /\ calls \in [Jobs -> [Observed -> Nat]]
        /\ since \in [Jobs -> 0 .. MaxMinute]
        /\ upc \in [Users -> {"idle", "spawn", "stop", "store"}]
    BY <2>1 DEF Init
  <2>5. raced \in BOOLEAN /\ upset \in BOOLEAN /\ added \subseteq Jobs
    BY DEF Init
  <2>6. QED
    BY <2>1, <2>2, <2>3, <2>4, <2>5 DEF Init, TypeOK
<1>2. OneLife /\ RunsAll
  BY DEF Init, OneLife, RunsAll, running, Working
<1>3. Tabs
  <2>1. ToSet(<<>>) = {} /\ IsInjective(<<>>)
    BY DEF ToSet, IsInjective
  <2>2. QED
    BY <2>1 DEF Init, Tabs
<1>4. CallsInv
  BY DEF Init, CallsInv, FutureBlank, RunsOnce, OncePerMinute
<1>5. QED
  BY <1>1, <1>2, <1>3, <1>4 DEF CronInv

(* The invariant of the cron.                                              *)
THEOREM CronInvAlways == Spec => []CronInv
<1>1. CronInv /\ [Next]_vars => CronInv'
  BY TypeStep, LifeStep, TabsStep, CallsStep, AllStep DEF CronInv
<1>2. QED
  BY <1>1, CronInit, PTL DEF Spec

(* As long as no two calls of cron-start or of cron-stop overlap, no       *)
(* sequence of starts and stops makes two daemons live at once.            *)
THEOREM Daemon == Spec => []OneDaemon
<1>1. ASSUME CronInv PROVE OneDaemon
  <2>1. CASE raced
    BY <1>1, <2>1 DEF CronInv, OneDaemon
  <2>2. CASE \A d \in Daemons : dpc[d] = "none"
    <3>1. Alive = {}
      BY <2>2 DEF Alive
    <3>2. QED
      BY <1>1, <3>1, FS_EmptySet DEF CronInv, OneDaemon
  <2>3. ASSUME ~raced, NEW d \in Daemons, dpc[d] # "none" PROVE OneDaemon
    <3>1. Alive = {d}
      BY <1>1, <2>3 DEF CronInv, OneLife, Alive
    <3>2. QED
      BY <1>1, <3>1, FS_Singleton DEF CronInv, OneDaemon
  <2>4. QED
    BY <2>1, <2>2, <2>3
<1>2. QED
  BY <1>1, CronInvAlways, PTL

(* Then no job is called twice for a minute, however naps are interrupted, *)
(* the table edited and the cron restarted.                                *)
THEOREM Once == Spec => []OncePerMinute
<1>1. CronInv => OncePerMinute
  BY DEF CronInv, CallsInv
<1>2. QED
  BY <1>1, CronInvAlways, PTL

(* And every job that was in the table before a minute at which it is due, *)
(* under a daemon that was up before it, has been called when the minute   *)
(* is over, unless a job overran or a signal came at the wrong moment.     *)
THEOREM WhenDue == Spec => []CalledWhenDue
<1>1. CronInv => CalledWhenDue
  BY DEF CronInv, RunsAll, CalledWhenDue, Expected
<1>2. QED
  BY <1>1, CronInvAlways, PTL

=============================================================================
