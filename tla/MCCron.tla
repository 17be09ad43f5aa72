------------------------------- MODULE MCCron -------------------------------
(***************************************************************************)
(* A finite instance of Cron for TLC: a job due every minute and one due   *)
(* at the second minute of the first hour; an hour has two minutes.        *)
(***************************************************************************)
EXTENDS Cron, TLC

CONSTANTS often, once

TwoJobs   == {often, once}
TwoHour   == often :> NULL @@ once :> 0
TwoMinute == often :> NULL @@ once :> 1

=============================================================================
