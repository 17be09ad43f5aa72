-------------------------------- MODULE GTime -------------------------------
(***************************************************************************)
(* Timestamps: src/src/gtime.c, and their way through the database in      *)
(* src/src/postgres.c.                                                     *)
(*                                                                         *)
(* A timestamp is an epoch second, microseconds and the broken-down local  *)
(* time.  Broken-down time is abstracted to the seconds a local clock      *)
(* shows: localtime adds the zone's offset, which jumps twice a year, and  *)
(* mktime looks for the instant at which the clock shows what it is given. *)
(* Numbers of seconds that Scheme passes are counted in ticks, Fine of     *)
(* them in a microsecond and Micro microseconds in a second (BOUNDS: both  *)
(* are small here); the inexactness of double arithmetic is left out.      *)
(***************************************************************************)
EXTENDS Integers

CONSTANTS
  Micro, Fine, Hour,   \* units; an hour is counted in seconds
  IntMax,              \* the largest int
  Std, Shift,          \* the zone: offset, and how far the clock moves
  DstFrom, DstUntil,   \* when it moves forward, and back
  Instants,            \* BOUND: the numbers passed to time-at and time-add
  Clocks,              \* BOUND: the local times passed in
  Zones,               \* BOUND: the zones of the strings decoded
  MaxTimes             \* BOUND: timestamps made

ASSUME TimeConstantsOK ==
  /\ Micro \in Nat \ {0} /\ Fine \in Nat \ {0} /\ Fine % 2 = 0
  /\ IntMax \in Nat /\ Micro < IntMax /\ Hour \in Nat \ {0} /\ Shift \in Nat /\ Std \in Int
  /\ DstFrom \in Int /\ DstUntil \in Int /\ DstFrom + Shift < DstUntil
  /\ Instants \subseteq Int /\ Clocks \subseteq Int /\ Zones \subseteq Int

VARIABLES
  time,     \* the timestamp in hand: its epoch, usec and clock; or #f
  times,    \* timestamps made so far
  asked,    \* history: the instants that would be right, in ticks
  column,   \* the timestamp in the database, a local time
  stored    \* history: the epoch of the timestamp written there

timeVars == <<time, times, asked, column, stored>>

Second == Micro * Fine
NoTime == [epoch |-> -1, usec |-> -1, clock |-> -1]   \* #f
NoColumn == <<>>

TimeInit == /\ time = NoTime /\ times = 0 /\ asked = {}
            /\ column = NoColumn /\ stored = 0

-----------------------------------------------------------------------------
(* The C library's clock, external.                                        *)
Offset(e) == IF DstFrom <= e /\ e < DstUntil THEN Std + Shift ELSE Std
localtime(e) == e + Offset(e)

(* The instants at which a clock shows c: two in the hour that is repeated *)
(* and none in the hour left out, for which mktime (with tm_isdst = -1)    *)
(* answers with one of the two offsets.                                    *)
Offsets == {Std, Std + Shift}
Shows(c) == {e \in {c - o : o \in Offsets} : localtime(e) = c}
mktime(c) == IF Shows(c) = {} THEN {c - o : o \in Offsets} ELSE Shows(c)

Stamp(e, u) == [epoch |-> e, usec |-> u, clock |-> localtime(e)]

(* if (usec >= 1000000): the rounding reaches the next second.  The mutant *)
(* has no such test.                                                       *)
Carried_never(e, u) == Stamp(e, u)
Carried(e, u) == IF u >= Micro THEN Stamp(e + 1, u - Micro) ELSE Stamp(e, u)

(* A conversion to int that overflows gives the smallest int.              *)
Ints == (0 - IntMax - 1) .. IntMax
Cast(n) == IF n \in Ints THEN n ELSE 0 - IntMax - 1

(* (int)((x - sec) * 1000000 + 0.5)                                        *)
Usec(x, sec) == Cast((x - sec * Second + Fine \div 2) \div Fine)

-----------------------------------------------------------------------------
(* A timestamp is made; the instants that would be right, in ticks.        *)
Make(t, right) == /\ times < MaxTimes /\ times' = times + 1
                  /\ time' = t /\ asked' = right
                  /\ UNCHANGED <<column, stored>>

(* Before 1902 and from 2038 on the second is not an int: nothing is       *)
(* expected then.                                                          *)
time_at(x) ==
  LET ep == Cast(x \div Second) IN
  Make(Carried(ep, Usec(x, ep)), IF x \div Second \in Ints THEN {x} ELSE {})

(* The timestamps for a local time and a fraction of a second.             *)
local_time_intern(c, frac) ==
  {IF e = -1 THEN NoTime ELSE Carried(e, Usec(frac, 0)) : e \in mktime(c)}

local_time(c, frac) ==
  \E t \in local_time_intern(c, frac) :
    Make(t, {e * Second + frac : e \in Shows(c)})

now_time(e, u) == Make(Stamp(e, u), {e * Second + u * Fine})

Ticks(t) == t.epoch * Second + t.usec * Fine

time_add(s) ==
  LET x == Ticks(time) + s
      ntime == x \div Second
  IN /\ time # NoTime
     /\ Make(Carried(ntime, Usec(x, ntime)), {x})

(* atoi reads the hours of a zone, and nothing reads its minutes.          *)
WholeHours(z) == IF z < 0 THEN 0 - Hour * ((0 - z) \div Hour)
                          ELSE Hour * (z \div Hour)

(* time-decode of a local time c in zone z: mktime leaves the server's own *)
(* offset in tm_gmtoff.  A fraction of the second is skipped, and nothing  *)
(* is expected in a zone that is not of whole hours.                       *)
time_decode(c, z) ==
  \E e \in mktime(c) :
    Make(Stamp(e + Offset(e) - WholeHours(z), 0),
         IF Shows(c) = {} \/ WholeHours(z) # z THEN {} ELSE {(c - z) * Second})

(* Any other string goes to curl_getdate, which knows the instant or       *)
(* answers -1; the difference is not looked at.                            *)
time_decode_other(e) == \E r \in {e, -1} : Make(Stamp(r, 0), {r * Second})

(* What pg-format writes: the fields, without microseconds.                *)
Fields(t) == t.clock

pg_format_time == /\ time # NoTime /\ column = NoColumn
                  /\ column' = <<Fields(time)>> /\ stored' = time.epoch
                  /\ UNCHANGED <<time, times, asked>>

(* The column of a row that is read back.  In the hour that is repeated    *)
(* the local time stands for two instants.                                 *)
decode_timestamp ==
  /\ column # NoColumn
  /\ time' \in local_time_intern(column[1], 0)
  /\ asked' = {e * Second : e \in {stored} \cup
                 (IF stored \in Shows(column[1]) THEN Shows(column[1]) ELSE {})}
  /\ column' = NoColumn
  /\ UNCHANGED <<times, stored>>

TimeNext ==
  \/ \E x \in Instants : time_at(x) \/ time_add(x)
  \/ \E c \in Clocks : \/ \E frac \in 0 .. Second - 1 : local_time(c, frac)
                       \/ \E z \in Zones : time_decode(c, z)
                       \/ time_decode_other(c)
                       \/ \E u \in 0 .. Micro - 1 : now_time(c, u)
  \/ pg_format_time \/ decode_timestamp

TimeSpec == TimeInit /\ [][TimeNext]_timeVars

-----------------------------------------------------------------------------
(* Properties.                                                             *)

Distance(a, b) == IF a < b THEN b - a ELSE a - b

(* Every timestamp that time-at, time-add, time-local, time-now,           *)
(* time-decode or the database gives is the one asked for, to the nearest  *)
(* microsecond, in normal form, and its fields are the local time of that  *)
(* same instant: a fraction that rounds up carries into the next second    *)
(* and into the fields, before 1970 too, and no daylight saving time of    *)
(* the server shifts a string that names its own zone.  What was written   *)
(* to the database is the same second when it is read back, on whichever   *)
(* side of a clock change it is, but in the hour that is repeated.         *)
(* (Outside the hour the clock leaves out, and for time-at from 1902 to    *)
(* 2038; -1 is lost, which mktime cannot tell from an error; time-decode   *)
(* is asked for the second of its string, without a fraction, in a zone of *)
(* whole hours.)                                                           *)
Instant ==
  time # NoTime /\ asked # {} =>
    /\ time.usec \in 0 .. Micro - 1
    /\ time.clock = localtime(time.epoch)
    /\ \E x \in asked : 2 * Distance(Ticks(time), x) <= Fine

=============================================================================
