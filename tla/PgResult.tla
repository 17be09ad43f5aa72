------------------------------ MODULE PgResult ------------------------------
(***************************************************************************)
(* The connection and result objects of src/src/postgres.c, as a Scheme    *)
(* program uses them: it opens a connection, runs a query and walks over   *)
(* its rows with one cursor, through pg-get-row, pg-next-row, pg-each-row  *)
(* and pg-map-rows.  The function that pg-each-row or pg-map-rows calls    *)
(* for a row may itself use the result, may throw, and may be called again *)
(* by a retry.  Objects are released by the loops, by the program and by   *)
(* the garbage collector.                                                  *)
(*                                                                         *)
(* A row is its number; NoRow stands for the row of empty values that      *)
(* libpq's accessors give for a result that has been cleared.              *)
(***************************************************************************)
EXTENDS Naturals, Sequences, SequencesExt, FiniteSets

CONSTANTS
  MaxRows,    \* BOUND: rows of a query
  MaxCalls    \* BOUND: calls the program makes

ASSUME PgConstantsOK == MaxRows \in Nat /\ MaxCalls \in Nat

NoRow == 0

VARIABLES
  conn,       \* the connection: "none", "open", "null" or "freed"
  res,        \* the result: "none", "live", "null" or "freed"
  cursor, tuples,
  frames,     \* loops in progress, the innermost last
  pgcalls,
  got,        \* history: the rows handed to the program
  mapped,     \* history: the lists pg-map-rows returned, and where each began
  clears, finishes,   \* history: calls of PQclear and PQfinish on an object
  cleared,    \* history: the program called pg-clear
  nested,     \* history: a loop's function used the loop's own result
  threw       \* history: a loop's function threw

pgVars == <<conn, res, cursor, tuples, frames, pgcalls, got, mapped, clears,
            finishes, cleared, nested, threw>>
resVars == <<res, cursor, tuples, frames, got, mapped, clears, cleared, nested,
             threw>>

PgInit ==
  /\ conn = "none" /\ res = "none" /\ cursor = 0 /\ tuples = 0 /\ frames = <<>>
  /\ pgcalls = 0 /\ got = <<>> /\ mapped = {} /\ clears = 0 /\ finishes = 0
  /\ cleared = FALSE /\ nested = FALSE /\ threw = FALSE

PgCall == pgcalls < MaxCalls /\ pgcalls' = pgcalls + 1

-----------------------------------------------------------------------------
(* The connection.  A server that cannot be reached leaves a NULL.         *)
pg_open_primitive ==
  /\ conn = "none" /\ PgCall
  /\ conn' \in {"open", "null"}
  /\ UNCHANGED <<resVars, finishes>>

Finish == finishes' = finishes + (IF conn = "open" THEN 1 ELSE 0)

pg_close ==
  /\ conn \in {"open", "null"} /\ PgCall
  /\ Finish /\ conn' = "null"
  /\ UNCHANGED resVars

(* The collector finds the connection unused, its result perhaps not.      *)
free_pg_conn ==
  /\ conn \in {"open", "null"}
  /\ Finish /\ conn' = "freed"
  /\ UNCHANGED <<resVars, pgcalls>>

(* A query on a connection that is NULL has a NULL result without rows.    *)
pg_exec ==
  /\ conn # "none" /\ res = "none" /\ PgCall
  /\ \/ /\ conn = "open" /\ res' = "live" /\ tuples' \in 0 .. MaxRows
     \/ /\ conn = "null" /\ res' = "null" /\ tuples' = 0
  /\ UNCHANGED <<conn, cursor, frames, got, mapped, clears, finishes, cleared,
                 nested, threw>>

-----------------------------------------------------------------------------
(* The row under the cursor.                                               *)
build_row(c) == IF res = "live" /\ c < tuples THEN c + 1 ELSE NoRow

(* pgr->cursor >= pgr->tuples; the mutant is off by one.                   *)
AtEnd_late(c) == c > tuples
AtEnd(c) == c >= tuples

(* PQclear(pgr->res); pgr->res = NULL.  PQclear(NULL) does nothing.        *)
Clear == /\ clears' = clears + (IF res = "live" THEN 1 ELSE 0)
         /\ res' = "null"

(* The program, or the function of the innermost loop, uses the result.    *)
UseResult == /\ res \in {"live", "null"} /\ PgCall
             /\ nested' = (nested \/ frames # <<>>)
             /\ UNCHANGED <<conn, tuples, finishes, threw>>

NextRow == /\ got' = Append(got, build_row(cursor)) /\ cursor' = cursor + 1

pg_get_row ==
  /\ UseResult
  /\ IF AtEnd(cursor) THEN UNCHANGED <<got, cursor>> ELSE NextRow
  /\ UNCHANGED <<res, frames, mapped, clears, cleared>>

pg_next_row ==
  /\ UseResult
  /\ IF AtEnd(cursor) THEN Clear /\ UNCHANGED <<got, cursor>>
                       ELSE NextRow /\ UNCHANGED <<res, clears>>
  /\ UNCHANGED <<frames, mapped, cleared>>

pg_clear ==
  /\ UseResult /\ Clear /\ cleared' = TRUE
  /\ UNCHANGED <<cursor, frames, got, mapped>>

(* The loop of pg-each-row and pg-map-rows, from the test on: call the     *)
(* function for the row under the cursor, or clear the result and return.  *)
Loop(c, f) ==
  LET rest == SubSeq(frames, 1, f.depth) IN
  /\ cursor' = c
  /\ IF ~AtEnd(c)
       THEN /\ got' = Append(got, build_row(c))
            /\ frames' = Append(rest, [f EXCEPT !.bag = <<build_row(c)>> \o @])
            /\ UNCHANGED <<res, clears, mapped>>
       ELSE /\ Clear
            /\ frames' = rest
            /\ mapped' = IF f.kind = "map"
                           THEN mapped \cup {[from |-> f.from,
                                               rows |-> Reverse(f.bag)]}
                           ELSE mapped
            /\ UNCHANGED got

pg_each_row ==
  /\ UseResult /\ UNCHANGED cleared
  /\ Loop(cursor, [kind |-> "each", from |-> cursor, bag |-> <<>>,
                   depth |-> Len(frames)])

pg_map_rows ==
  /\ UseResult /\ UNCHANGED cleared
  /\ Loop(cursor, [kind |-> "map", from |-> cursor, bag |-> <<>>,
                   depth |-> Len(frames)])

(* The function returns for a row, and the loop goes on.                   *)
FunctionReturns ==
  /\ frames # <<>>
  /\ Loop(cursor + 1, Last(frames))
  /\ UNCHANGED <<conn, tuples, pgcalls, finishes, cleared, nested, threw>>

(* It throws: the loops are left as they are, out to where the program     *)
(* catches.                                                                *)
FunctionThrows ==
  /\ frames # <<>>
  /\ \E d \in 0 .. Len(frames) - 1 : frames' = SubSeq(frames, 1, d)
  /\ threw' = TRUE
  /\ UNCHANGED <<conn, res, cursor, tuples, pgcalls, got, mapped, clears,
                 finishes, cleared, nested>>

(* The collector finds the result unused.                                  *)
free_pg_res ==
  /\ res \in {"live", "null"} /\ frames = <<>>
  /\ clears' = clears + (IF res = "live" THEN 1 ELSE 0)
  /\ res' = "freed"
  /\ UNCHANGED <<conn, cursor, tuples, frames, pgcalls, got, mapped, finishes,
                 cleared, nested, threw>>

PgNext ==
  \/ pg_open_primitive \/ pg_close \/ free_pg_conn \/ pg_exec
  \/ pg_get_row \/ pg_next_row \/ pg_clear \/ pg_each_row \/ pg_map_rows
  \/ FunctionReturns \/ FunctionThrows \/ free_pg_res

PgSpec == PgInit /\ [][PgNext]_pgVars

-----------------------------------------------------------------------------
(* Properties.                                                             *)

(* However loops, throws, pg-clear, pg-close and the collector follow each *)
(* other, libpq's objects are released at most once, and a result with     *)
(* rows that is collected or at its end has been released.                 *)
ReleasedOnce ==
  /\ clears <= 1 /\ finishes <= 1
  /\ res \in {"null", "freed"} /\ tuples > 0 => clears = 1

(* Calls of the four readers may be mixed and a function may throw and its *)
(* loop be started again: rows come in order, none is left out, and when   *)
(* pg-end-stream? is true all of them have come.  A row comes twice only   *)
(* after a throw.  This is for programs that do not use a result inside    *)
(* the function of a loop over it and do not call pg-clear.                *)
NoRowLost ==
  ~nested /\ ~cleared =>
    /\ \A i \in 1 .. Len(got) :
         LET before == IF i = 1 THEN 0 ELSE got[i - 1] IN
         got[i] \in {before + 1} \cup (IF threw THEN {before} ELSE {})
    /\ res = "null" => IF got = <<>> THEN tuples = 0 ELSE Last(got) = tuples

(* A row of empty values is handed out only after pg-clear: the release at *)
(* the end of a loop never precedes a row, even if functions nest loops    *)
(* over one result or throw out of them.                                   *)
NoEmptyRows == ~cleared => NoRow \notin Range(got)

(* pg-map-rows returns what its function made of every row from the cursor *)
(* on, in order, even if an earlier loop over the result was left by a     *)
(* throw.                                                                  *)
MapComplete ==
  ~nested /\ ~cleared =>
    \A m \in mapped : m.rows = [i \in 1 .. tuples - m.from |-> m.from + i]

(* However a program mixes the four readers, throws, pg-clear, pg-close    *)
(* and the collector: every row is delivered, in order and with its        *)
(* values, pg-map-rows answers with all of them, and what libpq allocated  *)
(* is released once.                                                       *)
RowsDelivered == ReleasedOnce /\ NoRowLost /\ NoEmptyRows /\ MapComplete

=============================================================================
