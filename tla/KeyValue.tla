------------------------------ MODULE KeyValue ------------------------------
(***************************************************************************)
(* The SQL-hosted key-value store of src/src/kv.scm, on the PostgreSQL     *)
(* client of src/src/postgres.scm and postgres.c.                          *)
(*                                                                         *)
(* A request handler opens a handle (a connection and a namespace), runs   *)
(* statements on it and closes it.  Every statement is one transaction of  *)
(* the server; kv-set is two of them, an UPDATE and, when that touched no  *)
(* row, an INSERT, and other threads run between the two.  The table has a *)
(* unique constraint on (namespace, key), which SQL does not apply to      *)
(* NULLs, and a failed statement is logged and otherwise ignored.          *)
(*                                                                         *)
(* The empty string is EMPTY; pg-format writes it as NULL.                 *)
(***************************************************************************)
EXTENDS Naturals, Sequences, FiniteSets

CONSTANTS
  Threads, Namespaces,
  Keys, Values,   \* what applications pass: may contain EMPTY
  OwnKeys, OwnValues,   \* what gusher's own modules pass (see Session)
  EMPTY, NULL, ABSENT,
  MaxFails,       \* BOUND: statements that fail at the server
  MaxOps          \* BOUND: calls made

ASSUME ConstantsOK ==
  /\ MaxOps \in Nat /\ MaxFails \in Nat
  /\ NULL \notin Keys \cup Values \cup Namespaces \cup OwnKeys \cup OwnValues
  /\ ABSENT \notin Keys \cup Values \cup OwnKeys \cup OwnValues
  /\ EMPTY \notin Namespaces /\ ABSENT # NULL

VARIABLES
  table,   \* the rows of _kv_, with a number to tell equal rows apart
  nrows,
  handle,  \* each thread's namespace, NULL when it has no connection
  pc, key, val,   \* each thread's kv-set in progress
  ans,     \* each thread's last answer, as a set
  nops,
  nfails,      \* history: statements that failed
  overtaken,   \* history: another call changed this key since kv-set began
  failed       \* history: a statement of the kv-set in progress failed

vars == <<table, nrows, handle, pc, key, val, ans, nops, nfails, overtaken,
          failed>>
callVars == <<pc, key, val, overtaken, failed>>

SqlKeys == ((Keys \cup OwnKeys) \ {EMPTY}) \cup {NULL}
SqlValues == ((Values \cup OwnValues) \ {EMPTY}) \cup {NULL}
Rows == [id : 1 .. MaxOps, ns : Namespaces, key : SqlKeys, value : SqlValues]

TypeOK ==
  /\ table \subseteq Rows /\ nrows \in 0 .. MaxOps
  /\ handle \in [Threads -> Namespaces \cup {NULL}]
  /\ pc \in [Threads -> {"idle", "update", "insert"}]
  /\ key \in [Threads -> SqlKeys] /\ val \in [Threads -> SqlValues]
  /\ overtaken \in [Threads -> BOOLEAN] /\ failed \in [Threads -> BOOLEAN]
  /\ nops \in 0 .. MaxOps /\ nfails \in 0 .. MaxFails

Init ==
  /\ table = {} /\ nrows = 0
  /\ handle = [t \in Threads |-> NULL]
  /\ pc = [t \in Threads |-> "idle"]
  /\ key = [t \in Threads |-> NULL] /\ val = [t \in Threads |-> NULL]
  /\ ans = [t \in Threads |-> {}]
  /\ nops = 0 /\ nfails = 0
  /\ overtaken = [t \in Threads |-> FALSE]
  /\ failed = [t \in Threads |-> FALSE]

-----------------------------------------------------------------------------
(* A value as an SQL literal: the empty string becomes null.               *)
pg_format_sql(x) == IF x = EMPTY THEN NULL ELSE x

(* where (namespace=n) and (key=k): a comparison with NULL is never true.  *)
(* The mutant has lost the namespace.                                      *)
MatchingKeyOnly(n, k) == {r \in table : r.key = k /\ k # NULL}
Matching(n, k) == {r \in table : r.ns = n /\ r.key = k /\ k # NULL}

(* Calls on (n, k), in progress in other threads, have been overtaken.     *)
Overtake(t, n, k) ==
  [u \in Threads |-> overtaken[u] \/ (/\ u # t /\ pc[u] # "idle"
                                      /\ handle[u] = n /\ key[u] = k)]

Call(t) ==
  /\ pc[t] = "idle" /\ handle[t] # NULL /\ nops < MaxOps
  /\ nops' = nops + 1

(* pg-open.  When the connection cannot be made, the handle holds NULL for *)
(* it, and the first statement with a string in it (which every statement  *)
(* here has) reads from what PQescapeLiteral then returns, NULL: the whole *)
(* process ends, which to the table is a process that takes no more steps. *)
kv_open(t, n) ==
  /\ handle[t] = NULL /\ nops < MaxOps
  /\ handle' = [handle EXCEPT ![t] = n]
  /\ UNCHANGED <<table, nrows, callVars, ans, nops, nfails>>

kv_close(t) ==
  /\ pc[t] = "idle" /\ handle[t] # NULL
  /\ handle' = [handle EXCEPT ![t] = NULL]
  /\ UNCHANGED <<table, nrows, callVars, ans, nops, nfails>>

kv_set(t, k, v) ==
  /\ Call(t)
  /\ key' = [key EXCEPT ![t] = pg_format_sql(k)]
  /\ val' = [val EXCEPT ![t] = pg_format_sql(v)]
  /\ pc' = [pc EXCEPT ![t] = "update"]
  /\ overtaken' = [overtaken EXCEPT ![t] = FALSE]
  /\ failed' = [failed EXCEPT ![t] = FALSE]
  /\ UNCHANGED <<table, nrows, handle, ans, nfails>>

(* The call returns: what it passed is forgotten.                          *)
Return(t) ==
  /\ pc' = [pc EXCEPT ![t] = "idle"]
  /\ key' = [key EXCEPT ![t] = NULL] /\ val' = [val EXCEPT ![t] = NULL]

(* The UPDATE; pg-cmd-tuples is the number of rows it touched.             *)
Update(t) ==
  LET hit == Matching(handle[t], key[t]) IN
  /\ pc[t] = "update"
  /\ table' = (table \ hit) \cup {[r EXCEPT !.value = val[t]] : r \in hit}
  /\ IF hit = {} THEN /\ pc' = [pc EXCEPT ![t] = "insert"]
                      /\ UNCHANGED <<key, val, overtaken>>
                 ELSE /\ Return(t)
                      /\ overtaken' = Overtake(t, handle[t], key[t])
  /\ UNCHANGED <<nrows, handle, ans, nops, nfails, failed>>

(* unique (namespace, key).                                                *)
NoConstraint(n, k) == TRUE
Unique(n, k) == Matching(n, k) = {}

(* The INSERT; a duplicate key is an error that pg_exec logs.              *)
Insert(t) ==
  /\ pc[t] = "insert"
  /\ IF Unique(handle[t], key[t])
       THEN /\ nrows' = nrows + 1
            /\ table' = table \cup {[id |-> nrows + 1, ns |-> handle[t],
                                     key |-> key[t], value |-> val[t]]}
            /\ overtaken' = Overtake(t, handle[t], key[t])
       ELSE UNCHANGED <<nrows, table, overtaken>>
  /\ Return(t)
  /\ UNCHANGED <<handle, ans, nops, nfails, failed>>

(* A statement fails (the server went away, a lock timed out): no rows     *)
(* touched, the error is logged, and the caller goes on: to the INSERT     *)
(* after the UPDATE, and back to the application after the INSERT.         *)
StatementFails(t) ==
  /\ pc[t] # "idle" /\ nfails < MaxFails
  /\ nfails' = nfails + 1
  /\ failed' = [failed EXCEPT ![t] = TRUE]
  /\ IF pc[t] = "update" THEN /\ pc' = [pc EXCEPT ![t] = "insert"]
                              /\ UNCHANGED <<key, val>>
                         ELSE Return(t)
  /\ UNCHANGED <<table, nrows, handle, ans, nops, overtaken>>

(* The one statement of another call fails: a delete changes nothing, a    *)
(* query finds no rows.                                                    *)
CallFails(t) ==
  /\ Call(t) /\ nfails < MaxFails
  /\ nfails' = nfails + 1
  /\ ans' \in {ans, [ans EXCEPT ![t] = {}]}
  /\ UNCHANGED <<table, nrows, handle, callVars>>

kv_del(t, k) ==
  LET n == handle[t]  s == pg_format_sql(k) IN
  /\ Call(t)
  /\ table' = table \ Matching(n, s)
  /\ overtaken' = Overtake(t, n, s)
  /\ UNCHANGED <<nrows, handle, pc, key, val, ans, nfails, failed>>

-----------------------------------------------------------------------------
(* The queries.  No row is #f, here the empty set; the row of a count  *)
(* has the one column n.                                                   *)
Answer(t, a) ==
  /\ Call(t)
  /\ ans' = [ans EXCEPT ![t] = a]
  /\ UNCHANGED <<table, nrows, handle, callVars, nfails>>

(* pg-one-row takes the first of the rows, in no particular order.         *)
pg_one_row(S) == IF S = {} THEN {{}} ELSE {{r} : r \in S}

kv_get(t, k) ==
  \E row \in pg_one_row(Matching(handle[t], pg_format_sql(k))) :
    Answer(t, {r.value : r \in row})

kv_exists(t, k) ==
  \E row \in pg_one_row(Matching(handle[t], pg_format_sql(k))) :
    Answer(t, {r.key : r \in row})

InNamespace(n) == {r \in table : r.ns = n}

kv_count(t) == Answer(t, {[n |-> Cardinality(InNamespace(handle[t]))]})

kv_keys(t) == Answer(t, {r.key : r \in InNamespace(handle[t])})

-----------------------------------------------------------------------------
Next ==
  \E t \in Threads :
    \/ \E n \in Namespaces : kv_open(t, n)
    \/ kv_close(t)
    \/ \E k \in Keys, v \in Values : kv_set(t, k, v)
    \/ Update(t) \/ Insert(t) \/ StatementFails(t) \/ CallFails(t)
    \/ \E k \in Keys : kv_del(t, k) \/ kv_get(t, k) \/ kv_exists(t, k)
    \/ kv_count(t) \/ kv_keys(t)

Spec == Init /\ [][Next]_vars

-----------------------------------------------------------------------------
(* Properties.                                                             *)

(* However sets and deletes of several threads interleave between the      *)
(* UPDATE and the INSERT, and whatever statement fails, a key other than   *)
(* the empty string has at most one row, so kv-get has only one answer.    *)
(* All variables have their types: no row holds an empty string.           *)
OneRowPerKey ==
  /\ TypeOK
  /\ \A r, s \in table :
       r.key # NULL /\ r.ns = s.ns /\ r.key = s.key => r = s

Cell(n, k) == LET rows == {r \in table : r.ns = n /\ r.key = k} IN
              IF rows = {} THEN ABSENT ELSE (CHOOSE r \in rows : TRUE).value

(* The refinement: what the rows and the calls in progress stand for.      *)
StoreKeys == SqlKeys \ {NULL}
StoreMap == [c \in Namespaces \X StoreKeys |-> Cell(c[1], c[2])]

Pend(c, v, o, f) == [cell |-> c, val |-> v, overtaken |-> o, failed |-> f]
PendMap == [t \in Threads |->
              IF pc[t] = "idle" THEN NULL
              ELSE Pend(<<handle[t], key[t]>>, val[t], overtaken[t], failed[t])]

(* NULL, for no call in progress, is no call in progress.                  *)
ASSUME NullIsNoCall ==
  \A c \in Namespaces \X SqlKeys, v \in SqlValues, o, f \in BOOLEAN :
    Pend(c, v, o, f) # NULL

Store == INSTANCE KVStore WITH
  Keys <- StoreKeys, Values <- SqlValues, NONE <- NULL,
  store <- StoreMap, pend <- PendMap, reply <- ans, failures <- nfails

(* The two statements of kv-set look like one: the store implements        *)
(* KVStore, in which a set takes effect at one instant, unless another     *)
(* operation on its key overtook it or one of its statements failed, and   *)
(* queries see the store as it is.  (For keys other than the empty string.)*)
ImplementsStore == Store!Spec

=============================================================================
