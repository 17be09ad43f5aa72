---------------------------- MODULE SessionProofs ----------------------------
(***************************************************************************)
(* Proofs about KeyValue and Session, for every number of browsers,        *)
(* threads, namespaces, keys, values, calls and failures: a key has one    *)
(* row; the two statements of kv-set implement the atomic store KVStore;   *)
(* sessions do not mix; and a session that is used by one call at a time   *)
(* is what its calls made of it.                                           *)
(***************************************************************************)
EXTENDS Session, FiniteSetTheorems, TLAPS

AllKeys == Keys \cup OwnKeys
AllValues == Values \cup OwnValues

(* A step of the store, called by an application or by gusher's modules.   *)
CallStep(t, K, V) ==
  \/ \E n \in Namespaces : kv_open(t, n)
  \/ kv_close(t)
  \/ \E k \in K, v \in V : kv_set(t, k, v)
  \/ Update(t) \/ Insert(t) \/ StatementFails(t) \/ CallFails(t)
  \/ \E k \in K : kv_del(t, k) \/ kv_get(t, k) \/ kv_exists(t, k)
  \/ kv_count(t) \/ kv_keys(t)

StoreStep == \E t \in Threads : CallStep(t, AllKeys, AllValues)

(* The unique constraint, as the rows show it.                             *)
RowsUnique ==
  \A r, s \in table : r.key # NULL /\ r.ns = s.ns /\ r.key = s.key => r = s

(* Every row was paid for by a call: so the numbers of rows stay in bounds.*)
Pending == {t \in Threads : pc[t] # "idle"}
CallsCounted == /\ IsFiniteSet(Pending)
                /\ nrows + Cardinality(Pending) <= nops

HandleOpen == \A t \in Threads : pc[t] # "idle" => handle[t] # NULL

(* A thread that goes on to its INSERT saw no row; if there is one now,    *)
(* another call has overtaken it, or its UPDATE failed.                    *)
AbsentUnlessOvertaken ==
  \A t \in Threads :
    pc[t] = "insert" /\ ~overtaken[t] /\ ~failed[t] =>
      Matching(handle[t], key[t]) = {}

RowsFinite == IsFiniteSet(table)

StoreInv == /\ TypeOK /\ RowsUnique /\ CallsCounted /\ HandleOpen
            /\ AbsentUnlessOvertaken /\ RowsFinite

-----------------------------------------------------------------------------
(* The rows a statement finds: none, or one.                               *)
LEMMA MatchingOne ==
  ASSUME RowsUnique, NEW n, NEW k
  PROVE  \/ Matching(n, k) = {}
         \/ \E r \in table : Matching(n, k) = {r} /\ r.ns = n /\ r.key = k
<1>1. SUFFICES ASSUME NEW r \in Matching(n, k)
               PROVE  Matching(n, k) = {r} /\ r.ns = n /\ r.key = k
  BY DEF Matching
<1>2. QED
  BY <1>1 DEF RowsUnique, Matching

(* pg_format_sql turns keys and values into what a row can hold.           *)
LEMMA PgFormat ==
  /\ \A k \in AllKeys : pg_format_sql(k) \in SqlKeys
  /\ \A v \in AllValues : pg_format_sql(v) \in SqlValues
  /\ NULL \in SqlKeys /\ NULL \in SqlValues
BY DEF AllKeys, AllValues, pg_format_sql, SqlKeys, SqlValues

(* The row after an UPDATE.                                                *)
NewRow(r, v) == [id |-> r.id, ns |-> r.ns, key |-> r.key, value |-> v]

(* A row with another value, as a record.                                  *)
LEMMA RowExcept ==
  ASSUME NEW r \in Rows, NEW v
  PROVE  [r EXCEPT !.value = v] = NewRow(r, v)
BY DEF Rows, NewRow

(* An UPDATE touches no row, or gives the one it finds the new value.      *)
LEMMA UpdateRows ==
  ASSUME TypeOK, RowsUnique, NEW t \in Threads, Update(t)
  PROVE  \/ Matching(handle[t], key[t]) = {} /\ UNCHANGED table
         \/ \E r \in table :
              /\ r.ns = handle[t] /\ r.key = key[t] /\ key[t] # NULL
              /\ Matching(handle[t], key[t]) = {r}
              /\ table' = (table \ {r}) \cup {NewRow(r, val[t])}
<1>1. CASE Matching(handle[t], key[t]) = {}
  BY <1>1 DEF Update
<1>2. CASE Matching(handle[t], key[t]) # {}
  <2>1. PICK r \in table : /\ Matching(handle[t], key[t]) = {r}
                           /\ r.ns = handle[t] /\ r.key = key[t]
    BY <1>2, MatchingOne
  <2>2. [r EXCEPT !.value = val[t]] = NewRow(r, val[t])
    BY RowExcept DEF TypeOK
  <2>3. table' = (table \ {r}) \cup {NewRow(r, val[t])}
    BY <2>1, <2>2 DEF Update
  <2>4. key[t] # NULL
    BY <2>1 DEF Matching
  <2>5. QED
    BY <2>1, <2>3, <2>4
<1>3. QED
  BY <1>1, <1>2

-----------------------------------------------------------------------------
(* StoreInv is preserved.  Most actions leave the rows and the sets in     *)
(* progress alone.                                                         *)
Quiet == UNCHANGED <<table, nrows, callVars>>

(* A step that leaves the table and the calls in progress alone.           *)
LEMMA QuietStep ==
  ASSUME StoreInv, NEW t \in Threads, Quiet, nops' \in {nops, nops + 1},
         nops' <= MaxOps, nfails' \in 0 .. MaxFails,
         handle' \in [Threads -> Namespaces \cup {NULL}],
         \A u \in Threads : pc[u] # "idle" => handle'[u] = handle[u]
  PROVE  StoreInv'
<1> USE ConstantsOK DEF StoreInv, Quiet, callVars
<1>1. TypeOK'
  BY DEF TypeOK
<1>2. RowsUnique'
  BY DEF RowsUnique
<1>3. CallsCounted'
  <2>1. Pending' = Pending
    BY DEF Pending
  <2>2. Cardinality(Pending) \in Nat
    BY FS_CardinalityType DEF CallsCounted
  <2>3. QED
    BY <2>1, <2>2 DEF CallsCounted, TypeOK
<1>4. HandleOpen'
  BY DEF HandleOpen
<1>5. AbsentUnlessOvertaken'
  BY DEF AbsentUnlessOvertaken, Matching
<1>6. RowsFinite'
  BY DEF RowsFinite
<1>7. QED
  BY <1>1, <1>2, <1>3, <1>4, <1>5, <1>6

(* A set begins.                                                           *)
LEMMA SetStep ==
  ASSUME StoreInv, NEW t \in Threads, NEW k \in AllKeys, NEW v \in AllValues,
         kv_set(t, k, v)
  PROVE  StoreInv'
<1> USE ConstantsOK, PgFormat DEF StoreInv, kv_set, Call
<1>1. TypeOK'
  BY DEF TypeOK
<1>2. RowsUnique'
  BY DEF RowsUnique
<1>3. CallsCounted'
  <2>1. Pending' = Pending \cup {t} /\ t \notin Pending
    BY DEF Pending, TypeOK
  <2>2. /\ IsFiniteSet(Pending') /\ Cardinality(Pending) \in Nat
        /\ Cardinality(Pending') = Cardinality(Pending) + 1
    BY <2>1, FS_AddElement, FS_CardinalityType DEF CallsCounted
  <2>3. QED
    BY <2>2 DEF CallsCounted, TypeOK
<1>4. HandleOpen'
  BY DEF HandleOpen, TypeOK
<1>5. AbsentUnlessOvertaken'
  BY DEF AbsentUnlessOvertaken, Matching, TypeOK
<1>6. RowsFinite'
  BY DEF RowsFinite
<1>7. QED
  BY <1>1, <1>2, <1>3, <1>4, <1>5, <1>6

(* A set returns: one call less in progress, and perhaps one row more.     *)
LEMMA ReturnCounted ==
  ASSUME StoreInv, NEW t \in Threads, pc[t] # "idle", Return(t),
         nrows' \in {nrows, nrows + 1}, UNCHANGED nops
  PROVE  CallsCounted' /\ nrows' \in 0 .. MaxOps
<1> USE ConstantsOK DEF StoreInv
<1>1. Pending' = Pending \ {t} /\ t \in Pending
  BY DEF Pending, TypeOK, Return
<1>2. /\ IsFiniteSet(Pending') /\ Cardinality(Pending) \in Nat
      /\ Cardinality(Pending') = Cardinality(Pending) - 1
      /\ Cardinality(Pending') \in Nat
  BY <1>1, FS_RemoveElement, FS_CardinalityType DEF CallsCounted
<1>3. QED
  BY <1>2 DEF CallsCounted, TypeOK

(* The UPDATE of kv-set preserves the invariant.                           *)
LEMMA UpdateStep ==
  ASSUME StoreInv, NEW t \in Threads, Update(t)
  PROVE  StoreInv'
<1> USE ConstantsOK, PgFormat DEF StoreInv
<1>1. CASE Matching(handle[t], key[t]) = {}
  <2>1. /\ UNCHANGED <<table, nrows, handle, key, val, nops, nfails, overtaken,
                       failed>>
        /\ pc[t] = "update" /\ pc' = [pc EXCEPT ![t] = "insert"]
    BY <1>1, UpdateRows DEF Update
  <2>2. TypeOK'
    BY <2>1 DEF TypeOK
  <2>3. CallsCounted'
    <3>1. Pending' = Pending
      BY <2>1 DEF Pending, TypeOK
    <3>2. QED
      BY <2>1, <3>1 DEF CallsCounted
  <2>4. AbsentUnlessOvertaken'
    BY <1>1, <2>1 DEF AbsentUnlessOvertaken, Matching, TypeOK
  <2>5. QED
    BY <2>1, <2>2, <2>3, <2>4 DEF RowsUnique, HandleOpen, RowsFinite, TypeOK
<1>2. CASE Matching(handle[t], key[t]) # {}
  <2>1. PICK r \in table :
          /\ r.ns = handle[t] /\ r.key = key[t] /\ key[t] # NULL
          /\ Matching(handle[t], key[t]) = {r}
          /\ table' = (table \ {r}) \cup {NewRow(r, val[t])}
    BY <1>2, UpdateRows
  <2>2. /\ UNCHANGED <<nrows, handle, nops, nfails, failed>>
        /\ pc[t] = "update" /\ Return(t)
        /\ overtaken' = Overtake(t, handle[t], key[t])
    BY <1>2 DEF Update
  <2>3. TypeOK'
    <3>1. NewRow(r, val[t]) \in Rows
      BY DEF NewRow, Rows, TypeOK
    <3>2. overtaken' \in [Threads -> BOOLEAN]
      BY <2>2 DEF Overtake, TypeOK
    <3>3. QED
      BY <2>1, <2>2, <3>1, <3>2 DEF TypeOK, Return
  <2>4. RowsUnique'
    BY <2>1 DEF RowsUnique, NewRow
  <2>5. CallsCounted'
    BY <2>2, ReturnCounted
  <2>6. HandleOpen'
    BY <2>2 DEF HandleOpen, Return, TypeOK
  <2>7. AbsentUnlessOvertaken'
    <3>1. SUFFICES ASSUME NEW u \in Threads, pc'[u] = "insert",
                          ~overtaken'[u], ~failed'[u]
                   PROVE  Matching(handle[u], key[u])' = {}
      BY DEF AbsentUnlessOvertaken
    <3>2. u # t /\ pc[u] = "insert" /\ UNCHANGED <<handle, key[u]>>
      BY <2>2, <3>1 DEF Return, TypeOK
    <3>3. ~overtaken[u] /\ ~(handle[u] = handle[t] /\ key[u] = key[t])
      BY <2>2, <3>1, <3>2 DEF Overtake, TypeOK
    <3>4. Matching(handle[u], key[u]) = {}
      BY <2>2, <3>1, <3>2, <3>3 DEF AbsentUnlessOvertaken
    <3>5. QED
      BY <2>1, <3>2, <3>3, <3>4 DEF Matching, NewRow
  <2>8. RowsFinite'
    BY <2>1, FS_RemoveElement, FS_AddElement DEF RowsFinite
  <2>9. QED
    BY <2>3, <2>4, <2>5, <2>6, <2>7, <2>8
<1>3. QED
  BY <1>1, <1>2

(* The INSERT of kv-set preserves the invariant: it adds a row only where  *)
(* there is none.                                                          *)
LEMMA InsertStep ==
  ASSUME StoreInv, NEW t \in Threads, Insert(t)
  PROVE  StoreInv'
<1> USE ConstantsOK, PgFormat DEF StoreInv
<1>1. /\ UNCHANGED <<handle, nops, nfails, failed>>
      /\ pc[t] = "insert" /\ Return(t)
  BY DEF Insert
<1>2. HandleOpen'
  BY <1>1 DEF HandleOpen, Return, TypeOK
<1>3. CASE ~Unique(handle[t], key[t])
  <2>1. UNCHANGED <<nrows, table, overtaken>>
    BY <1>3 DEF Insert
  <2>2. CallsCounted'
    BY <1>1, <2>1, ReturnCounted
  <2>3. TypeOK'
    BY <1>1, <2>1 DEF TypeOK, Return
  <2>4. AbsentUnlessOvertaken'
    BY <1>1, <2>1 DEF AbsentUnlessOvertaken, Matching, Return, TypeOK
  <2>5. QED
    BY <1>2, <2>1, <2>2, <2>3, <2>4 DEF RowsUnique, RowsFinite
<1>4. CASE Unique(handle[t], key[t])
  <2> DEFINE row == [id |-> nrows + 1, ns |-> handle[t], key |-> key[t],
                     value |-> val[t]]
  <2>1. /\ nrows' = nrows + 1 /\ table' = table \cup {row}
        /\ overtaken' = Overtake(t, handle[t], key[t])
    BY <1>4 DEF Insert
  <2>2. CallsCounted' /\ nrows' \in 0 .. MaxOps
    BY <1>1, <2>1, ReturnCounted
  <2>3. TypeOK'
    <3>1. row \in Rows
      <4>1. nrows + 1 \in 1 .. MaxOps
        BY <2>1, <2>2 DEF TypeOK
      <4>2. handle[t] \in Namespaces
        BY <1>1 DEF HandleOpen, TypeOK
      <4>3. QED
        BY <4>1, <4>2 DEF Rows, TypeOK
    <3>2. overtaken' \in [Threads -> BOOLEAN]
      BY <2>1 DEF Overtake, TypeOK
    <3>3. table' \subseteq Rows
      BY <2>1, <3>1 DEF TypeOK
    <3>4. QED
      BY <1>1, <2>2, <3>2, <3>3 DEF TypeOK, Return
  <2>4. RowsUnique'
    BY <1>4, <2>1 DEF RowsUnique, Unique, Matching
  <2>5. AbsentUnlessOvertaken'
    <3>1. SUFFICES ASSUME NEW u \in Threads, pc'[u] = "insert",
                          ~overtaken'[u], ~failed'[u]
                   PROVE  Matching(handle[u], key[u])' = {}
      BY DEF AbsentUnlessOvertaken
    <3>2. u # t /\ pc[u] = "insert" /\ UNCHANGED <<handle, key[u]>>
      BY <1>1, <3>1 DEF Return, TypeOK
    <3>3. ~overtaken[u] /\ ~(handle[u] = handle[t] /\ key[u] = key[t])
      BY <2>1, <3>1, <3>2 DEF Overtake, TypeOK
    <3>4. Matching(handle[u], key[u]) = {}
      BY <1>1, <3>1, <3>2, <3>3 DEF AbsentUnlessOvertaken
    <3>5. QED
      BY <2>1, <3>2, <3>3, <3>4 DEF Matching
  <2>6. RowsFinite'
    BY <2>1, FS_AddElement DEF RowsFinite
  <2>7. QED
    BY <1>2, <2>2, <2>3, <2>4, <2>5, <2>6
<1>5. QED
  BY <1>3, <1>4

(* A statement that fails preserves the invariant.                         *)
LEMMA FailsStep ==
  ASSUME StoreInv, NEW t \in Threads, StatementFails(t)
  PROVE  StoreInv'
<1> USE ConstantsOK, PgFormat DEF StoreInv
<1>1. /\ UNCHANGED <<table, nrows, handle, nops, overtaken>>
      /\ pc[t] # "idle" /\ failed' = [failed EXCEPT ![t] = TRUE]
      /\ nfails' \in 0 .. MaxFails
  BY DEF StatementFails, TypeOK
<1>2. CASE pc[t] = "update"
  <2>1. pc' = [pc EXCEPT ![t] = "insert"] /\ UNCHANGED <<key, val>>
    BY <1>2 DEF StatementFails
  <2>2. TypeOK'
    BY <1>1, <2>1 DEF TypeOK
  <2>3. CallsCounted'
    <3>1. Pending' = Pending
      BY <1>1, <2>1 DEF Pending, TypeOK
    <3>2. QED
      BY <1>1, <3>1 DEF CallsCounted
  <2>4. AbsentUnlessOvertaken'
    BY <1>1, <2>1 DEF AbsentUnlessOvertaken, Matching, TypeOK
  <2>5. QED
    BY <1>1, <2>1, <2>2, <2>3, <2>4 DEF RowsUnique, RowsFinite, HandleOpen, TypeOK
<1>3. CASE pc[t] # "update"
  <2>1. Return(t)
    BY <1>3 DEF StatementFails
  <2>2. TypeOK'
    BY <1>1, <2>1 DEF TypeOK, Return
  <2>3. CallsCounted'
    BY <1>1, <2>1, ReturnCounted
  <2>4. AbsentUnlessOvertaken'
    BY <1>1, <2>1 DEF AbsentUnlessOvertaken, Matching, Return, TypeOK
  <2>5. QED
    BY <1>1, <2>1, <2>2, <2>3, <2>4
    DEF RowsUnique, RowsFinite, HandleOpen, Return, TypeOK
<1>4. QED
  BY <1>2, <1>3

(* kv-del preserves the invariant.                                         *)
LEMMA DeleteStep ==
  ASSUME StoreInv, NEW t \in Threads, NEW k \in AllKeys, kv_del(t, k)
  PROVE  StoreInv'
<1> USE ConstantsOK DEF StoreInv
<1> DEFINE s == pg_format_sql(k)
<1>1. /\ table' = table \ Matching(handle[t], s)
      /\ overtaken' = Overtake(t, handle[t], s)
      /\ UNCHANGED <<nrows, handle, pc, key, val, nfails, failed>>
      /\ nops < MaxOps /\ nops' = nops + 1
  BY DEF kv_del, Call
<1>2. TypeOK'
  <2>1. overtaken' \in [Threads -> BOOLEAN]
    BY <1>1 DEF Overtake, TypeOK
  <2>2. QED
    BY <1>1, <2>1 DEF TypeOK
<1>3. CallsCounted'
  <2>1. Pending' = Pending
    BY <1>1 DEF Pending
  <2>2. Cardinality(Pending) \in Nat
    BY FS_CardinalityType DEF CallsCounted
  <2>3. QED
    BY <1>1, <2>1, <2>2 DEF CallsCounted, TypeOK
<1>4. AbsentUnlessOvertaken'
  BY <1>1 DEF AbsentUnlessOvertaken, Matching, Overtake, TypeOK
<1>5. RowsFinite'
  BY <1>1, FS_Difference DEF RowsFinite
<1>6. QED
  BY <1>1, <1>2, <1>3, <1>4, <1>5 DEF RowsUnique, HandleOpen

(* Whatever the thread calls.                                              *)
LEMMA StoreInvStep ==
  ASSUME StoreInv, [StoreStep]_vars
  PROVE  StoreInv'
<1> USE ConstantsOK DEF StoreInv
<1>1. CASE UNCHANGED vars
  BY <1>1 DEF vars, TypeOK, RowsUnique, CallsCounted, Pending, HandleOpen,
              AbsentUnlessOvertaken, Matching, RowsFinite
<1>2. SUFFICES ASSUME NEW t \in Threads, CallStep(t, AllKeys, AllValues)
               PROVE  StoreInv'
  BY <1>1 DEF StoreStep
<1>3. ASSUME NEW n \in Namespaces, kv_open(t, n)
      PROVE  StoreInv'
  BY <1>3, QuietStep DEF kv_open, Quiet, HandleOpen, TypeOK
<1>4. CASE kv_close(t)
  BY <1>4, QuietStep DEF kv_close, Quiet, TypeOK
<1>5. CASE CallFails(t)
  BY <1>5, QuietStep DEF CallFails, Call, Quiet, TypeOK
<1>6. ASSUME NEW a, Answer(t, a)
      PROVE  StoreInv'
  BY <1>6, QuietStep DEF Answer, Call, Quiet, TypeOK
<1>7. CASE \E k \in AllKeys : kv_get(t, k) \/ kv_exists(t, k)
  BY <1>6, <1>7 DEF kv_get, kv_exists
<1>8. CASE kv_count(t) \/ kv_keys(t)
  BY <1>6, <1>8 DEF kv_count, kv_keys
<1>9. QED
  BY <1>2, <1>3, <1>4, <1>5, <1>7, <1>8, SetStep, UpdateStep, InsertStep,
     FailsStep, DeleteStep
  DEF CallStep

(* The empty store satisfies the invariant.                                *)
LEMMA StoreInvInit == Init => StoreInv
<1> SUFFICES ASSUME Init PROVE StoreInv
  OBVIOUS
<1> USE ConstantsOK, PgFormat DEF Init
<1>1. TypeOK
  BY DEF TypeOK
<1>2. CallsCounted
  <2>1. Pending = {}
    BY DEF Pending
  <2>2. QED
    BY <2>1, FS_EmptySet DEF CallsCounted
<1>3. QED
  BY <1>1, <1>2, FS_EmptySet DEF StoreInv, RowsUnique, HandleOpen,
     AbsentUnlessOvertaken, RowsFinite

(* A step of the store's specification is a step that a session can make   *)
(* it take too.                                                            *)
LEMMA NextIsStoreStep ==
  Next => StoreStep /\ \E t \in Threads : CallStep(t, Keys, Values)
BY DEF Next, StoreStep, CallStep, AllKeys, AllValues

(* The inductive invariant holds.                                          *)
THEOREM StoreInvAlways == Spec => []StoreInv
<1>1. StoreInv /\ [Next]_vars => StoreInv'
  BY StoreInvStep, NextIsStoreStep
<1>2. QED
  BY <1>1, StoreInvInit, PTL DEF Spec

(* A key other than the empty string has at most one row, however kv-set,  *)
(* kv-del and failing statements of any number of threads interleave, and  *)
(* all variables have their types.                                         *)
THEOREM OneRow == Spec => []OneRowPerKey
<1>1. StoreInv => OneRowPerKey
  BY DEF StoreInv, OneRowPerKey, RowsUnique
<1>2. QED
  BY <1>1, StoreInvAlways, PTL

-----------------------------------------------------------------------------
(* The refinement of KVStore, for keys other than the empty string: then   *)
(* no key is NULL.                                                         *)
NoNullKeys == /\ \A r \in table : r.key # NULL
              /\ \A t \in Threads : pc[t] # "idle" => key[t] # NULL

RefInv == StoreInv /\ NoNullKeys

(* Keys other than the empty string are stored as they are.                *)
LEMMA NamedKeys ==
  ASSUME EMPTY \notin AllKeys
  PROVE  \A k \in AllKeys : pg_format_sql(k) = k /\ k \in StoreKeys
BY ConstantsOK DEF AllKeys, pg_format_sql, StoreKeys, SqlKeys

(* Rows come from calls in progress, and these from kv-set.                *)
LEMMA RowSource ==
  ASSUME StoreInv, NEW t \in Threads, NEW K, NEW V, CallStep(t, K, V)
  PROVE  \A r \in table' :
           r \in table \/ (pc[t] # "idle" /\ r.key = key[t] /\ r.value = val[t])
<1> USE DEF StoreInv
<1>1. CASE Update(t)
  <2>1. pc[t] # "idle"
    BY <1>1 DEF Update
  <2>2. QED
    BY <1>1, <2>1, UpdateRows DEF NewRow
<1>2. CASE Insert(t)
  BY <1>2 DEF Insert
<1>3. ASSUME NEW k \in K, kv_del(t, k)
      PROVE  table' \subseteq table
  BY <1>3 DEF kv_del
<1>4. ASSUME NEW a, Answer(t, a)
      PROVE  UNCHANGED table
  BY <1>4 DEF Answer
<1>5. QED
  BY <1>1, <1>2, <1>3, <1>4
  DEF CallStep, kv_open, kv_close, kv_set, StatementFails, CallFails, kv_get,
      kv_exists, kv_count, kv_keys

(* A thread is in a kv-set only if it began one; key and value stay what   *)
(* they were.                                                              *)
LEMMA PendSource ==
  ASSUME StoreInv, NEW t \in Threads, NEW K, NEW V, CallStep(t, K, V)
  PROVE  \/ \E k \in K, v \in V : kv_set(t, k, v)
         \/ \A u \in Threads :
              pc'[u] # "idle" => pc[u] # "idle" /\ UNCHANGED <<key[u], val[u]>>
<1> USE DEF StoreInv, TypeOK
<1>1. CASE Update(t) \/ Insert(t) \/ StatementFails(t)
  BY <1>1 DEF Update, Insert, StatementFails, Return
<1>2. ASSUME NEW k \in K, kv_del(t, k)
      PROVE  UNCHANGED <<pc, key, val>>
  BY <1>2 DEF kv_del
<1>3. ASSUME NEW a, Answer(t, a)
      PROVE  UNCHANGED <<pc, key, val>>
  BY <1>3 DEF Answer, callVars
<1>4. QED
  BY <1>1, <1>2, <1>3
  DEF CallStep, kv_open, kv_close, CallFails, callVars, kv_get, kv_exists,
      kv_count, kv_keys

(* No row gets the key NULL if no key is the empty string.                 *)
LEMMA NoNullKeysStep ==
  ASSUME EMPTY \notin AllKeys, RefInv, [StoreStep]_vars
  PROVE  NoNullKeys'
<1> USE DEF RefInv, NoNullKeys
<1>1. CASE UNCHANGED vars
  BY <1>1 DEF vars
<1>2. SUFFICES ASSUME NEW t \in Threads, CallStep(t, AllKeys, AllValues)
               PROVE  NoNullKeys'
  BY <1>1 DEF StoreStep
<1>3. \A r \in table' : r.key # NULL
  BY <1>2, RowSource
<1>4. ASSUME NEW k \in AllKeys, NEW v \in AllValues, kv_set(t, k, v)
      PROVE  NoNullKeys'
  BY <1>3, <1>4, NamedKeys DEF kv_set, StoreInv, TypeOK, StoreKeys
<1>5. QED
  BY <1>2, <1>3, <1>4, PendSource

(* The value a cell stands for, and the cells a statement changes.         *)
RowsOf(n, k) == {r \in table : r.ns = n /\ r.key = k}

(* A cell after a step, in terms of the rows after it.                     *)
LEMMA CellNext ==
  ASSUME NEW n, NEW k
  PROVE  Cell(n, k)' = IF RowsOf(n, k)' = {} THEN ABSENT
                       ELSE (CHOOSE r \in RowsOf(n, k)' : TRUE).value
BY DEF Cell, RowsOf

(* The cell of a key is the value of its only row.                         *)
LEMMA CellValue ==
  ASSUME RowsUnique, NEW n, NEW k, k # NULL
  PROVE  /\ RowsOf(n, k) = Matching(n, k)
         /\ RowsOf(n, k) = {} => Cell(n, k) = ABSENT
         /\ \A r \in RowsOf(n, k) : Cell(n, k) = r.value
<1>1. RowsOf(n, k) = Matching(n, k)
  BY DEF RowsOf, Matching
<1>2. RowsOf(n, k) = {} => Cell(n, k) = ABSENT
  BY DEF RowsOf, Cell
<1>3. ASSUME NEW r \in RowsOf(n, k)
      PROVE  Cell(n, k) = r.value
  <2>1. RowsOf(n, k) = {r}
    BY <1>3 DEF RowsOf, RowsUnique
  <2>2. (CHOOSE x \in RowsOf(n, k) : TRUE) = r
    BY <2>1
  <2>3. QED
    BY <2>1, <2>2 DEF RowsOf, Cell
<1>4. QED
  BY <1>1, <1>2, <1>3

(* A cell is absent exactly when the key has no row; no value looks        *)
(* absent.                                                                 *)
LEMMA CellTyped ==
  ASSUME TypeOK, RowsUnique, NEW n, NEW k, k # NULL
  PROVE  /\ Cell(n, k) = ABSENT <=> RowsOf(n, k) = {}
         /\ ABSENT \notin SqlValues
<1>1. ABSENT \notin SqlValues
  BY ConstantsOK DEF SqlValues
<1>2. \A r \in RowsOf(n, k) : r.value \in SqlValues
  BY DEF RowsOf, TypeOK, Rows
<1>3. QED
  BY <1>1, <1>2, CellValue

(* The same rows make the same cell.                                       *)
LEMMA CellSame ==
  ASSUME NEW n, NEW k, RowsOf(n, k)' = RowsOf(n, k)
  PROVE  Cell(n, k)' = Cell(n, k)
<1>1. Cell(n, k) = IF RowsOf(n, k) = {} THEN ABSENT
                   ELSE (CHOOSE r \in RowsOf(n, k) : TRUE).value
  BY DEF Cell, RowsOf
<1>2. QED
  BY <1>1, CellNext

(* A statement that changes the rows of one cell only changes that cell.   *)
LEMMA OneCellChanges ==
  ASSUME RowsUnique, RowsUnique', NEW n \in Namespaces, NEW k \in StoreKeys, NEW v,
         \A m, j : <<m, j>> # <<n, k>> => RowsOf(m, j)' = RowsOf(m, j),
         Cell(n, k)' = v
  PROVE  StoreMap' = [StoreMap EXCEPT ![<<n, k>>] = v]
<1>1. \A m \in Namespaces, j \in StoreKeys :
        <<m, j>> # <<n, k>> => Cell(m, j)' = Cell(m, j)
  BY CellSame
<1>2. \A c \in Namespaces \X StoreKeys :
        StoreMap'[c] = IF c = <<n, k>> THEN v ELSE StoreMap[c]
  BY <1>1 DEF StoreMap
<1>3. QED
  BY <1>2 DEF StoreMap

(* A step that leaves the table alone leaves the abstract store alone.     *)
LEMMA SameRows == UNCHANGED table => UNCHANGED StoreMap
BY DEF StoreMap, Cell

(* A thread's kv-set in progress.                                          *)
LEMMA PendOf ==
  ASSUME RefInv, NEW t \in Threads
  PROVE  /\ pc[t] = "idle" => PendMap[t] = NULL
         /\ pc[t] # "idle" =>
              /\ PendMap[t] = Pend(<<handle[t], key[t]>>, val[t], overtaken[t],
                                   failed[t])
              /\ PendMap[t] # NULL
              /\ PendMap[t].cell = <<handle[t], key[t]>>
              /\ PendMap[t].val = val[t] /\ PendMap[t].overtaken = overtaken[t]
              /\ PendMap[t].failed = failed[t]
              /\ handle[t] \in Namespaces /\ key[t] \in StoreKeys
<1> USE DEF RefInv, StoreInv
<1>1. CASE pc[t] = "idle"
  BY <1>1 DEF PendMap
<1>2. CASE pc[t] # "idle"
  <2>1. handle[t] \in Namespaces /\ key[t] \in StoreKeys
    BY <1>2 DEF HandleOpen, TypeOK, NoNullKeys, StoreKeys
  <2>2. PendMap[t] = Pend(<<handle[t], key[t]>>, val[t], overtaken[t], failed[t])
    BY <1>2 DEF PendMap
  <2>3. PendMap[t] # NULL
    BY <2>1, <2>2, NullIsNoCall DEF TypeOK
  <2>4. QED
    BY <1>2, <2>1, <2>2, <2>3 DEF Pend
<1>3. QED
  BY <1>1, <1>2

(* Calls that are overtaken here are overtaken there.                      *)
LEMMA OvertakeMap ==
  ASSUME RefInv, NEW t \in Threads, NEW n, NEW k, UNCHANGED <<handle, failed>>,
         overtaken' = Overtake(t, n, k), NEW u \in Threads,
         UNCHANGED <<pc[u], key[u], val[u]>>
  PROVE  PendMap'[u] = Store!Overtake(PendMap, t, <<n, k>>)[u]
<1> USE DEF RefInv, StoreInv
<1>1. overtaken'[u] = (overtaken[u] \/ (/\ u # t /\ pc[u] # "idle"
                                        /\ handle[u] = n /\ key[u] = k))
  BY DEF Overtake
<1>2. Store!Overtake(PendMap, t, <<n, k>>)[u] =
        IF u # t /\ PendMap[u] # NULL /\ PendMap[u].cell = <<n, k>>
          THEN Pend(PendMap[u].cell, PendMap[u].val, TRUE, PendMap[u].failed)
          ELSE PendMap[u]
  BY DEF Store!Overtake, Store!Mark, Pend
<1>3. CASE pc[u] = "idle"
  <2>1. PendMap'[u] = NULL
    BY <1>3 DEF PendMap
  <2>2. QED
    BY <1>2, <1>3, <2>1, PendOf
<1>4. CASE pc[u] # "idle"
  <2>1. PendMap'[u] = Pend(<<handle[u], key[u]>>, val[u], overtaken'[u],
                           failed[u])
    BY <1>4 DEF PendMap
  <2>2. /\ PendMap[u] = Pend(<<handle[u], key[u]>>, val[u], overtaken[u],
                             failed[u])
        /\ PendMap[u] # NULL /\ PendMap[u].cell = <<handle[u], key[u]>>
    BY <1>4, PendOf
  <2>3. CASE u # t /\ handle[u] = n /\ key[u] = k
    <3>1. overtaken'[u] = TRUE
      BY <1>1, <1>4, <2>3
    <3>2. PendMap'[u] = Pend(<<handle[u], key[u]>>, val[u], TRUE, failed[u])
      BY <2>1, <3>1, Zenon
    <3>3. PendMap'[u] = Pend(PendMap[u].cell, PendMap[u].val, TRUE,
                             PendMap[u].failed)
      BY <2>2, <3>2 DEF Pend
    <3>4. QED
      BY <1>2, <2>2, <2>3, <3>3
  <2>4. CASE ~(u # t /\ handle[u] = n /\ key[u] = k)
    <3>1. overtaken'[u] = overtaken[u]
      BY <1>1, <1>4, <2>4 DEF TypeOK
    <3>2. PendMap'[u] = PendMap[u]
      BY <2>1, <2>2, <3>1
    <3>3. u = t \/ <<handle[u], key[u]>> # <<n, k>>
      BY <2>4
    <3>4. QED
      BY <1>2, <2>2, <3>2, <3>3
  <2>5. QED
    BY <2>3, <2>4
<1>5. QED
  BY <1>3, <1>4

(* A kv-set that returns is no longer pending in the abstract store.       *)
LEMMA PendReturned ==
  ASSUME RefInv, NEW t \in Threads, Return(t),
         UNCHANGED <<handle, failed, overtaken>>
  PROVE  PendMap' = [PendMap EXCEPT ![t] = NULL]
BY DEF PendMap, Return, RefInv, StoreInv, TypeOK

(* A step that leaves the calls alone leaves the pending sets alone.       *)
LEMMA SamePend ==
  ASSUME UNCHANGED callVars,
         \A u \in Threads : pc[u] # "idle" => handle'[u] = handle[u]
  PROVE  UNCHANGED PendMap
BY DEF PendMap, callVars

(* A set takes effect: the UPDATE found its row, or the INSERT made it.    *)
LEMMA AppliesMap ==
  ASSUME RefInv, NEW t \in Threads, pc[t] # "idle", Return(t),
         UNCHANGED <<handle, ans, nfails, failed>>,
         overtaken' = Overtake(t, handle[t], key[t]),
         StoreMap' = [StoreMap EXCEPT ![<<handle[t], key[t]>>] = val[t]]
  PROVE  Store!Apply(t)
<1> DEFINE c == <<handle[t], key[t]>>
<1>1. /\ PendMap[t] # NULL /\ PendMap[t].cell = c /\ PendMap[t].val = val[t]
  BY PendOf
<1>2. ASSUME NEW u \in Threads
      PROVE  PendMap'[u] = [Store!Overtake(PendMap, t, c) EXCEPT ![t] = NULL][u]
  <2>1. CASE u = t
    BY <2>1 DEF PendMap, Return, RefInv, StoreInv, TypeOK, Store!Overtake
  <2>2. CASE u # t
    <3>1. UNCHANGED <<pc[u], key[u], val[u]>>
      BY <2>2 DEF Return, RefInv, StoreInv, TypeOK
    <3>2. PendMap'[u] = Store!Overtake(PendMap, t, c)[u]
      BY <3>1, OvertakeMap
    <3>3. QED
      BY <2>2, <3>2 DEF Store!Overtake
  <2>3. QED
    BY <2>1, <2>2
<1>3. PendMap' = [Store!Overtake(PendMap, t, c) EXCEPT ![t] = NULL]
  BY <1>2 DEF PendMap, Store!Overtake
<1>4. QED
  BY <1>1, <1>3 DEF Store!Apply

(* What the two statements do to the cells: the UPDATE finds its row, or   *)
(* leaves all to the INSERT; the INSERT makes it, or is refused.           *)
LEMMA UpdateEffect ==
  ASSUME StoreInv, NEW t \in Threads, Update(t), NEW n, NEW k,
         n = handle[t], k = key[t], k # NULL
  PROVE  \/ /\ UNCHANGED <<table, key, val, overtaken>>
            /\ pc' = [pc EXCEPT ![t] = "insert"]
         \/ /\ Return(t) /\ overtaken' = Overtake(t, n, k)
            /\ Cell(n, k)' = val[t]
            /\ \A m, j : <<m, j>> # <<n, k>> => RowsOf(m, j)' = RowsOf(m, j)
<1> USE DEF StoreInv
<1>1. CASE Matching(n, k) = {}
  BY <1>1, UpdateRows DEF Update
<1>2. CASE Matching(n, k) # {}
  <2>1. PICK r \in table : /\ r.ns = n /\ r.key = k
                           /\ table' = (table \ {r}) \cup {NewRow(r, val[t])}
                           /\ Matching(n, k) = {r}
    BY <1>2, UpdateRows
  <2>2. Return(t) /\ overtaken' = Overtake(t, n, k)
    BY <1>2 DEF Update
  <2>3. \A m, j : <<m, j>> # <<n, k>> => RowsOf(m, j)' = RowsOf(m, j)
    BY <2>1 DEF RowsOf, NewRow
  <2>4. Cell(n, k)' = val[t]
    <3>1. RowsOf(n, k)' = {NewRow(r, val[t])}
      BY <2>1 DEF RowsOf, Matching, NewRow
    <3>2. (CHOOSE x \in RowsOf(n, k)' : TRUE) = NewRow(r, val[t])
      BY <3>1
    <3>3. Cell(n, k)' = NewRow(r, val[t]).value
      BY <3>1, <3>2, CellNext
    <3>4. QED
      BY <3>3 DEF NewRow
  <2>5. QED
    BY <2>2, <2>3, <2>4
<1>3. QED
  BY <1>1, <1>2

(* The INSERT of a kv-set writes its cell and no other, or meets the       *)
(* unique constraint, and then the set was overtaken or its UPDATE failed. *)
LEMMA InsertEffect ==
  ASSUME StoreInv, NEW t \in Threads, Insert(t), NEW n, NEW k,
         n = handle[t], k = key[t], k # NULL
  PROVE  \/ /\ UNCHANGED <<table, overtaken>> /\ (overtaken[t] \/ failed[t])
         \/ /\ overtaken' = Overtake(t, n, k) /\ Cell(n, k)' = val[t]
            /\ \A m, j : <<m, j>> # <<n, k>> => RowsOf(m, j)' = RowsOf(m, j)
<1> USE DEF StoreInv
<1>1. CASE ~Unique(n, k)
  <2>1. UNCHANGED <<table, overtaken>>
    BY <1>1 DEF Insert
  <2>2. overtaken[t] \/ failed[t]
    BY <1>1 DEF AbsentUnlessOvertaken, Insert, Unique
  <2>3. QED
    BY <2>1, <2>2
<1>2. CASE Unique(n, k)
  <2> DEFINE row == [id |-> nrows + 1, ns |-> n, key |-> k, value |-> val[t]]
  <2>1. table' = table \cup {row} /\ overtaken' = Overtake(t, n, k)
    BY <1>2 DEF Insert
  <2>2. \A m, j : <<m, j>> # <<n, k>> => RowsOf(m, j)' = RowsOf(m, j)
    BY <2>1 DEF RowsOf
  <2>3. Cell(n, k)' = val[t]
    <3>1. RowsOf(n, k)' = {row}
      BY <1>2, <2>1 DEF RowsOf, Unique, Matching
    <3>2. (CHOOSE x \in RowsOf(n, k)' : TRUE) = row
      BY <3>1
    <3>3. Cell(n, k)' = row.value
      BY <3>1, <3>2, CellNext
    <3>4. QED
      BY <3>3
  <2>4. QED
    BY <2>1, <2>2, <2>3
<1>3. QED
  BY <1>1, <1>2

(* The UPDATE is the moment at which an abstract set takes effect, or      *)
(* nothing yet.                                                            *)
LEMMA UpdateMap ==
  ASSUME RefInv, StoreInv', NEW t \in Threads, Update(t),
         NEW n, NEW k, n = handle[t], k = key[t]
  PROVE  Store!Apply(t) \/ UNCHANGED <<StoreMap, PendMap, ans, nfails>>
<1> USE DEF RefInv, StoreInv
<1>1. /\ pc[t] = "update"
      /\ UNCHANGED <<nrows, handle, ans, nops, nfails, failed>>
  BY DEF Update
<1>2. n \in Namespaces /\ k \in StoreKeys /\ k # NULL
  BY <1>1, PendOf DEF StoreKeys
<1>3. CASE /\ UNCHANGED <<table, key, val, overtaken>>
           /\ pc' = [pc EXCEPT ![t] = "insert"]
  <2>1. UNCHANGED PendMap
    BY <1>1, <1>3 DEF PendMap, TypeOK
  <2>2. QED
    BY <1>1, <1>3, <2>1, SameRows
<1>4. CASE /\ Return(t) /\ overtaken' = Overtake(t, n, k)
           /\ Cell(n, k)' = val[t]
           /\ \A m, j : <<m, j>> # <<n, k>> => RowsOf(m, j)' = RowsOf(m, j)
  <2>1. StoreMap' = [StoreMap EXCEPT ![<<n, k>>] = val[t]]
    BY <1>2, <1>4, OneCellChanges
  <2>2. QED
    BY <1>1, <1>4, <2>1, AppliesMap
<1>5. QED
  BY <1>2, <1>3, <1>4, UpdateEffect

(* An INSERT that the constraint refuses comes from a set that was         *)
(* overtaken, or whose UPDATE failed: it may be without effect.            *)
LEMMA InsertMap ==
  ASSUME RefInv, StoreInv', NEW t \in Threads, Insert(t),
         NEW n, NEW k, n = handle[t], k = key[t]
  PROVE  Store!Apply(t) \/ Store!Absorb(t)
<1> USE DEF RefInv, StoreInv
<1>1. /\ pc[t] = "insert" /\ Return(t)
      /\ UNCHANGED <<handle, ans, nops, nfails, failed>>
  BY DEF Insert
<1>2. n \in Namespaces /\ k \in StoreKeys /\ k # NULL
  BY <1>1, PendOf DEF StoreKeys
<1>3. CASE UNCHANGED <<table, overtaken>> /\ (overtaken[t] \/ failed[t])
  <2>1. PendMap[t] # NULL /\ (PendMap[t].overtaken \/ PendMap[t].failed)
    BY <1>1, <1>3, PendOf
  <2>2. QED
    BY <1>1, <1>3, <2>1, SameRows, PendReturned DEF Store!Absorb
<1>4. CASE /\ overtaken' = Overtake(t, n, k) /\ Cell(n, k)' = val[t]
           /\ \A m, j : <<m, j>> # <<n, k>> => RowsOf(m, j)' = RowsOf(m, j)
  <2>1. StoreMap' = [StoreMap EXCEPT ![<<n, k>>] = val[t]]
    BY <1>2, <1>4, OneCellChanges
  <2>2. QED
    BY <1>1, <1>4, <2>1, AppliesMap
<1>5. QED
  BY <1>2, <1>3, <1>4, InsertEffect

(* A failing statement is a failure of the abstract set.                   *)
LEMMA FailsMap ==
  ASSUME RefInv, NEW t \in Threads, StatementFails(t)
  PROVE  Store!FailSet(t)
<1> USE DEF RefInv, StoreInv
<1>1. /\ pc[t] # "idle" /\ failed' = [failed EXCEPT ![t] = TRUE]
      /\ UNCHANGED <<table, handle, ans, overtaken>> /\ nfails' = nfails + 1
  BY DEF StatementFails
<1>2. CASE pc[t] = "update"
  <2>1. pc' = [pc EXCEPT ![t] = "insert"] /\ UNCHANGED <<key, val>>
    BY <1>2 DEF StatementFails
  <2>2. PendMap'[t] = Pend(<<handle[t], key[t]>>, val[t], overtaken[t], TRUE)
    BY <1>1, <2>1 DEF PendMap, TypeOK
  <2>3. PendMap'[t] = Store!Mark(PendMap[t], PendMap[t].overtaken, TRUE)
    BY <1>1, <2>2, PendOf DEF Store!Mark, Pend
  <2>4. \A u \in Threads \ {t} : PendMap'[u] = PendMap[u]
    BY <1>1, <2>1 DEF PendMap, TypeOK
  <2>5. PendMap' = [PendMap EXCEPT
                      ![t] = Store!Mark(PendMap[t], PendMap[t].overtaken, TRUE)]
    BY <2>3, <2>4 DEF PendMap
  <2>6. QED
    BY <1>1, <2>5, PendOf, SameRows DEF Store!FailSet
<1>3. CASE pc[t] # "update"
  <2>1. Return(t)
    BY <1>3 DEF StatementFails
  <2>2. PendMap' = [PendMap EXCEPT ![t] = NULL]
    BY <1>1, <2>1 DEF PendMap, Return, TypeOK
  <2>3. QED
    BY <1>1, <2>2, PendOf, SameRows DEF Store!FailSet
<1>4. QED
  BY <1>2, <1>3

(* kv-del is the abstract deletion.                                        *)
LEMMA DeleteMap ==
  ASSUME EMPTY \notin AllKeys, RefInv, StoreInv', NEW t \in Threads,
         NEW k \in AllKeys, kv_del(t, k), NEW n, n = handle[t]
  PROVE  /\ n \in Namespaces /\ k \in StoreKeys
         /\ Store!Delete(t, <<n, k>>)
<1> USE DEF RefInv, StoreInv
<1>1. /\ pc[t] = "idle" /\ n # NULL
      /\ table' = table \ Matching(n, k)
      /\ overtaken' = Overtake(t, n, k)
      /\ UNCHANGED <<handle, pc, key, val, ans, nfails, failed>>
  BY NamedKeys DEF kv_del, Call
<1>2. n \in Namespaces /\ k \in StoreKeys /\ k # NULL
  BY <1>1, NamedKeys DEF TypeOK, StoreKeys
<1>3. \A m, j : <<m, j>> # <<n, k>> => RowsOf(m, j)' = RowsOf(m, j)
  BY <1>1 DEF RowsOf, Matching
<1>4. Cell(n, k)' = ABSENT
  <2>1. RowsOf(n, k)' = {}
    BY <1>1, <1>2 DEF RowsOf, Matching
  <2>2. QED
    BY <2>1, CellNext
<1>5. StoreMap' = [StoreMap EXCEPT ![<<n, k>>] = ABSENT]
  BY <1>2, <1>3, <1>4, OneCellChanges
<1>6. PendMap' = Store!Overtake(PendMap, t, <<n, k>>)
  <2>1. \A u \in Threads : PendMap'[u] = Store!Overtake(PendMap, t, <<n, k>>)[u]
    BY <1>1, OvertakeMap
  <2>2. QED
    BY <2>1 DEF PendMap, Store!Overtake
<1>7. QED
  BY <1>1, <1>2, <1>5, <1>6, PendOf DEF Store!Delete

-----------------------------------------------------------------------------
(* The queries: the keys present in a namespace are the keys of its rows,  *)
(* each of one row.                                                        *)
LEMMA PresentKeys ==
  ASSUME RefInv, NEW n \in Namespaces
  PROVE  Store!Present(n) = {r.key : r \in InNamespace(n)}
<1> USE DEF RefInv, StoreInv
<1>1. ASSUME NEW k \in StoreKeys
      PROVE  StoreMap[<<n, k>>] # ABSENT <=> \E r \in table : r.ns = n /\ r.key = k
  <2>1. k # NULL /\ StoreMap[<<n, k>>] = Cell(n, k)
    BY DEF StoreKeys, StoreMap
  <2>2. QED
    BY <2>1, CellTyped DEF RowsOf
<1>2. \A r \in table : r.key \in StoreKeys
  BY DEF TypeOK, Rows, NoNullKeys, StoreKeys
<1>3. QED
  BY <1>1, <1>2 DEF Store!Present, InNamespace

(* A namespace has as many rows as the abstract store has keys in it.      *)
LEMMA PresentCount ==
  ASSUME RefInv, NEW n \in Namespaces
  PROVE  Cardinality(Store!Present(n)) = Cardinality(InNamespace(n))
<1> DEFINE S == InNamespace(n)
           T == {r.key : r \in InNamespace(n)}
           f == [r \in S |-> r.key]
<1>1. IsFiniteSet(S)
  BY FS_Subset DEF InNamespace, RefInv, StoreInv, RowsFinite
<1>2. \A r, s \in S : r.key = s.key => r = s
  BY DEF InNamespace, RefInv, StoreInv, RowsUnique, NoNullKeys
<1>3. f \in Bijection(S, T)
  <2>1. f \in [S -> T]
    OBVIOUS
  <2>2. IsInjective(f)
    BY <1>2 DEF IsInjective
  <2>3. \A k \in T : \E r \in S : f[r] = k
    OBVIOUS
  <2>4. QED
    BY <2>1, <2>2, <2>3 DEF Bijection, Injection, Surjection
<1>4. Cardinality(T) = Cardinality(S)
  <2>1. ExistsBijection(S, T)
    BY <1>3 DEF ExistsBijection
  <2>2. QED
    BY <1>1, <2>1, FS_Bijection
<1>5. QED
  BY <1>4, PresentKeys

(* An answer that the abstract store may give is an abstract question      *)
(* answered.                                                               *)
LEMMA AnswerMap ==
  ASSUME RefInv, NEW t \in Threads, NEW a, Answer(t, a),
         a \in Store!Answers(handle[t])
  PROVE  handle[t] \in Namespaces /\ Store!Ask(t, handle[t])
<1> USE DEF RefInv, StoreInv
<1>1. /\ pc[t] = "idle" /\ handle[t] # NULL
      /\ ans' = [ans EXCEPT ![t] = a]
      /\ UNCHANGED <<table, handle, callVars, nfails>>
  BY DEF Answer, Call
<1>2. handle[t] \in Namespaces
  BY <1>1 DEF TypeOK
<1>3. UNCHANGED <<StoreMap, PendMap>>
  BY <1>1, SameRows, SamePend
<1>4. QED
  BY <1>1, <1>2, <1>3, PendOf DEF Store!Ask

(* kv-get answers the value of its cell, or nothing; kv-exists the key.    *)
LEMMA GetAnswer ==
  ASSUME EMPTY \notin AllKeys, RefInv, NEW n \in Namespaces, NEW k \in AllKeys,
         NEW row \in pg_one_row(Matching(n, pg_format_sql(k)))
  PROVE  /\ {r.value : r \in row} \in Store!Answers(n)
         /\ {r.key : r \in row} \in Store!Answers(n)
<1> USE DEF RefInv, StoreInv
<1>1. pg_format_sql(k) = k /\ k \in StoreKeys /\ k # NULL
  BY NamedKeys DEF StoreKeys
<1>2. StoreMap[<<n, k>>] = Cell(n, k) /\ RowsOf(n, k) = Matching(n, k)
  BY <1>1, CellValue DEF StoreMap
<1>3. /\ {StoreMap[<<n, k>>]} \ {ABSENT} \in Store!Answers(n)
      /\ {k} \cap Store!Present(n) \in Store!Answers(n)
  BY <1>1 DEF Store!Answers
<1>4. CASE Matching(n, k) = {}
  <2>1. row = {}
    BY <1>1, <1>4 DEF pg_one_row
  <2>2. {r.value : r \in row} = {} /\ {r.key : r \in row} = {}
    BY <2>1
  <2>3. StoreMap[<<n, k>>] = ABSENT
    BY <1>1, <1>2, <1>4, CellValue
  <2>4. k \notin Store!Present(n)
    BY <2>3 DEF Store!Present
  <2>5. {StoreMap[<<n, k>>]} \ {ABSENT} = {} /\ {k} \cap Store!Present(n) = {}
    BY <2>3, <2>4
  <2>6. QED
    BY <1>3, <2>2, <2>5
<1>5. CASE Matching(n, k) # {}
  <2>1. PICK r \in table : Matching(n, k) = {r} /\ r.ns = n /\ r.key = k
    BY <1>5, MatchingOne
  <2>2. row = {r}
    BY <1>1, <2>1 DEF pg_one_row
  <2>3. {s.value : s \in row} = {r.value} /\ {s.key : s \in row} = {k}
    BY <2>1, <2>2
  <2>4. StoreMap[<<n, k>>] = r.value /\ r.value # ABSENT
    BY <1>1, <1>2, <2>1, CellValue, CellTyped DEF TypeOK, Rows
  <2>5. k \in Store!Present(n)
    BY <1>1, <2>4 DEF Store!Present
  <2>6. /\ {StoreMap[<<n, k>>]} \ {ABSENT} = {r.value}
        /\ {k} \cap Store!Present(n) = {k}
    BY <2>4, <2>5
  <2>7. QED
    BY <1>3, <2>3, <2>6
<1>6. QED
  BY <1>4, <1>5

(* kv-count and kv-keys answer what the abstract store would.              *)
LEMMA CountAnswer ==
  ASSUME RefInv, NEW n \in Namespaces
  PROVE  /\ {[n |-> Cardinality(InNamespace(n))]} \in Store!Answers(n)
         /\ {r.key : r \in InNamespace(n)} \in Store!Answers(n)
<1>1. /\ {[n |-> Store!Cardinality(Store!Present(n))]} \in Store!Answers(n)
      /\ Store!Present(n) \in Store!Answers(n)
  BY DEF Store!Answers
<1>2. Store!Cardinality(Store!Present(n)) = Cardinality(Store!Present(n))
  BY DEF Store!Cardinality, Cardinality
<1>3. QED
  BY <1>1, <1>2, PresentKeys, PresentCount

-----------------------------------------------------------------------------
(* Every step of a thread is a step of KVStore, or none.                   *)
StoreBar == <<StoreMap, PendMap, ans, nfails>>

(* Every step of the store is a step of the abstract store, or none.       *)
LEMMA StepRefines ==
  ASSUME EMPTY \notin AllKeys, RefInv, RefInv', [StoreStep]_vars
  PROVE  [Store!Next]_StoreBar
<1> USE DEF StoreBar
<1>1. CASE UNCHANGED vars
  BY <1>1, SameRows, SamePend DEF vars, callVars
<1>2. SUFFICES ASSUME NEW t \in Threads, CallStep(t, AllKeys, AllValues)
               PROVE  Store!Next \/ UNCHANGED StoreBar
  BY <1>1 DEF StoreStep
<1>3. ASSUME \/ Store!Set(t)
             \/ Store!Apply(t) \/ Store!Absorb(t)
             \/ Store!FailSet(t) \/ Store!FailOther(t)
             \/ \E c \in Namespaces \X StoreKeys : Store!Delete(t, c)
             \/ \E n \in Namespaces : Store!Ask(t, n)
      PROVE  Store!Next
  BY <1>3 DEF Store!Next
<1>4. ASSUME NEW n \in Namespaces, kv_open(t, n)
      PROVE  UNCHANGED StoreBar
  BY <1>4, SameRows, SamePend
  DEF kv_open, RefInv, StoreInv, TypeOK, HandleOpen
<1>5. CASE kv_close(t)
  BY <1>5, SameRows, SamePend DEF kv_close, RefInv, StoreInv, TypeOK
<1>6. ASSUME NEW k \in AllKeys, NEW v \in AllValues, kv_set(t, k, v)
      PROVE  Store!Next
  <2> DEFINE c == <<handle[t], k>>
  <2>1. /\ pc[t] = "idle" /\ handle[t] # NULL
        /\ key' = [key EXCEPT ![t] = k]
        /\ val' = [val EXCEPT ![t] = pg_format_sql(v)]
        /\ pc' = [pc EXCEPT ![t] = "update"]
        /\ overtaken' = [overtaken EXCEPT ![t] = FALSE]
        /\ failed' = [failed EXCEPT ![t] = FALSE]
        /\ UNCHANGED <<table, handle, ans, nfails>>
    BY <1>6, NamedKeys DEF kv_set, Call
  <2>2. c \in Namespaces \X StoreKeys /\ pg_format_sql(v) \in SqlValues
    BY <2>1, NamedKeys, PgFormat DEF RefInv, StoreInv, TypeOK
  <2>3. PendMap'[t] = Pend(c, pg_format_sql(v), FALSE, FALSE)
    <3>1. PendMap'[t] = Pend(c, pg_format_sql(v), overtaken'[t], failed'[t])
      BY <2>1 DEF PendMap, RefInv, StoreInv, TypeOK
    <3>2. overtaken'[t] = FALSE /\ failed'[t] = FALSE
      BY <2>1 DEF RefInv, StoreInv, TypeOK
    <3>3. QED
      BY <3>1, <3>2, Zenon
  <2>4. \A u \in Threads \ {t} : PendMap'[u] = PendMap[u]
    BY <2>1 DEF PendMap, RefInv, StoreInv, TypeOK
  <2>5. PendMap' = [PendMap EXCEPT ![t] = Pend(c, pg_format_sql(v), FALSE, FALSE)]
    BY <2>3, <2>4 DEF PendMap
  <2>6. Pend(c, pg_format_sql(v), FALSE, FALSE) \in Store!Begun
    BY <2>2 DEF Pend, Store!Begun
  <2>7. Store!Set(t)
    BY <2>1, <2>3, <2>5, <2>6, PendOf, SameRows DEF Store!Set
  <2>8. QED
    BY <1>3, <2>7
<1>7. CASE Update(t)
  BY <1>3, <1>7, UpdateMap DEF RefInv
<1>8. CASE Insert(t)
  BY <1>3, <1>8, InsertMap DEF RefInv
<1>9. CASE StatementFails(t)
  BY <1>3, <1>9, FailsMap
<1>10. CASE CallFails(t)
  <2>1. Store!FailOther(t)
    BY <1>10, PendOf, SameRows, SamePend DEF Store!FailOther, CallFails, Call
  <2>2. QED
    BY <1>3, <2>1
<1>11. ASSUME NEW k \in AllKeys, kv_del(t, k)
       PROVE  Store!Next
  BY <1>3, <1>11, DeleteMap DEF RefInv
<1>12. ASSUME NEW a, Answer(t, a), a \in Store!Answers(handle[t])
       PROVE  Store!Next
  BY <1>3, <1>12, AnswerMap
<1>13. ASSUME NEW a, Answer(t, a)
       PROVE  handle[t] \in Namespaces
  BY <1>13 DEF Answer, Call, RefInv, StoreInv, TypeOK
<1>14. ASSUME NEW k \in AllKeys, kv_get(t, k) \/ kv_exists(t, k)
       PROVE  Store!Next
  BY <1>12, <1>13, <1>14, GetAnswer DEF kv_get, kv_exists
<1>15. CASE kv_count(t) \/ kv_keys(t)
  BY <1>12, <1>13, <1>15, CountAnswer DEF kv_count, kv_keys
<1>16. QED
  BY <1>2, <1>4, <1>5, <1>6, <1>7, <1>8, <1>9, <1>10, <1>11, <1>14, <1>15
  DEF CallStep

(* The empty table is the empty abstract store.                            *)
LEMMA InitRefines == Init => NoNullKeys /\ Store!Init
<1> SUFFICES ASSUME Init PROVE NoNullKeys /\ Store!Init
  OBVIOUS
<1>1. StoreMap = [c \in Namespaces \X StoreKeys |-> ABSENT]
  BY DEF Init, StoreMap, Cell
<1>2. QED
  BY <1>1 DEF Init, NoNullKeys, PendMap, Store!Init

(* The key-value store is the atomic one: for keys other than the empty    *)
(* string, the UPDATE and INSERT of kv-set, run by any number of threads   *)
(* among deletes, queries and failing statements, implement KVStore.       *)
THEOREM StoreImplemented ==
  ASSUME EMPTY \notin AllKeys
  PROVE  Spec => ImplementsStore
<1>1. Init => RefInv /\ Store!Init
  BY StoreInvInit, InitRefines DEF RefInv
<1>2. RefInv /\ [Next]_vars => RefInv'
  BY StoreInvStep, NoNullKeysStep, NextIsStoreStep DEF RefInv
<1>3. RefInv /\ RefInv' /\ [Next]_vars => [Store!Next]_StoreBar
  BY StepRefines, NextIsStoreStep
<1>4. QED
  BY <1>1, <1>2, <1>3, PTL DEF Spec, ImplementsStore, Store!Spec, StoreBar

-----------------------------------------------------------------------------
(* Sessions on top of the store.                                           *)

Requests == [browser : Browsers, sid : Uuids, new : BOOLEAN]

SessionType ==
  /\ client \in {"store", "sessions"}
  /\ jar \in [Browsers -> Uuids \cup {NULL}]
  /\ req \in [Threads -> Requests \cup {NULL}]
  /\ spc \in [Threads -> {"idle", "get", "set", "write", "close"}]
  /\ skey \in [Threads -> SKeys \cup {NULL}]
  /\ sval \in [Threads -> Browsers \cup {Unset, NULL}]
  /\ copy \in [Threads -> Contents \cup {NoData}]
  /\ owner \in [Uuids -> Browsers \cup {NULL}]
  /\ DOMAIN expect = Uuids

(* An application that uses the store itself touches no session.           *)
StoreMode ==
  client = "store" =>
    /\ \A t \in Threads : req[t] = NULL /\ spc[t] = "idle"
    /\ \A t \in Threads : pc[t] # "idle" => key[t] \notin Uuids
    /\ \A r \in table : r.key \notin Uuids

(* A session call in progress has a request and a handle, and the          *)
(* statements of kv-set are its last part.                                 *)
CallShape ==
  /\ \A t \in Threads : spc[t] # "idle" => req[t] # NULL /\ handle[t] = sessions
  /\ \A t \in Threads : spc[t] \in {"set", "write"} =>
       skey[t] \in SKeys /\ sval[t] \in {req[t].browser, Unset}
  /\ \A t \in Threads : spc[t] \in {"idle", "get", "set"} => copy[t] = NoData
  /\ client = "sessions" =>
       \A t \in Threads : pc[t] # "idle" => spc[t] = "close" /\ key[t] = Sid(t)

(* Cookies, and so requests, belong to the browser they were issued for.   *)
CookiesOwned ==
  /\ \A b \in Browsers : jar[b] # NULL => owner[jar[b]] = b
  /\ \A t \in Threads : req[t] # NULL => owner[Sid(t)] = req[t].browser

(* What is stored, about to be stored or read belongs to the browser, too. *)
Owned(s, c) ==
  owner[s] \in Browsers /\ \A k \in DOMAIN c : c[k] \in {owner[s], Now}

DataOwned ==
  /\ \A r \in table : r.key \in Uuids =>
       r.value \in Contents /\ Owned(r.key, r.value)
  /\ \A t \in Threads : pc[t] # "idle" /\ key[t] \in Uuids =>
       val[t] \in Contents /\ Owned(key[t], val[t])
  /\ \A t \in Threads : spc[t] # "idle" => Owned(Sid(t), copy[t])

ApartInv == SessionType /\ StoreMode /\ CallShape /\ CookiesOwned /\ DataOwned

-----------------------------------------------------------------------------
(* What is written is one of the contents: keys of sessions, and the stamp.*)
LEMMA ContentsShape ==
  /\ \A c \in Contents :
       /\ DOMAIN c \subseteq SKeys \cup {stamp} /\ stamp \in DOMAIN c
       /\ \A k \in DOMAIN c : /\ c[k] \in Browsers \cup {Now}
                              /\ c[k] = Now <=> k = stamp
  /\ \A S \in SUBSET SKeys : \A c \in [S \cup {stamp} -> Browsers \cup {Now}] :
       (\A k \in DOMAIN c : c[k] = Now <=> k = stamp) => c \in Contents
<1> DEFINE Over(S) == {c \in [S \cup {stamp} -> Browsers \cup {Now}] :
                         \A k \in DOMAIN c : c[k] = Now <=> k = stamp}
<1>1. ASSUME NEW c
      PROVE  c \in Contents <=> \E S \in SUBSET SKeys : c \in Over(S)
  BY DEF Contents
<1>2. ASSUME NEW S \in SUBSET SKeys, NEW c
      PROVE  c \in Over(S) <=>
               /\ c \in [S \cup {stamp} -> Browsers \cup {Now}]
               /\ \A k \in DOMAIN c : c[k] = Now <=> k = stamp
  OBVIOUS
<1> HIDE DEF Over
<1>3. ASSUME NEW c \in Contents
      PROVE  /\ DOMAIN c \subseteq SKeys \cup {stamp} /\ stamp \in DOMAIN c
             /\ \A k \in DOMAIN c : /\ c[k] \in Browsers \cup {Now}
                                    /\ c[k] = Now <=> k = stamp
  <2>1. PICK S \in SUBSET SKeys : c \in Over(S)
    BY <1>1
  <2>2. /\ c \in [S \cup {stamp} -> Browsers \cup {Now}]
        /\ \A k \in DOMAIN c : c[k] = Now <=> k = stamp
    BY <1>2, <2>1
  <2>3. QED
    BY <2>2
<1>4. ASSUME NEW S \in SUBSET SKeys,
             NEW c \in [S \cup {stamp} -> Browsers \cup {Now}],
             \A k \in DOMAIN c : c[k] = Now <=> k = stamp
      PROVE  c \in Contents
  <2>1. c \in Over(S)
    BY <1>2, <1>4
  <2>2. QED
    BY <1>1, <2>1
<1>5. QED
  BY <1>3, <1>4

(* A session without data has no entries.                                  *)
LEMMA NoDataShape == DOMAIN NoData = {}
BY DEF NoData

(* A change by a session's owner leaves the session its owner's.           *)
LEMMA ChangeOwned ==
  ASSUME SessionType, NEW s \in Uuids, NEW c \in Contents \cup {NoData},
         NEW k \in SKeys, NEW v \in {owner[s], Unset}, Owned(s, c)
  PROVE  Change(c, k, v) \in Contents /\ Owned(s, Change(c, k, v))
<1> DEFINE keys == (IF v = Unset THEN DOMAIN c \ {k} ELSE DOMAIN c \cup {k})
                   \cup {stamp}
           S == keys \ {stamp}
           d == Change(c, k, v)
<1>1. /\ DOMAIN c \subseteq SKeys \cup {stamp}
      /\ \A j \in DOMAIN c : /\ c[j] \in Browsers \cup {Now}
                             /\ c[j] = Now <=> j = stamp
  BY ContentsShape, NoDataShape
<1>2. S \in SUBSET SKeys /\ keys = S \cup {stamp}
  BY <1>1
<1>3. d = [j \in keys |-> IF j = stamp THEN Now ELSE IF j = k THEN v ELSE c[j]]
  BY DEF Change
<1>4. owner[s] \in Browsers /\ owner[s] # Unset /\ owner[s] # Now
  BY SessionConstantsOK, SessionDataOK DEF Owned
<1>5. ASSUME NEW j \in keys
      PROVE  d[j] \in {owner[s], Now} /\ (d[j] = Now <=> j = stamp)
  <2>1. CASE j = stamp
    BY <1>3, <2>1
  <2>2. CASE j # stamp /\ j = k
    BY <1>3, <1>4, <2>2, SessionConstantsOK
  <2>3. CASE j # stamp /\ j # k
    <3>1. j \in DOMAIN c /\ d[j] = c[j]
      BY <1>3, <2>3
    <3>2. QED
      BY <1>1, <2>3, <3>1 DEF Owned
  <2>4. QED
    BY <2>1, <2>2, <2>3
<1>6. DOMAIN d = keys /\ d \in [S \cup {stamp} -> Browsers \cup {Now}]
  BY <1>2, <1>3, <1>4, <1>5
<1>7. d \in Contents
  BY <1>2, <1>5, <1>6, ContentsShape
<1>8. QED
  BY <1>4, <1>5, <1>6, <1>7 DEF Owned

-----------------------------------------------------------------------------
(* ApartInv is preserved.  First, an application that uses the store.      *)
LEMMA StoreModeStep ==
  ASSUME StoreInv, ApartInv, client = "store", Next, UNCHANGED <<client, sessVars>>
  PROVE  ApartInv'
<1> USE DEF ApartInv
<1>1. PICK t \in Threads : CallStep(t, Keys, Values)
  BY NextIsStoreStep
<1>2. \A r \in table' : r.key \notin Uuids
  BY <1>1, RowSource DEF StoreMode
<1>3. \A u \in Threads : pc'[u] # "idle" => key'[u] \notin Uuids
  <2>1. ASSUME NEW k \in Keys, NEW v \in Values, kv_set(t, k, v)
        PROVE  \A u \in Threads : pc'[u] # "idle" => key'[u] \notin Uuids
    <3>1. pg_format_sql(k) \notin Uuids
      BY ConstantsOK, SessionDataOK DEF pg_format_sql
    <3>2. QED
      BY <2>1, <3>1 DEF kv_set, StoreMode, StoreInv, TypeOK
  <2>2. QED
    BY <1>1, <2>1, PendSource DEF StoreMode
<1>4. StoreMode'
  BY <1>2, <1>3 DEF StoreMode, sessVars
<1>5. SessionType' /\ CookiesOwned'
  BY DEF SessionType, CookiesOwned, sessVars, Sid
<1>6. CallShape' /\ DataOwned'
  BY <1>2, <1>3 DEF StoreMode, CallShape, DataOwned, sessVars
<1>7. QED
  BY <1>4, <1>5, <1>6

(* A request gets its session: the cookie's, or a new one.                 *)
LEMMA RespondStep ==
  ASSUME StoreInv, ApartInv, client = "sessions", UNCHANGED client,
         NEW t \in Threads, NEW b \in Browsers, run_responder(t, b)
  PROVE  ApartInv'
<1> USE DEF ApartInv
<1>1. /\ req[t] = NULL /\ spc[t] = "idle"
      /\ UNCHANGED <<table, pc, key, val, handle, jar, spc, skey, sval, copy,
                     expect>>
  BY DEF run_responder, vars, CallShape
<1>2. PICK s \in Uuids :
        /\ req' = [req EXCEPT ![t] = [browser |-> b, sid |-> s,
                                      new |-> jar[b] = NULL]]
        /\ \/ owner[s] = NULL /\ owner' = [owner EXCEPT ![s] = b]
           \/ owner[s] = b /\ UNCHANGED owner
  BY DEF run_responder, session_cookie, put_uuid, CookiesOwned, SessionType
<1>3. /\ req'[t].sid = s /\ req'[t].browser = b /\ req'[t] \in Requests
      /\ \A u \in Threads \ {t} : req'[u] = req[u]
      /\ owner'[s] = b
  BY <1>2 DEF SessionType, Requests
<1>4. \A z \in Uuids : owner[z] # NULL => owner'[z] = owner[z]
  BY <1>2 DEF SessionType
<1>5. SessionType'
  BY <1>1, <1>2, <1>3 DEF SessionType
<1>6. StoreMode' /\ CallShape'
  BY <1>1, <1>3 DEF StoreMode, CallShape, Sid
<1>7. CookiesOwned'
  <2>1. \A c \in Browsers : jar[c] # NULL => owner'[jar[c]] = c
    BY <1>4, SessionConstantsOK DEF CookiesOwned, SessionType
  <2>2. \A u \in Threads \ {t} : req[u] # NULL => owner'[Sid(u)] = req[u].browser
    BY <1>4, SessionConstantsOK DEF CookiesOwned, SessionType, Requests, Sid
  <2>3. QED
    BY <1>1, <1>3, <2>1, <2>2 DEF CookiesOwned, Sid
<1>8. DataOwned'
  <2>1. ASSUME NEW z \in Uuids, NEW c, Owned(z, c)
        PROVE  Owned(z, c)'
    BY <1>4, <2>1, SessionConstantsOK DEF Owned
  <2>2. \A u \in Threads : spc[u] # "idle" => u # t /\ Sid(u) \in Uuids
    BY <1>1 DEF CallShape, SessionType, Requests, Sid
  <2>3. QED
    BY <1>1, <1>3, <2>1, <2>2 DEF DataOwned, Sid
<1>9. QED
  BY <1>5, <1>6, <1>7, <1>8

(* The reply, which sets the browser's cookie, keeps sessions apart.       *)
LEMMA ReplyStep ==
  ASSUME StoreInv, ApartInv, client = "sessions", UNCHANGED client,
         NEW t \in Threads, Reply(t)
  PROVE  ApartInv'
<1> USE DEF ApartInv
<1>1. /\ req[t] # NULL /\ spc[t] = "idle" /\ req' = [req EXCEPT ![t] = NULL]
      /\ UNCHANGED <<table, pc, key, val, handle, spc, skey, sval, copy, owner,
                     expect>>
  BY DEF Reply, vars
<1>2. /\ Sid(t) \in Uuids /\ req[t].browser \in Browsers
      /\ owner[Sid(t)] = req[t].browser
  BY <1>1 DEF CookiesOwned, SessionType, Requests, Sid
<1>3. jar' = jar \/ jar' = [jar EXCEPT ![req[t].browser] = Sid(t)]
  BY DEF Reply
<1>4. SessionType'
  BY <1>1, <1>2, <1>3 DEF SessionType
<1>5. CookiesOwned'
  BY <1>1, <1>2, <1>3 DEF CookiesOwned, SessionType, Sid
<1>6. StoreMode' /\ CallShape' /\ DataOwned'
  BY <1>1 DEF StoreMode, CallShape, DataOwned, Sid, SessionType, Owned
<1>7. QED
  BY <1>4, <1>5, <1>6

(* A session call begins.                                                  *)
LEMMA StartStep ==
  ASSUME StoreInv, ApartInv, client = "sessions", UNCHANGED client,
         NEW t \in Threads, NEW kind \in {"get", "set"}, NEW k, NEW v, NEW n,
         Start(t, kind, k, v, n),
         \/ kind = "get" /\ k = NULL /\ v = NULL
         \/ kind = "set" /\ k \in SKeys /\ v \in {req[t].browser, Unset}
  PROVE  ApartInv'
<1> USE DEF ApartInv
<1>1. /\ req[t] # NULL /\ spc[t] = "idle" /\ handle[t] = NULL
      /\ handle' = [handle EXCEPT ![t] = sessions]
      /\ spc' = [spc EXCEPT ![t] = kind]
      /\ skey' = [skey EXCEPT ![t] = k] /\ sval' = [sval EXCEPT ![t] = v]
      /\ UNCHANGED <<table, pc, key, val, jar, req, copy, owner, expect>>
  BY DEF Start, kv_open, callVars
<1>2. Sid(t) \in Uuids /\ req[t].browser \in Browsers
  BY <1>1 DEF SessionType, Requests, Sid
<1>3. pc[t] = "idle"
  BY <1>1 DEF StoreInv, HandleOpen
<1>4. SessionType'
  BY <1>1, <1>2 DEF SessionType
<1>5. CallShape'
  BY <1>1, <1>2, <1>3 DEF CallShape, SessionType, StoreInv, TypeOK, Sid
<1>6. StoreMode' /\ CookiesOwned'
  BY <1>1 DEF StoreMode, CookiesOwned, Sid
<1>7. Owned(Sid(t), copy[t])
  BY <1>1, <1>2, NoDataShape DEF CallShape, CookiesOwned, Owned
<1>8. DataOwned'
  BY <1>1, <1>7 DEF DataOwned, Sid, SessionType, Owned
<1>9. QED
  BY <1>4, <1>5, <1>6, <1>8

(* It reads the row: its own, or nothing.                                  *)
LEMMA ReadStep ==
  ASSUME StoreInv, ApartInv, client = "sessions", UNCHANGED client,
         NEW t \in Threads, SessionRead(t) \/ SessionReadFails(t),
         DOMAIN ans = Threads
  PROVE  ApartInv'
<1> USE DEF ApartInv
<1>1. /\ spc[t] \in {"get", "set"} /\ pc[t] = "idle"
      /\ copy' = [copy EXCEPT ![t] = Decoded(ans'[t])]
      /\ spc' = [spc EXCEPT ![t] = IF spc[t] = "get" THEN "close" ELSE "write"]
      /\ UNCHANGED <<table, handle, pc, key, val, jar, req, skey, sval, owner,
                     expect>>
  BY DEF SessionRead, SessionReadFails, AfterRead, kv_get, Answer, CallFails,
         Call, callVars
<1>2. /\ Sid(t) \in Uuids /\ req[t] # NULL
      /\ owner[Sid(t)] \in Browsers
  BY <1>1 DEF CallShape, CookiesOwned, SessionType, Requests, Sid
<1>3. pg_format_sql(Sid(t)) = Sid(t)
  BY <1>2, SessionDataOK DEF pg_format_sql
<1>4. /\ Decoded(ans'[t]) \in Contents \cup {NoData}
      /\ Owned(Sid(t), Decoded(ans'[t]))
  <2>1. CASE ans'[t] = {}
    BY <1>2, <2>1, NoDataShape DEF Decoded, Owned
  <2>2. CASE ans'[t] # {}
    <3>1. kv_get(t, Sid(t))
      BY <2>2 DEF SessionRead, SessionReadFails
    <3>2. PICK row \in pg_one_row(Matching(handle[t], Sid(t))) :
            Answer(t, {r.value : r \in row})
      BY <1>3, <3>1 DEF kv_get
    <3>3. ans'[t] = {r.value : r \in row}
      BY <3>2 DEF Answer
    <3>4. PICK r \in table : r.key = Sid(t) /\ row = {r}
      BY <2>2, <3>3 DEF pg_one_row, Matching
    <3>5. ans'[t] = {r.value}
      BY <3>3, <3>4
    <3>6. Decoded(ans'[t]) = r.value
      <4>1. (CHOOSE c \in ans'[t] : TRUE) = r.value
        BY <3>5
      <4>2. QED
        BY <2>2, <4>1 DEF Decoded
    <3>7. QED
      BY <1>2, <3>4, <3>6 DEF DataOwned
  <2>3. QED
    BY <2>1, <2>2
<1>5. SessionType'
  BY <1>1, <1>4 DEF SessionType
<1>6. StoreMode' /\ CookiesOwned'
  BY <1>1 DEF StoreMode, CookiesOwned, Sid
<1>7. CallShape'
  BY <1>1 DEF CallShape, SessionType, Sid
<1>8. DataOwned'
  BY <1>1, <1>4 DEF DataOwned, SessionType, Sid, Owned
<1>9. QED
  BY <1>5, <1>6, <1>7, <1>8

(* It writes the row back.                                                 *)
LEMMA WriteStep ==
  ASSUME StoreInv, ApartInv, client = "sessions", UNCHANGED client,
         NEW t \in Threads, SessionWrite(t)
  PROVE  /\ ApartInv'
         /\ Sid(t) \in Uuids /\ Changed(t) \in Contents
         /\ key' = [key EXCEPT ![t] = Sid(t)]
         /\ val' = [val EXCEPT ![t] = Changed(t)]
<1> USE DEF ApartInv
<1>1. /\ spc[t] = "write" /\ pc[t] = "idle"
      /\ pc' = [pc EXCEPT ![t] = "update"]
      /\ spc' = [spc EXCEPT ![t] = "close"]
      /\ key' = [key EXCEPT ![t] = pg_format_sql(Sid(t))]
      /\ val' = [val EXCEPT ![t] = pg_format_sql(Changed(t))]
      /\ expect' = [expect EXCEPT ![Sid(t)] = Change(expect[Sid(t)], skey[t],
                                                     sval[t])]
      /\ UNCHANGED <<table, handle, jar, req, skey, sval, copy, owner>>
  BY DEF SessionWrite, kv_set, Call
<1>2. /\ Sid(t) \in Uuids /\ req[t] # NULL
      /\ owner[Sid(t)] \in Browsers /\ owner[Sid(t)] = req[t].browser
      /\ skey[t] \in SKeys /\ sval[t] \in {owner[Sid(t)], Unset}
      /\ Owned(Sid(t), copy[t]) /\ copy[t] \in Contents \cup {NoData}
  BY <1>1 DEF CallShape, CookiesOwned, DataOwned, SessionType, Requests, Sid
<1>3. Changed(t) \in Contents /\ Owned(Sid(t), Changed(t))
  BY <1>2, ChangeOwned DEF Changed
<1>4. pg_format_sql(Sid(t)) = Sid(t) /\ pg_format_sql(Changed(t)) = Changed(t)
  BY <1>2, <1>3, SessionDataOK DEF pg_format_sql
<1>5. SessionType'
  BY <1>1, <1>2 DEF SessionType
<1>6. StoreMode' /\ CookiesOwned'
  BY <1>1 DEF StoreMode, CookiesOwned, Sid
<1>7. CallShape'
  BY <1>1, <1>4 DEF CallShape, SessionType, Sid, StoreInv, TypeOK
<1>8. DataOwned'
  BY <1>1, <1>3, <1>4 DEF DataOwned, SessionType, Sid, Owned, StoreInv, TypeOK
<1>9. QED
  BY <1>1, <1>2, <1>3, <1>4, <1>5, <1>6, <1>7, <1>8

(* A statement of kv-set, whatever comes of it.                            *)
LEMMA StatementStep ==
  ASSUME StoreInv, ApartInv, client = "sessions", UNCHANGED client,
         NEW t \in Threads, Statement(t)
  PROVE  ApartInv'
<1> USE DEF ApartInv
<1>1. /\ Update(t) \/ Insert(t) \/ StatementFails(t)
      /\ UNCHANGED <<jar, req, spc, skey, sval, copy, owner, expect>>
  BY DEF Statement, sessVars
<1>2. UNCHANGED handle
  BY <1>1 DEF Update, Insert, StatementFails
<1>3. /\ CallStep(t, AllKeys, AllValues)
      /\ ~(\E k \in AllKeys, v \in AllValues : kv_set(t, k, v))
  BY <1>1 DEF CallStep, kv_set, Call, Update, Insert, StatementFails
<1>4. \A u \in Threads :
        pc'[u] # "idle" => pc[u] # "idle" /\ UNCHANGED <<key[u], val[u]>>
  BY <1>3, PendSource
<1>5. \A r \in table' :
        r \in table \/ (pc[t] # "idle" /\ r.key = key[t] /\ r.value = val[t])
  BY <1>3, RowSource
<1>6. SessionType' /\ StoreMode' /\ CookiesOwned'
  BY <1>1 DEF SessionType, StoreMode, CookiesOwned, Sid
<1>7. CallShape'
  BY <1>1, <1>2, <1>4 DEF CallShape, Sid
<1>8. DataOwned'
  BY <1>1, <1>4, <1>5 DEF DataOwned, Sid, Owned
<1>9. QED
  BY <1>6, <1>7, <1>8

(* The end of a call keeps sessions apart.                                 *)
LEMMA CloseStep ==
  ASSUME StoreInv, ApartInv, client = "sessions", UNCHANGED client,
         NEW t \in Threads, SessionClose(t)
  PROVE  ApartInv'
<1> USE DEF ApartInv
<1>1. /\ spc[t] = "close" /\ pc[t] = "idle" /\ spc' = [spc EXCEPT ![t] = "idle"]
      /\ skey' = [skey EXCEPT ![t] = NULL] /\ sval' = [sval EXCEPT ![t] = NULL]
      /\ copy' = [copy EXCEPT ![t] = NoData]
      /\ handle' = [handle EXCEPT ![t] = NULL]
      /\ UNCHANGED <<table, pc, key, val, jar, req, owner, expect>>
  BY DEF SessionClose, kv_close, callVars
<1>2. SessionType' /\ StoreMode' /\ CookiesOwned'
  BY <1>1 DEF SessionType, StoreMode, CookiesOwned, Sid
<1>3. CallShape'
  BY <1>1 DEF CallShape, SessionType, Sid, StoreInv, TypeOK
<1>4. DataOwned'
  BY <1>1 DEF DataOwned, SessionType, Sid, Owned
<1>5. QED
  BY <1>2, <1>3, <1>4

-----------------------------------------------------------------------------
SessionInv == StoreInv /\ ApartInv /\ DOMAIN ans = Threads

(* What sessions do to the store, any caller of it may do.                 *)
LEMMA SessionStoreStep ==
  ASSUME StoreInv, ApartInv, [SessionNext]_allVars
  PROVE  [StoreStep]_vars
<1> USE DEF ApartInv
<1>1. CASE UNCHANGED allVars
  BY <1>1 DEF allVars
<1>2. CASE client = "store" /\ Next
  BY <1>2, NextIsStoreStep
<1>3. ASSUME client = "sessions", UNCHANGED client, NEW t \in Threads,
             SessionStep(t)
      PROVE  [StoreStep]_vars
  <2>1. ASSUME CallStep(t, AllKeys, AllValues) PROVE StoreStep
    BY <2>1 DEF StoreStep
  <2>2. CASE (\E b \in Browsers : run_responder(t, b)) \/ Reply(t)
    BY <2>2 DEF run_responder, Reply
  <2>3. ASSUME NEW kind, NEW k, NEW v, NEW n, Start(t, kind, k, v, n)
        PROVE  StoreStep
    BY <2>1, <2>3, SessionConstantsOK DEF Start, CallStep
  <2>4. spc[t] # "idle" => Sid(t) \in AllKeys
    BY SessionDataOK DEF CallShape, SessionType, Requests, Sid, AllKeys
  <2>5. CASE SessionRead(t) \/ SessionReadFails(t)
    BY <2>1, <2>4, <2>5 DEF SessionRead, SessionReadFails, CallStep
  <2>6. CASE SessionWrite(t)
    <3>1. Changed(t) \in AllValues
      BY <1>3, <2>6, WriteStep, SessionDataOK DEF AllValues
    <3>2. kv_set(t, Sid(t), Changed(t)) /\ Sid(t) \in AllKeys
      BY <2>4, <2>6 DEF SessionWrite
    <3>3. QED
      BY <2>1, <3>1, <3>2 DEF CallStep
  <2>7. CASE Statement(t) \/ SessionClose(t)
    BY <2>1, <2>7 DEF Statement, SessionClose, CallStep
  <2>8. QED
    BY <1>3, <2>2, <2>3, <2>5, <2>6, <2>7
    DEF SessionStep, session_get, session_set, session_unset
<1>4. QED
  BY <1>1, <1>2, <1>3 DEF SessionNext

(* Each thread keeps a last answer of the store.                           *)
LEMMA AnswersStep ==
  ASSUME DOMAIN ans = Threads, [StoreStep]_vars
  PROVE  DOMAIN ans' = Threads
<1>1. CASE UNCHANGED vars
  BY <1>1 DEF vars
<1>2. SUFFICES ASSUME NEW t \in Threads, CallStep(t, AllKeys, AllValues)
               PROVE  DOMAIN ans' = Threads
  BY <1>1 DEF StoreStep
<1>3. UNCHANGED ans \/ \E a : ans' = [ans EXCEPT ![t] = a]
  BY <1>2 DEF CallStep, kv_open, kv_close, kv_set, Update, Insert,
     StatementFails, CallFails, kv_del, kv_get, kv_exists, kv_count, kv_keys,
     Answer
<1>4. QED
  BY <1>3

(* Every step keeps sessions apart.                                        *)
LEMMA ApartStep ==
  ASSUME SessionInv, [SessionNext]_allVars
  PROVE  ApartInv'
<1> USE DEF SessionInv
<1>1. CASE UNCHANGED allVars
  BY <1>1 DEF ApartInv, allVars, vars, sessVars, SessionType, StoreMode,
     CallShape, CookiesOwned, DataOwned, Sid, Owned
<1>2. CASE client = "store" /\ Next /\ UNCHANGED sessVars /\ UNCHANGED client
  BY <1>2, StoreModeStep
<1>3. ASSUME client = "sessions", UNCHANGED client, NEW t \in Threads,
             SessionStep(t)
      PROVE  ApartInv'
  <2>1. CASE \/ session_get(t)
             \/ \E k \in SKeys : session_set(t, k) \/ session_unset(t, k)
    BY <1>3, <2>1, StartStep DEF session_get, session_set, session_unset
  <2>2. QED
    BY <1>3, <2>1, RespondStep, ReadStep, WriteStep, StatementStep, CloseStep,
       ReplyStep
    DEF SessionStep
<1>4. QED
  BY <1>1, <1>2, <1>3 DEF SessionNext

(* The invariant holds before the first request.                           *)
LEMMA SessionInvInit == SessionInit => SessionInv
<1> SUFFICES ASSUME SessionInit PROVE SessionInv
  OBVIOUS
<1>1. StoreInv /\ DOMAIN ans = Threads
  BY StoreInvInit DEF SessionInit, Init
<1>2. SessionType
  BY DEF SessionInit, SessionType
<1>3. StoreMode /\ CallShape /\ CookiesOwned /\ DataOwned
  BY DEF SessionInit, Init, StoreMode, CallShape, CookiesOwned, DataOwned
<1>4. QED
  BY <1>1, <1>2, <1>3 DEF SessionInv, ApartInv

(* The invariant is preserved, and a session's step is one of the store.   *)
LEMMA SessionInvStep ==
  ASSUME SessionInv, [SessionNext]_allVars
  PROVE  SessionInv' /\ [StoreStep]_vars
<1>1. [StoreStep]_vars
  BY SessionStoreStep DEF SessionInv
<1>2. QED
  BY <1>1, StoreInvStep, AnswersStep, ApartStep DEF SessionInv

(* The invariant of the store and of its sessions holds.                   *)
THEOREM SessionInvAlways == SessionSpec => []SessionInv
<1>1. SessionInv /\ [SessionNext]_allVars => SessionInv'
  BY SessionInvStep
<1>2. QED
  BY <1>1, SessionInvInit, PTL DEF SessionSpec

(* Sessions above it change nothing of what the store promises: a key has  *)
(* one row.                                                                *)
THEOREM SessionOneRow == SessionSpec => []OneRowPerKey
<1>1. SessionInv => OneRowPerKey
  BY DEF SessionInv, StoreInv, OneRowPerKey, RowsUnique
<1>2. QED
  BY <1>1, SessionInvAlways, PTL

(* Nor that it implements the atomic store.                                *)
THEOREM SessionStoreImplemented ==
  ASSUME EMPTY \notin AllKeys
  PROVE  SessionSpec => ImplementsStore
<1>1. SessionInit => SessionInv /\ NoNullKeys /\ Store!Init
  BY SessionInvInit, InitRefines DEF SessionInit
<1>2. SessionInv /\ NoNullKeys /\ [SessionNext]_allVars =>
        SessionInv' /\ NoNullKeys' /\ [Store!Next]_StoreBar
  BY SessionInvStep, NoNullKeysStep, StepRefines DEF RefInv, SessionInv
<1>3. QED
  BY <1>1, <1>2, PTL DEF SessionSpec, ImplementsStore, Store!Spec, StoreBar

(* A session holds what one cell of the store holds.                       *)
LEMMA RowOf ==
  ASSUME SessionInv, NEW s \in Uuids
  PROVE  \/ RowsOf(sessions, s) = {} /\ Row(s) = NoData
         \/ \E r \in table : /\ r.ns = sessions /\ r.key = s /\ Row(s) = r.value
                             /\ Matching(sessions, s) = {r}
<1> USE DEF SessionInv, ApartInv, StoreInv
<1>1. s # NULL
  BY ConstantsOK, SessionDataOK
<1>2. CASE RowsOf(sessions, s) = {}
  BY <1>1, <1>2, CellValue DEF Row
<1>3. CASE RowsOf(sessions, s) # {}
  <2>1. PICK r \in RowsOf(sessions, s) : TRUE
    BY <1>3
  <2>2. r \in table /\ r.ns = sessions /\ r.key = s
    BY <2>1 DEF RowsOf
  <2>3. Cell(sessions, s) = r.value /\ Cell(sessions, s) # ABSENT
    BY <1>1, <2>1, CellValue, CellTyped
  <2>4. Matching(sessions, s) = {r}
    BY <1>1, <2>2 DEF Matching, RowsUnique
  <2>5. QED
    BY <2>2, <2>3, <2>4 DEF Row
<1>4. QED
  BY <1>2, <1>3

(* No browser's session holds what another browser stored, and no request  *)
(* is given another browser's session, although calls for one session      *)
(* overlap, lose each other's writes and fail.                             *)
THEOREM Apart == SessionSpec => []SessionsApart
<1>1. ASSUME SessionInv PROVE SessionsApart
  <2> USE <1>1 DEF SessionInv, ApartInv
  <2>1. \A s \in Uuids : \A k \in DOMAIN Row(s) : Row(s)[k] \in {owner[s], Now}
    BY RowOf, NoDataShape DEF DataOwned, Owned
  <2>2. QED
    BY <2>1 DEF SessionsApart, CookiesOwned
<1>2. QED
  BY <1>1, SessionInvAlways, PTL

-----------------------------------------------------------------------------
(* A session that no two calls used at once, and that no failure touched,  *)
(* is what its calls made of it: its row, or, between a write's kv-set and *)
(* the end of its statements, what they are about to store.                *)
OneAtATime ==
  \A s \in Uuids \ disturbed : \A t, u \in Busy(s) : t = u

RowUpToDate ==
  \A s \in Uuids \ disturbed :
    (\A t \in Busy(s) : pc[t] = "idle") => Row(s) = expect[s]

WriteUpToDate ==
  client = "sessions" =>
    \A t \in Threads : pc[t] # "idle" /\ Sid(t) \notin disturbed =>
      val[t] = expect[Sid(t)] /\ ~failed[t] /\ ~overtaken[t]

CopyUpToDate ==
  \A t \in Threads : spc[t] = "write" /\ Sid(t) \notin disturbed =>
    copy[t] = expect[Sid(t)]

StoreExpectsNothing == client = "store" => \A s \in Uuids : expect[s] = NoData

KeptInv == /\ OneAtATime /\ RowUpToDate /\ WriteUpToDate /\ CopyUpToDate
           /\ StoreExpectsNothing

(* A step that leaves the rows, the calls in progress and the histories of *)
(* session s alone does not disturb it.                                    *)
LEMMA BusySid ==
  ASSUME ApartInv, NEW t \in Threads, spc[t] # "idle"
  PROVE  Sid(t) \in Uuids /\ t \in Busy(Sid(t)) /\ req[t] # NULL
BY DEF ApartInv, CallShape, SessionType, Requests, Sid, Busy

(* The same rows hold the same session.                                    *)
LEMMA SameRow ==
  ASSUME NEW s, RowsOf(sessions, s)' = RowsOf(sessions, s)
  PROVE  Row(s)' = Row(s)
BY CellSame DEF Row

(* Applications that use the store directly leave the sessions as          *)
(* expected.                                                               *)
LEMMA KeptStore ==
  ASSUME SessionInv, SessionInv', KeptInv, client = "store", UNCHANGED <<client, sessVars>>
  PROVE  KeptInv'
<1> USE DEF SessionInv, ApartInv, KeptInv
<1>1. client' = "store" /\ \A s \in Uuids : expect'[s] = NoData
  BY DEF StoreExpectsNothing, sessVars
<1>2. \A t \in Threads : req'[t] = NULL /\ spc'[t] = "idle"
  BY <1>1 DEF StoreMode
<1>3. ASSUME NEW s \in Uuids
      PROVE  Row(s)' = NoData
  <2>1. RowsOf(sessions, s)' = {}
    BY <1>1 DEF StoreMode, RowsOf
  <2>2. QED
    BY <2>1, CellNext DEF Row
<1>4. QED
  BY <1>1, <1>2, <1>3 DEF OneAtATime, RowUpToDate, WriteUpToDate, CopyUpToDate,
                          StoreExpectsNothing, Busy

(* A request comes or goes: no call is in progress in its thread.          *)
LEMMA KeptRequest ==
  ASSUME SessionInv, KeptInv, client = "sessions", UNCHANGED client,
         NEW t \in Threads,
         (\E b \in Browsers : run_responder(t, b)) \/ Reply(t)
  PROVE  KeptInv'
<1> USE DEF SessionInv, ApartInv, KeptInv
<1>1. /\ spc[t] = "idle" /\ UNCHANGED <<vars, spc, copy, expect, disturbed>>
      /\ \A u \in Threads \ {t} : req'[u] = req[u]
  BY DEF run_responder, Reply, CallShape, SessionType
<1>2. UNCHANGED <<table, pc, val, failed, overtaken>>
  BY <1>1 DEF vars
<1>3. \A u \in Threads : spc[u] # "idle" => Sid(u)' = Sid(u)
  BY <1>1 DEF Sid
<1>4. ASSUME NEW s PROVE Busy(s)' = Busy(s) /\ Row(s)' = Row(s)
  BY <1>1, <1>2, SameRow DEF Busy, Sid, RowsOf
<1>5. OneAtATime' /\ RowUpToDate'
  BY <1>1, <1>2, <1>4 DEF OneAtATime, RowUpToDate
<1>6. WriteUpToDate'
  BY <1>1, <1>2, <1>3 DEF WriteUpToDate, CallShape
<1>7. CopyUpToDate'
  BY <1>1, <1>3 DEF CopyUpToDate
<1>8. QED
  BY <1>5, <1>6, <1>7 DEF StoreExpectsNothing

(* A call begins: it is the only one, or the session is disturbed.         *)
LEMMA KeptStart ==
  ASSUME SessionInv, KeptInv, client = "sessions", UNCHANGED client,
         NEW t \in Threads, NEW kind \in {"get", "set"}, NEW k, NEW v, NEW n,
         Start(t, kind, k, v, n)
  PROVE  KeptInv'
<1> USE DEF SessionInv, ApartInv, KeptInv
<1>1. /\ req[t] # NULL /\ spc[t] = "idle" /\ handle[t] = NULL
      /\ spc' = [spc EXCEPT ![t] = kind]
      /\ disturbed' = IF Busy(Sid(t)) # {} THEN disturbed \cup {Sid(t)}
                                           ELSE disturbed
      /\ UNCHANGED <<table, pc, key, val, overtaken, failed, jar, req, copy,
                     owner, expect>>
  BY DEF Start, kv_open, callVars
<1>2. pc[t] = "idle"
  BY <1>1 DEF StoreInv, HandleOpen
<1>3. \A u \in Threads : Sid(u)' = Sid(u)
  BY <1>1 DEF Sid
<1>4. ASSUME NEW s
      PROVE  /\ Busy(s)' = IF s = Sid(t) THEN Busy(s) \cup {t} ELSE Busy(s)
             /\ Row(s)' = Row(s)
  BY <1>1, SameRow DEF Busy, Sid, RowsOf, SessionType
<1>5. \A s : s \notin disturbed' =>
        s \notin disturbed /\ (s = Sid(t) => Busy(s) = {})
  BY <1>1
<1>6. OneAtATime'
  BY <1>4, <1>5 DEF OneAtATime
<1>7. RowUpToDate'
  BY <1>1, <1>2, <1>4, <1>5 DEF RowUpToDate
<1>8. WriteUpToDate'
  BY <1>1, <1>3, <1>5 DEF WriteUpToDate
<1>9. CopyUpToDate'
  BY <1>1, <1>3, <1>5 DEF CopyUpToDate, SessionType
<1>10. QED
  BY <1>6, <1>7, <1>8, <1>9 DEF StoreExpectsNothing

(* It reads what its predecessors left.                                    *)
LEMMA KeptRead ==
  ASSUME SessionInv, KeptInv, client = "sessions", UNCHANGED client,
         NEW t \in Threads, SessionRead(t) \/ SessionReadFails(t)
  PROVE  KeptInv'
<1> USE DEF SessionInv, ApartInv, KeptInv
<1>1. /\ spc[t] \in {"get", "set"} /\ pc[t] = "idle"
      /\ copy' = [copy EXCEPT ![t] = Decoded(ans'[t])]
      /\ spc' = [spc EXCEPT ![t] = IF spc[t] = "get" THEN "close" ELSE "write"]
      /\ UNCHANGED <<table, pc, key, val, overtaken, failed, req, expect>>
      /\ disturbed \subseteq disturbed'
  BY DEF SessionRead, SessionReadFails, AfterRead, kv_get, Answer, CallFails,
         Call, callVars
<1>2. \A u \in Threads : Sid(u)' = Sid(u)
  BY <1>1 DEF Sid
<1>3. ASSUME NEW s PROVE Busy(s)' = Busy(s) /\ Row(s)' = Row(s)
  BY <1>1, SameRow DEF Busy, Sid, RowsOf, SessionType
<1>4. OneAtATime' /\ RowUpToDate'
  BY <1>1, <1>3 DEF OneAtATime, RowUpToDate
<1>5. WriteUpToDate'
  BY <1>1, <1>2 DEF WriteUpToDate
<1>6. ASSUME Sid(t) \notin disturbed'
      PROVE  copy'[t] = expect[Sid(t)]
  <2>1. SessionRead(t)
    BY <1>6 DEF SessionReadFails
  <2>2. /\ Sid(t) \in Uuids /\ t \in Busy(Sid(t)) /\ handle[t] = sessions
        /\ Sid(t) \notin disturbed
    BY <1>1, <1>6, BusySid DEF CallShape
  <2>3. Row(Sid(t)) = expect[Sid(t)]
    BY <1>1, <2>2 DEF OneAtATime, RowUpToDate
  <2>4. pg_format_sql(Sid(t)) = Sid(t) /\ Sid(t) # NULL
    BY <2>2, ConstantsOK, SessionDataOK DEF pg_format_sql
  <2>5. PICK row \in pg_one_row(Matching(sessions, Sid(t))) :
          Answer(t, {r.value : r \in row})
    BY <2>1, <2>2, <2>4 DEF SessionRead, kv_get
  <2>6. ans'[t] = {r.value : r \in row}
    BY <2>5 DEF Answer
  <2>7. CASE RowsOf(sessions, Sid(t)) = {} /\ Row(Sid(t)) = NoData
    <3>1. row = {}
      BY <2>4, <2>5, <2>7 DEF RowsOf, Matching, pg_one_row
    <3>2. Decoded(ans'[t]) = NoData
      BY <2>6, <3>1 DEF Decoded
    <3>3. QED
      BY <1>1, <2>3, <2>7, <3>2 DEF SessionType
  <2>8. ASSUME NEW r \in table, Row(Sid(t)) = r.value,
               Matching(sessions, Sid(t)) = {r}
        PROVE  copy'[t] = expect[Sid(t)]
    <3>1. row = {r}
      BY <2>5, <2>8 DEF pg_one_row
    <3>2. ans'[t] = {r.value}
      BY <2>6, <3>1
    <3>3. (CHOOSE c \in ans'[t] : TRUE) = r.value
      BY <3>2
    <3>4. Decoded(ans'[t]) = r.value
      BY <3>2, <3>3 DEF Decoded
    <3>5. QED
      BY <1>1, <2>3, <2>8, <3>4 DEF SessionType
  <2>9. QED
    BY <2>2, <2>7, <2>8, RowOf
<1>7. CopyUpToDate'
  BY <1>1, <1>2, <1>6 DEF CopyUpToDate, SessionType
<1>8. QED
  BY <1>4, <1>5, <1>7 DEF StoreExpectsNothing

(* It writes what it read, changed: what the session is to be.             *)
LEMMA KeptWrite ==
  ASSUME SessionInv, KeptInv, client = "sessions", UNCHANGED client,
         NEW t \in Threads, SessionWrite(t), NEW z, z = Sid(t)
  PROVE  KeptInv'
<1> USE DEF SessionInv, ApartInv, KeptInv
<1>1. /\ spc[t] = "write" /\ pc[t] = "idle"
      /\ pc' = [pc EXCEPT ![t] = "update"]
      /\ spc' = [spc EXCEPT ![t] = "close"]
      /\ overtaken' = [overtaken EXCEPT ![t] = FALSE]
      /\ failed' = [failed EXCEPT ![t] = FALSE]
      /\ expect' = [expect EXCEPT ![z] = Change(expect[z], skey[t], sval[t])]
      /\ UNCHANGED <<table, req, copy, disturbed>>
  BY DEF SessionWrite, kv_set, Call
<1>2. val' = [val EXCEPT ![t] = Changed(t)] /\ z \in Uuids
  BY WriteStep
<1>3. /\ val'[t] = Changed(t) /\ pc'[t] = "update" /\ ~overtaken'[t] /\ ~failed'[t]
      /\ \A u \in Threads \ {t} : UNCHANGED <<val[u], pc[u], overtaken[u],
                                              failed[u], spc[u]>>
      /\ \A s \in Uuids \ {z} : expect'[s] = expect[s]
      /\ expect'[z] = Change(expect[z], skey[t], sval[t])
  BY <1>1, <1>2 DEF StoreInv, TypeOK, SessionType
<1>4. \A u \in Threads : Sid(u)' = Sid(u)
  BY <1>1 DEF Sid
<1>5. ASSUME NEW s PROVE Busy(s)' = Busy(s) /\ Row(s)' = Row(s)
  BY <1>1, SameRow DEF Busy, Sid, RowsOf, SessionType
<1>6. t \in Busy(z)
  BY <1>1, BusySid
<1>7. OneAtATime'
  BY <1>1, <1>5 DEF OneAtATime
<1>8. RowUpToDate'
  <2>1. \A s \in Uuids \ {z} : t \notin Busy(s)
    BY DEF Busy
  <2>2. QED
    BY <1>1, <1>3, <1>5, <1>6, <2>1 DEF RowUpToDate, Busy
<1>9. z \notin disturbed => \A u \in Threads \ {t} : spc[u] # "idle" => Sid(u) # z
  BY <1>2, <1>6, BusySid DEF OneAtATime
<1>10. \A u \in Threads : spc[u] # "idle" => Sid(u) \in Uuids
  BY BusySid
<1>11. WriteUpToDate'
  <2>1. z \notin disturbed => val'[t] = expect'[z]
    BY <1>1, <1>3 DEF CopyUpToDate, Changed
  <2>2. QED
    BY <1>1, <1>3, <1>4, <1>9, <1>10, <2>1 DEF WriteUpToDate, CallShape
<1>12. CopyUpToDate'
  BY <1>1, <1>3, <1>4, <1>9, <1>10 DEF CopyUpToDate, SessionType
<1>13. QED
  BY <1>7, <1>8, <1>11, <1>12 DEF StoreExpectsNothing

(* A statement stores it, or leaves it to the next one.  No other call     *)
(* overtook this one, so that its INSERT is not refused.                   *)
LEMMA KeptStatement ==
  ASSUME SessionInv, KeptInv, client = "sessions", UNCHANGED client,
         NEW t \in Threads, Statement(t), NEW z, z = Sid(t)
  PROVE  KeptInv'
<1> USE DEF SessionInv, ApartInv, KeptInv
<1>1. /\ UNCHANGED <<req, spc, copy, expect, handle>>
      /\ pc[t] # "idle"
      /\ \/ Update(t) /\ UNCHANGED disturbed
         \/ Insert(t) /\ UNCHANGED disturbed
         \/ StatementFails(t) /\ disturbed' = disturbed \cup {z}
  BY DEF Statement, sessVars, Update, Insert, StatementFails
<1>2. /\ spc[t] = "close" /\ key[t] = z /\ handle[t] = sessions
      /\ z \in Uuids /\ t \in Busy(z) /\ z # NULL
  BY <1>1, BusySid, ConstantsOK, SessionDataOK DEF CallShape
<1>3. /\ \A u \in Threads : Sid(u)' = Sid(u)
      /\ \A s : Busy(s)' = Busy(s)
  BY <1>1 DEF Sid, Busy
<1>4. \A u \in Threads \ {t} : UNCHANGED <<pc[u], val[u], failed[u]>>
  BY <1>1 DEF Update, Insert, StatementFails, Return, StoreInv, TypeOK
<1>5. \A s \in Uuids \ {z} : Row(s)' = Row(s)
  <2>1. \A s \in Uuids \ {z} : RowsOf(sessions, s)' = RowsOf(sessions, s)
    <3>1. CASE Update(t)
      BY <1>2, <3>1, UpdateEffect DEF RowsOf
    <3>2. CASE Insert(t)
      BY <1>2, <3>2, InsertEffect DEF RowsOf
    <3>3. CASE StatementFails(t)
      BY <3>3 DEF StatementFails, RowsOf
    <3>4. QED
      BY <1>1, <3>1, <3>2, <3>3
  <2>2. QED
    BY <2>1, SameRow
<1>6. ASSUME z \notin disturbed'
      PROVE  \/ /\ pc'[t] = "insert" /\ UNCHANGED <<val[t], overtaken, failed>>
             \/ /\ pc'[t] = "idle" /\ Row(z)' = expect[z]
                /\ overtaken' = Overtake(t, sessions, z)
  <2>1. z \notin disturbed /\ (Update(t) \/ Insert(t))
    BY <1>1, <1>6
  <2>2. val[t] = expect[z] /\ ~failed[t] /\ ~overtaken[t]
    BY <1>1, <2>1 DEF WriteUpToDate
  <2>3. Cell(sessions, z)' = val[t] => Row(z)' = expect[z]
    <3>1. val[t] # ABSENT
      BY <1>1, <1>2, ConstantsOK, SessionDataOK DEF DataOwned
    <3>2. QED
      BY <2>2, <3>1 DEF Row
  <2>4. CASE Update(t)
    <3>1. UNCHANGED failed /\ pc \in [Threads -> {"idle", "update", "insert"}]
      BY <2>4 DEF Update, StoreInv, TypeOK
    <3>2. Return(t) => pc'[t] = "idle"
      BY <3>1 DEF Return
    <3>3. QED
      BY <1>2, <2>3, <2>4, <3>1, <3>2, UpdateEffect
  <2>5. CASE Insert(t)
    <3>1. pc'[t] = "idle"
      BY <2>5 DEF Insert, Return, StoreInv, TypeOK
    <3>2. QED
      BY <1>2, <2>2, <2>3, <2>5, <3>1, InsertEffect
  <2>6. QED
    BY <2>1, <2>4, <2>5
<1>7. OneAtATime'
  BY <1>1, <1>3 DEF OneAtATime
<1>8. RowUpToDate'
  <2>1. \A s \in Uuids \ {z} : t \notin Busy(s)
    BY DEF Busy
  <2>2. \A s \in Uuids : \A u \in Busy(s) : u \in Threads
    BY DEF Busy
  <2>3. ASSUME NEW s \in Uuids \ disturbed', s # z,
               \A u \in Busy(s) : pc'[u] = "idle"
        PROVE  Row(s)' = expect[s]
    BY <1>1, <1>4, <1>5, <2>1, <2>2, <2>3 DEF RowUpToDate
  <2>4. ASSUME z \notin disturbed', pc'[t] = "idle"
        PROVE  Row(z)' = expect[z]
    BY <1>6, <2>4
  <2>5. QED
    BY <1>1, <1>2, <1>3, <2>3, <2>4 DEF RowUpToDate
<1>9. ASSUME NEW u \in Threads, pc'[u] # "idle", Sid(u) \notin disturbed'
      PROVE  val'[u] = expect[Sid(u)] /\ ~failed'[u] /\ ~overtaken'[u]
  <2>1. CASE u = t
    BY <1>1, <1>6, <1>9, <2>1 DEF WriteUpToDate
  <2>2. CASE u # t
    <3>1. /\ pc[u] # "idle" /\ Sid(u) \notin disturbed
          /\ UNCHANGED <<val[u], failed[u]>>
      BY <1>1, <1>4, <1>9, <2>2
    <3>2. /\ val[u] = expect[Sid(u)] /\ ~failed[u] /\ ~overtaken[u]
          /\ spc[u] # "idle" /\ key[u] = Sid(u)
      BY <3>1 DEF WriteUpToDate, CallShape
    <3>3. Sid(u) # z
      BY <1>2, <2>2, <3>1, <3>2, BusySid DEF OneAtATime
    <3>4. overtaken'[u] = overtaken[u]
      <4>1. overtaken' \in {overtaken, Overtake(t, sessions, z)}
        BY <1>1, <1>2 DEF Update, Insert, StatementFails
      <4>2. QED
        BY <3>2, <3>3, <4>1 DEF Overtake, StoreInv, TypeOK
    <3>5. QED
      BY <3>1, <3>2, <3>4
  <2>3. QED
    BY <2>1, <2>2
<1>10. WriteUpToDate'
  BY <1>1, <1>3, <1>9 DEF WriteUpToDate
<1>11. CopyUpToDate'
  BY <1>1, <1>3 DEF CopyUpToDate
<1>12. QED
  BY <1>7, <1>8, <1>10, <1>11 DEF StoreExpectsNothing

(* The end of a call leaves sessions as expected.                          *)
LEMMA KeptClose ==
  ASSUME SessionInv, KeptInv, client = "sessions", UNCHANGED client,
         NEW t \in Threads, SessionClose(t)
  PROVE  KeptInv'
<1> USE DEF SessionInv, ApartInv, KeptInv
<1>1. /\ spc[t] = "close" /\ pc[t] = "idle" /\ spc' = [spc EXCEPT ![t] = "idle"]
      /\ copy' = [copy EXCEPT ![t] = NoData]
      /\ UNCHANGED <<table, pc, key, val, failed, overtaken, req, expect,
                     disturbed>>
  BY DEF SessionClose, kv_close, callVars
<1>2. \A u \in Threads : Sid(u)' = Sid(u)
  BY <1>1 DEF Sid
<1>3. ASSUME NEW s PROVE Busy(s)' = Busy(s) \ {t} /\ Row(s)' = Row(s)
  BY <1>1, SameRow DEF Busy, Sid, RowsOf, SessionType
<1>4. OneAtATime' /\ RowUpToDate'
  BY <1>1, <1>3 DEF OneAtATime, RowUpToDate
<1>5. WriteUpToDate'
  BY <1>1, <1>2 DEF WriteUpToDate
<1>6. CopyUpToDate'
  BY <1>1, <1>2 DEF CopyUpToDate, SessionType
<1>7. QED
  BY <1>4, <1>5, <1>6 DEF StoreExpectsNothing

(* Every step leaves undisturbed sessions as their calls made them.        *)
LEMMA KeptStep ==
  ASSUME SessionInv, SessionInv', KeptInv, [SessionNext]_allVars
  PROVE  KeptInv'
<1>1. CASE UNCHANGED allVars
  <2>1. UNCHANGED <<table, pc, val, failed, overtaken, client, req, spc, copy,
                    expect, disturbed>>
    BY <1>1 DEF allVars, vars, sessVars
  <2>2. ASSUME NEW s PROVE Busy(s)' = Busy(s) /\ Row(s)' = Row(s)
    BY <2>1, SameRow DEF Busy, Sid, RowsOf
  <2>3. \A u \in Threads : Sid(u)' = Sid(u)
    BY <2>1 DEF Sid
  <2>4. OneAtATime' /\ RowUpToDate'
    BY <2>1, <2>2 DEF KeptInv, OneAtATime, RowUpToDate
  <2>5. QED
    BY <2>1, <2>3, <2>4 DEF KeptInv, WriteUpToDate, CopyUpToDate,
                            StoreExpectsNothing
<1>2. CASE client = "store" /\ UNCHANGED sessVars /\ UNCHANGED client
  BY <1>2, KeptStore
<1>3. ASSUME client = "sessions", UNCHANGED client, NEW t \in Threads,
             SessionStep(t)
      PROVE  KeptInv'
  <2>1. CASE \/ session_get(t)
             \/ \E k \in SKeys : session_set(t, k) \/ session_unset(t, k)
    BY <1>3, <2>1, KeptStart DEF session_get, session_set, session_unset
  <2>2. QED
    BY <1>3, <2>1, KeptRequest, KeptRead, KeptWrite, KeptStatement, KeptClose
    DEF SessionStep
<1>4. QED
  BY <1>1, <1>2, <1>3 DEF SessionNext

(* It holds before the first request.                                      *)
LEMMA KeptInit == SessionInit => KeptInv
<1> SUFFICES ASSUME SessionInit PROVE KeptInv
  OBVIOUS
<1>1. \A s \in Uuids : Row(s) = NoData /\ expect[s] = NoData
  BY DEF SessionInit, Init, Row, Cell
<1>2. QED
  BY <1>1 DEF SessionInit, Init, KeptInv, OneAtATime, RowUpToDate,
     WriteUpToDate, CopyUpToDate, StoreExpectsNothing, Busy

(* What session-set stored, session-get finds, and what session-unset      *)
(* removed is gone, through every order of calls, reads and write-backs,   *)
(* as long as no two calls for the session overlapped and no statement of  *)
(* theirs failed.                                                          *)
THEOREM Kept == SessionSpec => []SessionKept
<1>1. KeptInv => SessionKept
  BY DEF KeptInv, RowUpToDate, SessionKept
<1>2. SessionInv /\ SessionInv' /\ KeptInv /\ [SessionNext]_allVars => KeptInv'
  BY KeptStep
<1>3. QED
  BY <1>1, <1>2, KeptInit, SessionInvAlways, PTL DEF SessionSpec

=============================================================================
