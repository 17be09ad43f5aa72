------------------------------- MODULE KVStore ------------------------------
(***************************************************************************)
(* What the key-value store promises its callers: one value for each key   *)
(* of each namespace, operations that take effect at one instant between   *)
(* their call and their return, and a set that is only ever without effect *)
(* when another operation on the same key took effect meanwhile, so that   *)
(* it can be placed just before that one, or when the database failed it.  *)
(***************************************************************************)
EXTENDS Naturals, FiniteSets

CONSTANTS Threads, Namespaces, Keys, Values, ABSENT, NONE

VARIABLES
  store,   \* [Namespaces \X Keys -> Values \cup {ABSENT}]
  pend,    \* each thread's set in progress: cell, val, overtaken, failed
  reply,   \* each thread's last answer, as a set
  failures \* failures of the database so far

Init == /\ store = [c \in Namespaces \X Keys |-> ABSENT]
        /\ pend = [t \in Threads |-> NONE]
        /\ reply = [t \in Threads |-> {}]
        /\ failures = 0

Present(n) == {k \in Keys : store[<<n, k>>] # ABSENT}

Mark(p, overtaken, failed) == [cell |-> p.cell, val |-> p.val,
                               overtaken |-> overtaken, failed |-> failed]

(* Sets in progress on cell c, other than t's, have been overtaken.        *)
Overtake(p, t, c) ==
  [u \in Threads |->
     IF u # t /\ p[u] # NONE /\ p[u].cell = c
       THEN Mark(p[u], TRUE, p[u].failed) ELSE p[u]]

(* A set begins, of any value for any cell.                                *)
Begun == [cell : Namespaces \X Keys, val : Values,
          overtaken : {FALSE}, failed : {FALSE}]

Set(t) ==
  /\ pend[t] = NONE /\ pend'[t] \in Begun
  /\ pend' = [pend EXCEPT ![t] = pend'[t]]
  /\ UNCHANGED <<store, reply, failures>>

Apply(t) ==
  /\ pend[t] # NONE
  /\ store' = [store EXCEPT ![pend[t].cell] = pend[t].val]
  /\ pend' = [Overtake(pend, t, pend[t].cell) EXCEPT ![t] = NONE]
  /\ UNCHANGED <<reply, failures>>

Absorb(t) ==
  /\ pend[t] # NONE /\ (pend[t].overtaken \/ pend[t].failed)
  /\ pend' = [pend EXCEPT ![t] = NONE]
  /\ UNCHANGED <<store, reply, failures>>

(* The database fails a set, which is then without effect or goes on.      *)
FailSet(t) ==
  /\ pend[t] # NONE
  /\ \/ pend' = [pend EXCEPT ![t] = NONE]
     \/ pend' = [pend EXCEPT ![t] = Mark(pend[t], pend[t].overtaken, TRUE)]
  /\ failures' = failures + 1
  /\ UNCHANGED <<store, reply>>

(* It fails another operation: no effect, and no answer or the last one.   *)
FailOther(t) ==
  /\ pend[t] = NONE
  /\ reply' \in {reply, [reply EXCEPT ![t] = {}]}
  /\ failures' = failures + 1
  /\ UNCHANGED <<store, pend>>

Delete(t, c) ==
  /\ pend[t] = NONE
  /\ store' = [store EXCEPT ![c] = ABSENT]
  /\ pend' = Overtake(pend, t, c)
  /\ UNCHANGED <<reply, failures>>

(* The answer to a get, an exists, a count or a list of the keys.          *)
Answers(n) ==
  {{store[<<n, k>>]} \ {ABSENT} : k \in Keys}
  \cup {{k} \cap Present(n) : k \in Keys}
  \cup {{[n |-> Cardinality(Present(n))]}, Present(n)}

Ask(t, n) ==
  /\ pend[t] = NONE
  /\ \E a \in Answers(n) : reply' = [reply EXCEPT ![t] = a]
  /\ UNCHANGED <<store, pend, failures>>

Next == \E t \in Threads :
  \/ Set(t) \/ Apply(t) \/ Absorb(t) \/ FailSet(t) \/ FailOther(t)
  \/ \E c \in Namespaces \X Keys : Delete(t, c)
  \/ \E n \in Namespaces : Ask(t, n)

Spec == Init /\ [][Next]_<<store, pend, reply, failures>>

=============================================================================
