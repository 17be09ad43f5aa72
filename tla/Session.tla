------------------------------- MODULE Session ------------------------------
(***************************************************************************)
(* Sessions: src/src/session.scm above the key-value store, and the cookie *)
(* that run_responder of src/src/main.c reads or issues.                   *)
(*                                                                         *)
(* A browser's session is one row of the namespace "sessions", its key the *)
(* cookie.  session-set and session-unset read the row, change the copy    *)
(* and write it back, through kv-get and kv-set of KeyValue, while other   *)
(* threads serve other requests of the same browser.                       *)
(*                                                                         *)
(* A row is an association list, kept as JSON; here a function from the    *)
(* keys it has.  Its JSON comes back as it was (LookupPreserved of         *)
(* Conversions).  A request stores its browser's name, so that a row says  *)
(* who wrote it.                                                           *)
(***************************************************************************)
EXTENDS KeyValue

CONSTANTS
  Browsers, Uuids, SKeys,
  sessions,    \* the namespace
  stamp, Now,  \* the key that every write sets, and its value
  Unset        \* what an unset stores: nothing

ASSUME SessionConstantsOK ==
  /\ sessions \in Namespaces /\ stamp \notin SKeys
  /\ Unset \notin Browsers /\ NULL \notin Browsers

VARIABLES
  client,    \* what the application uses: the store, or sessions
  jar,       \* each browser's cookie
  req,       \* each thread's request: its browser, session and whether new
  spc, skey, sval,   \* each thread's session call in progress
  copy,      \* the session as the thread read it
  owner,     \* history: the browser each cookie was issued for
  expect,    \* history: the session by the calls that are over
  disturbed  \* history: sessions with overlapping writes or failures

sessVars == <<jar, req, spc, skey, sval, copy, owner, expect, disturbed>>
allVars == <<vars, client, sessVars>>

NoData == [k \in {} |-> Now]
(* What is written: some keys, and the stamp.                              *)
Contents ==
  UNION {{c \in [S \cup {stamp} -> Browsers \cup {Now}] :
            \A k \in DOMAIN c : c[k] = Now <=> k = stamp} :
         S \in SUBSET SKeys}

(* The store's constants cover what sessions write, and applications do    *)
(* not use cookies as keys of their own.                                   *)
ASSUME SessionDataOK ==
  /\ Uuids \subseteq OwnKeys /\ Contents \subseteq OwnValues
  /\ Keys \cap Uuids = {} /\ EMPTY \notin Uuids \cup Contents
  /\ Now \notin Browsers

SessionInit ==
  /\ Init /\ client \in {"store", "sessions"}
  /\ jar = [b \in Browsers |-> NULL]
  /\ req = [t \in Threads |-> NULL]
  /\ spc = [t \in Threads |-> "idle"]
  /\ skey = [t \in Threads |-> NULL] /\ sval = [t \in Threads |-> NULL]
  /\ copy = [t \in Threads |-> NoData]
  /\ owner = [s \in Uuids |-> NULL]
  /\ expect = [s \in Uuids |-> NoData] /\ disturbed = {}

Sid(t) == req[t].sid
Busy(s) == {t \in Threads : req[t] # NULL /\ Sid(t) = s /\ spc[t] # "idle"}

-----------------------------------------------------------------------------
(* The cookie the request carries.                                         *)
session_cookie(b) == jar[b]

(* uuid_generate does not repeat itself; the mutant has one for all.       *)
put_uuid_constant == Uuids
put_uuid == {s \in Uuids : owner[s] = NULL}

(* run_responder: the session is the cookie's, or a new one whose cookie   *)
(* the reply will set.                                                     *)
run_responder(t, b) ==
  LET cookie == session_cookie(b) IN
  /\ req[t] = NULL
  /\ \E s \in IF cookie = NULL THEN put_uuid ELSE {cookie} :
       /\ req' = [req EXCEPT ![t] = [browser |-> b, sid |-> s,
                                     new |-> cookie = NULL]]
       /\ owner' = IF cookie = NULL THEN [owner EXCEPT ![s] = b] ELSE owner
  /\ UNCHANGED <<vars, jar, spc, skey, sval, copy, expect, disturbed>>

(* The reply, with the cookie if it is new, reaches the browser, or is     *)
(* lost on the way: then the browser keeps what it had.                    *)
Reply(t) ==
  /\ req[t] # NULL /\ spc[t] = "idle"
  /\ \/ UNCHANGED jar
     \/ req[t].new /\ jar' = [jar EXCEPT ![req[t].browser] = Sid(t)]
  /\ req' = [req EXCEPT ![t] = NULL]
  /\ UNCHANGED <<vars, spc, skey, sval, copy, owner, expect, disturbed>>

-----------------------------------------------------------------------------
(* The responder calls session-get, session-set (with its browser's name)  *)
(* or session-unset: open a handle, then read.                             *)
Start(t, kind, k, v, calls) ==
  /\ req[t] # NULL /\ spc[t] = "idle" /\ nops + calls <= MaxOps
  /\ kv_open(t, sessions)
  /\ spc' = [spc EXCEPT ![t] = kind]
  /\ skey' = [skey EXCEPT ![t] = k] /\ sval' = [sval EXCEPT ![t] = v]
  /\ disturbed' = IF Busy(Sid(t)) # {} THEN disturbed \cup {Sid(t)}
                                       ELSE disturbed
  /\ UNCHANGED <<jar, req, copy, owner, expect>>

session_get(t) == Start(t, "get", NULL, NULL, 1)
session_set(t, k) == Start(t, "set", k, req[t].browser, 2)
session_unset(t, k) == Start(t, "set", k, Unset, 2)

(* json-decode of what kv-get answered, or nothing.                        *)
Decoded(answer) == IF answer = {} THEN NoData ELSE CHOOSE c \in answer : TRUE

AfterRead(t) ==
  /\ copy' = [copy EXCEPT ![t] = Decoded(ans'[t])]
  /\ spc' = [spc EXCEPT ![t] = IF @ = "get" THEN "close" ELSE "write"]

SessionRead(t) ==
  /\ spc[t] \in {"get", "set"}
  /\ kv_get(t, Sid(t))
  /\ AfterRead(t)
  /\ UNCHANGED <<jar, req, skey, sval, owner, expect, disturbed>>

(* The SELECT fails: pg-one-row answers #f, as for a session without row.  *)
SessionReadFails(t) ==
  /\ spc[t] \in {"get", "set"}
  /\ CallFails(t) /\ ans'[t] = {}
  /\ AfterRead(t)
  /\ disturbed' = disturbed \cup {Sid(t)}
  /\ UNCHANGED <<jar, req, skey, sval, owner, expect>>

(* assq-set! and assq-remove!, and the stamp.                              *)
Change(c, k, v) ==
  LET keys == (IF v = Unset THEN DOMAIN c \ {k} ELSE DOMAIN c \cup {k})
              \cup {stamp}
  IN [j \in keys |-> IF j = stamp THEN Now ELSE IF j = k THEN v ELSE c[j]]

(* The mutant starts from an empty list instead of the session as read.    *)
ChangedAfresh(t) == Change(NoData, skey[t], sval[t])
Changed(t) == Change(copy[t], skey[t], sval[t])

SessionWrite(t) ==
  /\ spc[t] = "write"
  /\ kv_set(t, Sid(t), Changed(t))
  /\ spc' = [spc EXCEPT ![t] = "close"]
  /\ expect' = [expect EXCEPT ![Sid(t)] = Change(@, skey[t], sval[t])]
  /\ UNCHANGED <<jar, req, skey, sval, copy, owner, disturbed>>

Statement(t) ==
  \/ /\ Update(t) \/ Insert(t)
     /\ UNCHANGED sessVars
  \/ /\ StatementFails(t)
     /\ disturbed' = disturbed \cup {Sid(t)}
     /\ UNCHANGED <<jar, req, spc, skey, sval, copy, owner, expect>>

SessionClose(t) ==
  /\ spc[t] = "close"
  /\ kv_close(t)
  /\ spc' = [spc EXCEPT ![t] = "idle"]
  /\ skey' = [skey EXCEPT ![t] = NULL] /\ sval' = [sval EXCEPT ![t] = NULL]
  /\ copy' = [copy EXCEPT ![t] = NoData]
  /\ UNCHANGED <<jar, req, owner, expect, disturbed>>

SessionStep(t) ==
  \/ \E b \in Browsers : run_responder(t, b)
  \/ session_get(t)
  \/ \E k \in SKeys : session_set(t, k) \/ session_unset(t, k)
  \/ SessionRead(t) \/ SessionReadFails(t) \/ SessionWrite(t)
  \/ Statement(t) \/ SessionClose(t) \/ Reply(t)

SessionNext ==
  /\ UNCHANGED client
  /\ \/ client = "store" /\ Next /\ UNCHANGED sessVars
     \/ client = "sessions" /\ \E t \in Threads : SessionStep(t)

SessionSpec == SessionInit /\ [][SessionNext]_allVars

-----------------------------------------------------------------------------
(* Properties.                                                             *)

Row(s) == LET c == Cell(sessions, s) IN IF c = ABSENT THEN NoData ELSE c

(* What session-set stored, session-get finds, and what session-unset      *)
(* removed is gone, whatever order the calls came in and however often the *)
(* row was read and written back, as long as no two calls for the session  *)
(* overlapped and no statement of theirs failed: then a session is what    *)
(* its calls made of it, one after the other.                              *)
SessionKept ==
  \A s \in Uuids \ disturbed : Busy(s) = {} => Row(s) = expect[s]

(* Even when calls overlap, statements fail and cookies are issued at the  *)
(* same time, no browser's session holds what another browser stored, and  *)
(* no request is given another browser's session.                          *)
SessionsApart ==
  /\ \A s \in Uuids : \A k \in DOMAIN Row(s) : Row(s)[k] \in {owner[s], Now}
  /\ \A t \in Threads : req[t] # NULL => owner[Sid(t)] = req[t].browser

=============================================================================
