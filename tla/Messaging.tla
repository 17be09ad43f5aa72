----------------------------- MODULE Messaging ------------------------------
(***************************************************************************)
(* Publish-subscribe messaging, src/src/messaging.scm: the callback URLs   *)
(* of the subscribers of a key are one row of the key-value store, which   *)
(* several servers share.  Subscribing and unsubscribing read the row,     *)
(* change the list and write it back, in separate statements.  Publishing  *)
(* reads the row and calls every URL with http-get, one after the other,   *)
(* each time waiting for the answer: a thread of the subscriber's server   *)
(* has to take the request and run the handler.                            *)
(*                                                                         *)
(* A statement that fails is logged and otherwise ignored: a failed read   *)
(* is the empty list, a failed write leaves the row as it was.             *)
(*                                                                         *)
(* Of a server only its dispatcher threads are kept (see RequestPool).  A  *)
(* callback URL is named by the server that listens at it, a message by    *)
(* the thread that publishes it.                                           *)
(***************************************************************************)
EXTENDS Naturals, Sequences, FiniteSets, SequencesExt

CONSTANTS
  Servers, Keys,
  Slots,        \* the dispatcher threads of each server
  Publishers,   \* [Servers -> Nat]: threads of a server that may publish at once
  MaxOps,       \* BOUND: calls made
  NULL

Threads == Servers \X Slots
Home(t) == t[1]

ASSUME ConstantsOK ==
  /\ Publishers \in [Servers -> Nat] /\ MaxOps \in Nat
  /\ NULL \notin Keys \cup Servers \cup Threads

VARIABLES
  table,    \* the "subscriptions" rows: each key's list of callbacks
  listens,  \* the responders set_handler knows: server and key
  pc, key, list,   \* each thread: where, the key, callbacks read or to call
  keys,     \* each thread: the keys msg-unsubscribe-all has yet to treat
  inbox,    \* the calls each server has accepted, oldest first
  serving,  \* each thread: the publisher it is answering, or NULL
  nops,
  subscribed,   \* history: who subscribed to a key and did not unsubscribe
  disturbed,    \* history: keys of which changes overlapped or failed
  unanswered    \* history: publishers whose answer went to another socket

regVars == <<table, listens, subscribed, disturbed>>
vars == <<regVars, pc, key, list, keys, inbox, serving, nops, unanswered>>

Changing == {"sread", "swrite", "slisten", "uread", "uwrite"}
Publishing == {"pread", "call", "wait"}

TypeOK ==
  /\ table \in [Keys -> Seq(Servers)]
  /\ listens \subseteq Servers \X Keys /\ subscribed \subseteq Servers \X Keys
  /\ pc \in [Threads -> {"idle", "ukeys"} \cup Changing \cup Publishing]
  /\ key \in [Threads -> Keys \cup {NULL}]
  /\ list \in [Threads -> Seq(Servers)]
  /\ keys \in [Threads -> SUBSET Keys]
  /\ inbox \in [Servers -> Seq(Threads)]
  /\ serving \in [Threads -> Threads \cup {NULL}]
  /\ \A t \in Threads : serving[t] # NULL => pc[t] = "idle"
  /\ nops \in 0 .. MaxOps
  /\ disturbed \subseteq Keys /\ unanswered \subseteq Threads

Init ==
  /\ table = [k \in Keys |-> <<>>]
  /\ listens = {} /\ subscribed = {} /\ disturbed = {} /\ unanswered = {}
  /\ pc = [t \in Threads |-> "idle"] /\ key = [t \in Threads |-> NULL]
  /\ list = [t \in Threads |-> <<>>] /\ keys = [t \in Threads |-> {}]
  /\ inbox = [s \in Servers |-> <<>>]
  /\ serving = [t \in Threads |-> NULL]
  /\ nops = 0

-----------------------------------------------------------------------------
(* A dispatcher thread has one request at a time; the others can take      *)
(* theirs, because it does not keep the queue locked meanwhile.            *)
ServerFree(t) == \A u \in Threads : Home(u) = Home(t) =>
                   pc[u] = "idle" /\ serving[u] = NULL
Free(t) == pc[t] = "idle" /\ serving[t] = NULL

(* A free dispatcher thread runs a responder that calls the module.        *)
Begin(t, at, k) ==
  /\ Free(t) /\ nops < MaxOps
  /\ nops' = nops + 1
  /\ pc' = [pc EXCEPT ![t] = at]
  /\ key' = [key EXCEPT ![t] = k]

(* msg-get-callbacks: no row is the empty list, and so is a SELECT that    *)
(* fails.                                                                  *)
ReadRow(t, at) ==
  /\ \E row \in {table[key[t]], <<>>} : list' = [list EXCEPT ![t] = row]
  /\ pc' = [pc EXCEPT ![t] = at]

(* Some other thread is between its read and its write of this row.        *)
Overlaps(t, k) ==
  \E u \in Threads \ {t} : pc[u] \in {"swrite", "uwrite"} /\ key[u] = k

(* The read of a change: what disturbs it is kept in mind.                 *)
ReadToChange(t, at) ==
  LET k == key[t] IN
  /\ ReadRow(t, at)
  /\ disturbed' = IF Overlaps(t, k) \/ list'[t] # table[k]
                  THEN disturbed \cup {k} ELSE disturbed

(* kv-set or kv-del: the row becomes l, unless the statement fails.        *)
WriteRow(k, l) ==
  \/ /\ table' = [table EXCEPT ![k] = l]
     /\ UNCHANGED disturbed
  \/ /\ disturbed' = disturbed \cup {k}
     /\ UNCHANGED table

msg_subscribe(t, k) ==
  /\ Begin(t, "sread", k)
  /\ UNCHANGED <<regVars, list, keys, inbox, serving, unanswered>>

SubscribeRead(t) ==
  /\ pc[t] = "sread"
  /\ ReadToChange(t, "swrite")
  /\ UNCHANGED <<table, listens, subscribed, key, keys, inbox, serving, nops,
                 unanswered>>

(* (unless (member url callbacks) ...)                                     *)
AddUnlessMember(t) ==
  IF Contains(list[t], Home(t)) THEN list[t] ELSE <<Home(t)>> \o list[t]

(* kv-set of the longer list, if it is longer.                             *)
SubscribeWrite(t) ==
  LET k == key[t]  l == AddUnlessMember(t) IN
  /\ pc[t] = "swrite"
  /\ IF l = list[t] THEN UNCHANGED <<table, disturbed>> ELSE WriteRow(k, l)
  /\ subscribed' = subscribed \cup {<<Home(t), k>>}
  /\ pc' = [pc EXCEPT ![t] = "slisten"]
  /\ list' = [list EXCEPT ![t] = <<>>]
  /\ UNCHANGED <<listens, key, keys, inbox, serving, nops, unanswered>>

(* http-json: only now is there a responder at the URL.                    *)
http_json(t) ==
  /\ pc[t] = "slisten"
  /\ listens' = listens \cup {<<Home(t), key[t]>>}
  /\ pc' = [pc EXCEPT ![t] = "idle"]
  /\ key' = [key EXCEPT ![t] = NULL]
  /\ UNCHANGED <<table, subscribed, disturbed, list, keys, inbox, serving, nops,
                 unanswered>>

(* msg-unsubscribe-all: the keys that have a row, one after the other;     *)
(* none, if the SELECT of kv-keys fails.                                   *)
msg_unsubscribe_all(t) ==
  LET rows == {k \in Keys : table[k] # <<>>} IN
  /\ Begin(t, "ukeys", NULL)
  /\ \E ks \in {rows, {}} :
       /\ keys' = [keys EXCEPT ![t] = ks]
       /\ disturbed' = disturbed \cup (rows \ ks)
  /\ UNCHANGED <<table, listens, subscribed, list, inbox, serving, unanswered>>

NextKey(t) ==
  /\ pc[t] = "ukeys"
  /\ IF keys[t] = {}
       THEN /\ pc' = [pc EXCEPT ![t] = "idle"]
            /\ key' = [key EXCEPT ![t] = NULL]
            /\ UNCHANGED keys
       ELSE \E k \in keys[t] :
            /\ keys' = [keys EXCEPT ![t] = @ \ {k}]
            /\ key' = [key EXCEPT ![t] = k]
            /\ pc' = [pc EXCEPT ![t] = "uread"]
  /\ UNCHANGED <<regVars, list, inbox, serving, nops, unanswered>>

UnsubscribeRead(t) ==
  /\ pc[t] = "uread"
  /\ ReadToChange(t, "uwrite")
  /\ UNCHANGED <<table, listens, subscribed, key, keys, inbox, serving, nops,
                 unanswered>>

(* (filter (lambda (cb) (not (string=? cb url))) ...)                      *)
filter(callbacks, url) ==
  LET kept[n \in 0 .. Len(callbacks)] ==
        IF n = 0 THEN <<>>
        ELSE IF callbacks[n] # url THEN Append(kept[n - 1], callbacks[n])
        ELSE kept[n - 1]
  IN  kept[Len(callbacks)]

(* The callbacks that stay; no keeper deletes the row.                     *)
KeepNone(t) == <<>>
Keepers(t) == filter(list[t], Home(t))

(* msg-unsubscribe, for one key.  The responder stays registered.          *)
UnsubscribeWrite(t) ==
  /\ pc[t] = "uwrite"
  /\ WriteRow(key[t], Keepers(t))
  /\ subscribed' = subscribed \ {<<Home(t), key[t]>>}
  /\ pc' = [pc EXCEPT ![t] = "ukeys"]
  /\ list' = [list EXCEPT ![t] = <<>>]
  /\ UNCHANGED <<listens, key, keys, inbox, serving, nops, unanswered>>

-----------------------------------------------------------------------------
(* msg-publish.  A publisher that waits for ever stays one.                *)
msg_publish(t, k) ==
  /\ Cardinality({u \in Threads : Home(u) = Home(t) /\ pc[u] \in Publishing})
       < Publishers[Home(t)]
  /\ Begin(t, "pread", k)
  /\ UNCHANGED <<regVars, list, keys, inbox, serving, unanswered>>

PublishRead(t) ==
  /\ pc[t] = "pread"
  /\ ReadRow(t, "call")
  /\ UNCHANGED <<regVars, key, keys, inbox, serving, nops, unanswered>>

(* http-get of the next callback: the other server accepts the connection  *)
(* and the publisher waits, without a timeout.                             *)
http_get(t) ==
  /\ pc[t] = "call" /\ list[t] # <<>>
  /\ inbox' = [inbox EXCEPT ![Head(list[t])] = Append(@, t)]
  /\ pc' = [pc EXCEPT ![t] = "wait"]
  /\ UNCHANGED <<regVars, key, list, keys, serving, nops, unanswered>>

(* The server cannot be reached: http-get gives #f, and the loop goes on.  *)
http_get_fails(t) ==
  /\ pc[t] = "call" /\ list[t] # <<>>
  /\ list' = [list EXCEPT ![t] = Tail(@)]
  /\ UNCHANGED <<regVars, pc, key, keys, inbox, serving, nops, unanswered>>

(* A free thread of the server takes the oldest request.                   *)
LeaveQueued(q) == q
Dequeue(q) == Tail(q)

Serve(t) ==
  /\ Free(t) /\ inbox[Home(t)] # <<>>
  /\ serving' = [serving EXCEPT ![t] = Head(inbox[Home(t)])]
  /\ inbox' = [inbox EXCEPT ![Home(t)] = Dequeue(@)]
  /\ UNCHANGED <<regVars, pc, key, list, keys, nops, unanswered>>

(* The publisher's http-get returns, whatever it got, and the loop goes on *)
(* to the next callback.                                                   *)
http_get_returns(p) ==
  /\ pc' = [pc EXCEPT ![p] = "call"]
  /\ list' = [list EXCEPT ![p] = Tail(@)]

(* The thread runs the handler and answers; or there is none and it        *)
(* answers 404; or the handler throws, and catch_req answers 500 on the    *)
(* socket in the request's frame, which is still that of the request.      *)
Reply(t) ==
  LET p == serving[t] IN
  /\ p # NULL
  /\ serving' = [serving EXCEPT ![t] = NULL]
  /\ http_get_returns(p)
  /\ UNCHANGED <<regVars, key, keys, inbox, nops, unanswered>>

(* The handler throws, and the frame, freed before the handler ran, has    *)
(* gone to a later request: that one's socket gets the 500 and is closed,  *)
(* and the publisher's stays open, unanswered.  The later request is a     *)
(* browser's, or the call of another publisher q at this server, whose     *)
(* http-get then returns; whoever still has q's call has it in vain.       *)
(* Which request it is, is left open.                                      *)
catch_req(t) ==
  LET p == serving[t]  s == Home(t) IN
  /\ p # NULL
  /\ unanswered' = unanswered \cup {p}
  /\ \/ /\ serving' = [serving EXCEPT ![t] = NULL]
        /\ UNCHANGED <<pc, list, inbox>>
     \/ \E q \in Threads \ (unanswered \cup {p}) :
          /\ pc[q] = "wait" /\ Head(list[q]) = s
          /\ serving' = [u \in Threads |-> IF serving[u] \in {p, q} THEN NULL
                                            ELSE serving[u]]
          /\ inbox' = [inbox EXCEPT ![s] = filter(@, q)]
          /\ http_get_returns(q)
  /\ UNCHANGED <<regVars, key, keys, nops>>

PublishEnds(t) ==
  /\ pc[t] = "call" /\ list[t] = <<>>
  /\ pc' = [pc EXCEPT ![t] = "idle"]
  /\ key' = [key EXCEPT ![t] = NULL]
  /\ UNCHANGED <<regVars, list, keys, inbox, serving, nops, unanswered>>

-----------------------------------------------------------------------------
Start(t) == \/ \E k \in Keys : msg_subscribe(t, k) \/ msg_publish(t, k)
            \/ msg_unsubscribe_all(t)

Work(t) == \/ SubscribeRead(t) \/ SubscribeWrite(t) \/ http_json(t)
           \/ NextKey(t) \/ UnsubscribeRead(t) \/ UnsubscribeWrite(t)
           \/ PublishRead(t) \/ http_get(t) \/ http_get_fails(t)
           \/ PublishEnds(t)
           \/ Serve(t) \/ Reply(t) \/ catch_req(t)

Next == \E t \in Threads : Start(t) \/ Work(t)

(* A thread that has something to do does it.  That a handler ends, by     *)
(* answering or by throwing, is assumed of the application.                *)
Fairness == \A t \in Threads : WF_vars(Work(t))

Spec == Init /\ [][Next]_vars /\ Fairness

-----------------------------------------------------------------------------
(* Properties.                                                             *)

(* Whatever overlaps or fails, a row never names a server twice, and a     *)
(* server that a row names, or that believes to have subscribed, has a     *)
(* responder for the key or is about to register it: messages are not      *)
(* doubled, and no call finds nobody for longer than that.  And a key      *)
(* whose changes did not overlap and whose statements did not fail has     *)
(* in its row exactly the servers that have subscribed and not             *)
(* unsubscribed, whoever came and went meanwhile.                          *)
SubscriptionsKept ==
  \A k \in Keys :
    LET subscribers == {s \in Servers : <<s, k>> \in subscribed} IN
    /\ IsInjective(table[k])
    /\ \A s \in ToSet(table[k]) \cup subscribers :
         \/ <<s, k>> \in listens
         \/ \E t \in Threads : pc[t] = "slisten" /\ Home(t) = s /\ key[t] = k
    /\ k \notin disturbed => ToSet(table[k]) = subscribers

(* Where a publisher's call is: its places in the inboxes, and the threads *)
(* that have taken it.                                                     *)
Queued(p) == {w \in UNION {{s} \X DOMAIN inbox[s] : s \in Servers} :
                inbox[w[1]][w[2]] = p}
Served(p) == {t \in Threads : serving[t] = p}

(* A publisher never waits for more than one answer, and the answer it     *)
(* waits for is on its way, but for the publisher whose answer a throwing  *)
(* handler sent elsewhere: its call is in exactly one inbox, once, or in   *)
(* the hands of exactly one thread, of the server it called; the others    *)
(* have none anywhere.  All variables have their types: no thread answers  *)
(* while it makes a call of its own.                                       *)
OneCallEach ==
  /\ TypeOK
  /\ \A p \in unanswered : pc[p] = "wait"
  /\ \A p \in Threads :
       Cardinality(Queued(p)) + Cardinality(Served(p))
         = (IF pc[p] = "wait" /\ p \notin unanswered THEN 1 ELSE 0)
  /\ \A p \in Threads :
       /\ \A w \in Queued(p) : w[1] = Head(list[p])
       /\ \A t \in Served(p) : Home(t) = Head(list[p])

(* README.md: messaging is asynchronous.  Whoever publishes gets on with   *)
(* its work, unless a handler it calls throws when the frame of the call   *)
(* is another's.  The code's publisher waits for its subscribers, so this  *)
(* needs a thread on every server that is not itself publishing.           *)
PublishReturns ==
  \A t \in Threads : pc[t] = "pread" ~> (pc[t] = "idle" \/ t \in unanswered)

=============================================================================
