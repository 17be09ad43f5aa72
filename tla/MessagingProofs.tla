-------------------------- MODULE MessagingProofs ---------------------------
(***************************************************************************)
(* Proofs about Messaging, for every set of servers, keys and threads and  *)
(* every interleaving of subscribers, publishers and handlers.             *)
(***************************************************************************)
EXTENDS Messaging, ListFacts, FiniteSetTheorems, TLAPS

(* filter computes: the function it is defined by exists.                  *)
LEMMA FilterDef ==
  ASSUME NEW S, NEW l \in Seq(S), NEW url
  PROVE  \E f : /\ f = [n \in 0 .. Len(l) |->
                          IF n = 0 THEN <<>>
                          ELSE IF l[n] # url THEN Append(f[n - 1], l[n])
                          ELSE f[n - 1]]
                /\ filter(l, url) = f[Len(l)]
<1> DEFINE Val(g, n) == IF n = 0 THEN <<>>
                        ELSE IF l[n] # url THEN Append(g[n - 1], l[n])
                        ELSE g[n - 1]
           Upto(g, m) == /\ DOMAIN g = 0 .. m
                         /\ g = [n \in DOMAIN g |-> g[n]]
                         /\ \A n \in 0 .. m : g[n] = Val(g, n)
           T == {m \in Nat : \E g : Upto(g, m)}
<1>1. Upto([n \in 0 .. 0 |-> <<>>], 0)
  OBVIOUS
<1>2. ASSUME NEW m \in Nat, NEW g, Upto(g, m)
      PROVE  \E h : Upto(h, m + 1)
  <2> DEFINE h == [n \in 0 .. m + 1 |->
                     IF n \in 0 .. m THEN g[n] ELSE Val(g, m + 1)]
  <2>1. \A n \in 0 .. m : h[n] = g[n] /\ n \in 0 .. m + 1
    OBVIOUS
  <2>2. h[m + 1] = Val(g, m + 1)
    OBVIOUS
  <2>3. DOMAIN h = 0 .. m + 1 /\ h = [n \in DOMAIN h |-> h[n]]
    OBVIOUS
  <2> HIDE DEF h
  <2>4. ASSUME NEW n \in 0 .. m + 1 PROVE h[n] = Val(h, n)
    <3>1. CASE n = 0
      BY <1>2, <2>1, <3>1
    <3>2. CASE n \in 1 .. m + 1
      <4>1. n - 1 \in 0 .. m /\ n # 0
        BY <3>2
      <4>2. h[n - 1] = g[n - 1]
        BY <2>1, <4>1
      <4>3. Val(h, n) = Val(g, n)
        BY <4>1, <4>2
      <4>4. n = m + 1 \/ n \in 0 .. m
        BY <3>2
      <4>5. h[n] = Val(g, n)
        BY <1>2, <2>1, <2>2, <4>4
      <4>6. QED
        BY <4>3, <4>5
    <3>3. QED
      BY <3>1, <3>2
  <2>5. QED
    BY <2>3, <2>4
<1>3. T = Nat
  <2>1. 0 \in T
    BY <1>1
  <2>2. \A m \in T : m + 1 \in T
    BY <1>2
  <2> HIDE DEF T
  <2>3. QED
    BY <2>1, <2>2, AllNumbers DEF T
<1>4. PICK g : Upto(g, Len(l))
  <2>1. Len(l) \in T
    BY <1>3
  <2>2. QED
    BY <2>1
<1>5. g = [n \in 0 .. Len(l) |-> Val(g, n)]
  BY <1>4
<1> DEFINE kept == CHOOSE f : f = [n \in 0 .. Len(l) |-> Val(f, n)]
<1>6. kept = [n \in 0 .. Len(l) |-> Val(kept, n)]
  BY <1>5, Zenon
<1>7. filter(l, url) = kept[Len(l)]
  BY Zenon DEF filter
<1>8. QED
  BY <1>6, <1>7, Zenon

(* filter keeps the elements other than url, each as often as it was.      *)
LEMMA FilterList ==
  ASSUME NEW S, NEW l \in Seq(S), NEW url
  PROVE  /\ filter(l, url) \in Seq(S)
         /\ ToSet(filter(l, url)) = ToSet(l) \ {url}
         /\ IsInjective(l) => IsInjective(filter(l, url))
<1>1. PICK f : /\ f = [n \in 0 .. Len(l) |->
                         IF n = 0 THEN <<>>
                         ELSE IF l[n] # url THEN Append(f[n - 1], l[n])
                         ELSE f[n - 1]]
               /\ filter(l, url) = f[Len(l)]
  BY FilterDef
<1>2. /\ f[0] = <<>>
      /\ \A n \in 1 .. Len(l) :
           f[n] = IF l[n] # url THEN Append(f[n - 1], l[n]) ELSE f[n - 1]
  <2>1. Len(l) \in Nat /\ 0 \in 0 .. Len(l)
    OBVIOUS
  <2>2. \A n \in 1 .. Len(l) : n \in 0 .. Len(l) /\ n # 0
    BY <2>1
  <2>3. QED
    BY <1>1, <2>1, <2>2
<1> DEFINE Good(n) ==
             /\ f[n] \in Seq(S)
             /\ \A x : x \in ToSet(f[n]) <=> x # url /\ \E i \in 1 .. n : l[i] = x
             /\ IsInjective(l) => IsInjective(f[n])
           T == {n \in Nat : n <= Len(l) => Good(n)}
<1>3. Good(0)
  <2>1. ~ \E i \in 1 .. 0 : TRUE
    OBVIOUS
  <2>2. QED
    BY <1>2, <2>1, NoList
<1>4. ASSUME NEW n \in Nat, n + 1 <= Len(l), Good(n) PROVE Good(n + 1)
  <2>1. n + 1 \in 1 .. Len(l) /\ (n + 1) - 1 = n /\ l[n + 1] \in S
    BY <1>4
  <2>2. f[n + 1] = IF l[n + 1] # url THEN Append(f[n], l[n + 1]) ELSE f[n]
    BY <1>2, <2>1
  <2>3. \A x : (\E i \in 1 .. n + 1 : l[i] = x) <=>
                 (\E i \in 1 .. n : l[i] = x) \/ l[n + 1] = x
    <3>1. \A i : i \in 1 .. n + 1 <=> i \in 1 .. n \/ i = n + 1
      BY <1>4
    <3>2. QED
      BY <3>1
  <2>4. CASE l[n + 1] = url
    BY <1>4, <2>2, <2>3, <2>4
  <2>5. CASE l[n + 1] # url
    <3> DEFINE s == f[n]  e == l[n + 1]
    <3>1. f[n + 1] = Append(s, e) /\ s \in Seq(S) /\ e \in S
      BY <1>4, <2>1, <2>2, <2>5
    <3>2. IsInjective(l) => e \notin ToSet(s)
      <4>1. \A i \in 1 .. n : i \in 1 .. Len(l) /\ i # n + 1
        BY <1>4, <2>1
      <4>2. IsInjective(l) => \A i \in 1 .. n : l[i] # l[n + 1]
        BY <2>1, <4>1, InList
      <4>3. QED
        BY <1>4, <4>2
    <3>3. /\ Append(s, e) \in Seq(S)
          /\ ToSet(Append(s, e)) = ToSet(s) \cup {e}
          /\ IsInjective(s) /\ e \notin ToSet(s) => IsInjective(Append(s, e))
      BY <3>1, AppendList
    <3>4. \A x : x \in ToSet(f[n + 1]) <=>
            x # url /\ \E i \in 1 .. n + 1 : l[i] = x
      <4>1. \A x : x \in ToSet(f[n + 1]) <=> x \in ToSet(s) \/ x = e
        BY <3>1, <3>3
      <4>2. QED
        BY <1>4, <2>3, <2>5, <4>1
    <3>5. QED
      BY <1>4, <3>1, <3>2, <3>3, <3>4
  <2>6. QED
    BY <2>4, <2>5
<1>5. T = Nat
  <2>1. 0 \in T
    BY <1>3
  <2>2. ASSUME NEW n \in T PROVE n + 1 \in T
    <3>1. n \in Nat /\ (n <= Len(l) => Good(n))
      OBVIOUS
    <3>2. n + 1 <= Len(l) => n <= Len(l)
      BY <3>1
    <3> HIDE DEF Good
    <3>3. QED
      BY <1>4, <3>1, <3>2
  <2> HIDE DEF T
  <2>3. QED
    BY <2>1, <2>2, AllNumbers DEF T
<1>6. Good(Len(l))
  <2> HIDE DEF Good
  <2>1. Len(l) \in T /\ Len(l) <= Len(l)
    BY <1>5
  <2>2. QED
    BY <2>1
<1>7. \A x : x \in ToSet(l) <=> \E i \in 1 .. Len(l) : l[i] = x
  BY InList
<1>8. QED
  BY <1>1, <1>6, <1>7

-----------------------------------------------------------------------------
(* A thread that works on a row or publishes has a key, and a waiting      *)
(* publisher has the callback it waits for at the front of its list.       *)
AtWork ==
  \A t \in Threads :
    /\ pc[t] \in Changing \cup Publishing => key[t] \in Keys
    /\ pc[t] = "wait" => list[t] # <<>>

(* A publisher whose answer is yet to come.                                *)
Waits(p) == pc[p] = "wait" /\ p \notin unanswered

(* Who waits for whom: a call in an inbox, or in the hands of a thread, is *)
(* that of a publisher waiting for this server; it is nowhere twice; and   *)
(* each waiting publisher has its call somewhere, unless its answer is     *)
(* lost.                                                                   *)
Calls ==
  /\ \A p \in unanswered : pc[p] = "wait"
  /\ \A s \in Servers : IsInjective(inbox[s])
  /\ \A s \in Servers : \A p \in ToSet(inbox[s]) :
       Waits(p) /\ Head(list[p]) = s
  /\ \A t \in Threads : serving[t] # NULL =>
       Waits(serving[t]) /\ Head(list[serving[t]]) = Home(t)
  /\ \A t, u \in Threads : serving[t] # NULL /\ serving[t] = serving[u] => t = u
  /\ \A t \in Threads, s \in Servers : serving[t] \notin ToSet(inbox[s])
  /\ \A p \in Threads : Waits(p) =>
       p \in ToSet(inbox[Head(list[p])]) \/ \E t \in Threads : serving[t] = p

Writing == {"swrite", "uwrite"}

(* No list of callbacks that is or may become a row names anybody twice;   *)
(* and as long as the changes of a key do not overlap and do not fail, its *)
(* row is what its subscribers made of it, and a thread about to write it  *)
(* has read what it is.                                                    *)
RowsKept ==
  /\ \A k \in Keys : IsInjective(table[k])
  /\ \A t \in Threads : pc[t] \in Writing => IsInjective(list[t])
  /\ \A k \in Keys : k \notin disturbed =>
       ToSet(table[k]) = {s \in Servers : <<s, k>> \in subscribed}
  /\ \A t \in Threads : pc[t] \in Writing /\ key[t] \notin disturbed =>
       list[t] = table[key[t]]
  /\ \A t, u \in Threads :
       /\ pc[t] \in Writing /\ pc[u] \in Writing
       /\ key[t] = key[u] /\ key[t] \notin disturbed
       => t = u

(* Who subscribed to a key, or is in its row or in a list that may become  *)
(* its row, listens or is about to.                                        *)
Named(s, k) ==
  \/ <<s, k>> \in subscribed
  \/ s \in ToSet(table[k])
  \/ \E t \in Threads : pc[t] \in Writing /\ key[t] = k /\ s \in ToSet(list[t])
Listens(s, k) ==
  \/ <<s, k>> \in listens
  \/ \E t \in Threads : pc[t] = "slisten" /\ Home(t) = s /\ key[t] = k
Listened == \A s \in Servers, k \in Keys : Named(s, k) => Listens(s, k)

(* Threads and the servers they are of.                                    *)
LEMMA Homes ==
  /\ \A t \in Threads : Home(t) \in Servers
  /\ NULL \notin Threads /\ NULL \notin Keys
BY ConstantsOK DEF Threads, Home

(* The lists a thread stores.                                              *)
LEMMA Lists ==
  ASSUME TypeOK, AtWork, NEW t \in Threads
  PROVE  /\ AddUnlessMember(t) \in Seq(Servers) /\ Keepers(t) \in Seq(Servers)
         /\ pc[t] \in Changing \cup Publishing => table[key[t]] \in Seq(Servers)
<1>1. list[t] \in Seq(Servers) /\ Home(t) \in Servers
  BY Homes DEF TypeOK
<1>2. AddUnlessMember(t) \in Seq(Servers)
  BY <1>1, ConsList DEF AddUnlessMember
<1>3. Keepers(t) \in Seq(Servers)
  BY <1>1, FilterList DEF Keepers
<1>4. QED
  BY <1>2, <1>3 DEF TypeOK, AtWork

Inv == TypeOK /\ AtWork /\ Calls

(* A thread goes somewhere else, with a key and a list: its types.         *)
LEMMA Goes ==
  ASSUME Inv, NEW t \in Threads, pc[t] # "idle" \/ serving[t] = NULL,
         NEW at \in {"idle", "ukeys"} \cup Changing \cup Publishing,
         NEW k \in Keys \cup {NULL}, NEW l \in Seq(Servers),
         pc' = [pc EXCEPT ![t] = at],
         key' = [key EXCEPT ![t] = k], list' = [list EXCEPT ![t] = l],
         UNCHANGED serving,
         at \in Changing \cup Publishing => k \in Keys,
         at = "wait" => l # <<>>
  PROVE  /\ pc' \in [Threads -> {"idle", "ukeys"} \cup Changing \cup Publishing]
         /\ key' \in [Threads -> Keys \cup {NULL}]
         /\ list' \in [Threads -> Seq(Servers)]
         /\ serving' \in [Threads -> Threads \cup {NULL}]
         /\ \A u \in Threads : serving'[u] # NULL => pc'[u] = "idle"
         /\ AtWork'
<1>1. /\ pc \in [Threads -> {"idle", "ukeys"} \cup Changing \cup Publishing]
      /\ key \in [Threads -> Keys \cup {NULL}]
      /\ list \in [Threads -> Seq(Servers)]
      /\ serving \in [Threads -> Threads \cup {NULL}]
      /\ \A u \in Threads : serving[u] # NULL => pc[u] = "idle"
  BY DEF Inv, TypeOK
<1>2. /\ pc' \in [Threads -> {"idle", "ukeys"} \cup Changing \cup Publishing]
      /\ key' \in [Threads -> Keys \cup {NULL}]
      /\ list' \in [Threads -> Seq(Servers)]
  BY <1>1
<1>3. /\ pc'[t] = at /\ key'[t] = k /\ list'[t] = l
      /\ \A u \in Threads : u # t =>
           pc'[u] = pc[u] /\ key'[u] = key[u] /\ list'[u] = list[u]
  BY <1>1
<1>4. \A u \in Threads : serving'[u] # NULL => pc'[u] = "idle"
  BY <1>1, <1>3
<1>5. AtWork'
  BY <1>3 DEF Inv, AtWork
<1>6. QED
  BY <1>1, <1>2, <1>4, <1>5

(* The other variables' types.                                             *)
Others ==
  /\ table \in [Keys -> Seq(Servers)]
  /\ listens \subseteq Servers \X Keys /\ subscribed \subseteq Servers \X Keys
  /\ keys \in [Threads -> SUBSET Keys]
  /\ inbox \in [Servers -> Seq(Threads)]
  /\ nops \in 0 .. MaxOps
  /\ disturbed \subseteq Keys /\ unanswered \subseteq Threads

(* Every step keeps the types and the keys at work.                        *)
LEMMA TypeStep ==
  ASSUME Inv, [Next]_vars
  PROVE  TypeOK' /\ AtWork'
<1>0. /\ Others /\ TypeOK /\ AtWork
      /\ list \in [Threads -> Seq(Servers)] /\ key \in [Threads -> Keys \cup {NULL}]
      /\ pc \in [Threads -> {"idle", "ukeys"} \cup Changing \cup Publishing]
      /\ serving \in [Threads -> Threads \cup {NULL}]
      /\ \A u \in Threads : serving[u] # NULL => pc[u] = "idle"
  BY DEF Inv, Others, TypeOK
<1>a. \A t \in Threads : /\ list = [list EXCEPT ![t] = list[t]]
                         /\ key = [key EXCEPT ![t] = key[t]]
                         /\ pc = [pc EXCEPT ![t] = pc[t]]
                         /\ list[t] \in Seq(Servers) /\ key[t] \in Keys \cup {NULL}
                         /\ (pc[t] \in Changing \cup Publishing => key[t] \in Keys)
                         /\ Home(t) \in Servers
  BY <1>0, Homes DEF AtWork
<1>b. ASSUME Others',
             /\ pc' \in [Threads -> {"idle", "ukeys"} \cup Changing \cup Publishing]
             /\ key' \in [Threads -> Keys \cup {NULL}]
             /\ list' \in [Threads -> Seq(Servers)]
             /\ serving' \in [Threads -> Threads \cup {NULL}]
             /\ \A u \in Threads : serving'[u] # NULL => pc'[u] = "idle"
             /\ AtWork'
      PROVE  TypeOK' /\ AtWork'
  BY <1>b DEF Others, TypeOK
<1>1. CASE UNCHANGED vars
  <2>1. UNCHANGED <<table, listens, subscribed, disturbed, pc, key, list, keys, inbox,
                    serving, nops, unanswered>>
    BY <1>1 DEF vars, regVars
  <2>2. TypeOK'
    BY <1>0, <2>1 DEF TypeOK
  <2>3. QED
    BY <1>0, <2>1, <2>2 DEF AtWork
<1>2. ASSUME NEW t \in Threads, NEW k \in Keys, msg_subscribe(t, k) \/ msg_publish(t, k)
      PROVE  TypeOK' /\ AtWork'
  <2>1. /\ UNCHANGED <<table, listens, subscribed, disturbed, list, keys, inbox, serving,
                      unanswered>>
        /\ nops < MaxOps /\ nops' = nops + 1 /\ serving[t] = NULL
        /\ key' = [key EXCEPT ![t] = k]
    BY <1>2 DEF msg_subscribe, msg_publish, Begin, Free, regVars
  <2>2. PICK at \in {"sread", "pread"} : pc' = [pc EXCEPT ![t] = at]
    BY <1>2 DEF msg_subscribe, msg_publish, Begin
  <2>3. at \in Changing \cup Publishing /\ at # "wait"
    BY DEF Changing, Publishing
  <2>4. Others'
    BY <1>0, <2>1, ConstantsOK DEF Others
  <2>5. QED
    BY <1>a, <1>b, <2>1, <2>2, <2>3, <2>4, Goes
<1>3. ASSUME NEW t \in Threads, msg_unsubscribe_all(t) PROVE TypeOK' /\ AtWork'
  <2> DEFINE rows == {k \in Keys : table[k] # <<>>}
  <2>1. /\ UNCHANGED <<table, listens, subscribed, list, inbox, serving, unanswered>>
        /\ nops < MaxOps /\ nops' = nops + 1 /\ serving[t] = NULL
        /\ key' = [key EXCEPT ![t] = NULL] /\ pc' = [pc EXCEPT ![t] = "ukeys"]
        /\ \E ks \in {rows, {}} : /\ keys' = [keys EXCEPT ![t] = ks]
                                  /\ disturbed' = disturbed \cup (rows \ ks)
    BY <1>3 DEF msg_unsubscribe_all, Begin, Free, regVars
  <2>2. Others'
    BY <1>0, <2>1, ConstantsOK DEF Others
  <2>3. "ukeys" \notin Changing \cup Publishing
    BY DEF Changing, Publishing
  <2>4. QED
    BY <1>a, <1>b, <2>1, <2>2, <2>3, Goes
<1>4. ASSUME NEW t \in Threads,
             SubscribeRead(t) \/ UnsubscribeRead(t) \/ PublishRead(t)
      PROVE  TypeOK' /\ AtWork'
  <2>1. /\ UNCHANGED <<table, listens, subscribed, key, keys, inbox, serving, nops,
                      unanswered>>
        /\ \/ disturbed' = disturbed
           \/ disturbed' = disturbed \cup {key[t]}
        /\ pc[t] \in {"sread", "uread", "pread"}
    BY <1>0, <1>4 DEF SubscribeRead, UnsubscribeRead, PublishRead, ReadToChange, regVars
  <2>r. PICK row \in {table[key[t]], <<>>} : list' = [list EXCEPT ![t] = row]
    BY <1>4 DEF SubscribeRead, UnsubscribeRead, PublishRead, ReadToChange, ReadRow
  <2>2. PICK at \in {"swrite", "uwrite", "call"} : pc' = [pc EXCEPT ![t] = at]
    BY <1>4 DEF SubscribeRead, UnsubscribeRead, PublishRead, ReadToChange, ReadRow
  <2>3. /\ at \in Changing \cup Publishing /\ at # "wait"
        /\ pc[t] \in Changing \cup Publishing /\ pc[t] # "idle"
    BY <2>1 DEF Changing, Publishing
  <2>4. row \in Seq(Servers) /\ key[t] \in Keys
    <3>1. table[key[t]] \in Seq(Servers) /\ key[t] \in Keys
      BY <1>0, <1>a, <2>3, Lists
    <3>2. row = table[key[t]] \/ row = <<>>
      OBVIOUS
    <3>3. <<>> \in Seq(Servers)
      OBVIOUS
    <3>4. QED
      BY <3>1, <3>2, <3>3
  <2>5. Others'
    BY <1>0, <2>1, <2>4 DEF Others
  <2>6. key' = [key EXCEPT ![t] = key[t]]
    BY <1>a, <2>1, <2>3
  <2> HIDE DEF Others
  <2>7. QED
    BY <1>b, <2>1, <2>r, <2>2, <2>3, <2>4, <2>5, <2>6, Goes
<1>5. ASSUME NEW t \in Threads, SubscribeWrite(t) \/ UnsubscribeWrite(t)
      PROVE  TypeOK' /\ AtWork'
  <2>1. /\ UNCHANGED <<listens, key, keys, inbox, serving, nops, unanswered>>
        /\ list' = [list EXCEPT ![t] = <<>>] /\ pc[t] \in {"swrite", "uwrite"}
    BY <1>5 DEF SubscribeWrite, UnsubscribeWrite
  <2>2. PICK at \in {"slisten", "ukeys"} : pc' = [pc EXCEPT ![t] = at]
    BY <1>5 DEF SubscribeWrite, UnsubscribeWrite
  <2>3. /\ at \in {"ukeys"} \cup Changing /\ at # "wait" /\ pc[t] \in Changing
        /\ pc[t] # "idle"
    BY <2>1 DEF Changing, Publishing
  <2>4. key[t] \in Keys
    BY <1>a, <2>3
  <2>5. table' \in [Keys -> Seq(Servers)]
    <3>1. \/ table' = table \/ table' = [table EXCEPT ![key[t]] = AddUnlessMember(t)]
          \/ table' = [table EXCEPT ![key[t]] = Keepers(t)]
      BY <1>5 DEF SubscribeWrite, UnsubscribeWrite, WriteRow
    <3>2. QED
      BY <1>0, <3>1, Lists DEF Others
  <2>d. disturbed' = disturbed \/ disturbed' = disturbed \cup {key[t]}
    BY <1>5 DEF SubscribeWrite, UnsubscribeWrite, WriteRow
  <2>6. subscribed' \subseteq Servers \X Keys
    <3>1. \/ subscribed' = subscribed \cup {<<Home(t), key[t]>>}
          \/ subscribed' = subscribed \ {<<Home(t), key[t]>>}
      BY <1>5 DEF SubscribeWrite, UnsubscribeWrite
    <3>2. QED
      BY <1>0, <1>a, <2>4, <3>1 DEF Others
  <2>7. Others'
    BY <1>0, <2>1, <2>4, <2>5, <2>d, <2>6 DEF Others
  <2>8. <<>> \in Seq(Servers)
    OBVIOUS
  <2>9. QED
    BY <1>a, <1>b, <2>1, <2>2, <2>3, <2>4, <2>7, <2>8, Goes
<1>6. ASSUME NEW t \in Threads, http_json(t) \/ PublishEnds(t)
      PROVE  TypeOK' /\ AtWork'
  <2>1. /\ UNCHANGED <<table, subscribed, disturbed, list, keys, inbox, serving, nops,
                      unanswered>>
        /\ pc' = [pc EXCEPT ![t] = "idle"] /\ key' = [key EXCEPT ![t] = NULL]
        /\ pc[t] \in {"slisten", "call"}
        /\ listens' \subseteq listens \cup {<<Home(t), key[t]>>}
    BY <1>6 DEF http_json, PublishEnds, regVars
  <2>2. /\ "idle" \notin Changing \cup Publishing /\ pc[t] # "idle"
        /\ pc[t] \in Changing \cup Publishing
    BY <2>1 DEF Changing, Publishing
  <2>3. <<Home(t), key[t]>> \in Servers \X Keys
    BY <1>a, <2>2
  <2>4. Others'
    BY <1>0, <2>1, <2>3 DEF Others
  <2>5. QED
    BY <1>a, <1>b, <2>1, <2>2, <2>4, Goes
<1>7. ASSUME NEW t \in Threads, NextKey(t) PROVE TypeOK' /\ AtWork'
  <2>1. UNCHANGED <<table, listens, subscribed, disturbed, list, inbox, serving, nops,
                    unanswered>>
        /\ pc[t] = "ukeys"
    BY <1>7 DEF NextKey, regVars
  <2>2. CASE keys[t] = {}
    <3>1. /\ pc' = [pc EXCEPT ![t] = "idle"] /\ key' = [key EXCEPT ![t] = NULL]
          /\ keys' = keys
      BY <1>7, <2>2 DEF NextKey
    <3>2. Others' /\ "idle" \notin Changing \cup Publishing
      BY <1>0, <2>1, <3>1 DEF Others, Changing, Publishing
    <3>3. QED
      BY <1>a, <1>b, <2>1, <3>1, <3>2, Goes
  <2>3. CASE keys[t] # {}
    <3>1. PICK k \in keys[t] : /\ keys' = [keys EXCEPT ![t] = keys[t] \ {k}]
                               /\ key' = [key EXCEPT ![t] = k]
                               /\ pc' = [pc EXCEPT ![t] = "uread"]
      BY <1>7, <2>3 DEF NextKey
    <3>2. k \in Keys
      BY <1>0 DEF Others
    <3>3. Others' /\ "uread" \in Changing
      BY <1>0, <2>1, <3>1 DEF Others, Changing
    <3>4. QED
      BY <1>a, <1>b, <2>1, <3>1, <3>2, <3>3, Goes
  <2>4. QED
    BY <2>2, <2>3
<1>8. ASSUME NEW t \in Threads, http_get(t) PROVE TypeOK' /\ AtWork'
  <2>1. /\ UNCHANGED <<table, listens, subscribed, disturbed, key, list, keys, serving, nops,
                      unanswered>>
        /\ inbox' = [inbox EXCEPT ![Head(list[t])] = Append(inbox[Head(list[t])], t)]
        /\ pc' = [pc EXCEPT ![t] = "wait"] /\ pc[t] = "call" /\ list[t] # <<>>
    BY <1>8 DEF http_get, regVars
  <2>2. Head(list[t]) \in Servers
    BY <1>a, <2>1, CdrList
  <2>3. Others'
    BY <1>0, <2>1, <2>2 DEF Others
  <2>4. "wait" \in Publishing /\ "call" \in Publishing
    BY DEF Publishing
  <2>5. QED
    BY <1>a, <1>b, <2>1, <2>3, <2>4, Goes
<1>9. ASSUME NEW t \in Threads, http_get_fails(t) PROVE TypeOK' /\ AtWork'
  <2>1. /\ UNCHANGED <<table, listens, subscribed, disturbed, pc, key, keys, inbox, serving,
                      nops, unanswered>>
        /\ list' = [list EXCEPT ![t] = Tail(list[t])] /\ pc[t] = "call"
        /\ list[t] # <<>>
    BY <1>9 DEF http_get_fails, regVars
  <2>2. Tail(list[t]) \in Seq(Servers) /\ "call" \in Publishing
    BY <1>a, <2>1, CdrList DEF Publishing
  <2>3. Others'
    BY <1>0, <2>1 DEF Others
  <2>4. /\ key' = [key EXCEPT ![t] = key[t]] /\ pc' = [pc EXCEPT ![t] = "call"]
        /\ key[t] \in Keys
    BY <1>a, <2>1, <2>2
  <2>5. /\ list' = [list EXCEPT ![t] = Tail(list[t])]
        /\ serving' = serving /\ pc[t] # "idle"
    BY <2>1
  <2>6. "call" \in {"idle", "ukeys"} \cup Changing \cup Publishing
    BY <2>2
  <2>7. QED
    BY <1>b, <2>2, <2>3, <2>4, <2>5, <2>6, Goes
<1>10. ASSUME NEW t \in Threads, Serve(t) PROVE TypeOK' /\ AtWork'
  <2>1. /\ UNCHANGED <<table, listens, subscribed, disturbed, pc, key, list, keys, nops,
                      unanswered>>
        /\ serving' = [serving EXCEPT ![t] = Head(inbox[Home(t)])] /\ pc[t] = "idle"
        /\ inbox' = [inbox EXCEPT ![Home(t)] = Tail(inbox[Home(t)])]
        /\ inbox[Home(t)] # <<>>
    BY <1>10 DEF Serve, Dequeue, Free, regVars
  <2>2. inbox[Home(t)] \in Seq(Threads)
    BY <1>0, <1>a DEF Others
  <2>3. Tail(inbox[Home(t)]) \in Seq(Threads) /\ Head(inbox[Home(t)]) \in Threads
    BY <2>1, <2>2, CdrList
  <2>4. Others'
    BY <1>0, <2>1, <2>3 DEF Others
  <2>5. AtWork'
    BY <1>0, <2>1 DEF AtWork
  <2>6. QED
    BY <1>0, <1>b, <2>1, <2>3, <2>4, <2>5
<1>11. ASSUME NEW p \in Threads, pc[p] = "wait", http_get_returns(p),
              serving' \in [Threads -> Threads \cup {NULL}],
              \A u \in Threads : serving'[u] # NULL => serving[u] # NULL,
              UNCHANGED <<table, listens, subscribed, disturbed, key, keys, nops>>,
              inbox' \in [Servers -> Seq(Threads)], unanswered' \subseteq Threads
       PROVE  TypeOK' /\ AtWork'
  <2>1. pc' = [pc EXCEPT ![p] = "call"] /\ list' = [list EXCEPT ![p] = Tail(list[p])]
    BY <1>11 DEF http_get_returns
  <2>2. list[p] # <<>>
    BY <1>0, <1>11 DEF AtWork
  <2>3. Tail(list[p]) \in Seq(Servers) /\ "call" \in Publishing /\ "wait" \in Publishing
    BY <1>a, <2>2, CdrList DEF Publishing
  <2>4. Others'
    BY <1>0, <1>11 DEF Others
  <2>5. /\ pc' \in [Threads -> {"idle", "ukeys"} \cup Changing \cup Publishing]
        /\ list' \in [Threads -> Seq(Servers)]
    BY <1>0, <2>1, <2>3
  <2>6. /\ pc'[p] = "call" /\ \A u \in Threads : u # p => pc'[u] = pc[u]
        /\ \A u \in Threads : u # p => list'[u] = list[u]
    BY <1>0, <2>1
  <2>7. \A u \in Threads : serving'[u] # NULL => pc'[u] = "idle"
    BY <1>0, <1>11, <2>6
  <2>8. AtWork'
    BY <1>0, <1>11, <2>3, <2>6 DEF AtWork
  <2>9. QED
    BY <1>0, <1>b, <1>11, <2>4, <2>5, <2>7, <2>8
<1>12. ASSUME NEW t \in Threads, Reply(t) PROVE TypeOK' /\ AtWork'
  <2> DEFINE p == serving[t]
  <2>1. /\ UNCHANGED <<table, listens, subscribed, disturbed, key, keys, inbox, nops,
                      unanswered>>
        /\ p \in Threads /\ serving' = [serving EXCEPT ![t] = NULL]
        /\ http_get_returns(p)
    BY <1>0, <1>12 DEF Reply, regVars
  <2>2. pc[p] = "wait"
    BY <1>12 DEF Reply, Inv, Calls, Waits
  <2>3. /\ serving' \in [Threads -> Threads \cup {NULL}]
        /\ \A u \in Threads : serving'[u] # NULL => serving[u] # NULL
    BY <1>0, <2>1
  <2> HIDE DEF p
  <2>4. QED
    BY <1>0, <1>11, <2>1, <2>2, <2>3 DEF Others
<1>13. ASSUME NEW t \in Threads, catch_req(t) PROVE TypeOK' /\ AtWork'
  <2> DEFINE p == serving[t]
  <2>1. /\ UNCHANGED <<table, listens, subscribed, disturbed, key, keys, nops>>
        /\ p \in Threads /\ unanswered' = unanswered \cup {p}
    BY <1>0, <1>13 DEF catch_req, regVars
  <2>2. unanswered' \subseteq Threads
    BY <1>0, <2>1 DEF Others
  <2>3. CASE serving' = [serving EXCEPT ![t] = NULL] /\ UNCHANGED <<pc, list, inbox>>
    <3>1. /\ serving' \in [Threads -> Threads \cup {NULL}]
          /\ \A u \in Threads : serving'[u] # NULL => serving[u] # NULL
      BY <1>0, <2>3
    <3>2. /\ Others' /\ AtWork'
          /\ pc' \in [Threads -> {"idle", "ukeys"} \cup Changing \cup Publishing]
          /\ list' \in [Threads -> Seq(Servers)] /\ key' \in [Threads -> Keys \cup {NULL}]
      BY <1>0, <2>1, <2>2, <2>3 DEF Others, AtWork
    <3>3. \A u \in Threads : serving'[u] # NULL => pc'[u] = "idle"
      BY <1>0, <2>3, <3>1
    <3>4. QED
      BY <1>b, <3>1, <3>2, <3>3
  <2>4. ASSUME NEW q \in Threads, pc[q] = "wait", http_get_returns(q),
               serving' = [u \in Threads |-> IF serving[u] \in {p, q} THEN NULL
                                             ELSE serving[u]],
               inbox' = [inbox EXCEPT ![Home(t)] = filter(inbox[Home(t)], q)]
        PROVE  TypeOK' /\ AtWork'
    <3>1. inbox[Home(t)] \in Seq(Threads)
      BY <1>0, <1>a DEF Others
    <3>2. filter(inbox[Home(t)], q) \in Seq(Threads)
      BY <3>1, FilterList
    <3>3. inbox' \in [Servers -> Seq(Threads)]
      BY <1>0, <2>4, <3>2 DEF Others
    <3>4. /\ serving' \in [Threads -> Threads \cup {NULL}]
          /\ \A u \in Threads : serving'[u] # NULL => serving[u] # NULL
      BY <1>0, <2>4
    <3> HIDE DEF p
    <3>5. QED
      BY <1>11, <2>1, <2>2, <2>4, <3>3, <3>4
  <2>5. QED
    BY <1>13, <2>3, <2>4 DEF catch_req
<1>14. QED
  BY <1>1, <1>2, <1>3, <1>4, <1>5, <1>6, <1>7, <1>8, <1>9, <1>10, <1>12,
     <1>13
  DEF Next, Start, Work

-----------------------------------------------------------------------------
(* Most steps leave the calls and those who wait alone.                    *)
Quiet ==
  /\ UNCHANGED <<inbox, serving, unanswered>>
  /\ \A p \in Threads : /\ pc'[p] = "wait" <=> pc[p] = "wait"
                        /\ pc[p] = "wait" => list'[p] = list[p]

(* Only a call, its service and the handler's end change which calls are   *)
(* under way.                                                              *)
LEMMA QuietOrNot ==
  ASSUME Inv, [Next]_vars
  PROVE  Quiet \/ \E t \in Threads : http_get(t) \/ Serve(t) \/ Reply(t) \/ catch_req(t)
<1>0. /\ list \in [Threads -> Seq(Servers)]
      /\ pc \in [Threads -> {"idle", "ukeys"} \cup Changing \cup Publishing]
  BY DEF Inv, TypeOK
<1>1. CASE UNCHANGED vars
  BY <1>1 DEF vars, Quiet
<1>2. ASSUME NEW t \in Threads, UNCHANGED <<inbox, serving, unanswered>>,
             pc[t] # "wait", NEW at, at # "wait",
             pc' = [pc EXCEPT ![t] = at],
             \A p \in Threads : p # t => list'[p] = list[p]
      PROVE  Quiet
  <2>1. pc'[t] = at /\ \A p \in Threads : p # t => pc'[p] = pc[p]
    BY <1>0, <1>2
  <2>2. QED
    BY <1>2, <2>1 DEF Quiet
<1>3. ASSUME NEW t \in Threads, Start(t) PROVE Quiet
  <2>1. /\ UNCHANGED <<inbox, serving, list, unanswered>> /\ pc[t] = "idle"
        /\ \E at \in {"sread", "pread", "ukeys"} : pc' = [pc EXCEPT ![t] = at]
    BY <1>3 DEF Start, msg_subscribe, msg_publish, msg_unsubscribe_all, Begin, Free
  <2>2. QED
    BY <1>2, <2>1
<1>4. ASSUME NEW t \in Threads,
             \/ SubscribeRead(t) \/ UnsubscribeRead(t) \/ PublishRead(t)
             \/ SubscribeWrite(t) \/ UnsubscribeWrite(t)
      PROVE  Quiet
  <2>1. /\ UNCHANGED <<inbox, serving, unanswered>>
        /\ pc[t] \in {"sread", "uread", "pread", "swrite", "uwrite"}
        /\ \E at \in {"swrite", "uwrite", "call", "slisten", "ukeys"} :
             pc' = [pc EXCEPT ![t] = at]
    BY <1>4 DEF SubscribeRead, UnsubscribeRead, PublishRead, SubscribeWrite,
                UnsubscribeWrite, ReadRow, ReadToChange
  <2>2. \E l : list' = [list EXCEPT ![t] = l]
    BY <1>4 DEF SubscribeRead, UnsubscribeRead, PublishRead, SubscribeWrite,
                UnsubscribeWrite, ReadRow, ReadToChange
  <2>3. \A p \in Threads : p # t => list'[p] = list[p]
    BY <1>0, <2>2
  <2>4. QED
    BY <1>2, <2>1, <2>3
<1>5. ASSUME NEW t \in Threads, http_json(t) \/ PublishEnds(t) PROVE Quiet
  <2>1. /\ UNCHANGED <<inbox, serving, list, unanswered>> /\ pc[t] \in {"slisten", "call"}
        /\ pc' = [pc EXCEPT ![t] = "idle"]
    BY <1>5 DEF http_json, PublishEnds
  <2>2. QED
    BY <1>2, <2>1
<1>6. ASSUME NEW t \in Threads, NextKey(t) PROVE Quiet
  <2>1. /\ UNCHANGED <<inbox, serving, list, unanswered>> /\ pc[t] = "ukeys"
        /\ \E at \in {"idle", "uread"} : pc' = [pc EXCEPT ![t] = at]
    BY <1>6 DEF NextKey
  <2>2. QED
    BY <1>2, <2>1
<1>7. ASSUME NEW t \in Threads, http_get_fails(t) PROVE Quiet
  BY <1>0, <1>7 DEF http_get_fails, Quiet
<1>8. QED
  BY <1>1, <1>3, <1>4, <1>5, <1>6, <1>7 DEF Next, Work

(* Every step keeps every call in one place.                               *)
LEMMA CallsStep ==
  ASSUME Inv, [Next]_vars
  PROVE  Calls'
<1>0. /\ list \in [Threads -> Seq(Servers)]
      /\ pc \in [Threads -> {"idle", "ukeys"} \cup Changing \cup Publishing]
      /\ serving \in [Threads -> Threads \cup {NULL}]
      /\ inbox \in [Servers -> Seq(Threads)]
      /\ \A u \in Threads : serving[u] # NULL => pc[u] = "idle"
      /\ \A u \in Threads : pc[u] = "wait" => list[u] # <<>>
      /\ \A u \in Threads : Home(u) \in Servers
      /\ NULL \notin Threads /\ unanswered \subseteq Threads
      /\ \A u \in unanswered : pc[u] = "wait"
  BY Homes DEF Inv, TypeOK, AtWork, Calls
<1>a. \A s \in Servers : ToSet(inbox[s]) \subseteq Threads
  BY <1>0, InList
<1>h. \A u \in Threads : Waits(u) => Head(list[u]) \in Servers
  BY <1>0, CdrList DEF Waits
<1>1. CASE Quiet
  <2>1. \A p \in Threads : Waits(p) => Waits(p)' /\ Head(list'[p]) = Head(list[p])
    BY <1>1 DEF Quiet, Waits
  <2>2. \A p \in Threads : Waits(p)' => Waits(p)
    BY <1>1 DEF Quiet, Waits
  <2>3. /\ inbox' = inbox /\ serving' = serving
        /\ \A p \in unanswered' : pc'[p] = "wait"
    BY <1>0, <1>1 DEF Quiet
  <2>4. QED
    BY <1>0, <1>a, <2>1, <2>2, <2>3 DEF Inv, Calls
<1>2. ASSUME NEW t \in Threads, http_get(t) PROVE Calls'
  <2> DEFINE s == Head(list[t])
  <2>1. /\ UNCHANGED <<list, serving, unanswered>> /\ pc[t] = "call" /\ list[t] # <<>>
        /\ inbox' = [inbox EXCEPT ![s] = Append(inbox[s], t)]
        /\ pc' = [pc EXCEPT ![t] = "wait"]
    BY <1>2 DEF http_get
  <2>2. s \in Servers
    BY <1>0, <2>1, CdrList
  <2>3. /\ pc'[t] = "wait" /\ \A u \in Threads : u # t => pc'[u] = pc[u]
        /\ inbox'[s] = Append(inbox[s], t)
        /\ \A r \in Servers : r # s => inbox'[r] = inbox[r]
    BY <1>0, <2>1, <2>2
  <2>w. /\ \A u \in Threads : u # t => (Waits(u)' <=> Waits(u))
        /\ ~Waits(t) /\ Waits(t)' /\ \A u \in unanswered' : pc'[u] = "wait"
    BY <1>0, <2>1, <2>3 DEF Waits
  <2>4. \A r \in Servers : t \notin ToSet(inbox[r])
    BY <2>w DEF Inv, Calls
  <2>5. \A u \in Threads : serving[u] # t
    <3>1. \A u \in Threads : serving[u] # NULL => Waits(serving[u])
      BY DEF Inv, Calls
    <3>2. QED
      BY <1>0, <2>w, <3>1
  <2>6. ToSet(inbox'[s]) = ToSet(inbox[s]) \cup {t} /\ IsInjective(inbox'[s])
    <3>1. inbox[s] \in Seq(Threads) /\ IsInjective(inbox[s])
      BY <1>0, <2>2 DEF Inv, Calls
    <3>2. QED
      BY <2>2, <2>3, <2>4, <3>1, AppendList
  <2> HIDE DEF s
  <2>7. \A r \in Servers : IsInjective(inbox'[r])
    BY <2>3, <2>6 DEF Inv, Calls
  <2>8. ASSUME NEW r \in Servers, NEW p \in ToSet(inbox'[r])
        PROVE  Waits(p)' /\ Head(list[p]) = r
    <3>1. (p \in ToSet(inbox[r]) /\ p \in Threads) \/ (r = s /\ p = t)
      BY <1>a, <2>3, <2>6
    <3>2. CASE p \in ToSet(inbox[r]) /\ p \in Threads
      BY <2>w, <3>2 DEF Inv, Calls
    <3>3. CASE r = s /\ p = t
      BY <2>w, <3>3 DEF s
    <3>4. QED
      BY <3>1, <3>2, <3>3
  <2>9. \A u \in Threads : serving[u] # NULL =>
          Waits(serving[u])' /\ Head(list[serving[u]]) = Home(u)
    <3>1. \A u, p \in Threads : serving[u] = p => Waits(p)' /\ Head(list[p]) = Home(u)
      BY <1>0, <2>w, <2>5 DEF Inv, Calls
    <3>2. QED
      BY <1>0, <2>1, <3>1
  <2>10. \A u \in Threads, r \in Servers : serving[u] \notin ToSet(inbox'[r])
    <3>1. \A u \in Threads, r \in Servers : serving[u] \notin ToSet(inbox[r])
      BY DEF Inv, Calls
    <3>2. QED
      BY <2>3, <2>5, <2>6, <3>1
  <2>11. ASSUME NEW p \in Threads, Waits(p)'
         PROVE  p \in ToSet(inbox'[Head(list[p])]) \/ \E u \in Threads : serving[u] = p
    <3>1. CASE p = t
      BY <2>6, <3>1 DEF s
    <3>2. CASE p # t
      <4>1. Waits(p) /\ Head(list[p]) \in Servers
        BY <1>h, <2>w, <2>11, <3>2
      <4>2. p \in ToSet(inbox[Head(list[p])]) \/ \E u \in Threads : serving[u] = p
        BY <4>1 DEF Inv, Calls
      <4>3. QED
        BY <2>3, <2>6, <4>1, <4>2
    <3>3. QED
      BY <3>1, <3>2
  <2>12. QED
    BY <2>1, <2>w, <2>7, <2>8, <2>9, <2>10, <2>11 DEF Inv, Calls
<1>3. ASSUME NEW t \in Threads, Serve(t) PROVE Calls'
  <2> DEFINE s == Home(t)  q == Head(inbox[s])
  <2>1. /\ UNCHANGED <<list, pc, unanswered>> /\ serving[t] = NULL
        /\ serving' = [serving EXCEPT ![t] = q] /\ inbox[s] # <<>>
        /\ inbox' = [inbox EXCEPT ![s] = Tail(inbox[s])]
    BY <1>3 DEF Serve, Dequeue, Free
  <2>2. /\ s \in Servers /\ inbox[s] \in Seq(Threads) /\ IsInjective(inbox[s])
    BY <1>0 DEF Inv, Calls
  <2>3. /\ q \in Threads /\ q \in ToSet(inbox[s])
        /\ ToSet(Tail(inbox[s])) = ToSet(inbox[s]) \ {q}
        /\ IsInjective(Tail(inbox[s]))
    <3>1. Len(inbox[s]) \in Nat \ {0} /\ q = inbox[s][1] /\ q \in Threads
      BY <2>1, <2>2, CdrList
    <3>2. q \in ToSet(inbox[s])
      BY <2>2, <3>1, InList
    <3>3. QED
      BY <2>1, <2>2, <3>1, <3>2, CdrList
  <2> HIDE DEF q, s
  <2>4. /\ serving'[t] = q /\ \A u \in Threads : u # t => serving'[u] = serving[u]
        /\ ToSet(inbox'[s]) = ToSet(inbox[s]) \ {q} /\ IsInjective(inbox'[s])
        /\ \A r \in Servers : r # s => inbox'[r] = inbox[r]
    BY <1>0, <2>1, <2>2, <2>3
  <2>w. /\ \A u \in Threads : Waits(u)' <=> Waits(u)
        /\ \A u \in unanswered' : pc'[u] = "wait"
    BY <1>0, <2>1 DEF Waits
  <2>5. Waits(q) /\ Head(list[q]) = s
    BY <2>2, <2>3 DEF Inv, Calls
  <2>6. /\ \A r \in Servers : r # s => q \notin ToSet(inbox[r])
        /\ \A u \in Threads : serving[u] # q
    BY <2>2, <2>3, <2>5 DEF Inv, Calls
  <2>7. /\ \A r \in Servers : IsInjective(inbox'[r])
        /\ \A r \in Servers : \A p \in ToSet(inbox'[r]) :
             Waits(p) /\ Head(list[p]) = r
    BY <2>4 DEF Inv, Calls
  <2>8. \A u \in Threads : serving'[u] # NULL =>
          Waits(serving'[u]) /\ Head(list[serving'[u]]) = Home(u)
    BY <2>4, <2>5 DEF Inv, Calls, s
  <2>9. \A u, v \in Threads :
          serving'[u] # NULL /\ serving'[u] = serving'[v] => u = v
    BY <2>4, <2>6 DEF Inv, Calls
  <2>10. ASSUME NEW u \in Threads, NEW r \in Servers
         PROVE  serving'[u] \notin ToSet(inbox'[r])
    <3>1. CASE u = t
      BY <2>4, <2>6, <3>1
    <3>2. CASE u # t
      BY <2>4, <3>2 DEF Inv, Calls
    <3>3. QED
      BY <3>1, <3>2
  <2>11. ASSUME NEW p \in Threads, Waits(p)
         PROVE  p \in ToSet(inbox'[Head(list[p])]) \/ \E u \in Threads : serving'[u] = p
    <3>1. p \in ToSet(inbox[Head(list[p])]) \/ \E u \in Threads : serving[u] = p
      BY <2>11 DEF Inv, Calls
    <3>2. CASE p = q
      BY <2>4, <3>2
    <3>3. CASE p # q /\ p \in ToSet(inbox[Head(list[p])])
      BY <1>h, <2>4, <2>11, <3>3
    <3>4. ASSUME NEW u \in Threads, serving[u] = p
          PROVE  \E v \in Threads : serving'[v] = p
      BY <1>0, <2>1, <2>4, <3>4
    <3>5. QED
      BY <3>1, <3>2, <3>3, <3>4
  <2>i. ToSet(inbox'[s]) \subseteq Threads /\ \A r \in Servers : ToSet(inbox'[r]) \subseteq Threads
    BY <1>a, <2>2, <2>4
  <2>v. \A u \in Threads : serving'[u] \in Threads \cup {NULL}
    BY <1>0, <2>3, <2>4
  <2>12. QED
    BY <2>1, <2>w, <2>7, <2>8, <2>9, <2>10, <2>11, <2>i, <2>v DEF Calls
<1>4. ASSUME NEW gone \in SUBSET Threads,
             \A u \in Threads : Waits(u)' <=> Waits(u) /\ u \notin gone,
             \A u \in Threads \ gone : list'[u] = list[u],
             \A u \in unanswered' : pc'[u] = "wait",
             \A r \in Servers : /\ IsInjective(inbox'[r])
                                /\ ToSet(inbox'[r]) = ToSet(inbox[r]) \ gone,
             \A u \in Threads :
               serving'[u] = IF serving[u] \in gone THEN NULL ELSE serving[u]
      PROVE  Calls'
  <2>1. \A r \in Servers : \A u \in ToSet(inbox'[r]) :
          Waits(u)' /\ Head(list'[u]) = r
    <3>1. \A r \in Servers : \A u \in ToSet(inbox'[r]) :
            /\ u \in ToSet(inbox[r]) /\ u \in Threads \ gone
            /\ Waits(u) /\ Head(list[u]) = r
      BY <1>a, <1>4 DEF Inv, Calls
    <3>2. QED
      BY <1>4, <3>1
  <2>2. \A u \in Threads : serving'[u] # NULL =>
          /\ serving'[u] = serving[u] /\ serving[u] \in Threads \ gone
          /\ Waits(serving[u])' /\ Head(list'[serving[u]]) = Home(u)
    <3>1. ASSUME NEW u \in Threads, serving'[u] # NULL
          PROVE  /\ serving'[u] = serving[u] /\ serving[u] \in Threads \ gone
                 /\ Waits(serving[u]) /\ Head(list[serving[u]]) = Home(u)
      BY <1>0, <1>4, <3>1 DEF Inv, Calls
    <3>2. QED
      BY <1>4, <3>1
  <2>3. \A u, v \in Threads :
          serving'[u] # NULL /\ serving'[u] = serving'[v] => u = v
    BY <2>2 DEF Inv, Calls
  <2>4. \A u \in Threads, r \in Servers : serving'[u] \notin ToSet(inbox'[r])
    <3>1. \A r \in Servers : NULL \notin ToSet(inbox'[r])
      BY <1>0, <1>a, <1>4
    <3>2. QED
      BY <1>4, <2>2, <3>1 DEF Inv, Calls
  <2>5. ASSUME NEW u \in Threads, Waits(u)'
        PROVE  u \in ToSet(inbox'[Head(list'[u])]) \/ \E v \in Threads : serving'[v] = u
    <3>1. u \notin gone /\ Waits(u) /\ list'[u] = list[u] /\ Head(list[u]) \in Servers
      BY <1>h, <1>4, <2>5
    <3>2. u \in ToSet(inbox[Head(list[u])]) \/ \E v \in Threads : serving[v] = u
      BY <3>1 DEF Inv, Calls
    <3>3. QED
      BY <1>4, <3>1, <3>2
  <2>6. QED
    BY <1>4, <2>1, <2>2, <2>3, <2>4, <2>5 DEF Calls
<1>5. ASSUME NEW t \in Threads, Reply(t) \/ catch_req(t) PROVE Calls'
  <2> DEFINE p == serving[t]  s == Home(t)
  <2>1. /\ p \in Threads /\ p # NULL /\ s \in Servers
        /\ \A r \in Servers : p \notin ToSet(inbox[r])
        /\ \A u \in Threads : u # t => serving[u] # p
        /\ Waits(p)
    BY <1>0, <1>5 DEF Reply, catch_req, Inv, Calls
  <2>2. /\ \A r \in Servers : IsInjective(inbox[r])
        /\ \A r \in Servers : ToSet(inbox[r]) = ToSet(inbox[r]) \ {p}
    BY <2>1 DEF Inv, Calls
  <2>3. serving' = [serving EXCEPT ![t] = NULL] =>
          \A u \in Threads :
            serving'[u] = IF serving[u] \in {p} THEN NULL ELSE serving[u]
    BY <1>0, <2>1
  <2>4. CASE Reply(t)
    <3>1. /\ serving' = [serving EXCEPT ![t] = NULL] /\ UNCHANGED <<inbox, unanswered>>
          /\ pc' = [pc EXCEPT ![p] = "call"] /\ list' = [list EXCEPT ![p] = Tail(list[p])]
      BY <2>4 DEF Reply, http_get_returns
    <3> HIDE DEF p
    <3>2. /\ pc'[p] = "call"
          /\ \A u \in Threads \ {p} : pc'[u] = pc[u] /\ list'[u] = list[u]
      BY <1>0, <2>1, <3>1
    <3>3. /\ \A u \in Threads : Waits(u)' <=> Waits(u) /\ u \notin {p}
          /\ \A u \in unanswered' : pc'[u] = "wait"
      BY <1>0, <2>1, <3>1, <3>2 DEF Waits
    <3>4. \A r \in Servers : /\ IsInjective(inbox'[r])
                             /\ ToSet(inbox'[r]) = ToSet(inbox[r]) \ {p}
      BY <2>2, <3>1
    <3>5. QED
      BY <1>4, <2>1, <2>3, <3>1, <3>2, <3>3, <3>4
  <2>5. CASE /\ serving' = [serving EXCEPT ![t] = NULL]
             /\ UNCHANGED <<pc, list, inbox>> /\ unanswered' = unanswered \cup {p}
    <3>1. /\ \A u \in Threads : Waits(u)' <=> Waits(u) /\ u \notin {p}
          /\ \A u \in unanswered' : pc'[u] = "wait"
      BY <1>0, <2>1, <2>5 DEF Waits
    <3>2. \A r \in Servers : /\ IsInjective(inbox'[r])
                             /\ ToSet(inbox'[r]) = ToSet(inbox[r]) \ {p}
      BY <2>2, <2>5
    <3> HIDE DEF p
    <3>3. QED
      BY <1>4, <2>1, <2>3, <2>5, <3>1, <3>2
  <2>6. ASSUME NEW q \in Threads \ (unanswered \cup {p}),
               pc[q] = "wait", Head(list[q]) = s, http_get_returns(q),
               serving' = [u \in Threads |-> IF serving[u] \in {p, q} THEN NULL
                                             ELSE serving[u]],
               inbox' = [inbox EXCEPT ![s] = filter(inbox[s], q)],
               unanswered' = unanswered \cup {p}
        PROVE  Calls'
    <3> HIDE DEF p, s
    <3>1. pc' = [pc EXCEPT ![q] = "call"] /\ list' = [list EXCEPT ![q] = Tail(list[q])]
      BY <2>6 DEF http_get_returns
    <3>2. /\ pc'[q] = "call"
          /\ \A u \in Threads \ {q} : pc'[u] = pc[u] /\ list'[u] = list[u]
      BY <1>0, <2>6, <3>1
    <3>3. /\ \A u \in Threads : Waits(u)' <=> Waits(u) /\ u \notin {p, q}
          /\ \A u \in unanswered' : pc'[u] = "wait"
      BY <1>0, <2>1, <2>6, <3>2 DEF Waits
    <3>4. /\ inbox'[s] = filter(inbox[s], q)
          /\ \A r \in Servers : r # s => inbox'[r] = inbox[r]
      BY <1>0, <2>1, <2>6
    <3>5. /\ IsInjective(filter(inbox[s], q))
          /\ ToSet(filter(inbox[s], q)) = ToSet(inbox[s]) \ {q}
      BY <1>0, <2>1, <2>2, FilterList
    <3>6. \A r \in Servers : r # s => q \notin ToSet(inbox[r])
      BY <2>6 DEF Inv, Calls
    <3>7. ASSUME NEW r \in Servers
          PROVE  /\ IsInjective(inbox'[r])
                 /\ ToSet(inbox'[r]) = ToSet(inbox[r]) \ {p, q}
      <4>1. CASE r = s
        BY <2>1, <3>4, <3>5, <4>1
      <4>2. CASE r # s
        BY <2>1, <2>2, <3>4, <3>6, <4>2
      <4>3. QED
        BY <4>1, <4>2
    <3>8. \A u \in Threads :
            serving'[u] = IF serving[u] \in {p, q} THEN NULL ELSE serving[u]
      BY <2>6
    <3>9. {p, q} \in SUBSET Threads /\ \A u \in Threads \ {p, q} : list'[u] = list[u]
      BY <2>1, <2>6, <3>2
    <3>10. QED
      BY <1>4, <3>3, <3>7, <3>8, <3>9
  <2>7. QED
    BY <1>5, <2>4, <2>5, <2>6 DEF catch_req
<1>6. QED
  BY <1>1, <1>2, <1>3, <1>5, QuietOrNot

-----------------------------------------------------------------------------
(* Most steps leave the rows alone, and those who write them.              *)
Aside ==
  /\ UNCHANGED <<table, listens, subscribed>> /\ disturbed \subseteq disturbed'
  /\ \A t \in Threads :
       /\ pc'[t] \in Writing =>
            pc'[t] = pc[t] /\ list'[t] = list[t] /\ key'[t] = key[t]
       /\ pc[t] = "slisten" => pc'[t] = "slisten" /\ key'[t] = key[t]

(* Only the reads and writes of the two changes of a row, and the          *)
(* registration of a responder, touch rows or the changes under way.       *)
LEMMA AsideOrNot ==
  ASSUME Inv, [Next]_vars
  PROVE  \/ Aside
         \/ \E t \in Threads : \/ SubscribeRead(t) \/ UnsubscribeRead(t)
                               \/ SubscribeWrite(t) \/ UnsubscribeWrite(t)
                               \/ http_json(t)
<1>0. /\ list \in [Threads -> Seq(Servers)] /\ key \in [Threads -> Keys \cup {NULL}]
      /\ pc \in [Threads -> {"idle", "ukeys"} \cup Changing \cup Publishing]
      /\ serving \in [Threads -> Threads \cup {NULL}]
  BY DEF Inv, TypeOK
<1>1. CASE UNCHANGED vars
  BY <1>1 DEF vars, regVars, Aside
<1>2. ASSUME NEW t \in Threads, UNCHANGED <<table, listens, subscribed>>,
             disturbed \subseteq disturbed',
             pc[t] # "slisten", NEW at, at \notin Writing,
             pc' = [pc EXCEPT ![t] = at],
             \A p \in Threads : p # t => list'[p] = list[p] /\ key'[p] = key[p]
      PROVE  Aside
  <2>1. pc'[t] = at /\ \A p \in Threads : p # t => pc'[p] = pc[p]
    BY <1>0, <1>2
  <2>2. QED
    BY <1>2, <2>1 DEF Aside
<1>3. ASSUME NEW t \in Threads, Start(t) PROVE Aside
  <2>1. /\ UNCHANGED <<table, listens, subscribed, list>> /\ pc[t] = "idle"
        /\ disturbed \subseteq disturbed'
        /\ \E at \in {"sread", "pread", "ukeys"} : pc' = [pc EXCEPT ![t] = at]
        /\ \E k : key' = [key EXCEPT ![t] = k]
    BY <1>3 DEF Start, msg_subscribe, msg_publish, msg_unsubscribe_all, Begin, Free, regVars
  <2>2. QED
    BY <1>0, <1>2, <2>1 DEF Writing
<1>4. ASSUME NEW t \in Threads, PublishRead(t) PROVE Aside
  <2>1. /\ UNCHANGED <<table, listens, subscribed, disturbed, key>> /\ pc[t] = "pread"
        /\ pc' = [pc EXCEPT ![t] = "call"]
        /\ \E l : list' = [list EXCEPT ![t] = l]
    BY <1>4 DEF PublishRead, ReadRow, regVars
  <2>2. QED
    BY <1>0, <1>2, <2>1 DEF Writing
<1>5. ASSUME NEW t \in Threads, PublishEnds(t) \/ NextKey(t) PROVE Aside
  <2>1. /\ UNCHANGED <<table, listens, subscribed, disturbed, list>>
        /\ pc[t] \in {"call", "ukeys"}
        /\ \E at \in {"idle", "uread"} : pc' = [pc EXCEPT ![t] = at]
        /\ \E k : key' = [key EXCEPT ![t] = k]
    BY <1>5 DEF PublishEnds, NextKey, regVars
  <2>2. QED
    BY <1>0, <1>2, <2>1 DEF Writing
<1>6. ASSUME NEW t \in Threads, http_get(t) \/ http_get_fails(t) PROVE Aside
  <2>1. /\ UNCHANGED <<table, listens, subscribed, disturbed, key>> /\ pc[t] = "call"
        /\ \A p \in Threads : p # t => list'[p] = list[p]
        /\ \E at \in {"wait", "call"} : pc' = [pc EXCEPT ![t] = at]
    BY <1>0, <1>6 DEF http_get, http_get_fails, regVars
  <2>2. QED
    BY <1>2, <2>1 DEF Writing
<1>7. ASSUME NEW t \in Threads, Serve(t) PROVE Aside
  BY <1>7 DEF Serve, regVars, Aside
<1>8. ASSUME NEW p \in Threads, pc[p] = "wait", http_get_returns(p),
             UNCHANGED <<table, listens, subscribed, disturbed, key>>
      PROVE  Aside
  <2>1. pc' = [pc EXCEPT ![p] = "call"] /\ list' = [list EXCEPT ![p] = Tail(list[p])]
    BY <1>8 DEF http_get_returns
  <2>2. QED
    BY <1>0, <1>2, <1>8, <2>1 DEF Writing
<1>9. ASSUME NEW t \in Threads, Reply(t) \/ catch_req(t) PROVE Aside
  <2>1. /\ UNCHANGED <<table, listens, subscribed, disturbed, key>>
        /\ serving[t] # NULL => pc[serving[t]] = "wait" /\ serving[t] \in Threads
    BY <1>0, <1>9 DEF Reply, catch_req, regVars, Inv, Calls, Waits
  <2>2. CASE UNCHANGED <<pc, list>>
    BY <2>1, <2>2 DEF Aside
  <2>3. CASE \E p \in Threads : pc[p] = "wait" /\ http_get_returns(p)
    BY <1>8, <2>1, <2>3
  <2>4. QED
    BY <1>9, <2>1, <2>2, <2>3 DEF Reply, catch_req
<1>10. QED
  BY <1>1, <1>3, <1>4, <1>5, <1>6, <1>7, <1>9 DEF Next, Work

(* What a subscriber and an unsubscriber write.                            *)
LEMMA NewRows ==
  ASSUME Inv, NEW t \in Threads, IsInjective(list[t])
  PROVE  /\ IsInjective(AddUnlessMember(t)) /\ IsInjective(Keepers(t))
         /\ ToSet(AddUnlessMember(t)) = ToSet(list[t]) \cup {Home(t)}
         /\ ToSet(Keepers(t)) = ToSet(list[t]) \ {Home(t)}
<1>1. list[t] \in Seq(Servers) /\ Home(t) \in Servers
  BY Homes DEF Inv, TypeOK
<1>2. IsInjective(Keepers(t)) /\ ToSet(Keepers(t)) = ToSet(list[t]) \ {Home(t)}
  BY <1>1, FilterList DEF Keepers
<1>3. CASE Contains(list[t], Home(t))
  <2>1. Home(t) \in ToSet(list[t])
    BY <1>1, <1>3, InList
  <2>2. AddUnlessMember(t) = list[t]
    BY <1>3 DEF AddUnlessMember
  <2>3. QED
    BY <1>2, <2>1, <2>2
<1>4. CASE ~Contains(list[t], Home(t))
  <2>1. Home(t) \notin ToSet(list[t])
    BY <1>1, <1>4, InList
  <2>2. AddUnlessMember(t) = <<Home(t)>> \o list[t]
    BY <1>4 DEF AddUnlessMember
  <2>3. QED
    BY <1>1, <1>2, <2>1, <2>2, ConsList
<1>5. QED
  BY <1>3, <1>4

(* What a write of a row makes of it: the new list, or, if the statement   *)
(* fails, what it was.                                                     *)
LEMMA Written ==
  ASSUME Inv, RowsKept, NEW t \in Threads,
         \/ SubscribeWrite(t)
         \/ UnsubscribeWrite(t)
  PROVE  /\ UNCHANGED <<listens, key>> /\ pc[t] \in Writing /\ key[t] \in Keys
         /\ disturbed \subseteq disturbed'
         /\ \E at \in {"slisten", "ukeys"} : pc' = [pc EXCEPT ![t] = at]
         /\ list' = [list EXCEPT ![t] = <<>>]
         /\ \A k \in Keys : k # key[t] =>
              /\ table'[k] = table[k]
              /\ \A s \in Servers : <<s, k>> \in subscribed' <=> <<s, k>> \in subscribed
         /\ IsInjective(table'[key[t]])
         /\ ToSet(table'[key[t]]) \subseteq
              ToSet(table[key[t]]) \cup ToSet(list[t]) \cup {Home(t)}
         /\ key[t] \notin disturbed' =>
              \A s \in Servers :
                s \in ToSet(table'[key[t]]) <=> <<s, key[t]>> \in subscribed'
<1> DEFINE k == key[t]  add == AddUnlessMember(t)  keep == Keepers(t)
<1>1. /\ UNCHANGED <<listens, key>> /\ pc[t] \in Writing
      /\ \E at \in {"slisten", "ukeys"} : pc' = [pc EXCEPT ![t] = at]
      /\ list' = [list EXCEPT ![t] = <<>>]
  BY DEF SubscribeWrite, UnsubscribeWrite, Writing
<1>2. /\ k \in Keys /\ table \in [Keys -> Seq(Servers)]
      /\ IsInjective(list[t]) /\ IsInjective(table[k])
      /\ k \notin disturbed =>
           /\ list[t] = table[k]
           /\ ToSet(table[k]) = {s \in Servers : <<s, k>> \in subscribed}
  BY <1>1 DEF Inv, TypeOK, AtWork, RowsKept, Writing, Changing
<1>3. /\ IsInjective(add) /\ ToSet(add) = ToSet(list[t]) \cup {Home(t)}
      /\ IsInjective(keep) /\ ToSet(keep) = ToSet(list[t]) \ {Home(t)}
      /\ Home(t) \in Servers
  BY <1>2, NewRows, Homes
<1> HIDE DEF k, add, keep
<1>4. CASE SubscribeWrite(t)
  <2>1. /\ subscribed' = subscribed \cup {<<Home(t), k>>}
        /\ \/ add = list[t] /\ UNCHANGED <<table, disturbed>>
           \/ table' = [table EXCEPT ![k] = add] /\ UNCHANGED disturbed
           \/ UNCHANGED table /\ disturbed' = disturbed \cup {k}
    BY <1>4 DEF SubscribeWrite, WriteRow, k, add
  <2>2. /\ disturbed \subseteq disturbed'
        /\ \A j \in Keys : j # k =>
             /\ table'[j] = table[j]
             /\ \A s \in Servers : <<s, j>> \in subscribed' <=> <<s, j>> \in subscribed
    BY <1>2, <2>1
  <2>3. /\ table'[k] \in {table[k], add}
        /\ k \notin disturbed' => k \notin disturbed /\ table'[k] = add
    BY <1>2, <2>1
  <2>4. k \notin disturbed' =>
          \A s \in Servers : s \in ToSet(table'[k]) <=> <<s, k>> \in subscribed'
    BY <1>2, <1>3, <2>1, <2>3
  <2>5. /\ IsInjective(table'[k])
        /\ ToSet(table'[k]) \subseteq ToSet(table[k]) \cup ToSet(list[t]) \cup {Home(t)}
    BY <1>2, <1>3, <2>3
  <2>6. QED
    BY <1>1, <1>2, <2>2, <2>4, <2>5 DEF k
<1>5. CASE UnsubscribeWrite(t)
  <2>1. /\ subscribed' = subscribed \ {<<Home(t), k>>}
        /\ \/ table' = [table EXCEPT ![k] = keep] /\ UNCHANGED disturbed
           \/ UNCHANGED table /\ disturbed' = disturbed \cup {k}
    BY <1>5 DEF UnsubscribeWrite, WriteRow, k, keep
  <2>2. /\ disturbed \subseteq disturbed'
        /\ \A j \in Keys : j # k =>
             /\ table'[j] = table[j]
             /\ \A s \in Servers : <<s, j>> \in subscribed' <=> <<s, j>> \in subscribed
    BY <1>2, <2>1
  <2>3. /\ table'[k] \in {table[k], keep}
        /\ k \notin disturbed' => k \notin disturbed /\ table'[k] = keep
    BY <1>2, <2>1
  <2>4. k \notin disturbed' =>
          \A s \in Servers : s \in ToSet(table'[k]) <=> <<s, k>> \in subscribed'
    BY <1>2, <1>3, <2>1, <2>3
  <2>5. /\ IsInjective(table'[k])
        /\ ToSet(table'[k]) \subseteq ToSet(table[k]) \cup ToSet(list[t]) \cup {Home(t)}
    BY <1>2, <1>3, <2>3
  <2>6. QED
    BY <1>1, <1>2, <2>2, <2>4, <2>5 DEF k
<1>6. QED
  BY <1>4, <1>5

(* What the read of a change brings: the row, or nothing.                  *)
LEMMA ReadIn ==
  ASSUME Inv, NEW t \in Threads, SubscribeRead(t) \/ UnsubscribeRead(t)
  PROVE  /\ UNCHANGED <<table, listens, subscribed, key>> /\ key[t] \in Keys
         /\ disturbed \subseteq disturbed' /\ pc[t] \in {"sread", "uread"}
         /\ \E at \in Writing : pc' = [pc EXCEPT ![t] = at]
         /\ list'[t] \in {table[key[t]], <<>>}
         /\ \A u \in Threads : u # t => list'[u] = list[u] /\ pc'[u] = pc[u]
         /\ key[t] \notin disturbed' =>
              list'[t] = table[key[t]] /\ ~Overlaps(t, key[t])
<1>1. /\ UNCHANGED <<table, listens, subscribed, key>> /\ pc[t] \in {"sread", "uread"}
      /\ \E at \in Writing : pc' = [pc EXCEPT ![t] = at]
      /\ ReadToChange(t, "swrite") \/ ReadToChange(t, "uwrite")
  BY DEF SubscribeRead, UnsubscribeRead, ReadToChange, ReadRow, Writing
<1>2. PICK row \in {table[key[t]], <<>>} : list' = [list EXCEPT ![t] = row]
  BY <1>1 DEF ReadToChange, ReadRow
<1>3. /\ key[t] \in Keys /\ pc \in [Threads -> {"idle", "ukeys"} \cup Changing \cup Publishing]
      /\ list \in [Threads -> Seq(Servers)]
  BY <1>1 DEF Inv, TypeOK, AtWork, Changing
<1>4. /\ list'[t] \in {table[key[t]], <<>>}
      /\ \A u \in Threads : u # t => list'[u] = list[u] /\ pc'[u] = pc[u]
  BY <1>1, <1>2, <1>3
<1>5. disturbed' = IF Overlaps(t, key[t]) \/ list'[t] # table[key[t]]
                   THEN disturbed \cup {key[t]} ELSE disturbed
  BY <1>1 DEF ReadToChange
<1>6. QED
  BY <1>1, <1>3, <1>4, <1>5

(* Every step keeps the rows.                                              *)
LEMMA RowsStep ==
  ASSUME Inv, RowsKept, [Next]_vars
  PROVE  RowsKept'
<1>0. /\ list \in [Threads -> Seq(Servers)] /\ key \in [Threads -> Keys \cup {NULL}]
      /\ pc \in [Threads -> {"idle", "ukeys"} \cup Changing \cup Publishing]
      /\ table \in [Keys -> Seq(Servers)]
      /\ \A u \in Threads : pc[u] \in Writing => key[u] \in Keys
  BY DEF Inv, TypeOK, AtWork, Writing, Changing
<1>1. CASE Aside
  <2>1. table' = table /\ subscribed' = subscribed /\ disturbed \subseteq disturbed'
    BY <1>1 DEF Aside
  <2>2. \A t \in Threads : pc'[t] \in Writing =>
          pc[t] \in Writing /\ list'[t] = list[t] /\ key'[t] = key[t]
    BY <1>1 DEF Aside
  <2>3. QED
    BY <2>1, <2>2 DEF RowsKept
<1>2. ASSUME NEW t \in Threads, SubscribeRead(t) \/ UnsubscribeRead(t) PROVE RowsKept'
  <2>1. /\ UNCHANGED <<table, subscribed, key>> /\ key[t] \in Keys
        /\ disturbed \subseteq disturbed'
        /\ list'[t] \in {table[key[t]], <<>>}
        /\ \A u \in Threads : u # t => list'[u] = list[u] /\ pc'[u] = pc[u]
        /\ key[t] \notin disturbed' =>
             list'[t] = table[key[t]] /\ ~Overlaps(t, key[t])
    BY <1>2, ReadIn
  <2>2. IsInjective(list'[t])
    BY <2>1, NoList DEF RowsKept
  <2>3. \A u \in Threads : u # t /\ pc'[u] \in Writing /\ key[u] = key[t] =>
          key[t] \in disturbed'
    BY <2>1 DEF Overlaps, Writing
  <2>4. /\ \A k \in Keys : IsInjective(table'[k])
        /\ \A u \in Threads : pc'[u] \in Writing => IsInjective(list'[u])
        /\ \A k \in Keys : k \notin disturbed' =>
             ToSet(table'[k]) = {s \in Servers : <<s, k>> \in subscribed'}
    BY <2>1, <2>2 DEF RowsKept
  <2>5. \A u \in Threads : pc'[u] \in Writing /\ key'[u] \notin disturbed' =>
          list'[u] = table'[key'[u]]
    BY <2>1 DEF RowsKept
  <2>6. \A u, v \in Threads :
          /\ pc'[u] \in Writing /\ pc'[v] \in Writing
          /\ key'[u] = key'[v] /\ key'[u] \notin disturbed'
          => u = v
    BY <2>1, <2>3 DEF RowsKept
  <2>7. QED
    BY <2>4, <2>5, <2>6 DEF RowsKept
<1>3. ASSUME NEW t \in Threads, SubscribeWrite(t) \/ UnsubscribeWrite(t) PROVE RowsKept'
  <2>1. /\ UNCHANGED key /\ pc[t] \in Writing /\ key[t] \in Keys
        /\ disturbed \subseteq disturbed'
        /\ \E at \in {"slisten", "ukeys"} : pc' = [pc EXCEPT ![t] = at]
        /\ list' = [list EXCEPT ![t] = <<>>]
        /\ \A k \in Keys : k # key[t] =>
             /\ table'[k] = table[k]
             /\ \A s \in Servers : <<s, k>> \in subscribed' <=> <<s, k>> \in subscribed
        /\ IsInjective(table'[key[t]])
        /\ key[t] \notin disturbed' =>
             \A s \in Servers :
               s \in ToSet(table'[key[t]]) <=> <<s, key[t]>> \in subscribed'
    BY <1>3, Written
  <2>2. /\ pc'[t] \notin Writing
        /\ \A u \in Threads : u # t => pc'[u] = pc[u] /\ list'[u] = list[u]
    BY <1>0, <2>1 DEF Writing
  <2>3. \A u \in Threads : pc'[u] \in Writing =>
          /\ u # t /\ pc[u] \in Writing /\ list'[u] = list[u] /\ key[u] \in Keys
          /\ key[u] = key[t] => key[u] \in disturbed'
    BY <1>0, <2>1, <2>2 DEF RowsKept
  <2>4. ToSet(table'[key[t]]) \subseteq Servers
    <3>1. table'[key[t]] \in Seq(Servers)
      BY <2>1, TypeStep DEF TypeOK
    <3>2. QED
      BY <3>1, InList
  <2>5. ASSUME NEW k \in Keys, k \notin disturbed'
        PROVE  ToSet(table'[k]) = {s \in Servers : <<s, k>> \in subscribed'}
    <3>1. CASE k = key[t]
      BY <2>1, <2>4, <2>5, <3>1
    <3>2. CASE k # key[t]
      <4>1. ToSet(table[k]) = {s \in Servers : <<s, k>> \in subscribed}
        BY <2>1, <2>5 DEF RowsKept
      <4>2. {s \in Servers : <<s, k>> \in subscribed} =
              {s \in Servers : <<s, k>> \in subscribed'}
        BY <2>1, <3>2
      <4>3. QED
        BY <2>1, <3>2, <4>1, <4>2
    <3>3. QED
      BY <3>1, <3>2
  <2>6. /\ \A k \in Keys : IsInjective(table'[k])
        /\ \A u \in Threads : pc'[u] \in Writing => IsInjective(list'[u])
    BY <2>1, <2>3 DEF RowsKept
  <2>7. \A u \in Threads : pc'[u] \in Writing /\ key'[u] \notin disturbed' =>
          list'[u] = table'[key'[u]]
    BY <2>1, <2>3 DEF RowsKept
  <2>8. \A u, v \in Threads :
          /\ pc'[u] \in Writing /\ pc'[v] \in Writing
          /\ key'[u] = key'[v] /\ key'[u] \notin disturbed'
          => u = v
    BY <2>1, <2>3 DEF RowsKept
  <2>9. QED
    BY <2>5, <2>6, <2>7, <2>8 DEF RowsKept
<1>4. ASSUME NEW t \in Threads, http_json(t) PROVE RowsKept'
  <2>1. /\ UNCHANGED <<table, subscribed, disturbed, list>>
        /\ pc' = [pc EXCEPT ![t] = "idle"] /\ key' = [key EXCEPT ![t] = NULL]
    BY <1>4 DEF http_json
  <2>2. /\ pc'[t] = "idle"
        /\ \A u \in Threads : u # t => pc'[u] = pc[u] /\ key'[u] = key[u]
    BY <1>0, <2>1
  <2>3. \A u \in Threads : pc'[u] \in Writing => pc[u] \in Writing /\ key'[u] = key[u]
    BY <2>2 DEF Writing
  <2>4. QED
    BY <2>1, <2>3 DEF RowsKept
<1>5. QED
  BY <1>1, <1>2, <1>3, <1>4, AsideOrNot

(* Every step keeps the responders: nobody is named anew but a subscriber  *)
(* about to register its own.                                              *)
LEMMA ListenedStep ==
  ASSUME Inv, RowsKept, Listened, [Next]_vars
  PROVE  Listened'
<1>0. /\ pc \in [Threads -> {"idle", "ukeys"} \cup Changing \cup Publishing]
      /\ key \in [Threads -> Keys \cup {NULL}] /\ list \in [Threads -> Seq(Servers)]
  BY DEF Inv, TypeOK
<1>1. ASSUME \A s \in Servers, k \in Keys : Named(s, k)' => Named(s, k) \/ Listens(s, k)',
             \A s \in Servers, k \in Keys : Listens(s, k) => Listens(s, k)'
      PROVE  Listened'
  BY <1>1 DEF Listened
<1>2. CASE Aside
  <2>1. \A s \in Servers, k \in Keys : Named(s, k)' => Named(s, k)
    BY <1>2 DEF Aside, Named
  <2>2. \A s \in Servers, k \in Keys : Listens(s, k) => Listens(s, k)'
    BY <1>2 DEF Aside, Listens
  <2>3. QED
    BY <1>1, <2>1, <2>2
<1>3. ASSUME NEW t \in Threads, SubscribeRead(t) \/ UnsubscribeRead(t) PROVE Listened'
  <2>1. /\ UNCHANGED <<table, listens, subscribed, key>>
        /\ pc[t] # "slisten"
        /\ list'[t] \in {table[key[t]], <<>>}
        /\ \A u \in Threads : u # t => list'[u] = list[u] /\ pc'[u] = pc[u]
    BY <1>3, ReadIn
  <2>2. \A s : s \in ToSet(list'[t]) => s \in ToSet(table[key[t]])
    BY <2>1, NoList
  <2>3. \A s \in Servers, k \in Keys : Named(s, k)' => Named(s, k)
    BY <2>1, <2>2 DEF Named
  <2>4. \A s \in Servers, k \in Keys : Listens(s, k) => Listens(s, k)'
    BY <2>1 DEF Listens
  <2>5. QED
    BY <1>1, <2>3, <2>4
<1>4. ASSUME NEW t \in Threads, SubscribeWrite(t) \/ UnsubscribeWrite(t) PROVE Listened'
  <2>1. /\ UNCHANGED <<listens, key>> /\ pc[t] \in Writing /\ key[t] \in Keys
        /\ \E at \in {"slisten", "ukeys"} : pc' = [pc EXCEPT ![t] = at]
        /\ list' = [list EXCEPT ![t] = <<>>]
        /\ \A k \in Keys : k # key[t] =>
             /\ table'[k] = table[k]
             /\ \A s \in Servers : <<s, k>> \in subscribed' <=> <<s, k>> \in subscribed
        /\ ToSet(table'[key[t]]) \subseteq
             ToSet(table[key[t]]) \cup ToSet(list[t]) \cup {Home(t)}
    BY <1>4, Written
  <2>2. /\ pc'[t] \in {"slisten", "ukeys"}
        /\ \A u \in Threads : u # t => pc'[u] = pc[u] /\ list'[u] = list[u]
    BY <1>0, <2>1
  <2>3. \A s \in Servers, k \in Keys : Listens(s, k) => Listens(s, k)'
    BY <2>1, <2>2 DEF Listens, Writing
  <2>4. SubscribeWrite(t) => pc'[t] = "slisten"
    BY <1>0 DEF SubscribeWrite
  <2>5. SubscribeWrite(t) =>
          \A s \in Servers, k \in Keys : s = Home(t) /\ k = key[t] => Listens(s, k)'
    BY <2>1, <2>4 DEF Listens
  <2>6. CASE SubscribeWrite(t)
    <3>1. subscribed' = subscribed \cup {<<Home(t), key[t]>>}
      BY <2>6 DEF SubscribeWrite
    <3>2. ASSUME NEW s \in Servers, NEW k \in Keys, Named(s, k)'
          PROVE  Named(s, k) \/ (s = Home(t) /\ k = key[t])
      <4>1. <<s, k>> \in subscribed' => <<s, k>> \in subscribed \/ (s = Home(t) /\ k = key[t])
        BY <3>1
      <4>2. s \in ToSet(table'[k]) => Named(s, k) \/ (s = Home(t) /\ k = key[t])
        BY <2>1 DEF Named
      <4>3. (\E u \in Threads : pc'[u] \in Writing /\ key'[u] = k /\ s \in ToSet(list'[u]))
              => Named(s, k)
        BY <2>1, <2>2 DEF Named, Writing
      <4>4. QED
        BY <3>2, <4>1, <4>2, <4>3 DEF Named
    <3>3. QED
      BY <1>1, <2>3, <2>5, <2>6, <3>2
  <2>7. CASE UnsubscribeWrite(t)
    <3>1. /\ subscribed' \subseteq subscribed
          /\ ToSet(table'[key[t]]) \subseteq ToSet(table[key[t]]) \cup ToSet(list[t])
      <4>1. /\ subscribed' \subseteq subscribed
            /\ table' = table \/ table' = [table EXCEPT ![key[t]] = Keepers(t)]
        BY <2>7 DEF UnsubscribeWrite, WriteRow
      <4>2. ToSet(Keepers(t)) \subseteq ToSet(list[t]) /\ table \in [Keys -> Seq(Servers)]
        BY <2>1, NewRows DEF RowsKept, Inv, TypeOK
      <4>3. QED
        BY <2>1, <4>1, <4>2
    <3>2. ASSUME NEW s \in Servers, NEW k \in Keys, Named(s, k)' PROVE Named(s, k)
      <4>1. s \in ToSet(table'[k]) => Named(s, k)
        BY <2>1, <3>1 DEF Named
      <4>2. (\E u \in Threads : pc'[u] \in Writing /\ key'[u] = k /\ s \in ToSet(list'[u]))
              => Named(s, k)
        BY <2>1, <2>2 DEF Named, Writing
      <4>3. QED
        BY <3>1, <3>2, <4>1, <4>2 DEF Named
    <3>3. QED
      BY <1>1, <2>3, <3>2
  <2>8. QED
    BY <1>4, <2>6, <2>7
<1>5. ASSUME NEW t \in Threads, http_json(t) PROVE Listened'
  <2>1. /\ UNCHANGED <<subscribed, table, list>> /\ pc[t] = "slisten"
        /\ listens' = listens \cup {<<Home(t), key[t]>>}
        /\ pc' = [pc EXCEPT ![t] = "idle"] /\ key' = [key EXCEPT ![t] = NULL]
    BY <1>5 DEF http_json
  <2>2. /\ pc'[t] = "idle"
        /\ \A u \in Threads : u # t => pc'[u] = pc[u] /\ key'[u] = key[u]
    BY <1>0, <2>1
  <2>3. \A s \in Servers, k \in Keys : Named(s, k)' => Named(s, k)
    BY <2>1, <2>2 DEF Named, Writing
  <2>4. \A s \in Servers, k \in Keys : Listens(s, k) => Listens(s, k)'
    BY <2>1, <2>2 DEF Listens
  <2>5. QED
    BY <1>1, <2>3, <2>4
<1>6. QED
  BY <1>2, <1>3, <1>4, <1>5, AsideOrNot

-----------------------------------------------------------------------------
MessagingInv == Inv /\ RowsKept /\ Listened

(* The invariant holds at the start.                                       *)
LEMMA MessagingInit == Init => MessagingInv
<1> SUFFICES ASSUME Init PROVE MessagingInv
  OBVIOUS
<1>1. /\ \A k \in Keys : table[k] = <<>>
      /\ \A t \in Threads : pc[t] = "idle" /\ serving[t] = NULL
      /\ \A s \in Servers : inbox[s] = <<>>
      /\ subscribed = {} /\ unanswered = {} /\ disturbed = {}
  BY DEF Init
<1>2. TypeOK
  <2>1. <<>> \in Seq(Servers) /\ <<>> \in Seq(Threads) /\ 0 \in 0 .. MaxOps
    BY ConstantsOK
  <2>2. table \in [Keys -> Seq(Servers)] /\ list \in [Threads -> Seq(Servers)]
        /\ inbox \in [Servers -> Seq(Threads)]
    BY <2>1 DEF Init
  <2>3. /\ pc \in [Threads -> {"idle", "ukeys"} \cup Changing \cup Publishing]
        /\ key \in [Threads -> Keys \cup {NULL}] /\ keys \in [Threads -> SUBSET Keys]
        /\ serving \in [Threads -> Threads \cup {NULL}]
    BY DEF Init
  <2>4. QED
    BY <1>1, <2>1, <2>2, <2>3 DEF Init, TypeOK
<1>3. AtWork
  BY <1>1 DEF AtWork, Changing, Publishing
<1>4. Calls
  BY <1>1, NoList DEF Calls, Waits
<1>5. RowsKept /\ Listened
  BY <1>1, NoList DEF RowsKept, Listened, Named, Writing
<1>6. QED
  BY <1>2, <1>3, <1>4, <1>5 DEF MessagingInv, Inv

(* The invariant of the messaging.                                         *)
THEOREM MessagingInvAlways == Spec => []MessagingInv
<1>1. MessagingInv /\ [Next]_vars => MessagingInv'
  BY TypeStep, CallsStep, RowsStep, ListenedStep DEF MessagingInv, Inv
<1>2. QED
  BY <1>1, MessagingInit, PTL DEF Spec

(* However subscribers, unsubscribers and publishers interleave, and       *)
(* whatever statements fail: rows name nobody twice and nobody without a   *)
(* responder, and as long as the changes of a key have not overlapped or   *)
(* failed, its row names exactly the subscribers.                          *)
THEOREM Subscriptions == Spec => []SubscriptionsKept
<1>1. ASSUME MessagingInv PROVE SubscriptionsKept
  <2>1. ASSUME NEW k \in Keys
        PROVE  LET subscribers == {s \in Servers : <<s, k>> \in subscribed} IN
               /\ IsInjective(table[k])
               /\ \A s \in ToSet(table[k]) \cup subscribers : Listens(s, k)
               /\ k \notin disturbed => ToSet(table[k]) = subscribers
    <3> DEFINE subscribers == {s \in Servers : <<s, k>> \in subscribed}
    <3>1. ToSet(table[k]) \subseteq Servers
      BY <1>1, InList DEF MessagingInv, Inv, TypeOK
    <3>2. \A s \in ToSet(table[k]) \cup subscribers : s \in Servers /\ Named(s, k)
      BY <3>1 DEF Named
    <3>3. QED
      BY <1>1, <3>2 DEF MessagingInv, Listened, RowsKept
  <2>2. QED
    BY <2>1 DEF SubscriptionsKept, Listens
<1>2. QED
  BY <1>1, MessagingInvAlways, PTL

(* A waiting publisher has its call in one place of the server it called,  *)
(* in the inbox or with a thread, unless a throwing handler lost its       *)
(* answer; nobody else has a call anywhere.                                *)
THEOREM OneCall == Spec => []OneCallEach
<1>1. ASSUME MessagingInv PROVE OneCallEach
  <2>0. /\ Calls /\ TypeOK /\ NULL \notin Threads
        /\ \A s \in Servers : inbox[s] \in Seq(Threads)
    BY <1>1, Homes DEF MessagingInv, Inv, TypeOK
  <2>1. ASSUME NEW p \in Threads, NEW w \in Queued(p)
        PROVE  /\ w[1] \in Servers /\ w[2] \in 1 .. Len(inbox[w[1]])
               /\ w = <<w[1], w[2]>> /\ inbox[w[1]][w[2]] = p
               /\ p \in ToSet(inbox[w[1]])
    <3>1. PICK s \in Servers : w \in {s} \X DOMAIN inbox[s]
      BY <2>1 DEF Queued
    <3>2. w[1] = s /\ w[2] \in 1 .. Len(inbox[s]) /\ w = <<w[1], w[2]>>
      BY <2>0, <3>1
    <3>3. inbox[w[1]][w[2]] = p
      BY <2>1 DEF Queued
    <3>4. QED
      BY <2>0, <3>2, <3>3, InList
  <2>2. ASSUME NEW p \in Threads, NEW s \in Servers, NEW i \in 1 .. Len(inbox[s]),
               inbox[s][i] = p
        PROVE  <<s, i>> \in Queued(p)
    <3>1. <<s, i>> \in {s} \X DOMAIN inbox[s]
      BY <2>0
    <3>2. QED
      BY <2>2, <3>1 DEF Queued
  <2>3. ASSUME NEW p \in Threads
        PROVE  /\ \A w \in Queued(p) : w[1] = Head(list[p]) /\ Waits(p)
               /\ \A t \in Served(p) : Home(t) = Head(list[p]) /\ Waits(p)
               /\ Queued(p) = {} \/ Served(p) = {}
    <3>1. \A w \in Queued(p) : w[1] = Head(list[p]) /\ Waits(p)
      BY <2>0, <2>1 DEF Calls
    <3>2. \A t \in Served(p) : /\ Home(t) = Head(list[p]) /\ Waits(p)
                               /\ t \in Threads /\ serving[t] = p
      BY <2>0 DEF Served, Calls
    <3>3. \A w \in Queued(p), t \in Served(p) : FALSE
      BY <2>0, <2>1, <3>2 DEF Calls
    <3>4. QED
      BY <3>1, <3>2, <3>3
  <2>4. ASSUME NEW p \in Threads
        PROVE  Cardinality(Queued(p)) + Cardinality(Served(p))
                 = (IF Waits(p) THEN 1 ELSE 0)
    <3>1. CASE ~Waits(p)
      <4>1. Queued(p) = {} /\ Served(p) = {}
        BY <2>3, <3>1
      <4>2. QED
        BY <3>1, <4>1, FS_EmptySet
    <3>2. CASE Waits(p) /\ p \in ToSet(inbox[Head(list[p])])
      <4> DEFINE s == Head(list[p])
      <4>1. s \in Servers
        <5>1. list[p] \in Seq(Servers) /\ list[p] # <<>>
          BY <1>1, <3>2 DEF MessagingInv, Inv, TypeOK, AtWork, Waits
        <5>2. QED
          BY <5>1, CdrList
      <4>2. PICK i \in 1 .. Len(inbox[s]) : inbox[s][i] = p
        BY <2>0, <3>2, <4>1, InList
      <4>3. \A w \in Queued(p) : w = <<s, i>>
        <5>1. \A j, k \in 1 .. Len(inbox[s]) : inbox[s][j] = inbox[s][k] => j = k
          BY <2>0, <4>1, InList DEF Calls
        <5>2. ASSUME NEW w \in Queued(p) PROVE w[1] = s /\ w[2] = i
          <6>1. w[1] = s
            BY <2>3
          <6>2. w[2] \in 1 .. Len(inbox[s]) /\ inbox[s][w[2]] = p
            BY <2>1, <6>1
          <6>3. QED
            BY <4>2, <5>1, <6>1, <6>2
        <5>3. QED
          BY <2>1, <5>2
      <4>4. Queued(p) = {<<s, i>>}
        <5>1. <<s, i>> \in Queued(p)
          BY <2>2, <4>1, <4>2
        <5>2. QED
          BY <4>3, <5>1, Zenon
      <4>5. Served(p) = {}
        BY <2>3, <4>4
      <4> DEFINE w == <<s, i>>
      <4>6. Queued(p) = {w}
        BY <4>4
      <4> HIDE DEF w
      <4>7. Cardinality(Queued(p)) = 1 /\ Cardinality(Served(p)) = 0
        BY <4>5, <4>6, FS_EmptySet, FS_Singleton
      <4>8. QED
        BY <3>2, <4>7
    <3>3. ASSUME NEW t \in Threads, serving[t] = p, Waits(p)
          PROVE  Cardinality(Queued(p)) + Cardinality(Served(p)) = 1
      <4>1. Served(p) = {t}
        BY <2>0, <3>3 DEF Served, Calls
      <4>2. Queued(p) = {}
        BY <2>3, <4>1
      <4>3. QED
        BY <4>1, <4>2, FS_EmptySet, FS_Singleton
    <3>4. QED
      BY <2>0, <3>1, <3>2, <3>3 DEF Calls
  <2>5. QED
    BY <2>0, <2>3, <2>4 DEF OneCallEach, Waits, Calls
<1>2. QED
  BY <1>1, MessagingInvAlways, PTL

=============================================================================
