--------------------------- MODULE HandlersProofs ---------------------------
(***************************************************************************)
(* Proofs about Handlers, for every number of threads, paths and requests: *)
(* while calls of set_handler do not overlap, each leaves a complete list, *)
(* and a search that none disturbs finds the longest prefix.               *)
(***************************************************************************)
EXTENDS Handlers, ListFacts

Quiet == \A w \in Writers : wpc[w] = "idle"

(* What holds even after calls have overlapped: whoever reads the head of  *)
(* the list or of its array finds an entry there.                          *)
Safe ==
  /\ done \subseteq 1 .. nentries /\ DOMAIN base = Readers
  /\ \A r \in Readers : base[r] = NULL \/ base[r] \subseteq 1 .. nentries
  /\ \A w \in Writers :
       /\ wpc[w] # "idle" => entry[w] \in 1 .. nentries
       /\ wpc[w] \in {"count", "sort"} => handlers # NULL
       /\ wpc[w] \in {"head", "relink"} => list[w] # <<>>
       /\ wpc[w] = "relink" => i[w] \in 1 .. Len(list[w])

(* A list, or an array, of the first n entries, each once.                 *)
HasAll(q, n) == /\ Len(q) = n
                /\ IsInjective(q) /\ ToSet(q) = 1 .. n

(* What the one call in progress has done so far.                          *)
Registering(w) ==
  LET e == entry[w] IN
  /\ e = nentries /\ e # 0 /\ done = 1 .. e - 1
  /\ wpc[w] = "push" => /\ link[e] = handlers
                        /\ \E q \in Seq(Ids) : HasAll(q, e - 1) /\ IsList(q)
  /\ wpc[w] \in {"count", "sort"} => \E q \in Seq(Ids) : HasAll(q, e) /\ IsList(q)
  /\ wpc[w] = "sort" => i[w] = e
  /\ wpc[w] \in {"head", "relink"} => HasAll(list[w], e) /\ LongestFirst(list[w])
  /\ wpc[w] = "relink" =>
       /\ handlers = list[w][1]
       /\ \A j \in 1 .. i[w] - 1 : link[list[w][j]] = list[w][j + 1]
  /\ wpc[w] # "crash"

(* A search that nobody disturbed has passed the first entries of the      *)
(* list, and none of them matched.                                         *)
Searching(r, q) ==
  \E k \in 1 .. Len(q) + 1 :
    /\ pt[r] = IF k = Len(q) + 1 THEN NULL ELSE q[k]
    /\ \A j \in 1 .. k - 1 : ~Matches(q[j], url[r])

InOrder ==
  /\ \A v, w \in Writers : wpc[v] # "idle" /\ wpc[w] # "idle" => v = w
  /\ \A w \in Writers : wpc[w] # "idle" => Registering(w)
  /\ Quiet => done = 1 .. nentries
  /\ Quiet => \E q \in Seq(Ids) : HasAll(q, nentries) /\ IsList(q) /\ LongestFirst(q)

Undisturbed ==
  \A r \in Readers : rpc[r] = "search" /\ base[r] # NULL =>
    /\ Quiet /\ base[r] = done /\ res[r] = NULL
    /\ \A q \in Seq(Ids) : IsList(q) => Searching(r, q)

RegistryInv == /\ TypeOK /\ Safe
               /\ ~overlap => InOrder /\ Undisturbed /\ LongestPrefixFound

-----------------------------------------------------------------------------
(* Lists.                                                                  *)

LEMMA BoundedLists ==
  \A q : q \in BoundedSeq(Ids, MaxEntries)
           <=> q \in Seq(Ids) /\ Len(q) <= MaxEntries
<1>1. ASSUME NEW q \in Seq(Ids), Len(q) <= MaxEntries
      PROVE  q \in BoundedSeq(Ids, MaxEntries)
  <2>1. Len(q) \in 0 .. MaxEntries /\ q \in [1 .. Len(q) -> Ids]
    BY <1>1, ConstantsOK
  <2>2. QED
    BY <2>1 DEF BoundedSeq, SeqOf
<1>2. ASSUME NEW q \in BoundedSeq(Ids, MaxEntries)
      PROVE  q \in Seq(Ids) /\ Len(q) <= MaxEntries
  <2>1. PICK n \in 0 .. MaxEntries : q \in [1 .. n -> Ids]
    BY DEF BoundedSeq, SeqOf
  <2>2. QED
    BY <2>1, ConstantsOK
<1>3. QED
  BY <1>1, <1>2

(* The links represent one list at most.                                   *)
LEMMA OneList ==
  ASSUME NEW p \in Seq(Ids), NEW q \in Seq(Ids), IsList(p), IsList(q)
  PROVE  p = q
<1> DEFINE Same(x, y) == \A j \in 1 .. Len(x) : j \in 1 .. Len(y) /\ x[j] = y[j]
<1>0. NULL \notin Ids
  BY ConstantsOK
<1>1. ASSUME NEW x \in Seq(Ids), NEW y \in Seq(Ids), IsList(x), IsList(y)
      PROVE  Same(x, y)
  <2> DEFINE T == {n \in Nat : n + 1 \in 1 .. Len(x) =>
                                 n + 1 \in 1 .. Len(y) /\ x[n + 1] = y[n + 1]}
  <2>1. 0 \in T
    <3>1. SUFFICES ASSUME 1 \in 1 .. Len(x)
                   PROVE  1 \in 1 .. Len(y) /\ x[1] = y[1]
      OBVIOUS
    <3>2. x # <<>> /\ x[1] \in Ids
      BY <3>1
    <3>3. handlers = x[1]
      BY <1>1, <3>2 DEF IsList
    <3>4. y # <<>> /\ handlers = y[1]
      BY <1>0, <1>1, <3>2, <3>3 DEF IsList
    <3>5. QED
      BY <3>3, <3>4
  <2>2. ASSUME NEW n \in T PROVE n + 1 \in T
    <3> DEFINE m == n + 1
    <3>1. SUFFICES ASSUME m + 1 \in 1 .. Len(x)
                   PROVE  m + 1 \in 1 .. Len(y) /\ x[m + 1] = y[m + 1]
      OBVIOUS
    <3>2. m \in 1 .. Len(x) /\ m # Len(x) /\ x[m + 1] \in Ids
      BY <3>1
    <3>3. m \in 1 .. Len(y) /\ x[m] = y[m]
      BY <3>2
    <3>4. link[x[m]] = x[m + 1]
      BY <1>1, <3>2 DEF IsList
    <3>5. m # Len(y) /\ link[y[m]] = y[m + 1]
      BY <1>0, <1>1, <3>2, <3>3, <3>4 DEF IsList
    <3>6. QED
      BY <3>3, <3>4, <3>5
  <2>3. T = Nat
    <3> HIDE DEF T
    <3>1. T \in SUBSET Nat
      BY DEF T
    <3>2. QED
      BY <2>1, <2>2, <3>1, AllNumbers
  <2>4. ASSUME NEW j \in 1 .. Len(x) PROVE j \in 1 .. Len(y) /\ x[j] = y[j]
    <3>1. j - 1 \in Nat /\ (j - 1) + 1 = j
      OBVIOUS
    <3>2. j - 1 \in T
      BY <2>3, <3>1
    <3>3. QED
      BY <3>1, <3>2
  <2>5. QED
    BY <2>4
<1>2. Same(p, q) /\ Same(q, p)
  BY <1>1
<1>3. Len(p) = Len(q)
  BY <1>2
<1>4. QED
  BY <1>2, <1>3

-----------------------------------------------------------------------------
(* Types, and what is safe even when calls overlap.                        *)

LEMMA SortedType ==
  ASSUME NEW q \in Lists, NEW s \in sorter(q)
  PROVE  /\ q \in Seq(Ids) /\ IsList(q) /\ s \in Seq(Ids)
         /\ Len(s) = Len(q) /\ Len(q) \in Nat
         /\ IsInjective(s) /\ ToSet(s) = ToSet(q) /\ LongestFirst(s)
<1>1. q \in Seq(Ids) /\ IsList(q)
  BY BoundedLists DEF Lists
<1>2. /\ s \in [1 .. Len(q) -> ToSet(q)]
      /\ IsInjective(s) /\ ToSet(s) = ToSet(q) /\ LongestFirst(s)
  BY DEF sorter, Reordered
<1>3. ToSet(q) \subseteq Ids
  BY <1>1, InList
<1>4. s \in [1 .. Len(q) -> Ids] /\ Len(q) \in Nat
  BY <1>1, <1>2, <1>3
<1>5. s \in Seq(Ids) /\ Len(s) = Len(q)
  BY <1>4
<1>6. QED
  BY <1>1, <1>2, <1>4, <1>5

LEMMA TypeStep ==
  ASSUME TypeOK, Safe, [Next]_vars
  PROVE  TypeOK' /\ Safe'
<1> USE DEF TypeOK, Safe
<1>1. ASSUME NEW w \in Writers, NEW p \in Paths, NewEntry(w, p)
      PROVE  TypeOK' /\ Safe'
  <2> DEFINE e == nentries + 1
  <2>1. e \in Ids /\ e \notin 1 .. nentries /\ NULL \notin Paths
    BY <1>1, ConstantsOK DEF NewEntry, Ids
  <2>2. /\ nentries' = e
        /\ path' = [path EXCEPT ![e] = p]
        /\ link' = [link EXCEPT ![e] = handlers]
        /\ entry' = [entry EXCEPT ![w] = e]
        /\ wpc' = [wpc EXCEPT ![w] = "push"]
        /\ base' = [r \in Readers |-> IF rpc[r] = "search" THEN NULL ELSE base[r]]
        /\ overlap' \in BOOLEAN
        /\ UNCHANGED <<handlers, list, i, done, readerVars>>
    BY <1>1 DEF NewEntry
  <2>3. nentries' \in 0 .. MaxEntries
    BY <2>1, <2>2, ConstantsOK DEF Ids
  <2>4. \A f \in Ids : path'[f] # NULL <=> f <= nentries'
    BY <2>1, <2>2 DEF Ids
  <2>5. TypeOK'
    BY <2>1, <2>2, <2>3, <2>4 DEF readerVars
  <2>6. \A r \in Readers : base'[r] = NULL \/ base'[r] \subseteq 1 .. nentries'
    BY <2>2, <2>1
  <2>7. \A v \in Writers :
          /\ wpc'[v] # "idle" => entry'[v] \in 1 .. nentries'
          /\ wpc'[v] \in {"count", "sort"} => handlers' # NULL
          /\ wpc'[v] \in {"head", "relink"} => list'[v] # <<>>
          /\ wpc'[v] = "relink" => i'[v] \in 1 .. Len(list'[v])
    BY <2>1, <2>2, ConstantsOK
  <2>8. done' \subseteq 1 .. nentries' /\ DOMAIN base' = Readers
    BY <2>1, <2>2
  <2>9. QED
    BY <2>5, <2>6, <2>7, <2>8
<1>2. ASSUME NEW w \in Writers, Push(w) PROVE TypeOK' /\ Safe'
  <2>1. TypeOK'
    BY <1>2 DEF Push, readerVars
  <2>2. entry[w] \in 1 .. nentries /\ 1 .. nentries \subseteq Ids /\ NULL \notin Ids
    BY <1>2, ConstantsOK DEF Push, Ids
  <2>3. handlers' # NULL
    BY <1>2, <2>2 DEF Push
  <2>4. Safe'
    BY <1>2, <2>3 DEF Push, readerVars
  <2>5. QED
    BY <2>1, <2>4
<1>3. ASSUME NEW w \in Writers, Count(w) PROVE TypeOK' /\ Safe'
  <2>1. PICK q \in Lists : i' = [i EXCEPT ![w] = Len(q)]
    BY <1>3 DEF Count
  <2>2. Len(q) \in Nat
    BY BoundedLists DEF Lists
  <2>3. TypeOK'
    BY <1>3, <2>1, <2>2 DEF Count, listVars, readerVars
  <2>4. QED
    BY <1>3, <2>1, <2>3 DEF Count, listVars, readerVars
<1>4. ASSUME NEW w \in Writers, Sort(w) PROVE TypeOK' /\ Safe'
  <2>1. PICK q \in Lists : \E s \in sorter(q) :
          Len(q) = i[w] /\ list' = [list EXCEPT ![w] = s]
    BY <1>4 DEF Sort
  <2>2. PICK s \in sorter(q) : list' = [list EXCEPT ![w] = s]
    BY <2>1
  <2>3. s \in Seq(Ids) /\ Len(s) = Len(q) /\ IsList(q) /\ q \in Seq(Ids)
    BY SortedType
  <2>4. handlers # NULL
    BY <1>4 DEF Sort
  <2>5. q # <<>>
    BY <2>3, <2>4 DEF IsList
  <2>6. s # <<>>
    BY <2>3, <2>5
  <2>7. TypeOK'
    BY <1>4, <2>2, <2>3 DEF Sort, listVars, readerVars
  <2>8. QED
    BY <1>4, <2>2, <2>6, <2>7 DEF Sort, listVars, readerVars
<1>5. ASSUME NEW w \in Writers, Overrun(w) PROVE TypeOK' /\ Safe'
  BY <1>5 DEF Overrun, listVars, readerVars
<1>6. ASSUME NEW w \in Writers, SetHead(w) PROVE TypeOK' /\ Safe'
  <2>1. list[w] # <<>> /\ list[w] \in Seq(Ids)
    BY <1>6 DEF SetHead
  <2>2. list[w][1] \in Ids /\ 1 \in 1 .. Len(list[w]) /\ NULL \notin Ids
    BY <2>1, ConstantsOK
  <2>3. TypeOK'
    BY <1>6, <2>2 DEF SetHead, readerVars
  <2>4. QED
    BY <1>6, <2>2, <2>3 DEF SetHead, readerVars
<1>7. ASSUME NEW w \in Writers, Relink(w) PROVE TypeOK' /\ Safe'
  <2>1. /\ list[w] \in Seq(Ids) /\ i[w] \in 1 .. Len(list[w])
        /\ i[w] < Len(list[w])
    BY <1>7 DEF Relink
  <2>2. list[w][i[w] + 1] \in Ids /\ i[w] + 1 \in 1 .. Len(list[w])
    BY <2>1
  <2>3. TypeOK'
    BY <1>7, <2>2 DEF Relink, readerVars
  <2>4. QED
    BY <1>7, <2>2, <2>3 DEF Relink, readerVars
<1>8. ASSUME NEW w \in Writers, Terminate(w) PROVE TypeOK' /\ Safe'
  <2>1. <<>> \in Seq(Ids)
    OBVIOUS
  <2>2. entry[w] \in Ids
    BY <1>8, ConstantsOK DEF Terminate, Ids
  <2>3. link' \in [Ids -> Ids \cup {NULL}]
    BY <1>8 DEF Terminate, Terminated
  <2>4. TypeOK'
    BY <1>8, <2>1, <2>2, <2>3 DEF Terminate, readerVars
  <2>5. entry[w] \in 1 .. nentries
    BY <1>8 DEF Terminate
  <2>6. Safe'
    BY <1>8, <2>5 DEF Terminate, readerVars
  <2>7. QED
    BY <2>4, <2>6
<1>9. ASSUME NEW r \in Readers, NEW u \in Urls, StartSearch(r, u)
      PROVE  TypeOK' /\ Safe'
  <2>1. TypeOK'
    BY <1>9, ConstantsOK DEF StartSearch, listVars, writerVars
  <2>2. base' = [base EXCEPT ![r] = IF Quiet THEN done ELSE NULL]
    BY <1>9 DEF StartSearch, Quiet
  <2>3. /\ DOMAIN base' = Readers
        /\ \A v \in Readers : base'[v] = NULL \/ base'[v] \subseteq 1 .. nentries
    BY <2>2
  <2>4. Safe'
    BY <1>9, <2>3 DEF StartSearch, listVars, writerVars
  <2>5. QED
    BY <2>1, <2>4
<1>10. ASSUME NEW r \in Readers, find_handler(r) PROVE TypeOK' /\ Safe'
  <2>1. CASE NextEntry(r)
    BY <2>1 DEF NextEntry, listVars, writerVars
  <2>2. CASE Found(r)
    BY <2>2 DEF Found, listVars, writerVars
  <2>3. CASE NotFound(r)
    BY <2>3 DEF NotFound, listVars, writerVars
  <2>4. QED
    BY <1>10, <2>1, <2>2, <2>3 DEF find_handler
<1>11. CASE UNCHANGED vars
  BY <1>11 DEF vars, listVars, writerVars, readerVars
<1>12. QED
  BY <1>1, <1>2, <1>3, <1>4, <1>5, <1>6, <1>7, <1>8, <1>9, <1>10, <1>11
  DEF Next, set_handler

-----------------------------------------------------------------------------
(* Calls that do not overlap.                                              *)

(* What a search found stays the best, whatever is registered later.       *)
LEMMA BestKept ==
  ASSUME TypeOK, Safe, LongestPrefixFound, ~overlap,
         \A f \in 1 .. nentries : path'[f] = path[f],
         \A r \in Readers : rpc'[r] = "idle" /\ base'[r] # NULL =>
           /\ rpc[r] = "idle" /\ base'[r] = base[r]
           /\ url'[r] = url[r] /\ res'[r] = res[r]
  PROVE  LongestPrefixFound'
<1> SUFFICES ASSUME NEW r \in Readers, rpc'[r] = "idle", base'[r] # NULL
             PROVE  LET found == {e \in base'[r] : Matches(e, url[r])'} IN
                    IF found = {} THEN res'[r] = NULL
                    ELSE /\ res'[r] \in found
                         /\ \A e \in found : Len(path'[e]) <= Len(path'[res'[r]])
  BY DEF LongestPrefixFound, Matches
<1> DEFINE found == {e \in base[r] : Matches(e, url[r])}
<1>1. /\ rpc[r] = "idle" /\ base'[r] = base[r] /\ base[r] # NULL
      /\ url'[r] = url[r] /\ res'[r] = res[r]
  OBVIOUS
<1>2. base[r] \subseteq 1 .. nentries
  BY <1>1 DEF Safe
<1>3. \A e \in base[r] : path'[e] = path[e] /\ (Matches(e, url[r])' <=> Matches(e, url[r]))
  BY <1>1, <1>2 DEF Matches
<1>4. found = {e \in base'[r] : Matches(e, url[r])'}
  BY <1>1, <1>3
<1>5. IF found = {} THEN res[r] = NULL
      ELSE /\ res[r] \in found
           /\ \A e \in found : Len(path[e]) <= Len(path[res[r]])
  BY <1>1 DEF LongestPrefixFound
<1>6. QED
  BY <1>1, <1>3, <1>4, <1>5

(* A step of the one call in progress that does not end it.                *)
LEMMA WriterStep ==
  ASSUME TypeOK, Safe, InOrder, Undisturbed, LongestPrefixFound,
         ~overlap, NEW w \in Writers, wpc[w] # "idle",
         wpc'[w] # "idle", \A v \in Writers \ {w} : wpc'[v] = wpc[v],
         UNCHANGED <<path, readerVars, base>>, Registering(w)'
  PROVE  InOrder' /\ Undisturbed' /\ LongestPrefixFound'
<1>1. \A v \in Writers : v # w => wpc'[v] = "idle"
  BY DEF InOrder
<1>2. ~Quiet /\ ~Quiet'
  BY DEF Quiet
<1>3. InOrder'
  BY <1>1, <1>2 DEF InOrder
<1>4. Undisturbed'
  BY <1>2 DEF Undisturbed, readerVars
<1>5. LongestPrefixFound'
  BY BestKept DEF readerVars
<1>6. QED
  BY <1>3, <1>4, <1>5

LEMMA NewEntryStep ==
  ASSUME TypeOK, Safe, ~overlap => InOrder /\ Undisturbed /\ LongestPrefixFound,
         NEW w \in Writers, NEW p \in Paths, NewEntry(w, p), ~overlap'
  PROVE  InOrder' /\ Undisturbed' /\ LongestPrefixFound'
<1> DEFINE e == nentries + 1
<1>1. /\ ~overlap /\ Quiet /\ InOrder /\ Undisturbed /\ LongestPrefixFound
  BY DEF NewEntry, MayCall, Quiet
<1>2. /\ nentries' = e /\ nentries < MaxEntries
      /\ path' = [path EXCEPT ![e] = p]
      /\ link' = [link EXCEPT ![e] = handlers]
      /\ entry' = [entry EXCEPT ![w] = e]
      /\ wpc' = [wpc EXCEPT ![w] = "push"]
      /\ base' = [r \in Readers |-> IF rpc[r] = "search" THEN NULL ELSE base[r]]
      /\ UNCHANGED <<handlers, list, i, done, readerVars>>
  BY DEF NewEntry
<1>3. e \in Ids /\ e \notin 1 .. nentries /\ nentries \in Nat /\ e - 1 = nentries
  BY <1>2, ConstantsOK DEF TypeOK, Ids
<1>4. done = 1 .. e - 1
  BY <1>1, <1>3 DEF InOrder
<1>5. PICK q \in Seq(Ids) : HasAll(q, nentries) /\ IsList(q)
  BY <1>1 DEF InOrder
<1>6. IsList(q)'
  <2>1. \A j \in 1 .. Len(q) : q[j] \in 1 .. nentries /\ q[j] \in Ids
    BY <1>5, InList DEF HasAll
  <2>2. \A j \in 1 .. Len(q) : link'[q[j]] = link[q[j]]
    BY <1>2, <1>3, <2>1 DEF TypeOK
  <2>3. QED
    BY <1>2, <1>5, <2>2 DEF IsList
<1>7. entry'[w] = e /\ wpc'[w] = "push" /\ link'[e] = handlers'
  BY <1>2, <1>3 DEF TypeOK
<1>8. Registering(w)'
  <2>1. HasAll(q, e - 1)
    BY <1>3, <1>5
  <2>2. /\ entry'[w] = nentries' /\ entry'[w] # 0 /\ done' = 1 .. entry'[w] - 1
    BY <1>2, <1>3, <1>4, <1>7
  <2>3. link'[entry'[w]] = handlers' /\ HasAll(q, entry'[w] - 1) /\ IsList(q)'
    BY <1>6, <1>7, <2>1
  <2>4. QED
    BY <1>7, <2>2, <2>3 DEF Registering, HasAll
<1>9. \A v \in Writers : v # w => wpc'[v] = "idle"
  BY <1>1, <1>2 DEF Quiet, TypeOK
<1>10. InOrder'
  BY <1>7, <1>8, <1>9 DEF InOrder, Quiet
<1>11. Undisturbed'
  BY <1>2 DEF Undisturbed, readerVars
<1>12. LongestPrefixFound'
  <2>1. \A f \in 1 .. nentries : path'[f] = path[f]
    BY <1>2, <1>3, ConstantsOK DEF TypeOK, Ids
  <2>2. \A r \in Readers : rpc'[r] = "idle" /\ base'[r] # NULL =>
          /\ rpc[r] = "idle" /\ base'[r] = base[r]
          /\ url'[r] = url[r] /\ res'[r] = res[r]
    BY <1>2 DEF readerVars
  <2>3. QED
    BY <1>1, <2>1, <2>2, BestKept
<1>13. QED
  BY <1>10, <1>11, <1>12

(* set_handler, step by step.                                              *)
LEMMA CallStep ==
  ASSUME TypeOK, Safe, InOrder, Undisturbed, LongestPrefixFound,
         NEW w \in Writers, set_handler(w), ~overlap
  PROVE  InOrder' /\ Undisturbed' /\ LongestPrefixFound'
<1> DEFINE e == entry[w]
<1>0. wpc[w] # "idle"
  BY DEF set_handler, Push, Count, Sort, Overrun, SetHead, Relink, Terminate
<1>1. Registering(w)
  BY <1>0 DEF InOrder
<1>2. /\ e \in Ids /\ e = nentries /\ e \in Nat \ {0} /\ e <= MaxEntries
      /\ done = 1 .. e - 1
  BY <1>1, ConstantsOK DEF Registering, TypeOK, Ids
<1>3. CASE Push(w)
  <2>1. /\ wpc[w] = "push" /\ handlers' = e /\ wpc' = [wpc EXCEPT ![w] = "count"]
        /\ UNCHANGED <<link, path, nentries, entry, list, i, done, overlap,
                       readerVars, base>>
    BY <1>3 DEF Push
  <2>2. link[e] = handlers
    BY <1>1, <2>1 DEF Registering
  <2>3. PICK q \in Seq(Ids) : HasAll(q, e - 1) /\ IsList(q)
    BY <1>1, <2>1 DEF Registering
  <2>e. PICK c \in Ids : c = e
    BY <1>2
  <2>p. PICK p \in Seq(Ids) : p = <<c>> \o q
    BY ConsIndices
  <2>4. /\ Len(p) = Len(q) + 1 /\ Len(q) \in Nat
        /\ p[1] = e /\ \A j \in 2 .. Len(q) + 1 : p[j] = q[j - 1]
    BY <2>e, <2>p, ConsIndices
  <2>5. IsInjective(p) /\ ToSet(p) = 1 .. e
    <3>1. c \notin ToSet(q) /\ IsInjective(q) /\ ToSet(q) \cup {c} = 1 .. e
      BY <1>2, <2>3, <2>e DEF HasAll
    <3>2. IsInjective(p) /\ ToSet(p) = ToSet(q) \cup {c}
      BY <2>p, <3>1, ConsList
    <3>3. QED
      BY <3>1, <3>2
  <2>6. HasAll(p, e)
    BY <1>2, <2>3, <2>4, <2>5 DEF HasAll
  <2>7. IsList(p)'
    <3>1. p # <<>> /\ handlers' = p[1]
      BY <2>1, <2>4
    <3>2. ASSUME NEW j \in 1 .. Len(p)
          PROVE  link'[p[j]] = IF j = Len(p) THEN NULL ELSE p[j + 1]
      <4>1. CASE j = 1
        <5>1. link'[p[j]] = handlers
          BY <2>1, <2>2, <2>4, <4>1
        <5>2. CASE q = <<>>
          BY <2>3, <2>4, <4>1, <5>1, <5>2 DEF IsList
        <5>3. CASE q # <<>>
          <6>1. 1 + 1 \in 2 .. Len(q) + 1 /\ (1 + 1) - 1 = 1 /\ Len(p) # 1
            BY <2>4, <5>3
          <6>2. p[1 + 1] = q[1]
            BY <2>4, <6>1
          <6>3. QED
            BY <2>3, <4>1, <5>1, <5>3, <6>1, <6>2 DEF IsList
        <5>4. QED
          BY <5>2, <5>3
      <4>2. CASE j # 1
        <5>1. j \in 2 .. Len(q) + 1 /\ j - 1 \in 1 .. Len(q)
          BY <2>4, <4>2
        <5>2. p[j] = q[j - 1]
          BY <2>4, <5>1
        <5>3. link[q[j - 1]] = IF j - 1 = Len(q) THEN NULL ELSE q[(j - 1) + 1]
          BY <2>3, <5>1 DEF IsList
        <5>4. j # Len(p) => p[j + 1] = q[(j - 1) + 1]
          <6>1. (j - 1) + 1 = j /\ (j + 1) - 1 = j
            BY <5>1
          <6>2. j # Len(p) => j + 1 \in 2 .. Len(q) + 1
            BY <2>4, <5>1
          <6>3. QED
            BY <2>4, <6>1, <6>2
        <5>5. j - 1 = Len(q) <=> j = Len(p)
          BY <2>4, <5>1
        <5>6. QED
          BY <2>1, <5>2, <5>3, <5>4, <5>5
      <4>3. QED
        BY <4>1, <4>2
    <3>3. QED
      BY <3>1, <3>2 DEF IsList
  <2>8. wpc'[w] = "count" /\ \A v \in Writers \ {w} : wpc'[v] = wpc[v]
    BY <2>1 DEF TypeOK
  <2>9. Registering(w)'
    BY <1>2, <2>1, <2>4, <2>6, <2>7, <2>8 DEF Registering, HasAll
  <2>10. QED
    BY <1>0, <2>1, <2>8, <2>9, WriterStep
<1>4. CASE Count(w)
  <2>1. /\ wpc[w] = "count" /\ wpc' = [wpc EXCEPT ![w] = "sort"]
        /\ UNCHANGED <<listVars, nentries, entry, list, done, overlap,
                       readerVars, base>>
    BY <1>4 DEF Count
  <2>2. PICK q \in Lists : i' = [i EXCEPT ![w] = Len(q)]
    BY <1>4 DEF Count
  <2>3. PICK p \in Seq(Ids) : HasAll(p, e) /\ IsList(p)
    BY <1>1, <2>1 DEF Registering
  <2>4. q = p
    BY <2>3, BoundedLists, OneList DEF Lists
  <2>5. i'[w] = e
    BY <2>2, <2>3, <2>4 DEF TypeOK, HasAll
  <2>6. wpc'[w] = "sort" /\ \A v \in Writers \ {w} : wpc'[v] = wpc[v]
    BY <2>1 DEF TypeOK
  <2>7. IsList(p)'
    BY <2>1, <2>3 DEF IsList, listVars
  <2>8. Registering(w)'
    BY <1>2, <2>1, <2>3, <2>5, <2>6, <2>7 DEF Registering, HasAll
  <2>9. QED
    BY <1>0, <2>1, <2>6, <2>8, WriterStep DEF listVars
<1>5. CASE Sort(w)
  <2>1. /\ wpc[w] = "sort" /\ wpc' = [wpc EXCEPT ![w] = "head"]
        /\ UNCHANGED <<listVars, nentries, entry, i, done, overlap,
                       readerVars, base>>
    BY <1>5 DEF Sort
  <2>2. PICK q \in Lists : \E s \in sorter(q) :
          Len(q) = i[w] /\ list' = [list EXCEPT ![w] = s]
    BY <1>5 DEF Sort
  <2>3. PICK s \in sorter(q) : list' = [list EXCEPT ![w] = s]
    BY <2>2
  <2>4. PICK p \in Seq(Ids) : HasAll(p, e) /\ IsList(p)
    BY <1>1, <2>1 DEF Registering
  <2>5. q = p
    BY <2>4, BoundedLists, OneList DEF Lists
  <2>6. HasAll(s, e) /\ LongestFirst(s)
    BY <2>4, <2>5, SortedType DEF HasAll
  <2>7. list'[w] = s
    BY <2>3 DEF TypeOK
  <2>8. LongestFirst(s)'
    BY <2>1, <2>6 DEF LongestFirst, listVars
  <2>9. wpc'[w] = "head" /\ \A v \in Writers \ {w} : wpc'[v] = wpc[v]
    BY <2>1 DEF TypeOK
  <2>10. LongestFirst(list[w])'
    BY <2>7, <2>8 DEF LongestFirst
  <2>11. Registering(w)'
    BY <1>2, <2>1, <2>6, <2>7, <2>9, <2>10 DEF Registering, HasAll
  <2>12. QED
    BY <1>0, <2>1, <2>9, <2>11, WriterStep DEF listVars
<1>6. CASE Overrun(w)
  <2>1. wpc[w] = "sort" /\ \A q \in Lists : Len(q) # i[w]
    BY <1>6 DEF Overrun
  <2>2. PICK p \in Seq(Ids) : HasAll(p, e) /\ IsList(p)
    BY <1>1, <2>1 DEF Registering
  <2>3. i[w] = e /\ Len(p) = e
    BY <1>1, <2>1, <2>2 DEF Registering, HasAll
  <2>4. p \in Lists
    BY <1>2, <2>2, <2>3, BoundedLists DEF Lists
  <2>5. QED
    BY <2>1, <2>3, <2>4
<1>7. CASE SetHead(w)
  <2>1. /\ wpc[w] = "head" /\ handlers' = list[w][1]
        /\ i' = [i EXCEPT ![w] = 1] /\ wpc' = [wpc EXCEPT ![w] = "relink"]
        /\ UNCHANGED <<link, path, nentries, entry, list, done, overlap,
                       readerVars, base>>
    BY <1>7 DEF SetHead
  <2>2. HasAll(list[w], e) /\ LongestFirst(list[w])
    BY <1>1, <2>1 DEF Registering
  <2>3. wpc'[w] = "relink" /\ \A v \in Writers \ {w} : wpc'[v] = wpc[v]
    BY <2>1 DEF TypeOK
  <2>4. i'[w] = 1
    BY <2>1 DEF TypeOK
  <2>5. LongestFirst(list[w])'
    BY <2>1, <2>2 DEF LongestFirst
  <2>6. Registering(w)'
    BY <1>2, <2>1, <2>2, <2>3, <2>4, <2>5 DEF Registering, HasAll
  <2>7. QED
    BY <1>0, <2>1, <2>3, <2>6, WriterStep
<1>8. CASE Relink(w)
  <2> DEFINE l == list[w]
  <2> DEFINE n == i[w]
  <2>1. /\ wpc[w] = "relink" /\ n < Len(l)
        /\ link' = [link EXCEPT ![l[n]] = l[n + 1]]
        /\ i' = [i EXCEPT ![w] = n + 1]
        /\ UNCHANGED <<handlers, path, nentries, wpc, entry, list, done, overlap,
                       readerVars, base>>
    BY <1>8 DEF Relink
  <2>2. /\ HasAll(l, e) /\ LongestFirst(l) /\ handlers = l[1]
        /\ \A j \in 1 .. n - 1 : link[l[j]] = l[j + 1]
    BY <1>1, <2>1 DEF Registering
  <2>3. l \in Seq(Ids) /\ n \in 1 .. Len(l) /\ Len(l) \in Nat
    BY <2>1 DEF TypeOK, Safe
  <2>4. i'[w] = n + 1 /\ (n + 1) - 1 = n
    BY <2>1, <2>3 DEF TypeOK
  <2>5. \A j, k \in 1 .. Len(l) : l[j] = l[k] => j = k
    BY <2>2, <2>3, InList DEF HasAll
  <2>6. ASSUME NEW j \in 1 .. n PROVE link'[l[j]] = l[j + 1]
    <3>1. j \in 1 .. Len(l) /\ l[j] \in Ids /\ l[n] \in Ids
      BY <2>3
    <3>2. CASE j = n
      BY <2>1, <3>1, <3>2 DEF TypeOK
    <3>3. CASE j # n
      <4>1. j \in 1 .. n - 1 /\ l[j] # l[n]
        BY <2>3, <2>5, <3>1, <3>3
      <4>2. QED
        BY <2>1, <2>2, <3>1, <4>1 DEF TypeOK
    <3>4. QED
      BY <3>2, <3>3
  <2>7. LongestFirst(list[w])'
    BY <2>1, <2>2 DEF LongestFirst
  <2>8. \A j \in 1 .. i'[w] - 1 : link'[list'[w][j]] = list'[w][j + 1]
    BY <2>1, <2>4, <2>6
  <2>9. Registering(w)'
    BY <1>2, <2>1, <2>2, <2>7, <2>8 DEF Registering, HasAll
  <2>10. QED
    BY <1>0, <2>1, <2>9, WriterStep
<1>9. CASE Terminate(w)
  <2> DEFINE l == list[w]
  <2> DEFINE n == Len(l)
  <2>1. /\ wpc[w] = "relink" /\ i[w] = n
        /\ link' = [link EXCEPT ![l[n]] = NULL]
        /\ done' = done \cup {e} /\ wpc' = [wpc EXCEPT ![w] = "idle"]
        /\ UNCHANGED <<handlers, path, nentries, overlap, readerVars, base>>
    BY <1>9 DEF Terminate, Terminated
  <2>2. /\ HasAll(l, e) /\ LongestFirst(l) /\ handlers = l[1]
        /\ \A j \in 1 .. n - 1 : link[l[j]] = l[j + 1]
    BY <1>1, <2>1 DEF Registering
  <2>3. l \in Seq(Ids) /\ n \in 1 .. n /\ n \in Nat /\ l # <<>>
    BY <2>1 DEF TypeOK, Safe
  <2>4. \A j, k \in 1 .. n : l[j] = l[k] => j = k
    BY <2>2, <2>3, InList DEF HasAll
  <2>5. ASSUME NEW j \in 1 .. n
        PROVE  link'[l[j]] = IF j = n THEN NULL ELSE l[j + 1]
    <3>1. l[j] \in Ids /\ l[n] \in Ids
      BY <2>3
    <3>2. CASE j = n
      BY <2>1, <3>1, <3>2 DEF TypeOK
    <3>3. CASE j # n
      <4>1. j \in 1 .. n - 1 /\ l[j] # l[n]
        BY <2>3, <2>4, <3>3
      <4>2. QED
        BY <2>1, <2>2, <3>1, <3>3, <4>1 DEF TypeOK
    <3>4. QED
      BY <3>2, <3>3
  <2>6. PICK q \in Seq(Ids) : q = l
    BY <2>3
  <2>7. IsList(q)' /\ LongestFirst(q)' /\ HasAll(q, e)
    <3>1. IsList(q)'
      BY <2>1, <2>2, <2>3, <2>5, <2>6 DEF IsList
    <3>2. LongestFirst(q)'
      BY <2>1, <2>2, <2>6 DEF LongestFirst
    <3>3. QED
      BY <2>2, <2>6, <3>1, <3>2
  <2>8. done' = 1 .. nentries'
    BY <1>2, <2>1
  <2>9. Quiet' /\ ~Quiet
    BY <1>0, <2>1 DEF Quiet, InOrder, TypeOK
  <2>10. InOrder'
    <3>1. HasAll(q, nentries')
      BY <1>2, <2>1, <2>7
    <3>2. QED
      BY <2>7, <2>8, <2>9, <3>1 DEF InOrder, Quiet, HasAll
  <2>11. Undisturbed'
    BY <2>1, <2>9 DEF Undisturbed, readerVars
  <2>12. LongestPrefixFound'
    BY <2>1, BestKept DEF readerVars
  <2>13. QED
    BY <2>10, <2>11, <2>12
<1>10. QED
  BY <1>3, <1>4, <1>5, <1>6, <1>7, <1>8, <1>9 DEF set_handler

-----------------------------------------------------------------------------
(* Searches.                                                               *)

(* A search leaves the registry alone.                                     *)
LEMMA InOrderKept ==
  ASSUME InOrder, UNCHANGED <<listVars, writerVars>>
  PROVE  InOrder' /\ (Quiet <=> Quiet')
<1>0. UNCHANGED <<handlers, link, path, nentries, wpc, entry, list, i, done, overlap>>
  BY DEF listVars, writerVars
<1>1. \A q : /\ IsList(q) <=> IsList(q)'
             /\ LongestFirst(q) <=> LongestFirst(q)'
  BY <1>0 DEF IsList, LongestFirst
<1>2. Quiet <=> Quiet'
  BY <1>0 DEF Quiet
<1>3. ASSUME NEW w \in Writers, Registering(w) PROVE Registering(w)'
  <2>1. LongestFirst(list[w]) <=> LongestFirst(list[w])'
    BY <1>0 DEF LongestFirst
  <2>2. QED
    BY <1>0, <1>1, <1>3, <2>1 DEF Registering, HasAll
<1>4. InOrder'
  BY <1>0, <1>1, <1>2, <1>3 DEF InOrder, HasAll
<1>5. QED
  BY <1>2, <1>4

LEMMA StartStep ==
  ASSUME TypeOK, Safe, InOrder, Undisturbed, LongestPrefixFound, ~overlap,
         NEW r \in Readers, NEW u \in Urls, StartSearch(r, u)
  PROVE  InOrder' /\ Undisturbed' /\ LongestPrefixFound'
<1>1. /\ url' = [url EXCEPT ![r] = u] /\ pt' = [pt EXCEPT ![r] = handlers]
      /\ res' = [res EXCEPT ![r] = NULL] /\ rpc' = [rpc EXCEPT ![r] = "search"]
      /\ base' = [base EXCEPT ![r] = IF Quiet THEN done ELSE NULL]
      /\ UNCHANGED <<listVars, writerVars>>
  BY DEF StartSearch, Quiet
<1>2. InOrder' /\ (Quiet <=> Quiet')
  BY <1>1, InOrderKept
<1>3. /\ url'[r] = u /\ pt'[r] = handlers /\ res'[r] = NULL
      /\ rpc'[r] = "search" /\ base'[r] = IF Quiet THEN done ELSE NULL
      /\ done' = done
  BY <1>1 DEF TypeOK, Safe, writerVars
<1>4. \A v \in Readers \ {r} : /\ url'[v] = url[v] /\ pt'[v] = pt[v]
                               /\ res'[v] = res[v] /\ rpc'[v] = rpc[v]
                               /\ base'[v] = base[v]
  BY <1>1 DEF TypeOK, Safe
<1>5. \A q, v : IsList(q)' <=> IsList(q)
  BY <1>1 DEF IsList, listVars
<1>6. ASSUME NEW v \in Readers, v # r, NEW q, Searching(v, q)
      PROVE  Searching(v, q)'
  BY <1>1, <1>4, <1>6 DEF Searching, Matches, listVars
<1>7. ASSUME NEW q \in Seq(Ids), IsList(q) PROVE Searching(r, q)'
  <2>1. 1 \in 1 .. Len(q) + 1 /\ (1 = Len(q) + 1 <=> q = <<>>)
    OBVIOUS
  <2>2. pt'[r] = IF 1 = Len(q) + 1 THEN NULL ELSE q[1]
    BY <1>3, <1>7, <2>1 DEF IsList
  <2>3. \A j \in 1 .. 1 - 1 : ~Matches(q[j], url[r])'
    OBVIOUS
  <2>4. QED
    BY <2>1, <2>2, <2>3 DEF Searching
<1>8. Undisturbed'
  <2>1. SUFFICES ASSUME NEW v \in Readers, rpc'[v] = "search", base'[v] # NULL
                 PROVE  /\ Quiet' /\ base'[v] = done' /\ res'[v] = NULL
                        /\ \A q \in Seq(Ids) : IsList(q)' => Searching(v, q)'
    BY DEF Undisturbed
  <2>2. CASE v = r
    BY <1>2, <1>3, <1>5, <1>7, <2>1, <2>2
  <2>3. CASE v # r
    <3>1. /\ Quiet /\ base[v] = done /\ res[v] = NULL
          /\ \A q \in Seq(Ids) : IsList(q) => Searching(v, q)
      BY <1>4, <2>1, <2>3 DEF Undisturbed
    <3>2. QED
      BY <1>2, <1>3, <1>4, <1>5, <1>6, <2>3, <3>1
  <2>4. QED
    BY <2>2, <2>3
<1>9. LongestPrefixFound'
  <2>1. \A v \in Readers : rpc'[v] = "idle" =>
          /\ rpc[v] = "idle" /\ base'[v] = base[v]
          /\ url'[v] = url[v] /\ res'[v] = res[v]
    BY <1>3, <1>4
  <2>2. \A f \in 1 .. nentries : path'[f] = path[f]
    BY <1>1 DEF listVars
  <2>3. QED
    BY <2>1, <2>2, BestKept
<1>10. QED
  BY <1>2, <1>8, <1>9

(* find_handler, step by step.                                             *)
LEMMA SearchStep ==
  ASSUME TypeOK, Safe, InOrder, Undisturbed, LongestPrefixFound, ~overlap,
         NEW r \in Readers, find_handler(r)
  PROVE  InOrder' /\ Undisturbed' /\ LongestPrefixFound'
<1>1. /\ rpc[r] = "search"
      /\ UNCHANGED <<listVars, writerVars, url, nsearches, base>>
      /\ \A v \in Readers \ {r} : /\ pt'[v] = pt[v] /\ res'[v] = res[v]
                                  /\ rpc'[v] = rpc[v]
  BY DEF find_handler, NextEntry, Found, NotFound, TypeOK
<1>2. InOrder' /\ (Quiet <=> Quiet')
  BY <1>1, InOrderKept
<1>3. UNCHANGED <<handlers, link, path, done>>
  BY <1>1 DEF listVars, writerVars
<1>4. \A q : IsList(q)' <=> IsList(q)
  BY <1>3 DEF IsList
<1>5. \A f, u : Matches(f, u)' <=> Matches(f, u')
  BY <1>3 DEF Matches
<1>6. ASSUME NEW v \in Readers, v # r, NEW q, Searching(v, q)
      PROVE  Searching(v, q)'
  BY <1>1, <1>3, <1>6 DEF Searching, Matches
<1> DEFINE Good(v) == /\ Quiet' /\ base'[v] = done' /\ res'[v] = NULL
                      /\ \A q \in Seq(Ids) : IsList(q)' => Searching(v, q)'
<1>7. ASSUME NEW v \in Readers, v # r, rpc'[v] = "search", base'[v] # NULL
      PROVE  Good(v)
  <2>1. /\ Quiet /\ base[v] = done /\ res[v] = NULL
        /\ \A q \in Seq(Ids) : IsList(q) => Searching(v, q)
    BY <1>1, <1>7 DEF Undisturbed
  <2>2. QED
    BY <1>1, <1>2, <1>3, <1>4, <1>6, <1>7, <2>1
<1>8. ASSUME base[r] # NULL
      PROVE  /\ Quiet /\ base[r] = done /\ res[r] = NULL
             /\ \A q \in Seq(Ids) : IsList(q) => Searching(r, q)
  BY <1>1, <1>8 DEF Undisturbed
<1> DEFINE Best(v) == LET found == {f \in base[v] : Matches(f, url[v])} IN
                      IF found = {} THEN res'[v] = NULL
                      ELSE /\ res'[v] \in found
                           /\ \A f \in found : Len(path[f]) <= Len(path[res'[v]])
<1>9. ASSUME rpc'[r] = "idle" /\ base[r] # NULL => Best(r)
      PROVE  LongestPrefixFound'
  <2>1. ASSUME NEW v \in Readers, rpc'[v] = "idle", base[v] # NULL
        PROVE  Best(v)
    <3>1. CASE v = r
      BY <1>9, <2>1, <3>1
    <3>2. CASE v # r
      BY <1>1, <2>1, <3>2 DEF LongestPrefixFound
    <3>3. QED
      BY <3>1, <3>2
  <2>2. QED
    BY <1>1, <1>3, <2>1 DEF LongestPrefixFound, Matches
<1>10. CASE NextEntry(r)
  <2>1. /\ pt[r] # NULL /\ ~Matches(pt[r], url[r])
        /\ pt'[r] = link[pt[r]] /\ UNCHANGED <<rpc, res>>
    BY <1>10 DEF NextEntry, TypeOK
  <2>2. ASSUME base[r] # NULL, NEW q \in Seq(Ids), IsList(q)
        PROVE  Searching(r, q)'
    <3>1. PICK k \in 1 .. Len(q) + 1 :
            /\ pt[r] = IF k = Len(q) + 1 THEN NULL ELSE q[k]
            /\ \A j \in 1 .. k - 1 : ~Matches(q[j], url[r])
      BY <1>8, <2>2 DEF Searching
    <3>2. k \in 1 .. Len(q) /\ pt[r] = q[k] /\ k + 1 \in 1 .. Len(q) + 1
      BY <2>1, <3>1
    <3>3. pt'[r] = IF k + 1 = Len(q) + 1 THEN NULL ELSE q[k + 1]
      BY <2>1, <2>2, <3>2 DEF IsList
    <3>4. \A j \in 1 .. (k + 1) - 1 : ~Matches(q[j], url[r])
      BY <2>1, <3>1, <3>2
    <3>5. \A j \in 1 .. (k + 1) - 1 : ~Matches(q[j], url[r])'
      BY <1>1, <1>3, <3>4 DEF Matches
    <3>6. QED
      BY <3>2, <3>3, <3>5 DEF Searching
  <2>3. base'[r] # NULL => Good(r)
    BY <1>1, <1>2, <1>3, <1>4, <1>8, <2>1, <2>2
  <2>4. Undisturbed'
    BY <1>7, <2>3 DEF Undisturbed
  <2>5. LongestPrefixFound'
    BY <1>1, <1>9, <2>1
  <2>6. QED
    BY <1>2, <2>4, <2>5
<1>11. ASSUME rpc'[r] = "idle", base[r] # NULL => Best(r)
       PROVE  InOrder' /\ Undisturbed' /\ LongestPrefixFound'
  <2>1. Undisturbed'
    <3>1. \A v \in Readers : rpc'[v] = "search" /\ base'[v] # NULL => Good(v)
      BY <1>7, <1>11
    <3>2. QED
      BY <3>1 DEF Undisturbed
  <2>2. QED
    BY <1>2, <1>9, <1>11, <2>1
<1>12. ASSUME base[r] # NULL
       PROVE  \E q \in Seq(Ids) :
                /\ base[r] = ToSet(q) /\ LongestFirst(q)
                /\ Searching(r, q) /\ res[r] = NULL
  <2>1. Quiet /\ base[r] = done /\ done = 1 .. nentries
    BY <1>8, <1>12 DEF InOrder
  <2>2. PICK q \in Seq(Ids) : HasAll(q, nentries) /\ IsList(q) /\ LongestFirst(q)
    BY <2>1 DEF InOrder
  <2>3. Searching(r, q) /\ res[r] = NULL
    BY <1>8, <1>12, <2>2
  <2>4. QED
    BY <2>1, <2>2, <2>3 DEF HasAll
<1>13. CASE Found(r)
  <2>1. /\ pt[r] # NULL /\ Matches(pt[r], url[r])
        /\ rpc'[r] = "idle" /\ res'[r] = pt[r]
    BY <1>13 DEF Found, TypeOK
  <2>2. ASSUME base[r] # NULL PROVE Best(r)
    <3>1. PICK q \in Seq(Ids) : base[r] = ToSet(q) /\ LongestFirst(q) /\ Searching(r, q)
      BY <1>12, <2>2
    <3>2. PICK k \in 1 .. Len(q) + 1 :
            /\ pt[r] = IF k = Len(q) + 1 THEN NULL ELSE q[k]
            /\ \A j \in 1 .. k - 1 : ~Matches(q[j], url[r])
      BY <3>1 DEF Searching
    <3>3. k \in 1 .. Len(q) /\ pt[r] = q[k]
      BY <2>1, <3>2
    <3>4. pt[r] \in base[r]
      BY <3>1, <3>3, InList
    <3>5. ASSUME NEW f \in base[r], Matches(f, url[r])
          PROVE  Len(path[f]) <= Len(path[pt[r]])
      <4>1. PICK j \in 1 .. Len(q) : q[j] = f
        BY <3>1, InList
      <4>2. k <= j
        BY <3>2, <3>3, <3>5, <4>1
      <4>3. Len(path[q[k]]) >= Len(path[q[j]])
        BY <3>1, <3>3, <4>2 DEF LongestFirst
      <4>4. path[f] \in Paths /\ path[pt[r]] \in Paths
        <5>1. f \in 1 .. nentries /\ pt[r] \in 1 .. nentries
          BY <1>8, <2>2, <3>4 DEF Safe
        <5>2. \A x \in 1 .. nentries : x \in Ids /\ path[x] # NULL
          BY ConstantsOK DEF TypeOK, Ids
        <5>3. QED
          BY <5>1, <5>2 DEF TypeOK
      <4>5. Len(path[f]) \in Nat /\ Len(path[pt[r]]) \in Nat
        BY <4>4, ConstantsOK
      <4>6. QED
        BY <3>3, <4>1, <4>3, <4>5
    <3>6. QED
      BY <2>1, <3>4, <3>5
  <2>3. QED
    BY <1>11, <2>1, <2>2
<1>14. CASE NotFound(r)
  <2>1. pt[r] = NULL /\ rpc'[r] = "idle" /\ res' = res
    BY <1>14 DEF NotFound, TypeOK
  <2>2. ASSUME base[r] # NULL PROVE Best(r)
    <3>1. PICK q \in Seq(Ids) : /\ base[r] = ToSet(q) /\ Searching(r, q)
                                /\ res[r] = NULL
      BY <1>12, <2>2
    <3>2. PICK k \in 1 .. Len(q) + 1 :
            /\ pt[r] = IF k = Len(q) + 1 THEN NULL ELSE q[k]
            /\ \A j \in 1 .. k - 1 : ~Matches(q[j], url[r])
      BY <3>1 DEF Searching
    <3>3. k = Len(q) + 1
      <4>1. k \in 1 .. Len(q) => q[k] \in Ids
        OBVIOUS
      <4>2. QED
        BY <2>1, <3>2, <4>1, ConstantsOK
    <3>4. \A f \in base[r] : ~Matches(f, url[r])
      <4>1. \A j \in 1 .. Len(q) : ~Matches(q[j], url[r])
        BY <3>2, <3>3
      <4>2. QED
        BY <3>1, <4>1, InList
    <3>5. QED
      BY <2>1, <3>1, <3>4
  <2>3. QED
    BY <1>11, <2>1, <2>2
<1>15. QED
  BY <1>10, <1>13, <1>14 DEF find_handler

-----------------------------------------------------------------------------
(* The theorems.                                                           *)

LEMMA RegistryInit == Init => RegistryInv
<1> SUFFICES ASSUME Init PROVE RegistryInv
  OBVIOUS
<1>1. TypeOK /\ Safe
  <2>1. \A f \in Ids : path[f] # NULL <=> f <= nentries
    BY ConstantsOK DEF Init, Ids
  <2>2. <<>> \in Seq(Ids) /\ 0 \in 0 .. MaxEntries /\ 0 \in 0 .. MaxSearches
    BY ConstantsOK
  <2>3. list \in [Writers -> Seq(Ids)]
    BY <2>2 DEF Init
  <2>4. TypeOK
    BY <2>1, <2>2, <2>3 DEF Init, TypeOK
  <2>5. Safe
    BY DEF Init, Safe
  <2>6. QED
    BY <2>4, <2>5
<1>2. InOrder
  <2>1. <<>> \in Seq(Ids) /\ HasAll(<<>>, 0) /\ IsList(<<>>) /\ LongestFirst(<<>>)
    BY NoList DEF Init, HasAll, IsList, LongestFirst
  <2>2. nentries = 0 /\ done = 1 .. nentries /\ \A w \in Writers : wpc[w] = "idle"
    BY DEF Init
  <2>3. QED
    BY <2>1, <2>2 DEF InOrder, Quiet
<1>3. Undisturbed /\ LongestPrefixFound
  BY DEF Init, Undisturbed, LongestPrefixFound
<1>4. QED
  BY <1>1, <1>2, <1>3 DEF RegistryInv

LEMMA RegistryStep == RegistryInv /\ [Next]_vars => RegistryInv'
<1> SUFFICES ASSUME RegistryInv, [Next]_vars PROVE RegistryInv'
  OBVIOUS
<1>0. TypeOK /\ Safe /\ (~overlap => InOrder /\ Undisturbed /\ LongestPrefixFound)
  BY DEF RegistryInv
<1>1. TypeOK' /\ Safe'
  BY <1>0, TypeStep
<1> SUFFICES ASSUME ~overlap'
             PROVE  InOrder' /\ Undisturbed' /\ LongestPrefixFound'
  BY <1>1 DEF RegistryInv
<1>2. ASSUME NEW w \in Writers, NEW p \in Paths, NewEntry(w, p)
      PROVE  InOrder' /\ Undisturbed' /\ LongestPrefixFound'
  BY <1>0, <1>2, NewEntryStep
<1>3. ASSUME NEW w \in Writers, set_handler(w)
      PROVE  InOrder' /\ Undisturbed' /\ LongestPrefixFound'
  <2>1. ~overlap
    BY <1>3 DEF set_handler, Push, Count, Sort, Overrun, SetHead, Relink, Terminate
  <2>2. QED
    BY <1>0, <1>3, <2>1, CallStep
<1>4. ASSUME NEW r \in Readers, NEW u \in Urls, StartSearch(r, u)
      PROVE  InOrder' /\ Undisturbed' /\ LongestPrefixFound'
  <2>1. ~overlap
    BY <1>4 DEF StartSearch, MayCall
  <2>2. QED
    BY <1>0, <1>4, <2>1, StartStep
<1>5. ASSUME NEW r \in Readers, find_handler(r)
      PROVE  InOrder' /\ Undisturbed' /\ LongestPrefixFound'
  <2>1. ~overlap
    BY <1>5 DEF find_handler, NextEntry, Found, NotFound, writerVars
  <2>2. QED
    BY <1>0, <1>5, <2>1, SearchStep
<1>6. CASE UNCHANGED vars
  <2>1. ~overlap /\ UNCHANGED <<listVars, writerVars, readerVars, base>>
    BY <1>6 DEF vars, writerVars
  <2>2. InOrder' /\ (Quiet <=> Quiet')
    BY <1>0, <2>1, InOrderKept
  <2>3. \A q : /\ IsList(q)' <=> IsList(q)
               /\ \A r : Searching(r, q)' <=> Searching(r, q)
    BY <2>1 DEF IsList, Searching, Matches, listVars, readerVars
  <2>4. Undisturbed'
    BY <1>0, <2>1, <2>2, <2>3 DEF Undisturbed, readerVars, writerVars
  <2>5. LongestPrefixFound'
    BY <1>0, <2>1, BestKept DEF readerVars, listVars
  <2>6. QED
    BY <2>2, <2>4, <2>5
<1>7. QED
  BY <1>2, <1>3, <1>4, <1>5, <1>6 DEF Next

(* The inductive invariant: what a call of set_handler has done at each of *)
(* its steps, and how far an undisturbed search has come.                  *)
THEOREM RegistryInvariant == Spec => []RegistryInv
BY RegistryInit, RegistryStep, PTL DEF Spec

(* Every call of set_handler that runs alone leaves a list of all entries, *)
(* each once, longest paths first; for any number of threads and paths.    *)
THEOREM Complete == Spec => []RegistryComplete
<1>1. RegistryInv => RegistryComplete
  <2> SUFFICES ASSUME RegistryInv, ~overlap, Quiet
               PROVE  \E q \in Lists : ToSet(q) = done /\ IsInjective(q) /\ LongestFirst(q)
    BY DEF RegistryInv, RegistryComplete, Quiet
  <2>1. done = 1 .. nentries /\ nentries \in Nat /\ nentries <= MaxEntries
    BY ConstantsOK DEF RegistryInv, InOrder, TypeOK
  <2>2. PICK q \in Seq(Ids) : HasAll(q, nentries) /\ IsList(q) /\ LongestFirst(q)
    BY DEF RegistryInv, InOrder
  <2>3. q \in Lists
    BY <2>1, <2>2, BoundedLists DEF Lists, HasAll
  <2>4. QED
    BY <2>1, <2>2, <2>3 DEF HasAll
<1>2. QED
  BY <1>1, RegistryInvariant, PTL

(* A search that no call of set_handler disturbs finds an entry with the   *)
(* longest path that is a prefix of the request's, if there is one.        *)
THEOREM LongestPrefix == Spec => []LongestPrefixFound
<1>1. RegistryInv => LongestPrefixFound
  BY DEF RegistryInv, LongestPrefixFound
<1>2. QED
  BY <1>1, RegistryInvariant, PTL

(* The array that set_handler allocates is as long as the list it copies,  *)
(* as long as calls do not overlap: the copy never overruns it.            *)
THEOREM NoOverrun == Spec => [](overlap \/ Defined)
<1>1. RegistryInv => overlap \/ Defined
  BY DEF RegistryInv, InOrder, Registering, Defined
<1>2. QED
  BY <1>1, RegistryInvariant, PTL

=============================================================================
