--------------------------- MODULE DocCacheProofs ---------------------------
(***************************************************************************)
(* Proofs about DocCache, for every acyclic graph of documents and every   *)
(* number of threads, files, versions and operations: held mutexes have    *)
(* holders, and a clean document shows what the cache has been told.       *)
(***************************************************************************)
EXTENDS DocCache, ListFacts, FiniteSetTheorems, TLAPS

(* What a document is made of, without itself.                             *)
Under(d) == UNION {MadeOf(e) : e \in ToSet(Ingr[d])}

(* The documents a thread is about to mark; what is made of them follows.  *)
Marks(t) == IF pc[t] \in {"touch", "pinval"} THEN ToSet(work[t]) ELSE {}

(* An invalidation on its way up has yet to mark document c.               *)
Pending(c) == \E t \in Actors : \E x \in Marks(t) : x \in MadeOf(c)

(* It is marked, or is going to be.                                        *)
Doomed(c) == dirty[c] \/ Pending(c)

(* An entry shows what the cache was told of its leaf; it is suspect when  *)
(* it does not, or when a touch of the leaf is about to tell the cache     *)
(* something else.                                                         *)
Current(e) == e.path = told[e.leaf][1] /\ e.ver >= told[e.leaf][2]
Touched(l) == \E t \in Actors : pc[t] = "touch" /\ doc[t] = l
Suspect(e) == ~Current(e) \/ Touched(e.leaf)

(* The fields of leaves: the path told is the path set, no version told is *)
(* newer than the file, and a datum is what was told.                      *)
LeafFields ==
  /\ \A d \in Files : /\ filepath[d] \in Paths /\ told[d][1] = filepath[d]
                      /\ told[d][2] <= version[filepath[d]]
  /\ \A d \in Docs : Kind[d] = "datum" =>
       told[d][1] = NULL /\ payload[d] = {Entry(d, NULL, told[d][2])}

(* A document that is made has its ingredients, and they know it; one that *)
(* is not has yet to be computed.                                          *)
Linked ==
  /\ Closed(made)
  /\ \A e \in Docs : \A c \in ToSet(ascendants[e]) : e \in ToSet(Ingr[c])
  /\ \A c \in made : \A e \in ToSet(Ingr[c]) : c \in ToSet(ascendants[e])
  /\ \A d \in Docs \ made : Kind[d] # "datum" => dirty[d] /\ payload[d] = {}

(* What a thread works on, at each place.                                  *)
Place(t) ==
  /\ pc[t] \in {"lock", "load", "tlock", "touch"} => doc[t] \in made
  /\ pc[t] \in {"make", "fileread", "filestore"} => doc[t] \in Docs
  /\ pc[t] \in {"fileread", "filestore"} => Kind[doc[t]] = "file"
  /\ pc[t] = "filestore" => work[t] \in Seq(Files)
  /\ pc[t] = "load" => Kind[doc[t]] = "file" /\ mutex[doc[t]] = t
  /\ pc[t] \in {"tlock", "touch"} /\ arg[t] # NULL =>
       \/ Kind[doc[t]] = "datum" /\ arg[t] \in Nat
       \/ Kind[doc[t]] = "file" /\ arg[t] \in Paths
  /\ pc[t] = "touch" =>
       mutex[doc[t]] = t /\ (dirty[doc[t]] \/ doc[t] \in ToSet(work[t]))
  /\ pc[t] = "make" =>
       /\ ToSet(work[t]) \subseteq ToSet(Ingr[doc[t]])
       /\ \A e \in ToSet(Ingr[doc[t]]) :
            e \in made /\ (doc[t] \in ToSet(ascendants[e]) \/ e \in ToSet(work[t]))
  /\ pc[t] = "callback" => stack[t] # <<>>
  /\ pc[t] \notin {"lock", "load", "callback"} => stack[t] = <<>>

AtWork == \A t \in Actors : Place(t)

(* The ingredient that callback i of a thread is waiting for, if any.      *)
Fetching(t, i) == IF i > 1 THEN {stack[t][i - 1].doc}
                  ELSE IF pc[t] = "callback" THEN {} ELSE {doc[t]}

(* A callback f in progress that is waiting for W: its document is locked, *)
(* what it has gathered is good unless the document is marked again, and   *)
(* nothing is left out.                                                    *)
FrameOf(t, f, W) ==
  /\ f.doc \in made /\ Kind[f.doc] = "chain" /\ mutex[f.doc] = t
  /\ ToSet(f.todo) \subseteq ToSet(Ingr[f.doc]) /\ W \subseteq ToSet(Ingr[f.doc])
  /\ \A e \in f.acc : e.leaf \in MadeOf(f.doc) /\ (Suspect(e) => Doomed(f.doc))
  /\ \A l \in LeavesOf[f.doc] :
       \/ \E e \in f.acc : e.leaf = l
       \/ \E c \in ToSet(f.todo) \cup W : l \in MadeOf(c)

FrameOK(t, i) == FrameOf(t, stack[t][i], Fetching(t, i))

(* Callbacks nest down the graph, and one that is going to be called again *)
(* takes those that wait for it along.                                     *)
Nested(t) ==
  /\ \A i, j \in 1 .. Len(stack[t]) :
       i < j => stack[t][i].doc \in Under(stack[t][j].doc)
  /\ \A i \in 1 .. Len(stack[t]) - 1 :
       Doomed(stack[t][i].doc) => Doomed(stack[t][i + 1].doc)
  /\ pc[t] \in {"lock", "load"} =>
       \A i \in 1 .. Len(stack[t]) : doc[t] \in Under(stack[t][i].doc)

Callbacks ==
  \A t \in Actors : (\A i \in 1 .. Len(stack[t]) : FrameOK(t, i)) /\ Nested(t)

(* A payload comes from the leaves of its document; it is suspect only if  *)
(* the document is doomed or being computed, and complete otherwise.       *)
PayloadsGood ==
  \A c \in made :
    /\ \A e \in payload[c] :
         e.leaf \in MadeOf(c) /\ (Suspect(e) => Doomed(c) \/ mutex[c] # NULL)
    /\ ~dirty[c] /\ mutex[c] = NULL =>
         \A l \in LeavesOf[c] : \E e \in payload[c] : e.leaf = l

(* A mutex that is held belongs to a thread that is going to release it.   *)
Held ==
  \A d \in Docs : mutex[d] # NULL =>
    \/ doc[mutex[d]] = d /\ pc[mutex[d]] \in {"load", "touch"}
    \/ \E i \in 1 .. Len(stack[mutex[d]]) : stack[mutex[d]][i].doc = d

CacheInv == /\ TypeOK /\ LeafFields /\ Linked /\ AtWork /\ Callbacks
            /\ PayloadsGood /\ (CanThrow = {} => Held)

-----------------------------------------------------------------------------
(* The graph of documents.                                                 *)

(* The ingredients of a document are documents.                            *)
LEMMA Ingredients == \A d \in Docs : /\ Ingr[d] \in Seq(Docs)
                                     /\ ToSet(Ingr[d]) \subseteq Docs
                                     /\ Leaf(d) => ToSet(Ingr[d]) = {}
<1> TAKE d \in Docs
<1>1. Ingr[d] \in Seq(Docs) /\ (Leaf(d) => Ingr[d] = <<>>)
  BY ConstantsOK
<1>2. ToSet(Ingr[d]) \subseteq Docs
  BY <1>1, InList
<1>3. QED
  BY <1>1, <1>2, NoList

(* A document is made of itself and of what its ingredients are made of.   *)
LEMMA MadeOfSelf == \A d \in Docs : d \in MadeOf(d) /\ MadeOf(d) \subseteq Docs
BY DEF MadeOf

(* Being made of is transitive.                                            *)
LEMMA MadeOfTrans ==
  ASSUME NEW c \in Docs, NEW e \in MadeOf(c) PROVE MadeOf(e) \subseteq MadeOf(c)
BY DEF MadeOf

(* One step of it.                                                         *)
LEMMA MadeOfStep ==
  ASSUME NEW c \in Docs, NEW e \in ToSet(Ingr[c])
  PROVE  e \in Docs /\ e \in MadeOf(c) /\ MadeOf(e) \subseteq MadeOf(c)
<1>1. e \in Docs
  BY Ingredients
<1>2. e \in MadeOf(c)
  BY <1>1 DEF MadeOf, Closed
<1>3. QED
  BY <1>1, <1>2, MadeOfTrans

(* What a document is made of is the document or under it.                 *)
LEMMA MadeOfSplit ==
  ASSUME NEW c \in Docs PROVE MadeOf(c) = {c} \cup Under(c)
<1> DEFINE S == {c} \cup Under(c)
<1>1. Under(c) \subseteq MadeOf(c)
  BY MadeOfStep DEF Under
<1>2. c \in S /\ S \subseteq Docs
  BY <1>1, MadeOfSelf
<1>3. ASSUME NEW x \in S, NEW y \in ToSet(Ingr[x]) PROVE y \in S
  <2>1. CASE x = c
    <3>1. y \in Docs /\ y \in MadeOf(y)
      BY <1>2, <1>3, MadeOfStep, MadeOfSelf
    <3>2. QED
      BY <1>3, <2>1, <3>1 DEF Under
  <2>2. CASE x \in Under(c)
    <3>1. PICK e \in ToSet(Ingr[c]) : x \in MadeOf(e)
      BY <2>2 DEF Under
    <3>2. e \in Docs /\ x \in Docs
      BY <1>2, MadeOfStep
    <3>3. y \in MadeOf(x) /\ MadeOf(x) \subseteq MadeOf(e)
      BY <1>3, <3>1, <3>2, MadeOfStep, MadeOfTrans
    <3>4. QED
      BY <3>3 DEF Under
  <2>3. QED
    BY <1>3, <2>1, <2>2
<1>4. Closed(S)
  BY <1>3 DEF Closed
<1>5. MadeOf(c) \subseteq S
  <2> SUFFICES ASSUME NEW x \in MadeOf(c) PROVE x \in S
    OBVIOUS
  <2>1. \A T \in SUBSET Docs : c \in T /\ Closed(T) => x \in T
    BY DEF MadeOf
  <2>2. QED
    BY <1>2, <1>4, <2>1
<1>6. QED
  BY <1>1, <1>5, MadeOfSelf

(* A leaf is made of itself alone.                                         *)
LEMMA MadeOfLeaf ==
  ASSUME NEW d \in Docs, Leaf(d) PROVE MadeOf(d) = {d} /\ LeavesOf[d] = {d}
<1>1. Under(d) = {}
  BY Ingredients DEF Under
<1>2. MadeOf(d) = {d}
  BY <1>1, MadeOfSplit
<1>3. QED
  BY <1>2 DEF LeavesOf

(* No document is under itself, and what is under a document is under what *)
(* that document is under.                                                 *)
LEMMA UnderFacts ==
  ASSUME NEW c \in Docs
  PROVE  /\ c \notin Under(c) /\ Under(c) \subseteq Docs
         /\ ToSet(Ingr[c]) \subseteq Under(c)
         /\ \A x \in Under(c) : MadeOf(x) \subseteq Under(c)
<1>1. c \notin Under(c)
  BY GraphOK DEF Under
<1>2. Under(c) \subseteq Docs
  BY MadeOfSplit, MadeOfSelf
<1>3. ToSet(Ingr[c]) \subseteq Under(c)
  BY MadeOfStep, MadeOfSelf DEF Under
<1>4. ASSUME NEW x \in Under(c) PROVE MadeOf(x) \subseteq Under(c)
  <2>1. PICK e \in ToSet(Ingr[c]) : x \in MadeOf(e)
    BY DEF Under
  <2>2. MadeOf(x) \subseteq MadeOf(e)
    BY <2>1, MadeOfStep, MadeOfTrans
  <2>3. QED
    BY <2>2 DEF Under
<1>5. QED
  BY <1>1, <1>2, <1>3, <1>4

(* Whatever a document is made of is the document or an ingredient of      *)
(* something the document is made of.                                      *)
LEMMA MadeOfUp ==
  ASSUME NEW c \in Docs, NEW x \in MadeOf(c), x # c
  PROVE  \E y \in MadeOf(c) : x \in ToSet(Ingr[y])
<1> DEFINE S == {z \in MadeOf(c) : z = c \/ \E y \in MadeOf(c) : z \in ToSet(Ingr[y])}
<1>1. c \in S /\ S \in SUBSET Docs
  BY MadeOfSelf
<1>2. ASSUME NEW z \in S, NEW w \in ToSet(Ingr[z]) PROVE w \in S
  <2>1. w \in MadeOf(z) /\ MadeOf(z) \subseteq MadeOf(c)
    BY <1>1, MadeOfStep, MadeOfTrans
  <2>2. QED
    BY <2>1
<1>3. Closed(S)
  BY <1>2 DEF Closed
<1>4. x \in S
  <2>1. \A T \in SUBSET Docs : c \in T /\ Closed(T) => x \in T
    BY DEF MadeOf
  <2> HIDE DEF S
  <2>2. QED
    BY <1>1, <1>3, <2>1
<1>5. QED
  BY <1>4

(* A closed set of documents has what its members are made of.             *)
LEMMA MadeOfClosed ==
  ASSUME NEW S \in SUBSET Docs, Closed(S), NEW c \in S PROVE MadeOf(c) \subseteq S
BY DEF MadeOf

(* Leaves of a document that is no leaf are leaves of an ingredient.       *)
LEMMA LeavesSplit ==
  ASSUME NEW c \in Docs, ~Leaf(c), NEW l \in LeavesOf[c]
  PROVE  l \in Docs /\ \E e \in ToSet(Ingr[c]) : l \in MadeOf(e)
<1>1. l \in MadeOf(c) /\ Leaf(l)
  BY DEF LeavesOf
<1>2. l \in Under(c)
  BY <1>1, MadeOfSplit
<1>3. QED
  BY <1>2, UnderFacts DEF Under

-----------------------------------------------------------------------------
(* What a step does to marks, to what was told and to touches.             *)

(* What is made of a pending document is pending.                          *)
LEMMA PendingUp ==
  ASSUME NEW p \in Docs, NEW c \in MadeOf(p)
  PROVE  (Pending(c) => Pending(p)) /\ (Pending(c)' => Pending(p)')
<1>1. MadeOf(c) \subseteq MadeOf(p)
  BY MadeOfTrans
<1>2. QED
  BY <1>1 DEF Pending

(* A thread whose step neither marks nor begins or ends a touch.           *)
Still(t) ==
  \/ pc'[t] = pc[t] /\ work'[t] = work[t] /\ doc'[t] = doc[t]
  \/ /\ pc[t] # "touch" /\ pc'[t] # "touch"
     /\ Marks(t) = {} /\ Marks(t)' = {}

AllStill == told' = told /\ \A u \in Actors : Still(u)

(* Then nothing is pending, suspect or touched that was not, and nothing   *)
(* ceases to be.                                                           *)
LEMMA StillFacts ==
  ASSUME AllStill
  PROVE  /\ \A c : Pending(c)' <=> Pending(c)
         /\ \A l : Touched(l)' <=> Touched(l)
         /\ \A e : Suspect(e)' <=> Suspect(e)
<1>1. \A u \in Actors : Marks(u)' = Marks(u)
  BY DEF AllStill, Still, Marks
<1>2. \A c : Pending(c)' <=> Pending(c)
  BY <1>1 DEF Pending
<1>3. \A l : Touched(l)' <=> Touched(l)
  BY DEF AllStill, Still, Touched
<1>4. \A e : Current(e)' <=> Current(e)
  BY DEF AllStill, Current
<1>5. QED
  BY <1>2, <1>3, <1>4 DEF Suspect

(* The steps of thread t that matter are four; all others are still.       *)
LEMMA StillThread ==
  ASSUME TypeOK, AtWork, NEW t \in Actors, Continue(t),
         ~TouchLock(t), ~invalidate(t), ~TouchStore(t)
  PROVE  AllStill /\ (dirty' = dirty \/ FetchDirty(t))
<1> USE DEF AllStill, Still, Marks, nodeVars, listVars, fileVars, TypeOK
<1>1. CASE FetchClean(t)
  BY <1>1 DEF FetchClean, Yield
<1>2. CASE FetchDirty(t)
  <2>1. doc[t] \in Docs
    BY <1>2 DEF FetchDirty, AtWork, Place
  <2>2. Kind[doc[t]] \in {"datum", "file", "chain"}
    BY <2>1, ConstantsOK
  <2>3. QED
    BY <1>2, <2>2 DEF FetchDirty, Yield
<1>3. CASE load_from_file(t)
  BY <1>3 DEF load_from_file, Yield
<1>4. CASE CallbackFetches(t)
  BY <1>4 DEF CallbackFetches
<1>5. CASE CallbackReturns(t)
  BY <1>5 DEF CallbackReturns, Yield, KeepDirty
<1>6. CASE CallbackThrows(t)
  BY <1>6 DEF CallbackThrows
<1>7. CASE RelockThrows(t)
  BY <1>7 DEF RelockThrows, Locking
<1>8. CASE MakeFileRead(t)
  BY <1>8 DEF MakeFileRead
<1>9. CASE MakeFileStore(t)
  BY <1>9 DEF MakeFileStore
<1>10. CASE add_ascendant(t)
  BY <1>10 DEF add_ascendant
<1>11. CASE MakeReturns(t)
  BY <1>11 DEF MakeReturns
<1>12. QED
  BY <1>1, <1>2, <1>3, <1>4, <1>5, <1>6, <1>7, <1>8, <1>9, <1>10, <1>11
     DEF Continue

(* Starting an operation, policing but for a node, the world: all still.   *)
LEMMA StillRest ==
  ASSUME TypeOK,
         \/ \E t \in Threads, d \in Docs : StartOp(t, d)
         \/ StartPolice \/ PoliceInvalidated \/ PoliceDone
         \/ \E p \in Paths : WriteFile(p)
         \/ Tick \/ UNCHANGED vars
  PROVE  AllStill /\ dirty' = dirty
<1> USE DEF AllStill, Still, Marks, nodeVars, listVars, fileVars, thrVars, TypeOK, Actors
<1>1. CASE \E t \in Threads, d \in Docs : StartOp(t, d)
  <2>1. PICK t \in Threads, d \in Docs : StartOp(t, d)
    BY <1>1
  <2>2. CASE Fetch(t, d)
    BY <2>2 DEF Fetch, Begin
  <2>3. CASE Touch(t, d)
    BY <2>3 DEF Touch, Begin
  <2>4. CASE Make(t, d)
    BY <2>4 DEF Make, Begin
  <2>5. QED
    BY <2>1, <2>2, <2>3, <2>4 DEF StartOp
<1>2. CASE StartPolice
  BY <1>2 DEF StartPolice
<1>3. CASE PoliceInvalidated
  BY <1>3, NoList DEF PoliceInvalidated
<1>4. CASE PoliceDone
  BY <1>4 DEF PoliceDone
<1>5. CASE \E p \in Paths : WriteFile(p)
  BY <1>5 DEF WriteFile
<1>6. CASE Tick
  BY <1>6 DEF Tick
<1>7. CASE UNCHANGED vars
  BY <1>7 DEF vars
<1>8. QED
  BY <1>1, <1>2, <1>3, <1>4, <1>5, <1>6, <1>7

(* What every step keeps: a doomed document is doomed until it is fetched; *)
(* a document is marked only by an invalidation that was on its way to it; *)
(* an entry becomes suspect only if an invalidation sets out from its leaf.*)
Fetched(c) == mutex[c] = NULL /\ (mutex'[c] # NULL \/ Kind[c] = "datum")

Monotone ==
  /\ \A c \in Docs : dirty[c] => dirty'[c] \/ Fetched(c)
  /\ \A c \in made : Doomed(c) => Doomed(c)' \/ Fetched(c)
  /\ \A c \in Docs : dirty'[c] => Doomed(c)
  /\ \A e \in [leaf : Docs, path : Paths \cup {NULL}, ver : Nat] :
       Suspect(e)' => \/ Suspect(e)
                      \/ \A c \in Docs : e.leaf \in MadeOf(c) => Pending(c)'

LEMMA MonotoneStill ==
  ASSUME TypeOK, AllStill,
         dirty' = dirty \/ \E t \in Actors : FetchDirty(t)
  PROVE  Monotone
<1>1. /\ \A c : Pending(c)' <=> Pending(c)
      /\ \A e : Suspect(e)' <=> Suspect(e)
  BY StillFacts
<1>2. \A c \in Docs : /\ dirty[c] => dirty'[c] \/ Fetched(c)
                      /\ dirty'[c] => dirty[c]
  <2> TAKE c \in Docs
  <2>1. ASSUME NEW t \in Actors, FetchDirty(t), dirty'[c] # dirty[c]
        PROVE  ~dirty'[c] /\ Fetched(c)
    <3>1. c = doc[t] /\ mutex[c] = NULL /\ ~dirty'[c]
      BY <2>1 DEF FetchDirty, TypeOK
    <3>2. Kind[c] = "datum" \/ mutex' = [mutex EXCEPT ![c] = t]
      <4>1. Kind[c] \in {"datum", "file", "chain"}
        BY ConstantsOK
      <4>2. QED
        BY <2>1, <3>1, <4>1 DEF FetchDirty
    <3>3. QED
      BY <3>1, <3>2, ConstantsOK DEF Fetched, TypeOK
  <2>2. QED
    BY <2>1 DEF TypeOK
<1>3. made \subseteq Docs
  BY DEF TypeOK
<1>4. QED
  BY <1>1, <1>2, <1>3 DEF Monotone, Doomed

(* TouchLock sends an invalidation out from the document it locks.         *)
LEMMA MonotoneTouchLock ==
  ASSUME TypeOK, AtWork, NEW t \in Actors, TouchLock(t) PROVE Monotone
<1> USE DEF TypeOK
<1>1. doc[t] \in Docs /\ ToSet(<<doc[t]>>) = {doc[t]}
  BY DEF TouchLock, AtWork, Place, ToSet
<1>2. Marks(t) = {} /\ Marks(t)' = {doc[t]}
  BY <1>1 DEF TouchLock, Marks
<1>3. \A u \in Actors : u # t => Marks(u)' = Marks(u) /\ pc'[u] = pc[u]
  BY DEF TouchLock, Marks
<1>4. told' = told /\ dirty' = dirty /\ doc' = doc
  BY DEF TouchLock, nodeVars
<1>5. \A c : Pending(c) => Pending(c)'
  BY <1>2, <1>3 DEF Pending
<1>6. \A c : doc[t] \in MadeOf(c) => Pending(c)'
  BY <1>2 DEF Pending
<1>7. \A l : Touched(l)' => Touched(l) \/ l = doc[t]
  BY <1>3, <1>4 DEF Touched
<1>8. \A e : Current(e)' <=> Current(e)
  BY <1>4 DEF Current
<1>9. \A e : Suspect(e)' => Suspect(e) \/ e.leaf = doc[t]
  BY <1>7, <1>8 DEF Suspect
<1>10. QED
  BY <1>4, <1>5, <1>6, <1>9 DEF Monotone, Doomed

(* A node the police finds outdated, likewise.                             *)
LEMMA MonotonePolice ==
  ASSUME TypeOK, PoliceNode PROVE Monotone
<1> USE DEF TypeOK
<1> DEFINE d == Head(cursor)
<1>0. Main \in Actors /\ d \in Docs
  BY CdrList DEF Actors, PoliceNode, Files
<1>1. CASE Outdated(d)
  <2>1. ToSet(<<d>>) = {d}
    BY DEF ToSet
  <2>2. Marks(Main) = {} /\ Marks(Main)' = {d}
    BY <1>0, <1>1, <2>1 DEF PoliceNode, Marks
  <2>3. \A u \in Actors : u # Main => Marks(u)' = Marks(u)
    BY <1>1 DEF PoliceNode, Marks
  <2>4. /\ \A l \in Docs : l # d => told'[l] = told[l]
        /\ dirty' = dirty /\ doc' = doc
        /\ \A u \in Actors : pc'[u] = "touch" => pc[u] = "touch"
    BY <1>0, <1>1 DEF PoliceNode, nodeVars
  <2>5. \A c : Pending(c) => Pending(c)'
    BY <2>2, <2>3 DEF Pending
  <2>6. \A c : d \in MadeOf(c) => Pending(c)'
    BY <1>0, <2>2 DEF Pending
  <2>7. \A l : Touched(l)' => Touched(l)
    BY <2>4 DEF Touched
  <2>8. \A e : e.leaf \in Docs /\ e.leaf # d => (Current(e)' <=> Current(e))
    BY <2>4 DEF Current
  <2>9. \A e : e.leaf \in Docs /\ Suspect(e)' => Suspect(e) \/ e.leaf = d
    BY <2>7, <2>8 DEF Suspect
  <2>10. ASSUME NEW e \in [leaf : Docs, path : Paths \cup {NULL}, ver : Nat], Suspect(e)'
         PROVE  Suspect(e) \/ \A c \in Docs : e.leaf \in MadeOf(c) => Pending(c)'
    <3>1. Suspect(e) \/ e.leaf = d
      BY <2>9, <2>10
    <3>2. QED
      BY <2>6, <3>1
  <2>11. QED
    BY <2>4, <2>5, <2>10 DEF Monotone, Doomed
<1>2. CASE ~Outdated(d)
  <2>1. AllStill /\ dirty' = dirty
    BY <1>2 DEF PoliceNode, AllStill, Still, nodeVars
  <2>2. QED
    BY <2>1, MonotoneStill
<1>3. QED
  BY <1>1, <1>2

(* When the store tells the cache, the entries of the leaf are suspect     *)
(* already.                                                                *)
LEMMA MonotoneTouchStore ==
  ASSUME TypeOK, AtWork, NEW t \in Actors, TouchStore(t) PROVE Monotone
<1> USE DEF TypeOK
<1> DEFINE d == doc[t]
<1>1. d \in Docs /\ pc[t] = "touch" /\ Touched(d)
  BY DEF TouchStore, AtWork, Place, Touched
<1>2. \A u \in Actors : Marks(u)' = Marks(u)
  BY NoList DEF TouchStore, Marks
<1>3. /\ dirty' = dirty
      /\ \A u \in Actors : pc'[u] = "touch" => pc[u] = "touch" /\ doc'[u] = doc[u]
      /\ \A l \in Docs : l # d => told'[l] = told[l]
  BY <1>1 DEF TouchStore
<1>4. \A c : Pending(c)' <=> Pending(c)
  BY <1>2 DEF Pending
<1>5. \A l : Touched(l)' => Touched(l)
  BY <1>3 DEF Touched
<1>6. \A e : e.leaf \in Docs /\ e.leaf # d => (Current(e)' <=> Current(e))
  BY <1>3 DEF Current
<1>7. \A e : e.leaf \in Docs /\ Suspect(e)' => Suspect(e)
  BY <1>1, <1>5, <1>6 DEF Suspect
<1>8. QED
  BY <1>3, <1>4, <1>7 DEF Monotone, Doomed

(* One document of an invalidation: it is marked, and what is made of it   *)
(* by way of its ascendants is still pending.                              *)
LEMMA MonotoneInvalidate ==
  ASSUME TypeOK, Linked, NEW t \in Actors, invalidate(t) PROVE Monotone
<1> USE DEF TypeOK
<1> DEFINE d == Head(work[t])
<1>1. /\ work[t] \in Seq(Docs) /\ work[t] # <<>>
      /\ ascendants[d] \in Seq(Docs) /\ d \in Docs
  <2>1. work[t] \in Seq(Docs) /\ work[t] # <<>>
    BY DEF invalidate
  <2>2. d \in Docs
    BY <2>1, CdrList
  <2>3. QED
    BY <2>1, <2>2
<1>2. /\ Marks(t) = ToSet(work[t])
      /\ Marks(t)' = ToSet(ascendants[d] \o Tail(work[t]))
  BY DEF invalidate, Marks
<1>3. /\ d \in ToSet(work[t])
      /\ ToSet(work[t]) \subseteq {d} \cup ToSet(Tail(work[t]))
      /\ ToSet(ascendants[d] \o Tail(work[t])) =
           ToSet(ascendants[d]) \cup ToSet(Tail(work[t]))
  <2>1. Tail(work[t]) \in Seq(Docs) /\ ToSet(work[t]) = {d} \cup ToSet(Tail(work[t]))
    BY <1>1, CdrList, SplitList
  <2> DEFINE a == ascendants[d]
  <2> DEFINE r == Tail(work[t])
  <2> HIDE DEF TypeOK
  <2>2. ToSet(a \o r) = ToSet(a) \cup ToSet(r)
    <3>1. a \in Seq(Docs) /\ r \in Seq(Docs)
      BY <1>1, <2>1
    <3> HIDE DEF a, r
    <3>2. QED
      BY <3>1, JoinList
  <2> HIDE DEF d
  <2>3. QED
    BY <2>1, <2>2, Zenon
<1>4. \A u \in Actors : u # t => Marks(u)' = Marks(u)
  BY DEF invalidate, Marks
<1>5. /\ told' = told /\ pc' = pc /\ doc' = doc
      /\ dirty' = [dirty EXCEPT ![d] = TRUE]
  BY DEF invalidate
<1>6. \A e : Suspect(e)' <=> Suspect(e)
  BY <1>5 DEF Suspect, Current, Touched
<1>7. \A c \in Docs : dirty'[c] => Doomed(c)
  BY <1>1, <1>2, <1>3, <1>5, MadeOfSelf DEF Doomed, Pending
<1>8. ASSUME NEW c \in made, Pending(c) PROVE Doomed(c)'
  <2>0. PICK u \in Actors : \E x \in Marks(u) : x \in MadeOf(c)
    BY <1>8 DEF Pending
  <2>1. PICK x \in Marks(u) : x \in MadeOf(c)
    BY <2>0
  <2>2. CASE u # t \/ x # d
    <3>1. x \in Marks(u)'
      BY <1>2, <1>3, <1>4, <2>1, <2>2
    <3>2. QED
      BY <2>1, <3>1 DEF Doomed, Pending
  <2>3. CASE x = d /\ c = d
    BY <1>1, <1>5, <2>3 DEF Doomed
  <2>4. CASE x = d /\ c # d
    <3>1. c \in Docs
      OBVIOUS
    <3>2. PICK y \in MadeOf(c) : d \in ToSet(Ingr[y])
      BY <2>1, <2>4, <3>1, MadeOfUp
    <3>3. y \in made
      BY <3>2, MadeOfClosed DEF Linked
    <3>4. y \in Marks(t)'
      BY <1>2, <1>3, <3>2, <3>3 DEF Linked
    <3>5. QED
      BY <3>2, <3>4 DEF Doomed, Pending
  <2>5. QED
    BY <2>2, <2>3, <2>4
<1>9. \A c \in Docs : dirty[c] => dirty'[c]
  BY <1>5
<1>10. QED
  BY <1>6, <1>7, <1>8, <1>9 DEF Monotone, Doomed

(* Every step is monotone.                                                 *)
LEMMA MonotoneStep ==
  ASSUME TypeOK, Linked, AtWork, [Next]_vars PROVE Monotone
<1>1. ASSUME NEW t \in Actors, Continue(t) PROVE Monotone
  <2>1. CASE ~TouchLock(t) /\ ~invalidate(t) /\ ~TouchStore(t)
    <3>1. AllStill /\ (dirty' = dirty \/ FetchDirty(t))
      BY <1>1, <2>1, StillThread
    <3>2. QED
      BY <3>1, MonotoneStill
  <2>2. QED
    BY <2>1, MonotoneTouchLock, MonotoneInvalidate, MonotoneTouchStore
<1>2. CASE PoliceNode
  BY <1>2, MonotonePolice
<1>3. CASE \/ \E t \in Threads, d \in Docs : StartOp(t, d)
           \/ StartPolice \/ PoliceInvalidated \/ PoliceDone
           \/ \E p \in Paths : WriteFile(p)
           \/ Tick \/ UNCHANGED vars
  <2>1. AllStill /\ dirty' = dirty
    BY <1>3, StillRest
  <2>2. QED
    BY <2>1, MonotoneStill
<1>4. QED
  BY <1>1, <1>2, <1>3 DEF Next, Police

-----------------------------------------------------------------------------
(* Types.                                                                  *)

(* An operation that ends, or goes back to the callback that called it.    *)
LEMMA YieldFacts ==
  ASSUME TypeOK, NEW t \in Actors, NEW st \in Seq(CallFrame),
         NEW v \in Contents, Yield(t, st, v)
  PROVE  /\ pc' \in [Actors -> States] /\ doc' \in [Actors -> Docs \cup {NULL}]
         /\ stack' \in [Actors -> Seq(CallFrame)]
         /\ \A u \in Actors : u # t =>
              pc'[u] = pc[u] /\ doc'[u] = doc[u] /\ stack'[u] = stack[u]
         /\ st = <<>> => pc'[t] = "idle" /\ stack'[t] = <<>>
         /\ st # <<>> =>
              /\ pc'[t] = "callback" /\ doc'[t] = doc[t]
              /\ Len(stack'[t]) = Len(st)
              /\ stack'[t][1].doc = st[1].doc /\ stack'[t][1].todo = st[1].todo
              /\ stack'[t][1].acc = st[1].acc \cup v
              /\ \A i \in 2 .. Len(st) : stack'[t][i] = st[i]
<1> USE DEF TypeOK, States
<1>1. CASE st = <<>>
  BY <1>1 DEF Yield
<1>2. CASE st # <<>>
  <2> DEFINE f == [Head(st) EXCEPT !.acc = @ \cup v]
  <2> DEFINE r == Tail(st)
  <2>1. /\ r \in Seq(CallFrame) /\ Len(r) = Len(st) - 1
        /\ Len(st) \in Nat \ {0}
        /\ Head(st) \in CallFrame /\ Head(st) = st[1]
        /\ \A i \in 1 .. Len(st) - 1 : r[i] = st[i + 1]
    BY <1>2, CdrList
  <2>2. /\ f \in CallFrame /\ f.doc = st[1].doc /\ f.todo = st[1].todo
        /\ f.acc = st[1].acc \cup v
    BY <2>1 DEF CallFrame, Contents
  <2>3. /\ stack' = [stack EXCEPT ![t] = <<f>> \o r]
        /\ pc' = [pc EXCEPT ![t] = "callback"] /\ doc' = doc
    BY <1>2 DEF Yield
  <2> HIDE DEF f, r
  <2>4. /\ <<f>> \o r \in Seq(CallFrame) /\ Len(<<f>> \o r) = Len(r) + 1
        /\ (<<f>> \o r)[1] = f
        /\ \A i \in 2 .. Len(r) + 1 : (<<f>> \o r)[i] = r[i - 1]
    BY <2>1, <2>2, ConsIndices
  <2>5. stack'[t] = <<f>> \o r
    BY <2>3
  <2>6. \A i \in 2 .. Len(st) : (<<f>> \o r)[i] = st[i]
    <3> TAKE i \in 2 .. Len(st)
    <3>1. i \in 2 .. Len(r) + 1 /\ i - 1 \in 1 .. Len(st) - 1 /\ (i - 1) + 1 = i
      BY <2>1
    <3>2. QED
      BY <2>1, <2>4, <3>1
  <2>7. Len(r) + 1 = Len(st)
    BY <2>1
  <2>8. /\ pc' \in [Actors -> States] /\ doc' \in [Actors -> Docs \cup {NULL}]
        /\ stack' \in [Actors -> Seq(CallFrame)]
        /\ \A u \in Actors : u # t =>
             pc'[u] = pc[u] /\ doc'[u] = doc[u] /\ stack'[u] = stack[u]
        /\ pc'[t] = "callback" /\ doc'[t] = doc[t]
    BY <2>3, <2>4
  <2>9. QED
    BY <1>2, <2>2, <2>4, <2>5, <2>6, <2>7, <2>8
<1>3. QED
  BY <1>1, <1>2

(* A callback begins.                                                      *)
LEMMA PushFacts ==
  ASSUME TypeOK, NEW t \in Actors, NEW d \in Docs,
         stack' = [stack EXCEPT ![t] =
                     <<[doc |-> d, todo |-> Ingr[d], acc |-> {}]>> \o @]
  PROVE  /\ stack' \in [Actors -> Seq(CallFrame)]
         /\ \A u \in Actors : u # t => stack'[u] = stack[u]
         /\ Len(stack'[t]) = Len(stack[t]) + 1
         /\ stack'[t][1] = [doc |-> d, todo |-> Ingr[d], acc |-> {}]
         /\ \A i \in 2 .. Len(stack[t]) + 1 : stack'[t][i] = stack[t][i - 1]
<1> DEFINE f == [doc |-> d, todo |-> Ingr[d], acc |-> {}]
<1> DEFINE r == stack[t]
<1>1. f \in CallFrame /\ r \in Seq(CallFrame)
  BY Ingredients DEF TypeOK, CallFrame, Contents
<1>2. stack' = [stack EXCEPT ![t] = <<f>> \o r]
  OBVIOUS
<1> HIDE DEF f, r
<1>3. /\ <<f>> \o r \in Seq(CallFrame) /\ Len(<<f>> \o r) = Len(r) + 1
      /\ (<<f>> \o r)[1] = f
      /\ \A i \in 2 .. Len(r) + 1 : (<<f>> \o r)[i] = r[i - 1]
  BY <1>1, ConsIndices
<1>4. /\ stack' \in [Actors -> Seq(CallFrame)] /\ stack'[t] = <<f>> \o r
      /\ \A u \in Actors : u # t => stack'[u] = stack[u]
  BY <1>2, <1>3 DEF TypeOK
<1>5. QED
  BY <1>3, <1>4 DEF f, r

(* A callback goes on to its next ingredient.                              *)
LEMMA NextFacts ==
  ASSUME TypeOK, NEW t \in Actors, stack[t] # <<>>, stack[t][1].todo # <<>>,
         stack' = [stack EXCEPT ![t][1].todo = Tail(@)]
  PROVE  /\ stack' \in [Actors -> Seq(CallFrame)]
         /\ \A u \in Actors : u # t => stack'[u] = stack[u]
         /\ Len(stack'[t]) = Len(stack[t]) /\ Len(stack[t]) \in Nat \ {0}
         /\ stack'[t][1].doc = stack[t][1].doc
         /\ stack'[t][1].acc = stack[t][1].acc
         /\ stack'[t][1].todo = Tail(stack[t][1].todo)
         /\ \A i \in 2 .. Len(stack[t]) : stack'[t][i] = stack[t][i]
<1> DEFINE s == stack[t]
<1> DEFINE f == [s[1] EXCEPT !.todo = Tail(@)]
<1>1. s \in Seq(CallFrame) /\ s # <<>>
  BY DEF TypeOK
<1>2. Len(s) \in Nat \ {0} /\ s[1] \in CallFrame
  BY <1>1
<1>3. Tail(s[1].todo) \in Seq(Docs)
  BY <1>2, CdrList DEF CallFrame
<1>4. /\ f \in CallFrame /\ f.doc = s[1].doc /\ f.acc = s[1].acc
      /\ f.todo = Tail(s[1].todo)
  BY <1>2, <1>3 DEF CallFrame
<1>5. stack' = [stack EXCEPT ![t] = [s EXCEPT ![1] = f]]
  OBVIOUS
<1>6. /\ [s EXCEPT ![1] = f] \in Seq(CallFrame)
      /\ Len([s EXCEPT ![1] = f]) = Len(s)
      /\ [s EXCEPT ![1] = f][1] = f
      /\ \A i \in 2 .. Len(s) : [s EXCEPT ![1] = f][i] = s[i]
  <2> HIDE DEF f, s
  <2>1. QED
    BY <1>1, <1>2, <1>4
<1>7. /\ stack' \in [Actors -> Seq(CallFrame)] /\ stack'[t] = [s EXCEPT ![1] = f]
      /\ \A u \in Actors : u # t => stack'[u] = stack[u]
  <2> HIDE DEF f
  <2>1. QED
    BY <1>5, <1>6 DEF TypeOK
<1>8. QED
  <2> HIDE DEF f
  <2>1. QED
    BY <1>2, <1>4, <1>6, <1>7

(* The first four steps of fetch-doc keep the types.                       *)
LEMMA TypeFetch ==
  ASSUME TypeOK, LeafFields, AtWork, Callbacks, NEW t \in Actors,
         \/ FetchClean(t) \/ FetchDirty(t) \/ load_from_file(t)
         \/ CallbackFetches(t) \/ CallbackReturns(t)
  PROVE  TypeOK'
<1> USE DEF nodeVars, listVars, fileVars
<1>0. stack[t] \in Seq(CallFrame)
  BY DEF TypeOK
<1>1. CASE FetchClean(t)
  <2>1. doc[t] \in Docs /\ payload[doc[t]] \in Contents
    BY <1>1 DEF FetchClean, AtWork, Place, TypeOK
  <2>2. Yield(t, stack[t], payload[doc[t]])
    BY <1>1 DEF FetchClean
  <2>3. /\ pc' \in [Actors -> States] /\ doc' \in [Actors -> Docs \cup {NULL}]
        /\ stack' \in [Actors -> Seq(CallFrame)]
    BY <1>0, <2>1, <2>2, YieldFacts
  <2>4. QED
    BY <1>1, <2>3 DEF FetchClean, TypeOK
<1>2. CASE FetchDirty(t)
  <2> DEFINE d == doc[t]
  <2>1. d \in Docs /\ payload[d] \in Contents
    BY <1>2 DEF FetchDirty, AtWork, Place, TypeOK
  <2>2. Kind[d] \in {"datum", "file", "chain"}
    BY <2>1, ConstantsOK
  <2>3. /\ dirty' \in [Docs -> BOOLEAN] /\ mutex' \in [Docs -> Actors \cup {NULL}]
        /\ pc' \in [Actors -> States] /\ doc' \in [Actors -> Docs \cup {NULL}]
        /\ stack' \in [Actors -> Seq(CallFrame)]
    <3>1. dirty' \in [Docs -> BOOLEAN]
      BY <1>2 DEF FetchDirty, TypeOK
    <3>2. CASE Kind[d] = "datum"
      <4>1. Yield(t, stack[t], payload[d]) /\ mutex' = mutex
        BY <1>2, <3>2 DEF FetchDirty
      <4>2. QED
        BY <1>0, <2>1, <3>1, <4>1, YieldFacts DEF TypeOK
    <3>3. CASE Kind[d] = "file"
      <4>1. /\ mutex' = [mutex EXCEPT ![d] = t] /\ stack' = stack
            /\ pc' = [pc EXCEPT ![t] = "load"] /\ doc' = doc
        BY <1>2, <3>3 DEF FetchDirty
      <4> HIDE DEF d
      <4>2. QED
        BY <2>1, <3>1, <4>1 DEF TypeOK, States
    <3>4. CASE Kind[d] = "chain"
      <4>1. stack' \in [Actors -> Seq(CallFrame)]
        BY <1>2, <2>1, <3>4, PushFacts DEF FetchDirty
      <4>2. /\ mutex' = [mutex EXCEPT ![d] = t]
            /\ pc' = [pc EXCEPT ![t] = "callback"] /\ doc' = doc
        BY <1>2, <3>4 DEF FetchDirty
      <4> HIDE DEF d
      <4>3. QED
        BY <2>1, <3>1, <4>1, <4>2 DEF TypeOK, States
    <3>5. QED
      BY <2>2, <3>2, <3>3, <3>4
  <2>4. QED
    BY <1>2, <2>3 DEF FetchDirty, TypeOK
<1>3. CASE load_from_file(t)
  <2> DEFINE d == doc[t]
  <2> DEFINE v == {Entry(d, filepath[d], version[filepath[d]])}
  <2>1. d \in Docs /\ d \in Files
    BY <1>3 DEF load_from_file, AtWork, Place, TypeOK, Files
  <2>2. v \in Contents
    BY <2>1 DEF LeafFields, TypeOK, Contents, Entry
  <2>3. Yield(t, stack[t], v)
    BY <1>3 DEF load_from_file
  <2>4. payload' = [payload EXCEPT ![d] = v] /\ mutex' = [mutex EXCEPT ![d] = NULL]
    BY <1>3 DEF load_from_file
  <2> HIDE DEF v
  <2>5. /\ pc' \in [Actors -> States] /\ doc' \in [Actors -> Docs \cup {NULL}]
        /\ stack' \in [Actors -> Seq(CallFrame)]
    BY <1>0, <2>2, <2>3, YieldFacts
  <2>6. QED
    BY <1>3, <2>2, <2>4, <2>5 DEF load_from_file, TypeOK
<1>4. CASE CallbackFetches(t)
  <2>1. stack[t] # <<>> /\ stack[t][1].todo # <<>>
    BY <1>4 DEF CallbackFetches, AtWork, Place
  <2>2. stack' \in [Actors -> Seq(CallFrame)]
    BY <1>4, <2>1, NextFacts DEF CallbackFetches
  <2>3. Head(stack[t][1].todo) \in Docs
    <3>1. stack[t][1] \in CallFrame
      BY <1>0, <2>1
    <3>2. QED
      BY <2>1, <3>1, CdrList DEF CallFrame
  <2>4. QED
    BY <1>4, <2>2, <2>3 DEF CallbackFetches, TypeOK, States
<1>5. CASE CallbackReturns(t)
  <2> DEFINE d == stack[t][1].doc
  <2> DEFINE v == stack[t][1].acc
  <2>1. stack[t] # <<>>
    BY <1>5 DEF CallbackReturns, AtWork, Place
  <2>2. stack[t][1] \in CallFrame /\ Tail(stack[t]) \in Seq(CallFrame)
    BY <1>0, <2>1, CdrList
  <2>3. d \in Docs /\ v \in Contents
    BY <2>2 DEF CallFrame
  <2>4. Yield(t, Tail(stack[t]), v)
    BY <1>5 DEF CallbackReturns
  <2>5. /\ pc' \in [Actors -> States] /\ doc' \in [Actors -> Docs \cup {NULL}]
        /\ stack' \in [Actors -> Seq(CallFrame)]
    BY <2>2, <2>3, <2>4, YieldFacts
  <2>6. payload' = [payload EXCEPT ![d] = v] /\ mutex' = [mutex EXCEPT ![d] = NULL]
    BY <1>5 DEF CallbackReturns
  <2>7. QED
    BY <1>5, <2>3, <2>5, <2>6 DEF CallbackReturns, KeepDirty, TypeOK
<1>6. QED
  BY <1>1, <1>2, <1>3, <1>4, <1>5

(* So do its exceptions, touch-doc and make-doc ...                        *)
LEMMA TypeTouchMake ==
  ASSUME TypeOK, LeafFields, AtWork, NEW t \in Actors,
         \/ CallbackThrows(t) \/ RelockThrows(t)
         \/ TouchLock(t) \/ invalidate(t) \/ TouchStore(t)
         \/ MakeFileRead(t) \/ MakeFileStore(t) \/ add_ascendant(t) \/ MakeReturns(t)
  PROVE  TypeOK'
<1> USE DEF nodeVars, listVars, fileVars
<1>0. /\ <<>> \in Seq(CallFrame) /\ <<>> \in Seq(Docs)
      /\ \A d \in Docs : <<d>> \in Seq(Docs)
      /\ Seq(Files) \subseteq Seq(Docs)
  <2>1. Files \subseteq Docs
    BY DEF Files
  <2>2. QED
    BY <2>1
<1>1. CASE CallbackThrows(t)
  BY <1>0, <1>1 DEF CallbackThrows, TypeOK, States
<1>2. CASE RelockThrows(t)
  BY <1>0, <1>2 DEF RelockThrows, TypeOK, States
<1>3. CASE TouchLock(t)
  <2>1. doc[t] \in Docs
    BY <1>3 DEF TouchLock, AtWork, Place, TypeOK
  <2>2. QED
    BY <1>0, <1>3, <2>1 DEF TouchLock, TypeOK, States
<1>4. CASE invalidate(t)
  <2>1. work[t] \in Seq(Docs) /\ work[t] # <<>>
    BY <1>4 DEF invalidate, TypeOK
  <2>2. Head(work[t]) \in Docs /\ Tail(work[t]) \in Seq(Docs)
    BY <2>1, CdrList
  <2>3. ascendants[Head(work[t])] \o Tail(work[t]) \in Seq(Docs)
    <3> DEFINE a == ascendants[Head(work[t])]
    <3> DEFINE r == Tail(work[t])
    <3>1. a \in Seq(Docs) /\ r \in Seq(Docs)
      BY <2>2 DEF TypeOK
    <3> HIDE DEF a, r
    <3>2. a \o r \in Seq(Docs)
      BY <3>1
    <3>3. QED
      BY <3>2 DEF a, r
  <2> DEFINE w == ascendants[Head(work[t])] \o Tail(work[t])
  <2>4. /\ work' = [work EXCEPT ![t] = w]
        /\ dirty' = [dirty EXCEPT ![Head(work[t])] = TRUE]
    BY <1>4 DEF invalidate
  <2> HIDE DEF w
  <2>5. work' \in [Actors -> Seq(Docs)] /\ dirty' \in [Docs -> BOOLEAN]
    BY <2>2, <2>3, <2>4 DEF TypeOK, w
  <2>6. QED
    BY <1>4, <2>5 DEF invalidate, TypeOK
<1>5. CASE TouchStore(t)
  <2> DEFINE d == doc[t]
  <2>1. d \in Docs
    BY <1>5 DEF TouchStore, AtWork, Place, TypeOK
  <2>2. arg[t] # NULL => \/ Kind[d] = "datum" /\ arg[t] \in Nat
                         \/ Kind[d] = "file" /\ arg[t] \in Paths
    BY <1>5 DEF TouchStore, AtWork, Place
  <2>3. NewPayload(d, arg[t]) \in Contents
    <3>1. Entry(d, NULL, arg[t]) \in [leaf : Docs, path : Paths \cup {NULL}, ver : Nat]
            \/ ~(arg[t] # NULL /\ Kind[d] = "datum")
      BY <2>1, <2>2 DEF Entry
    <3>2. payload[d] \in Contents
      BY <2>1 DEF TypeOK
    <3>3. QED
      BY <3>1, <3>2 DEF NewPayload, Contents
  <2>4. payload' \in [Docs -> Contents] /\ mutex' \in [Docs -> Actors \cup {NULL}]
    BY <1>5, <2>3 DEF TouchStore, TypeOK
  <2>5. filepath' \in [Docs -> Paths \cup {NULL}]
    BY <1>5, <2>1, <2>2 DEF TouchStore, TypeOK
  <2>6. told' \in [Docs -> (Paths \cup {NULL}) \X Nat]
    <3>1. CASE Kind[d] = "file"
      <4>1. filepath'[d] \in Paths
        BY <1>5, <2>1, <2>2, <3>1 DEF TouchStore, TypeOK, LeafFields, Files
      <4>2. version[filepath'[d]] \in Nat
        BY <4>1, ConstantsOK DEF TypeOK
      <4>3. told' = [told EXCEPT ![d] = <<filepath'[d], version[filepath'[d]]>>]
        BY <1>5, <3>1 DEF TouchStore
      <4>4. QED
        BY <4>1, <4>2, <4>3 DEF TypeOK
    <3>2. CASE Kind[d] = "datum"
      <4>1. told' = [told EXCEPT ![d] = IF arg[t] = NULL THEN @ ELSE <<NULL, arg[t]>>]
        BY <1>5, <3>2 DEF TouchStore
      <4>2. QED
        BY <2>1, <2>2, <3>2, <4>1 DEF TypeOK
    <3>3. CASE Kind[d] = "chain"
      <4>1. told' = [told EXCEPT ![d] = @]
        BY <1>5, <3>3 DEF TouchStore
      <4>2. QED
        BY <4>1 DEF TypeOK
    <3>4. QED
      BY <2>1, <3>1, <3>2, <3>3, ConstantsOK
  <2>7. QED
    BY <1>5, <2>4, <2>5, <2>6 DEF TouchStore, TypeOK, States
<1>6. CASE MakeFileRead(t)
  BY <1>0, <1>6 DEF MakeFileRead, TypeOK, States
<1>7. CASE MakeFileStore(t)
  <2>1. doc[t] \in Files /\ work[t] \in Seq(Files)
    BY <1>7 DEF MakeFileStore, AtWork, Place, Files
  <2>2. <<doc[t]>> \o work[t] \in Seq(Files)
    BY <2>1
  <2>3. QED
    BY <1>0, <1>7, <2>1, <2>2 DEF MakeFileStore, TypeOK, States, Files
<1>8. CASE add_ascendant(t)
  <2>1. work[t] \in Seq(Docs) /\ work[t] # <<>> /\ doc[t] \in Docs
    BY <1>8 DEF add_ascendant, TypeOK, AtWork, Place
  <2>2. Head(work[t]) \in Docs /\ Tail(work[t]) \in Seq(Docs)
    BY <2>1, CdrList
  <2>3. <<doc[t]>> \o ascendants[Head(work[t])] \in Seq(Docs)
    BY <2>1, <2>2 DEF TypeOK
  <2>4. ascendants' \in [Docs -> Seq(Docs)] /\ work' \in [Actors -> Seq(Docs)]
    BY <1>8, <2>2, <2>3 DEF add_ascendant, TypeOK
  <2>5. QED
    BY <1>8, <2>4 DEF add_ascendant, TypeOK
<1>9. CASE MakeReturns(t)
  <2>1. doc[t] \in Docs
    BY <1>9 DEF MakeReturns, AtWork, Place
  <2>2. QED
    BY <1>9, <2>1 DEF MakeReturns, TypeOK, States
<1>10. QED
  BY <1>1, <1>2, <1>3, <1>4, <1>5, <1>6, <1>7, <1>8, <1>9

(* An operation starts.                                                    *)
LEMMA BeginTypes ==
  ASSUME TypeOK, NEW t \in Actors, NEW d \in Docs, NEW at \in States,
         Begin(t, at, d)
  PROVE  /\ pc' \in [Actors -> States] /\ doc' \in [Actors -> Docs \cup {NULL}]
         /\ nops' \in 0 .. MaxOps
         /\ pc[t] = "idle" /\ pc'[t] = at /\ doc'[t] = d
         /\ \A u \in Actors : u # t => pc'[u] = pc[u] /\ doc'[u] = doc[u]
<1>1. nops' \in 0 .. MaxOps
  BY ConstantsOK DEF Begin, TypeOK
<1>2. QED
  BY <1>1 DEF Begin, TypeOK

(* What touch-doc can be given.                                            *)
LEMMA ArgTypes ==
  ASSUME NEW d \in Docs, NEW a \in TouchArgs(d), a # NULL
  PROVE  \/ Kind[d] = "datum" /\ a \in Nat
         \/ Kind[d] = "file" /\ a \in Paths
<1>1. Kind[d] \in {"datum", "file", "chain"}
  BY ConstantsOK
<1>2. CASE Kind[d] = "datum"
  BY <1>2 DEF TouchArgs
<1>3. CASE Kind[d] = "file"
  BY <1>3 DEF TouchArgs
<1>4. CASE Kind[d] = "chain"
  BY <1>4 DEF TouchArgs
<1>5. QED
  BY <1>1, <1>2, <1>3, <1>4

(* ... and everything else.                                                *)
LEMMA TypeRest ==
  ASSUME TypeOK, LeafFields, AtWork,
         \/ \E t \in Threads, d \in Docs : StartOp(t, d)
         \/ Police
         \/ \E p \in Paths : WriteFile(p)
         \/ Tick \/ UNCHANGED vars
  PROVE  TypeOK'
<1> USE DEF nodeVars, listVars, fileVars, thrVars
<1>0. Threads \subseteq Actors /\ Main \in Actors
  BY DEF Actors
<1>1. CASE \E t \in Threads, d \in Docs : StartOp(t, d)
  <2>1. PICK t \in Threads, d \in Docs : StartOp(t, d)
    BY <1>1
  <2>2. CASE Fetch(t, d)
    <3>1. Begin(t, "lock", d) /\ "lock" \in States
      BY <2>2 DEF Fetch, States
    <3>2. QED
      BY <1>0, <2>2, <3>1, BeginTypes DEF Fetch, TypeOK
  <2>3. CASE Touch(t, d)
    <3>1. Begin(t, "tlock", d) /\ "tlock" \in States
      BY <2>3 DEF Touch, States
    <3>2. PICK a \in TouchArgs(d) : arg' = [arg EXCEPT ![t] = a]
      BY <2>3 DEF Touch
    <3>3. a \in {NULL} \cup Paths \cup Nat
      BY <3>2, ArgTypes
    <3>4. arg' \in [Actors -> {NULL} \cup Paths \cup Nat]
      BY <3>2, <3>3 DEF TypeOK
    <3>5. QED
      BY <1>0, <2>3, <3>1, <3>4, BeginTypes DEF Touch, TypeOK
  <2>4. CASE Make(t, d)
    <3> DEFINE at == IF Kind[d] = "file" THEN "fileread" ELSE "make"
    <3>1. Begin(t, at, d) /\ at \in States
      BY <2>4 DEF Make, States
    <3> HIDE DEF at
    <3>2. Ingr[d] \in Seq(Docs) /\ work' \in [Actors -> Seq(Docs)]
      BY <2>4, Ingredients DEF Make, TypeOK
    <3>3. QED
      BY <1>0, <2>4, <3>1, <3>2, BeginTypes DEF Make, TypeOK
  <2>5. QED
    BY <2>1, <2>2, <2>3, <2>4 DEF StartOp
<1>2. CASE StartPolice
  BY <1>0, <1>2 DEF StartPolice, TypeOK, States
<1>3. CASE PoliceNode
  <2> DEFINE d == Head(cursor)
  <2> DEFINE p == filepath[d]
  <2>1. d \in Files /\ Tail(cursor) \in Seq(Files)
    BY <1>3, CdrList DEF PoliceNode, TypeOK
  <2>2. d \in Docs /\ p \in Paths
    BY <2>1 DEF LeafFields, Files
  <2>3. version[p] \in Nat /\ mtime[p] \in 0 .. MaxClock
    BY <2>2, ConstantsOK DEF TypeOK
  <2>4. /\ cursor' = Tail(cursor)
        /\ node_mtime' = node_mtime \/ node_mtime' = [node_mtime EXCEPT ![d] = mtime[p]]
        /\ \/ UNCHANGED <<work, pc, told>>
           \/ /\ work' = [work EXCEPT ![Main] = <<d>>]
              /\ pc' = [pc EXCEPT ![Main] = "pinval"]
              /\ told' = [told EXCEPT ![d] = <<p, version[p]>>]
    BY <1>3 DEF PoliceNode
  <2> HIDE DEF d, p
  <2>5. cursor' \in Seq(Files) /\ node_mtime' \in [Docs -> 0 .. MaxClock]
    <3>1. node_mtime \in [Docs -> 0 .. MaxClock]
      BY DEF TypeOK
    <3>2. node_mtime' \in [Docs -> 0 .. MaxClock]
      BY <2>3, <2>4, <3>1
    <3>3. QED
      BY <2>1, <2>4, <3>2
  <2>6. work' \in [Actors -> Seq(Docs)] /\ pc' \in [Actors -> States]
    <3>1. /\ work \in [Actors -> Seq(Docs)] /\ pc \in [Actors -> States]
          /\ <<d>> \in Seq(Docs) /\ "pinval" \in States
      BY <2>2 DEF TypeOK, States
    <3>2. work' \in [Actors -> Seq(Docs)]
      BY <2>4, <3>1
    <3>3. QED
      BY <2>4, <3>1, <3>2
  <2>7. told' \in [Docs -> (Paths \cup {NULL}) \X Nat]
    <3>1. /\ told \in [Docs -> (Paths \cup {NULL}) \X Nat]
          /\ <<p, version[p]>> \in (Paths \cup {NULL}) \X Nat
      BY <2>2, <2>3 DEF TypeOK
    <3>2. QED
      BY <2>4, <3>1
  <2>8. UNCHANGED <<made, nodeVars, file_nodes, fileVars, doc, arg, stack, nops>>
    BY <1>3 DEF PoliceNode
  <2>9. QED
    BY <2>5, <2>6, <2>7, <2>8 DEF TypeOK
<1>4. CASE PoliceInvalidated
  BY <1>0, <1>4 DEF PoliceInvalidated, TypeOK, States
<1>5. CASE PoliceDone
  BY <1>0, <1>5 DEF PoliceDone, TypeOK, States
<1>6. CASE \E p \in Paths : WriteFile(p)
  <2>1. PICK p \in Paths : WriteFile(p)
    BY <1>6
  <2>2. version[p] + 1 \in 0 .. MaxVersion /\ clock \in 0 .. MaxClock
    BY <2>1, ConstantsOK DEF WriteFile, TypeOK
  <2>3. version' \in [Paths -> 0 .. MaxVersion] /\ mtime' \in [Paths -> 0 .. MaxClock]
    BY <2>1, <2>2 DEF WriteFile, TypeOK
  <2>4. QED
    BY <2>1, <2>3 DEF WriteFile, TypeOK
<1>7. CASE Tick
  <2>1. clock' \in 1 .. MaxClock
    BY <1>7, ConstantsOK DEF Tick, TypeOK
  <2>2. QED
    BY <1>7, <2>1 DEF Tick, TypeOK
<1>8. CASE UNCHANGED vars
  BY <1>8 DEF vars, TypeOK
<1>9. QED
  BY <1>1, <1>2, <1>3, <1>4, <1>5, <1>6, <1>7, <1>8 DEF Police

(* Every step keeps the types.                                             *)
LEMMA TypeStep ==
  ASSUME TypeOK, LeafFields, AtWork, Callbacks, [Next]_vars PROVE TypeOK'
BY TypeFetch, TypeTouchMake, TypeRest DEF Next, Continue

-----------------------------------------------------------------------------
(* The leaves and the graph.                                               *)

(* Who writes which field.                                                 *)
LEMMA Writers ==
  ASSUME NEW t \in Actors, Continue(t)
  PROVE  /\ UNCHANGED <<version, mtime, node_mtime>>
         /\ \/ payload' = payload
            \/ load_from_file(t) \/ CallbackReturns(t) \/ TouchStore(t)
         /\ UNCHANGED <<told, filepath>> \/ TouchStore(t)
         /\ made' = made \/ MakeFileStore(t) \/ MakeReturns(t)
         /\ ascendants' = ascendants \/ add_ascendant(t)
         /\ \/ mutex' = mutex \/ FetchDirty(t) \/ load_from_file(t)
            \/ CallbackReturns(t) \/ TouchLock(t) \/ TouchStore(t)
         /\ dirty' = dirty \/ FetchDirty(t) \/ invalidate(t)
BY DEF Continue, nodeVars, listVars, fileVars, FetchClean, FetchDirty,
       load_from_file, CallbackFetches, CallbackReturns, KeepDirty,
       CallbackThrows, RelockThrows, TouchLock, invalidate, TouchStore,
       MakeFileRead, MakeFileStore, add_ascendant, MakeReturns

(* Nobody else writes a document.                                          *)
LEMMA OtherWriters ==
  ASSUME \/ \E t \in Threads, d \in Docs : StartOp(t, d)
         \/ Police
         \/ \E p \in Paths : WriteFile(p)
         \/ Tick \/ UNCHANGED vars
  PROVE  /\ UNCHANGED <<made, nodeVars>>
         /\ told' = told \/ PoliceNode
         /\ version' = version \/ \E p \in Paths : WriteFile(p)
BY DEF StartOp, Fetch, Touch, Make, Police, StartPolice, PoliceNode, nodeVars,
       PoliceInvalidated, PoliceDone, WriteFile, Tick, vars, fileVars, thrVars

(* A touch tells of the leaf what it stores.                               *)
LEMMA LeafTouch ==
  ASSUME TypeOK, LeafFields, AtWork, NEW t \in Actors, TouchStore(t)
  PROVE  LeafFields'
<1> DEFINE d == doc[t]
<1>1. d \in Docs /\ pc[t] = "touch"
  BY DEF TouchStore, AtWork, Place, TypeOK
<1>2. arg[t] # NULL => \/ Kind[d] = "datum" /\ arg[t] \in Nat
                       \/ Kind[d] = "file" /\ arg[t] \in Paths
  BY <1>1 DEF AtWork, Place
<1>3. /\ payload' = [payload EXCEPT ![d] = NewPayload(d, arg[t])]
      /\ filepath' = IF arg[t] # NULL /\ Kind[d] = "file"
                       THEN [filepath EXCEPT ![d] = arg[t]] ELSE filepath
      /\ version' = version
  BY DEF TouchStore, fileVars
<1>4. /\ \A l \in Docs : l # d => told'[l] = told[l]
      /\ Kind[d] = "file" => told'[d] = <<filepath'[d], version[filepath'[d]]>>
      /\ Kind[d] = "datum" =>
           told'[d] = IF arg[t] = NULL THEN told[d] ELSE <<NULL, arg[t]>>
  BY <1>1 DEF TouchStore, TypeOK
<1>5. ASSUME NEW f \in Files
      PROVE  /\ filepath'[f] \in Paths /\ told'[f][1] = filepath'[f]
             /\ told'[f][2] <= version'[filepath'[f]]
  <2>1. f \in Docs /\ Kind[f] = "file"
    BY DEF Files
  <2>2. /\ filepath[f] \in Paths /\ told[f][1] = filepath[f]
        /\ told[f][2] <= version[filepath[f]]
    BY <1>5 DEF LeafFields
  <2>3. CASE f # d
    <3>1. filepath'[f] = filepath[f]
      BY <1>3, <2>1, <2>3 DEF TypeOK
    <3>2. QED
      BY <1>3, <1>4, <2>1, <2>2, <2>3, <3>1
  <2>4. CASE f = d
    <3>1. filepath'[f] \in Paths
      BY <1>2, <1>3, <2>1, <2>2, <2>4 DEF TypeOK
    <3>2. version[filepath'[f]] \in Nat
      BY <3>1, ConstantsOK DEF TypeOK
    <3>3. QED
      BY <1>3, <1>4, <2>1, <2>4, <3>1, <3>2
  <2>5. QED
    BY <2>3, <2>4
<1>6. ASSUME NEW l \in Docs, Kind[l] = "datum"
      PROVE  told'[l][1] = NULL /\ payload'[l] = {Entry(l, NULL, told'[l][2])}
  <2>1. told[l][1] = NULL /\ payload[l] = {Entry(l, NULL, told[l][2])}
    BY <1>6 DEF LeafFields
  <2>2. CASE l # d
    BY <1>3, <1>4, <2>1, <2>2 DEF TypeOK
  <2>3. CASE l = d
    <3>1. payload'[l] = NewPayload(d, arg[t])
      BY <1>1, <1>3, <2>3 DEF TypeOK
    <3>2. QED
      BY <1>4, <1>6, <2>1, <2>3, <3>1 DEF NewPayload
  <2>4. QED
    BY <2>2, <2>3
<1>7. QED
  BY <1>5, <1>6 DEF LeafFields

(* Every step keeps what is known of the leaves.                           *)
LEMMA LeafStep ==
  ASSUME TypeOK, LeafFields, AtWork, Callbacks, [Next]_vars PROVE LeafFields'
<1>1. ASSUME UNCHANGED <<told, filepath, version>>,
             \A l \in Docs : Kind[l] = "datum" => payload'[l] = payload[l]
      PROVE  LeafFields'
  BY <1>1 DEF LeafFields
<1>2. ASSUME NEW t \in Actors, Continue(t) PROVE LeafFields'
  <2>1. CASE TouchStore(t)
    BY <2>1, LeafTouch
  <2>2. CASE ~TouchStore(t)
    <3>1. UNCHANGED <<told, filepath, version>>
      BY <1>2, <2>2, Writers
    <3>2. \A l \in Docs : Kind[l] = "datum" => payload'[l] = payload[l]
      <4>1. CASE load_from_file(t)
        <5>1. Kind[doc[t]] = "file"
          BY <4>1 DEF load_from_file, AtWork, Place
        <5>2. QED
          BY <4>1, <5>1 DEF load_from_file, TypeOK
      <4>2. CASE CallbackReturns(t)
        <5>1. stack[t] # <<>> /\ stack[t] \in Seq(CallFrame)
          BY <4>2 DEF CallbackReturns, AtWork, Place, TypeOK
        <5>2. 1 \in 1 .. Len(stack[t])
          BY <5>1
        <5>3. Kind[stack[t][1].doc] = "chain"
          BY <5>2 DEF Callbacks, FrameOK, FrameOf
        <5>4. QED
          BY <4>2, <5>3 DEF CallbackReturns, TypeOK
      <4>3. QED
        BY <1>2, <2>2, <4>1, <4>2, Writers
    <3>3. QED
      BY <1>1, <3>1, <3>2
  <2>3. QED
    BY <2>1, <2>2
<1>3. CASE PoliceNode
  <2> DEFINE d == Head(cursor)
  <2>1. d \in Files
    BY <1>3, CdrList DEF PoliceNode, TypeOK
  <2>2. d \in Docs /\ Kind[d] = "file" /\ filepath[d] \in Paths
    BY <2>1 DEF LeafFields, Files
  <2>3. version[filepath[d]] \in Nat
    BY <2>2, ConstantsOK DEF TypeOK
  <2>4. /\ told' = told \/ told' = [told EXCEPT ![d] = <<filepath[d], version[filepath[d]]>>]
        /\ UNCHANGED <<filepath, version, payload>>
    BY <1>3 DEF PoliceNode, nodeVars, fileVars
  <2> HIDE DEF d
  <2>5. CASE told' = [told EXCEPT ![d] = <<filepath[d], version[filepath[d]]>>]
    <3>1. told'[d] = <<filepath[d], version[filepath[d]]>>
      BY <2>2, <2>5 DEF TypeOK
    <3>2. \A l \in Docs : l # d => told'[l] = told[l]
      BY <2>5 DEF TypeOK
    <3>3. \A f \in Files : f \in Docs
      BY DEF Files
    <3>4. QED
      BY <2>2, <2>3, <2>4, <3>1, <3>2, <3>3 DEF LeafFields
  <2>6. QED
    BY <1>1, <2>4, <2>5
<1>4. ASSUME NEW p \in Paths, WriteFile(p) PROVE LeafFields'
  <2>1. /\ UNCHANGED <<told, filepath, payload>>
        /\ version' = [version EXCEPT ![p] = @ + 1]
    BY <1>4 DEF WriteFile, nodeVars
  <2>2. \A q \in Paths : version[q] \in Nat /\ version'[q] \in Nat /\ version[q] <= version'[q]
    BY <2>1, ConstantsOK DEF TypeOK
  <2>3. \A f \in Files : told[f][2] \in Nat
    BY DEF TypeOK, Files
  <2>4. QED
    BY <2>1, <2>2, <2>3 DEF LeafFields
<1>5. CASE /\ ~PoliceNode /\ ~(\E p \in Paths : WriteFile(p))
           /\ \/ \E t \in Threads, d \in Docs : StartOp(t, d)
              \/ Police \/ Tick \/ UNCHANGED vars
  <2>1. UNCHANGED <<told, filepath, version, payload>>
    BY <1>5, OtherWriters DEF nodeVars
  <2>2. QED
    BY <1>1, <2>1
<1>6. QED
  BY <1>2, <1>3, <1>4, <1>5 DEF Next

(* Nothing is stored in a document before it is made.                      *)
LEMMA StoredMade ==
  ASSUME TypeOK, AtWork, Callbacks, [Next]_vars
  PROVE  \A d \in Docs \ made : payload'[d] = payload[d]
<1>1. ASSUME NEW t \in Actors, load_from_file(t)
      PROVE  \A d \in Docs \ made : payload'[d] = payload[d]
  BY <1>1 DEF load_from_file, AtWork, Place, TypeOK
<1>2. ASSUME NEW t \in Actors, TouchStore(t)
      PROVE  \A d \in Docs \ made : payload'[d] = payload[d]
  BY <1>2 DEF TouchStore, AtWork, Place, TypeOK
<1>3. ASSUME NEW t \in Actors, CallbackReturns(t)
      PROVE  \A d \in Docs \ made : payload'[d] = payload[d]
  <2>1. stack[t] # <<>> /\ stack[t] \in Seq(CallFrame)
    BY <1>3 DEF CallbackReturns, AtWork, Place, TypeOK
  <2>2. 1 \in 1 .. Len(stack[t])
    BY <2>1
  <2>3. stack[t][1].doc \in made
    BY <2>2 DEF Callbacks, FrameOK, FrameOf
  <2>4. QED
    BY <1>3, <2>3 DEF CallbackReturns, TypeOK
<1>4. QED
  BY <1>1, <1>2, <1>3, Writers, OtherWriters DEF Next, nodeVars

(* Every step keeps the graph linked.                                      *)
LEMMA LinkedStep ==
  ASSUME TypeOK, LeafFields, Linked, AtWork, Callbacks, [Next]_vars PROVE Linked'
<1>0. \A d \in Docs \ made : payload'[d] = payload[d]
  BY StoredMade
<1>1. CASE made' = made /\ ascendants' = ascendants /\ dirty' = dirty
  BY <1>0, <1>1 DEF Linked
<1>2. ASSUME NEW t \in Actors, MakeFileStore(t) \/ MakeReturns(t) PROVE Linked'
  <2>1. made' = made \cup {doc[t]} /\ ascendants' = ascendants /\ dirty' = dirty
    BY <1>2 DEF MakeFileStore, MakeReturns, nodeVars
  <2>2. doc[t] \in Docs /\ made \subseteq Docs
    BY <1>2 DEF MakeFileStore, MakeReturns, AtWork, Place, TypeOK
  <2>3. \A e \in ToSet(Ingr[doc[t]]) : e \in made /\ doc[t] \in ToSet(ascendants[e])
    <3>1. CASE MakeFileStore(t)
      <4>1. Leaf(doc[t])
        BY <3>1 DEF MakeFileStore, AtWork, Place, Leaf
      <4>2. QED
        BY <2>2, <4>1, Ingredients
    <3>2. CASE MakeReturns(t)
      BY <3>2, NoList DEF MakeReturns, AtWork, Place
    <3>3. QED
      BY <1>2, <3>1, <3>2
  <2>4. QED
    BY <1>0, <2>1, <2>2, <2>3 DEF Linked, Closed
<1>3. ASSUME NEW t \in Actors, add_ascendant(t) PROVE Linked'
  <2> DEFINE e == Head(work[t])
  <2>1. /\ work[t] \in Seq(Docs) /\ work[t] # <<>> /\ doc[t] \in Docs
        /\ pc[t] = "make" /\ made' = made /\ dirty' = dirty
    BY <1>3 DEF add_ascendant, TypeOK, AtWork, Place
  <2>2. e \in Docs /\ e \in ToSet(work[t])
    BY <2>1, CdrList, SplitList
  <2>3. ascendants' = ascendants \/ ascendants' = [ascendants EXCEPT ![e] = <<doc[t]>> \o @]
    BY <1>3 DEF add_ascendant
  <2>4. e \in ToSet(Ingr[doc[t]])
    BY <2>1, <2>2 DEF AtWork, Place
  <2>5. ToSet(<<doc[t]>> \o ascendants[e]) = ToSet(ascendants[e]) \cup {doc[t]}
    BY <2>1, <2>2, ConsList DEF TypeOK
  <2> HIDE DEF e
  <2>6. \A x \in Docs : /\ ToSet(ascendants[x]) \subseteq ToSet(ascendants'[x])
                        /\ \A c \in ToSet(ascendants'[x]) :
                             c \in ToSet(ascendants[x]) \/ (x = e /\ c = doc[t])
    BY <2>2, <2>3, <2>5 DEF TypeOK
  <2>7. \A c \in made : ToSet(Ingr[c]) \subseteq Docs
    BY Ingredients DEF TypeOK
  <2>8. QED
    BY <1>0, <2>1, <2>4, <2>6, <2>7 DEF Linked
<1>4. ASSUME NEW t \in Actors, FetchDirty(t) \/ invalidate(t) PROVE Linked'
  <2>1. made' = made /\ ascendants' = ascendants
    BY <1>4 DEF FetchDirty, invalidate
  <2>2. \A d \in Docs \ made : dirty[d] => dirty'[d]
    <3>1. CASE FetchDirty(t)
      <4>1. doc[t] \in made
        BY <3>1 DEF FetchDirty, AtWork, Place
      <4>2. QED
        BY <3>1, <4>1 DEF FetchDirty, TypeOK
    <3>2. CASE invalidate(t)
      BY <3>2 DEF invalidate, TypeOK
    <3>3. QED
      BY <1>4, <3>1, <3>2
  <2>3. QED
    BY <1>0, <2>1, <2>2 DEF Linked
<1>5. ASSUME NEW t \in Actors, Continue(t) PROVE Linked'
  <2>1. CASE MakeFileStore(t) \/ MakeReturns(t) \/ add_ascendant(t) \/ FetchDirty(t)
             \/ invalidate(t)
    BY <1>2, <1>3, <1>4, <2>1
  <2>2. CASE ~(MakeFileStore(t) \/ MakeReturns(t) \/ add_ascendant(t) \/ FetchDirty(t)
               \/ invalidate(t))
    BY <1>1, <1>5, <2>2, Writers
  <2>3. QED
    BY <2>1, <2>2
<1>6. QED
  BY <1>1, <1>5, OtherWriters DEF Next, nodeVars

-----------------------------------------------------------------------------
(* Where the threads are.                                                  *)

(* A thread takes mutexes that are free and releases its own.              *)
LEMMA OwnMutex ==
  ASSUME TypeOK, AtWork, Callbacks, NEW t \in Actors, Continue(t)
  PROVE  \A d \in Docs : \/ mutex'[d] = mutex[d]
                         \/ mutex[d] \in {NULL, t} /\ mutex'[d] \in {NULL, t}
<1>1. CASE FetchDirty(t)
  <2>1. doc[t] \in Docs
    BY <1>1 DEF FetchDirty, AtWork, Place, TypeOK
  <2>2. Kind[doc[t]] \in {"datum", "file", "chain"}
    BY <2>1, ConstantsOK
  <2>3. mutex[doc[t]] = NULL /\ (mutex' = mutex \/ mutex' = [mutex EXCEPT ![doc[t]] = t])
    BY <1>1, <2>2 DEF FetchDirty
  <2>4. QED
    BY <2>3 DEF TypeOK
<1>2. CASE TouchLock(t)
  BY <1>2 DEF TouchLock, TypeOK
<1>3. CASE load_from_file(t)
  BY <1>3 DEF load_from_file, AtWork, Place, TypeOK
<1>4. CASE TouchStore(t)
  BY <1>4 DEF TouchStore, AtWork, Place, TypeOK
<1>5. CASE CallbackReturns(t)
  <2>1. stack[t] # <<>> /\ stack[t] \in Seq(CallFrame)
    BY <1>5 DEF CallbackReturns, AtWork, Place, TypeOK
  <2>2. 1 \in 1 .. Len(stack[t])
    BY <2>1
  <2>3. mutex[stack[t][1].doc] = t
    BY <2>2 DEF Callbacks, FrameOK, FrameOf
  <2>4. mutex' = [mutex EXCEPT ![stack[t][1].doc] = NULL]
    BY <1>5 DEF CallbackReturns
  <2>5. QED
    BY <2>3, <2>4 DEF TypeOK
<1>6. QED
  BY <1>1, <1>2, <1>3, <1>4, <1>5, Writers

(* Made documents and links stay.                                          *)
Grows ==
  /\ made \subseteq made' /\ made \subseteq Docs
  /\ \A e \in Docs : ToSet(ascendants[e]) \subseteq ToSet(ascendants'[e])

LEMMA GrowsStep ==
  ASSUME TypeOK, AtWork, [Next]_vars PROVE Grows
<1>0. made \subseteq Docs
  BY DEF TypeOK
<1>1. CASE made' = made /\ ascendants' = ascendants
  BY <1>0, <1>1 DEF Grows
<1>2. ASSUME NEW t \in Actors, add_ascendant(t) PROVE Grows
  <2> DEFINE e == Head(work[t])
  <2>1. /\ work[t] \in Seq(Docs) /\ work[t] # <<>> /\ doc[t] \in Docs /\ made' = made
    BY <1>2 DEF add_ascendant, TypeOK, AtWork, Place
  <2>2. e \in Docs
    BY <2>1, CdrList
  <2>3. ascendants' = ascendants \/ ascendants' = [ascendants EXCEPT ![e] = <<doc[t]>> \o @]
    BY <1>2 DEF add_ascendant
  <2>4. ToSet(<<doc[t]>> \o ascendants[e]) = ToSet(ascendants[e]) \cup {doc[t]}
    BY <2>1, <2>2, ConsList DEF TypeOK
  <2> HIDE DEF e
  <2>5. QED
    BY <1>0, <2>1, <2>2, <2>3, <2>4 DEF TypeOK, Grows
<1>3. ASSUME NEW t \in Actors, MakeFileStore(t) \/ MakeReturns(t) PROVE Grows
  BY <1>0, <1>3 DEF MakeFileStore, MakeReturns, Grows, nodeVars
<1>4. ASSUME NEW t \in Actors, Continue(t) PROVE Grows
  BY <1>1, <1>2, <1>3, <1>4, Writers
<1>5. QED
  BY <1>1, <1>4, OtherWriters DEF Next, nodeVars

Same(u) == /\ pc'[u] = pc[u] /\ doc'[u] = doc[u] /\ arg'[u] = arg[u]
           /\ work'[u] = work[u] /\ stack'[u] = stack[u]

(* A thread that does nothing stays where it was.                          *)
LEMMA SamePlace ==
  ASSUME TypeOK, AtWork, Monotone, Grows, NEW u \in Actors, Same(u),
         \A d \in Docs : mutex[d] = u => mutex'[d] = u
  PROVE  Place(u)'
<1>1. Place(u) /\ NULL \notin Actors
  BY ConstantsOK DEF AtWork
<1>3. pc[u] = "make" => ToSet(Ingr[doc[u]]) \subseteq Docs
  BY <1>1, Ingredients DEF Place
<1>4. /\ pc'[u] = pc[u] /\ doc'[u] = doc[u] /\ arg'[u] = arg[u]
      /\ work'[u] = work[u] /\ stack'[u] = stack[u]
  BY DEF Same
<1>5. pc[u] = "touch" => dirty'[doc[u]] \/ doc[u] \in ToSet(work[u])
  BY <1>1 DEF Place, Monotone, Fetched, Grows
<1>6. pc[u] \in {"load", "touch"} => mutex'[doc[u]] = u
  <2>1. pc[u] \in {"load", "touch"} => doc[u] \in Docs /\ mutex[doc[u]] = u
    BY <1>1 DEF Place, Grows
  <2>2. QED
    BY <2>1
<1>7. pc[u] = "make" =>
        \A e \in ToSet(Ingr[doc[u]]) :
          e \in made' /\ (doc[u] \in ToSet(ascendants'[e]) \/ e \in ToSet(work[u]))
  BY <1>1, <1>3 DEF Place, Grows
<1>8. pc[u] \in {"lock", "load", "tlock", "touch"} => doc[u] \in made'
  BY <1>1 DEF Place, Grows
<1>9. QED
  BY <1>1, <1>4, <1>5, <1>6, <1>7, <1>8 DEF Place

(* The other threads do nothing.                                           *)
LEMMA OthersSame ==
  ASSUME TypeOK, AtWork, NEW t \in Actors, Continue(t), NEW u \in Actors, u # t
  PROVE  Same(u)
<1> USE DEF Same, TypeOK
<1>1. CASE FetchDirty(t)
  <2>1. doc[t] \in Docs
    BY <1>1 DEF FetchDirty, AtWork, Place
  <2>2. Kind[doc[t]] \in {"datum", "file", "chain"}
    BY <2>1, ConstantsOK
  <2>3. QED
    BY <1>1, <2>2 DEF FetchDirty, Yield
<1>2. CASE FetchClean(t)
  BY <1>2 DEF FetchClean, Yield
<1>3. CASE load_from_file(t)
  BY <1>3 DEF load_from_file, Yield
<1>4. CASE CallbackFetches(t)
  BY <1>4 DEF CallbackFetches
<1>5. CASE CallbackReturns(t)
  BY <1>5 DEF CallbackReturns, Yield
<1>6. CASE CallbackThrows(t)
  BY <1>6 DEF CallbackThrows
<1>7. CASE RelockThrows(t)
  BY <1>7 DEF RelockThrows
<1>8. CASE TouchLock(t)
  BY <1>8 DEF TouchLock
<1>9. CASE invalidate(t)
  <2>1. /\ work' = [work EXCEPT ![t] = work'[t]]
        /\ UNCHANGED <<pc, doc, arg, stack>>
    BY <1>9 DEF invalidate
  <2>2. QED
    BY <2>1
<1>10. CASE TouchStore(t)
  <2>1. /\ pc' = [pc EXCEPT ![t] = "idle"] /\ doc' = [doc EXCEPT ![t] = NULL]
        /\ arg' = [arg EXCEPT ![t] = NULL] /\ UNCHANGED <<stack, work>>
    BY <1>10 DEF TouchStore
  <2>2. QED
    BY <2>1
<1>11. CASE MakeFileRead(t) \/ MakeFileStore(t) \/ add_ascendant(t) \/ MakeReturns(t)
  BY <1>11 DEF MakeFileRead, MakeFileStore, add_ascendant, MakeReturns
<1>12. QED
  BY <1>1, <1>2, <1>3, <1>4, <1>5, <1>6, <1>7, <1>8, <1>9, <1>10, <1>11
     DEF Continue

(* A thread at rest, and one in a callback.                                *)
LEMMA QuietPlace ==
  ASSUME NEW t \in Actors,
         \/ pc'[t] \in {"idle", "police", "pinval"} /\ stack'[t] = <<>>
         \/ pc'[t] = "callback" /\ stack'[t] # <<>>
  PROVE  Place(t)'
BY DEF Place

(* So ends a step that yields.                                             *)
LEMMA YieldPlace ==
  ASSUME TypeOK, NEW t \in Actors, NEW st \in Seq(CallFrame),
         NEW v \in Contents, Yield(t, st, v)
  PROVE  Place(t)'
<1>1. st # <<>> => pc'[t] = "callback" /\ Len(stack'[t]) = Len(st)
  BY YieldFacts
<1>2. st # <<>> => stack'[t] # <<>>
  BY <1>1
<1>3. st = <<>> => pc'[t] = "idle" /\ stack'[t] = <<>>
  BY YieldFacts
<1>4. QED
  BY <1>1, <1>2, <1>3, QuietPlace

(* fetch-doc goes where it should ...                                      *)
LEMMA FetchPlace ==
  ASSUME TypeOK, LeafFields, Linked, AtWork, Callbacks, Grows, NEW t \in Actors,
         \/ FetchClean(t) \/ FetchDirty(t) \/ load_from_file(t)
         \/ CallbackFetches(t) \/ CallbackReturns(t)
  PROVE  Place(t)'
<1>0. stack[t] \in Seq(CallFrame) /\ Place(t)
  BY DEF TypeOK, AtWork
<1>1. CASE FetchClean(t)
  <2>1. payload[doc[t]] \in Contents /\ Yield(t, stack[t], payload[doc[t]])
    BY <1>0, <1>1 DEF FetchClean, Place, TypeOK
  <2>2. QED
    BY <1>0, <2>1, YieldPlace
<1>2. CASE FetchDirty(t)
  <2> DEFINE d == doc[t]
  <2>1. d \in made /\ d \in Docs /\ payload[d] \in Contents
    BY <1>0, <1>2 DEF FetchDirty, Place, TypeOK
  <2>2. Kind[d] \in {"datum", "file", "chain"}
    BY <2>1, ConstantsOK
  <2>3. CASE Kind[d] = "datum"
    <3>1. Yield(t, stack[t], payload[d])
      BY <1>2, <2>3 DEF FetchDirty
    <3>2. QED
      BY <1>0, <2>1, <3>1, YieldPlace
  <2>4. CASE Kind[d] = "file"
    <3>1. /\ mutex' = [mutex EXCEPT ![d] = t]
          /\ pc' = [pc EXCEPT ![t] = "load"] /\ doc' = doc
      BY <1>2, <2>4 DEF FetchDirty
    <3>2. pc'[t] = "load" /\ mutex'[d] = t /\ doc'[t] = d
      <4> HIDE DEF d
      <4>1. pc'[t] = "load" /\ mutex'[d] = t
        BY <2>1, <3>1 DEF TypeOK
      <4>2. QED
        BY <3>1, <4>1 DEF d
    <3>3. d \in made'
      BY <2>1 DEF Grows
    <3> HIDE DEF d
    <3>4. QED
      BY <2>4, <3>2, <3>3 DEF Place
  <2>5. CASE Kind[d] = "chain"
    <3>1. Len(stack'[t]) = Len(stack[t]) + 1 /\ pc' = [pc EXCEPT ![t] = "callback"]
      BY <1>2, <2>1, <2>5, PushFacts DEF FetchDirty
    <3>2. pc'[t] = "callback" /\ stack'[t] # <<>>
      BY <1>0, <3>1 DEF TypeOK
    <3>3. QED
      BY <3>2, QuietPlace
  <2>6. QED
    BY <2>2, <2>3, <2>4, <2>5
<1>3. CASE load_from_file(t)
  <2> DEFINE d == doc[t]
  <2> DEFINE v == {Entry(d, filepath[d], version[filepath[d]])}
  <2>1. d \in Docs /\ d \in Files
    BY <1>0, <1>3 DEF load_from_file, Place, TypeOK, Files
  <2>2. v \in Contents
    BY <2>1 DEF LeafFields, TypeOK, Contents, Entry
  <2>3. Yield(t, stack[t], v)
    BY <1>3 DEF load_from_file
  <2>4. QED
    BY <1>0, <2>2, <2>3, YieldPlace
<1>4. CASE CallbackFetches(t)
  <2>1. stack[t] # <<>> /\ stack[t][1].todo # <<>>
    BY <1>0, <1>4 DEF CallbackFetches, Place
  <2>2. 1 \in 1 .. Len(stack[t]) /\ stack[t][1] \in CallFrame
    BY <1>0, <2>1
  <2>3. /\ stack[t][1].todo \in Seq(Docs)
        /\ ToSet(stack[t][1].todo) \subseteq ToSet(Ingr[stack[t][1].doc])
        /\ stack[t][1].doc \in made
    BY <2>2 DEF Callbacks, FrameOK, FrameOf, CallFrame
  <2>4. Head(stack[t][1].todo) \in ToSet(stack[t][1].todo)
    BY <2>1, <2>3, SplitList
  <2>5. Head(stack[t][1].todo) \in made'
    BY <2>3, <2>4 DEF Linked, Closed, Grows
  <2>6. pc'[t] = "lock" /\ doc'[t] = Head(stack[t][1].todo)
    BY <1>4 DEF CallbackFetches, TypeOK
  <2>7. QED
    BY <2>5, <2>6 DEF Place
<1>5. CASE CallbackReturns(t)
  <2>1. stack[t] # <<>>
    BY <1>0, <1>5 DEF CallbackReturns, Place
  <2>2. stack[t][1] \in CallFrame /\ Tail(stack[t]) \in Seq(CallFrame)
    BY <1>0, <2>1, CdrList
  <2>3. stack[t][1].acc \in Contents /\ Yield(t, Tail(stack[t]), stack[t][1].acc)
    BY <1>5, <2>2 DEF CallFrame, CallbackReturns
  <2>4. QED
    BY <2>2, <2>3, YieldPlace
<1>6. QED
  BY <1>1, <1>2, <1>3, <1>4, <1>5

(* ... and so do the other operations.                                     *)
LEMMA OtherPlace ==
  ASSUME TypeOK, Linked, AtWork, Monotone, Grows, NEW t \in Actors,
         \/ CallbackThrows(t) \/ RelockThrows(t)
         \/ TouchLock(t) \/ invalidate(t) \/ TouchStore(t)
         \/ MakeFileRead(t) \/ MakeFileStore(t) \/ add_ascendant(t) \/ MakeReturns(t)
  PROVE  Place(t)'
<1>0. Place(t) /\ NULL \notin Actors
  BY ConstantsOK DEF AtWork
<1>1. CASE CallbackThrows(t)
  BY <1>1, QuietPlace DEF CallbackThrows, TypeOK
<1>2. CASE RelockThrows(t)
  BY <1>2, QuietPlace DEF RelockThrows, TypeOK
<1>3. CASE TouchLock(t)
  <2>1. /\ pc'[t] = "touch" /\ doc'[t] = doc[t] /\ arg'[t] = arg[t]
        /\ work'[t] = <<doc[t]>> /\ mutex'[doc[t]] = t /\ stack'[t] = stack[t]
        /\ pc[t] = "tlock" /\ doc[t] \in made' /\ doc[t] \in Docs
    BY <1>0, <1>3 DEF TouchLock, Place, TypeOK, Grows
  <2>2. doc[t] \in ToSet(<<doc[t]>>)
    BY DEF ToSet
  <2>3. QED
    BY <1>0, <2>1, <2>2 DEF Place
<1>4. CASE invalidate(t)
  <2>1. /\ pc'[t] = pc[t] /\ doc'[t] = doc[t] /\ arg'[t] = arg[t]
        /\ stack'[t] = stack[t] /\ mutex' = mutex
        /\ pc[t] \in {"touch", "pinval"}
    BY <1>4 DEF invalidate
  <2>2. CASE pc[t] = "pinval"
    BY <1>0, <2>1, <2>2, QuietPlace DEF Place
  <2>3. CASE pc[t] = "touch"
    <3>1. doc[t] \in made /\ made \subseteq made' /\ made \subseteq Docs /\ mutex[doc[t]] = t
      BY <1>0, <2>3 DEF Place, Grows
    <3> DEFINE d == Head(work[t])
    <3>2. /\ work[t] \in Seq(Docs) /\ work[t] # <<>>
          /\ dirty' = [dirty EXCEPT ![d] = TRUE]
          /\ work'[t] = ascendants[d] \o Tail(work[t])
      BY <1>4 DEF invalidate, TypeOK
    <3>3. d \in Docs /\ Tail(work[t]) \in Seq(Docs) /\ ToSet(work[t]) = {d} \cup ToSet(Tail(work[t]))
      BY <3>2, CdrList, SplitList
    <3>4. ascendants[d] \in Seq(Docs)
      BY <3>3 DEF TypeOK
    <3>5. ToSet(Tail(work[t])) \subseteq ToSet(work'[t])
      <4> DEFINE a == ascendants[d]
      <4> DEFINE r == Tail(work[t])
      <4>1. a \in Seq(Docs) /\ r \in Seq(Docs) /\ work'[t] = a \o r
        BY <3>2, <3>3, <3>4
      <4> HIDE DEF a, r
      <4>2. ToSet(r) \subseteq ToSet(work'[t])
        BY <4>1, JoinList
      <4>3. QED
        BY <4>2 DEF r
    <3> HIDE DEF d
    <3>6. dirty'[doc[t]] \/ doc[t] \in ToSet(work'[t])
      <4>1. dirty[doc[t]] \/ doc[t] = d \/ doc[t] \in ToSet(Tail(work[t]))
        BY <1>0, <2>3, <3>3 DEF Place
      <4>2. dirty'[d] /\ (dirty[doc[t]] => dirty'[doc[t]])
        BY <3>1, <3>2, <3>3 DEF TypeOK
      <4>3. QED
        BY <3>5, <4>1, <4>2
    <3>7. QED
      BY <1>0, <2>1, <2>3, <3>1, <3>6 DEF Place
  <2>4. QED
    BY <2>1, <2>2, <2>3
<1>5. CASE TouchStore(t)
  <2>1. pc'[t] = "idle" /\ stack'[t] = stack[t] /\ pc[t] = "touch"
    BY <1>5 DEF TouchStore, TypeOK
  <2>2. QED
    BY <1>0, <2>1, QuietPlace DEF Place
<1>6. CASE MakeFileRead(t)
  <2>1. /\ pc[t] = "fileread" /\ pc'[t] = "filestore" /\ doc'[t] = doc[t]
        /\ work'[t] = file_nodes /\ stack'[t] = stack[t]
    BY <1>6 DEF MakeFileRead, TypeOK
  <2>2. file_nodes \in Seq(Files)
    BY DEF TypeOK
  <2>3. QED
    BY <1>0, <2>1, <2>2 DEF Place
<1>7. CASE MakeFileStore(t)
  <2>1. pc'[t] = "idle" /\ stack'[t] = stack[t] /\ pc[t] = "filestore"
    BY <1>7 DEF MakeFileStore, TypeOK
  <2>2. QED
    BY <1>0, <2>1, QuietPlace DEF Place
<1>8. CASE add_ascendant(t)
  <2> DEFINE e == Head(work[t])
  <2>1. /\ work[t] \in Seq(Docs) /\ work[t] # <<>> /\ doc[t] \in Docs
        /\ pc[t] = "make" /\ pc'[t] = "make" /\ doc'[t] = doc[t]
        /\ stack'[t] = stack[t] /\ work'[t] = Tail(work[t]) /\ made' = made
    BY <1>0, <1>8 DEF add_ascendant, TypeOK, Place
  <2>2. e \in Docs /\ ToSet(work[t]) = {e} \cup ToSet(Tail(work[t]))
    BY <2>1, CdrList, SplitList
  <2>3. doc[t] \in ToSet(ascendants'[e])
    <3>1. CASE Contains(ascendants[e], doc[t])
      <4>1. ascendants' = ascendants
        BY <1>8, <3>1 DEF add_ascendant
      <4>2. QED
        BY <2>2, <3>1, <4>1, InList DEF TypeOK
    <3>2. CASE ~Contains(ascendants[e], doc[t])
      <4>1. ascendants' = [ascendants EXCEPT ![e] = <<doc[t]>> \o @]
        BY <1>8, <3>2 DEF add_ascendant
      <4>2. ToSet(<<doc[t]>> \o ascendants[e]) = ToSet(ascendants[e]) \cup {doc[t]}
        BY <2>1, <2>2, ConsList DEF TypeOK
      <4> HIDE DEF e
      <4>3. QED
        BY <2>2, <4>1, <4>2 DEF TypeOK
    <3>3. QED
      BY <3>1, <3>2
  <2> HIDE DEF e
  <2>4. \A x \in Docs : ToSet(ascendants[x]) \subseteq ToSet(ascendants'[x])
    BY DEF Grows
  <2>5. ToSet(Ingr[doc[t]]) \subseteq Docs
    BY <2>1, Ingredients
  <2>6. \A x \in ToSet(Ingr[doc[t]]) :
          x \in made /\ (doc[t] \in ToSet(ascendants[x]) \/ x \in ToSet(work[t]))
    BY <1>0, <2>1 DEF Place
  <2>7. \A x \in ToSet(Ingr[doc[t]]) :
          /\ x \in made'
          /\ doc[t] \in ToSet(ascendants'[x]) \/ x \in ToSet(Tail(work[t]))
    BY <2>1, <2>2, <2>3, <2>4, <2>5, <2>6
  <2>8. /\ ToSet(Tail(work[t])) \subseteq ToSet(Ingr[doc[t]])
        /\ stack[t] = <<>>
    BY <1>0, <2>1, <2>2 DEF Place
  <2>9. QED
    BY <2>1, <2>7, <2>8 DEF Place
<1>9. CASE MakeReturns(t)
  <2>1. pc'[t] = "idle" /\ stack'[t] = stack[t] /\ pc[t] = "make"
    BY <1>9 DEF MakeReturns, TypeOK
  <2>2. QED
    BY <1>0, <2>1, QuietPlace DEF Place
<1>10. QED
  BY <1>1, <1>2, <1>3, <1>4, <1>5, <1>6, <1>7, <1>8, <1>9

(* An operation starts at a place of its own.                              *)
LEMMA StartPlace ==
  ASSUME TypeOK, AtWork, Grows, NEW t \in Threads, NEW d \in Docs, StartOp(t, d)
  PROVE  Place(t)' /\ \A u \in Actors : u # t => Same(u)
<1>0. Place(t) /\ t \in Actors
  BY DEF AtWork, Actors
<1>1. CASE Fetch(t, d)
  <2>1. Begin(t, "lock", d) /\ "lock" \in States /\ stack' = stack
        /\ work' = work /\ arg' = arg /\ d \in made'
    BY <1>1 DEF Fetch, States
  <2>2. /\ pc'[t] = "lock" /\ doc'[t] = d
        /\ \A u \in Actors : u # t => pc'[u] = pc[u] /\ doc'[u] = doc[u]
    BY <1>0, <2>1, BeginTypes
  <2>3. QED
    BY <2>1, <2>2 DEF Place, Same
<1>2. CASE Touch(t, d)
  <2>1. Begin(t, "tlock", d) /\ "tlock" \in States /\ stack' = stack
        /\ work' = work /\ d \in made'
    BY <1>2 DEF Touch, States
  <2>2. /\ pc[t] = "idle" /\ pc'[t] = "tlock" /\ doc'[t] = d
        /\ \A u \in Actors : u # t => pc'[u] = pc[u] /\ doc'[u] = doc[u]
    BY <1>0, <2>1, BeginTypes
  <2>3. PICK a \in TouchArgs(d) : arg' = [arg EXCEPT ![t] = a]
    BY <1>2 DEF Touch
  <2>4. a # NULL => \/ Kind[d] = "datum" /\ a \in Nat
                    \/ Kind[d] = "file" /\ a \in Paths
    BY <2>3, ArgTypes
  <2>5. arg'[t] = a
    BY <1>0, <2>3 DEF TypeOK
  <2>6. stack'[t] = <<>> /\ \A u \in Actors : u # t => arg'[u] = arg[u]
    BY <1>0, <2>1, <2>2, <2>3 DEF Place
  <2>7. Place(t)'
    BY <2>1, <2>2, <2>4, <2>5, <2>6 DEF Place
  <2>8. QED
    BY <2>1, <2>2, <2>6, <2>7 DEF Same
<1>3. CASE Make(t, d)
  <2> DEFINE at == IF Kind[d] = "file" THEN "fileread" ELSE "make"
  <2>1. Begin(t, at, d) /\ at \in States /\ stack' = stack /\ arg' = arg
        /\ work' = [work EXCEPT ![t] = Ingr[d]] /\ made' = made
        /\ ToSet(Ingr[d]) \subseteq made
    BY <1>3 DEF Make, States
  <2>2. /\ pc[t] = "idle" /\ pc'[t] = at /\ doc'[t] = d
        /\ \A u \in Actors : u # t => pc'[u] = pc[u] /\ doc'[u] = doc[u]
    <3> HIDE DEF at
    <3>1. QED
      BY <1>0, <2>1, BeginTypes
  <2>3. work'[t] = Ingr[d] /\ \A u \in Actors : u # t => work'[u] = work[u]
    BY <1>0, <2>1 DEF TypeOK
  <2>4. stack'[t] = <<>>
    BY <1>0, <2>1, <2>2 DEF Place
  <2>5. QED
    BY <2>1, <2>2, <2>3, <2>4 DEF Place, Same
<1>4. QED
  BY <1>1, <1>2, <1>3 DEF StartOp

(* The police, and the world.                                              *)
LEMMA PolicePlace ==
  ASSUME TypeOK, AtWork, Police PROVE Place(Main)' /\ \A u \in Actors : u # Main => Same(u)
<1>0. Place(Main) /\ Main \in Actors
  BY DEF AtWork, Actors
<1>1. /\ pc[Main] \in {"idle", "police", "pinval"} /\ pc'[Main] \in {"idle", "police", "pinval"}
      /\ stack' = stack
      /\ \A u \in Actors : u # Main => Same(u)
  <2>1. CASE PoliceNode
    BY <1>0, <2>1 DEF PoliceNode, Same, TypeOK
  <2>2. QED
    BY <1>0, <2>1 DEF Police, StartPolice, PoliceInvalidated, PoliceDone, Same, TypeOK
<1>2. QED
  BY <1>0, <1>1, QuietPlace DEF Place

(* Every step keeps the threads at work.                                   *)
LEMMA AtWorkStep ==
  ASSUME TypeOK, LeafFields, Linked, AtWork, Callbacks, [Next]_vars PROVE AtWork'
<1>1. Monotone /\ Grows
  BY MonotoneStep, GrowsStep
<1>2. NULL \notin Actors
  BY ConstantsOK
<1>3. ASSUME NEW t \in Actors, Continue(t) PROVE AtWork'
  <2>1. Place(t)'
    BY <1>1, <1>3, FetchPlace, OtherPlace DEF Continue
  <2>2. ASSUME NEW u \in Actors, u # t PROVE Place(u)'
    <3>1. Same(u)
      BY <1>3, <2>2, OthersSame
    <3>2. \A d \in Docs : mutex[d] = u => mutex'[d] = u
      BY <1>2, <1>3, <2>2, OwnMutex
    <3>3. QED
      BY <1>1, <3>1, <3>2, SamePlace
  <2>3. QED
    BY <2>1, <2>2 DEF AtWork
<1>4. ASSUME NEW t \in Actors, Place(t)', \A u \in Actors : u # t => Same(u), mutex' = mutex
      PROVE  AtWork'
  BY <1>1, <1>4, SamePlace DEF AtWork
<1>5. ASSUME NEW t \in Threads, NEW d \in Docs, StartOp(t, d) PROVE AtWork'
  BY <1>1, <1>4, <1>5, StartPlace, OtherWriters DEF Actors, nodeVars
<1>6. CASE Police
  BY <1>1, <1>4, <1>6, PolicePlace, OtherWriters DEF Actors, nodeVars
<1>7. CASE (\E p \in Paths : WriteFile(p)) \/ Tick \/ UNCHANGED vars
  <2>1. mutex' = mutex /\ \A u \in Actors : Same(u)
    BY <1>7 DEF WriteFile, Tick, vars, Same, nodeVars, thrVars
  <2>2. QED
    BY <1>1, <2>1, SamePlace DEF AtWork
<1>8. QED
  BY <1>3, <1>5, <1>6, <1>7 DEF Next

-----------------------------------------------------------------------------
(* The callbacks.                                                          *)

(* What a callback gathered stays good while its document is locked.       *)
LEMMA KeptEntry ==
  ASSUME TypeOK, Monotone, NEW c \in made, mutex[c] # NULL,
         NEW e \in [leaf : Docs, path : Paths \cup {NULL}, ver : Nat],
         e.leaf \in MadeOf(c), Suspect(e) => Doomed(c)
  PROVE  Suspect(e)' => Doomed(c)'
<1>1. c \in Docs
  BY DEF TypeOK
<1>2. Suspect(e)' => Suspect(e) \/ Pending(c)'
  BY <1>1 DEF Monotone
<1>3. QED
  BY <1>2 DEF Monotone, Fetched, Doomed

(* A callback that is going to be called again still takes its caller      *)
(* along.                                                                  *)
LEMMA KeptDoom ==
  ASSUME TypeOK, Monotone, NEW p \in made, mutex[p] # NULL, NEW c \in MadeOf(p),
         Doomed(c) => Doomed(p)
  PROVE  Doomed(c)' => Doomed(p)'
<1>1. p \in Docs /\ c \in Docs
  BY MadeOfSelf DEF TypeOK
<1>2. Pending(c)' => Pending(p)'
  BY <1>1, PendingUp
<1>3. dirty'[c] => Doomed(p)'
  BY <1>1 DEF Monotone, Fetched
<1>4. QED
  BY <1>2, <1>3 DEF Doomed

(* A callback stays as it is ...                                           *)
LEMMA FrameKept ==
  ASSUME TypeOK, Monotone, Grows, NEW t \in Actors, NEW f \in CallFrame, NEW W,
         FrameOf(t, f, W), mutex'[f.doc] = t
  PROVE  FrameOf(t, f, W)'
<1>1. f.doc \in made /\ mutex[f.doc] # NULL /\ f.doc \in made'
  BY ConstantsOK DEF FrameOf, Grows
<1>2. ASSUME NEW e \in f.acc PROVE e.leaf \in MadeOf(f.doc) /\ (Suspect(e)' => Doomed(f.doc)')
  <2>1. e \in [leaf : Docs, path : Paths \cup {NULL}, ver : Nat]
    BY DEF CallFrame, Contents
  <2>2. e.leaf \in MadeOf(f.doc) /\ (Suspect(e) => Doomed(f.doc))
    BY DEF FrameOf
  <2>3. QED
    BY <1>1, <2>1, <2>2, KeptEntry
<1>3. QED
  BY <1>1, <1>2 DEF FrameOf

(* ... or receives what it waited for, v ...                               *)
LEMMA FrameYields ==
  ASSUME TypeOK, Monotone, Grows, NEW t \in Actors, NEW f \in CallFrame, NEW W,
         FrameOf(t, f, W), mutex'[f.doc] = t, NEW v \in Contents,
         \A e \in v : e.leaf \in MadeOf(f.doc) /\ (Suspect(e)' => Doomed(f.doc)'),
         \A c \in W : \A l \in LeavesOf[c] : \E e \in v : e.leaf = l,
         NEW g, g.doc = f.doc, g.todo = f.todo, g.acc = f.acc \cup v
  PROVE  FrameOf(t, g, {})'
<1>1. FrameOf(t, f, W)'
  BY FrameKept
<1>2. f.doc \in Docs /\ W \subseteq Docs
  BY Ingredients DEF CallFrame, FrameOf
<1>3. \A e \in g.acc : e.leaf \in MadeOf(g.doc) /\ (Suspect(e)' => Doomed(g.doc)')
  BY <1>1 DEF FrameOf
<1>4. ASSUME NEW l \in LeavesOf[g.doc]
      PROVE  \/ \E e \in g.acc : e.leaf = l
             \/ \E c \in ToSet(g.todo) : l \in MadeOf(c)
  <2>1. Leaf(l)
    BY <1>2 DEF LeavesOf
  <2>2. CASE \E c \in W : l \in MadeOf(c)
    <3>1. PICK c \in W : l \in MadeOf(c)
      BY <2>2
    <3>2. l \in LeavesOf[c]
      BY <1>2, <2>1, <3>1 DEF LeavesOf
    <3>3. QED
      BY <3>1, <3>2
  <2>3. CASE ~(\E c \in W : l \in MadeOf(c))
    BY <1>4, <2>3 DEF FrameOf
  <2>4. QED
    BY <2>2, <2>3
<1>5. QED
  BY <1>1, <1>3, <1>4 DEF FrameOf

(* ... or goes on to its next ingredient.                                  *)
LEMMA FrameNext ==
  ASSUME TypeOK, Monotone, Grows, NEW t \in Actors, NEW f \in CallFrame,
         FrameOf(t, f, {}), mutex'[f.doc] = t, f.todo # <<>>,
         NEW g, g.doc = f.doc, g.todo = Tail(f.todo), g.acc = f.acc
  PROVE  FrameOf(t, g, {Head(f.todo)})'
<1>1. FrameOf(t, f, {})'
  BY FrameKept
<1>2. ToSet(f.todo) = {Head(f.todo)} \cup ToSet(Tail(f.todo))
  BY SplitList DEF CallFrame
<1>3. QED
  BY <1>1, <1>2 DEF FrameOf

(* Callbacks st that wait for each other.                                  *)
Waiting(t, st) ==
  /\ \A i \in 1 .. Len(st) : st[i].doc \in made /\ mutex[st[i].doc] = t
  /\ \A i \in 2 .. Len(st) : FrameOf(t, st[i], {st[i - 1].doc})
  /\ \A i, j \in 1 .. Len(st) : i < j => st[i].doc \in Under(st[j].doc)
  /\ \A i \in 1 .. Len(st) - 1 : Doomed(st[i].doc) => Doomed(st[i + 1].doc)

LEMMA WaitingStack ==
  ASSUME TypeOK, Callbacks, NEW t \in Actors
  PROVE  /\ Waiting(t, stack[t])
         /\ stack[t] # <<>> => Waiting(t, Tail(stack[t]))
<1> DEFINE s == stack[t]
<1>1. s \in Seq(CallFrame)
  BY DEF TypeOK
<1>2. /\ \A i \in 1 .. Len(s) : FrameOf(t, s[i], Fetching(t, i))
      /\ \A i \in 1 .. Len(s) : i > 1 => Fetching(t, i) = {s[i - 1].doc}
      /\ \A i, j \in 1 .. Len(s) : i < j => s[i].doc \in Under(s[j].doc)
      /\ \A i \in 1 .. Len(s) - 1 : Doomed(s[i].doc) => Doomed(s[i + 1].doc)
  BY DEF Callbacks, FrameOK, Nested, Fetching
<1> HIDE DEF s
<1>3. \A i \in 1 .. Len(s) : s[i].doc \in made /\ mutex[s[i].doc] = t
  BY <1>2 DEF FrameOf
<1>4. \A i \in 2 .. Len(s) : FrameOf(t, s[i], {s[i - 1].doc})
  <2> TAKE i \in 2 .. Len(s)
  <2>1. i \in 1 .. Len(s) /\ i > 1
    BY <1>1
  <2>2. QED
    BY <1>2, <2>1
<1>5. Waiting(t, s)
  BY <1>2, <1>3, <1>4 DEF Waiting
<1>6. ASSUME s # <<>> PROVE Waiting(t, Tail(s))
  <2> DEFINE r == Tail(s)
  <2>1. /\ Len(r) = Len(s) - 1 /\ Len(s) \in Nat \ {0}
        /\ \A i \in 1 .. Len(s) - 1 : r[i] = s[i + 1]
    BY <1>1, <1>6, CdrList
  <2> HIDE DEF r
  <2>2. \A i \in 1 .. Len(r) : r[i] = s[i + 1] /\ i + 1 \in 1 .. Len(s)
    BY <2>1
  <2>3. \A i \in 1 .. Len(r) : r[i].doc \in made /\ mutex[r[i].doc] = t
    BY <1>3, <2>2
  <2>4. \A i \in 2 .. Len(r) : FrameOf(t, r[i], {r[i - 1].doc})
    <3> TAKE i \in 2 .. Len(r)
    <3>1. /\ r[i] = s[i + 1] /\ i - 1 \in 1 .. Len(r) /\ r[i - 1] = s[(i - 1) + 1]
          /\ i + 1 \in 2 .. Len(s) /\ (i + 1) - 1 = i /\ (i - 1) + 1 = i
      BY <2>1, <2>2
    <3>2. FrameOf(t, s[i + 1], {s[(i + 1) - 1].doc})
      BY <1>4, <3>1
    <3>3. QED
      BY <3>1, <3>2
  <2>5. ASSUME NEW i \in 1 .. Len(r), NEW j \in 1 .. Len(r), i < j
        PROVE  r[i].doc \in Under(r[j].doc)
    <3>1. i + 1 < j + 1
      BY <2>1, <2>5
    <3>2. QED
      BY <1>2, <2>2, <3>1
  <2>6. ASSUME NEW i \in 1 .. Len(r) - 1 PROVE Doomed(r[i].doc) => Doomed(r[i + 1].doc)
    <3>1. i \in 1 .. Len(r) /\ i + 1 \in 1 .. Len(r) /\ i + 1 \in 1 .. Len(s) - 1
      BY <2>1
    <3>2. r[i] = s[i + 1] /\ r[i + 1] = s[(i + 1) + 1]
      BY <2>2, <3>1
    <3>3. QED
      BY <1>2, <3>1, <3>2
  <2>7. Waiting(t, r)
    BY <2>3, <2>4, <2>5, <2>6 DEF Waiting
  <2>8. QED
    BY <2>7 DEF r
<1>7. QED
  BY <1>5, <1>6 DEF s

Sound(t) == (\A i \in 1 .. Len(stack[t]) : FrameOK(t, i)) /\ Nested(t)

(* Callbacks st go on waiting while the first of them goes on, too.        *)
LEMMA StackKept ==
  ASSUME TypeOK, Monotone, Grows, NEW t \in Actors, NEW st \in Seq(CallFrame),
         Waiting(t, st), \A i \in 1 .. Len(st) : mutex'[st[i].doc] = t,
         Len(stack'[t]) = Len(st),
         \A i \in 2 .. Len(st) : stack'[t][i] = st[i],
         st # <<>> => stack'[t][1].doc = st[1].doc /\ FrameOK(t, 1)'
  PROVE  Sound(t)'
<1> DEFINE s == stack'[t]
<1> DEFINE n == Len(st)
<1>0. n \in Nat /\ (st # <<>> => n \in Nat \ {0}) /\ NULL \notin Actors
  BY ConstantsOK
<1>1. /\ \A i \in 1 .. n : st[i].doc \in made /\ st[i].doc \in Docs /\ mutex[st[i].doc] # NULL
      /\ \A i, j \in 1 .. n : i < j => st[i].doc \in Under(st[j].doc)
      /\ \A i \in 1 .. n - 1 : Doomed(st[i].doc) => Doomed(st[i + 1].doc)
  BY <1>0 DEF Waiting, TypeOK
<1>2. \A i \in 1 .. n : s[i].doc = st[i].doc
  <2> TAKE i \in 1 .. n
  <2>1. CASE i = 1
    BY <2>1, <1>0
  <2>2. CASE i # 1
    <3>1. i \in 2 .. n
      BY <1>0, <2>2
    <3>2. QED
      BY <3>1
  <2>3. QED
    BY <2>1, <2>2
<1>3. ASSUME NEW i \in 1 .. n PROVE FrameOK(t, i)'
  <2>1. CASE i = 1
    BY <1>0, <2>1
  <2>2. CASE i # 1
    <3>1. i \in 2 .. n /\ i - 1 \in 1 .. n /\ i > 1
      BY <1>0, <2>2
    <3>2. FrameOf(t, st[i], {st[i - 1].doc}) /\ mutex'[st[i].doc] = t /\ st[i] \in CallFrame
      <4>1. FrameOf(t, st[i], {st[i - 1].doc})
        BY <3>1 DEF Waiting
      <4>2. QED
        BY <1>3, <4>1
    <3>3. FrameOf(t, st[i], {st[i - 1].doc})'
      BY <3>2, FrameKept
    <3>4. stack'[t][i] = st[i] /\ stack'[t][i - 1].doc = st[i - 1].doc
      BY <1>2, <3>1
    <3>5. Fetching(t, i)' = {st[i - 1].doc}
      BY <3>1, <3>4 DEF Fetching
    <3>6. QED
      BY <3>3, <3>4, <3>5 DEF FrameOK
  <2>3. QED
    BY <2>1, <2>2
<1>4. \A i, j \in 1 .. n : i < j => s[i].doc \in Under(s[j].doc)
  BY <1>1, <1>2
<1>5. ASSUME NEW i \in 1 .. n - 1, NEW c, NEW p, c = st[i].doc, p = st[i + 1].doc
      PROVE  Doomed(c)' => Doomed(p)'
  <2>1. i \in 1 .. n /\ i + 1 \in 1 .. n /\ i < i + 1
    BY <1>0
  <2>2. /\ p \in made /\ mutex[p] # NULL /\ c \in Under(p) /\ p \in Docs
        /\ Doomed(c) => Doomed(p)
    BY <1>1, <1>5, <2>1
  <2>3. c \in MadeOf(p)
    BY <2>2, MadeOfSplit
  <2>4. QED
    BY <2>2, <2>3, KeptDoom
<1>6. \A i \in 1 .. n - 1 : s[i].doc = st[i].doc /\ s[i + 1].doc = st[i + 1].doc
  BY <1>0, <1>2
<1>7. \A i \in 1 .. Len(stack'[t]) - 1 :
        Doomed(stack[t][i].doc)' => Doomed(stack[t][i + 1].doc)'
  BY <1>5, <1>6
<1>8. ASSUME pc'[t] \in {"lock", "load"}, NEW i \in 1 .. n
      PROVE  doc'[t] \in Under(s[i].doc)
  <2>1. 1 \in 1 .. n /\ st # <<>>
    BY <1>0
  <2>2. doc'[t] \in ToSet(Ingr[st[1].doc])
    <3>1. Fetching(t, 1)' = {doc'[t]}
      BY <1>8 DEF Fetching
    <3>2. FrameOf(t, stack[t][1], Fetching(t, 1))'
      BY <2>1 DEF FrameOK
    <3>3. Fetching(t, 1)' \subseteq ToSet(Ingr[stack'[t][1].doc])
      BY <3>2 DEF FrameOf
    <3>4. QED
      BY <2>1, <3>1, <3>3
  <2>3. doc'[t] \in Under(st[1].doc) /\ doc'[t] \in MadeOf(st[1].doc)
    BY <1>1, <2>1, <2>2, UnderFacts, MadeOfStep
  <2>4. i = 1 \/ st[1].doc \in Under(st[i].doc)
    BY <1>0, <1>1, <2>1
  <2>5. doc'[t] \in Under(st[i].doc)
    BY <1>1, <2>3, <2>4, UnderFacts
  <2>6. QED
    BY <1>2, <2>5
<1>9. Nested(t)'
  BY <1>4, <1>7, <1>8 DEF Nested
<1>10. (\A i \in 1 .. Len(stack[t]) : FrameOK(t, i))'
  BY <1>3
<1>11. QED
  BY <1>9, <1>10 DEF Sound

(* No callbacks.                                                           *)
LEMMA NoStack ==
  ASSUME NEW t \in Actors, stack'[t] = <<>> PROVE Sound(t)'
BY DEF Sound, Nested

(* A thread whose stack does not change.                                   *)
LEMMA SameStack ==
  ASSUME TypeOK, Callbacks, Monotone, Grows, NEW t \in Actors,
         stack'[t] = stack[t], doc'[t] = doc[t],
         pc'[t] = "callback" <=> pc[t] = "callback",
         \A d \in Docs : mutex[d] = t => mutex'[d] = t
  PROVE  Sound(t)'
<1> DEFINE s == stack[t]
<1>1. s \in Seq(CallFrame) /\ Waiting(t, s)
  <2>1. s \in Seq(CallFrame)
    BY DEF TypeOK
  <2>2. Waiting(t, s)
    BY WaitingStack
  <2>3. QED
    BY <2>1, <2>2
<1>2. \A i \in 1 .. Len(s) : mutex'[s[i].doc] = t
  BY <1>1 DEF Waiting, TypeOK
<1>3. ASSUME s # <<>> PROVE FrameOK(t, 1)'
  <2>1. 1 \in 1 .. Len(s) /\ s[1] \in CallFrame
    BY <1>1, <1>3
  <2>2. FrameOf(t, s[1], Fetching(t, 1)) /\ mutex'[s[1].doc] = t
    BY <1>2, <2>1 DEF Callbacks, FrameOK
  <2>3. PICK f \in CallFrame : f = s[1]
    BY <2>1
  <2>4. PICK W : W = Fetching(t, 1)
    OBVIOUS
  <2>5. FrameOf(t, f, W)'
    BY <2>2, <2>3, <2>4, FrameKept
  <2>6. Fetching(t, 1)' = W /\ stack'[t][1] = f
    BY <2>3, <2>4 DEF Fetching
  <2>7. QED
    BY <2>5, <2>6 DEF FrameOK
<1>4. QED
  <2> HIDE DEF s
  <2>1. Len(stack'[t]) = Len(s) /\ \A i \in 1 .. Len(s) : stack'[t][i] = s[i]
    BY DEF s
  <2>2. /\ \A i \in 2 .. Len(s) : stack'[t][i] = s[i]
        /\ s # <<>> => stack'[t][1].doc = s[1].doc
    BY <1>1, <2>1
  <2>3. QED
    BY <1>1, <1>2, <1>3, <2>1, <2>2, StackKept

(* A thread that yields v to the callbacks st, which waited for W.         *)
LEMMA YieldStack ==
  ASSUME TypeOK, Monotone, Grows, NEW t \in Actors, NEW st \in Seq(CallFrame),
         NEW v \in Contents, NEW W, Yield(t, st, v), Waiting(t, st),
         \A i \in 1 .. Len(st) : mutex'[st[i].doc] = t,
         st # <<>> =>
           /\ FrameOf(t, st[1], W)
           /\ \A e \in v : e.leaf \in MadeOf(st[1].doc)
                           /\ (Suspect(e)' => Doomed(st[1].doc)')
           /\ \A c \in W : \A l \in LeavesOf[c] : \E e \in v : e.leaf = l
  PROVE  Sound(t)'
<1>1. CASE st = <<>>
  BY <1>1, YieldFacts, NoStack
<1>2. CASE st # <<>>
  <2>1. /\ pc'[t] = "callback" /\ Len(stack'[t]) = Len(st)
        /\ stack'[t][1].doc = st[1].doc /\ stack'[t][1].todo = st[1].todo
        /\ stack'[t][1].acc = st[1].acc \cup v
        /\ \A i \in 2 .. Len(st) : stack'[t][i] = st[i]
    BY <1>2, YieldFacts
  <2>2. 1 \in 1 .. Len(st) /\ st[1] \in CallFrame
    BY <1>2
  <2>3. PICK g : g = stack'[t][1]
    OBVIOUS
  <2>4. g.doc = st[1].doc /\ g.todo = st[1].todo /\ g.acc = st[1].acc \cup v
    BY <2>1, <2>3
  <2>5. FrameOf(t, g, {})'
    BY <1>2, <2>2, <2>4, FrameYields
  <2>6. Fetching(t, 1)' = {}
    BY <2>1 DEF Fetching
  <2>7. FrameOK(t, 1)'
    BY <2>3, <2>5, <2>6 DEF FrameOK
  <2>8. QED
    BY <2>1, <2>7, StackKept
<1>3. QED
  BY <1>1, <1>2

(* A leaf whose mutex is free, or held by a thread that loads it, is not   *)
(* being touched.                                                          *)
LEMMA NotTouched ==
  ASSUME AtWork, NEW d \in Docs, NEW t \in Actors,
         mutex[d] = NULL \/ (mutex[d] = t /\ pc[t] # "touch")
  PROVE  ~Touched(d)
BY ConstantsOK DEF Touched, AtWork, Place

(* fetch-doc returns a document as it is: a suspect one only to callers    *)
(* that are going to be called again.                                      *)
LEMMA CleanCallbacks ==
  ASSUME TypeOK, LeafFields, Linked, AtWork, Callbacks, PayloadsGood,
         Monotone, Grows, NEW t \in Actors, FetchClean(t)
  PROVE  Sound(t)'
<1> DEFINE s == stack[t]
<1> DEFINE d == doc[t]
<1> DEFINE v == payload[d]
<1>1. /\ pc[t] = "lock" /\ d \in made /\ d \in Docs /\ ~dirty[d] /\ mutex[d] = NULL
      /\ mutex' = mutex /\ Yield(t, s, v)
  BY DEF FetchClean, AtWork, Place, TypeOK, nodeVars
<1>2. s \in Seq(CallFrame) /\ v \in Contents /\ Waiting(t, s)
  BY <1>1, WaitingStack DEF TypeOK
<1>3. \A i \in 1 .. Len(s) : mutex'[s[i].doc] = t
  BY <1>1, <1>2 DEF Waiting
<1>4. ASSUME s # <<>>
      PROVE  /\ FrameOf(t, s[1], {d}) /\ d \in MadeOf(s[1].doc)
             /\ s[1].doc \in made /\ s[1].doc \in Docs /\ mutex[s[1].doc] = t
  <2>1. 1 \in 1 .. Len(s) /\ Fetching(t, 1) = {d}
    BY <1>1, <1>2, <1>4 DEF Fetching
  <2>2. FrameOf(t, s[1], {d})
    BY <2>1 DEF Callbacks, FrameOK
  <2>3. s[1].doc \in made /\ d \in ToSet(Ingr[s[1].doc]) /\ mutex[s[1].doc] = t
    BY <2>2 DEF FrameOf
  <2>4. QED
    BY <2>2, <2>3, MadeOfStep DEF TypeOK
<1>5. ASSUME s # <<>>, NEW e \in v, NEW p, p = s[1].doc
      PROVE  e.leaf \in MadeOf(p) /\ (Suspect(e)' => Doomed(p)')
  <2>1. /\ e \in [leaf : Docs, path : Paths \cup {NULL}, ver : Nat]
        /\ p \in made /\ p \in Docs /\ d \in MadeOf(p) /\ mutex[p] = t /\ t # NULL
    BY <1>2, <1>4, <1>5, ConstantsOK DEF Contents
  <2>2. e.leaf \in MadeOf(d) /\ (Suspect(e) => Pending(d))
    BY <1>1, <1>5 DEF PayloadsGood, Doomed
  <2>3. e.leaf \in MadeOf(p) /\ (Suspect(e) => Doomed(p))
    BY <2>1, <2>2, MadeOfTrans, PendingUp DEF Doomed
  <2>4. QED
    BY <2>1, <2>3, KeptEntry
<1>6. \A l \in LeavesOf[d] : \E e \in v : e.leaf = l
  BY <1>1 DEF PayloadsGood
<1>7. QED
  <2> HIDE DEF s, v
  <2>1. PICK st \in Seq(CallFrame) : st = s
    BY <1>2
  <2>2. PICK W : W = {d}
    OBVIOUS
  <2>3. st # <<>> =>
          /\ FrameOf(t, st[1], W)
          /\ \A e \in v : e.leaf \in MadeOf(st[1].doc)
                          /\ (Suspect(e)' => Doomed(st[1].doc)')
          /\ \A c \in W : \A l \in LeavesOf[c] : \E e \in v : e.leaf = l
    BY <1>4, <1>5, <1>6, <2>1, <2>2
  <2>4. QED
    BY <1>1, <1>2, <1>3, <2>1, <2>3, YieldStack

(* A leaf that was just read is not suspect.                               *)
LEMMA LeafCallbacks ==
  ASSUME TypeOK, LeafFields, AtWork, Callbacks, Monotone, Grows, AllStill,
         NEW t \in Actors, NEW d \in Docs, Leaf(d), d = doc[t],
         pc[t] \in {"lock", "load"}, ~Touched(d),
         NEW x \in [leaf : Docs, path : Paths \cup {NULL}, ver : Nat],
         x.leaf = d, Current(x), Yield(t, stack[t], {x}),
         \A c \in Docs : mutex[c] = t /\ c # d => mutex'[c] = t
  PROVE  Sound(t)'
<1> DEFINE s == stack[t]
<1>1. s \in Seq(CallFrame) /\ Waiting(t, s) /\ {x} \in Contents
  <2>1. s \in Seq(CallFrame)
    BY DEF TypeOK
  <2>2. Waiting(t, s)
    BY WaitingStack
  <2>3. {x} \in Contents
    BY DEF Contents
  <2>4. QED
    BY <2>1, <2>2, <2>3
<1>2. \A i \in 1 .. Len(s) : /\ mutex'[s[i].doc] = t
                             /\ FrameOf(t, s[i], Fetching(t, i))
  <2> TAKE i \in 1 .. Len(s)
  <2>1. FrameOf(t, s[i], Fetching(t, i)) /\ s[i] \in CallFrame
    BY <1>1 DEF Callbacks, FrameOK
  <2>2. s[i].doc \in Docs /\ mutex[s[i].doc] = t /\ s[i].doc # d
    BY <2>1 DEF FrameOf, Leaf, CallFrame
  <2>3. QED
    BY <2>1, <2>2
<1>3. Fetching(t, 1) = {d}
  BY DEF Fetching
<1>4. ~Suspect(x)'
  BY StillFacts DEF Suspect
<1>5. ASSUME s # <<>> PROVE FrameOf(t, s[1], {d}) /\ d \in MadeOf(s[1].doc)
  <2>0. 1 \in 1 .. Len(s) /\ s[1] \in CallFrame
    BY <1>1, <1>5
  <2>1. FrameOf(t, s[1], {d}) /\ s[1] \in CallFrame
    BY <1>2, <1>3, <2>0
  <2>2. s[1].doc \in Docs /\ d \in ToSet(Ingr[s[1].doc])
    BY <2>1 DEF FrameOf, CallFrame
  <2>3. QED
    BY <2>1, <2>2, MadeOfStep
<1>6. \A l \in LeavesOf[d] : \E e \in {x} : e.leaf = l
  BY MadeOfLeaf
<1>7. QED
  <2> HIDE DEF s
  <2>1. PICK st \in Seq(CallFrame) : st = s
    BY <1>1
  <2>2. PICK W : W = {d}
    OBVIOUS
  <2>3. PICK v \in Contents : v = {x}
    BY <1>1
  <2>4. st # <<>> =>
          /\ FrameOf(t, st[1], W)
          /\ \A e \in v : e.leaf \in MadeOf(st[1].doc)
                          /\ (Suspect(e)' => Doomed(st[1].doc)')
          /\ \A c \in W : \A l \in LeavesOf[c] : \E e \in v : e.leaf = l
    BY <1>4, <1>5, <1>6, <2>1, <2>2, <2>3
  <2>5. Yield(t, st, v)
    BY <2>1, <2>3 DEF s
  <2>6. QED
    BY <1>1, <1>2, <2>1, <2>4, <2>5, YieldStack

(* A callback begins: its caller waits for it.                             *)
LEMMA PushCallbacks ==
  ASSUME TypeOK, Callbacks, Monotone, Grows, NEW t \in Actors,
         NEW d \in made, Kind[d] = "chain", d = doc[t], pc[t] = "lock",
         pc'[t] = "callback", ~dirty'[d],
         mutex' = [mutex EXCEPT ![d] = t],
         stack' = [stack EXCEPT ![t] =
                     <<[doc |-> d, todo |-> Ingr[d], acc |-> {}]>> \o @]
  PROVE  Sound(t)'
<1> DEFINE s == stack[t]
<1> DEFINE n == Len(s)
<1> DEFINE f == [doc |-> d, todo |-> Ingr[d], acc |-> {}]
<1>0. d \in Docs /\ NULL \notin Actors
  BY ConstantsOK DEF TypeOK
<1>1. s \in Seq(CallFrame) /\ Waiting(t, s) /\ n \in Nat
  <2>1. s \in Seq(CallFrame)
    BY DEF TypeOK
  <2>2. Waiting(t, s)
    BY WaitingStack
  <2>3. n \in Nat
    BY <2>1
  <2>4. QED
    BY <2>1, <2>2, <2>3
<1>2. /\ Len(stack'[t]) = n + 1 /\ stack'[t][1] = f
      /\ \A i \in 2 .. n + 1 : stack'[t][i] = s[i - 1]
  BY <1>0, PushFacts
<1>3. \A c \in Docs : mutex[c] = t \/ c = d => mutex'[c] = t
  BY <1>0 DEF TypeOK
<1>4. /\ \A i \in 1 .. n : FrameOf(t, s[i], Fetching(t, i))
      /\ \A i \in 1 .. n : d \in Under(s[i].doc)
      /\ \A i, j \in 1 .. n : i < j => s[i].doc \in Under(s[j].doc)
      /\ \A i \in 1 .. n - 1 : Doomed(s[i].doc) => Doomed(s[i + 1].doc)
      /\ \A i \in 1 .. n : s[i] \in CallFrame
  <2>1. (\A i \in 1 .. n : FrameOK(t, i)) /\ Nested(t)
    BY DEF Callbacks
  <2>2. \A i \in 1 .. n : FrameOf(t, s[i], Fetching(t, i))
    BY <2>1 DEF FrameOK
  <2>3. \A i \in 1 .. n : s[i] \in CallFrame
    BY <1>1
  <2>4. QED
    BY <2>1, <2>2, <2>3 DEF Nested
<1>5. \A i \in 1 .. n : s[i].doc \in made /\ s[i].doc \in Docs /\ mutex[s[i].doc] = t
  BY <1>4 DEF FrameOf, TypeOK
<1>6. FrameOf(t, f, {})'
  <2>1. f.doc = d /\ f.todo = Ingr[d] /\ f.acc = {}
    OBVIOUS
  <2>2. ~Leaf(d)
    BY DEF Leaf
  <2>3. \A l \in LeavesOf[d] : \E e \in ToSet(Ingr[d]) : l \in MadeOf(e)
    BY <1>0, <2>2, LeavesSplit
  <2>4. d \in made' /\ mutex'[d] = t
    BY <1>0, <1>3 DEF Grows
  <2> HIDE DEF f
  <2>5. QED
    BY <2>1, <2>3, <2>4 DEF FrameOf
<1> HIDE DEF f, s
<1>7. FrameOK(t, 1)'
  <2>1. Fetching(t, 1)' = {}
    BY DEF Fetching
  <2>2. QED
    BY <1>2, <1>6, <2>1 DEF FrameOK
<1>8. ASSUME NEW i \in 2 .. n + 1 PROVE FrameOK(t, i)'
  <2>1. i - 1 \in 1 .. n /\ i > 1
    BY <1>1
  <2>2. PICK g \in CallFrame : g = s[i - 1]
    BY <1>4, <2>1
  <2>3. PICK W : W = Fetching(t, i - 1)
    OBVIOUS
  <2>4. FrameOf(t, g, W)'
    BY <1>3, <1>4, <1>5, <2>1, <2>2, <2>3, FrameKept
  <2>5. Fetching(t, i)' = W
    <3>1. Fetching(t, i)' = {stack'[t][i - 1].doc}
      BY <2>1 DEF Fetching
    <3>2. CASE i = 2
      <4>1. stack'[t][i - 1].doc = d
        BY <1>2, <3>2 DEF f
      <4>2. W = {d}
        BY <2>3, <3>2 DEF Fetching
      <4>3. QED
        BY <3>1, <4>1, <4>2
    <3>3. CASE i # 2
      <4>1. i - 1 \in 2 .. n + 1 /\ i - 1 > 1
        BY <1>1, <3>3
      <4>2. stack'[t][i - 1] = s[(i - 1) - 1]
        BY <1>2, <4>1
      <4>3. W = {s[(i - 1) - 1].doc}
        BY <2>3, <4>1 DEF Fetching, s
      <4>4. QED
        BY <3>1, <4>2, <4>3
    <3>4. QED
      BY <3>2, <3>3
  <2>6. stack'[t][i] = g
    BY <1>2, <2>2
  <2>7. QED
    BY <2>4, <2>5, <2>6 DEF FrameOK
<1>9. ASSUME NEW i \in 1 .. n + 1, NEW j \in 1 .. n + 1, i < j
      PROVE  stack'[t][i].doc \in Under(stack'[t][j].doc)
  <2>1. j \in 2 .. n + 1 /\ j - 1 \in 1 .. n
    BY <1>1, <1>9
  <2>2. CASE i = 1
    <3>1. stack'[t][i].doc = d
      BY <1>2, <2>2 DEF f
    <3>2. QED
      BY <1>2, <1>4, <2>1, <3>1
  <2>3. CASE i # 1
    <3>1. i \in 2 .. n + 1 /\ i - 1 \in 1 .. n /\ i - 1 < j - 1
      BY <1>1, <1>9, <2>3
    <3>2. QED
      BY <1>2, <1>4, <2>1, <3>1
  <2>4. QED
    BY <2>2, <2>3
<1>10. ASSUME NEW i \in 1 .. n, NEW c, NEW p,
              c = stack'[t][i].doc, p = stack'[t][i + 1].doc
       PROVE  Doomed(c)' => Doomed(p)'
  <2>1. i + 1 \in 2 .. n + 1 /\ (i + 1) - 1 = i
    BY <1>1
  <2>2. p = s[i].doc
    BY <1>2, <1>10, <2>1
  <2>3. p \in made /\ p \in Docs /\ mutex[p] # NULL
    BY <1>0, <1>5, <2>2
  <2>4. CASE i = 1
    <3>1. c = d /\ c \in Under(p)
      BY <1>2, <1>4, <1>10, <2>2, <2>4 DEF f
    <3>2. c \in MadeOf(p)
      BY <2>3, <3>1, MadeOfSplit
    <3>3. Doomed(c)' => Pending(c)'
      BY <3>1 DEF Doomed
    <3>4. Pending(c)' => Pending(p)'
      BY <2>3, <3>2, PendingUp
    <3>5. QED
      BY <3>3, <3>4 DEF Doomed
  <2>5. CASE i # 1
    <3>1. i \in 2 .. n + 1 /\ i - 1 \in 1 .. n - 1 /\ (i - 1) + 1 = i /\ i - 1 \in 1 .. n
          /\ i - 1 < i
      BY <1>1, <2>5
    <3>2. c = s[i - 1].doc
      BY <1>2, <1>10, <3>1
    <3>3. Doomed(c) => Doomed(p)
      BY <1>4, <2>2, <3>1, <3>2
    <3>4. c \in Under(p)
      BY <1>4, <2>2, <3>1, <3>2
    <3>5. c \in MadeOf(p)
      BY <2>3, <3>4, MadeOfSplit
    <3>6. QED
      BY <2>3, <3>3, <3>5, KeptDoom
  <2>6. QED
    BY <2>4, <2>5
<1>11. \A i \in 1 .. Len(stack'[t]) - 1 :
         Doomed(stack[t][i].doc)' => Doomed(stack[t][i + 1].doc)'
  <2>1. Len(stack'[t]) - 1 = n
    BY <1>1, <1>2
  <2> TAKE i \in 1 .. Len(stack'[t]) - 1
  <2>2. PICK c : c = stack'[t][i].doc
    OBVIOUS
  <2>3. PICK p : p = stack'[t][i + 1].doc
    OBVIOUS
  <2>4. Doomed(c)' => Doomed(p)'
    BY <1>10, <2>1, <2>2, <2>3
  <2>5. QED
    BY <2>2, <2>3, <2>4
<1>12. Nested(t)'
  BY <1>2, <1>9, <1>11 DEF Nested
<1>13. ASSUME NEW i \in 1 .. Len(stack'[t]) PROVE FrameOK(t, i)'
  <2>1. i = 1 \/ i \in 2 .. n + 1
    BY <1>1, <1>2
  <2>2. QED
    BY <1>7, <1>8, <2>1
<1>14. QED
  BY <1>12, <1>13 DEF Sound

(* fetch-doc neither marks nor touches.                                    *)
LEMMA FetchStill ==
  ASSUME TypeOK, AtWork, NEW t \in Actors, FetchDirty(t) \/ load_from_file(t)
  PROVE  AllStill
<1>1. ~TouchLock(t) /\ ~invalidate(t) /\ ~TouchStore(t)
  BY DEF FetchDirty, load_from_file, TouchLock, invalidate, TouchStore
<1>2. QED
  BY <1>1, StillThread DEF Continue

(* The document is dirty: what happens depends on its kind.                *)
LEMMA DirtyCallbacks ==
  ASSUME TypeOK, LeafFields, AtWork, Callbacks, Monotone, Grows,
         NEW t \in Actors, FetchDirty(t)
  PROVE  Sound(t)'
<1>1. PICK d \in made : d = doc[t]
  BY DEF FetchDirty, AtWork, Place
<1>2. d \in Docs /\ mutex[d] = NULL /\ pc[t] = "lock" /\ AllStill
  BY <1>1, FetchStill DEF FetchDirty, TypeOK
<1>3. Kind[d] \in {"datum", "file", "chain"}
  BY <1>2, ConstantsOK
<1>4. CASE Kind[d] = "datum"
  <2>1. Yield(t, stack[t], payload[d]) /\ mutex' = mutex
    BY <1>1, <1>4 DEF FetchDirty
  <2>2. PICK x : x = Entry(d, NULL, told[d][2])
    OBVIOUS
  <2>3. payload[d] = {x} /\ told[d][1] = NULL /\ told[d][2] \in Nat
    BY <1>2, <1>4, <2>2 DEF LeafFields, TypeOK
  <2>4. x \in [leaf : Docs, path : Paths \cup {NULL}, ver : Nat] /\ x.leaf = d
    BY <1>2, <2>2, <2>3 DEF Entry
  <2>5. Current(x)
    BY <2>2, <2>3 DEF Current, Entry
  <2>6. ~Touched(d) /\ Leaf(d)
    BY <1>2, <1>4, NotTouched DEF Leaf
  <2>7. QED
    BY <1>1, <1>2, <2>1, <2>3, <2>4, <2>5, <2>6, LeafCallbacks
<1>5. CASE Kind[d] = "file"
  <2>1. /\ mutex' = [mutex EXCEPT ![d] = t] /\ stack' = stack
        /\ pc' = [pc EXCEPT ![t] = "load"] /\ doc' = doc
    BY <1>1, <1>5 DEF FetchDirty
  <2>2. \A c \in Docs : mutex[c] = t => mutex'[c] = t
    BY <2>1 DEF TypeOK
  <2>3. pc'[t] = "callback" <=> pc[t] = "callback"
    BY <1>2, <2>1 DEF TypeOK
  <2>4. QED
    BY <2>1, <2>2, <2>3, SameStack
<1>6. CASE Kind[d] = "chain"
  <2>1. /\ mutex' = [mutex EXCEPT ![d] = t]
        /\ stack' = [stack EXCEPT ![t] =
                       <<[doc |-> d, todo |-> Ingr[d], acc |-> {}]>> \o @]
        /\ pc' = [pc EXCEPT ![t] = "callback"]
        /\ dirty' = [dirty EXCEPT ![d] = FALSE]
    BY <1>1, <1>6 DEF FetchDirty
  <2>2. pc'[t] = "callback" /\ ~dirty'[d]
    BY <1>2, <2>1 DEF TypeOK
  <2>3. QED
    BY <1>1, <1>2, <1>6, <2>1, <2>2, PushCallbacks
<1>7. QED
  BY <1>3, <1>4, <1>5, <1>6

(* A file is read: it is what the cache was told, or newer.                *)
LEMMA LoadCallbacks ==
  ASSUME TypeOK, LeafFields, AtWork, Callbacks, Monotone, Grows,
         NEW t \in Actors, load_from_file(t)
  PROVE  Sound(t)'
<1>1. PICK d \in made : d = doc[t]
  BY DEF load_from_file, AtWork, Place
<1>2. /\ d \in Docs /\ Kind[d] = "file" /\ mutex[d] = t /\ pc[t] = "load" /\ AllStill
      /\ mutex' = [mutex EXCEPT ![d] = NULL]
  BY <1>1, FetchStill DEF load_from_file, TypeOK, AtWork, Place
<1>3. PICK x : x = Entry(d, filepath[d], version[filepath[d]])
  OBVIOUS
<1>4. Yield(t, stack[t], {x})
  BY <1>1, <1>3 DEF load_from_file
<1>5. /\ filepath[d] \in Paths /\ told[d][1] = filepath[d]
      /\ told[d][2] <= version[filepath[d]] /\ version[filepath[d]] \in Nat
      /\ told[d][2] \in Nat
  <2>1. d \in Files
    BY <1>2 DEF Files
  <2>2. /\ filepath[d] \in Paths /\ told[d][1] = filepath[d]
        /\ told[d][2] <= version[filepath[d]]
    BY <2>1 DEF LeafFields
  <2>3. QED
    BY <1>2, <2>2, ConstantsOK DEF TypeOK
<1>6. x \in [leaf : Docs, path : Paths \cup {NULL}, ver : Nat] /\ x.leaf = d
  BY <1>2, <1>3, <1>5 DEF Entry
<1>7. Current(x)
  BY <1>3, <1>5 DEF Current, Entry
<1>8. ~Touched(d) /\ Leaf(d)
  BY <1>2, NotTouched DEF Leaf
<1>9. \A c \in Docs : mutex[c] = t /\ c # d => mutex'[c] = t
  BY <1>2 DEF TypeOK
<1>10. QED
  BY <1>1, <1>2, <1>4, <1>6, <1>7, <1>8, <1>9, LeafCallbacks

(* A callback fetches its next ingredient.                                 *)
LEMMA NextCallbacks ==
  ASSUME TypeOK, AtWork, Callbacks, Monotone, Grows,
         NEW t \in Actors, CallbackFetches(t)
  PROVE  Sound(t)'
<1>1. /\ stack[t] # <<>> /\ stack[t][1].todo # <<>> /\ pc[t] = "callback"
      /\ stack' = [stack EXCEPT ![t][1].todo = Tail(@)] /\ mutex' = mutex
      /\ pc'[t] = "lock" /\ doc'[t] = Head(stack[t][1].todo)
  BY DEF CallbackFetches, AtWork, Place, TypeOK, nodeVars
<1>2. /\ Len(stack'[t]) = Len(stack[t]) /\ Len(stack[t]) \in Nat \ {0}
      /\ stack'[t][1].doc = stack[t][1].doc
      /\ stack'[t][1].acc = stack[t][1].acc
      /\ stack'[t][1].todo = Tail(stack[t][1].todo)
      /\ \A i \in 2 .. Len(stack[t]) : stack'[t][i] = stack[t][i]
  BY <1>1, NextFacts
<1>3. PICK st \in Seq(CallFrame) : st = stack[t]
  BY DEF TypeOK
<1>4. Waiting(t, st) /\ \A i \in 1 .. Len(st) : mutex'[st[i].doc] = t
  BY <1>1, <1>3, WaitingStack DEF Waiting
<1>5. 1 \in 1 .. Len(st) /\ Fetching(t, 1) = {}
  BY <1>1, <1>2, <1>3 DEF Fetching
<1>6. PICK f \in CallFrame : f = st[1]
  BY <1>5
<1>7. FrameOf(t, f, {}) /\ mutex'[f.doc] = t
  BY <1>3, <1>4, <1>5, <1>6 DEF Callbacks, FrameOK
<1>8. PICK g : g = stack'[t][1]
  OBVIOUS
<1>9. FrameOf(t, g, {Head(f.todo)})'
  BY <1>1, <1>2, <1>3, <1>6, <1>7, <1>8, FrameNext
<1>10. Fetching(t, 1)' = {Head(f.todo)}
  BY <1>1, <1>3, <1>6 DEF Fetching
<1>11. FrameOK(t, 1)'
  BY <1>8, <1>9, <1>10 DEF FrameOK
<1>12. QED
  BY <1>2, <1>3, <1>4, <1>11, StackKept

(* A callback returns: what it gathered is suspect only if it is going to  *)
(* be called again, and then so is its caller.                             *)
LEMMA ReturnCallbacks ==
  ASSUME TypeOK, AtWork, Callbacks, Monotone, Grows,
         NEW t \in Actors, CallbackReturns(t)
  PROVE  Sound(t)'
<1>1. PICK s \in Seq(CallFrame) : s = stack[t]
  BY DEF TypeOK
<1>2. s # <<>> /\ s[1].todo = <<>> /\ pc[t] = "callback"
  BY <1>1 DEF CallbackReturns, AtWork, Place
<1>3. PICK f \in CallFrame : f = s[1]
  BY <1>2
<1>4. PICK st \in Seq(CallFrame) : st = Tail(s)
  BY <1>2, CdrList
<1>5. /\ Len(st) = Len(s) - 1 /\ Len(s) \in Nat \ {0}
      /\ \A i \in 1 .. Len(s) - 1 : st[i] = s[i + 1]
  BY <1>2, <1>4, CdrList
<1>6. Yield(t, st, f.acc) /\ f.acc \in Contents /\ mutex' = [mutex EXCEPT ![f.doc] = NULL]
  BY <1>1, <1>3, <1>4 DEF CallbackReturns, CallFrame
<1>7. Waiting(t, st)
  BY <1>1, <1>2, <1>4, WaitingStack
<1>8. FrameOf(t, f, {})
  <2>1. 1 \in 1 .. Len(s) /\ Fetching(t, 1) = {}
    BY <1>2, <1>5 DEF Fetching
  <2>2. QED
    BY <1>1, <1>3, <2>1 DEF Callbacks, FrameOK
<1>9. \A l \in LeavesOf[f.doc] : \E e \in f.acc : e.leaf = l
  BY <1>2, <1>3, <1>8, NoList DEF FrameOf
<1>10. ASSUME NEW i \in 1 .. Len(st) PROVE mutex'[st[i].doc] = t
  <2>1. i + 1 \in 1 .. Len(s) /\ 1 \in 1 .. Len(s) /\ 1 < i + 1 /\ st[i] = s[i + 1]
    BY <1>5
  <2>2. st[i].doc \in made /\ mutex[st[i].doc] = t /\ st[i].doc \in Docs
    BY <1>7 DEF Waiting, TypeOK
  <2>3. f.doc \in Under(st[i].doc)
    BY <1>1, <1>3, <2>1 DEF Callbacks, Nested
  <2>4. f.doc # st[i].doc
    BY <2>2, <2>3, UnderFacts
  <2>5. QED
    BY <1>6, <2>2, <2>4 DEF TypeOK
<1>11. ASSUME st # <<>>, NEW p, p = st[1].doc
       PROVE  /\ FrameOf(t, st[1], {f.doc})
              /\ \A e \in f.acc : e.leaf \in MadeOf(p) /\ (Suspect(e)' => Doomed(p)')
  <2>1. /\ 1 \in 1 .. Len(st) /\ 2 \in 1 .. Len(s) /\ 1 \in 1 .. Len(s) - 1
        /\ st[1] = s[2] /\ 2 > 1
    BY <1>5, <1>11
  <2>2. FrameOf(t, s[2], {f.doc})
    <3>1. FrameOf(t, s[2], Fetching(t, 2))
      BY <1>1, <2>1 DEF Callbacks, FrameOK
    <3>2. Fetching(t, 2) = {s[2 - 1].doc}
      BY <1>1, <2>1 DEF Fetching
    <3>3. 2 - 1 = 1
      OBVIOUS
    <3>4. QED
      BY <1>3, <3>1, <3>2, <3>3
  <2>3. Doomed(f.doc) => Doomed(p)
    BY <1>1, <1>3, <1>11, <2>1 DEF Callbacks, Nested
  <2>4. /\ p \in made /\ p \in Docs /\ mutex[p] # NULL
        /\ f.doc \in ToSet(Ingr[p])
    <3>1. s[2].doc = p
      BY <1>11, <2>1
    <3>2. p \in made /\ mutex[p] = t /\ f.doc \in ToSet(Ingr[p])
      BY <2>2, <3>1 DEF FrameOf
    <3>3. QED
      BY <3>2, ConstantsOK DEF TypeOK
  <2>5. f.doc \in MadeOf(p) /\ MadeOf(f.doc) \subseteq MadeOf(p)
    BY <2>4, MadeOfStep
  <2>6. ASSUME NEW e \in f.acc PROVE e.leaf \in MadeOf(p) /\ (Suspect(e)' => Doomed(p)')
    <3>1. e \in [leaf : Docs, path : Paths \cup {NULL}, ver : Nat]
      BY <1>6 DEF Contents
    <3>2. e.leaf \in MadeOf(p) /\ (Suspect(e) => Doomed(p))
      BY <1>8, <2>3, <2>5 DEF FrameOf
    <3>3. QED
      BY <2>4, <3>1, <3>2, KeptEntry
  <2>7. QED
    BY <2>1, <2>2, <2>6
<1>12. QED
  <2>1. PICK W : W = {f.doc}
    OBVIOUS
  <2>2. PICK v \in Contents : v = f.acc
    BY <1>6
  <2>3. st # <<>> =>
          /\ FrameOf(t, st[1], W)
          /\ \A e \in v : e.leaf \in MadeOf(st[1].doc)
                          /\ (Suspect(e)' => Doomed(st[1].doc)')
          /\ \A c \in W : \A l \in LeavesOf[c] : \E e \in v : e.leaf = l
    <3>1. PICK p : p = st[1].doc
      OBVIOUS
    <3>2. QED
      BY <1>9, <1>11, <2>1, <2>2, <3>1
  <2>4. Yield(t, st, v) /\ \A i \in 1 .. Len(st) : mutex'[st[i].doc] = t
    BY <1>6, <1>10, <2>2
  <2>5. QED
    BY <1>7, <2>3, <2>4, YieldStack

(* Every step keeps the callbacks as they should be.                       *)
LEMMA CallbacksStep ==
  ASSUME TypeOK, LeafFields, Linked, AtWork, Callbacks, PayloadsGood, [Next]_vars
  PROVE  Callbacks'
<1>0. Monotone /\ Grows /\ NULL \notin Actors
  BY MonotoneStep, GrowsStep, ConstantsOK
<1>1. SUFFICES ASSUME NEW u \in Actors PROVE Sound(u)'
  BY DEF Callbacks, Sound
<1>2. ASSUME NEW t \in Actors, Continue(t) PROVE Sound(u)'
  <2>1. CASE u # t
    <3>1. Same(u)
      BY <1>2, <2>1, OthersSame
    <3>2. \A d \in Docs : mutex[d] = u => mutex'[d] = u
      BY <1>0, <1>2, <2>1, OwnMutex
    <3>3. QED
      BY <1>0, <3>1, <3>2, SameStack DEF Same
  <2>2. CASE u = t
    <3>1. CASE \/ FetchClean(t) \/ FetchDirty(t) \/ load_from_file(t)
               \/ CallbackFetches(t) \/ CallbackReturns(t)
      BY <1>0, <2>2, <3>1, CleanCallbacks, DirtyCallbacks, LoadCallbacks,
         NextCallbacks, ReturnCallbacks
    <3>2. CASE CallbackThrows(t) \/ RelockThrows(t)
      BY <2>2, <3>2, NoStack DEF CallbackThrows, RelockThrows, TypeOK
    <3>3. CASE \/ TouchLock(t) \/ invalidate(t) \/ TouchStore(t)
               \/ MakeFileRead(t) \/ MakeFileStore(t) \/ add_ascendant(t) \/ MakeReturns(t)
      <4>1. stack' = stack /\ pc[t] \notin {"lock", "load", "callback"}
        BY <3>3 DEF TouchLock, invalidate, TouchStore, MakeFileRead, MakeFileStore,
                    add_ascendant, MakeReturns
      <4>2. stack[t] = <<>>
        BY <4>1 DEF AtWork, Place
      <4>3. QED
        BY <2>2, <4>1, <4>2, NoStack
    <3>4. QED
      BY <1>2, <3>1, <3>2, <3>3 DEF Continue
  <2>3. QED
    BY <2>1, <2>2
<1>3. ASSUME NEW t \in Actors, stack' = stack, stack[t] = <<>>, mutex' = mutex,
             \A w \in Actors : w # t => Same(w)
      PROVE  Sound(u)'
  <2>1. CASE u = t
    BY <1>3, <2>1, NoStack
  <2>2. CASE u # t
    BY <1>0, <1>3, <2>2, SameStack DEF Same
  <2>3. QED
    BY <2>1, <2>2
<1>4. ASSUME NEW t \in Threads, NEW d \in Docs, StartOp(t, d) PROVE Sound(u)'
  <2>1. t \in Actors /\ mutex' = mutex /\ \A w \in Actors : w # t => Same(w)
    BY <1>0, <1>4, StartPlace, OtherWriters DEF Actors, nodeVars
  <2>2. pc[t] = "idle" /\ stack' = stack
    BY <1>4 DEF StartOp, Fetch, Touch, Make, Begin
  <2>3. stack[t] = <<>>
    BY <2>1, <2>2 DEF AtWork, Place
  <2>4. QED
    BY <1>3, <2>1, <2>2, <2>3
<1>5. CASE Police
  <2>1. Main \in Actors /\ mutex' = mutex /\ \A w \in Actors : w # Main => Same(w)
    BY <1>5, PolicePlace, OtherWriters DEF Actors, nodeVars
  <2>2. pc[Main] \in {"idle", "police", "pinval"} /\ stack' = stack
    BY <1>5 DEF Police, StartPolice, PoliceNode, PoliceInvalidated, PoliceDone
  <2>3. stack[Main] = <<>>
    BY <2>1, <2>2 DEF AtWork, Place
  <2>4. QED
    BY <1>3, <2>1, <2>2, <2>3
<1>6. CASE (\E p \in Paths : WriteFile(p)) \/ Tick \/ UNCHANGED vars
  <2>1. mutex' = mutex /\ Same(u)
    BY <1>6 DEF WriteFile, Tick, vars, Same, nodeVars, thrVars
  <2>2. QED
    BY <1>0, <2>1, SameStack DEF Same
<1>7. QED
  BY <1>2, <1>4, <1>5, <1>6 DEF Next

-----------------------------------------------------------------------------
(* The payloads.                                                           *)

Good(c) ==
  /\ \A e \in payload[c] :
       e.leaf \in MadeOf(c) /\ (Suspect(e) => Doomed(c) \/ mutex[c] # NULL)
  /\ ~dirty[c] /\ mutex[c] = NULL =>
       \A l \in LeavesOf[c] : \E e \in payload[c] : e.leaf = l

(* A datum is what was told, unless it is being touched.                   *)
LEMMA DatumGood ==
  ASSUME LeafFields', AtWork', TypeOK', NEW c \in Docs, Kind[c] = "datum" PROVE Good(c)'
<1>1. /\ told'[c][1] = NULL /\ told'[c][2] \in Nat
      /\ payload'[c] = {Entry(c, NULL, told'[c][2])}
  BY DEF LeafFields, TypeOK
<1>2. MadeOf(c) = {c} /\ LeavesOf[c] = {c}
  BY MadeOfLeaf DEF Leaf
<1>3. \A e \in payload'[c] : e.leaf = c /\ e.path = told'[c][1] /\ e.ver >= told'[c][2]
  BY <1>1 DEF Entry
<1>4. mutex'[c] = NULL => ~Touched(c)'
  BY ConstantsOK DEF Touched, AtWork, Place
<1>5. ASSUME NEW e \in payload'[c] PROVE Suspect(e)' => mutex'[c] # NULL
  <2>1. Current(e)'
    BY <1>3 DEF Current
  <2>2. Suspect(e)' => Touched(c)'
    BY <1>3, <2>1 DEF Suspect
  <2>3. QED
    BY <1>4, <2>2
<1>6. payload'[c] # {}
  BY <1>1
<1>7. QED
  BY <1>2, <1>3, <1>5, <1>6 DEF Good

(* A payload that stays is as good as it was, if its mutex is released     *)
(* only when it is marked.                                                 *)
LEMMA KeptGood ==
  ASSUME TypeOK, Monotone, NEW c \in made, Kind[c] # "datum", Good(c),
         payload'[c] = payload[c],
         mutex[c] # NULL => mutex'[c] # NULL \/ dirty'[c]
  PROVE  Good(c)'
<1>1. c \in Docs /\ payload[c] \in Contents
  BY DEF TypeOK
<1>2. ASSUME NEW e \in payload[c]
      PROVE  e.leaf \in MadeOf(c) /\ (Suspect(e)' => Doomed(c)' \/ mutex'[c] # NULL)
  <2>1. e \in [leaf : Docs, path : Paths \cup {NULL}, ver : Nat]
    BY <1>1 DEF Contents
  <2>2. e.leaf \in MadeOf(c) /\ (Suspect(e) => Doomed(c) \/ mutex[c] # NULL)
    BY DEF Good
  <2>3. Suspect(e)' => Suspect(e) \/ Pending(c)'
    BY <1>1, <2>1, <2>2 DEF Monotone
  <2>4. Doomed(c) => Doomed(c)' \/ mutex'[c] # NULL
    BY DEF Monotone, Fetched
  <2>5. QED
    BY <2>2, <2>3, <2>4 DEF Doomed
<1>3. ~dirty'[c] /\ mutex'[c] = NULL => ~dirty[c] /\ mutex[c] = NULL
  BY <1>1 DEF Monotone, Fetched
<1>4. ~dirty'[c] /\ mutex'[c] = NULL =>
        \A l \in LeavesOf[c] : \E e \in payload[c] : e.leaf = l
  BY <1>3 DEF Good
<1>5. QED
  BY <1>2, <1>4 DEF Good

(* A file was loaded.                                                      *)
LEMMA LoadedGood ==
  ASSUME TypeOK, LeafFields, AtWork, NEW t \in Actors, load_from_file(t),
         NEW c \in Docs, c = doc[t]
  PROVE  Good(c)'
<1>1. Kind[c] = "file" /\ mutex[c] = t /\ pc[t] = "load" /\ AllStill
  BY FetchStill DEF load_from_file, AtWork, Place
<1>2. PICK x : x = Entry(c, filepath[c], version[filepath[c]])
  OBVIOUS
<1>3. payload'[c] = {x}
  BY <1>2 DEF load_from_file, TypeOK
<1>4. told[c][1] = filepath[c] /\ told[c][2] <= version[filepath[c]]
      /\ version[filepath[c]] \in Nat /\ told[c][2] \in Nat
  <2>1. c \in Files
    BY <1>1 DEF Files
  <2>2. /\ filepath[c] \in Paths /\ told[c][1] = filepath[c]
        /\ told[c][2] <= version[filepath[c]]
    BY <2>1 DEF LeafFields
  <2>3. QED
    BY <2>2, ConstantsOK DEF TypeOK
<1>5. Current(x) /\ x.leaf = c
  BY <1>2, <1>4 DEF Current, Entry
<1>6. ~Touched(c)
  BY <1>1, NotTouched
<1>7. ~Suspect(x)'
  BY <1>1, <1>5, <1>6, StillFacts DEF Suspect
<1>8. MadeOf(c) = {c} /\ LeavesOf[c] = {c}
  BY <1>1, MadeOfLeaf DEF Leaf
<1>9. QED
  BY <1>3, <1>5, <1>7, <1>8 DEF Good

(* A callback has returned.                                                *)
LEMMA ReturnedGood ==
  ASSUME TypeOK, AtWork, Callbacks, Monotone, NEW t \in Actors, CallbackReturns(t),
         NEW c \in Docs, c = stack[t][1].doc
  PROVE  Good(c)'
<1>1. PICK f \in CallFrame : f = stack[t][1]
  <2>1. stack[t] # <<>> /\ stack[t] \in Seq(CallFrame)
    BY DEF CallbackReturns, AtWork, Place, TypeOK
  <2>2. QED
    BY <2>1
<1>2. FrameOf(t, f, {})
  <2>1. stack[t] # <<>> /\ stack[t] \in Seq(CallFrame) /\ pc[t] = "callback"
    BY DEF CallbackReturns, AtWork, Place, TypeOK
  <2>2. 1 \in 1 .. Len(stack[t]) /\ Fetching(t, 1) = {}
    BY <2>1 DEF Fetching
  <2>3. QED
    BY <1>1, <2>2 DEF Callbacks, FrameOK
<1>3. f.doc = c /\ f.todo = <<>> /\ payload'[c] = f.acc
  BY <1>1 DEF CallbackReturns, TypeOK
<1>4. c \in made /\ mutex[c] # NULL
  BY <1>2, <1>3, ConstantsOK DEF FrameOf
<1>5. ASSUME NEW e \in f.acc PROVE e.leaf \in MadeOf(c) /\ (Suspect(e)' => Doomed(c)')
  <2>1. e \in [leaf : Docs, path : Paths \cup {NULL}, ver : Nat]
    BY DEF CallFrame, Contents
  <2>2. e.leaf \in MadeOf(c) /\ (Suspect(e) => Doomed(c))
    BY <1>2, <1>3 DEF FrameOf
  <2>3. QED
    BY <1>4, <2>1, <2>2, KeptEntry
<1>6. \A l \in LeavesOf[c] : \E e \in f.acc : e.leaf = l
  BY <1>2, <1>3, NoList DEF FrameOf
<1>7. QED
  BY <1>3, <1>5, <1>6 DEF Good

(* Every step keeps the payloads good.                                     *)
LEMMA PayloadsStep ==
  ASSUME TypeOK, LeafFields, Linked, AtWork, Callbacks, PayloadsGood, [Next]_vars,
         TypeOK', LeafFields', AtWork'
  PROVE  PayloadsGood'
<1>0. Monotone /\ Grows /\ made' \subseteq Docs /\ made \subseteq Docs /\ NULL \notin Actors
  BY MonotoneStep, GrowsStep, ConstantsOK DEF TypeOK
<1>1. SUFFICES ASSUME NEW c \in made', Kind[c] # "datum" PROVE Good(c)'
  BY <1>0, DatumGood DEF PayloadsGood, Good
<1>2. c \in Docs
  BY <1>0
<1>3. ASSUME c \in made, payload'[c] = payload[c],
             mutex[c] # NULL => mutex'[c] # NULL \/ dirty'[c]
      PROVE  Good(c)'
  BY <1>0, <1>1, <1>3, KeptGood DEF PayloadsGood, Good
<1>4. CASE c \notin made
  <2>1. dirty[c] /\ payload[c] = {} /\ payload'[c] = payload[c]
    BY <1>1, <1>2, <1>4, StoredMade DEF Linked
  <2>2. dirty'[c]
    <3>1. \/ \E t \in Actors : MakeFileStore(t) \/ MakeReturns(t)
          \/ made' = made
      BY Writers, OtherWriters DEF Next
    <3>2. QED
      BY <1>1, <1>4, <2>1, <3>1 DEF MakeFileStore, MakeReturns, nodeVars
  <2>3. QED
    BY <2>1, <2>2 DEF Good
<1>5. CASE c \in made
  <2>1. ASSUME NEW t \in Actors, Continue(t) PROVE Good(c)'
    <3>1. CASE load_from_file(t)
      <4>1. CASE c = doc[t]
        BY <1>2, <3>1, <4>1, LoadedGood
      <4>2. CASE c # doc[t]
        BY <1>2, <1>3, <1>5, <3>1, <4>2 DEF load_from_file, TypeOK
      <4>3. QED
        BY <4>1, <4>2
    <3>2. CASE CallbackReturns(t)
      <4>1. CASE c = stack[t][1].doc
        BY <1>0, <1>2, <3>2, <4>1, ReturnedGood
      <4>2. CASE c # stack[t][1].doc
        BY <1>2, <1>3, <1>5, <3>2, <4>2 DEF CallbackReturns, TypeOK
      <4>3. QED
        BY <4>1, <4>2
    <3>3. CASE TouchStore(t)
      <4>1. /\ payload' = [payload EXCEPT ![doc[t]] = NewPayload(doc[t], arg[t])]
            /\ mutex' = [mutex EXCEPT ![doc[t]] = NULL] /\ dirty' = dirty
            /\ pc[t] = "touch" /\ work[t] = <<>>
        BY <3>3 DEF TouchStore
      <4>2. payload'[c] = payload[c]
        BY <1>1, <1>2, <4>1 DEF NewPayload, TypeOK
      <4>3. mutex[c] # NULL => mutex'[c] # NULL \/ dirty'[c]
        BY <1>2, <4>1, NoList DEF AtWork, Place, TypeOK
      <4>4. QED
        BY <1>3, <1>5, <4>2, <4>3
    <3>4. CASE FetchDirty(t) \/ TouchLock(t)
      <4>1. payload' = payload /\ \A d \in Docs : mutex[d] # NULL => mutex'[d] = mutex[d]
        <5>1. CASE TouchLock(t)
          BY <5>1 DEF TouchLock, TypeOK
        <5>2. CASE FetchDirty(t)
          <6>1. PICK d \in Docs : d = doc[t]
            BY <5>2 DEF FetchDirty, AtWork, Place, TypeOK
          <6>2. Kind[d] \in {"datum", "file", "chain"}
            BY ConstantsOK
          <6>3. mutex' = mutex \/ mutex' = [mutex EXCEPT ![d] = t]
            BY <5>2, <6>1, <6>2 DEF FetchDirty
          <6>4. mutex[d] = NULL /\ payload' = payload
            BY <5>2, <6>1 DEF FetchDirty
          <6>5. QED
            BY <6>3, <6>4 DEF TypeOK
        <5>3. QED
          BY <3>4, <5>1, <5>2
      <4>2. QED
        BY <1>2, <1>3, <1>5, <4>1
    <3>5. CASE ~(load_from_file(t) \/ CallbackReturns(t) \/ TouchStore(t)
                 \/ FetchDirty(t) \/ TouchLock(t))
      BY <1>3, <1>5, <2>1, <3>5, Writers
    <3>6. QED
      BY <3>1, <3>2, <3>3, <3>4, <3>5
  <2>2. CASE payload' = payload /\ mutex' = mutex
    BY <1>3, <1>5, <2>2
  <2>3. QED
    BY <2>1, <2>2, OtherWriters DEF Next, nodeVars
<1>6. QED
  BY <1>4, <1>5

-----------------------------------------------------------------------------
(* The mutexes, when no callback throws.                                   *)

Holds(u) ==
  \A d \in Docs : mutex[d] = u =>
    \/ doc[u] = d /\ pc[u] \in {"load", "touch"}
    \/ \E i \in 1 .. Len(stack[u]) : stack[u][i].doc = d

LEMMA HeldHolds ==
  /\ TypeOK => (Held <=> \A u \in Actors : Holds(u))
  /\ TypeOK' => (Held' <=> \A u \in Actors : Holds(u)')
<1>0. NULL \notin Actors
  BY ConstantsOK
<1>1. ASSUME TypeOK PROVE Held <=> \A u \in Actors : Holds(u)
  <2>1. \A d \in Docs : mutex[d] # NULL <=> mutex[d] \in Actors
    BY <1>0, <1>1 DEF TypeOK
  <2>2. QED
    BY <2>1 DEF Held, Holds
<1>2. ASSUME TypeOK' PROVE Held' <=> \A u \in Actors : Holds(u)'
  <2>1. \A d \in Docs : mutex'[d] # NULL <=> mutex'[d] \in Actors
    BY <1>0, <1>2 DEF TypeOK
  <2>2. QED
    BY <2>1 DEF Held, Holds
<1>3. QED
  BY <1>1, <1>2

(* A thread between operations holds none.                                 *)
LEMMA HoldsNone ==
  ASSUME TypeOK, AtWork, NEW t \in Actors, Holds(t),
         pc[t] \notin {"lock", "load", "callback", "touch"}
  PROVE  \A d \in Docs : mutex[d] # t
BY DEF AtWork, Place, Holds

(* One that does nothing, and gets none, holds them as before.             *)
LEMMA SameHolds ==
  ASSUME NEW u \in Actors, Holds(u),
         pc'[u] = pc[u] /\ doc'[u] = doc[u] /\ stack'[u] = stack[u],
         \A d \in Docs : mutex'[d] = u => mutex[d] = u
  PROVE  Holds(u)'
BY DEF Holds

(* One that yields to the callbacks st holds their documents.              *)
LEMMA YieldHolds ==
  ASSUME TypeOK, NEW t \in Actors, NEW st \in Seq(CallFrame),
         NEW v \in Contents, Yield(t, st, v),
         \A d \in Docs : mutex'[d] = t => \E i \in 1 .. Len(st) : st[i].doc = d
  PROVE  Holds(t)'
<1>1. ASSUME NEW d \in Docs, mutex'[d] = t
      PROVE  \E i \in 1 .. Len(stack'[t]) : stack'[t][i].doc = d
  <2>1. PICK i \in 1 .. Len(st) : st[i].doc = d
    BY <1>1
  <2>2. st # <<>> /\ Len(st) \in Nat
    BY <2>1
  <2>3. /\ Len(stack'[t]) = Len(st) /\ stack'[t][1].doc = st[1].doc
        /\ \A j \in 2 .. Len(st) : stack'[t][j] = st[j]
    BY <2>2, YieldFacts
  <2>4. i = 1 \/ i \in 2 .. Len(st)
    BY <2>2
  <2>5. stack'[t][i].doc = d
    BY <2>1, <2>3, <2>4
  <2>6. QED
    BY <2>3, <2>5
<1>2. QED
  BY <1>1 DEF Holds

(* fetch-doc: the documents of the callbacks, and the one it loads.        *)
LEMMA FetchHolds ==
  ASSUME TypeOK, LeafFields, AtWork, Callbacks, NEW t \in Actors, Holds(t),
         \/ FetchClean(t) \/ FetchDirty(t) \/ load_from_file(t)
         \/ CallbackFetches(t) \/ CallbackReturns(t)
  PROVE  Holds(t)'
<1>0. /\ stack[t] \in Seq(CallFrame) /\ Place(t) /\ NULL \notin Actors
      /\ \A d \in Docs : mutex[d] = t =>
           \/ doc[t] = d /\ pc[t] \in {"load", "touch"}
           \/ \E i \in 1 .. Len(stack[t]) : stack[t][i].doc = d
  BY ConstantsOK DEF TypeOK, AtWork, Holds
<1>1. CASE FetchClean(t)
  <2>1. /\ payload[doc[t]] \in Contents /\ Yield(t, stack[t], payload[doc[t]])
        /\ mutex' = mutex /\ pc[t] = "lock"
    BY <1>0, <1>1 DEF FetchClean, Place, TypeOK, nodeVars
  <2>2. QED
    BY <1>0, <2>1, YieldHolds
<1>2. CASE FetchDirty(t)
  <2>1. PICK d \in made : d = doc[t]
    BY <1>0, <1>2 DEF FetchDirty, Place
  <2>2. d \in Docs /\ payload[d] \in Contents /\ pc[t] = "lock"
    BY <1>2 DEF FetchDirty, TypeOK
  <2>3. Kind[d] \in {"datum", "file", "chain"}
    BY <2>2, ConstantsOK
  <2>4. CASE Kind[d] = "datum"
    <3>1. Yield(t, stack[t], payload[d]) /\ mutex' = mutex
      BY <1>2, <2>1, <2>4 DEF FetchDirty
    <3>2. QED
      BY <1>0, <2>2, <3>1, YieldHolds
  <2>5. CASE Kind[d] = "file"
    <3>1. /\ mutex' = [mutex EXCEPT ![d] = t] /\ stack' = stack
          /\ pc' = [pc EXCEPT ![t] = "load"] /\ doc' = doc
      BY <1>2, <2>1, <2>5 DEF FetchDirty
    <3>2. pc'[t] = "load" /\ doc'[t] = d
      BY <2>1, <3>1 DEF TypeOK
    <3>3. \A c \in Docs : mutex'[c] = t => mutex[c] = t \/ c = d
      BY <3>1 DEF TypeOK
    <3>4. QED
      BY <1>0, <2>2, <3>1, <3>2, <3>3 DEF Holds
  <2>6. CASE Kind[d] = "chain"
    <3>1. /\ mutex' = [mutex EXCEPT ![d] = t]
          /\ Len(stack'[t]) = Len(stack[t]) + 1
          /\ stack'[t][1] = [doc |-> d, todo |-> Ingr[d], acc |-> {}]
          /\ \A i \in 2 .. Len(stack[t]) + 1 : stack'[t][i] = stack[t][i - 1]
      BY <1>2, <2>1, <2>2, <2>6, PushFacts DEF FetchDirty
    <3>2. ASSUME NEW c \in Docs, mutex'[c] = t
          PROVE  \E i \in 1 .. Len(stack'[t]) : stack'[t][i].doc = c
      <4>1. CASE c = d
        <5>1. stack'[t][1].doc = c /\ 1 \in 1 .. Len(stack'[t])
          BY <1>0, <3>1, <4>1
        <5>2. QED
          BY <5>1
      <4>2. CASE c # d
        <5>1. mutex[c] = t
          BY <3>1, <3>2, <4>2 DEF TypeOK
        <5>2. PICK i \in 1 .. Len(stack[t]) : stack[t][i].doc = c
          BY <1>0, <2>2, <5>1
        <5>3. i + 1 \in 2 .. Len(stack[t]) + 1 /\ (i + 1) - 1 = i
          BY <1>0
        <5>4. stack'[t][i + 1].doc = c /\ i + 1 \in 1 .. Len(stack'[t])
          BY <1>0, <3>1, <5>2, <5>3
        <5>5. QED
          BY <5>4
      <4>3. QED
        BY <4>1, <4>2
    <3>3. QED
      BY <3>2 DEF Holds
  <2>7. QED
    BY <2>3, <2>4, <2>5, <2>6
<1>3. CASE load_from_file(t)
  <2> DEFINE d == doc[t]
  <2> DEFINE v == {Entry(d, filepath[d], version[filepath[d]])}
  <2>1. d \in Docs /\ d \in Files
    BY <1>0, <1>3 DEF load_from_file, Place, TypeOK, Files
  <2>2. v \in Contents
    BY <2>1 DEF LeafFields, TypeOK, Contents, Entry
  <2>3. Yield(t, stack[t], v) /\ mutex' = [mutex EXCEPT ![d] = NULL]
    BY <1>3 DEF load_from_file
  <2>4. \A c \in Docs : mutex'[c] = t => mutex[c] = t /\ c # doc[t]
    BY <1>0, <2>3 DEF TypeOK
  <2>5. \A c \in Docs : mutex'[c] = t => \E i \in 1 .. Len(stack[t]) : stack[t][i].doc = c
    BY <1>0, <2>4
  <2> HIDE DEF v
  <2>6. QED
    BY <1>0, <2>2, <2>3, <2>5, YieldHolds
<1>4. CASE CallbackFetches(t)
  <2>1. /\ stack[t] # <<>> /\ stack[t][1].todo # <<>> /\ pc[t] = "callback"
        /\ stack' = [stack EXCEPT ![t][1].todo = Tail(@)] /\ mutex' = mutex
    BY <1>0, <1>4 DEF CallbackFetches, Place, nodeVars
  <2>2. /\ Len(stack'[t]) = Len(stack[t]) /\ Len(stack[t]) \in Nat \ {0}
        /\ stack'[t][1].doc = stack[t][1].doc
        /\ \A i \in 2 .. Len(stack[t]) : stack'[t][i] = stack[t][i]
    BY <2>1, NextFacts
  <2>3. \A i \in 1 .. Len(stack[t]) : stack'[t][i].doc = stack[t][i].doc
    <3> TAKE i \in 1 .. Len(stack[t])
    <3>1. i = 1 \/ i \in 2 .. Len(stack[t])
      BY <2>2
    <3>2. QED
      BY <2>2, <3>1
  <2>4. QED
    BY <1>0, <2>1, <2>2, <2>3 DEF Holds
<1>5. CASE CallbackReturns(t)
  <2>1. PICK s \in Seq(CallFrame) : s = stack[t]
    BY <1>0
  <2>2. s # <<>> /\ pc[t] = "callback"
    BY <1>0, <1>5, <2>1 DEF CallbackReturns, Place
  <2>3. PICK st \in Seq(CallFrame) : st = Tail(s)
    BY <2>2, CdrList
  <2>4. /\ Len(st) = Len(s) - 1 /\ Len(s) \in Nat \ {0} /\ s[1] \in CallFrame
        /\ \A i \in 1 .. Len(s) - 1 : st[i] = s[i + 1]
    BY <2>2, <2>3, CdrList
  <2>5. /\ Yield(t, st, s[1].acc) /\ s[1].acc \in Contents
        /\ mutex' = [mutex EXCEPT ![s[1].doc] = NULL]
    BY <1>5, <2>1, <2>3, <2>4 DEF CallbackReturns, CallFrame
  <2>6. ASSUME NEW c \in Docs, mutex'[c] = t PROVE \E i \in 1 .. Len(st) : st[i].doc = c
    <3>1. mutex[c] = t /\ c # s[1].doc
      BY <1>0, <2>5, <2>6 DEF TypeOK
    <3>2. PICK i \in 1 .. Len(s) : s[i].doc = c
      BY <1>0, <2>1, <2>2, <3>1
    <3>3. i # 1
      BY <3>1, <3>2
    <3>4. i - 1 \in 1 .. Len(st) /\ i - 1 \in 1 .. Len(s) - 1 /\ (i - 1) + 1 = i
      BY <2>4, <3>3
    <3>5. st[i - 1].doc = c
      BY <2>4, <3>2, <3>4
    <3>6. QED
      BY <3>4, <3>5
  <2>7. QED
    BY <2>5, <2>6, YieldHolds
<1>6. QED
  BY <1>1, <1>2, <1>3, <1>4, <1>5

(* No thread locks a mutex it holds: the graph has no cycle.               *)
LEMMA NoRelock ==
  ASSUME TypeOK, AtWork, Callbacks, NEW t \in Actors, Holds(t) PROVE ~RelockThrows(t)
<1> SUFFICES ASSUME RelockThrows(t) PROVE FALSE
  OBVIOUS
<1>1. Locking(t) # NULL /\ mutex[Locking(t)] = t
  BY DEF RelockThrows
<1>2. CASE pc[t] = "lock"
  <2>1. doc[t] \in Docs /\ mutex[doc[t]] = t
    BY <1>1, <1>2 DEF Locking, AtWork, Place, TypeOK
  <2>2. PICK i \in 1 .. Len(stack[t]) : stack[t][i].doc = doc[t]
    BY <1>2, <2>1 DEF Holds
  <2>3. doc[t] \in Under(doc[t])
    BY <1>2, <2>2 DEF Callbacks, Nested
  <2>4. QED
    BY <2>1, <2>3, UnderFacts
<1>3. CASE pc[t] = "tlock"
  <2>1. doc[t] \in Docs /\ mutex[doc[t]] = t
    BY <1>1, <1>3 DEF Locking, AtWork, Place, TypeOK
  <2>2. QED
    BY <1>3, <2>1, HoldsNone
<1>4. CASE pc[t] = "make"
  <2>1. work[t] \in Seq(Docs) /\ work[t] # <<>> /\ mutex[Head(work[t])] = t
    BY <1>1, <1>4 DEF Locking, TypeOK
  <2>2. Head(work[t]) \in Docs
    BY <2>1, CdrList
  <2>3. QED
    BY <1>4, <2>1, <2>2, HoldsNone
<1>5. QED
  BY <1>1, <1>2, <1>3, <1>4 DEF Locking

(* Every step keeps the mutexes with their holders.                        *)
LEMMA HeldStep ==
  ASSUME TypeOK, LeafFields, Linked, AtWork, Callbacks, [Next]_vars, TypeOK',
         CanThrow = {}, Held
  PROVE  Held'
<1>0. /\ NULL \notin Actors /\ \A u \in Actors : Holds(u)
      /\ Monotone /\ Grows
  BY ConstantsOK, HeldHolds, MonotoneStep, GrowsStep
<1>1. SUFFICES ASSUME NEW u \in Actors PROVE Holds(u)'
  BY HeldHolds
<1>2. ASSUME NEW t \in Actors, Continue(t) PROVE Holds(u)'
  <2>1. CASE u # t
    <3>1. Same(u)
      BY <1>2, <2>1, OthersSame
    <3>2. \A d \in Docs : mutex'[d] = u => mutex[d] = u
      BY <1>0, <1>2, <2>1, OwnMutex
    <3>3. QED
      BY <1>0, <3>1, <3>2, SameHolds DEF Same
  <2>2. CASE u = t
    <3>1. CASE \/ FetchClean(t) \/ FetchDirty(t) \/ load_from_file(t)
               \/ CallbackFetches(t) \/ CallbackReturns(t)
      BY <1>0, <2>2, <3>1, FetchHolds
    <3>2. ~CallbackThrows(t) /\ ~RelockThrows(t)
      BY <1>0, NoRelock DEF CallbackThrows
    <3>3. CASE TouchLock(t)
      <4>1. /\ pc[t] = "tlock" /\ mutex' = [mutex EXCEPT ![doc[t]] = t]
            /\ pc'[t] = "touch" /\ doc'[t] = doc[t]
        BY <3>3 DEF TouchLock, TypeOK
      <4>2. \A d \in Docs : mutex[d] # t
        BY <1>0, <4>1, HoldsNone
      <4>3. \A d \in Docs : mutex'[d] = t => d = doc[t]
        BY <4>1, <4>2 DEF TypeOK
      <4>4. QED
        BY <2>2, <4>1, <4>3 DEF Holds
    <3>4. CASE invalidate(t)
      BY <1>0, <2>2, <3>4, SameHolds DEF invalidate
    <3>5. CASE TouchStore(t)
      <4>1. pc[t] = "touch" /\ mutex' = [mutex EXCEPT ![doc[t]] = NULL]
        BY <3>5 DEF TouchStore
      <4>2. stack[t] = <<>>
        BY <4>1 DEF AtWork, Place
      <4>3. \A d \in Docs : mutex[d] = t => d = doc[t]
        BY <1>0, <4>2 DEF Holds
      <4>4. \A d \in Docs : mutex'[d] # t
        BY <1>0, <4>1, <4>3 DEF TypeOK
      <4>5. QED
        BY <2>2, <4>4 DEF Holds
    <3>6. CASE MakeFileRead(t) \/ MakeFileStore(t) \/ add_ascendant(t) \/ MakeReturns(t)
      <4>1. pc[t] \in {"fileread", "filestore", "make"} /\ mutex' = mutex
        BY <3>6 DEF MakeFileRead, MakeFileStore, add_ascendant, MakeReturns, nodeVars
      <4>2. QED
        BY <1>0, <2>2, <4>1, HoldsNone DEF Holds
    <3>7. QED
      BY <1>2, <3>1, <3>2, <3>3, <3>4, <3>5, <3>6 DEF Continue
  <2>3. QED
    BY <2>1, <2>2
<1>3. ASSUME NEW t \in Actors, mutex' = mutex, \A w \in Actors : w # t => Same(w),
             pc[t] \in {"idle", "police", "pinval"}
      PROVE  Holds(u)'
  <2>1. CASE u = t
    BY <1>0, <1>3, <2>1, HoldsNone DEF Holds
  <2>2. CASE u # t
    BY <1>0, <1>3, <2>2, SameHolds DEF Same
  <2>3. QED
    BY <2>1, <2>2
<1>4. ASSUME NEW t \in Threads, NEW d \in Docs, StartOp(t, d) PROVE Holds(u)'
  <2>1. t \in Actors /\ mutex' = mutex /\ \A w \in Actors : w # t => Same(w)
    BY <1>0, <1>4, StartPlace, OtherWriters DEF Actors, nodeVars
  <2>2. pc[t] = "idle"
    BY <1>4 DEF StartOp, Fetch, Touch, Make, Begin
  <2>3. QED
    BY <1>3, <2>1, <2>2
<1>5. CASE Police
  <2>1. Main \in Actors /\ mutex' = mutex /\ \A w \in Actors : w # Main => Same(w)
    BY <1>5, PolicePlace, OtherWriters DEF Actors, nodeVars
  <2>2. pc[Main] \in {"idle", "police", "pinval"}
    BY <1>5 DEF Police, StartPolice, PoliceNode, PoliceInvalidated, PoliceDone
  <2>3. QED
    BY <1>3, <2>1, <2>2
<1>6. CASE (\E p \in Paths : WriteFile(p)) \/ Tick \/ UNCHANGED vars
  <2>1. mutex' = mutex /\ Same(u)
    BY <1>6 DEF WriteFile, Tick, vars, Same, nodeVars, thrVars
  <2>2. QED
    BY <1>0, <2>1, SameHolds DEF Same
<1>7. QED
  BY <1>2, <1>4, <1>5, <1>6 DEF Next

-----------------------------------------------------------------------------
(* The theorems.                                                           *)

(* Every step keeps the invariant.                                         *)
LEMMA CacheStep ==
  ASSUME CacheInv, [Next]_vars PROVE CacheInv'
<1>0. /\ TypeOK /\ LeafFields /\ Linked /\ AtWork /\ Callbacks /\ PayloadsGood
      /\ CanThrow = {} => Held
  BY DEF CacheInv
<1>1. TypeOK' /\ LeafFields' /\ Linked' /\ AtWork' /\ Callbacks'
  BY <1>0, TypeStep, LeafStep, LinkedStep, AtWorkStep, CallbacksStep
<1>2. PayloadsGood'
  BY <1>0, <1>1, PayloadsStep
<1>3. CanThrow = {} => Held'
  BY <1>0, <1>1, HeldStep
<1>4. QED
  BY <1>1, <1>2, <1>3 DEF CacheInv

(* A finite set as a list.                                                 *)
LEMMA SetAsList ==
  ASSUME NEW S, IsFiniteSet(S)
  PROVE  SetToSeq(S) \in Seq(S) /\ ToSet(SetToSeq(S)) = S
<1> DEFINE n == Cardinality(S)
<1>1. n \in Nat
  BY FS_CardinalityType
<1>2. Bijection(1 .. n, S) # {}
  BY FS_CardinalityType DEF ExistsBijection
<1>3. \E f \in [1 .. n -> S] : IsInjective(f)
  BY <1>2 DEF Bijection, Injection
<1>4. SetToSeq(S) \in [1 .. n -> S] /\ IsInjective(SetToSeq(S))
  BY <1>3 DEF SetToSeq
<1>5. SetToSeq(S) \in Injection(1 .. n, S)
  BY <1>4 DEF Injection
<1>6. Cardinality(1 .. n) = n
  BY <1>1, FS_Interval
<1>7. SetToSeq(S) \in Surjection(1 .. n, S)
  BY <1>5, <1>6, FS_Injection
<1>8. /\ \A x \in S : \E i \in 1 .. n : SetToSeq(S)[i] = x
      /\ DOMAIN SetToSeq(S) = 1 .. n
  BY <1>4, <1>7 DEF Surjection
<1>9. SetToSeq(S) \in Seq(S)
  BY <1>1, <1>4
<1>10. ToSet(SetToSeq(S)) = S
  BY <1>4, <1>8 DEF ToSet
<1>11. QED
  BY <1>9, <1>10

(* The lists of the boot script.                                           *)
LEMMA BootLists ==
  ASSUME Init
  PROVE  /\ ascendants \in [Docs -> Seq(Docs)] /\ file_nodes \in Seq(Files)
         /\ \A d \in Docs : ToSet(ascendants[d]) = {c \in Preset : d \in ToSet(Ingr[c])}
<1>0. IsFiniteSet(Preset) /\ Preset \subseteq Docs
  BY GraphOK, ConstantsOK, FS_Subset
<1>1. ASSUME NEW d \in Docs
      PROVE  /\ Above(Preset, d) \in Seq(Docs)
             /\ ToSet(Above(Preset, d)) = {c \in Preset : d \in ToSet(Ingr[c])}
  <2> DEFINE S == {c \in Preset : d \in ToSet(Ingr[c])}
  <2>1. IsFiniteSet(S) /\ S \subseteq Docs
    BY <1>0, FS_Subset
  <2> HIDE DEF S
  <2>2. SetToSeq(S) \in Seq(S) /\ ToSet(SetToSeq(S)) = S
    BY <2>1, SetAsList
  <2>3. SetToSeq(S) \in Seq(Docs)
    BY <2>1, <2>2
  <2>4. QED
    BY <2>2, <2>3 DEF S, Above
<1>2. file_nodes \in Seq(Files)
  <2> DEFINE S == Preset \cap Files
  <2>1. IsFiniteSet(S) /\ S \subseteq Files
    BY <1>0, FS_Subset
  <2>2. file_nodes = SetToSeq(S)
    BY DEF Init
  <2> HIDE DEF S
  <2>3. SetToSeq(S) \in Seq(S)
    BY <2>1, SetAsList
  <2>4. QED
    BY <2>1, <2>2, <2>3
<1>3. ascendants = [d \in Docs |-> Above(Preset, d)]
  BY DEF Init
<1>4. QED
  BY <1>1, <1>2, <1>3

(* The invariant holds when the threads start.                             *)
LEMMA CacheInit ==
  ASSUME Init PROVE CacheInv
<1>1. /\ made = Preset /\ Preset \subseteq Docs
      /\ \A d \in Docs : /\ dirty[d] <=> Kind[d] # "datum"
                         /\ mutex[d] = NULL /\ filepath[d] = Path0[d]
                         /\ told[d][1] = Path0[d] /\ told[d][2] = 0
                         /\ payload[d] = IF Kind[d] = "datum"
                                           THEN {Entry(d, NULL, 0)} ELSE {}
      /\ \A p \in Paths : version[p] \in {0, 1}
      /\ \A t \in Actors : pc[t] = "idle" /\ stack[t] = <<>> /\ work[t] = <<>>
  BY ConstantsOK DEF Init
<1>2. TypeOK
  <2>1. /\ made \subseteq Docs /\ dirty \in [Docs -> BOOLEAN]
        /\ mutex \in [Docs -> Actors \cup {NULL}]
        /\ filepath \in [Docs -> Paths \cup {NULL}]
        /\ pc \in [Actors -> States] /\ doc \in [Actors -> Docs \cup {NULL}]
        /\ arg \in [Actors -> {NULL} \cup Paths \cup Nat]
        /\ told \in [Docs -> (Paths \cup {NULL}) \X Nat]
    BY ConstantsOK DEF Init, States
  <2>2. /\ nops \in 0 .. MaxOps /\ clock \in 1 .. MaxClock
        /\ node_mtime \in [Docs -> 0 .. MaxClock]
        /\ version \in [Paths -> 0 .. MaxVersion] /\ mtime \in [Paths -> 0 .. MaxClock]
    <3>1. {0, 1} \subseteq 0 .. MaxVersion /\ {0, 1} \subseteq 0 .. MaxClock
          /\ 0 \in 0 .. MaxOps /\ 1 \in 1 .. MaxClock
      BY ConstantsOK
    <3>2. nops = 0 /\ clock = 1 /\ node_mtime = [d \in Docs |-> 0]
          /\ version \in [Paths -> {0, 1}] /\ mtime \in [Paths -> {0, 1}]
      BY DEF Init
    <3>3. nops \in 0 .. MaxOps /\ clock \in 1 .. MaxClock
      BY <3>1, <3>2
    <3>4. node_mtime \in [Docs -> 0 .. MaxClock]
      BY <3>1, <3>2
    <3>5. QED
      BY <3>1, <3>2, <3>3, <3>4
  <2>3. payload \in [Docs -> Contents]
    BY DEF Init, Contents, Entry
  <2>4. /\ ascendants \in [Docs -> Seq(Docs)] /\ file_nodes \in Seq(Files)
        /\ cursor \in Seq(Files)
        /\ stack \in [Actors -> Seq(CallFrame)] /\ work \in [Actors -> Seq(Docs)]
    BY BootLists DEF Init
  <2>5. QED
    BY <2>1, <2>2, <2>3, <2>4 DEF TypeOK
<1>3. LeafFields
  <2>1. \A d \in Files : d \in Docs /\ Path0[d] \in Paths
    BY ConstantsOK DEF Files
  <2>2. \A d \in Docs : Kind[d] = "datum" => Path0[d] = NULL
    BY ConstantsOK DEF Files
  <2>3. \A d \in Files : /\ filepath[d] \in Paths /\ told[d][1] = filepath[d]
                         /\ told[d][2] <= version[filepath[d]]
    <3> TAKE d \in Files
    <3>1. filepath[d] = Path0[d] /\ Path0[d] \in Paths /\ told[d][1] = Path0[d] /\ told[d][2] = 0
      BY <1>1, <2>1
    <3>2. version[Path0[d]] \in {0, 1}
      BY <1>1, <3>1
    <3>3. QED
      BY <3>1, <3>2
  <2>4. \A d \in Docs : Kind[d] = "datum" =>
          told[d][1] = NULL /\ payload[d] = {Entry(d, NULL, told[d][2])}
    <3> SUFFICES ASSUME NEW d \in Docs, Kind[d] = "datum"
                 PROVE  told[d][1] = NULL /\ payload[d] = {Entry(d, NULL, told[d][2])}
      OBVIOUS
    <3>1. payload[d] = {Entry(d, NULL, 0)} /\ told[d][2] = 0 /\ told[d][1] = Path0[d]
      BY <1>1
    <3>2. QED
      BY <2>2, <3>1
  <2>5. QED
    BY <2>3, <2>4 DEF LeafFields
<1>4. Linked
  <2>1. Closed(made)
    BY <1>1, GraphOK
  <2>2. \A c \in made : ToSet(Ingr[c]) \subseteq Docs
    BY <1>1, Ingredients
  <2>3. \A d \in Docs : ToSet(ascendants[d]) = {c \in Preset : d \in ToSet(Ingr[c])}
    BY BootLists
  <2>4. \A e \in Docs : \A c \in ToSet(ascendants[e]) : e \in ToSet(Ingr[c])
    BY <2>3
  <2>5. \A c \in made : \A e \in ToSet(Ingr[c]) : c \in ToSet(ascendants[e])
    BY <1>1, <2>2, <2>3
  <2>6. \A d \in Docs \ made : Kind[d] # "datum" => dirty[d] /\ payload[d] = {}
    BY <1>1
  <2>7. QED
    BY <2>1, <2>4, <2>5, <2>6 DEF Linked
<1>5. AtWork
  BY <1>1 DEF AtWork, Place
<1>6. Callbacks
  BY <1>1 DEF Callbacks, Nested
<1>7. PayloadsGood
  <2> SUFFICES ASSUME NEW c \in made, Kind[c] = "datum" PROVE Good(c)
    BY <1>1 DEF PayloadsGood, Good
  <2>1. c \in Docs /\ MadeOf(c) = {c} /\ LeavesOf[c] = {c}
    BY <1>1, MadeOfLeaf DEF Leaf
  <2>2. payload[c] = {Entry(c, NULL, 0)} /\ told[c][1] = NULL /\ told[c][2] = 0
    BY <1>1, <1>3, <2>1 DEF LeafFields
  <2>3. \A e \in payload[c] : e.leaf = c /\ Current(e)
    BY <2>2 DEF Current, Entry
  <2>4. ~Touched(c)
    BY <1>1 DEF Touched
  <2>5. payload[c] # {}
    BY <2>2
  <2>6. QED
    BY <2>1, <2>3, <2>4, <2>5 DEF Good, Suspect
<1>8. Held
  BY <1>1 DEF Held
<1>9. QED
  BY <1>2, <1>3, <1>4, <1>5, <1>6, <1>7, <1>8 DEF CacheInv

(* The inductive invariant of the cache: who holds which mutex, what each  *)
(* callback has gathered, and that whatever is out of date is marked or on *)
(* the way of an invalidation.                                             *)
THEOREM CacheInvariant == Spec => []CacheInv
<1>1. Init => CacheInv
  BY CacheInit
<1>2. CacheInv /\ [Next]_vars => CacheInv'
  BY CacheStep
<1>3. QED
  BY <1>1, <1>2, PTL DEF Spec

(* fetch_node and touch_node release what they lock: for every graph and   *)
(* every number of threads, a mutex that is held belongs to a thread that  *)
(* works on the document, unless a callback can throw.                     *)
THEOREM MutexesReleased == Spec => []LocksHaveHolders
<1>1. CacheInv => LocksHaveHolders
  BY DEF CacheInv, LocksHaveHolders, Held
<1>2. QED
  BY <1>1, CacheInvariant, PTL

(* No interleaving of touch-doc, the police, nested fetches and make-doc   *)
(* loses an invalidation: when all is quiet, a document that would be      *)
(* returned as it is shows what the cache was told of each of its leaves.  *)
THEOREM NoLostInvalidation == Spec => []CleanMeansFresh
<1>1. CacheInv => CleanMeansFresh
  <2> SUFFICES ASSUME CacheInv, \A t \in Actors : pc[t] \in {"idle", "police"},
                      NEW d \in made, ~dirty[d], mutex[d] = NULL
               PROVE  UpToDate(d) /\ NotOutdated(d)
    BY DEF CleanMeansFresh
  <2>1. TypeOK /\ Good(d)
    BY DEF CacheInv, PayloadsGood, Good
  <2>2. ~Doomed(d)
    BY DEF Doomed, Pending, Marks
  <2>3. \A e \in payload[d] : Current(e)
    BY <2>1, <2>2 DEF Good, Suspect
  <2>4. NotOutdated(d)
    BY <2>3 DEF NotOutdated, Current
  <2>5. UpToDate(d)
    BY <2>1, <2>3 DEF UpToDate, Good, Current
  <2>6. QED
    BY <2>4, <2>5
<1>2. QED
  BY <1>1, CacheInvariant, PTL

=============================================================================
