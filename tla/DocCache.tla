------------------------------ MODULE DocCache ------------------------------
(***************************************************************************)
(* The make-like content cache of src/src/cache.c.                         *)
(*                                                                         *)
(* A document is a datum, a file, or a chain: a document computed by a     *)
(* Scheme callback that fetches its ingredients.  Threads fetch and touch  *)
(* documents and make new ones; the main thread polices the files.  Each   *)
(* document has a mutex, which fetch-doc and touch-doc hold, but           *)
(* invalidate() marks the documents above it without taking their mutexes, *)
(* one at a time, and police_cache() takes none at all.                    *)
(*                                                                         *)
(* A document's content is abstracted to where it came from: a set of      *)
(* entries [leaf, path, ver], one for each version of each leaf that was   *)
(* read to compute it.  The callback of a chain is application code: it    *)
(* fetches the ingredients in the order of the list given to make-doc.     *)
(***************************************************************************)
EXTENDS Naturals, Sequences, FiniteSets, SequencesExt

CONSTANTS
  Threads,    \* dispatcher threads
  Main,       \* the main thread, which polices the files
  Docs, Paths,
  Kind,       \* Docs -> {"datum", "file", "chain"}
  Ingr,       \* Docs -> sequence of ingredients (<<>> unless a chain)
  Path0,      \* Docs -> the file a file document is made with
  Preset,     \* documents made by the boot script, before any thread runs
  CanThrow,   \* chains whose callback may throw
  MaxOps,     \* BOUND: operations started
  MaxVersion, \* BOUND: versions of a datum or of a file
  MaxClock,   \* BOUND: seconds that pass
  NULL

Actors == Threads \cup {Main}
Leaf(d) == Kind[d] # "chain"
Files == {d \in Docs : Kind[d] = "file"}

ASSUME ConstantsOK ==
  /\ Main \notin Threads /\ NULL \notin Actors \cup Docs \cup Paths
  /\ Kind \in [Docs -> {"datum", "file", "chain"}]
  /\ Ingr \in [Docs -> Seq(Docs)]
  /\ \A d \in Docs : Leaf(d) => Ingr[d] = <<>>
  /\ Path0 \in [Docs -> Paths \cup {NULL}]
  /\ \A d \in Docs : d \in Files <=> Path0[d] # NULL
  /\ Preset \subseteq Docs /\ CanThrow \subseteq {d \in Docs : ~Leaf(d)}
  /\ MaxOps \in Nat /\ MaxVersion \in Nat \ {0} /\ MaxClock \in Nat \ {0}

(* A document and what it is made of, down to its leaves: every set of     *)
(* documents with it and with the ingredients of its members has these.    *)
Closed(S) == \A c \in S : ToSet(Ingr[c]) \subseteq S
MadeOf(d) == {e \in Docs : \A S \in SUBSET Docs :
                             d \in S /\ Closed(S) => e \in S}

(* The ingredients of a document exist when it is made: none is made of    *)
(* itself, and the boot script made what its documents need.               *)
ASSUME GraphOK ==
  /\ IsFiniteSet(Docs) /\ Closed(Preset)
  /\ \A d \in Docs : \A e \in ToSet(Ingr[d]) : d \notin MadeOf(e)

VARIABLES
  made,       \* documents that make-doc has returned
  dirty, payload, ascendants, mutex, filepath,   \* the fields of MAKE_NODE
  file_nodes, node_mtime,                        \* the list of FILE_NODEs
  cursor,     \* the FILE_NODEs that police_cache has yet to look at
  version, mtime, clock,   \* files: content (0: no such file), st_mtime, time
  pc, doc, arg, stack, work,   \* each thread, see below
  nops,
  told        \* history: what the cache has been told of each leaf, as
              \* <<path, version>>, by touch-doc or by the police

(* pc[t] is where the thread is, doc[t] the document it is about to lock   *)
(* or works on, arg[t] the argument of touch-doc, stack[t] the callbacks   *)
(* in progress, innermost first, and work[t] the documents a loop or the   *)
(* recursion of invalidate() has yet to visit.                             *)
nodeVars == <<dirty, payload, ascendants, mutex, filepath>>
fileVars == <<version, mtime, clock>>
listVars == <<file_nodes, node_mtime, cursor>>
thrVars  == <<pc, doc, arg, stack, work>>
vars == <<made, nodeVars, listVars, fileVars, thrVars, nops, told>>

States == {"idle", "lock", "load", "callback", "tlock", "touch", "make",
           "fileread", "filestore", "police", "pinval"}

Entry(l, p, v) == [leaf |-> l, path |-> p, ver |-> v]
Contents == SUBSET [leaf : Docs, path : Paths \cup {NULL}, ver : Nat]
CallFrame == [doc : Docs, todo : Seq(Docs), acc : Contents]

TypeOK ==
  /\ made \subseteq Docs
  /\ dirty \in [Docs -> BOOLEAN]
  /\ payload \in [Docs -> Contents]
  /\ ascendants \in [Docs -> Seq(Docs)]
  /\ mutex \in [Docs -> Actors \cup {NULL}]
  /\ filepath \in [Docs -> Paths \cup {NULL}]
  /\ file_nodes \in Seq(Files) /\ cursor \in Seq(Files)
  /\ node_mtime \in [Docs -> 0 .. MaxClock]
  /\ version \in [Paths -> 0 .. MaxVersion]
  /\ mtime \in [Paths -> 0 .. MaxClock] /\ clock \in 1 .. MaxClock
  /\ pc \in [Actors -> States]
  /\ doc \in [Actors -> Docs \cup {NULL}]
  /\ arg \in [Actors -> {NULL} \cup Paths \cup Nat]
  /\ stack \in [Actors -> Seq(CallFrame)]
  /\ work \in [Actors -> Seq(Docs)]
  /\ nops \in 0 .. MaxOps
  /\ told \in [Docs -> (Paths \cup {NULL}) \X Nat]

-----------------------------------------------------------------------------
(* make_doc's ascendant lists for the documents of the boot script.        *)
Above(S, d) == SetToSeq({c \in S : d \in ToSet(Ingr[c])})

Init ==
  /\ made = Preset
  /\ dirty = [d \in Docs |-> Kind[d] # "datum"]
  /\ payload = [d \in Docs |-> IF Kind[d] = "datum"
                                 THEN {Entry(d, NULL, 0)} ELSE {}]
  /\ ascendants = [d \in Docs |-> Above(Preset, d)]
  /\ mutex = [d \in Docs |-> NULL]
  /\ filepath = Path0
  /\ file_nodes = SetToSeq(Preset \cap Files)
  /\ node_mtime = [d \in Docs |-> 0] /\ cursor = <<>>
  /\ version \in [Paths -> {0, 1}]
  /\ clock = 1
  /\ mtime = [p \in Paths |-> IF version[p] = 0 THEN 0 ELSE 1]
  /\ pc = [t \in Actors |-> "idle"]
  /\ doc = [t \in Actors |-> NULL]
  /\ arg = [t \in Actors |-> NULL]
  /\ stack = [t \in Actors |-> <<>>]
  /\ work = [t \in Actors |-> <<>>]
  /\ nops = 0
  /\ told = [d \in Docs |-> <<Path0[d], 0>>]

Begin(t, at, d) ==
  /\ pc[t] = "idle" /\ nops < MaxOps
  /\ pc' = [pc EXCEPT ![t] = at]
  /\ doc' = [doc EXCEPT ![t] = d]
  /\ nops' = nops + 1

(* The operation of thread t, whose callbacks are st, yields content v: to *)
(* the callback that called it, or to the caller of fetch-doc.             *)
Yield(t, st, v) ==
  IF st = <<>>
    THEN /\ stack' = [stack EXCEPT ![t] = <<>>]
         /\ pc' = [pc EXCEPT ![t] = "idle"]
         /\ doc' = [doc EXCEPT ![t] = NULL]
    ELSE /\ stack' = [stack EXCEPT ![t] =
                        <<[Head(st) EXCEPT !.acc = @ \cup v]>> \o Tail(st)]
         /\ pc' = [pc EXCEPT ![t] = "callback"]
         /\ UNCHANGED doc

-----------------------------------------------------------------------------
(* fetch_node.                                                             *)
Fetch(t, d) ==
  /\ d \in made /\ Begin(t, "lock", d)
  /\ UNCHANGED <<made, nodeVars, listVars, fileVars, arg, stack, work, told>>

(* The document is clean: its payload is returned.  The mutex is held for  *)
(* the length of the step only.                                            *)
FetchCleanKeepingLock(t) ==
  LET d == doc[t] IN
  /\ pc[t] = "lock" /\ mutex[d] = NULL /\ ~dirty[d]
  /\ Yield(t, stack[t], payload[d])
  /\ mutex' = [mutex EXCEPT ![d] = t]
  /\ UNCHANGED <<made, dirty, payload, ascendants, filepath, listVars,
                 fileVars, arg, work, nops, told>>

FetchClean(t) ==
  LET d == doc[t] IN
  /\ pc[t] = "lock" /\ mutex[d] = NULL /\ ~dirty[d]
  /\ Yield(t, stack[t], payload[d])
  /\ UNCHANGED <<made, nodeVars, listVars, fileVars, arg, work, nops, told>>

(* The document is dirty: dirty := 0 comes first, then the content is made *)
(* again with the mutex held.  A datum has nothing to make.                *)
FetchDirty(t) ==
  LET d == doc[t] IN
  /\ pc[t] = "lock" /\ mutex[d] = NULL /\ dirty[d]
  /\ dirty' = [dirty EXCEPT ![d] = FALSE]
  /\ CASE Kind[d] = "datum" ->
            /\ Yield(t, stack[t], payload[d])
            /\ UNCHANGED mutex
       [] Kind[d] = "file" ->
            /\ mutex' = [mutex EXCEPT ![d] = t]
            /\ pc' = [pc EXCEPT ![t] = "load"]
            /\ UNCHANGED <<stack, doc>>
       [] Kind[d] = "chain" ->
            /\ mutex' = [mutex EXCEPT ![d] = t]
            /\ stack' = [stack EXCEPT ![t] =
                 <<[doc |-> d, todo |-> Ingr[d], acc |-> {}]>> \o @]
            /\ pc' = [pc EXCEPT ![t] = "callback"]
            /\ UNCHANGED doc
  /\ UNCHANGED <<made, payload, ascendants, filepath, listVars, fileVars,
                 arg, work, nops, told>>

(* load_from_file; a missing file gives #f, here version 0.                *)
load_from_file(t) ==
  LET d == doc[t]
      v == {Entry(d, filepath[d], version[filepath[d]])} IN
  /\ pc[t] = "load"
  /\ payload' = [payload EXCEPT ![d] = v]
  /\ mutex' = [mutex EXCEPT ![d] = NULL]
  /\ Yield(t, stack[t], v)
  /\ UNCHANGED <<made, dirty, ascendants, filepath, listVars, fileVars, arg,
                 work, nops, told>>

(* The callback fetches its next ingredient.                               *)
CallbackFetches(t) ==
  /\ pc[t] = "callback" /\ stack[t][1].todo # <<>>
  /\ doc' = [doc EXCEPT ![t] = Head(stack[t][1].todo)]
  /\ stack' = [stack EXCEPT ![t][1].todo = Tail(@)]
  /\ pc' = [pc EXCEPT ![t] = "lock"]
  /\ UNCHANGED <<made, nodeVars, listVars, fileVars, arg, work, nops, told>>

(* The callback returns: the payload is stored and the mutex released.     *)
(* dirty is left as it is: it may have been set meanwhile.                 *)
ClearAfterStore(d) == dirty' = [dirty EXCEPT ![d] = FALSE]
KeepDirty(d) == UNCHANGED dirty

CallbackReturns(t) ==
  LET d == stack[t][1].doc
      v == stack[t][1].acc IN
  /\ pc[t] = "callback" /\ stack[t][1].todo = <<>>
  /\ payload' = [payload EXCEPT ![d] = v]
  /\ mutex' = [mutex EXCEPT ![d] = NULL]
  /\ KeepDirty(d)
  /\ Yield(t, Tail(stack[t]), v)
  /\ UNCHANGED <<made, ascendants, filepath, listVars, fileVars, arg, work,
                 nops, told>>

(* The callback throws: the exception leaves every fetch_node in progress  *)
(* at scm_apply_0, without unlocking.                                      *)
CallbackThrows(t) ==
  /\ pc[t] = "callback" /\ stack[t][1].doc \in CanThrow
  /\ stack' = [stack EXCEPT ![t] = <<>>]
  /\ pc' = [pc EXCEPT ![t] = "idle"]
  /\ doc' = [doc EXCEPT ![t] = NULL]
  /\ UNCHANGED <<made, nodeVars, listVars, fileVars, arg, work, nops, told>>

(* The document whose mutex thread t is about to take, if any.             *)
Locking(t) ==
  IF pc[t] \in {"lock", "tlock"} THEN doc[t]
  ELSE IF pc[t] = "make" /\ work[t] # <<>> THEN Head(work[t]) ELSE NULL

(* scm_lock_mutex of a mutex this thread already holds is an error in      *)
(* Guile: another exception.                                               *)
RelockThrows(t) ==
  /\ Locking(t) # NULL
  /\ mutex[Locking(t)] = t
  /\ stack' = [stack EXCEPT ![t] = <<>>]
  /\ work' = [work EXCEPT ![t] = <<>>]
  /\ pc' = [pc EXCEPT ![t] = "idle"]
  /\ doc' = [doc EXCEPT ![t] = NULL]
  /\ arg' = [arg EXCEPT ![t] = NULL]
  /\ UNCHANGED <<made, nodeVars, listVars, fileVars, nops, told>>

-----------------------------------------------------------------------------
(* touch_node, without an argument (NULL), with a new value of a datum, or *)
(* with a new path of a file.                                              *)
TouchArgs(d) ==
  {NULL} \cup CASE Kind[d] = "datum" -> {told[d][2] + 1} \cap 1 .. MaxVersion
                [] Kind[d] = "file"  -> Paths
                [] Kind[d] = "chain" -> {}

Touch(t, d) ==
  /\ d \in made /\ Begin(t, "tlock", d)
  /\ \E a \in TouchArgs(d) : arg' = [arg EXCEPT ![t] = a]
  /\ UNCHANGED <<made, nodeVars, listVars, fileVars, stack, work, told>>

TouchLock(t) ==
  /\ pc[t] = "tlock" /\ mutex[doc[t]] = NULL
  /\ mutex' = [mutex EXCEPT ![doc[t]] = t]
  /\ work' = [work EXCEPT ![t] = <<doc[t]>>]
  /\ pc' = [pc EXCEPT ![t] = "touch"]
  /\ UNCHANGED <<made, dirty, payload, ascendants, filepath, listVars,
                 fileVars, doc, arg, stack, nops, told>>

(* invalidate: one document of the recursion, which goes on to the         *)
(* ascendants it has at this moment.                                       *)
invalidate_locking(t) ==
  LET d == Head(work[t]) IN
  /\ pc[t] \in {"touch", "pinval"} /\ work[t] # <<>>
  /\ mutex[d] \in {NULL, t}
  /\ dirty' = [dirty EXCEPT ![d] = TRUE]
  /\ work' = [work EXCEPT ![t] = ascendants[d] \o Tail(@)]
  /\ UNCHANGED <<made, payload, ascendants, mutex, filepath, listVars,
                 fileVars, pc, doc, arg, stack, nops, told>>

invalidate(t) ==
  LET d == Head(work[t]) IN
  /\ pc[t] \in {"touch", "pinval"} /\ work[t] # <<>>
  /\ dirty' = [dirty EXCEPT ![d] = TRUE]
  /\ work' = [work EXCEPT ![t] = ascendants[d] \o Tail(@)]
  /\ UNCHANGED <<made, payload, ascendants, mutex, filepath, listVars,
                 fileVars, pc, doc, arg, stack, nops, told>>

(* The value a touch gives a document; the list of arguments may be empty. *)
NewPayload(d, a) ==
  IF a # NULL /\ Kind[d] = "datum" THEN {Entry(d, NULL, a)} ELSE payload[d]

(* Everything above is marked: store the argument and unlock.              *)
TouchStore(t) ==
  LET d == doc[t]
      a == arg[t] IN
  /\ pc[t] = "touch" /\ work[t] = <<>>
  /\ payload' = [payload EXCEPT ![d] = NewPayload(d, a)]
  /\ filepath' = IF a # NULL /\ Kind[d] = "file"
                   THEN [filepath EXCEPT ![d] = a] ELSE filepath
  /\ told' = [told EXCEPT ![d] =
       CASE Kind[d] = "file"  -> <<filepath'[d], version[filepath'[d]]>>
         [] Kind[d] = "datum" -> IF a = NULL THEN @ ELSE <<NULL, a>>
         [] Kind[d] = "chain" -> @]
  /\ mutex' = [mutex EXCEPT ![d] = NULL]
  /\ pc' = [pc EXCEPT ![t] = "idle"]
  /\ doc' = [doc EXCEPT ![t] = NULL]
  /\ arg' = [arg EXCEPT ![t] = NULL]
  /\ UNCHANGED <<made, dirty, ascendants, listVars, fileVars, stack, work,
                 nops>>

-----------------------------------------------------------------------------
(* make_doc.                                                               *)
Make(t, d) ==
  /\ d \notin made /\ \A u \in Actors : doc[u] # d
  /\ ToSet(Ingr[d]) \subseteq made
  /\ Begin(t, IF Kind[d] = "file" THEN "fileread" ELSE "make", d)
  /\ work' = [work EXCEPT ![t] = Ingr[d]]
  /\ UNCHANGED <<made, nodeVars, listVars, fileVars, arg, stack, told>>

(* fnode->next = file_nodes; file_nodes = fnode, without a lock: work[t]   *)
(* keeps the list that was read.                                           *)
MakeFileRead(t) ==
  /\ pc[t] = "fileread"
  /\ work' = [work EXCEPT ![t] = file_nodes]
  /\ pc' = [pc EXCEPT ![t] = "filestore"]
  /\ UNCHANGED <<made, nodeVars, listVars, fileVars, doc, arg, stack, nops,
                 told>>

MakeFileStore(t) ==
  /\ pc[t] = "filestore"
  /\ file_nodes' = <<doc[t]>> \o work[t]
  /\ made' = made \cup {doc[t]}
  /\ work' = [work EXCEPT ![t] = <<>>]
  /\ pc' = [pc EXCEPT ![t] = "idle"]
  /\ doc' = [doc EXCEPT ![t] = NULL]
  /\ UNCHANGED <<nodeVars, node_mtime, cursor, fileVars, arg, stack, nops,
                 told>>

(* add_ascendant, under the mutex of the ingredient.                       *)
add_ascendant(t) ==
  LET e == Head(work[t]) IN
  /\ pc[t] = "make" /\ work[t] # <<>> /\ mutex[e] = NULL
  /\ ascendants' = IF Contains(ascendants[e], doc[t]) THEN ascendants
                   ELSE [ascendants EXCEPT ![e] = <<doc[t]>> \o @]
  /\ work' = [work EXCEPT ![t] = Tail(@)]
  /\ UNCHANGED <<made, dirty, payload, mutex, filepath, listVars, fileVars,
                 pc, doc, arg, stack, nops, told>>

MakeReturns(t) ==
  /\ pc[t] = "make" /\ work[t] = <<>>
  /\ made' = made \cup {doc[t]}
  /\ pc' = [pc EXCEPT ![t] = "idle"]
  /\ doc' = [doc EXCEPT ![t] = NULL]
  /\ UNCHANGED <<nodeVars, listVars, fileVars, arg, stack, work, nops, told>>

-----------------------------------------------------------------------------
(* police_cache, called by the main loop every POLICE_INTVL seconds.       *)
StartPolice ==
  /\ pc[Main] = "idle"
  /\ pc' = [pc EXCEPT ![Main] = "police"]
  /\ cursor' = file_nodes
  /\ UNCHANGED <<made, nodeVars, file_nodes, node_mtime, fileVars, doc, arg,
                 stack, work, nops, told>>

(* The file is newer, in whole seconds, than what the node remembers.      *)
Changed(d) == mtime[filepath[d]] > node_mtime[d]

(* The node remembers a modification time and the file has a later one.    *)
OutdatedBySeconds(d) == /\ version[filepath[d]] # 0 /\ node_mtime[d] # 0
                        /\ mtime[filepath[d]] > node_mtime[d] + 1
Outdated(d) == version[filepath[d]] # 0 /\ node_mtime[d] # 0 /\ Changed(d)

(* One node of the loop.  A stat that fails skips it; the first success    *)
(* only remembers st_mtime.                                                *)
PoliceNode ==
  LET d == Head(cursor)
      p == filepath[d] IN
  /\ pc[Main] = "police" /\ cursor # <<>>
  /\ cursor' = Tail(cursor)
  /\ IF Outdated(d)
       THEN /\ work' = [work EXCEPT ![Main] = <<d>>]
            /\ pc' = [pc EXCEPT ![Main] = "pinval"]
            /\ told' = [told EXCEPT ![d] = <<p, version[p]>>]
       ELSE UNCHANGED <<work, pc, told>>
  /\ node_mtime' = IF version[p] # 0 /\ (node_mtime[d] = 0 \/ Changed(d))
                     THEN [node_mtime EXCEPT ![d] = mtime[p]] ELSE node_mtime
  /\ UNCHANGED <<made, nodeVars, file_nodes, fileVars, doc, arg, stack, nops>>

PoliceInvalidated ==
  /\ pc[Main] = "pinval" /\ work[Main] = <<>>
  /\ pc' = [pc EXCEPT ![Main] = "police"]
  /\ UNCHANGED <<made, nodeVars, listVars, fileVars, doc, arg, stack, work,
                 nops, told>>

PoliceDone ==
  /\ pc[Main] = "police" /\ cursor = <<>>
  /\ pc' = [pc EXCEPT ![Main] = "idle"]
  /\ UNCHANGED <<made, nodeVars, listVars, fileVars, doc, arg, stack, work,
                 nops, told>>

-----------------------------------------------------------------------------
(* The world: a file is written (or created), a second passes.             *)
WriteFile(p) ==
  /\ version[p] < MaxVersion
  /\ version' = [version EXCEPT ![p] = @ + 1]
  /\ mtime' = [mtime EXCEPT ![p] = clock]
  /\ UNCHANGED <<made, nodeVars, listVars, clock, thrVars, nops, told>>

Tick ==
  /\ clock < MaxClock
  /\ clock' = clock + 1
  /\ UNCHANGED <<made, nodeVars, listVars, version, mtime, thrVars, nops,
                 told>>

StartOp(t, d) == Fetch(t, d) \/ Touch(t, d) \/ Make(t, d)

Continue(t) ==
  \/ FetchClean(t) \/ FetchDirty(t) \/ load_from_file(t)
  \/ CallbackFetches(t) \/ CallbackReturns(t) \/ CallbackThrows(t)
  \/ RelockThrows(t)
  \/ TouchLock(t) \/ invalidate(t) \/ TouchStore(t)
  \/ MakeFileRead(t) \/ MakeFileStore(t) \/ add_ascendant(t) \/ MakeReturns(t)

Police == StartPolice \/ PoliceNode \/ PoliceInvalidated \/ PoliceDone

Next ==
  \/ \E t \in Threads, d \in Docs : StartOp(t, d)
  \/ \E t \in Actors : Continue(t)
  \/ Police
  \/ \E p \in Paths : WriteFile(p)
  \/ Tick

(* A started operation goes on when it can, and the main loop goes on      *)
(* policing; no operation need be started and no file need change.         *)
Fairness == /\ \A t \in Actors : WF_vars(Continue(t))
            /\ WF_vars(Police)

Spec == Init /\ [][Next]_vars /\ Fairness

-----------------------------------------------------------------------------
(* Properties.                                                             *)

(* The leaves a document is made of.                                       *)
LeavesOf == [d \in Docs |-> {l \in MadeOf(d) : Leaf(l)}]

UpToDate(d) ==
  \A l \in LeavesOf[d] : \E e \in payload[d] :
    e.leaf = l /\ e.path = told[l][1] /\ e.ver >= told[l][2]

NotOutdated(d) ==
  \A e \in payload[d] : e.path = told[e.leaf][1] /\ e.ver >= told[e.leaf][2]

(* When no operation is in progress, a document that is not dirty, and so  *)
(* would be returned as it is, reflects everything the cache has been told *)
(* of its leaves, and nothing older: no interleaving of touch-doc, the     *)
(* police and nested fetches loses an invalidation.                        *)
CleanMeansFresh ==
  (\A t \in Actors : pc[t] \in {"idle", "police"}) =>
    \A d \in made : ~dirty[d] /\ mutex[d] = NULL =>
      UpToDate(d) /\ NotOutdated(d)

(* A mutex that is held belongs to a thread that is going to release it,   *)
(* unless a callback threw.  All variables have their types.               *)
LocksHaveHolders ==
  /\ TypeOK
  /\ CanThrow = {} => \A d \in Docs : mutex[d] # NULL =>
       \/ doc[mutex[d]] = d /\ pc[mutex[d]] \in {"load", "touch"}
       \/ \E i \in 1 .. Len(stack[mutex[d]]) : stack[mutex[d]][i].doc = d

Abandoned == \E d \in Docs : mutex[d] # NULL /\ pc[mutex[d]] = "idle"

(* Every operation ends: fetches that nest and touches that climb the same *)
(* graph do not wait for each other, unless a throwing callback has left a *)
(* mutex locked.                                                           *)
OperationsEnd ==
  \A t \in Threads : pc[t] # "idle" ~> (pc[t] = "idle" \/ Abandoned)

Stale(d) == /\ d \in made /\ ~dirty[d] /\ mutex[d] = NULL
            /\ payload[d] # {Entry(d, filepath[d], version[filepath[d]])}

(* A file document whose file is newer than the remembered mtime is marked *)
(* dirty by a later round of the police (or was reloaded before it).       *)
PoliceCatchesUp ==
  \A d \in Files :
    (Stale(d) /\ Contains(file_nodes, d) /\ node_mtime[d] # 0 /\ Changed(d))
      ~> ~Stale(d)

(* README.md: cached items are refreshed when what they depend on changes. *)
(* A file document that does not show its file's content is eventually     *)
(* marked dirty or reloaded.                                               *)
FilesRefreshed == \A d \in Files : Stale(d) ~> ~Stale(d)

=============================================================================
