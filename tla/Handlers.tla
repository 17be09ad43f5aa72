------------------------------ MODULE Handlers ------------------------------
(***************************************************************************)
(* The responder registry of src/src/main.c: set_handler pushes an entry   *)
(* on a linked list, sorts the list by decreasing path length and links it *)
(* anew, entry by entry; find_handler walks the list to the first entry    *)
(* whose path is a prefix of the request's path.  Neither takes a lock,    *)
(* and dispatcher threads search while the console or a responder (such as *)
(* msg-subscribe) registers.                                               *)
(*                                                                         *)
(* A path is a sequence; an entry is named by the serial number of its     *)
(* registration.                                                           *)
(***************************************************************************)
EXTENDS Naturals, Sequences, FiniteSets, SequencesExt

CONSTANTS
  Writers,   \* threads that call set_handler
  Readers,   \* threads that serve requests
  Paths,     \* paths that are registered
  Urls,      \* paths that are requested
  MaxEntries,   \* BOUND: registrations
  MaxSearches,  \* BOUND: searches
  NULL

Ids == 1 .. MaxEntries

ASSUME ConstantsOK ==
  /\ Writers \cap Readers = {} /\ NULL \notin Ids /\ NULL \notin Paths
  /\ MaxEntries \in Nat /\ MaxSearches \in Nat
  /\ \A p \in Paths \cup Urls : p \in Seq(Nat)

VARIABLES
  handlers, link, path,   \* the list: head, and the fields of the entries
  nentries,               \* entries allocated
  wpc, entry, list, i,    \* each set_handler: its entry, array and index
  rpc, url, pt, res,      \* each find_handler: request, cursor, result
  nsearches,
  done,     \* history: entries whose set_handler has returned
  overlap,  \* history: two set_handler calls have overlapped
  base      \* history: what was registered when a search began, and NULL
            \* once a set_handler ran while it was searching

listVars   == <<handlers, link, path>>
writerVars == <<nentries, wpc, entry, list, i, done, overlap>>
readerVars == <<rpc, url, pt, res, nsearches>>
vars == <<listVars, writerVars, readerVars, base>>

TypeOK ==
  /\ handlers \in Ids \cup {NULL}
  /\ link \in [Ids -> Ids \cup {NULL}]
  /\ path \in [Ids -> Paths \cup {NULL}]
  /\ nentries \in 0 .. MaxEntries /\ nsearches \in 0 .. MaxSearches
  /\ \A e \in Ids : path[e] # NULL <=> e <= nentries
  /\ wpc \in [Writers -> {"idle", "push", "count", "sort", "head", "relink",
                         "crash"}]
  /\ entry \in [Writers -> Ids \cup {NULL}]
  /\ list \in [Writers -> Seq(Ids)]
  /\ i \in [Writers -> Nat]
  /\ rpc \in [Readers -> {"idle", "search"}]
  /\ url \in [Readers -> Urls \cup {NULL}]
  /\ pt \in [Readers -> Ids \cup {NULL}]
  /\ res \in [Readers -> Ids \cup {NULL}]
  /\ done \subseteq Ids /\ overlap \in BOOLEAN

Init ==
  /\ handlers = NULL
  /\ link = [e \in Ids |-> NULL] /\ path = [e \in Ids |-> NULL]
  /\ nentries = 0 /\ nsearches = 0
  /\ wpc = [w \in Writers |-> "idle"] /\ entry = [w \in Writers |-> NULL]
  /\ list = [w \in Writers |-> <<>>] /\ i = [w \in Writers |-> 0]
  /\ rpc = [r \in Readers |-> "idle"] /\ url = [r \in Readers |-> NULL]
  /\ pt = [r \in Readers |-> NULL] /\ res = [r \in Readers |-> NULL]
  /\ done = {} /\ overlap = FALSE
  /\ base = [r \in Readers |-> NULL]

-----------------------------------------------------------------------------
(* set_handler.                                                            *)

(* BOUND: calls that have overlapped go on, but no call starts afterwards; *)
(* nothing is claimed of what it would find.                               *)
MayCall == ~overlap

(* A new entry; entry->link = handlers.                                    *)
NewEntry(w, p) ==
  LET e == nentries + 1 IN
  /\ MayCall /\ wpc[w] = "idle" /\ nentries < MaxEntries
  /\ nentries' = e
  /\ path' = [path EXCEPT ![e] = p]
  /\ link' = [link EXCEPT ![e] = handlers]
  /\ entry' = [entry EXCEPT ![w] = e]
  /\ wpc' = [wpc EXCEPT ![w] = "push"]
  /\ overlap' = (overlap \/ \E v \in Writers : wpc[v] # "idle")
  /\ base' = [r \in Readers |-> IF rpc[r] = "search" THEN NULL ELSE base[r]]
  /\ UNCHANGED <<handlers, list, i, done, readerVars>>

(* handlers = entry.                                                       *)
Push(w) ==
  /\ wpc[w] = "push"
  /\ handlers' = entry[w]
  /\ wpc' = [wpc EXCEPT ![w] = "count"]
  /\ UNCHANGED <<link, path, nentries, entry, list, i, done, overlap,
                 readerVars, base>>

(* The list that the links represent, from the head to the entry without   *)
(* a link.  With overlapping calls the links may form a cycle, and a walk  *)
(* along them does not end: then there is no such list.                    *)
IsList(q) ==
  /\ handlers = IF q = <<>> THEN NULL ELSE q[1]
  /\ \A j \in 1 .. Len(q) : link[q[j]] = IF j = Len(q) THEN NULL ELSE q[j + 1]

Lists == {q \in BoundedSeq(Ids, MaxEntries) : IsList(q)}

(* qsort with sorter: the same entries, longest path first; the order of   *)
(* equal lengths is not specified.                                         *)
Reordered(s) == {q \in [1 .. Len(s) -> ToSet(s)] :
                   IsInjective(q) /\ ToSet(q) = ToSet(s)}

LongestFirst(q) ==
  \A j, k \in 1 .. Len(q) : j <= k => Len(path[q[j]]) >= Len(path[q[k]])

ShortestFirst(s) == {q \in Reordered(s) : LongestFirst(Reverse(q))}

sorter(s) == {q \in Reordered(s) : LongestFirst(q)}

(* The first loop counts the entries, to allocate the array ...            *)
Count(w) ==
  /\ wpc[w] = "count"
  /\ \E q \in Lists : i' = [i EXCEPT ![w] = Len(q)]
  /\ wpc' = [wpc EXCEPT ![w] = "sort"]
  /\ UNCHANGED <<listVars, nentries, entry, list, done, overlap, readerVars,
                 base>>

(* ... the second copies them into it, and the array is sorted.            *)
Sort(w) ==
  /\ wpc[w] = "sort"
  /\ \E q \in Lists : \E s \in sorter(q) :
       Len(q) = i[w] /\ list' = [list EXCEPT ![w] = s]
  /\ wpc' = [wpc EXCEPT ![w] = "head"]
  /\ UNCHANGED <<listVars, nentries, entry, i, done, overlap, readerVars,
                 base>>

(* The list no longer has the length that was counted: the copy overruns   *)
(* the array or leaves part of it unset.  What follows is undefined, and   *)
(* the model ends there.                                                   *)
Overrun(w) ==
  /\ wpc[w] = "sort" /\ \A q \in Lists : Len(q) # i[w]
  /\ wpc' = [wpc EXCEPT ![w] = "crash"]
  /\ UNCHANGED <<listVars, nentries, entry, list, i, done, overlap,
                 readerVars, base>>

(* handlers = list[0].                                                     *)
SetHead(w) ==
  /\ wpc[w] = "head"
  /\ handlers' = list[w][1]
  /\ i' = [i EXCEPT ![w] = 1]
  /\ wpc' = [wpc EXCEPT ![w] = "relink"]
  /\ UNCHANGED <<link, path, nentries, entry, list, done, overlap,
                 readerVars, base>>

(* list[i]->link = list[i + 1], one entry a step.                          *)
Relink(w) ==
  LET l == list[w] IN
  /\ wpc[w] = "relink" /\ i[w] < Len(l)
  /\ link' = [link EXCEPT ![l[i[w]]] = l[i[w] + 1]]
  /\ i' = [i EXCEPT ![w] = @ + 1]
  /\ UNCHANGED <<handlers, path, nentries, wpc, entry, list, done, overlap,
                 readerVars, base>>

(* list[count]->link = NULL; return.                                       *)
NotTerminated(w) == UNCHANGED link
Terminated(w) == link' = [link EXCEPT ![list[w][Len(list[w])]] = NULL]

Terminate(w) ==
  /\ wpc[w] = "relink" /\ i[w] = Len(list[w])
  /\ Terminated(w)
  /\ done' = done \cup {entry[w]}
  /\ entry' = [entry EXCEPT ![w] = NULL]
  /\ list' = [list EXCEPT ![w] = <<>>]
  /\ i' = [i EXCEPT ![w] = 0]
  /\ wpc' = [wpc EXCEPT ![w] = "idle"]
  /\ UNCHANGED <<handlers, path, nentries, overlap, readerVars, base>>

-----------------------------------------------------------------------------
(* find_handler.                                                           *)
StartSearch(r, u) ==
  /\ MayCall /\ rpc[r] = "idle" /\ nsearches < MaxSearches
  /\ nsearches' = nsearches + 1
  /\ url' = [url EXCEPT ![r] = u]
  /\ pt' = [pt EXCEPT ![r] = handlers]
  /\ res' = [res EXCEPT ![r] = NULL]
  /\ rpc' = [rpc EXCEPT ![r] = "search"]
  /\ base' = [base EXCEPT ![r] =
       IF \A w \in Writers : wpc[w] = "idle" THEN done ELSE NULL]
  /\ UNCHANGED <<listVars, writerVars>>

Matches(e, u) == IsPrefix(path[e], u)

NextEntry(r) ==
  /\ rpc[r] = "search" /\ pt[r] # NULL /\ ~Matches(pt[r], url[r])
  /\ pt' = [pt EXCEPT ![r] = link[pt[r]]]
  /\ UNCHANGED <<listVars, writerVars, rpc, url, res, nsearches, base>>

(* The first match, or the end of the list.                                *)
Found(r) ==
  /\ rpc[r] = "search" /\ pt[r] # NULL /\ Matches(pt[r], url[r])
  /\ res' = [res EXCEPT ![r] = pt[r]]
  /\ pt' = [pt EXCEPT ![r] = NULL]
  /\ rpc' = [rpc EXCEPT ![r] = "idle"]
  /\ UNCHANGED <<listVars, writerVars, url, nsearches, base>>

NotFound(r) ==
  /\ rpc[r] = "search" /\ pt[r] = NULL
  /\ rpc' = [rpc EXCEPT ![r] = "idle"]
  /\ UNCHANGED <<listVars, writerVars, url, pt, res, nsearches, base>>

-----------------------------------------------------------------------------
set_handler(w) ==
  \/ Push(w) \/ Count(w) \/ Sort(w) \/ Overrun(w) \/ SetHead(w) \/ Relink(w)
  \/ Terminate(w)
find_handler(r) == NextEntry(r) \/ Found(r) \/ NotFound(r)

Defined == \A w \in Writers : wpc[w] # "crash"

Next ==
  /\ Defined
  /\ \/ \E w \in Writers, p \in Paths : NewEntry(w, p)
     \/ \E w \in Writers : set_handler(w)
     \/ \E r \in Readers, u \in Urls : StartSearch(r, u)
     \/ \E r \in Readers : find_handler(r)

(* Threads that can go on do.                                              *)
Fairness == /\ \A w \in Writers : WF_vars(Defined /\ set_handler(w))
            /\ \A r \in Readers : WF_vars(Defined /\ find_handler(r))

Spec == Init /\ [][Next]_vars /\ Fairness

-----------------------------------------------------------------------------
(* Properties.                                                             *)

(* When nobody is registering, the list holds every registered entry once, *)
(* longest paths first, provided registrations never overlapped.  All      *)
(* variables have their types.                                             *)
RegistryComplete ==
  /\ TypeOK
  /\ ~overlap /\ (\A w \in Writers : wpc[w] = "idle") =>
       \E q \in Lists : ToSet(q) = done /\ IsInjective(q) /\ LongestFirst(q)

(* A search during which nobody registered finds an entry with the longest *)
(* registered path that is a prefix of the request's path, and finds       *)
(* nothing only when no path matches.                                      *)
LongestPrefixFound ==
  ~overlap => \A r \in Readers :
    rpc[r] = "idle" /\ base[r] # NULL =>
      LET found == {e \in base[r] : Matches(e, url[r])} IN
      IF found = {} THEN res[r] = NULL
      ELSE /\ res[r] \in found
           /\ \A e \in found : Len(path[e]) <= Len(path[res[r]])

(* If registrations do not overlap, every search ends, although relinking  *)
(* makes cycles that it can run into, and every registration ends: its own *)
(* walks along the links meet no cycle and find what they counted.         *)
SearchesEnd ==
  /\ \A r \in Readers : rpc[r] = "search" ~> (rpc[r] = "idle" \/ overlap)
  /\ \A w \in Writers : wpc[w] # "idle" ~> (wpc[w] = "idle" \/ overlap)

=============================================================================
