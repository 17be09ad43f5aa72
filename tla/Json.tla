-------------------------------- MODULE Json --------------------------------
(***************************************************************************)
(* json-encode and json-decode of src/src/json.c, between Scheme values    *)
(* and JSON documents; the text of a document is the jansson library's.    *)
(*                                                                         *)
(* Scheme has no objects: a list whose first element is a pair that starts *)
(* with a symbol is taken for an association list and becomes an object.   *)
(* An atom is [t, v], a proper list [t |-> "list", e] with the sequence e  *)
(* of its elements (the empty list is NIL), and a pair whose cdr is an     *)
(* atom [t |-> "pair", a, d].  As in Scheme, the pair (k . (x y)) is the   *)
(* list (k x y).  Infinities and NaN, which jansson refuses, are left out. *)
(***************************************************************************)
EXTENDS Integers, Sequences, FiniteSets, SequencesExt

CONSTANT MaxInt     \* the largest C int

NIL == [t |-> "nil"]
Atom(t, v) == [t |-> t, v |-> v]
List(e) == IF e = <<>> THEN NIL ELSE [t |-> "list", e |-> e]

IsPair(x) == x.t \in {"list", "pair"}
Car(x) == IF x.t = "list" THEN x.e[1] ELSE x.a
Cdr(x) == IF x.t = "list" THEN List(Tail(x.e)) ELSE x.d
scm_cons(a, d) == CASE d.t = "nil"  -> List(<<a>>)
                    [] d.t = "list" -> List(<<a>> \o d.e)
                    [] OTHER        -> [t |-> "pair", a |-> a, d |-> d]

-----------------------------------------------------------------------------
(* json_build.                                                             *)

(* The test for an association list; the mutant does not look for a symbol.*)
AnyPairFirst(x) == IsPair(x.e[1])
IsAlist(x) == IsPair(x.e[1]) /\ Car(x.e[1]).t = "sym"

(* make_key throws on a key that is neither string nor symbol.  An entry   *)
(* that is no pair has no car to read: no document comes of it either.     *)
HasKey(p) == IsPair(p) /\ Car(p).t \in {"str", "sym"}

(* json_build does not return: scm_to_int has thrown, or make_key.         *)
RECURSIVE Throws(_)
Throws(x) ==
  \/ x.t = "int" /\ x.v > MaxInt
  \/ /\ x.t = "list"
     /\ \E i \in 1 .. Len(x.e) :
          IF IsAlist(x) THEN ~HasKey(x.e[i]) \/ Throws(Cdr(x.e[i]))
                        ELSE Throws(x.e[i])

(* json_object_set_new: a later entry replaces an earlier one.             *)
SetKey(o, k, v) == [j \in DOMAIN o \cup {k} |-> IF j = k THEN v ELSE o[j]]
NoKeys == [k \in {} |-> NIL]

(* A time becomes a string in the format of the code.                      *)
format_time(t) == ToString(t)

RECURSIVE json_build(_)
json_build(x) ==
  CASE x.t \in {"str", "sym"} -> [j |-> "str", v |-> x.v]
    [] x.t \in {"bool", "int", "real"} -> [j |-> x.t, v |-> x.v]
    [] x.t = "nil" -> [j |-> "null"]
    [] x.t = "list" /\ IsAlist(x) ->
         [j |-> "object",
          o |-> FoldLeft(LAMBDA o, p :
                           SetKey(o, Car(p).v, json_build(Cdr(p))),
                         NoKeys, x.e)]
    [] x.t = "list" /\ ~IsAlist(x) ->
         [j |-> "array", e |-> [i \in 1 .. Len(x.e) |-> json_build(x.e[i])]]
    [] x.t = "time" -> [j |-> "str", v |-> format_time(x.v)]
    [] OTHER -> [j |-> "null"]

-----------------------------------------------------------------------------
(* parse.                                                                  *)

(* The keys of an object become symbols.                                   *)
SymbolKey(k) == Atom("sym", k)

(* scm_acons puts a pair in front.                                         *)
Entry(k, v) == scm_cons(k, v)

(* (int) keeps the low bits: documents that json-encode wrote have no      *)
(* integer beyond an int, others may.                                      *)
CInt(n) == ((n + MaxInt + 1) % (2 * (MaxInt + 1))) - (MaxInt + 1)

(* The order of an object's keys is the library's.                         *)
RECURSIVE parse(_)
parse(d) ==
  CASE d.j \in {"str", "bool", "real"} -> Atom(d.j, d.v)
    [] d.j = "int"    -> Atom("int", CInt(d.v))
    [] d.j = "null"   -> NIL
    [] d.j = "array"  -> List([i \in 1 .. Len(d.e) |-> parse(d.e[i])])
    [] d.j = "object" ->
         LET ks == SetToSeq(DOMAIN d.o) IN
         List([i \in 1 .. Len(ks) |-> Entry(SymbolKey(ks[i]),
                                            parse(d.o[ks[i]]))])

-----------------------------------------------------------------------------
(* json_dumps and json_loads, called without a flag that allows more,      *)
(* accept arrays and objects only.                                         *)
IsRoot(d) == d.j \in {"array", "object"}

(* json-encode throws, gives #f or a document, json-decode reads one.      *)
Thrown == [j |-> "thrown"]
False == [j |-> "#f"]

json_encode(x) == IF Throws(x) THEN Thrown
                  ELSE IF IsRoot(json_build(x)) THEN json_build(x) ELSE False

json_decode(d) == parse(d)

=============================================================================
