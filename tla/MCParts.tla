------------------------------- MODULE MCParts ------------------------------
(***************************************************************************)
(* Inputs for TLC.                                                         *)
(***************************************************************************)
EXTENDS Parts

(* Scheme values: atoms of every kind, the lists and pairs of them, and    *)
(* lists and association lists of some of those.                           *)
Symbols == {Atom("sym", "a"), Atom("sym", "b")}
Strings == {Atom("str", "a")}
Atoms == Symbols \cup Strings
         \cup {NIL, Atom("int", 1), Atom("int", 3), Atom("real", 1),
               Atom("bool", FALSE), Atom("time", 7), [t |-> "other"]}
FewAtoms == {NIL, Atom("sym", "a"), Atom("str", "a"), Atom("int", 1)}

Lists(S) == {List(<<x>>) : x \in S} \cup {List(<<x, y>>) : x, y \in S}
Pairs(K, S) == {scm_cons(k, x) : k \in K, x \in S}

Shallow == Lists(Atoms) \cup Pairs(Symbols \cup Strings, Atoms)
Entries == Pairs(Symbols \cup Strings, FewAtoms)
Nested == Pairs(Symbols, Lists(Entries))

SmallValues ==
  Atoms \cup Shallow \cup Lists(Lists(FewAtoms) \cup Entries)
        \cup Lists(Pairs(Symbols, Atoms))
        \cup {List(<<x, y>>) : x \in Nested, y \in Entries}

(* Templates of up to four segments and tables of up to two slots, among   *)
(* them an empty payload and a payload with brackets.                      *)
Segments == {Lit("["), Lit("]"), Lit("x"), Lit("A"), Slot(<<"A">>),
             Slot(<<"A", "B">>), Slot(<<"B">>)}

ShortTemplates == BoundedSeq(Segments, 4)

OneSlot(token, kind, chars) ==
  [token |-> token, payload |-> [kind |-> kind, text |-> chars]]

FewTables ==
  {<<>>,
   <<OneSlot(<<"a">>, "string", <<"x", "B">>)>>,
   <<OneSlot(<<"B">>, "list", <<"x">>), OneSlot(<<"a">>, "symbol", <<"A">>)>>,
   <<OneSlot(<<"b">>, "number", <<"x">>), OneSlot(<<"B">>, "string", <<"A">>)>>,
   <<OneSlot(<<"a", "B">>, "string", <<"[", "[", "A", "]", "]">>)>>}

(* Times around 1970, a clock change in each direction, 1901 and 2038.     *)
MCInstants == (-14 .. 30) \cup {-133, -132, 118, 119, 121, 132}
MCClocks == -3 .. 11
MCZones == {-2, -1, 0, 2, 3}

(* Queries: every short text, and up to three parameters of every shape:   *)
(* with an escape, one that breaks off and one that is none, a plus, two   *)
(* equals, none, no name, nothing, and an escaped NUL.  97 is a, a         *)
(* hexadecimal digit; 122 is z.                                            *)
ShortQueries == BoundedSeq({97, 122, Percent, Amp, Plus, Equal}, 3)
Shapes == {<<97, Equal, Percent, 97, 97>>, <<97, Equal, Percent, 97>>,
           <<97, Equal, Percent, 122>>, <<122, Equal, Plus>>,
           <<97, Equal, Equal, 97>>, <<97>>, <<Equal, 97>>, <<>>,
           <<97, Equal, 122, Percent, 48, 48, 97>>}
MCQueries ==
  ShortQueries \cup {p \o <<Amp>> \o q : p, q \in Shapes}
               \cup {p \o <<Amp>> \o q \o <<Amp>> \o r : p, q, r \in Shapes}
MCTails == {<<NUL>>, <<97, NUL>>}

(* Forms to post, with every character that means something on the way;    *)
(* 233 is a letter outside ASCII.                                          *)
PostValues == {<<>>, <<37, 97>>, <<97, 233>>, <<233>>}
              \cup {<<b>> : b \in {Plus, Space, Amp, Equal}}
PostPairs == {[key |-> <<97>>, val |-> v] : v \in PostValues}
MCForms == {<<>>} \cup {<<p>> : p \in PostPairs}
           \cup {<<p, [key |-> <<122>>, val |-> <<Plus>>]>> : p \in PostPairs}
MCReplies == {<<>>, <<[key |-> "status", val |-> 404]>>,
              <<[key |-> "content-type", val |-> 1]>>}
MCBody == <<1, 2, 3>>

(* Uploads of up to two parts; no payload contains the delimiter.  A plain *)
(* boundary, ones without a dash, with one inside, in quotes, and followed *)
(* by another parameter; a body without a line end.                        *)
Bound == <<Dash, "b">>
HasDelimiter(s) ==
  \E i \in 1 .. Len(s) - 5 :
    SubSeq(s, i, i + 5) = <<CR, LF, Dash, Dash>> \o Bound
Payloads ==
  {s \in BoundedSeq({CR, LF, Dash, MNUL, "b"}, 3)
         \cup {<<c, Dash, Dash, Dash, "b">> : c \in {"a", CR, LF}}
         \cup {<<CR, LF, Dash, Dash, Dash>>} : ~HasDelimiter(<<CR, LF>> \o s)}
FirstParts == {[headers |-> h, payload |-> s] :
                 h \in {<<"d1">>, <<"f1", "type">>}, s \in Payloads}
SecondParts == {[headers |-> <<"type", "d2">>, payload |-> s] :
                  s \in {<<>>, <<CR>>, <<"b", LF>>}}
Sent(parts, b, said, tail) ==
  [parts |-> parts, boundary |-> b, said |-> said, tail |-> tail]
SomeParts == {<<>>, <<[headers |-> <<"d1">>, payload |-> <<Dash, "b">>]>>}
OtherHeaders == {<<<<"b">>, <<"b">>>>, <<<<"b", Dash>>, <<"b", Dash>>>>,
                 <<Bound, <<"quote">> \o Bound \o <<"quote">>>>,
                 <<Bound, Bound \o <<";", "c">>>>}
MCUploads ==
  {Sent(u, Bound, Bound, <<CR, LF>>) :
     u \in {<<>>} \cup {<<p>> : p \in FirstParts}
              \cup {<<p, q>> : p \in FirstParts, q \in SecondParts}}
  \cup {Sent(u, Bound, Bound, <<>>) : u \in SomeParts}
  \cup {Sent(u, h[1], h[2], t) : u \in SomeParts, h \in OtherHeaders,
                                t \in {<<>>, <<CR, LF>>}}

=============================================================================
