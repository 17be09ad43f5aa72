------------------------------ MODULE Template ------------------------------
(***************************************************************************)
(* fill-template of src/src/template.c: text with slots [[NAME]], a table  *)
(* of names and payloads, and a flag that keeps the slots the table does   *)
(* not name, to be filled by a later call.                                 *)
(*                                                                         *)
(* A text is a sequence of characters.  Only brackets and the case of a    *)
(* letter matter to the scan, so the characters are "[", "]", one letter   *)
(* that is not upper case, and upper-case letters.                         *)
(***************************************************************************)
EXTENDS Naturals, Sequences, SequencesExt

Upper == {"A", "B"}
toupper == [c \in {"a", "b", "A", "B"} |->
              CASE c = "a" -> "A" [] c = "b" -> "B" [] OTHER -> c]

-----------------------------------------------------------------------------
(* The table: symbols are put in upper case, a payload that is no string,  *)
(* number or symbol is empty.                                              *)
upcase(token) == [i \in 1 .. Len(token) |-> toupper[token[i]]]
Payload(p) == IF p.kind \in {"string", "number", "symbol"} THEN p.text ELSE <<>>

(* The slots of that name; the first one counts.                           *)
Matches(table, name) == SelectSeq(table, LAMBDA s : upcase(s.token) = name)

(* strstr of a mark, which is one character twice; 0 if there is none.     *)
strstr(s, c) ==
  SelectInSeq([i \in 1 .. Len(s) - 1 |-> <<s[i], s[i + 1]>>],
              LAMBDA w : w = <<c, c>>)

(* From a slot mark at i on, the place that is two before an upper-case    *)
(* letter or the end: [[[NAME is a bracket and a mark.  The mutant takes   *)
(* the mark where it was found.                                            *)
NoSlide(s, i) == i
Slide(s, i) == CHOOSE j \in i .. Len(s) :
                 /\ j + 2 > Len(s) \/ s[j + 2] \in Upper
                 /\ \A k \in i .. j - 1 : k + 2 <= Len(s) /\ s[k + 2] \notin Upper

(* A slot that the table does not name.                                    *)
Unfilled(partial, name) ==
  IF partial THEN <<"[", "[">> \o name \o <<"]", "]">> ELSE <<>>

(* One round of the loop per slot.  An end mark at the very place of the   *)
(* slot mark leaves the name unterminated: it is the rest of the text.     *)
RECURSIVE fill_template(_, _, _)
fill_template(pin, partial, table) ==
  IF strstr(pin, "[") = 0 THEN pin
  ELSE LET mark == Slide(pin, strstr(pin, "["))
           s == SubSeq(pin, mark, Len(pin))
           end == strstr(s, "]")
           name == SubSeq(s, 3, IF end = 1 THEN Len(s) ELSE end - 1)
           hits == Matches(table, name)
       IN SubSeq(pin, 1, mark - 1) \o
          (IF end = 0 THEN s
           ELSE (IF hits = <<>> THEN Unfilled(partial, name)
                                ELSE Payload(hits[1].payload))
                \o fill_template(SubSeq(s, end + 2, Len(s)), partial, table))

-----------------------------------------------------------------------------
(* A template as its author sees it: literal text and slots.               *)
Lit(c) == [kind |-> "lit", text |-> <<c>>]
Slot(name) == [kind |-> "slot", text |-> name]

Written(seg) == IF seg.kind = "lit" THEN seg.text
                ELSE <<"[", "[">> \o seg.text \o <<"]", "]">>
Text(t) == FlattenSeq([i \in 1 .. Len(t) |-> Written(t[i])])

(* Literal text has no two opening brackets but in front of a slot.        *)
WellFormed(t) ==
  \A i \in 1 .. Len(t) - 1 :
    t[i] = Lit("[") /\ t[i + 1] = Lit("[") =>
      i + 2 <= Len(t) /\ (t[i + 2].kind = "slot" \/ t[i + 2] = Lit("["))

(* What a segment becomes, by its meaning.                                 *)
Filled(seg, partial, table) ==
  LET hits == Matches(table, seg.text) IN
  IF seg.kind = "lit" THEN seg.text
  ELSE IF hits # <<>> THEN Payload(hits[1].payload)
  ELSE IF partial THEN Written(seg) ELSE <<>>

Meaning(t, partial, table) ==
  FlattenSeq([i \in 1 .. Len(t) |-> Filled(t[i], partial, table)])

=============================================================================
