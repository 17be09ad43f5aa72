----------------------------- MODULE Conversions ----------------------------
(***************************************************************************)
(* The two conversions that responders apply to their data: json-encode    *)
(* with json-decode, and fill-template.  A behaviour is a sequence of      *)
(* calls on one value or on one template, as an application makes them:    *)
(* a value is encoded, stored, and decoded later; a template is filled at  *)
(* once, or in part and later completely.                                  *)
(***************************************************************************)
EXTENDS Json, Template

CONSTANTS
  Inputs,      \* BOUND: the Scheme values encoded
  Templates,   \* BOUND: the templates, each a sequence of segments
  Tables       \* BOUND: the tables of slots

VARIABLES
  stage,                     \* the calls made so far
  val, doc, back,            \* a value, its encoding, and what that decodes to
  template, first, second,   \* a template and two tables
  text                       \* what has become of the template

vars == <<stage, val, doc, back, template, first, second, text>>
jsonVars == <<val, doc, back>>
textVars == <<template, first, second, text>>

Init ==
  /\ doc = False /\ back = NIL
  /\ \/ /\ stage = "value" /\ val \in Inputs
        /\ template = <<>> /\ first = <<>> /\ second = <<>> /\ text = <<>>
     \/ /\ stage = "template" /\ val = NIL
        /\ template \in {t \in Templates : WellFormed(t)}
        /\ first \in Tables /\ second \in Tables
        /\ text = Text(template)

Encode == /\ stage = "value"
          /\ doc' = json_encode(val)
          /\ stage' = "encoded"
          /\ UNCHANGED <<val, back, textVars>>

Decode == /\ stage = "encoded" /\ IsRoot(doc)
          /\ back' = json_decode(doc)
          /\ stage' = "decoded"
          /\ UNCHANGED <<val, doc, textVars>>

(* (fill-template text partial slot ...)                                   *)
Fill(from, partial, table, to) ==
  /\ stage = from
  /\ text' = fill_template(text, partial, table)
  /\ stage' = to
  /\ UNCHANGED <<template, first, second, jsonVars>>

Next == \/ Encode \/ Decode
        \/ Fill("template", FALSE, first, "filled")
        \/ Fill("template", TRUE, first, "partly")
        \/ Fill("partly", FALSE, second, "completed")

Spec == Init /\ [][Next]_vars

-----------------------------------------------------------------------------
(* Properties of json-encode and json-decode.                              *)

(* Plain data: no symbols, and no pair but in lists.                       *)
RECURSIVE Plain(_)
Plain(x) == \/ x.t \in {"str", "bool", "real", "nil"}
            \/ x.t = "int" /\ x.v <= MaxInt
            \/ x.t = "list" /\ \A i \in 1 .. Len(x.e) : Plain(x.e[i])

(* A list of strings, numbers, booleans and lists can be encoded and comes *)
(* back from json-decode as it was: no list of lists is taken for an       *)
(* association list on either way.                                         *)
DataRoundTrip ==
  val.t = "list" /\ Plain(val) => /\ stage = "encoded" => IsRoot(doc)
                                  /\ stage = "decoded" => back = val

(* An association list whose keys are distinct symbols.                    *)
IsRecord(x) ==
  /\ x.t = "list"
  /\ \A i \in 1 .. Len(x.e) : IsPair(x.e[i]) /\ Car(x.e[i]).t = "sym"
  /\ \A i, k \in 1 .. Len(x.e) : Car(x.e[i]) = Car(x.e[k]) => i = k

(* Where assq-ref finds the key, and what it finds.                        *)
Hits(x, key) == SelectSeq(x.e, LAMBDA p : IsPair(p) /\ Car(p) = key)
assq_ref(x, key) == Cdr(Hits(x, key)[1])

(* What a session relies on: in what json-decode gives back, assq-ref      *)
(* finds every key of the record that json-encode was given, with the      *)
(* value stored there, as JSON sees it, and there is nothing else.         *)
LookupPreserved ==
  stage = "decoded" /\ IsRecord(val) =>
    /\ \A i \in 1 .. Len(val.e) :
         LET key == Car(val.e[i]) IN
         /\ Hits(back, key) # <<>>
         /\ json_build(assq_ref(back, key)) = json_build(assq_ref(val, key))
    /\ Len(back.e) = Len(val.e)

(* What json-encode produced once, it produces again from what json-decode *)
(* gave back: a row that is read and written back, as session-set does,    *)
(* keeps its meaning.                                                      *)
StableUnderRewrite ==
  stage = "decoded" => ~Throws(back) /\ json_build(back) = doc

(* json-encode and json-decode keep what a program relies on: plain data   *)
(* comes back as it was, a record's keys find their values, and a document *)
(* that is read and written back stays the same.                           *)
JsonFaithful == DataRoundTrip /\ LookupPreserved /\ StableUnderRewrite

-----------------------------------------------------------------------------
(* Properties of fill-template.                                            *)

(* fill-template replaces exactly the slots, each by its own payload, and  *)
(* leaves the text between them alone, brackets that touch a slot          *)
(* included; a slot without payload vanishes or stays, as asked.           *)
FillsSlots ==
  /\ stage = "filled" => text = Meaning(template, FALSE, first)
  /\ stage = "partly" => text = Meaning(template, TRUE, first)

(* Payloads of letters, and no two opening brackets next to each other in  *)
(* the literal text: no payload makes a slot of the text around it.        *)
NoLiteralMark(t) ==
  \A i \in 1 .. Len(t) - 1 : t[i] = Lit("[") => t[i + 1] # Lit("[")
Inert(table) ==
  \A i \in 1 .. Len(table) :
    LET p == Payload(table[i].payload) IN
    p # <<>> /\ \A k \in 1 .. Len(p) : p[k] \notin {"[", "]"}

(* Filling in two stages is filling at once: what the first call keeps,    *)
(* the second one finds, and payloads of the first are not looked into.    *)
TwoStages ==
  stage = "completed" /\ Inert(first) /\ NoLiteralMark(template) =>
    text = Meaning(template, FALSE, first \o second)

(* fill-template fills the slots and nothing else, and filling a template  *)
(* in two stages is filling it at once.                                    *)
TemplateFaithful == FillsSlots /\ TwoStages

=============================================================================
