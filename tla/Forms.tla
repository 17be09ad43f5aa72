-------------------------------- MODULE Forms -------------------------------
(***************************************************************************)
(* How a request's parameters are read: form_urlencoded, get_in,           *)
(* parse_query and decode_query of src/src/main.c.                         *)
(*                                                                         *)
(* The text arrives in pieces, is cut at POST_MEM_MAX, and is then taken   *)
(* apart in place: parse_query writes terminators over the & and =, and    *)
(* decode_query writes a value over its own escapes.  The buffer is a      *)
(* sequence of bytes, with the terminator and what happens to lie behind   *)
(* it; a step is one turn of a loop of the code.                           *)
(***************************************************************************)
EXTENDS Integers, Sequences, SequencesExt, FiniteSetsExt

CONSTANTS
  Queries,     \* BOUND: the texts, sequences of bytes
  PostMax,     \* POST_MEM_MAX
  Tails        \* BOUND: what lies behind the buffer

VARIABLES
  fpc,      \* where the reader is; "failed" without memory for the body,
            \* "crash" when the process dies of the file it cannot open
  query,    \* the text as the client sent it, later without what was cut
  fbuf,     \* the buffer
  mark, next, eq, get, put,   \* the pointers of parse_query and decode_query
  params    \* the association list, the newest pair first

formVars == <<fpc, query, fbuf, mark, next, eq, get, put, params>>
pointers == <<mark, next, eq, get, put>>

NUL == 0
Space == 32
Percent == 37
Amp == 38
Plus == 43
Equal == 61
NULLPT == 0

FormInit == /\ fpc = "idle" /\ query = <<>> /\ fbuf = <<>> /\ params = <<>>
            /\ mark = 1 /\ next = NULLPT /\ eq = NULLPT /\ get = 1 /\ put = 1

(* A text arrives, in the body of a POST or in the URL.                    *)
FormArrival(q) ==
  /\ fpc = "idle"
  /\ fpc' \in {"post", "get"} /\ query' = q
  /\ UNCHANGED <<fbuf, pointers, params>>

Wanted == Min({Len(query), PostMax})

(* The read loop of form_urlencoded: some of the bytes are there.          *)
form_urlencoded ==
  /\ fpc = "post" /\ Len(fbuf) < Wanted
  /\ \E n \in 1 .. Wanted - Len(fbuf) :
       fbuf' = fbuf \o SubSeq(query, Len(fbuf) + 1, Len(fbuf) + n)
  /\ UNCHANGED <<fpc, query, pointers, params>>

Parse(text) ==
  /\ \E tail \in Tails : fbuf' = text \o <<NUL>> \o tail
  /\ fpc' = "param" /\ mark' = 1 /\ query' = text
  /\ UNCHANGED <<next, eq, get, put, params>>

(* malloc fails, before anything is read: there are no parameters.         *)
form_malloc_fails ==
  /\ fpc = "post" /\ fbuf = <<>>
  /\ fpc' = "failed"
  /\ UNCHANGED <<query, fbuf, pointers, params>>

(* The whole text is also written to /tmp/urlencode, a file of all threads *)
(* and users that nothing reads; when fopen fails, fputs gets NULL.        *)
form_read ==
  /\ fpc = "post" /\ Len(fbuf) = Wanted
  /\ \/ Parse(fbuf)
     \/ fpc' = "crash" /\ UNCHANGED <<query, fbuf, pointers, params>>
get_in == fpc = "get" /\ Parse(query)

-----------------------------------------------------------------------------
(* index(&b[from], c): up to the terminator.                               *)
Index(b, from, c) ==
  LET end == Min({i \in from .. Len(b) : b[i] = NUL})
      hits == {i \in from .. end : b[i] = c}
  IN IF hits = {} THEN NULLPT ELSE Min(hits)

(* The string at a pointer.                                                *)
CString(b, from) == SubSeq(b, from, Index(b, from, NUL) - 1)

(* A terminator is written; the mutant leaves the text in one piece.       *)
Terminate_not(b, p) == b
Terminate(b, p) == IF p = NULLPT THEN b ELSE [b EXCEPT ![p] = NUL]

(* One turn of parse_query: cut off a parameter, and its value.            *)
parse_query ==
  LET amp == Index(fbuf, mark, Amp)
      cut == Terminate(fbuf, amp)
      equal == Index(cut, mark, Equal)
  IN /\ fpc = "param"
     /\ next' = (IF amp = NULLPT THEN NULLPT ELSE amp + 1)
     /\ eq' = equal
     /\ IF equal = NULLPT
          THEN /\ fbuf' = cut
               /\ fpc' = (IF amp = NULLPT THEN "done" ELSE "param")
               /\ mark' = (IF amp = NULLPT THEN mark ELSE amp + 1)
               /\ UNCHANGED <<get, put>>
          ELSE /\ fbuf' = [cut EXCEPT ![equal] = NUL]
               /\ fpc' = "decode" /\ get' = equal + 1 /\ put' = equal + 1
               /\ UNCHANGED mark
     /\ UNCHANGED <<query, params>>

Hex(c) == CASE c \in 48 .. 57 -> c - 48
            [] c \in 65 .. 70 -> c - 55
            [] c \in 97 .. 102 -> c - 87
            [] OTHER -> -1
isxdigit(c) == Hex(c) >= 0

(* Of two hexadecimal digits their byte, of others some byte but NUL.      *)
Junk == 255
decode_hex(h, l) == IF isxdigit(l) THEN 16 * Hex(h) + Hex(l) ELSE Junk

(* One turn of decode_query.                                               *)
decode_query ==
  LET c == fbuf[get]
      escape == c = Percent /\ isxdigit(fbuf[get + 1])
      byte == IF c = Plus THEN Space
              ELSE IF escape THEN decode_hex(fbuf[get + 1], fbuf[get + 2])
              ELSE c
  IN /\ fpc = "decode" /\ c # NUL
     /\ fbuf' = [fbuf EXCEPT ![put] = byte]
     /\ put' = put + 1
     /\ get' = get + (IF escape THEN 3 ELSE 1)
     /\ UNCHANGED <<fpc, query, mark, next, eq, params>>

(* Every byte of a value becomes the character with the byte's number,     *)
(* whatever encoding the client wrote it in.                               *)
scm_from_latin1_string(bytes) == [i \in 1 .. Len(bytes) |-> bytes[i]]

(* decode_query returns and the pair goes on the list.                     *)
Acons ==
  LET done == [fbuf EXCEPT ![put] = NUL]
      pair == [key |-> CString(done, mark),
               val |-> scm_from_latin1_string(CString(done, eq + 1))]
  IN /\ fpc = "decode" /\ fbuf[get] = NUL
     /\ fbuf' = done
     /\ params' = <<pair>> \o params
     /\ fpc' = (IF next = NULLPT THEN "done" ELSE "param")
     /\ mark' = (IF next = NULLPT THEN mark ELSE next)
     /\ UNCHANGED <<query, next, eq, get, put>>

FormStep == form_urlencoded \/ form_malloc_fails \/ form_read \/ get_in
            \/ parse_query \/ decode_query \/ Acons
FormNext == (\E q \in Queries : FormArrival(q)) \/ FormStep

FormSpec == FormInit /\ [][FormNext]_formVars

-----------------------------------------------------------------------------
(* What a text means: the parameters between the ampersands, each decoded  *)
(* by itself.                                                              *)
Split(text, sep) ==
  LET cuts == {0, Len(text) + 1} \cup {i \in 1 .. Len(text) : text[i] = sep}
      ends == SetToSortSeq(cuts, <)
  IN [i \in 1 .. Len(ends) - 1 |-> SubSeq(text, ends[i] + 1, ends[i + 1] - 1)]

Broken == -1   \* an escape that breaks off after its first digit
FormMeaning(text) ==
  LET n == Len(text)
      from[i \in 1 .. n + 3] ==
        IF i > n THEN <<>>
        ELSE IF text[i] = Plus THEN <<Space>> \o from[i + 1]
        ELSE IF text[i] = Percent /\ i < n /\ isxdigit(text[i + 1])
          THEN (IF i + 2 <= n THEN <<decode_hex(text[i + 1], text[i + 2])>>
                              ELSE <<Broken>>) \o from[i + 3]
        ELSE <<text[i]>> \o from[i + 1]
  IN from[1]

FormPairs(text) ==
  LET parts == SelectSeq(Split(text, Amp), LAMBDA p : Contains(p, Equal))
  IN [i \in 1 .. Len(parts) |->
        LET p == parts[i]
            e == Min({k \in 1 .. Len(p) : p[k] = Equal})
        IN [key |-> SubSeq(p, 1, e - 1),
            val |-> FormMeaning(SubSeq(p, e + 1, Len(p)))]]

(* Properties.                                                             *)

(* Every parameter of a query that is read reaches the responder byte for  *)
(* byte (a byte above 127 as the character of that number, which is not    *)
(* the one the client sent in UTF-8) and in its place, whatever pieces the *)
(* text arrived in, as long as no escape in it or before it breaks off:    *)
(* the cut at POST_MEM_MAX, wherever it falls, costs the parameter it      *)
(* falls into and those behind, and none before.  A value that holds the   *)
(* escape %00 is cut there (scm_from_latin1_string takes a C string), and  *)
(* no other parameter suffers from it.                                     *)
ParamsIndependent ==
  fpc = "done" =>
    LET sent == FormPairs(query) IN
    \A i \in 1 .. Len(sent) :
      (\A k \in 1 .. i : ~Contains(sent[k].val, Broken)) =>
        /\ Len(params) >= i
        /\ LET got == Reverse(params)[i] IN
             /\ got.key = sent[i].key
             /\ got.val = CString(sent[i].val \o <<NUL>>, 1)

=============================================================================
