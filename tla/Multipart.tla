------------------------------ MODULE Multipart -----------------------------
(***************************************************************************)
(* File uploads: form_multipart, memscan and process_chunk of              *)
(* src/src/main.c.  The body is copied into a file as it arrives, the file *)
(* is mapped, and the map is searched for the boundary, part by part.      *)
(*                                                                         *)
(* The body is a sequence of characters, with one token for every header   *)
(* of a part: a Disposition for a Content-Disposition header with a field  *)
(* name and perhaps a file name, "type" for any other.  Behind the end of  *)
(* a mapped file its last page reads as NULs.  A client that breaks off is *)
(* in RequestPool (Hang and PostIn).  Boundaries fit the 256 bytes of      *)
(* rboundary (RFC 2046 allows 70 characters).                              *)
(***************************************************************************)
EXTENDS Integers, Sequences, SequencesExt, FiniteSetsExt

CONSTANTS
  Uploads,   \* BOUND: the forms as they are sent: parts, the boundary, the
             \* text behind "boundary=", what follows the last "--"
  Padding    \* BOUND: NULs behind the end of the file

CR == "CR"
LF == "LF"
Dash == "-"
MNUL == "NUL"

(* Headers of the parts: field name, and file name or none.                *)
Disposition == [d1 |-> [key |-> "x", file |-> ""],
                d2 |-> [key |-> "y", file |-> ""],
                f1 |-> [key |-> "x", file |-> "photo"]]

VARIABLES
  mpc,      \* where the reader is; "crash" after a step through NULL
  upload,   \* history: the form
  body,     \* the body as the client sends it
  mcache,   \* the file, then its map
  mcursor, field,   \* the scan
  mquery    \* the association list, the newest first

mpVars == <<mpc, upload, body, mcache, mcursor, field, mquery>>

NoUpload == [parts |-> <<>>, boundary |-> <<>>, said |-> <<>>, tail |-> <<>>]

MpInit == /\ mpc = "idle" /\ upload = NoUpload /\ body = <<>> /\ mcache = <<>>
          /\ mcursor = 1 /\ field = 0 /\ mquery = <<>>

(* A part: its headers, an empty line, the payload, and a delimiter.       *)
Delimiter(u) == <<CR, LF, Dash, Dash>> \o u.boundary
PartText(p) == FlattenSeq([i \in 1 .. Len(p.headers) |->
                             <<p.headers[i], CR, LF>>])
               \o <<CR, LF>> \o p.payload
BodyText(u) ==
  Tail(Tail(Delimiter(u)))
    \o FlattenSeq([i \in 1 .. Len(u.parts) |->
                     <<CR, LF>> \o PartText(u.parts[i]) \o Delimiter(u)])
    \o <<Dash, Dash>> \o u.tail

(* index: the place of the next c before a NUL or the end, if any.         *)
MpIndex(text, from, c) ==
  LET stops == {i \in from .. Len(text) : text[i] \in {c, MNUL}}
  IN {i \in stops : i = Min(stops) /\ text[i] = c}

(* form_multipart begins: what follows the first dash of the header's text *)
(* is the boundary it looks for; without one strcat reads from NULL.       *)
MpArrival(u) ==
  /\ mpc = "idle"
  /\ mpc' = IF MpIndex(u.said, 1, Dash) = {} THEN "crash" ELSE "read"
  /\ upload' = u /\ body' = BodyText(u)
  /\ UNCHANGED <<mcache, mcursor, field, mquery>>

(* The read loop: as much as is there goes to the file, until the declared *)
(* length has come.                                                        *)
MpRead ==
  /\ mpc = "read" /\ Len(mcache) < Len(body)
  /\ \E n \in {Len(body) \div 2, Len(body)} :
       /\ n > Len(mcache)
       /\ mcache' = mcache \o SubSeq(body, Len(mcache) + 1, n)
  /\ UNCHANGED <<mpc, upload, body, mcursor, field, mquery>>

(* cursor = index(..., '\n') + 1: behind the line end, or at address 1,    *)
(* which memscan reads next.                                               *)
SkipLine(map, from) ==
  LET ends == MpIndex(map, from, LF) IN
  IF ends = {} THEN mpc' = "crash" /\ UNCHANGED mcursor
               ELSE mpc' = "scan" /\ \E i \in ends : mcursor' = i + 1

(* The file is mapped and the first boundary's line skipped.               *)
MpMap ==
  LET map == mcache \o [i \in 1 .. Padding |-> MNUL] IN
  /\ mpc = "read" /\ Len(mcache) = Len(body)
  /\ mcache' = map /\ field' = Len(mcache)
  /\ SkipLine(map, 1)
  /\ UNCHANGED <<upload, body, mquery>>

-----------------------------------------------------------------------------
(* What separates parts; the mutant has lost the line end before it.       *)
Said == LET said == upload.said IN
        SubSeq(said, Min(MpIndex(said, 1, Dash)), Len(said))
rboundary == <<CR, LF, Dash, Dash>> \o Said

(* Where the needle begins, within the next field tokens.                  *)
memscan(map, from, len) ==
  LET n == Len(rboundary)
      hits == {i \in from .. from + len - n :
                 \A k \in 1 .. n : i + k - 1 <= Len(map)
                                   /\ map[i + k - 1] = rboundary[k]}
  IN IF hits = {} THEN {} ELSE {Min(hits)}

(* A part: the headers up to the empty line, then the payload, which is    *)
(* the value, or goes to a file whose name is the value.                   *)
process_chunk(chunk) ==
  LET ends == {i \in 1 .. Len(chunk) : chunk[i] = LF}
      start(i) == Max({k + 1 : k \in {e \in ends : e < i}} \cup {1})
      empty == {i \in ends : i = start(i) \/ (i = start(i) + 1
                                              /\ chunk[start(i)] = CR)}
      pt == Min(empty)
      disp == CHOOSE d \in DOMAIN Disposition :
                \E i \in 1 .. pt : chunk[i] = d
  IN [key |-> Disposition[disp].key, file |-> Disposition[disp].file,
      data |-> SubSeq(chunk, pt + 1, Len(chunk))]

(* One turn of the loop over the parts.                                    *)
MpPart ==
  /\ mpc = "scan"
  /\ \E stop \in memscan(mcache, mcursor, field) :
       /\ mquery' = <<process_chunk(SubSeq(mcache, mcursor, stop - 1))>>
                    \o mquery
       /\ mcache' = [mcache EXCEPT ![stop] = MNUL]
       /\ SkipLine(mcache, stop + Len(rboundary))
       /\ field' = field - (mcursor' - mcursor)
  /\ UNCHANGED <<upload, body>>

MpDone ==
  /\ mpc = "scan" /\ memscan(mcache, mcursor, field) = {}
  /\ mpc' = "done"
  /\ UNCHANGED <<upload, body, mcache, mcursor, field, mquery>>

MpNext == \/ \E u \in Uploads : MpArrival(u)
          \/ MpRead \/ MpMap \/ MpPart \/ MpDone

MpSpec == MpInit /\ [][MpNext]_mpVars

-----------------------------------------------------------------------------
(* What the client put into a part.                                        *)
PartMeaning(p) ==
  LET d == CHOOSE h \in ToSet(p.headers) : h \in DOMAIN Disposition
  IN [key |-> Disposition[d].key, file |-> Disposition[d].file,
      data |-> p.payload]

(* Properties.                                                             *)

(* What form_multipart takes for the boundary is the boundary: it begins   *)
(* with a dash, and it is neither quoted nor followed by anything.         *)
Understood ==
  upload.said = upload.boundary /\ MpIndex(upload.said, 1, Dash) = {1}


=============================================================================
