----------------------------- MODULE RequestHead ----------------------------
(***************************************************************************)
(* How the request a responder sees is put together: mygetline,            *)
(* start_request, the first half of process_request, and run_responder of  *)
(* src/src/main.c.                                                         *)
(*                                                                         *)
(* The request is one association list, to whose front everything is       *)
(* added: the fields of the request line, the client's headers under their *)
(* own names, and what the server knows.  assq-ref finds the newest.       *)
(***************************************************************************)
EXTENDS Integers, Sequences, SequencesExt

CONSTANTS
  HeaderNames,   \* BOUND: names of headers, in lower case
  MaxLines       \* BOUND: lines of a head

(* The empty name stands for a line that is not a header.                  *)
ASSUME HeaderNamesOK == "" \notin HeaderNames

VARIABLES
  rpc,       \* where process_request is
  request,   \* the association list, the newest pair first
  lines,     \* the lines read
  ended      \* history: the client has sent an empty line with CR LF

headVars == <<rpc, request, lines, ended>>

HeadInit == rpc = "read" /\ request = <<>> /\ lines = <<>> /\ ended = FALSE

(* Where a field comes from: the server, the request line, or the header   *)
(* line with that number.                                                  *)
Server == 0
Line == -1
Post == -2
Get == -3

Field(k, v) == <<[key |-> k, val |-> v]>>
HeadLine == rpc = "read" /\ Len(lines) < MaxLines
Read(l) == lines' = Append(lines, l)

(* The request line.                                                       *)
start_request(method) ==
  /\ HeadLine /\ request = <<>>
  /\ Read([key |-> "", val |-> method])
  /\ request' = Field("query-string", Line) \o Field("url-path", Line)
                \o Field("url", Line) \o Field("method", method)
  /\ UNCHANGED <<rpc, ended>>

(* A header: its name, however it is spelt, in lower case.                 *)
downcase(h) == h.name

header_line(h) ==
  /\ HeadLine /\ request # <<>>
  /\ Read([key |-> h.name, val |-> Len(lines)])
  /\ request' = Field(downcase(h), Len(lines)) \o request
  /\ UNCHANGED <<rpc, ended>>

(* A line without a colon changes nothing.                                 *)
other_line ==
  /\ HeadLine /\ request # <<>>
  /\ Read([key |-> "", val |-> Line])
  /\ UNCHANGED <<rpc, request, ended>>

(* The empty line.  If it ends with LF alone, mygetline looks at the byte  *)
(* before its buffer, and if that is a CR it does not see the line's end:  *)
(* the line is then one without a colon.                                   *)
empty_line(crlf) ==
  /\ HeadLine /\ request # <<>>
  /\ Read([key |-> "", val |-> Line])
  /\ ended' = (ended \/ crlf)
  /\ rpc' \in IF crlf THEN {"fields"} ELSE {"fields", "read"}
  /\ UNCHANGED request

(* A line that does not fit the buffer ends the head, a client that goes   *)
(* away the request.                                                       *)
mygetline_fails ==
  /\ HeadLine
  /\ rpc' \in {"fields", "gone"}
  /\ UNCHANGED <<request, lines, ended>>

(* What the server knows of the connection and the query.  The mutant puts *)
(* it behind what the client said.                                         *)
Known == Field("query", Server) \o Field("remote-port", Server)
         \o Field("remote-host", Server)
WithKnown_last(r) == r \o Known
WithKnown(r) == Known \o r

server_fields ==
  /\ rpc = "fields"
  /\ request' = WithKnown(request)
  /\ rpc' = "respond"
  /\ UNCHANGED <<lines, ended>>

Has(r, k) == \E i \in 1 .. Len(r) : r[i].key = k
assq_first(r, k) ==
  r[CHOOSE i \in 1 .. Len(r) : /\ r[i].key = k
                               /\ \A j \in 1 .. i - 1 : r[j].key # k].val

(* A handler is found, or there is none for the path.                      *)
run_responder_head ==
  /\ rpc = "respond"
  /\ \/ /\ Has(request, "url-path")
        /\ request' = Field("path-info", Server) \o Field("session", Server)
                      \o request
     \/ UNCHANGED request
  /\ rpc' = "responder"
  /\ UNCHANGED <<lines, ended>>

HeadNext ==
  \/ \E m \in {Post, Get} : start_request(m)
  \/ \E n \in HeaderNames, c \in BOOLEAN :
       header_line([name |-> n, capital |-> c])
  \/ other_line \/ \E crlf \in BOOLEAN : empty_line(crlf)
  \/ mygetline_fails \/ server_fields \/ run_responder_head

HeadSpec == HeadInit /\ [][HeadNext]_headVars

-----------------------------------------------------------------------------
(* Properties.                                                             *)

SaidHeaders(n) == {i \in 1 .. Len(lines) : lines[i].key = n}

(* The names that are the server's: some always, some once a handler for   *)
(* the path is known.                                                      *)
Handled == /\ Has(request, "path-info")
           /\ assq_first(request, "path-info") = Server
ServerNames == {"remote-host", "remote-port", "query"}
               \cup (IF Handled THEN {"session", "path-info"} ELSE {})

(* When the responder runs, the head has been read to its empty line and   *)
(* not beyond; remote-host, remote-port and query, and session and         *)
(* path-info once there is a handler, are the server's, whatever headers   *)
(* the client sends; and every other name has its last header's value.     *)
ServerFieldsWin ==
  /\ ended => rpc # "read"
  /\ rpc = "responder" =>
       /\ \A k \in ServerNames : assq_first(request, k) = Server
       /\ \A n \in HeaderNames \ ServerNames :
            SaidHeaders(n) # {} =>
              \E i \in SaidHeaders(n) :
                /\ \A j \in SaidHeaders(n) : j <= i
                /\ assq_first(request, n) = lines[i].val

=============================================================================
