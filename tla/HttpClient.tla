----------------------------- MODULE HttpClient -----------------------------
(***************************************************************************)
(* The HTTP client of src/src/http.c, talking to a gusher server: http-get *)
(* with or without a form, on a handle of its own or on one that is used   *)
(* again, the server reading the form as Forms does, and the reply coming  *)
(* back in pieces.  The body is the one http-get-raw returns; credentials, *)
(* which touch nothing here, are left out.  libcurl is external.           *)
(***************************************************************************)
EXTENDS Forms

CONSTANTS
  PostForms,   \* BOUND: the forms posted, sequences of keys and values, which
               \* are strings of characters below 2048, none of them NUL; keys
               \* have only letters (post_data does not escape them)
  Replies,     \* BOUND: the replies' headers
  ReplyBody,   \* BOUND: the body of a reply, a sequence of bytes in UTF-8
               \* (others throw, in scm_from_utf8_stringn)
  MaxGets      \* BOUND: calls of http-get

VARIABLES
  hpc,      \* where the client is
  gets,     \* calls so far
  opts,     \* the options set on the handle: post, fields
  form,     \* the form of the call in progress: <<f>>, or none <<>>
  chunks,   \* the pieces of the reply's body, the newest first
  headers,  \* the reply's headers, the newest first
  result    \* what http-get returned: <<>> is #f

clientVars == <<hpc, gets, opts, form, chunks, headers, result>>
httpVars == <<clientVars, formVars>>

(* new_handle: CURLOPT_POST is 0.                                          *)
new_handle == [post |-> FALSE, fields |-> <<>>]

HttpInit == /\ FormInit /\ hpc = "ready" /\ gets = 0 /\ opts = new_handle
            /\ form = <<>> /\ chunks = <<>> /\ headers = <<>> /\ result = <<>>

-----------------------------------------------------------------------------
(* curl_easy_escape, external: letters and digits stay.                    *)
HexDigit(n) == IF n < 10 THEN 48 + n ELSE 55 + n
Unreserved == (48 .. 57) \cup (65 .. 90) \cup (97 .. 122)
curl_easy_escape(text) ==
  FlattenSeq([i \in 1 .. Len(text) |->
    LET c == text[i] IN
    IF c \in Unreserved THEN <<c>>
    ELSE <<Percent, HexDigit(c \div 16), HexDigit(c % 16)>>])

(* The string in UTF-8: one byte for ASCII, two for the others (see the    *)
(* bound of PostForms).                                                    *)
scm_to_utf8_string(text) ==
  FlattenSeq([i \in 1 .. Len(text) |->
    LET c == text[i] IN
    IF c < 128 THEN <<c>> ELSE <<192 + c \div 64, 128 + (c % 64)>>])

(* The pairs are pushed on a list and written from its head: in reverse,   *)
(* which the server's own list undoes.                                     *)
post_data(f) ==
  LET duple(i) == scm_to_utf8_string(f[i].key) \o <<Equal>>
                    \o curl_easy_escape(scm_to_utf8_string(f[i].val))
      texts == Reverse([i \in 1 .. Len(f) |-> duple(i)])
  IN FlattenSeq([i \in 1 .. Len(f) |->
                   IF i = 1 THEN texts[i] ELSE <<Amp>> \o texts[i]])

(* The options of a call on a handle.  The mutant does not take back the   *)
(* option to post.                                                         *)
SetOptions_sticky(h, f) ==
  IF f = <<>> THEN h ELSE [post |-> TRUE, fields |-> post_data(f[1])]
SetOptions(h, f) ==
  IF f = <<>> THEN [h EXCEPT !.post = FALSE]
              ELSE [post |-> TRUE, fields |-> post_data(f[1])]

(* http-get on a URL, or on the handle that was used before.               *)
http_get(f) ==
  /\ hpc = "ready" /\ gets < MaxGets
  /\ gets' = gets + 1 /\ hpc' = "perform" /\ form' = f
  /\ \E h \in {new_handle, opts} : opts' = SetOptions(h, f)
  /\ chunks' = <<>> /\ headers' = <<>>
  /\ UNCHANGED <<result, formVars>>

(* The request goes out.                                                   *)
curl_easy_perform ==
  /\ hpc = "perform" /\ fpc = "idle"
  /\ hpc' = "wait"
  /\ fpc' = (IF opts.post THEN "post" ELSE "get")
  /\ query' = (IF opts.post THEN opts.fields ELSE <<>>)
  /\ UNCHANGED <<gets, opts, form, chunks, headers, result, fbuf, pointers,
                 params>>

(* The server has read the request and replies: the headers, as lines.     *)
header_handler ==
  /\ hpc = "wait" /\ fpc \in {"done", "failed"}
  /\ \E r \in Replies : headers' = Reverse(r)
  /\ hpc' = "body"
  /\ UNCHANGED <<gets, opts, form, chunks, result, formVars>>

Received == FoldFunction(+, 0, [i \in DOMAIN chunks |-> Len(chunks[i])])

(* A piece of the body.                                                    *)
write_handler ==
  /\ hpc = "body" /\ Received < Len(ReplyBody)
  /\ \E n \in Received + 1 .. Len(ReplyBody) :
       chunks' = <<SubSeq(ReplyBody, Received + 1, n)>> \o chunks
  /\ UNCHANGED <<hpc, gets, opts, form, headers, result, formVars>>

(* The pieces are copied into the bag from its end on.                     *)
Bag(pieces) == FlattenSeq(Reverse(pieces))

Status == 200
WithStatus(h) == <<[key |-> "status", val |-> Status]>> \o h

(* The connection is closed on the server's side; it is ready for another. *)
Reset == /\ fpc' = "idle" /\ query' = <<>> /\ fbuf' = <<>> /\ params' = <<>>
         /\ mark' = 1 /\ next' = NULLPT /\ eq' = NULLPT /\ get' = 1 /\ put' = 1

http_get_returns ==
  /\ hpc = "body" /\ Received = Len(ReplyBody)
  /\ result' = <<[headers |-> WithStatus(headers), body |-> Bag(chunks)]>>
  /\ hpc' = "ready" /\ Reset
  /\ UNCHANGED <<gets, opts, form, chunks, headers>>

(* The transfer fails, before the server has anything or later, or with    *)
(* the server's process, which is not started again here.                  *)
http_get_fails ==
  /\ hpc \in {"perform", "body"} \/ (hpc = "wait" /\ fpc = "crash")
  /\ result' = <<>> /\ hpc' = "ready"
  /\ IF fpc = "crash" THEN UNCHANGED formVars ELSE Reset
  /\ UNCHANGED <<gets, opts, form, chunks, headers>>

HttpNext ==
  \/ http_get(<<>>) \/ \E f \in PostForms : http_get(<<f>>)
  \/ curl_easy_perform \/ (FormStep /\ UNCHANGED clientVars)
  \/ header_handler \/ write_handler \/ http_get_returns \/ http_get_fails

HttpSpec == HttpInit /\ [][HttpNext]_httpVars

-----------------------------------------------------------------------------
(* Properties.                                                             *)

(* A string read back from its UTF-8.                                      *)
FromUtf8(bytes) ==
  LET n == Len(bytes)
      from[i \in 1 .. n + 2] ==
        IF i > n THEN <<>>
        ELSE IF bytes[i] < 128 THEN <<bytes[i]>> \o from[i + 1]
        ELSE <<(bytes[i] - 192) * 64 + bytes[i + 1] - 128>> \o from[i + 2]
  IN from[1]

(* The server's responder finds the parameters that this call of http-get  *)
(* was given, in the order given, or none if it was given none, also on a  *)
(* handle that posted another form before.  A value of ASCII characters    *)
(* arrives as it is; any other arrives as a different string, whose        *)
(* characters are the bytes of its UTF-8, and can be had back from them.   *)
FormArrives ==
  hpc = "wait" /\ fpc = "done" /\ Len(opts.fields) <= PostMax =>
    LET given == IF form = <<>> THEN <<>> ELSE form[1] IN
    /\ Len(params) = Len(given)
    /\ \A i \in 1 .. Len(given) :
         /\ params[i].key = given[i].key
         /\ FromUtf8(params[i].val) = given[i].val
         /\ ToSet(given[i].val) \subseteq 0 .. 127
              => params[i].val = given[i].val

(* However the reply is cut in pieces, http-get returns its body whole,    *)
(* and under status the status of the response, whatever headers came.     *)
ReplyWhole ==
  result # <<>> =>
    /\ result[1].body = ReplyBody
    /\ SelectSeq(result[1].headers,
                 LAMBDA p : p.key = "status")[1].val = Status

(* Between gusher's own client and server the form of each call arrives,   *)
(* byte for byte, and its reply comes back whole.                          *)
HttpGetFaithful == FormArrives /\ ReplyWhole

=============================================================================
