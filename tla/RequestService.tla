--------------------------- MODULE RequestService ---------------------------
(***************************************************************************)
(* What the request path of src/src/main.c promises to clients: accepted   *)
(* connections are begun in order of arrival, and each one that is begun   *)
(* is answered at most once, with the answer to its own request, unless it *)
(* is found closed.  There are no frames, threads, locks or descriptors.   *)
(***************************************************************************)
EXTENDS Naturals

CONSTANT MaxConns    \* BOUND: connections in a behaviour

VARIABLES
  arrived,   \* number of connections accepted so far
  begun,     \* number of connections a thread has taken
  replies,   \* the requests each connection was answered for
  lost,      \* connections found closed before a request came
  up         \* the server runs

Conns == 0 .. MaxConns - 1
vars  == <<arrived, begun, replies, lost, up>>

Init == /\ arrived = 0 /\ begun = 0 /\ lost = {} /\ up = TRUE
        /\ replies = [c \in Conns |-> {}]

Arrive == /\ up /\ arrived < MaxConns
          /\ arrived' = arrived + 1
          /\ UNCHANGED <<begun, replies, lost, up>>

Begin == /\ up /\ begun < arrived
         /\ begun' = begun + 1
         /\ UNCHANGED <<arrived, replies, lost, up>>

Reply(c) == /\ up /\ c < begun /\ c \notin lost /\ replies[c] = {}
            /\ replies' = [replies EXCEPT ![c] = {c}]
            /\ UNCHANGED <<arrived, begun, lost, up>>

Lose(c) == /\ up /\ c < begun /\ c \notin lost /\ replies[c] = {}
           /\ lost' = lost \cup {c}
           /\ UNCHANGED <<arrived, begun, replies, up>>

Stop == /\ up /\ up' = FALSE
        /\ UNCHANGED <<arrived, begun, replies, lost>>

Next == \/ Arrive \/ Begin \/ Stop
        \/ \E c \in Conns : Reply(c) \/ Lose(c)

Spec == Init /\ [][Next]_vars

=============================================================================
