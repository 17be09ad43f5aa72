------------------------- MODULE RequestPoolProofs -------------------------
(***************************************************************************)
(* Proofs about RequestPool, for every number of frames, descriptors,      *)
(* connections and threads and every set of faults: the lists, frames and  *)
(* mutexes; busy_threads; and, while no responder throws, whose            *)
(* descriptors are open, whose replies go where, and that the pool         *)
(* implements RequestService.                                              *)
(***************************************************************************)
EXTENDS RequestPool, SequenceTheorems, FiniteSetTheorems, TLAPS

(* What dispatchers and the main thread know about the frames they hold;   *)
(* with the invariants above it is inductive.                              *)
FramesAccounted ==
  /\ mpc # "halt" => (mframe # NULL <=> mpc \in {"grow", "enq"})
  /\ Members(qlist) \cup Members(plist) \subseteq heap
  /\ mframe \in heap \cup {NULL}
  /\ \A f \in heap : fsock[f] \in Fds
  /\ \A w \in Workers :
       /\ pc[w] \in ServeStates => frame[w] \in heap
       /\ pc[w] \in ServeStates \ {"inc"} => sock[w] \in Fds
       /\ pc[w] = "inc" <=> qmutex = w
       /\ w > nthreads => pc[w] = "off"

(* Frames carry the serial number of their connection.                     *)
SerialsInOrder ==
  mpc # "halt" =>
    /\ \A i \in 1 .. Len(qlist) : fcount[qlist[i]] = taken + i - 1
    /\ mframe # NULL => fcount[mframe] = tcount

Inductive == /\ TypeOK /\ ListsWellFormed /\ FrameOwnership
             /\ FirstComeFirstServed /\ FramesAccounted /\ SerialsInOrder

-----------------------------------------------------------------------------
(* TypeOK is preserved: an action at a time, a variable at a time.  First *)
(* the replies, which three actions extend.                                *)
LEMMA SendType ==
  ASSUME TypeOK, NEW w \in Workers, NEW s, send_all(w, s)
  PROVE  got' \in [Conns -> SUBSET (Nat \cup {NULL})]
<1>1. req[w] \in Nat \cup {NULL}
  BY DEF TypeOK
<1>2. ASSUME NEW c
      PROVE  [got EXCEPT ![c] = @ \cup {req[w]}]
               \in [Conns -> SUBSET (Nat \cup {NULL})]
  BY <1>1 DEF TypeOK
<1>3. QED
  BY <1>2 DEF TypeOK, send_all

(* The step, an action at a time and, under it, a variable at a time.      *)
LEMMA TypeStep ==
  ASSUME Inductive, [Next]_vars
  PROVE  TypeOK'
<1> USE ConstantsOK DEF Inductive
<1>1. CASE UNCHANGED vars
  BY <1>1 DEF TypeOK, vars, mainVars, queueVars, poolVars, frameVars,
          countVars, condVars, netVars, thrVars
<1>2. CASE Poll
  BY <1>2 DEF TypeOK, Poll, IdleStates, OwnsFrame, ServeStates, WorkerStates,
          mainVars, queueVars, poolVars, frameVars,
          countVars, condVars, netVars, thrVars
<1>3. CASE PollTimeout
  BY <1>3 DEF TypeOK, PollTimeout, IdleStates, OwnsFrame, ServeStates, WorkerStates,
          mainVars, queueVars, poolVars, frameVars,
          countVars, condVars, netVars, thrVars
<1>4. CASE Grow
  <2>1. nthreads' \in 0 .. MaxThreads
    BY <1>4 DEF TypeOK, Grow, PoolFull, Workers
  <2>2. pc' \in [Workers -> WorkerStates]
    BY <1>4 DEF TypeOK, Grow, PoolFull, IdleStates, OwnsFrame, ServeStates, WorkerStates, Workers
  <2>3. mpc' \in {"top", "poll", "grow", "enq", "halt"}
    BY <1>4 DEF TypeOK, Grow, PoolFull
  <2>4. QED
    BY <1>4, <2>1, <2>2, <2>3
    DEF TypeOK, Grow, PoolFull,
          mainVars, queueVars, poolVars, frameVars,
          countVars, condVars, netVars, thrVars
<1>5. CASE Enqueue
  <2>1. next' \in [Frames -> Frames \cup {NULL}]
    BY <1>5 DEF TypeOK, Enqueue, enqueue_frame, Link
  <2>2. req_queue' \in Frames \cup {NULL}
    BY <1>5 DEF TypeOK, Enqueue, enqueue_frame, Link
  <2>3. req_tail' \in Frames \cup {NULL}
    BY <1>5 DEF TypeOK, Enqueue, enqueue_frame, Link
  <2>4. signalled' \subseteq Workers
    BY <1>5 DEF TypeOK, Enqueue, enqueue_frame, Link
  <2>5. qlist' \in Seq(Frames)
    BY <1>5 DEF TypeOK, Enqueue, enqueue_frame, FramesAccounted
  <2>6. tcount' \in Nat
    BY <1>5 DEF TypeOK, Enqueue, enqueue_frame, Link
  <2>7. mframe' \in Frames \cup {NULL}
    BY <1>5 DEF TypeOK, Enqueue, enqueue_frame, Link
  <2>8. mpc' \in {"top", "poll", "grow", "enq", "halt"}
    BY <1>5 DEF TypeOK, Enqueue, enqueue_frame, Link
  <2>9. QED
    BY <1>5, <2>1, <2>2, <2>3, <2>4, <2>5, <2>6, <2>7, <2>8
    DEF TypeOK, Enqueue, enqueue_frame, Link,
          mainVars, queueVars, poolVars, frameVars,
          countVars, condVars, netVars, thrVars
<1>6. CASE Shutdown
  BY <1>6 DEF TypeOK, Shutdown, IdleStates, OwnsFrame, ServeStates, WorkerStates,
          mainVars, queueVars, poolVars, frameVars,
          countVars, condVars, netVars, thrVars
<1>7. CASE exit_gusher
  BY <1>7 DEF TypeOK, exit_gusher, IdleStates, OwnsFrame, ServeStates, WorkerStates,
          mainVars, queueVars, poolVars, frameVars,
          countVars, condVars, netVars, thrVars
<1>8. ASSUME NEW f \in Frames, NEW s \in Fds, Accept(f, s) PROVE TypeOK'
  <2>1. fd' \in [Fds -> Nat \cup {NULL}]
    BY <1>8 DEF TypeOK, Accept, get_frame
  <2>2. fsock' \in [Frames -> Fds \cup {NULL}]
    BY <1>8 DEF TypeOK, Accept, get_frame
  <2>3. fcount' \in [Frames -> Nat]
    BY <1>8 DEF TypeOK, Accept, get_frame
  <2>4. mframe' \in Frames \cup {NULL}
    BY <1>8 DEF TypeOK, Accept, get_frame
  <2>5. heap' \subseteq Frames
    BY <1>8 DEF TypeOK, Accept, get_frame
  <2>6. req_pool' \in Frames \cup {NULL}
    BY <1>8 DEF TypeOK, Accept, get_frame
  <2>7. plist' \in Seq(Frames)
    <3>1. CASE req_pool = NULL
      BY <1>8, <3>1 DEF TypeOK, Accept, get_frame
    <3>2. CASE req_pool # NULL
      <4>1. plist # <<>> /\ plist' = Tail(plist)
        BY <1>8, <3>2 DEF Accept, get_frame, ListsWellFormed, Represents
      <4>2. QED
        BY <4>1 DEF TypeOK
    <3>3. QED
      BY <3>1, <3>2
  <2>8. mpc' \in {"top", "poll", "grow", "enq", "halt"}
    BY <1>8 DEF TypeOK, Accept, get_frame
  <2>9. QED
    BY <1>8, <2>1, <2>2, <2>3, <2>4, <2>5, <2>6, <2>7, <2>8
    DEF TypeOK, Accept, get_frame,
          mainVars, queueVars, poolVars, frameVars,
          countVars, condVars, netVars, thrVars
<1>9. ASSUME NEW w \in Workers, RegisterRead(w) PROVE TypeOK'
  BY <1>9 DEF TypeOK, RegisterRead, IdleStates, OwnsFrame, ServeStates, WorkerStates,
          mainVars, queueVars, poolVars, frameVars,
          countVars, condVars, netVars, thrVars
<1>10. ASSUME NEW w \in Workers, RegisterWrite(w) PROVE TypeOK'
  BY <1>10 DEF TypeOK, RegisterWrite, IdleStates, OwnsFrame, ServeStates, WorkerStates,
          mainVars, queueVars, poolVars, frameVars,
          countVars, condVars, netVars, thrVars
<1>11. ASSUME NEW w \in Workers, StartWait(w) PROVE TypeOK'
  BY <1>11 DEF TypeOK, StartWait, IdleStates, OwnsFrame, ServeStates, WorkerStates,
          mainVars, queueVars, poolVars, frameVars,
          countVars, condVars, netVars, thrVars
<1>12. ASSUME NEW w \in Workers, WakeForNothing(w) PROVE TypeOK'
  BY <1>12 DEF TypeOK, WakeForNothing, WaitReturns, TimesOut, IdleStates, OwnsFrame, ServeStates, WorkerStates,
          mainVars, queueVars, poolVars, frameVars,
          countVars, condVars, netVars, thrVars
<1>13. ASSUME NEW w \in Workers, TakeFrame(w) PROVE TypeOK'
  <2>1. frame' \in [Workers -> Frames \cup {NULL}]
    BY <1>13 DEF TypeOK, TakeFrame, WaitReturns, TimesOut
  <2>2. req_queue' \in Frames \cup {NULL}
    BY <1>13 DEF TypeOK, TakeFrame, WaitReturns, TimesOut
  <2>3. reg' \in [Workers -> Int]
    BY <1>13 DEF TypeOK, TakeFrame, WaitReturns, TimesOut
  <2>4. qmutex' \in Workers \cup {NULL}
    BY <1>13 DEF TypeOK, TakeFrame, WaitReturns, TimesOut
  <2>5. signalled' \subseteq Workers
    BY <1>13 DEF TypeOK, TakeFrame, WaitReturns, TimesOut
  <2>6. pc' \in [Workers -> WorkerStates]
    BY <1>13 DEF TypeOK, TakeFrame, WaitReturns, TimesOut, IdleStates, OwnsFrame, ServeStates, WorkerStates
  <2>7. qlist' \in Seq(Frames)
    BY <1>13 DEF TypeOK, TakeFrame, WaitReturns, TimesOut, ListsWellFormed, Represents
  <2>8. taken' \in Nat
    BY <1>13 DEF TypeOK, TakeFrame, WaitReturns, TimesOut
  <2>9. QED
    BY <1>13, <2>1, <2>2, <2>3, <2>4, <2>5, <2>6, <2>7, <2>8
    DEF TypeOK, TakeFrame, WaitReturns, TimesOut,
          mainVars, queueVars, poolVars, frameVars,
          countVars, condVars, netVars, thrVars
<1>14. ASSUME NEW w \in Workers, BeginRequest(w) PROVE TypeOK'
  <2>1. busy_threads' \in Int
    BY <1>14 DEF TypeOK, BeginRequest, unlock_qmutex
  <2>2. raced' \in BOOLEAN
    BY <1>14 DEF TypeOK, BeginRequest, unlock_qmutex
  <2>3. qmutex' \in Workers \cup {NULL}
    BY <1>14 DEF TypeOK, BeginRequest, unlock_qmutex
  <2>4. sock' \in [Workers -> Fds \cup {NULL}]
    BY <1>14 DEF TypeOK, BeginRequest, unlock_qmutex, FramesAccounted, ServeStates, OwnsFrame
  <2>5. pc' \in [Workers -> WorkerStates]
    BY <1>14 DEF TypeOK, BeginRequest, unlock_qmutex, IdleStates, OwnsFrame, ServeStates, WorkerStates
  <2>6. QED
    BY <1>14, <2>1, <2>2, <2>3, <2>4, <2>5
    DEF TypeOK, BeginRequest, unlock_qmutex,
          mainVars, queueVars, poolVars, frameVars,
          countVars, condVars, netVars, thrVars
<1>15. ASSUME NEW w \in Workers, ReadRequest(w) PROVE TypeOK'
  <2>1. req' \in [Workers -> Nat \cup {NULL}]
    BY <1>15 DEF TypeOK, ReadRequest, FramesAccounted, ServeStates, OwnsFrame
  <2>2. consumed' \subseteq Nat
    <3>1. fd[sock[w]] \in Nat
      BY <1>15 DEF TypeOK, ReadRequest, FramesAccounted, ServeStates, OwnsFrame
    <3>2. QED
      BY <1>15, <3>1 DEF TypeOK, ReadRequest
  <2>3. pc' \in [Workers -> WorkerStates]
    BY <1>15 DEF TypeOK, ReadRequest, IdleStates, OwnsFrame, ServeStates, WorkerStates
  <2>4. QED
    BY <1>15, <2>1, <2>2, <2>3
    DEF TypeOK, ReadRequest,
          mainVars, queueVars, poolVars, frameVars,
          countVars, condVars, netVars, thrVars
<1>16. ASSUME NEW w \in Workers, ReadFails(w) PROVE TypeOK'
  <2>1. dropped' \subseteq Nat
    <3>1. fd[sock[w]] \in Nat \cup {NULL}
      BY <1>16 DEF TypeOK, ReadFails, FramesAccounted, ServeStates, OwnsFrame
    <3>2. QED
      BY <1>16, <3>1 DEF TypeOK, ReadFails
  <2>2. pc' \in [Workers -> WorkerStates]
    BY <1>16 DEF TypeOK, ReadFails, IdleStates, OwnsFrame, ServeStates, WorkerStates
  <2>3. QED
    BY <1>16, <2>1, <2>2
    DEF TypeOK, ReadFails,
          mainVars, queueVars, poolVars, frameVars,
          countVars, condVars, netVars, thrVars
<1>17. ASSUME NEW w \in Workers, Hang(w) PROVE TypeOK'
  BY <1>17 DEF TypeOK, Hang, IdleStates, OwnsFrame, ServeStates, WorkerStates,
          mainVars, queueVars, poolVars, frameVars,
          countVars, condVars, netVars, thrVars
<1>18. ASSUME NEW w \in Workers, PostIn(w) PROVE TypeOK'
  <2>1. pc' \in [Workers -> WorkerStates]
    BY <1>18 DEF TypeOK, PostIn, IdleStates, OwnsFrame, ServeStates, WorkerStates
  <2>2. QED
    BY <1>18, <2>1
    DEF TypeOK, PostIn,
          mainVars, queueVars, poolVars, frameVars,
          countVars, condVars, netVars, thrVars
<1>19. ASSUME NEW w \in Workers, release_frame(w) PROVE TypeOK'
  <2>1. next' \in [Frames -> Frames \cup {NULL}]
    BY <1>19 DEF TypeOK, release_frame, FramesAccounted, ServeStates, OwnsFrame
  <2>2. req_pool' \in Frames \cup {NULL}
    BY <1>19 DEF TypeOK, release_frame, FramesAccounted, ServeStates, OwnsFrame
  <2>3. plist' \in Seq(Frames)
    BY <1>19 DEF TypeOK, release_frame, FramesAccounted, ServeStates, OwnsFrame
  <2>4. pc' \in [Workers -> WorkerStates]
    BY <1>19 DEF TypeOK, release_frame, IdleStates, OwnsFrame, ServeStates, WorkerStates
  <2>5. QED
    BY <1>19, <2>1, <2>2, <2>3, <2>4
    DEF TypeOK, release_frame,
          mainVars, queueVars, poolVars, frameVars,
          countVars, condVars, netVars, thrVars
<1>20. ASSUME NEW w \in Workers, Respond(w) PROVE TypeOK'
  <2>1. pc' \in [Workers -> WorkerStates]
    <3>1. {"send", "catch"} \subseteq WorkerStates
      BY DEF ServeStates, WorkerStates
    <3>2. QED
      BY <1>20, <3>1 DEF TypeOK, Respond
  <2>2. QED
    BY <1>20, <2>1
    DEF TypeOK, Respond,
          mainVars, queueVars, poolVars, frameVars,
          countVars, condVars, netVars, thrVars
<1>21. ASSUME NEW w \in Workers, Send(w) PROVE TypeOK'
  <2>1. got' \in [Conns -> SUBSET (Nat \cup {NULL})]
    BY <1>21, SendType DEF TypeOK, Send
  <2>2. fd' \in [Fds -> Nat \cup {NULL}]
    BY <1>21 DEF TypeOK, Send, send_all, close, ReplySock, FramesAccounted, ServeStates, OwnsFrame
  <2>3. pc' \in [Workers -> WorkerStates]
    BY <1>21 DEF TypeOK, Send, send_all, close, ReplySock, IdleStates, OwnsFrame, ServeStates, WorkerStates
  <2>4. QED
    BY <1>21, <2>1, <2>2, <2>3
    DEF TypeOK, Send, send_all, close, ReplySock,
          mainVars, queueVars, poolVars, frameVars,
          countVars, condVars, netVars, thrVars
<1>22. ASSUME NEW w \in Workers, SendThrows(w) PROVE TypeOK'
  <2>1. got' \in [Conns -> SUBSET (Nat \cup {NULL})]
    BY <1>22, SendType DEF TypeOK, SendThrows
  <2>2. pc' \in [Workers -> WorkerStates]
    BY <1>22 DEF TypeOK, SendThrows, send_all, ReplySock, IdleStates, OwnsFrame, ServeStates, WorkerStates
  <2>3. QED
    BY <1>22, <2>1, <2>2
    DEF TypeOK, SendThrows, send_all, ReplySock,
          mainVars, queueVars, poolVars, frameVars,
          countVars, condVars, netVars, thrVars
<1>23. ASSUME NEW w \in Workers, catch_req(w) PROVE TypeOK'
  <2>1. got' \in [Conns -> SUBSET (Nat \cup {NULL})]
    BY <1>23, SendType DEF TypeOK, catch_req
  <2>2. fd' \in [Fds -> Nat \cup {NULL}]
    BY <1>23 DEF TypeOK, catch_req, send_all, close, FramesAccounted, ServeStates, OwnsFrame
  <2>3. pc' \in [Workers -> WorkerStates]
    BY <1>23 DEF TypeOK, catch_req, send_all, close, IdleStates, OwnsFrame, ServeStates, WorkerStates
  <2>4. QED
    BY <1>23, <2>1, <2>2, <2>3
    DEF TypeOK, catch_req, send_all, close,
          mainVars, queueVars, poolVars, frameVars,
          countVars, condVars, netVars, thrVars
<1>24. ASSUME NEW w \in Workers, DecRead(w) PROVE TypeOK'
  BY <1>24 DEF TypeOK, DecRead, IdleStates, OwnsFrame, ServeStates, WorkerStates,
          mainVars, queueVars, poolVars, frameVars,
          countVars, condVars, netVars, thrVars
<1>25. ASSUME NEW w \in Workers, DecStore(w) PROVE TypeOK'
  <2>1. busy_threads' \in Int
    BY <1>25 DEF TypeOK, DecStore
  <2>2. raced' \in BOOLEAN
    BY <1>25 DEF TypeOK, DecStore
  <2>3. frame' \in [Workers -> Frames \cup {NULL}]
    BY <1>25 DEF TypeOK, DecStore
  <2>4. sock' \in [Workers -> Fds \cup {NULL}]
    BY <1>25 DEF TypeOK, DecStore
  <2>5. req' \in [Workers -> Nat \cup {NULL}]
    BY <1>25 DEF TypeOK, DecStore
  <2>6. pc' \in [Workers -> WorkerStates]
    BY <1>25 DEF TypeOK, DecStore, IdleStates, OwnsFrame, ServeStates, WorkerStates
  <2>7. QED
    BY <1>25, <2>1, <2>2, <2>3, <2>4, <2>5, <2>6
    DEF TypeOK, DecStore,
          mainVars, queueVars, poolVars, frameVars,
          countVars, condVars, netVars, thrVars
<1>26. ASSUME NEW w \in Workers, SignalPipe(w) PROVE TypeOK'
  BY <1>26 DEF TypeOK, SignalPipe, mainVars, queueVars, poolVars, frameVars,
          countVars, condVars, netVars, thrVars
<1>27. QED
  BY <1>1, <1>2, <1>3, <1>4, <1>5, <1>6, <1>7, <1>8, <1>9, <1>10,
     <1>11, <1>12, <1>13, <1>14, <1>15, <1>16, <1>17, <1>18, <1>19, <1>20,
     <1>21, <1>22, <1>23, <1>24, <1>25, <1>26
  DEF Next, MainLoop, dispatcher, Idle, Serve

-----------------------------------------------------------------------------
(* The frames of a list when a frame is appended, removed or pushed.       *)
LEMMA AppendFacts ==
  ASSUME NEW S, NEW q \in Seq(S), NEW e \in S
  PROVE  /\ Members(Append(q, e)) = Members(q) \cup {e}
         /\ NoRepeats(q) /\ e \notin Members(q) => NoRepeats(Append(q, e))
<1>1. Len(Append(q, e)) = Len(q) + 1 /\ Len(q) \in Nat
  OBVIOUS
<1>2. \A i \in 1 .. Len(q) : Append(q, e)[i] = q[i]
  OBVIOUS
<1>3. Append(q, e)[Len(q) + 1] = e
  OBVIOUS
<1>4. Members(Append(q, e)) = Members(q) \cup {e}
  <2>1. \A x \in Members(q) \cup {e} : x \in Members(Append(q, e))
    BY <1>1, <1>2, <1>3 DEF Members
  <2>2. \A i \in 1 .. Len(Append(q, e)) : Append(q, e)[i] \in Members(q) \cup {e}
    BY <1>1, <1>2, <1>3 DEF Members
  <2>3. QED
    BY <2>1, <2>2 DEF Members
<1>5. ASSUME NoRepeats(q), e \notin Members(q) PROVE NoRepeats(Append(q, e))
  BY <1>1, <1>2, <1>3, <1>5 DEF Members, NoRepeats
<1>6. QED
  BY <1>4, <1>5

(* What dispatcher() leaves in the queue, and get_frame in the free list,  *)
(* when the first frame is taken out: its tail, which no longer has it.    *)
LEMMA TailFacts ==
  ASSUME NEW S, NEW q \in Seq(S), q # <<>>
  PROVE  /\ Tail(q) \in Seq(S) /\ Len(Tail(q)) = Len(q) - 1
         /\ \A i \in 1 .. Len(q) - 1 : Tail(q)[i] = q[i + 1]
         /\ q[1] \in Members(q)
         /\ Members(Tail(q)) \subseteq Members(q)
         /\ NoRepeats(q) => NoRepeats(Tail(q)) /\ q[1] \notin Members(Tail(q))
<1>1. Len(q) \in Nat \ {0}
  OBVIOUS
<1>2. Tail(q) \in Seq(S) /\ Len(Tail(q)) = Len(q) - 1
  OBVIOUS
<1>3. \A i \in 1 .. Len(q) - 1 : Tail(q)[i] = q[i + 1]
  OBVIOUS
<1>4. q[1] \in Members(q)
  BY <1>1 DEF Members
<1>5. Members(Tail(q)) \subseteq Members(q)
  BY <1>1, <1>2, <1>3 DEF Members
<1>6. ASSUME NoRepeats(q)
      PROVE  NoRepeats(Tail(q)) /\ q[1] \notin Members(Tail(q))
  BY <1>1, <1>2, <1>3, <1>6 DEF Members, NoRepeats
<1>7. QED
  BY <1>2, <1>3, <1>4, <1>5, <1>6

(* What release_frame makes of the free list: one frame more, in front,    *)
(* the others in their places.                                             *)
LEMMA PushFacts ==
  ASSUME NEW S, NEW q \in Seq(S), NEW e \in S
  PROVE  /\ <<e>> \o q \in Seq(S) /\ Len(<<e>> \o q) = Len(q) + 1
         /\ (<<e>> \o q)[1] = e
         /\ \A i \in 1 .. Len(q) : (<<e>> \o q)[i + 1] = q[i]
         /\ Members(<<e>> \o q) = Members(q) \cup {e}
         /\ NoRepeats(q) /\ e \notin Members(q) => NoRepeats(<<e>> \o q)
<1> DEFINE p == <<e>> \o q
<1>1. Len(p) = Len(q) + 1 /\ Len(q) \in Nat /\ p \in Seq(S)
  OBVIOUS
<1>2. p[1] = e
  OBVIOUS
<1>3. \A i \in 1 .. Len(q) : p[i + 1] = q[i]
  OBVIOUS
<1>4. \A i \in 2 .. Len(p) : p[i] = q[i - 1]
  OBVIOUS
<1> HIDE DEF p
<1>5. Members(p) = Members(q) \cup {e}
  <2>1. \A x \in Members(q) : x \in Members(p)
    BY <1>1, <1>3 DEF Members
  <2>2. e \in Members(p)
    BY <1>1, <1>2 DEF Members
  <2>3. \A i \in 1 .. Len(p) : p[i] \in Members(q) \cup {e}
    <3>1. ASSUME NEW i \in 2 .. Len(p) PROVE p[i] \in Members(q)
      BY <1>1, <1>4 DEF Members
    <3>2. QED
      BY <1>1, <1>2, <3>1
  <2>4. QED
    BY <2>1, <2>2, <2>3 DEF Members
<1>6. ASSUME NoRepeats(q), e \notin Members(q) PROVE NoRepeats(p)
  <2>1. ASSUME NEW i \in 2 .. Len(p) PROVE p[i] = q[i - 1] /\ p[i] # e
    BY <1>1, <1>4, <1>6 DEF Members
  <2>2. ASSUME NEW i \in 1 .. Len(p), NEW j \in 1 .. Len(p), p[i] = p[j]
        PROVE  i = j
    <3>1. CASE i = 1 \/ j = 1
      BY <1>1, <1>2, <2>1, <2>2, <3>1
    <3>2. CASE i \in 2 .. Len(p) /\ j \in 2 .. Len(p)
      <4>1. q[i - 1] = q[j - 1] /\ i - 1 \in 1 .. Len(q) /\ j - 1 \in 1 .. Len(q)
        BY <1>1, <2>1, <2>2, <3>2
      <4>2. i - 1 = j - 1
        BY <1>6, <4>1 DEF NoRepeats
      <4>3. QED
        BY <3>2, <4>2
    <3>3. QED
      BY <1>1, <3>1, <3>2
  <2>3. QED
    BY <2>2 DEF NoRepeats
<1>7. QED
  BY <1>1, <1>2, <1>3, <1>5, <1>6 DEF p

-----------------------------------------------------------------------------
(* Most actions leave the lists alone and give no thread a frame.          *)
Quiet ==
  /\ UNCHANGED <<queueVars, poolVars, frameVars, mframe, tcount>>
  /\ mpc = "halt" => mpc' = "halt"
  /\ mpc' # "halt" => (mpc' \in {"grow", "enq"} <=> mpc \in {"grow", "enq"})
  /\ \A v \in Workers :
       /\ pc'[v] \in OwnsFrame => pc[v] \in OwnsFrame /\ frame'[v] = frame[v]
       /\ pc'[v] = "inc" => pc[v] = "inc"

(* The actions that are not quiet are the five places of main.c at which a *)
(* frame changes hands: process_http taking and queueing it, dispatcher()  *)
(* taking it, release_frame, and clear_queues at shutdown.                 *)
LEMMA QuietOrNot ==
  ASSUME TypeOK, [Next]_vars
  PROVE  \/ Quiet
         \/ Enqueue \/ Shutdown
         \/ \E f \in Frames, s \in Fds : Accept(f, s)
         \/ \E w \in Workers : mpc # "halt" /\ TakeFrame(w)
         \/ \E w \in Workers : mpc # "halt" /\ release_frame(w)
<1> USE DEF Quiet, OwnsFrame
<1>1. CASE UNCHANGED vars
  BY <1>1 DEF vars, queueVars, poolVars, frameVars, mainVars, thrVars
<1>2. CASE Poll \/ PollTimeout \/ exit_gusher
  BY <1>2 DEF Poll, PollTimeout, exit_gusher, thrVars
<1>3. CASE Grow
  BY <1>3 DEF Grow, PoolFull, TypeOK, Workers
<1>4. ASSUME NEW w \in Workers, mpc # "halt",
             RegisterRead(w) \/ RegisterWrite(w) \/ StartWait(w)
               \/ WakeForNothing(w)
      PROVE  Quiet
  BY <1>4 DEF RegisterRead, RegisterWrite, StartWait, WakeForNothing,
              mainVars, TypeOK
<1>5. ASSUME NEW w \in Workers, mpc # "halt",
             BeginRequest(w) \/ ReadRequest(w) \/ ReadFails(w) \/ Hang(w)
      PROVE  Quiet
  BY <1>5 DEF BeginRequest, ReadRequest, ReadFails, Hang, mainVars, TypeOK
<1>6. ASSUME NEW w \in Workers, mpc # "halt", PostIn(w) \/ Respond(w)
      PROVE  Quiet
  BY <1>6 DEF PostIn, Respond, mainVars, TypeOK
<1>7. ASSUME NEW w \in Workers, mpc # "halt",
             Send(w) \/ SendThrows(w) \/ SignalPipe(w) \/ catch_req(w)
      PROVE  Quiet
  BY <1>7 DEF Send, SendThrows, SignalPipe, catch_req, mainVars, thrVars, TypeOK
<1>8. ASSUME NEW w \in Workers, mpc # "halt", DecRead(w) \/ DecStore(w)
      PROVE  Quiet
  BY <1>8 DEF DecRead, DecStore, mainVars, TypeOK
<1>9. QED
  BY <1>1, <1>2, <1>3, <1>4, <1>5, <1>6, <1>7, <1>8
  DEF Next, MainLoop, dispatcher, Idle, Serve

(* What get_frame returns is neither queued nor held by anybody.           *)
LEMMA FreshFrame ==
  ASSUME Inductive, NEW f \in Frames, NEW s \in Fds, Accept(f, s)
  PROVE  /\ mframe = NULL
         /\ f \notin Members(qlist) /\ f \notin Members(plist')
         /\ Members(plist') \subseteq Members(plist)
         /\ NoRepeats(plist')
         /\ \A v \in Workers : pc[v] \in OwnsFrame => frame[v] # f
         /\ heap' = heap \cup {f}
<1>0. mframe = NULL
  BY DEF Inductive, FramesAccounted, Accept
<1>1. CASE req_pool = NULL
  <2>1. f \notin heap /\ plist' = plist /\ heap' = heap \cup {f}
    BY <1>1 DEF Accept, get_frame
  <2>2. QED
    BY <1>0, <2>1 DEF Inductive, FramesAccounted, FrameOwnership, ServeStates
<1>2. CASE req_pool # NULL
  <2>1. plist # <<>> /\ f = plist[1] /\ plist' = Tail(plist) /\ heap' = heap
    BY <1>2 DEF Accept, get_frame, Inductive, ListsWellFormed, Represents
  <2>2. plist \in Seq(Frames)
    BY DEF Inductive, TypeOK
  <2>3. f \in Members(plist) /\ f \notin Members(plist')
          /\ NoRepeats(plist') /\ Members(plist') \subseteq Members(plist)
    BY <2>1, <2>2, TailFacts DEF Inductive, FrameOwnership
  <2>4. f \in heap
    BY <2>3 DEF Inductive, FramesAccounted
  <2>5. QED
    BY <1>0, <2>1, <2>3, <2>4 DEF Inductive, FrameOwnership
<1>3. QED
  BY <1>1, <1>2

(* The head of a queue that is not empty.                                  *)
LEMMA HeadFrame ==
  ASSUME Inductive, NEW w \in Workers, TakeFrame(w)
  PROVE  /\ qlist # <<>> /\ req_queue = qlist[1] /\ req_queue \in Frames
         /\ qlist' = Tail(qlist) /\ req_queue \in Members(qlist)
         /\ req_queue \notin Members(qlist')
         /\ Members(qlist') \subseteq Members(qlist) /\ NoRepeats(qlist')
<1>1. qlist # <<>> /\ req_queue = qlist[1] /\ qlist' = Tail(qlist)
  BY DEF TakeFrame, Inductive, ListsWellFormed, Represents
<1>2. qlist \in Seq(Frames) /\ NoRepeats(qlist)
  BY DEF Inductive, TypeOK, FrameOwnership
<1>3. req_queue \in Frames
  BY DEF TakeFrame, Inductive, TypeOK
<1>4. QED
  BY <1>1, <1>2, <1>3, TailFacts

-----------------------------------------------------------------------------
(* Ownership is preserved.                                                 *)
LEMMA OwnershipStep ==
  ASSUME Inductive, [Next]_vars
  PROVE  FrameOwnership'
<1> USE DEF FrameOwnership
<1>0. FrameOwnership /\ TypeOK /\ FramesAccounted
  BY DEF Inductive
<1>1. CASE Quiet
  <2>1. UNCHANGED <<qlist, plist, mframe>>
    BY <1>1 DEF Quiet, queueVars, poolVars
  <2>2. NoRepeats(qlist') /\ NoRepeats(plist')
        /\ Members(qlist') = Members(qlist) /\ Members(plist') = Members(plist)
    BY <1>0, <2>1 DEF Members, NoRepeats
  <2>3. QED
    BY <1>0, <1>1, <2>1, <2>2 DEF Quiet
<1>2. CASE Enqueue
  <2>1. /\ qlist' = Append(qlist, mframe) /\ plist' = plist /\ mframe' = NULL
        /\ pc' = pc /\ frame' = frame /\ mframe \in Frames
    BY <1>0, <1>2 DEF Enqueue, enqueue_frame, poolVars, thrVars, TypeOK,
                      FramesAccounted
  <2>2. Members(qlist') = Members(qlist) \cup {mframe} /\ NoRepeats(qlist')
    BY <1>0, <2>1, AppendFacts DEF TypeOK
  <2>3. NULL \notin Members(qlist') \cup Members(plist)
    BY <1>0, <2>1, <2>2, ConstantsOK DEF FramesAccounted, TypeOK
  <2>4. \A v \in Workers : pc[v] \in OwnsFrame => frame[v] # NULL
    BY <1>0, ConstantsOK DEF FramesAccounted, TypeOK, ServeStates
  <2>5. QED
    BY <1>0, <2>1, <2>2, <2>3, <2>4
<1>3. CASE Shutdown
  <2>1. /\ qlist' = <<>> /\ plist' = <<>> /\ mframe' = mframe
        /\ pc' = pc /\ frame' = frame
    BY <1>3 DEF Shutdown, thrVars
  <2>2. Members(qlist') = {} /\ Members(plist') = {}
        /\ NoRepeats(qlist') /\ NoRepeats(plist')
    BY <2>1 DEF Members, NoRepeats
  <2>3. QED
    BY <1>0, <2>1, <2>2
<1>4. ASSUME NEW f \in Frames, NEW s \in Fds, Accept(f, s)
      PROVE  FrameOwnership'
  <2>1. qlist' = qlist /\ mframe' = f /\ pc' = pc /\ frame' = frame
    BY <1>4 DEF Accept, queueVars, thrVars
  <2>2. QED
    BY <1>0, <1>4, <2>1, FreshFrame
<1>5. ASSUME NEW w \in Workers, TakeFrame(w) PROVE FrameOwnership'
  <2>1. /\ plist' = plist /\ mframe' = mframe
        /\ frame' = [frame EXCEPT ![w] = req_queue]
        /\ pc' = [pc EXCEPT ![w] = "inc"]
    BY <1>5 DEF TakeFrame, poolVars, mainVars
  <2>2. \A v \in Workers \ {w} : frame'[v] = frame[v] /\ pc'[v] = pc[v]
    BY <1>0, <2>1 DEF TypeOK
  <2>3. frame'[w] = req_queue
    BY <1>0, <2>1 DEF TypeOK
  <2>4. QED
    BY <1>0, <1>5, <2>1, <2>2, <2>3, HeadFrame
<1>6. ASSUME NEW w \in Workers, release_frame(w) PROVE FrameOwnership'
  <2>1. /\ qlist' = qlist /\ mframe' = mframe /\ frame' = frame
        /\ pc' = [pc EXCEPT ![w] = "respond"] /\ pc[w] = "release"
        /\ plist' = <<frame[w]>> \o plist
    BY <1>6 DEF release_frame, queueVars, mainVars
  <2>2. frame[w] \in Frames /\ pc[w] \in OwnsFrame
    BY <1>0, <2>1 DEF FramesAccounted, TypeOK, ServeStates, OwnsFrame
  <2>3. Members(plist') = Members(plist) \cup {frame[w]} /\ NoRepeats(plist')
    BY <1>0, <2>1, <2>2, PushFacts DEF TypeOK
  <2>4. \A v \in Workers : pc'[v] \in OwnsFrame => v # w /\ pc[v] = pc'[v]
    BY <1>0, <2>1 DEF TypeOK, OwnsFrame
  <2>5. QED
    BY <1>0, <2>1, <2>2, <2>3, <2>4
<1>7. QED
  BY <1>0, <1>1, <1>2, <1>3, <1>4, <1>5, <1>6, QuietOrNot

-----------------------------------------------------------------------------
(* The pointers go on representing the lists.  What a list looks like      *)
(* depends only on the next fields of its own frames.                      *)
LEMMA RepresentsFrame ==
  ASSUME NEW q \in Seq(Frames), NEW h, Represents(h, q),
         \A f \in Members(q) : next'[f] = next[f]
  PROVE  Represents(h, q)'
<1>1. \A i \in 1 .. Len(q) : next'[q[i]] = next[q[i]]
  BY DEF Members
<1>2. QED
  BY <1>1 DEF Represents

(* Taking the first frame out, req_queue = req_queue->next in dispatcher() *)
(* and likewise in get_frame, leaves pointers that represent the tail.     *)
LEMMA RepresentsTail ==
  ASSUME NEW q \in Seq(Frames), NEW h, Represents(h, q), q # <<>>
  PROVE  Represents(next[h], Tail(q))
<1>1. /\ Len(q) \in Nat \ {0} /\ Len(Tail(q)) = Len(q) - 1
      /\ Tail(q) \in Seq(Frames)
      /\ \A i \in 1 .. Len(q) - 1 : Tail(q)[i] = q[i + 1]
  BY TailFacts
<1>2. h = q[1] /\ next[h] = IF 1 < Len(q) THEN q[2] ELSE NULL
  BY <1>1 DEF Represents
<1>3. next[h] = IF Tail(q) = <<>> THEN NULL ELSE Tail(q)[1]
  <2>1. CASE Len(q) = 1
    <3>1. Len(Tail(q)) = 0
      BY <1>1, <2>1
    <3>2. Tail(q) = <<>>
      BY <1>1, <3>1, EmptySeq
    <3>3. QED
      BY <1>2, <2>1, <3>2
  <2>2. CASE Len(q) # 1
    <3>1. Len(Tail(q)) # 0 /\ Tail(q)[1] = q[2] /\ 1 < Len(q)
      BY <1>1, <2>2
    <3>2. QED
      BY <1>2, <3>1
  <2>3. QED
    BY <2>1, <2>2
<1>4. ASSUME NEW i \in 1 .. Len(Tail(q))
      PROVE  next[Tail(q)[i]] =
               IF i < Len(Tail(q)) THEN Tail(q)[i + 1] ELSE NULL
  <2>1. /\ i + 1 \in 1 .. Len(q) /\ Tail(q)[i] = q[i + 1]
        /\ i < Len(Tail(q)) <=> i + 1 < Len(q)
    BY <1>1
  <2>2. i < Len(Tail(q)) => Tail(q)[i + 1] = q[i + 1 + 1]
    BY <1>1
  <2>3. next[q[i + 1]] = IF i + 1 < Len(q) THEN q[i + 1 + 1] ELSE NULL
    BY <2>1 DEF Represents
  <2>4. QED
    BY <2>1, <2>2, <2>3
<1>5. QED
  BY <1>3, <1>4 DEF Represents

(* Every step keeps both intrusive lists well formed: enqueue_frame writes *)
(* through a tail that is the last frame, and the frame that a step links  *)
(* or unlinks is in no other list.                                         *)
LEMMA ListsStep ==
  ASSUME Inductive, [Next]_vars
  PROVE  ListsWellFormed'
<1>0. ListsWellFormed /\ FrameOwnership /\ TypeOK /\ FramesAccounted
  BY DEF Inductive
<1>a. qlist \in Seq(Frames) /\ plist \in Seq(Frames)
      /\ next \in [Frames -> Frames \cup {NULL}] /\ NULL \notin Frames
  BY <1>0, ConstantsOK DEF TypeOK
<1>b. Represents(req_queue, qlist) /\ Represents(req_pool, plist)
      /\ (qlist # <<>> => req_tail = qlist[Len(qlist)])
  BY <1>0 DEF ListsWellFormed
<1>1. CASE Quiet
  <2>1. UNCHANGED <<qlist, plist, req_queue, req_pool, req_tail, next>>
    BY <1>1 DEF Quiet, queueVars, poolVars, frameVars
  <2>2. QED
    BY <1>b, <2>1 DEF ListsWellFormed, Represents
<1>2. CASE Enqueue
  <2>1. /\ Link(mframe) /\ qlist' = Append(qlist, mframe)
        /\ plist' = plist /\ req_pool' = req_pool
        /\ mframe \in Frames /\ mframe \notin Members(qlist) \cup Members(plist)
    BY <1>0, <1>2 DEF Enqueue, enqueue_frame, poolVars, TypeOK,
                      FramesAccounted, FrameOwnership
  <2>2. Len(qlist) \in Nat /\ Len(qlist') = Len(qlist) + 1
        /\ (\A i \in 1 .. Len(qlist) : qlist'[i] = qlist[i])
        /\ qlist'[Len(qlist) + 1] = mframe
    BY <1>a, <2>1
  <2>3. CASE req_queue = NULL
    <3>1. qlist = <<>>
      BY <1>a, <1>b, <2>3 DEF Represents
    <3>2. next' = [next EXCEPT ![mframe] = NULL] /\ req_queue' = mframe
          /\ req_tail' = mframe
      BY <2>1, <2>3 DEF Link
    <3>3. Represents(req_pool, plist)'
      <4>1. \A f \in Members(plist) : next'[f] = next[f]
        BY <1>a, <2>1, <3>2 DEF Members
      <4>2. QED
        BY <1>a, <1>b, <2>1, <4>1, RepresentsFrame
    <3>4. QED
      BY <1>a, <2>1, <2>2, <3>1, <3>2, <3>3 DEF ListsWellFormed, Represents
  <2>4. CASE req_queue # NULL
    <3>1. qlist # <<>> /\ req_tail = qlist[Len(qlist)] /\ req_queue = qlist[1]
      BY <1>b, <2>4 DEF Represents
    <3>2. /\ next' = [next EXCEPT ![mframe] = NULL, ![req_tail] = mframe]
          /\ req_queue' = req_queue /\ req_tail' = mframe
      BY <2>1, <2>4 DEF Link
    <3>3. req_tail \in Members(qlist) /\ req_tail \in Frames
      BY <1>a, <3>1 DEF Members
    <3>4. req_tail # mframe /\ req_tail \notin Members(plist)
      BY <1>0, <2>1, <3>3 DEF FrameOwnership
    <3>5. /\ next'[mframe] = NULL /\ next'[req_tail] = mframe
          /\ \A f \in Frames \ {mframe, req_tail} : next'[f] = next[f]
      BY <1>a, <2>1, <3>2, <3>3, <3>4
    <3>6. Represents(req_pool, plist)'
      <4>1. \A f \in Members(plist) : next'[f] = next[f]
        BY <1>a, <2>1, <3>4, <3>5 DEF Members
      <4>2. QED
        BY <1>a, <1>b, <2>1, <4>1, RepresentsFrame
    <3>7. ASSUME NEW i \in 1 .. Len(qlist) - 1
          PROVE  next'[qlist[i]] = qlist[i + 1]
      <4>1. qlist[i] # req_tail
        BY <1>0, <1>a, <3>1 DEF FrameOwnership, NoRepeats
      <4>2. qlist[i] # mframe /\ qlist[i] \in Frames
        BY <1>a, <2>1 DEF Members
      <4>3. QED
        BY <1>a, <1>b, <3>5, <4>1, <4>2 DEF Represents
    <3>8. Represents(req_queue, qlist)'
      <4>1. ASSUME NEW j \in 1 .. Len(qlist')
            PROVE  next'[qlist'[j]] =
                     IF j < Len(qlist') THEN qlist'[j + 1] ELSE NULL
        <5>1. CASE j < Len(qlist)
          <6>1. j \in 1 .. Len(qlist) - 1 /\ j + 1 \in 1 .. Len(qlist)
                /\ j \in 1 .. Len(qlist) /\ j < Len(qlist')
            BY <2>2, <5>1
          <6>2. QED
            BY <2>2, <3>7, <6>1
        <5>2. CASE j = Len(qlist)
          BY <2>2, <3>1, <3>5, <5>2
        <5>3. CASE j = Len(qlist) + 1
          BY <2>2, <3>5, <5>3
        <5>4. QED
          BY <2>2, <5>1, <5>2, <5>3
      <4>2. Len(qlist) # 0 /\ qlist' # <<>>
        BY <1>a, <2>1, <3>1
      <4>3. req_queue' = qlist'[1]
        BY <2>2, <3>1, <3>2, <4>2
      <4>4. QED
        BY <4>1, <4>2, <4>3 DEF Represents
    <3>9. QED
      BY <2>1, <2>2, <3>2, <3>6, <3>8 DEF ListsWellFormed
  <2>5. QED
    BY <2>3, <2>4
<1>3. CASE Shutdown
  BY <1>3 DEF Shutdown, ListsWellFormed, Represents
<1>4. ASSUME NEW f \in Frames, NEW s \in Fds, Accept(f, s)
      PROVE  ListsWellFormed'
  <2>1. UNCHANGED <<qlist, req_queue, req_tail, next>>
    BY <1>4 DEF Accept, queueVars
  <2>2. CASE req_pool = NULL
    <3>1. UNCHANGED <<req_pool, plist>>
      BY <1>4, <2>2 DEF Accept, get_frame
    <3>2. QED
      BY <1>b, <2>1, <3>1 DEF ListsWellFormed, Represents
  <2>3. CASE req_pool # NULL
    <3>1. /\ plist # <<>> /\ plist' = Tail(plist) /\ f = plist[1]
          /\ req_pool' = next[f]
      BY <1>4, <1>b, <2>3 DEF Accept, get_frame, Represents
    <3>2. req_pool = f
      BY <1>b, <2>3, <3>1 DEF Represents
    <3>3. Represents(req_pool, plist)'
      <4>1. Represents(next[req_pool], Tail(plist))
        BY <1>a, <1>b, <3>1, RepresentsTail
      <4>2. QED
        BY <2>1, <3>1, <3>2, <4>1 DEF Represents
    <3>4. QED
      BY <1>b, <2>1, <3>3 DEF ListsWellFormed, Represents
  <2>4. QED
    BY <2>2, <2>3
<1>5. ASSUME NEW w \in Workers, TakeFrame(w) PROVE ListsWellFormed'
  <2>1. UNCHANGED <<plist, req_pool, req_tail, next>>
        /\ req_queue' = next[req_queue]
    BY <1>5 DEF TakeFrame, poolVars, frameVars
  <2>2. qlist # <<>> /\ req_queue = qlist[1] /\ qlist' = Tail(qlist)
    BY <1>5, HeadFrame
  <2>3. /\ Len(qlist) \in Nat \ {0} /\ Len(qlist') = Len(qlist) - 1
        /\ qlist' \in Seq(Frames)
        /\ \A i \in 1 .. Len(qlist) - 1 : qlist'[i] = qlist[i + 1]
    BY <1>a, <2>2, TailFacts
  <2>4. Represents(req_queue, qlist)'
    <3>1. Represents(next[req_queue], Tail(qlist))
      BY <1>a, <1>b, <2>2, RepresentsTail
    <3>2. QED
      BY <2>1, <2>2, <3>1 DEF Represents
  <2>5. qlist' # <<>> => req_tail = qlist'[Len(qlist')]
    BY <1>a, <1>b, <2>2, <2>3
  <2>6. QED
    BY <1>b, <2>1, <2>4, <2>5 DEF ListsWellFormed, Represents
<1>6. ASSUME NEW w \in Workers, release_frame(w) PROVE ListsWellFormed'
  <2>1. /\ UNCHANGED <<qlist, req_queue, req_tail>>
        /\ next' = [next EXCEPT ![frame[w]] = req_pool]
        /\ req_pool' = frame[w] /\ plist' = <<frame[w]>> \o plist
        /\ pc[w] = "release"
    BY <1>6 DEF release_frame, queueVars
  <2>2. /\ frame[w] \in Frames
        /\ frame[w] \notin Members(qlist) \cup Members(plist)
    BY <1>0, <2>1 DEF FramesAccounted, FrameOwnership, TypeOK, ServeStates,
                      OwnsFrame
  <2>3. /\ Len(plist) \in Nat /\ Len(plist') = Len(plist) + 1
        /\ plist'[1] = frame[w] /\ plist' \in Seq(Frames)
        /\ \A i \in 1 .. Len(plist) : plist'[i + 1] = plist[i]
    BY <1>a, <2>1, <2>2, PushFacts
  <2>4. /\ next'[frame[w]] = req_pool
        /\ \A f \in Frames \ {frame[w]} : next'[f] = next[f]
    BY <1>a, <2>1, <2>2
  <2>5. Represents(req_queue, qlist)'
    <3>1. \A f \in Members(qlist) : next'[f] = next[f]
      BY <1>a, <2>2, <2>4 DEF Members
    <3>2. QED
      BY <1>a, <1>b, <2>1, <3>1, RepresentsFrame
  <2>6. ASSUME NEW i \in 1 .. Len(plist)
        PROVE  next'[plist'[i + 1]] =
                 IF i < Len(plist) THEN plist'[i + 2] ELSE NULL
    <3>1. plist[i] \in Frames /\ plist[i] # frame[w]
      BY <1>a, <2>2 DEF Members
    <3>2. next'[plist[i]] = IF i < Len(plist) THEN plist[i + 1] ELSE NULL
      BY <1>a, <1>b, <2>4, <3>1 DEF Represents
    <3>3. i < Len(plist) => plist'[i + 2] = plist[i + 1]
      BY <2>3
    <3>4. QED
      BY <2>3, <3>2, <3>3
  <2>7. req_pool = IF 1 < Len(plist') THEN plist'[2] ELSE NULL
    BY <1>a, <1>b, <2>3 DEF Represents
  <2>8. Represents(req_pool, plist)'
    <3>1. ASSUME NEW j \in 1 .. Len(plist')
          PROVE  next'[plist'[j]] =
                   IF j < Len(plist') THEN plist'[j + 1] ELSE NULL
      <4>1. CASE j = 1
        BY <2>3, <2>4, <2>7, <4>1
      <4>2. CASE j # 1
        <5>1. j - 1 \in 1 .. Len(plist)
          BY <2>3, <4>2
        <5>2. QED
          BY <2>3, <2>6, <5>1
      <4>3. QED
        BY <4>1, <4>2
    <3>2. plist' # <<>> /\ req_pool' = plist'[1]
      BY <2>1, <2>3
    <3>3. QED
      BY <3>1, <3>2 DEF Represents
  <2>9. QED
    BY <1>b, <2>1, <2>5, <2>8 DEF ListsWellFormed
<1>7. QED
  BY <1>0, <1>1, <1>2, <1>3, <1>4, <1>5, <1>6, QuietOrNot

-----------------------------------------------------------------------------
(* Serial numbers.                                                         *)
LEMMA OrderStep ==
  ASSUME Inductive, [Next]_vars
  PROVE  (FirstComeFirstServed /\ SerialsInOrder)'
<1>0. /\ FirstComeFirstServed /\ SerialsInOrder /\ TypeOK /\ FramesAccounted
      /\ FrameOwnership
  BY DEF Inductive
<1>a. qlist \in Seq(Frames) /\ tcount \in Nat /\ taken \in Nat
      /\ Len(qlist) \in Nat
  BY <1>0 DEF TypeOK
<1>1. CASE Quiet
  <2>1. UNCHANGED <<qlist, taken, tcount, mframe, fcount>>
        /\ (mpc = "halt" => mpc' = "halt")
    BY <1>1 DEF Quiet, queueVars, frameVars
  <2>2. \A v \in Workers : pc'[v] = "inc" =>
          pc[v] = "inc" /\ frame'[v] = frame[v]
    BY <1>1 DEF Quiet, OwnsFrame
  <2>3. QED
    BY <1>0, <2>1, <2>2 DEF FirstComeFirstServed, SerialsInOrder
<1>2. CASE Enqueue
  <2>1. /\ qlist' = Append(qlist, mframe) /\ mframe' = NULL
        /\ tcount' = tcount + 1 /\ taken' = taken /\ fcount' = fcount
        /\ pc' = pc /\ frame' = frame /\ mpc = "enq" /\ mframe \in Frames
    BY <1>0, <1>2 DEF Enqueue, enqueue_frame, thrVars, TypeOK, FramesAccounted
  <2>2. fcount[mframe] = tcount /\ taken + Len(qlist) = tcount
        /\ \A i \in 1 .. Len(qlist) : fcount[qlist[i]] = taken + i - 1
    BY <1>0, <2>1, ConstantsOK DEF SerialsInOrder, FirstComeFirstServed
  <2>3. Len(qlist') = Len(qlist) + 1 /\ qlist'[Len(qlist) + 1] = mframe
        /\ \A i \in 1 .. Len(qlist) : qlist'[i] = qlist[i]
    BY <1>a, <2>1
  <2>4. \A i \in 1 .. Len(qlist') : fcount[qlist'[i]] = taken + i - 1
    <3>1. ASSUME NEW i \in 1 .. Len(qlist'), i # Len(qlist) + 1
          PROVE  i \in 1 .. Len(qlist)
      BY <1>a, <2>3, <3>1
    <3>2. taken + (Len(qlist) + 1) - 1 = tcount
      BY <1>a, <2>2
    <3>3. QED
      BY <2>2, <2>3, <3>1, <3>2
  <2>5. taken' + Len(qlist') = tcount'
    BY <1>a, <2>1, <2>2, <2>3
  <2>6. QED
    BY <1>0, <2>1, <2>4, <2>5 DEF FirstComeFirstServed, SerialsInOrder
<1>3. CASE Shutdown
  BY <1>0, <1>3 DEF Shutdown, FirstComeFirstServed, SerialsInOrder, thrVars,
                    frameVars
<1>4. ASSUME NEW f \in Frames, NEW s \in Fds, Accept(f, s)
      PROVE  (FirstComeFirstServed /\ SerialsInOrder)'
  <2>1. /\ UNCHANGED <<qlist, taken, tcount, pc, frame>> /\ mframe' = f
        /\ fcount' = [fcount EXCEPT ![f] = tcount] /\ mpc = "poll"
    BY <1>4 DEF Accept, queueVars, thrVars
  <2>2. fcount'[f] = tcount
        /\ \A g \in Frames \ {f} : fcount'[g] = fcount[g]
    BY <1>0, <2>1 DEF TypeOK
  <2>3. \A i \in 1 .. Len(qlist) : fcount'[qlist[i]] = fcount[qlist[i]]
    BY <1>4, <1>a, <2>2, FreshFrame DEF Members
  <2>4. \A v \in Workers : pc[v] = "inc" => fcount'[frame[v]] = fcount[frame[v]]
    BY <1>0, <1>4, <2>2, FreshFrame
    DEF OwnsFrame, FramesAccounted, TypeOK, ServeStates
  <2>5. QED
    BY <1>0, <2>1, <2>2, <2>3, <2>4 DEF FirstComeFirstServed, SerialsInOrder
<1>5. ASSUME NEW w \in Workers, mpc # "halt", TakeFrame(w)
      PROVE  (FirstComeFirstServed /\ SerialsInOrder)'
  <2>1. /\ UNCHANGED <<mframe, tcount, fcount, mpc>> /\ taken' = taken + 1
        /\ frame' = [frame EXCEPT ![w] = req_queue]
        /\ pc' = [pc EXCEPT ![w] = "inc"] /\ qmutex = NULL
    BY <1>5 DEF TakeFrame, mainVars, frameVars
  <2>2. qlist # <<>> /\ req_queue = qlist[1] /\ qlist' = Tail(qlist)
    BY <1>5, HeadFrame
  <2>3. /\ Len(qlist) \in Nat \ {0} /\ Len(qlist') = Len(qlist) - 1
        /\ \A i \in 1 .. Len(qlist) - 1 : qlist'[i] = qlist[i + 1]
    BY <1>a, <2>2, TailFacts
  <2>4. \A i \in 1 .. Len(qlist) : fcount[qlist[i]] = taken + i - 1
    BY <1>0, <1>5 DEF SerialsInOrder
  <2>5. \A i \in 1 .. Len(qlist') : fcount[qlist'[i]] = taken' + i - 1
    <3>1. ASSUME NEW i \in 1 .. Len(qlist')
          PROVE  fcount[qlist'[i]] = taken' + i - 1
      <4>1. /\ i + 1 \in 1 .. Len(qlist) /\ qlist'[i] = qlist[i + 1]
            /\ taken' + i - 1 = taken + (i + 1) - 1
        BY <1>a, <2>1, <2>3
      <4>2. QED
        BY <2>4, <4>1
    <3>2. QED
      BY <3>1
  <2>6. taken' + Len(qlist') = tcount'
    <3>1. taken + Len(qlist) = tcount
      BY <1>0, <1>5 DEF FirstComeFirstServed
    <3>2. QED
      BY <1>a, <2>1, <2>3, <3>1
  <2>7. frame'[w] = qlist[1] /\ fcount[qlist[1]] = taken' - 1
    BY <1>0, <1>a, <2>1, <2>2, <2>3, <2>4 DEF TypeOK
  <2>8. ASSUME NEW v \in Workers, pc'[v] = "inc" PROVE v = w
    BY <1>0, <2>1, <2>8, ConstantsOK DEF FramesAccounted, TypeOK, Workers
  <2>9. QED
    BY <1>0, <1>5, <2>1, <2>5, <2>6, <2>7, <2>8
    DEF FirstComeFirstServed, SerialsInOrder
<1>6. ASSUME NEW w \in Workers, release_frame(w)
      PROVE  (FirstComeFirstServed /\ SerialsInOrder)'
  <2>1. /\ UNCHANGED <<qlist, mframe, tcount, taken, fcount, mpc, frame>>
        /\ pc' = [pc EXCEPT ![w] = "respond"]
    BY <1>6 DEF release_frame, queueVars, mainVars
  <2>2. \A v \in Workers : pc'[v] = "inc" => pc[v] = "inc"
    BY <1>0, <2>1 DEF TypeOK
  <2>3. QED
    BY <1>0, <2>1, <2>2 DEF FirstComeFirstServed, SerialsInOrder
<1>7. QED
  BY <1>0, <1>1, <1>2, <1>3, <1>4, <1>5, <1>6, QuietOrNot

-----------------------------------------------------------------------------
(* What the threads know of their frames.                                  *)
LEMMA PlacedStep ==
  ASSUME Inductive, [Next]_vars
  PROVE  /\ mpc' # "halt" => (mframe' # NULL <=> mpc' \in {"grow", "enq"})
         /\ Members(qlist') \cup Members(plist') \subseteq heap'
         /\ mframe' \in heap' \cup {NULL}
         /\ \A f \in heap' : fsock'[f] \in Fds
         /\ heap \subseteq heap'
<1> DEFINE Placed == /\ mpc' # "halt" => (mframe' # NULL <=> mpc' \in {"grow", "enq"})
                     /\ Members(qlist') \cup Members(plist') \subseteq heap'
                     /\ mframe' \in heap' \cup {NULL}
                     /\ \A f \in heap' : fsock'[f] \in Fds
                     /\ heap \subseteq heap'
<1>0. TypeOK /\ FramesAccounted
  BY DEF Inductive
<1>1. CASE Quiet
  BY <1>0, <1>1 DEF Quiet, FramesAccounted, queueVars, poolVars, frameVars,
                    Members
<1>2. CASE Enqueue
  <2>1. /\ qlist' = Append(qlist, mframe) /\ mframe' = NULL /\ mpc' = "top"
        /\ UNCHANGED <<plist, heap, fsock>> /\ mframe \in heap
        /\ mframe \in Frames
    BY <1>0, <1>2 DEF Enqueue, enqueue_frame, poolVars, FramesAccounted, TypeOK
  <2>2. Members(qlist') = Members(qlist) \cup {mframe}
        /\ Members(plist') = Members(plist)
    <3>1. qlist \in Seq(Frames)
      BY <1>0 DEF TypeOK
    <3>2. QED
      BY <2>1, <3>1, AppendFacts
  <2>3. QED
    BY <1>0, <2>1, <2>2 DEF FramesAccounted
<1>3. CASE Shutdown
  <2>1. /\ qlist' = <<>> /\ plist' = <<>> /\ mpc = "top" /\ mpc' = "halt"
        /\ UNCHANGED <<heap, fsock, mframe>>
    BY <1>3 DEF Shutdown, frameVars
  <2>2. Members(qlist') = {} /\ Members(plist') = {}
    BY <2>1 DEF Members
  <2>3. QED
    BY <1>0, <2>1, <2>2 DEF FramesAccounted
<1>4. ASSUME NEW f \in Frames, NEW s \in Fds, Accept(f, s) PROVE Placed
  <2>1. /\ qlist' = qlist /\ mframe' = f /\ mpc' = "grow" /\ f # NULL
        /\ fsock' = [fsock EXCEPT ![f] = s]
    BY <1>4, ConstantsOK DEF Accept, queueVars
  <2>2. heap' = heap \cup {f} /\ Members(plist') \subseteq Members(plist)
    BY <1>4, FreshFrame
  <2>3. \A g \in heap' : fsock'[g] \in Fds
    BY <1>0, <2>1, <2>2 DEF TypeOK, FramesAccounted
  <2>4. QED
    BY <1>0, <2>1, <2>2, <2>3 DEF FramesAccounted, Members
<1>5. ASSUME NEW w \in Workers, TakeFrame(w) PROVE Placed
  <2>1. UNCHANGED <<mframe, mpc, plist, heap, fsock>>
    BY <1>5 DEF TakeFrame, mainVars, poolVars, frameVars
  <2>2. Members(qlist') \subseteq Members(qlist)
    BY <1>5, HeadFrame
  <2>3. QED
    BY <1>0, <2>1, <2>2 DEF FramesAccounted, Members
<1>6. ASSUME NEW w \in Workers, release_frame(w) PROVE Placed
  <2>1. /\ UNCHANGED <<mframe, mpc, qlist, heap, fsock>>
        /\ plist' = <<frame[w]>> \o plist /\ pc[w] = "release"
    BY <1>6 DEF release_frame, mainVars, queueVars
  <2>2. frame[w] \in heap /\ frame[w] \in Frames
    BY <1>0, <2>1 DEF FramesAccounted, ServeStates, OwnsFrame, TypeOK
  <2>3. Members(plist') = Members(plist) \cup {frame[w]}
    BY <1>0, <2>1, <2>2, PushFacts DEF TypeOK
  <2>4. QED
    BY <1>0, <2>1, <2>2, <2>3 DEF FramesAccounted, Members
<1>7. QED
  BY <1>0, <1>1, <1>2, <1>3, <1>4, <1>5, <1>6, QuietOrNot

(* What one dispatcher knows of its frame, its descriptor and qmutex stays *)
(* true whatever step it or another thread takes.                          *)
LEMMA KnowsStep ==
  ASSUME Inductive, [Next]_vars, NEW v \in Workers
  PROVE  /\ pc'[v] \in ServeStates => frame'[v] \in heap'
         /\ pc'[v] \in ServeStates \ {"inc"} => sock'[v] \in Fds
         /\ pc'[v] = "inc" <=> qmutex' = v
         /\ v > nthreads' => pc'[v] = "off"
<1> DEFINE Knows == /\ pc'[v] \in ServeStates => frame'[v] \in heap'
                    /\ pc'[v] \in ServeStates \ {"inc"} => sock'[v] \in Fds
                    /\ pc'[v] = "inc" <=> qmutex' = v
                    /\ v > nthreads' => pc'[v] = "off"
<1> USE DEF ServeStates, OwnsFrame
<1>0. TypeOK /\ NULL \notin Workers /\ heap \subseteq heap'
  BY ConstantsOK, PlacedStep DEF Inductive, Workers
<1>a. /\ pc[v] \in ServeStates => frame[v] \in heap
      /\ pc[v] \in ServeStates \ {"inc"} => sock[v] \in Fds
      /\ pc[v] = "inc" <=> qmutex = v
      /\ v > nthreads => pc[v] = "off"
  BY DEF Inductive, FramesAccounted
<1>1. CASE UNCHANGED <<pc, frame, sock, qmutex, nthreads>>
  BY <1>0, <1>a, <1>1
<1>2. CASE Grow
  <2>1. UNCHANGED <<frame, sock, qmutex>>
    BY <1>2 DEF Grow, countVars
  <2>2. CASE UNCHANGED <<nthreads, pc>>
    BY <1>0, <1>a, <2>1, <2>2
  <2>3. CASE /\ nthreads' = nthreads + 1
             /\ pc' = [pc EXCEPT ![nthreads + 1] = "start"]
    <3>1. nthreads \in Nat /\ v \in Nat
      BY <1>0, ConstantsOK DEF TypeOK, Workers
    <3>2. CASE v = nthreads + 1
      <4>1. pc[v] = "off" /\ pc'[v] = "start" /\ ~(v > nthreads')
        BY <1>0, <1>a, <2>3, <3>1, <3>2 DEF TypeOK
      <4>2. QED
        BY <1>a, <2>1, <4>1
    <3>3. CASE v # nthreads + 1
      <4>1. pc'[v] = pc[v] /\ (v > nthreads' => v > nthreads)
        BY <1>0, <2>3, <3>1, <3>3 DEF TypeOK
      <4>2. QED
        BY <1>0, <1>a, <2>1, <4>1
    <3>4. QED
      BY <3>2, <3>3
  <2>4. QED
    BY <1>2, <2>2, <2>3 DEF Grow
<1>3. ASSUME NEW w \in Workers, TakeFrame(w) PROVE Knows
  <2>1. /\ frame' = [frame EXCEPT ![w] = req_queue] /\ sock' = sock
        /\ pc' = [pc EXCEPT ![w] = "inc"] /\ qmutex = NULL /\ qmutex' = w
        /\ nthreads' = nthreads /\ heap' = heap /\ pc[w] # "off"
    BY <1>3 DEF TakeFrame, WaitReturns, mainVars, poolVars
  <2>2. req_queue \in heap
    BY <1>3, HeadFrame DEF Inductive, FramesAccounted
  <2>3. CASE v = w
    BY <1>0, <1>a, <2>1, <2>2, <2>3 DEF TypeOK
  <2>4. CASE v # w
    BY <1>0, <1>a, <2>1, <2>4 DEF TypeOK
  <2>5. QED
    BY <2>3, <2>4
<1>4. ASSUME NEW w \in Workers, BeginRequest(w) PROVE Knows
  <2>1. /\ sock' = [sock EXCEPT ![w] = fsock[frame[w]]] /\ frame' = frame
        /\ pc' = [pc EXCEPT ![w] = "read"] /\ pc[w] = "inc" /\ qmutex' = NULL
        /\ nthreads' = nthreads
    BY <1>4 DEF BeginRequest, unlock_qmutex, mainVars
  <2>2. qmutex = w /\ frame[w] \in heap /\ fsock[frame[w]] \in Fds
    BY <2>1 DEF Inductive, FramesAccounted
  <2>3. CASE v = w
    BY <1>0, <1>a, <2>1, <2>2, <2>3 DEF TypeOK
  <2>4. CASE v # w
    BY <1>0, <1>a, <2>1, <2>2, <2>4 DEF TypeOK
  <2>5. QED
    BY <2>3, <2>4
<1>5. ASSUME NEW w \in Workers, DecStore(w) PROVE Knows
  <2>1. /\ frame' = [frame EXCEPT ![w] = NULL]
        /\ sock' = [sock EXCEPT ![w] = NULL]
        /\ pc' = [pc EXCEPT ![w] = "loop"] /\ pc[w] = "decst"
        /\ UNCHANGED <<qmutex, nthreads>>
    BY <1>5 DEF DecStore, mainVars
  <2>2. CASE v = w
    BY <1>0, <1>a, <2>1, <2>2 DEF TypeOK
  <2>3. CASE v # w
    BY <1>0, <1>a, <2>1, <2>3 DEF TypeOK
  <2>4. QED
    BY <2>2, <2>3
<1>6. ASSUME NEW w \in Workers, UNCHANGED <<frame, sock, qmutex, nthreads>>,
             NEW x, pc' = [pc EXCEPT ![w] = x], x \notin {"inc", "off"},
             pc[w] \notin {"inc", "off"},
             x \in ServeStates => pc[w] \in ServeStates
      PROVE  Knows
  <2>1. CASE v = w
    BY <1>0, <1>a, <1>6, <2>1 DEF TypeOK
  <2>2. CASE v # w
    BY <1>0, <1>a, <1>6, <2>2 DEF TypeOK
  <2>3. QED
    BY <2>1, <2>2
<1>7. ASSUME NEW w \in Workers, RegisterRead(w) \/ RegisterWrite(w)
                                \/ StartWait(w) \/ WakeForNothing(w)
      PROVE  Knows
  BY <1>6, <1>7 DEF RegisterRead, RegisterWrite, StartWait, WakeForNothing,
                    WaitReturns, mainVars, countVars
<1>8. ASSUME NEW w \in Workers, ReadRequest(w) \/ ReadFails(w) \/ Hang(w)
                                \/ PostIn(w)
      PROVE  Knows
  BY <1>6, <1>8 DEF ReadRequest, ReadFails, Hang, PostIn, mainVars, countVars
<1>9. ASSUME NEW w \in Workers, release_frame(w) \/ Send(w) \/ SendThrows(w)
      PROVE  Knows
  BY <1>6, <1>9 DEF release_frame, Send, SendThrows, mainVars, countVars
<1>b. ASSUME NEW w \in Workers, Respond(w) PROVE Knows
  <2>1. CASE pc' = [pc EXCEPT ![w] = "send"]
    BY <1>6, <1>b, <2>1 DEF Respond, mainVars, countVars
  <2>2. CASE pc' = [pc EXCEPT ![w] = "catch"]
    BY <1>6, <1>b, <2>2 DEF Respond, mainVars, countVars
  <2>3. QED
    BY <1>b, <2>1, <2>2 DEF Respond
<1>c. ASSUME NEW w \in Workers, SignalPipe(w) PROVE Knows
  BY <1>1, <1>c DEF SignalPipe, thrVars, countVars
<1>10. ASSUME NEW w \in Workers, catch_req(w) \/ DecRead(w) PROVE Knows
  BY <1>6, <1>10 DEF catch_req, DecRead, mainVars, countVars
<1>11. CASE UNCHANGED vars \/ Poll \/ PollTimeout \/ Enqueue \/ Shutdown
            \/ exit_gusher
  BY <1>1, <1>11 DEF vars, Poll, PollTimeout, Enqueue, Shutdown, exit_gusher,
                     thrVars, countVars, mainVars
<1>12. ASSUME NEW f \in Frames, NEW s \in Fds, Accept(f, s) PROVE Knows
  BY <1>1, <1>12 DEF Accept, thrVars, countVars
<1>13. QED
  BY <1>2, <1>3, <1>4, <1>5, <1>7, <1>8, <1>9, <1>b, <1>c, <1>10, <1>11, <1>12
  DEF Next, MainLoop, dispatcher, Idle, Serve

-----------------------------------------------------------------------------
(* The conjunction of the invariants is inductive.                         *)
LEMMA InductiveInit == Init => Inductive
<1> SUFFICES ASSUME Init PROVE Inductive
  OBVIOUS
<1> DEFINE n == IF Processors < MaxThreads THEN Processors ELSE MaxThreads
<1>0. n \in 1 .. MaxThreads
  BY ConstantsOK
<1>1. /\ qlist = <<>> /\ plist = <<>> /\ req_queue = NULL /\ req_pool = NULL
      /\ mframe = NULL /\ mpc = "top" /\ heap = {} /\ qmutex = NULL
      /\ taken = 0 /\ tcount = 0 /\ nthreads = n
      /\ pc = [w \in Workers |-> IF w <= n THEN "start" ELSE "off"]
  BY DEF Init
<1>2. TypeOK
  <2>1. pc \in [Workers -> WorkerStates] /\ nthreads \in 0 .. MaxThreads
    BY <1>0, <1>1, ConstantsOK DEF WorkerStates, IdleStates
  <2>a. running \in BOOLEAN /\ raced \in BOOLEAN
    BY DEF Init
  <2>2. /\ busy_threads \in Int /\ qcondvars \subseteq Workers /\ signalled \subseteq Workers
        /\ req_tail \in Frames \cup {NULL} /\ consumed \subseteq Nat
        /\ dropped \subseteq Nat
    BY DEF Init
  <2>3. /\ next \in [Frames -> Frames \cup {NULL}]
        /\ fsock \in [Frames -> Fds \cup {NULL}]
        /\ fcount \in [Frames -> Nat]
        /\ frame \in [Workers -> Frames \cup {NULL}]
        /\ sock \in [Workers -> Fds \cup {NULL}]
    BY DEF Init
  <2>4. /\ req \in [Workers -> Nat \cup {NULL}]
        /\ reg \in [Workers -> Int]
        /\ seen \in [Workers -> SUBSET Workers]
        /\ fd \in [Fds -> Nat \cup {NULL}]
        /\ got \in [Conns -> SUBSET (Nat \cup {NULL})]
    BY DEF Init
  <2>5. QED
    BY <1>1, <2>1, <2>a, <2>2, <2>3, <2>4 DEF TypeOK
<1>3. Members(qlist) = {} /\ Members(plist) = {} /\ NoRepeats(qlist)
      /\ NoRepeats(plist)
  BY <1>1 DEF Members, NoRepeats
<1>4. \A w \in Workers : pc[w] \in {"start", "off"}
                         /\ (w > nthreads => pc[w] = "off")
  BY <1>0, <1>1, ConstantsOK DEF Workers
<1>5. ListsWellFormed
  BY <1>1 DEF ListsWellFormed, Represents
<1>6. FrameOwnership /\ FramesAccounted
  BY <1>1, <1>3, <1>4, ConstantsOK
  DEF FrameOwnership, FramesAccounted, OwnsFrame, ServeStates, Workers
<1>7. FirstComeFirstServed /\ SerialsInOrder
  BY <1>1, <1>4 DEF FirstComeFirstServed, SerialsInOrder
<1>8. QED
  BY <1>2, <1>5, <1>6, <1>7 DEF Inductive

(* Every step of the main thread or of a dispatcher preserves the          *)
(* conjunction.                                                            *)
LEMMA InductiveStep ==
  ASSUME Inductive, [Next]_vars
  PROVE  Inductive'
<1>1. FramesAccounted'
  BY PlacedStep, KnowsStep DEF FramesAccounted
<1>2. QED
  BY <1>1, TypeStep, ListsStep, OwnershipStep, OrderStep DEF Inductive

(* The conjunction holds in every state that main.c's request path can     *)
(* reach; the theorems below are parts of it.                              *)
THEOREM InductiveAlways == Spec => []Inductive
<1>1. Inductive /\ UNCHANGED vars => Inductive'
  BY InductiveStep
<1>2. QED
  BY InductiveInit, InductiveStep, <1>1, PTL DEF Spec

(* Type correctness of the request path of main.c.                         *)
THEOREM TypeCorrect == Spec => []TypeOK
<1>1. Inductive => TypeOK
  BY DEF Inductive
<1>2. QED
  BY <1>1, InductiveAlways, PTL

(* The intrusive lists of get_frame, release_frame, enqueue_frame and      *)
(* dispatcher() are never corrupted, however the threads interleave.       *)
THEOREM ListsCorrect == Spec => []ListsWellFormed
<1>1. Inductive => ListsWellFormed
  BY DEF Inductive
<1>2. QED
  BY <1>1, InductiveAlways, PTL

(* No frame is released twice or recycled while its request is being read. *)
THEOREM OwnershipCorrect == Spec => []FrameOwnership
<1>1. Inductive => FrameOwnership
  BY DEF Inductive
<1>2. QED
  BY <1>1, InductiveAlways, PTL

(* Connections are taken exactly once and in the order of accept().        *)
THEOREM OrderCorrect == Spec => []FirstComeFirstServed
<1>1. Inductive => FirstComeFirstServed
  BY DEF Inductive
<1>2. QED
  BY <1>1, InductiveAlways, PTL

-----------------------------------------------------------------------------
(* busy_threads, descriptors, replies and the service.                      *)

(* Threads between the two updates of busy_threads.                        *)
Counted == {w \in Workers :
              pc[w] \in (ServeStates \ {"inc"}) \cup {"dec", "decst"}}

(* An update that finds the value it read is the only one under way.       *)
LEMMA CountStep ==
  ASSUME Inductive, BusyCountExact, [Next]_vars
  PROVE  BusyCountExact'
<1> USE DEF ServeStates, OwnsFrame
<1>0. TypeOK
  BY DEF Inductive
<1>1. BusyCountExact <=> (~raced => busy_threads = Cardinality(Counted))
  BY DEF BusyCountExact, Counted
<1>2. BusyCountExact' <=> (~raced' => busy_threads' = Cardinality(Counted'))
  BY DEF BusyCountExact, Counted
<1>3. /\ IsFiniteSet(Counted) /\ Cardinality(Counted) \in Nat
  <2>1. IsFiniteSet(Workers)
    BY ConstantsOK, FS_Interval DEF Workers
  <2>2. QED
    BY <2>1, FS_Subset, FS_CardinalityType DEF Counted
<1>4. ASSUME NEW w \in Workers, BeginRequest(w)
      PROVE  BusyCountExact'
  <2>1. /\ Counted' = Counted \cup {w} /\ w \notin Counted
        /\ busy_threads' = reg[w] + 1
        /\ raced' = (raced \/ reg[w] # busy_threads)
    BY <1>0, <1>4 DEF BeginRequest, Counted, TypeOK
  <2>2. Cardinality(Counted') = Cardinality(Counted) + 1
    BY <1>3, <2>1, FS_AddElement
  <2>3. QED
    BY <1>0, <1>1, <1>2, <1>3, <2>1, <2>2 DEF TypeOK
<1>5. ASSUME NEW w \in Workers, DecStore(w)
      PROVE  BusyCountExact'
  <2>1. /\ Counted' = Counted \ {w} /\ w \in Counted
        /\ busy_threads' = reg[w] - 1
        /\ raced' = (raced \/ reg[w] # busy_threads)
    BY <1>0, <1>5 DEF DecStore, Counted, TypeOK
  <2>2. Cardinality(Counted') = Cardinality(Counted) - 1
    BY <1>3, <2>1, FS_RemoveElement
  <2>3. QED
    BY <1>0, <1>1, <1>2, <1>3, <2>1, <2>2 DEF TypeOK
<1>6. CASE UNCHANGED <<busy_threads, raced>> /\ Counted' = Counted
  BY <1>1, <1>2, <1>6
<1>7. CASE UNCHANGED vars
  BY <1>6, <1>7 DEF vars, countVars, thrVars, Counted
<1>8. CASE Poll \/ PollTimeout \/ Enqueue \/ Shutdown \/ exit_gusher
           \/ \E f \in Frames, s \in Fds : Accept(f, s)
  BY <1>6, <1>8 DEF Poll, PollTimeout, Enqueue, Shutdown, exit_gusher, Accept,
     countVars, thrVars, Counted
<1>9. CASE Grow
  <2>1. CASE UNCHANGED pc
    BY <1>6, <1>9, <2>1 DEF Grow, countVars, Counted
  <2>2. CASE pc' = [pc EXCEPT ![nthreads + 1] = "start"]
    <3>1. \A w \in Workers : pc'[w] # pc[w] => pc[w] = "off" /\ pc'[w] = "start"
      BY <1>0, <2>2 DEF Inductive, FramesAccounted, TypeOK, Workers
    <3>2. Counted' = Counted
      BY <3>1 DEF Counted
    <3>3. QED
      BY <1>6, <1>9, <3>2 DEF Grow, countVars
  <2>3. QED
    BY <1>9, <2>1, <2>2 DEF Grow
<1>10. ASSUME NEW w \in Workers,
              \/ RegisterRead(w) \/ RegisterWrite(w) \/ StartWait(w)
              \/ WakeForNothing(w) \/ TakeFrame(w)
       PROVE  BusyCountExact'
  BY <1>0, <1>6, <1>10 DEF RegisterRead, RegisterWrite, StartWait, WakeForNothing,
     TakeFrame, WaitReturns, TimesOut, countVars, Counted, TypeOK
<1>11. ASSUME NEW w \in Workers,
              \/ ReadRequest(w) \/ ReadFails(w) \/ Hang(w) \/ PostIn(w)
              \/ release_frame(w) \/ Respond(w) 
       PROVE  BusyCountExact'
  BY <1>0, <1>6, <1>11 DEF ReadRequest, ReadFails, Hang, PostIn, release_frame,
     Respond, countVars, Counted, TypeOK
<1>12. ASSUME NEW w \in Workers,
              Send(w) \/ SendThrows(w) \/ SignalPipe(w) \/ catch_req(w) \/ DecRead(w)
       PROVE  BusyCountExact'
  BY <1>0, <1>6, <1>12 DEF Send, SendThrows, SignalPipe, catch_req, DecRead, countVars,
     thrVars, Counted, TypeOK
<1>13. QED
  BY <1>4, <1>5, <1>7, <1>8, <1>9, <1>10, <1>11, <1>12
  DEF Next, MainLoop, dispatcher, Idle, Serve

(* Unless two unlocked updates overlapped, busy_threads counts the threads *)
(* that serve, so that process_http grows the pool when all are busy.      *)
THEOREM BusyCount == Spec => []BusyCountExact
<1>1. Init => BusyCountExact
  <2>1. ASSUME Init PROVE Counted = {}
    BY <2>1 DEF Init, Counted, ServeStates, OwnsFrame
  <2>2. QED
    BY <2>1, FS_EmptySet DEF Init, BusyCountExact, Counted
<1>2. Inductive /\ BusyCountExact /\ [Next]_vars => BusyCountExact'
  BY CountStep
<1>3. QED
  BY <1>1, <1>2, InductiveAlways, PTL DEF Spec

-----------------------------------------------------------------------------
(* While no responder throws: the open descriptors, and who answers on     *)
(* them.  Every descriptor in somebody's hands is open for the connection  *)
(* that the holder thinks it is, and no two hold the same one.             *)
Serving(w) == pc[w] \in ServeStates \ {"inc"}

OpenKnown ==
  \A s \in Fds : fd[s] # NULL =>
    /\ fd[s] \in Conns
    /\ fd[s] < tcount \/ (fd[s] = tcount /\ mframe # NULL)
    /\ \A r \in Fds : fd[r] = fd[s] => r = s

WaitingOpen ==
  /\ mframe # NULL => fd[fsock[mframe]] = tcount
  /\ \A i \in 1 .. Len(qlist) : fd[fsock[qlist[i]]] = taken + i - 1

(* Connection c is being served, and has seen neither reply nor end.       *)
Unanswered(c) == c \in Conns /\ c < taken /\ got[c] = {} /\ c \notin dropped

TakenOpen ==
  \A w \in Workers : pc[w] = "inc" =>
    fd[fsock[frame[w]]] = taken - 1 /\ Unanswered(taken - 1)

ServedOpen ==
  \A w \in Workers : Serving(w) =>
    /\ pc[w] # "catch"
    /\ fd[sock[w]] # NULL /\ Unanswered(fd[sock[w]])
    /\ pc[w] \in OwnsFrame => sock[w] = fsock[frame[w]]
    /\ pc[w] \notin {"read", "stuck"} => req[w] = fd[sock[w]]
    /\ \A v \in Workers : pc[v] = "inc" => fd[sock[w]] # taken - 1
    /\ \A v \in Workers : Serving(v) /\ sock[v] = sock[w] => v = w

Answered ==
  /\ \A c \in Conns : got[c] \subseteq {c} /\ (got[c] # {} => c < taken)
  /\ \A c \in dropped : c < taken

ServiceInv == /\ OpenKnown /\ WaitingOpen /\ TakenOpen /\ ServedOpen
              /\ Answered /\ DescriptorsHeld

-----------------------------------------------------------------------------
(* The steps, as far as descriptors and replies are concerned.  A calm one *)
(* changes neither who holds a connection nor what it has been sent.       *)
Calm ==
  /\ UNCHANGED <<fd, got, dropped, fsock, mframe, tcount, taken, qlist>>
  /\ mpc = "halt" => mpc' = "halt"
  /\ \A v \in Workers :
       /\ pc'[v] = "inc" <=> pc[v] = "inc"
       /\ pc'[v] = "inc" => frame'[v] = frame[v]
       /\ Serving(v)' <=> Serving(v)
       /\ Serving(v) =>
            /\ sock'[v] = sock[v] /\ frame'[v] = frame[v]
            /\ pc'[v] \in OwnsFrame => pc[v] \in OwnsFrame
            /\ pc'[v] \notin {"read", "stuck"} => req'[v] = fd[sock[v]]
            /\ pc'[v] # "catch"

(* Thread w is done with its connection and starts busy_threads--.         *)
Done(w) ==
  /\ UNCHANGED <<fsock, mframe, tcount, taken, qlist, mpc, frame, sock, req>>
  /\ mpc # "halt" /\ Serving(w) /\ pc' = [pc EXCEPT ![w] = "dec"]

(* It has answered and closed, on the normal path or in catch_req.         *)
Answers(w) ==
  /\ Done(w) /\ UNCHANGED dropped
  /\ got' = [got EXCEPT ![fd[sock[w]]] = {fd[sock[w]]}]
  /\ fd' = [fd EXCEPT ![sock[w]] = NULL]

(* It has returned without either, at end of file.                         *)
GivesUp(w) ==
  /\ Done(w) /\ UNCHANGED <<fd, got>>
  /\ dropped' = dropped \cup {fd[sock[w]]}

(* Without exceptions a step that changes who is answered what is one of   *)
(* these; all others are calm.                                             *)
LEMMA Steps ==
  ASSUME Inductive, ServiceInv, "throw" \notin Faults, [Next]_vars
  PROVE  \/ Calm \/ Enqueue \/ Shutdown
         \/ \E f \in Frames, s \in Fds : Accept(f, s)
         \/ \E w \in Workers : mpc # "halt" /\ TakeFrame(w)
         \/ \E w \in Workers : mpc # "halt" /\ BeginRequest(w)
         \/ \E w \in Workers : mpc # "halt" /\ (Answers(w) \/ GivesUp(w))
<1> USE DEF Serving, ServeStates, OwnsFrame
<1>0. TypeOK /\ FramesAccounted /\ ServedOpen
  BY DEF Inductive, ServiceInv
<1>1. \A v \in Workers : Serving(v) =>
        pc[v] # "catch" /\ (pc[v] \notin {"read", "stuck"} => req[v] = fd[sock[v]])
  BY <1>0 DEF ServedOpen
<1>2. CASE UNCHANGED vars
  BY <1>1, <1>2 DEF vars, mainVars, queueVars, poolVars, frameVars, countVars,
     condVars, netVars, thrVars, Calm
<1>3. CASE Poll \/ PollTimeout \/ exit_gusher
  BY <1>1, <1>3 DEF Poll, PollTimeout, exit_gusher, queueVars, frameVars, netVars,
     thrVars, Calm
<1>4. CASE Grow
  <2>1. CASE UNCHANGED pc
    BY <1>1, <1>4, <2>1 DEF Grow, queueVars, frameVars, netVars, thrVars, Calm
  <2>2. CASE pc' = [pc EXCEPT ![nthreads + 1] = "start"]
    <3>1. \A v \in Workers : pc'[v] # pc[v] => pc[v] = "off" /\ pc'[v] = "start"
      BY <1>0, <2>2 DEF FramesAccounted, TypeOK, Workers
    <3>2. UNCHANGED <<fd, got, dropped, fsock, mframe, tcount, taken, qlist, sock,
                      frame, req>> /\ mpc = "grow" /\ mpc' = "enq"
      BY <1>4 DEF Grow, queueVars, frameVars, netVars
    <3>3. QED
      BY <1>1, <3>1, <3>2 DEF Calm
  <2>3. QED
    BY <1>4, <2>1, <2>2 DEF Grow
<1>5. ASSUME NEW w \in Workers, mpc # "halt",
             RegisterRead(w) \/ RegisterWrite(w) \/ StartWait(w)
               \/ WakeForNothing(w)
      PROVE  Calm
  BY <1>0, <1>1, <1>5 DEF RegisterRead, RegisterWrite, StartWait, WakeForNothing,
     WaitReturns, TypeOK, mainVars, queueVars, frameVars, netVars, Calm
<1>6. ASSUME NEW w \in Workers, mpc # "halt",
             Hang(w) \/ PostIn(w) \/ release_frame(w) \/ Respond(w)
      PROVE  Calm
  BY <1>0, <1>1, <1>6 DEF Hang, PostIn, release_frame, Respond, TypeOK, mainVars,
     queueVars, frameVars, netVars, Calm
<1>7. ASSUME NEW w \in Workers, mpc # "halt", ReadRequest(w) PROVE Calm
  BY <1>0, <1>1, <1>7 DEF ReadRequest, TypeOK, mainVars, queueVars, frameVars, Calm
<1>8. ASSUME NEW w \in Workers, mpc # "halt", DecRead(w) \/ DecStore(w)
      PROVE  Calm
  BY <1>0, <1>1, <1>8 DEF DecRead, DecStore, TypeOK, mainVars, queueVars, frameVars,
     netVars, Calm
<1>9. ASSUME NEW w \in Workers, mpc # "halt", ReadFails(w) PROVE GivesUp(w)
  <2>1. fd[sock[w]] # NULL
    BY <1>0, <1>9 DEF ReadFails, ServedOpen
  <2>2. QED
    BY <1>9, <2>1 DEF ReadFails, GivesUp, Done, mainVars, queueVars, frameVars
<1>10. ASSUME NEW w \in Workers, NEW s, s = sock[w], Serving(w),
              req[w] = fd[sock[w]], send_all(w, s), close(s)
       PROVE  /\ got' = [got EXCEPT ![fd[sock[w]]] = {fd[sock[w]]}]
              /\ fd' = [fd EXCEPT ![sock[w]] = NULL]
  <2>1. fd[s] # NULL /\ fd[s] \in Conns /\ got[fd[s]] = {}
    BY <1>0, <1>10 DEF ServedOpen, Unanswered
  <2>2. got' = [got EXCEPT ![fd[s]] = got[fd[s]] \cup {req[w]}]
    BY <1>0, <1>10, <2>1 DEF send_all, TypeOK
  <2>3. QED
    BY <1>10, <2>1, <2>2 DEF close
<1>11. ASSUME NEW w \in Workers, mpc # "halt", Send(w) PROVE Answers(w)
  BY <1>1, <1>10, <1>11 DEF Send, ReplySock, Answers, Done, mainVars, queueVars,
     frameVars
<1>12. ASSUME NEW w \in Workers, mpc # "halt", catch_req(w) PROVE Answers(w)
  <2>1. pc[w] = "ecatch" /\ fsock[frame[w]] = sock[w] /\ req[w] = fd[sock[w]]
    BY <1>0, <1>1, <1>12 DEF catch_req, ServedOpen
  <2>2. QED
    BY <1>10, <1>12, <2>1 DEF catch_req, Answers, Done, mainVars, queueVars, frameVars
<1>13. ASSUME NEW w \in Workers, SignalPipe(w) PROVE Calm
  BY <1>1, <1>13 DEF SignalPipe, queueVars, frameVars, netVars, thrVars, Calm
<1>14. QED
  BY <1>2, <1>3, <1>4, <1>5, <1>6, <1>7, <1>8, <1>9, <1>11, <1>12, <1>13
  DEF Next, MainLoop, dispatcher, Idle, Serve, SendThrows

(* A thread between taking a frame and storing busy_threads is alone.      *)
LEMMA OneTaker ==
  ASSUME Inductive, NEW v \in Workers, NEW w \in Workers,
         pc[v] = "inc", pc[w] = "inc"
  PROVE  v = w
BY DEF Inductive, FramesAccounted

(* ServiceInv over a calm step: every fact is about what it keeps.         *)
LEMMA CalmKeeps ==
  ASSUME Inductive, ServiceInv, Calm
  PROVE  ServiceInv'
<1> USE DEF Calm
<1>1. OpenKnown'
  BY DEF ServiceInv, OpenKnown
<1>2. WaitingOpen'
  BY DEF ServiceInv, WaitingOpen
<1>3. \A c : Unanswered(c)' <=> Unanswered(c)
  BY DEF Unanswered
<1>4. TakenOpen'
  BY <1>3 DEF ServiceInv, TakenOpen
<1>5. ServedOpen'
  BY <1>3 DEF ServiceInv, ServedOpen
<1>6. Answered'
  BY DEF ServiceInv, Answered
<1>7. DescriptorsHeld'
  BY DEF ServiceInv, DescriptorsHeld, Serving
<1>8. QED
  BY <1>1, <1>2, <1>4, <1>5, <1>6, <1>7 DEF ServiceInv

(* ServiceInv over process_http's accept: the descriptor was free.         *)
LEMMA AcceptKeeps ==
  ASSUME Inductive, ServiceInv, NEW f \in Frames, NEW s \in Fds, Accept(f, s)
  PROVE  ServiceInv'
<1>0. TypeOK /\ FramesAccounted /\ FirstComeFirstServed
  BY DEF Inductive
<1>1. /\ mpc = "poll" /\ mpc' = "grow" /\ fd[s] = NULL /\ tcount \in Conns
      /\ fd' = [fd EXCEPT ![s] = tcount] /\ fsock' = [fsock EXCEPT ![f] = s]
      /\ mframe' = f
      /\ UNCHANGED <<tcount, taken, qlist, got, dropped, pc, frame, sock, req>>
  BY <1>0, ConstantsOK DEF Accept, queueVars, thrVars, TypeOK, Conns
<1>2. /\ mframe = NULL /\ f \notin Members(qlist) /\ f # NULL
      /\ \A v \in Workers : pc[v] \in OwnsFrame => frame[v] # f
  BY FreshFrame, ConstantsOK
<1>3. /\ fd'[s] = tcount /\ \A r \in Fds : r # s => fd'[r] = fd[r]
      /\ fsock'[f] = s /\ \A g \in Frames : g # f => fsock'[g] = fsock[g]
  BY <1>0, <1>1 DEF TypeOK
<1>4. /\ \A v \in Workers : pc[v] \in OwnsFrame =>
           frame[v] \in Frames /\ frame[v] # f /\ fsock[frame[v]] \in Fds
      /\ \A v \in Workers : Serving(v) => sock[v] \in Fds
  BY <1>0, <1>2 DEF FramesAccounted, TypeOK, ServeStates, Serving
<1>5. \A i \in 1 .. Len(qlist) :
        qlist[i] \in Frames /\ qlist[i] # f /\ fsock[qlist[i]] \in Fds
  <2>1. \A i \in 1 .. Len(qlist) : qlist[i] \in Members(qlist)
    BY DEF Members
  <2>2. QED
    BY <1>0, <1>2, <2>1 DEF FramesAccounted, TypeOK
<1>6. tcount \in Nat /\ taken \in Nat /\ Len(qlist) \in Nat /\ taken + Len(qlist) = tcount
  BY <1>0, <1>1 DEF TypeOK, FirstComeFirstServed
<1>7. OpenKnown'
  <2>1. \A r \in Fds : fd[r] # NULL => fd[r] \in Conns /\ fd[r] < tcount
    BY <1>2 DEF ServiceInv, OpenKnown
  <2>2. \A r \in Fds : r # s /\ fd'[r] # NULL => fd'[r] # tcount
    BY <1>3, <1>6, <2>1 DEF Conns
  <2>3. QED
    BY <1>1, <1>2, <1>3, <2>1, <2>2, ConstantsOK DEF ServiceInv, OpenKnown, Conns
<1>8. WaitingOpen'
  <2>1. \A i \in 1 .. Len(qlist) : fd[fsock[qlist[i]]] = taken + i - 1
    BY DEF ServiceInv, WaitingOpen
  <2>2. \A i \in 1 .. Len(qlist) : taken + i - 1 \in Nat
    BY <1>6
  <2>3. \A i \in 1 .. Len(qlist) : fd'[fsock'[qlist[i]]] = fd[fsock[qlist[i]]]
    BY <1>1, <1>3, <1>5, <2>1, <2>2, ConstantsOK
  <2>4. QED
    BY <1>1, <1>3, <2>1, <2>3 DEF WaitingOpen
<1>9. \A c : Unanswered(c)' <=> Unanswered(c)
  BY <1>1 DEF Unanswered
<1>10. \A v \in Workers : Serving(v)' <=> Serving(v)
  BY <1>1 DEF Serving
<1>11. TakenOpen'
  <2>1. ASSUME NEW w \in Workers, pc[w] = "inc"
        PROVE  fd'[fsock'[frame[w]]] = taken - 1 /\ Unanswered(taken - 1)
    <3>1. fd[fsock[frame[w]]] = taken - 1 /\ Unanswered(taken - 1)
      BY <2>1 DEF ServiceInv, TakenOpen
    <3>2. taken - 1 # NULL
      BY <3>1, ConstantsOK DEF Unanswered, Conns
    <3>3. QED
      BY <1>1, <1>3, <1>4, <2>1, <3>1, <3>2 DEF OwnsFrame
  <2>2. QED
    BY <1>1, <1>9, <2>1 DEF TakenOpen
<1>12. ServedOpen'
  <2>1. \A w \in Workers : Serving(w) => sock[w] # s
    BY <1>1 DEF ServiceInv, ServedOpen
  <2>2. \A w \in Workers : Serving(w) => fd'[sock[w]] = fd[sock[w]]
    BY <1>3, <1>4, <2>1
  <2>3. \A w \in Workers : pc[w] \in OwnsFrame => fsock'[frame[w]] = fsock[frame[w]]
    BY <1>3, <1>4
  <2>4. QED
    BY <1>1, <1>9, <1>10, <2>2, <2>3 DEF ServiceInv, ServedOpen
<1>13. Answered'
  BY <1>1 DEF ServiceInv, Answered
<1>14. DescriptorsHeld'
  <2>1. ASSUME NEW r \in Fds, fd'[r] # NULL, r # s
        PROVE  \/ fd'[r] \in dropped'
               \/ \E i \in 1 .. Len(qlist) : fsock'[qlist[i]] = r
               \/ \E w \in Workers : \/ pc[w] = "inc" /\ fsock'[frame[w]] = r
                                     \/ Serving(w) /\ sock[w] = r
    <3>1. \/ fd[r] \in dropped
          \/ \E i \in 1 .. Len(qlist) : fsock[qlist[i]] = r
          \/ \E w \in Workers : \/ pc[w] = "inc" /\ fsock[frame[w]] = r
                                \/ Serving(w) /\ sock[w] = r
      BY <1>1, <1>2, <1>3, <2>1 DEF ServiceInv, DescriptorsHeld, Serving
    <3>2. QED
      BY <1>1, <1>3, <1>4, <1>5, <2>1, <3>1 DEF OwnsFrame
  <2>2. QED
    BY <1>1, <1>2, <1>3, <2>1 DEF DescriptorsHeld, Serving
<1>15. QED
  BY <1>7, <1>8, <1>11, <1>12, <1>13, <1>14 DEF ServiceInv

(* ServiceInv over enqueue_frame and tcount++: the connection goes from    *)
(* process_http's hands to the end of the queue.                           *)
LEMMA EnqueueKeeps ==
  ASSUME Inductive, ServiceInv, Enqueue
  PROVE  ServiceInv'
<1>0. TypeOK /\ FramesAccounted /\ FirstComeFirstServed
  BY DEF Inductive
<1>1. /\ mpc = "enq" /\ mpc' = "top" /\ qlist' = Append(qlist, mframe)
      /\ tcount' = tcount + 1 /\ mframe' = NULL
      /\ UNCHANGED <<fsock, taken, fd, got, dropped, pc, frame, sock, req>>
  BY DEF Enqueue, enqueue_frame, netVars, thrVars
<1>2. /\ mframe \in Frames /\ mframe # NULL
      /\ tcount \in Nat /\ taken \in Nat /\ Len(qlist) \in Nat
      /\ taken + Len(qlist) = tcount
  BY <1>0, <1>1 DEF FramesAccounted, TypeOK, FirstComeFirstServed
<1>3. Len(qlist') = Len(qlist) + 1 /\ qlist'[Len(qlist) + 1] = mframe
      /\ \A i \in 1 .. Len(qlist) : qlist'[i] = qlist[i]
  BY <1>0, <1>1, <1>2 DEF TypeOK
<1>4. \A i \in 1 .. Len(qlist') : i = Len(qlist) + 1 \/ i \in 1 .. Len(qlist)
  BY <1>2, <1>3
<1>5. OpenKnown'
  BY <1>1, <1>2 DEF ServiceInv, OpenKnown, Conns
<1>6. WaitingOpen'
  <2>1. /\ fd[fsock[mframe]] = tcount
        /\ \A i \in 1 .. Len(qlist) : fd[fsock[qlist[i]]] = taken + i - 1
    BY <1>2 DEF ServiceInv, WaitingOpen
  <2>2. taken + (Len(qlist) + 1) - 1 = tcount
    BY <1>2
  <2>3. QED
    BY <1>1, <1>3, <1>4, <2>1, <2>2 DEF WaitingOpen
<1>7. TakenOpen' /\ ServedOpen' /\ Answered'
  BY <1>1 DEF ServiceInv, TakenOpen, ServedOpen, Answered, Unanswered, Serving
<1>8. DescriptorsHeld'
  <2>1. ASSUME NEW r \in Fds,
               \/ fsock[mframe] = r
               \/ \E i \in 1 .. Len(qlist) : fsock[qlist[i]] = r
        PROVE  \E i \in 1 .. Len(qlist') : fsock[qlist'[i]] = r
    <3>1. Len(qlist) + 1 \in 1 .. Len(qlist')
          /\ \A i \in 1 .. Len(qlist) : i \in 1 .. Len(qlist')
      BY <1>2, <1>3
    <3>2. QED
      BY <1>3, <2>1, <3>1
  <2>2. QED
    BY <1>1, <2>1 DEF ServiceInv, DescriptorsHeld
<1>9. QED
  BY <1>5, <1>6, <1>7, <1>8 DEF ServiceInv

(* ServiceInv over clear_queues and the end of main().                     *)
LEMMA ShutdownKeeps ==
  ASSUME Inductive, ServiceInv, Shutdown
  PROVE  ServiceInv'
<1>1. /\ mpc' = "halt" /\ qlist' = <<>>
      /\ UNCHANGED <<tcount, mframe, fsock, taken, fd, got, dropped, pc, frame,
                     sock, req>>
  BY DEF Shutdown, frameVars, netVars, thrVars
<1>2. OpenKnown' /\ WaitingOpen' /\ DescriptorsHeld'
  BY <1>1 DEF ServiceInv, OpenKnown, WaitingOpen, DescriptorsHeld
<1>3. TakenOpen' /\ ServedOpen' /\ Answered'
  BY <1>1 DEF ServiceInv, TakenOpen, ServedOpen, Answered, Unanswered, Serving
<1>4. QED
  BY <1>2, <1>3 DEF ServiceInv

(* ServiceInv over dispatcher()'s taking the head of the queue: whoever    *)
(* serves already serves an earlier connection.                            *)
LEMMA TakeKeeps ==
  ASSUME Inductive, ServiceInv, mpc # "halt", NEW w \in Workers, TakeFrame(w)
  PROVE  ServiceInv'
<1> USE DEF OwnsFrame, ServeStates
<1>0. TypeOK /\ FramesAccounted /\ FirstComeFirstServed
  BY DEF Inductive
<1>1. /\ pc[w] \in {"loop", "wait"} /\ qmutex = NULL /\ qlist' = Tail(qlist)
      /\ frame' = [frame EXCEPT ![w] = req_queue] /\ taken' = taken + 1
      /\ pc' = [pc EXCEPT ![w] = "inc"]
      /\ UNCHANGED <<mpc, mframe, tcount, fsock, fd, got, dropped, sock, req>>
  BY DEF TakeFrame, WaitReturns, mainVars, frameVars, netVars
<1>2. qlist # <<>> /\ req_queue = qlist[1] /\ req_queue \in Frames
  BY HeadFrame
<1>3. /\ Len(qlist) \in Nat \ {0} /\ Len(qlist') = Len(qlist) - 1
      /\ \A i \in 1 .. Len(qlist) - 1 : qlist'[i] = qlist[i + 1]
  BY <1>0, <1>1, <1>2, TailFacts DEF TypeOK
<1>4. tcount \in Nat /\ taken \in Nat /\ taken + Len(qlist) = tcount
  BY <1>0 DEF TypeOK, FirstComeFirstServed
<1>5. /\ frame'[w] = qlist[1] /\ pc'[w] = "inc"
      /\ \A v \in Workers : v # w => frame'[v] = frame[v] /\ pc'[v] = pc[v]
      /\ \A v \in Workers : pc[v] # "inc"
  BY <1>0, <1>1, <1>2, ConstantsOK DEF TypeOK, FramesAccounted, Workers
<1>6. /\ \A v \in Workers : Serving(v)' <=> Serving(v)
      /\ \A v \in Workers : Serving(v) => v # w
  BY <1>1, <1>5 DEF Serving
<1>7. OpenKnown'
  BY <1>1 DEF ServiceInv, OpenKnown
<1>8. \A i \in 1 .. Len(qlist) : fd[fsock[qlist[i]]] = taken + i - 1
  BY DEF ServiceInv, WaitingOpen
<1>9. WaitingOpen'
  <2>1. ASSUME NEW i \in 1 .. Len(qlist')
        PROVE  fd[fsock[qlist'[i]]] = taken' + i - 1
    <3>1. /\ i + 1 \in 1 .. Len(qlist) /\ qlist'[i] = qlist[i + 1]
          /\ taken' + i - 1 = taken + (i + 1) - 1
      BY <1>1, <1>3, <1>4
    <3>2. QED
      BY <1>8, <3>1
  <2>2. QED
    BY <1>1, <2>1 DEF ServiceInv, WaitingOpen
<1>10. fd[fsock[qlist[1]]] = taken /\ taken \in Conns
  <2>1. fd[fsock[qlist[1]]] = taken
    BY <1>3, <1>4, <1>8
  <2>2. fsock[qlist[1]] \in Fds
    <3>1. qlist[1] \in heap
      BY <1>0, <1>2, HeadFrame DEF FramesAccounted
    <3>2. QED
      BY <1>0, <3>1 DEF FramesAccounted
  <2>3. QED
    BY <1>4, <2>1, <2>2, ConstantsOK DEF ServiceInv, OpenKnown
<1>11. \A c : Unanswered(c) => Unanswered(c)' /\ c # taken
  BY <1>1, <1>4 DEF Unanswered, Conns
<1>12. Unanswered(taken - 1)'
  <2>1. taken \notin dropped /\ got[taken] = {}
    BY <1>4, <1>10 DEF ServiceInv, Answered
  <2>2. taken' - 1 = taken /\ taken < taken'
    BY <1>1, <1>4
  <2>3. QED
    BY <1>1, <1>10, <2>1, <2>2 DEF Unanswered
<1>13. TakenOpen'
  <2>1. taken' - 1 = taken
    BY <1>1, <1>4
  <2>2. \A v \in Workers : pc'[v] = "inc" => v = w
    BY <1>5
  <2>3. ASSUME NEW v \in Workers, pc'[v] = "inc"
        PROVE  fd'[fsock'[frame'[v]]] = taken' - 1
    BY <1>1, <1>5, <1>10, <2>1, <2>2, <2>3
  <2>4. QED
    BY <1>12, <2>3 DEF TakenOpen
<1>14. ServedOpen'
  <2>1. ASSUME NEW v \in Workers, Serving(v)
        PROVE  /\ pc'[v] = pc[v] /\ frame'[v] = frame[v]
               /\ fd[sock[v]] # taken' - 1 /\ Unanswered(fd[sock[v]])'
    <3>1. Unanswered(fd[sock[v]])
      BY <2>1 DEF ServiceInv, ServedOpen
    <3>2. taken' - 1 = taken
      BY <1>1, <1>4
    <3>3. QED
      BY <1>1, <1>5, <1>6, <1>11, <2>1, <3>1, <3>2 DEF Unanswered
  <2>2. QED
    BY <1>1, <1>6, <2>1 DEF ServiceInv, ServedOpen, Unanswered
<1>15. Answered'
  <2>1. \A c \in Conns : c < taken => c < taken'
    BY <1>1, <1>4 DEF Conns
  <2>2. \A c \in dropped : c < taken => c < taken'
    BY <1>0, <1>1, <1>4 DEF TypeOK
  <2>3. QED
    BY <1>1, <2>1, <2>2 DEF ServiceInv, Answered
<1>16. DescriptorsHeld'
  <2>1. ASSUME NEW r \in Fds, NEW i \in 1 .. Len(qlist), fsock[qlist[i]] = r
        PROVE  \/ \E j \in 1 .. Len(qlist') : fsock[qlist'[j]] = r
               \/ fsock[frame'[w]] = r
    <3>1. CASE i = 1
      BY <1>5, <2>1, <3>1
    <3>2. CASE i # 1
      <4>1. i - 1 \in 1 .. Len(qlist') /\ qlist'[i - 1] = qlist[(i - 1) + 1]
            /\ (i - 1) + 1 = i
        BY <1>3, <3>2
      <4>2. QED
        BY <2>1, <4>1
    <3>3. QED
      BY <3>1, <3>2
  <2>2. ASSUME NEW r \in Fds, fd[r] # NULL
        PROVE  \/ fd[r] \in dropped
               \/ mframe # NULL /\ fsock[mframe] = r
               \/ \E j \in 1 .. Len(qlist') : fsock[qlist'[j]] = r
               \/ \E v \in Workers : \/ pc'[v] = "inc" /\ fsock[frame'[v]] = r
                                     \/ Serving(v)' /\ sock[v] = r
    BY <1>5, <1>6, <2>1, <2>2 DEF ServiceInv, DescriptorsHeld, Serving
  <2>3. QED
    BY <1>1, <2>2 DEF DescriptorsHeld, Serving
<1>17. QED
  BY <1>7, <1>9, <1>13, <1>14, <1>15, <1>16 DEF ServiceInv

(* ServiceInv over process_request's copy of frame->sock.                  *)
LEMMA BeginKeeps ==
  ASSUME Inductive, ServiceInv, NEW w \in Workers, BeginRequest(w)
  PROVE  ServiceInv'
<1> USE DEF OwnsFrame, ServeStates
<1>0. TypeOK /\ FramesAccounted
  BY DEF Inductive
<1>1. /\ pc[w] = "inc" /\ sock' = [sock EXCEPT ![w] = fsock[frame[w]]]
      /\ pc' = [pc EXCEPT ![w] = "read"]
      /\ UNCHANGED <<mpc, mframe, tcount, taken, qlist, fsock, fd, got, dropped,
                     frame, req>>
  BY DEF BeginRequest, mainVars, queueVars, frameVars, netVars
<1>2. /\ pc'[w] = "read" /\ sock'[w] = fsock[frame[w]]
      /\ \A v \in Workers : v # w => pc'[v] = pc[v] /\ sock'[v] = sock[v]
  BY <1>0, <1>1 DEF TypeOK
<1>3. \A v \in Workers : pc'[v] # "inc"
  BY <1>1, <1>2, OneTaker
<1>4. \A v \in Workers : v # w => (Serving(v)' <=> Serving(v))
  BY <1>2 DEF Serving
<1>5. fd[sock'[w]] = taken - 1 /\ Unanswered(taken - 1)
  BY <1>1, <1>2 DEF ServiceInv, TakenOpen
<1>6. \A c : Unanswered(c)' <=> Unanswered(c)
  BY <1>1 DEF Unanswered
<1>7. ASSUME NEW v \in Workers, Serving(v)
      PROVE  v # w /\ sock[v] # sock'[w]
  BY <1>1, <1>5, <1>7 DEF ServiceInv, ServedOpen, Serving
<1>8. ServedOpen'
  <2>1. ASSUME NEW v \in Workers, v # w, Serving(v)
        PROVE  /\ pc'[v] # "catch"
               /\ fd[sock'[v]] # NULL /\ Unanswered(fd[sock'[v]])
               /\ pc'[v] \in OwnsFrame => sock'[v] = fsock[frame[v]]
               /\ pc'[v] \notin {"read", "stuck"} => req[v] = fd[sock'[v]]
               /\ \A u \in Workers : Serving(u)' /\ sock'[u] = sock'[v] => u = v
    <3>1. sock'[v] = sock[v] /\ pc'[v] = pc[v]
      BY <1>2, <2>1
    <3>2. \A u \in Workers : Serving(u)' /\ sock'[u] = sock'[v] => u = v
      BY <1>2, <1>4, <1>7, <2>1, <3>1 DEF ServiceInv, ServedOpen
    <3>3. QED
      BY <2>1, <3>1, <3>2 DEF ServiceInv, ServedOpen
  <2>2. /\ taken - 1 # NULL
        /\ \A u \in Workers : Serving(u)' /\ sock'[u] = sock'[w] => u = w
    BY <1>2, <1>4, <1>5, <1>7, ConstantsOK DEF Unanswered, Conns
  <2>3. /\ pc'[w] = "read" /\ fd[sock'[w]] # NULL /\ Unanswered(fd[sock'[w]])
        /\ sock'[w] = fsock[frame[w]]
    BY <1>2, <1>5, <2>2
  <2>4. QED
    BY <1>1, <1>3, <1>4, <1>6, <2>1, <2>2, <2>3 DEF ServedOpen, Unanswered
<1>9. OpenKnown' /\ WaitingOpen' /\ Answered'
  BY <1>1 DEF ServiceInv, OpenKnown, WaitingOpen, Answered
<1>10. TakenOpen'
  BY <1>3 DEF TakenOpen
<1>11. DescriptorsHeld'
  <2>1. ASSUME NEW r \in Fds, NEW v \in Workers,
               \/ pc[v] = "inc" /\ fsock[frame[v]] = r
               \/ Serving(v) /\ sock[v] = r
        PROVE  Serving(v)' /\ sock'[v] = r
    BY <1>1, <1>2, <1>4, <1>7, <2>1, OneTaker DEF Serving
  <2>2. QED
    BY <1>1, <2>1 DEF ServiceInv, DescriptorsHeld, Serving
<1>12. QED
  BY <1>8, <1>9, <1>10, <1>11 DEF ServiceInv

(* ServiceInv when a thread is done: its connection was its own, and the   *)
(* others' are other ones.                                                 *)
LEMMA OtherThreads ==
  ASSUME Inductive, ServiceInv, NEW w \in Workers, Done(w),
         NEW c, c = fd[sock[w]]
  PROVE  /\ c \in Conns /\ c \in Nat /\ c < taken /\ sock[w] \in Fds
         /\ c # NULL /\ Unanswered(c)
         /\ mframe # NULL => fsock[mframe] # sock[w] /\ fsock[mframe] \in Fds
         /\ \A i \in 1 .. Len(qlist) :
              fsock[qlist[i]] # sock[w] /\ fsock[qlist[i]] \in Fds
         /\ \A v \in Workers : (pc'[v] = "inc" <=> pc[v] = "inc")
         /\ \A v \in Workers : pc[v] = "inc" =>
              /\ fsock[frame[v]] \in Fds /\ fsock[frame[v]] # sock[w]
              /\ taken - 1 # c
         /\ \A v \in Workers : Serving(v)' =>
              /\ v # w /\ Serving(v) /\ pc'[v] = pc[v] /\ sock[v] \in Fds
              /\ sock[v] # sock[w] /\ fd[sock[v]] # c
         /\ \A v \in Workers : Serving(v) => v = w \/ Serving(v)'
<1> USE DEF OwnsFrame, ServeStates
<1>0. /\ TypeOK /\ FramesAccounted /\ FirstComeFirstServed
      /\ OpenKnown /\ WaitingOpen /\ TakenOpen /\ ServedOpen
  BY DEF Inductive, ServiceInv
<1>1. sock[w] \in Fds /\ c # NULL /\ Unanswered(c)
  BY <1>0 DEF Done, Serving, FramesAccounted, ServedOpen
<1>2. c \in Conns /\ c \in Nat /\ c < taken /\ taken \in Nat
  BY <1>0, <1>1 DEF Unanswered, Conns, TypeOK
<1>3. mframe # NULL => fsock[mframe] # sock[w] /\ fsock[mframe] \in Fds
  <2>1. ASSUME mframe # NULL PROVE taken + Len(qlist) = tcount /\ Len(qlist) \in Nat
    BY <1>0, <2>1 DEF Done, FirstComeFirstServed, TypeOK
  <2>2. ASSUME mframe # NULL PROVE fd[fsock[mframe]] # c
    BY <1>0, <1>2, <2>1, <2>2 DEF WaitingOpen
  <2>3. QED
    BY <1>0, <2>2 DEF FramesAccounted
<1>4. ASSUME NEW i \in 1 .. Len(qlist)
      PROVE  fsock[qlist[i]] # sock[w] /\ fsock[qlist[i]] \in Fds
  <2>1. qlist[i] \in Members(qlist) /\ Len(qlist) \in Nat
    BY <1>0 DEF Members, TypeOK
  <2>2. fd[fsock[qlist[i]]] # c
    BY <1>0, <1>2, <2>1 DEF WaitingOpen
  <2>3. QED
    BY <1>0, <2>1, <2>2 DEF FramesAccounted
<1>5. /\ \A v \in Workers : v # w => pc'[v] = pc[v]
      /\ pc'[w] = "dec" /\ Serving(w)
  BY <1>0 DEF Done, TypeOK
<1>6. /\ \A v \in Workers : (pc'[v] = "inc" <=> pc[v] = "inc")
      /\ \A v \in Workers : Serving(v) => v = w \/ Serving(v)'
  BY <1>5 DEF Serving
<1>7. ASSUME NEW v \in Workers, pc[v] = "inc"
      PROVE  /\ fsock[frame[v]] \in Fds /\ fsock[frame[v]] # sock[w]
             /\ taken - 1 # c
  <2>1. fsock[frame[v]] \in Fds
    BY <1>0, <1>7 DEF FramesAccounted
  <2>2. taken - 1 # c /\ fd[fsock[frame[v]]] = taken - 1
    BY <1>0, <1>5, <1>7 DEF ServedOpen, TakenOpen
  <2>3. QED
    BY <2>1, <2>2
<1>8. ASSUME NEW v \in Workers, Serving(v)'
      PROVE  /\ v # w /\ Serving(v) /\ pc'[v] = pc[v] /\ sock[v] \in Fds
             /\ sock[v] # sock[w] /\ fd[sock[v]] # c
  <2>1. v # w /\ Serving(v) /\ pc'[v] = pc[v]
    BY <1>5, <1>8 DEF Serving
  <2>2. sock[v] \in Fds /\ sock[v] # sock[w]
    BY <1>0, <1>5, <2>1 DEF FramesAccounted, ServedOpen, Serving
  <2>3. QED
    BY <1>0, <1>1, <2>1, <2>2 DEF OpenKnown
<1>9. QED
  BY <1>1, <1>2, <1>3, <1>4, <1>6, <1>7, <1>8

(* The end of a connection that was answered.                              *)
LEMMA AnswersKeeps ==
  ASSUME Inductive, ServiceInv, NEW w \in Workers, Answers(w)
  PROVE  ServiceInv'
<1>0. TypeOK /\ FramesAccounted /\ Done(w)
  BY DEF Inductive, Answers
<1>1. PICK c : c = fd[sock[w]]
  OBVIOUS
<1>2. /\ UNCHANGED <<fsock, mframe, tcount, taken, qlist, mpc, frame, sock, req,
                     dropped>>
      /\ got' = [got EXCEPT ![c] = {c}] /\ fd' = [fd EXCEPT ![sock[w]] = NULL]
  BY <1>1 DEF Answers, Done
<1>3. /\ c \in Conns /\ c \in Nat /\ c < taken /\ sock[w] \in Fds
      /\ mframe # NULL => fsock[mframe] # sock[w] /\ fsock[mframe] \in Fds
      /\ \A i \in 1 .. Len(qlist) :
           fsock[qlist[i]] # sock[w] /\ fsock[qlist[i]] \in Fds
  BY <1>0, <1>1, OtherThreads
<1>4. /\ \A v \in Workers : (pc'[v] = "inc" <=> pc[v] = "inc")
      /\ \A v \in Workers : pc[v] = "inc" =>
           /\ fsock[frame[v]] \in Fds /\ fsock[frame[v]] # sock[w]
           /\ taken - 1 # c
      /\ \A v \in Workers : Serving(v)' =>
           /\ v # w /\ Serving(v) /\ pc'[v] = pc[v] /\ sock[v] \in Fds
           /\ sock[v] # sock[w] /\ fd[sock[v]] # c
      /\ \A v \in Workers : Serving(v) => v = w \/ Serving(v)'
  BY <1>0, <1>1, OtherThreads
<1>5. /\ fd'[sock[w]] = NULL /\ \A s \in Fds : s # sock[w] => fd'[s] = fd[s]
      /\ got'[c] = {c} /\ \A d \in Conns : d # c => got'[d] = got[d]
  BY <1>0, <1>2, <1>3 DEF TypeOK
<1>6. ASSUME NEW d, d # c, Unanswered(d)
      PROVE  d \in Conns /\ d < taken' /\ got'[d] = {} /\ d \notin dropped'
  BY <1>2, <1>5, <1>6 DEF Unanswered
<1>7. OpenKnown'
  BY <1>2, <1>5 DEF ServiceInv, OpenKnown
<1>8. WaitingOpen'
  BY <1>2, <1>3, <1>5 DEF ServiceInv, WaitingOpen
<1>9. TakenOpen'
  BY <1>2, <1>4, <1>5, <1>6 DEF ServiceInv, TakenOpen, Unanswered
<1>10. ServedOpen'
  <2>1. \A v \in Workers : Serving(v)' => fd'[sock[v]] = fd[sock[v]]
    BY <1>4, <1>5
  <2>2. QED
    BY <1>2, <1>4, <1>6, <2>1 DEF ServiceInv, ServedOpen, Unanswered
<1>11. Answered'
  BY <1>2, <1>3, <1>5 DEF ServiceInv, Answered
<1>12. DescriptorsHeld'
  BY <1>2, <1>4, <1>5 DEF ServiceInv, DescriptorsHeld, Serving
<1>13. QED
  BY <1>7, <1>8, <1>9, <1>10, <1>11, <1>12 DEF ServiceInv

(* The end of a connection that was found closed.                          *)
LEMMA GivesUpKeeps ==
  ASSUME Inductive, ServiceInv, NEW w \in Workers, GivesUp(w)
  PROVE  ServiceInv'
<1>0. TypeOK /\ Done(w)
  BY DEF Inductive, GivesUp
<1>1. PICK c : c = fd[sock[w]]
  OBVIOUS
<1>2. /\ UNCHANGED <<fsock, mframe, tcount, taken, qlist, mpc, frame, sock, req,
                     fd, got>>
      /\ dropped' = dropped \cup {c}
  BY <1>1 DEF GivesUp, Done
<1>3. c < taken
  BY <1>0, <1>1, OtherThreads
<1>4. /\ \A v \in Workers : (pc'[v] = "inc" <=> pc[v] = "inc")
      /\ \A v \in Workers : pc[v] = "inc" => taken - 1 # c
      /\ \A v \in Workers : Serving(v)' =>
           /\ Serving(v) /\ pc'[v] = pc[v] /\ fd[sock[v]] # c
      /\ \A v \in Workers : Serving(v) => v = w \/ Serving(v)'
  BY <1>0, <1>1, OtherThreads
<1>5. OpenKnown' /\ WaitingOpen' /\ Answered'
  BY <1>2, <1>3 DEF ServiceInv, OpenKnown, WaitingOpen, Answered
<1>6. TakenOpen' /\ ServedOpen'
  BY <1>2, <1>4 DEF ServiceInv, TakenOpen, ServedOpen, Unanswered
<1>7. DescriptorsHeld'
  BY <1>1, <1>2, <1>4 DEF ServiceInv, DescriptorsHeld, Serving
<1>8. QED
  BY <1>5, <1>6, <1>7 DEF ServiceInv

(* Every step preserves what the service depends on.                       *)
LEMMA ServiceStep ==
  ASSUME Inductive, ServiceInv, "throw" \notin Faults, [Next]_vars
  PROVE  ServiceInv'
BY Steps, CalmKeeps, AcceptKeeps, EnqueueKeeps, ShutdownKeeps, TakeKeeps,
   BeginKeeps, AnswersKeeps, GivesUpKeeps

(* It holds before the first connection.                                   *)
LEMMA ServiceInit == Init => ServiceInv
<1> SUFFICES ASSUME Init PROVE ServiceInv
  OBVIOUS
<1>1. OpenKnown /\ DescriptorsHeld
  BY DEF Init, OpenKnown, DescriptorsHeld
<1>2. WaitingOpen /\ Answered
  BY DEF Init, WaitingOpen, Answered
<1>3. TakenOpen /\ ServedOpen
  BY DEF Init, TakenOpen, ServedOpen, Serving, ServeStates, OwnsFrame
<1>4. QED
  BY <1>1, <1>2, <1>3 DEF ServiceInv

(* The invariant of a pool whose responders do not throw.                  *)
THEOREM ServiceInvAlways ==
  ASSUME "throw" \notin Faults
  PROVE  Spec => []ServiceInv
<1>1. Inductive /\ ServiceInv /\ [Next]_vars => ServiceInv'
  BY ServiceStep
<1>2. QED
  BY <1>1, ServiceInit, InductiveAlways, PTL DEF Spec

(* While no responder throws, a reply goes to the client whose request it  *)
(* answers, however often the kernel reuses descriptors and the pool       *)
(* reuses frames.                                                          *)
THEOREM Replies ==
  ASSUME "throw" \notin Faults
  PROVE  Spec => []ReplyToOwner
<1>1. ServiceInv => ReplyToOwner
  BY DEF ServiceInv, Answered, ReplyToOwner
<1>2. QED
  BY <1>1, ServiceInvAlways, PTL

(* While no responder throws, every open descriptor has somebody who will  *)
(* close it, but for the connections process_request gave up at end of     *)
(* file.                                                                   *)
THEOREM Descriptors ==
  ASSUME "throw" \notin Faults
  PROVE  Spec => []DescriptorsHeld
<1>1. ServiceInv => DescriptorsHeld
  BY DEF ServiceInv
<1>2. QED
  BY <1>1, ServiceInvAlways, PTL

-----------------------------------------------------------------------------
(* Every step of the pool is a step of the service, or none.               *)
LEMMA ServiceRefines ==
  ASSUME Inductive, ServiceInv, "throw" \notin Faults, [Next]_vars
  PROVE  [Service!Next]_Service!vars
<1> USE DEF Service!vars
<1>0. TypeOK /\ FramesAccounted /\ FirstComeFirstServed
  BY DEF Inductive
<1>1. CASE Calm
  <2>1. UNCHANGED <<tcount, taken, got, dropped>> /\ (mpc = "halt" => mpc' = "halt")
    BY <1>1 DEF Calm
  <2>2. CASE mpc' = "halt" <=> mpc = "halt"
    BY <2>1, <2>2
  <2>3. CASE mpc # "halt" /\ mpc' = "halt"
    BY <2>1, <2>3 DEF Service!Next, Service!Stop
  <2>4. QED
    BY <2>1, <2>2, <2>3
<1>2. CASE Enqueue
  <2>1. /\ mpc = "enq" /\ mpc' = "top" /\ tcount' = tcount + 1
        /\ UNCHANGED <<taken, got, dropped>>
    BY <1>2 DEF Enqueue, netVars
  <2>2. tcount < MaxConns
    <3>1. mframe # NULL /\ fsock[mframe] \in Fds /\ fd[fsock[mframe]] = tcount
      BY <1>0, <2>1 DEF FramesAccounted, ServiceInv, WaitingOpen
    <3>2. tcount \in Conns
      BY <1>0, <3>1, ConstantsOK DEF ServiceInv, OpenKnown, TypeOK
    <3>3. QED
      BY <3>2, ConstantsOK DEF Conns
  <2>3. QED
    BY <2>1, <2>2 DEF Service!Next, Service!Arrive
<1>3. CASE Shutdown
  BY <1>3 DEF Shutdown, netVars, Service!Next, Service!Stop
<1>4. ASSUME NEW f \in Frames, NEW s \in Fds, Accept(f, s)
      PROVE  UNCHANGED Service!vars
  BY <1>4 DEF Accept, queueVars
<1>5. ASSUME NEW w \in Workers, mpc # "halt", TakeFrame(w)
      PROVE  Service!Next
  <2>1. /\ taken' = taken + 1 /\ UNCHANGED <<tcount, got, dropped, mpc>>
    BY <1>5 DEF TakeFrame, mainVars, netVars
  <2>2. qlist # <<>> /\ qlist \in Seq(Frames) /\ taken + Len(qlist) = tcount
    BY <1>0, <1>5, HeadFrame DEF TypeOK, FirstComeFirstServed
  <2>3. taken < tcount
    BY <1>0, <2>2 DEF TypeOK
  <2>4. QED
    BY <1>5, <2>1, <2>3 DEF Service!Next, Service!Begin
<1>6. ASSUME NEW w \in Workers, mpc # "halt", BeginRequest(w)
      PROVE  UNCHANGED Service!vars
  BY <1>6 DEF BeginRequest, mainVars, queueVars, netVars
<1>7. ASSUME NEW w \in Workers, mpc # "halt", Answers(w) \/ GivesUp(w)
      PROVE  Service!Next
  <2>1. PICK c : c = fd[sock[w]]
    OBVIOUS
  <2>2. Done(w)
    BY <1>7 DEF Answers, GivesUp
  <2>3. c \in Service!Conns /\ c < taken /\ got[c] = {} /\ c \notin dropped
    BY <2>1, <2>2, OtherThreads DEF Unanswered, Conns, Service!Conns
  <2>4. CASE Answers(w)
    BY <1>7, <2>1, <2>3, <2>4
    DEF Answers, Done, Service!Next, Service!Reply
  <2>5. CASE GivesUp(w)
    BY <1>7, <2>1, <2>3, <2>5
    DEF GivesUp, Done, Service!Next, Service!Lose
  <2>6. QED
    BY <1>7, <2>4, <2>5
<1>8. QED
  BY <1>1, <1>2, <1>3, <1>4, <1>5, <1>6, <1>7, Steps

(* While no responder throws, the queue, the frames, the threads and the   *)
(* descriptors implement RequestService: connections are begun in order of *)
(* arrival, and each gets at most one reply, its own, and none once it was *)
(* given up.                                                               *)
THEOREM ServiceImplemented ==
  ASSUME "throw" \notin Faults
  PROVE  Spec => ImplementsService
<1>1. Init => Service!Init
  BY DEF Init, Service!Init, Conns, Service!Conns
<1>2. Inductive /\ ServiceInv /\ [Next]_vars => [Service!Next]_Service!vars
  BY ServiceRefines
<1>3. QED
  BY <1>1, <1>2, InductiveAlways, ServiceInvAlways, PTL
  DEF Spec, ImplementsService, Service!Spec

=============================================================================
