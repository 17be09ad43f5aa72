---------------------------- MODULE RequestPool ----------------------------
(***************************************************************************)
(* The request path of src/src/main.c in threaded mode.                    *)
(*                                                                         *)
(* The main thread polls the listening socket, wraps every accepted        *)
(* connection in an RFRAME taken from a free list, grows the thread pool   *)
(* when it believes every thread to be busy, and appends the frame to an   *)
(* intrusive queue.  Dispatcher threads take frames from that queue, read  *)
(* the request, give the frame back, run the application's responder and   *)
(* answer on the connection.                                               *)
(*                                                                         *)
(* Kept from the code: the frames and their `next' and `sock' fields, the  *)
(* head, tail and free-list pointers, the kernel's descriptor table, the   *)
(* split of every unsynchronised update (busy_threads--, qcondvars) into a *)
(* read and a write, and every early return.  Abstracted: the text of      *)
(* requests and replies.  A connection is named by its serial number       *)
(* tcount, which the code stores in frame->count.                          *)
(***************************************************************************)
EXTENDS Integers, Sequences, FiniteSets

CONSTANTS
  Frames,      \* RFRAME objects malloc can return
  Fds,         \* descriptors accept can return
  MaxConns,    \* BOUND: connections accepted in a behaviour
  MaxThreads,  \* max_threads (option -t)
  Processors,  \* sysconf(_SC_NPROCESSORS_ONLN)
  Faults,      \* which of AllFaults the environment may produce
  NULL

(* "eof":    the peer closes, or read() fails, before the request is read; *)
(* "stuck":  the peer goes silent, or leaves in the middle of a body: the  *)
(*           blocking read() has no timeout, and the body loops do not     *)
(*           stop at end of file;                                          *)
(* "early":  a Scheme exception before release_frame;                      *)
(* "throw":  a Scheme exception in or after the responder;                 *)
(* "gone":   the peer goes away after its request, before its reply is     *)
(*           out;                                                          *)
(* "exit":   (exit), end of input on the console, or a signal.             *)
AllFaults == {"eof", "stuck", "early", "throw", "gone", "exit"}

ASSUME ConstantsOK ==
  /\ MaxConns \in Nat /\ MaxThreads \in Nat \ {0} /\ Processors \in Nat \ {0}
  /\ Faults \subseteq AllFaults
  /\ NULL \notin Frames /\ NULL \notin Fds /\ NULL \notin Nat

Conns   == 0 .. MaxConns - 1
Workers == 1 .. MaxThreads

VARIABLES
  \* the main thread
  running, mpc, mframe, tcount, nthreads,
  \* shared by all threads
  busy_threads, qmutex, qcondvars, signalled,
  req_queue, req_tail, req_pool, next, fsock, fcount, heap,
  \* each dispatcher thread: program counter, frame, the local copy `sock',
  \* the connection whose request it has read, and two registers
  pc, frame, sock, req, reg, seen,
  \* the kernel's descriptor table, and the connections already read from
  fd, consumed,
  \* history: the two intrusive lists as sequences, frames taken so far,
  \* whose request each connection was answered for, connections left open
  \* by an early return, whether two updates of busy_threads overlapped
  qlist, plist, taken, got, dropped, raced

mainVars  == <<running, mpc, mframe, tcount, nthreads>>
queueVars == <<req_queue, req_tail, qlist, taken>>
poolVars  == <<req_pool, plist, heap>>
frameVars == <<next, fsock, fcount>>
countVars == <<busy_threads, qmutex, reg, raced>>
condVars  == <<qcondvars, signalled, seen>>
netVars   == <<fd, consumed, got, dropped>>
thrVars   == <<pc, frame, sock, req>>
vars == <<mainVars, queueVars, poolVars, frameVars, countVars, condVars,
          netVars, thrVars>>

-----------------------------------------------------------------------------
(* States of a dispatcher thread.                                          *)
IdleStates   == {"start", "reg", "loop", "wait"}
OwnsFrame    == {"inc", "read", "body", "release", "stuck", "ecatch"}
ServeStates  == OwnsFrame \cup {"respond", "send", "catch"}
WorkerStates == {"off"} \cup IdleStates \cup ServeStates \cup {"dec", "decst"}

TypeOK ==
  /\ running \in BOOLEAN /\ raced \in BOOLEAN
  /\ mpc \in {"top", "poll", "grow", "enq", "halt"}
  /\ mframe \in Frames \cup {NULL}
  /\ tcount \in Nat /\ taken \in Nat
  /\ nthreads \in 0 .. MaxThreads
  /\ busy_threads \in Int
  /\ qmutex \in Workers \cup {NULL}
  /\ qcondvars \subseteq Workers /\ signalled \subseteq Workers
  /\ req_queue \in Frames \cup {NULL} /\ req_tail \in Frames \cup {NULL}
  /\ req_pool \in Frames \cup {NULL}
  /\ next \in [Frames -> Frames \cup {NULL}]
  /\ fsock \in [Frames -> Fds \cup {NULL}]
  /\ fcount \in [Frames -> Nat]
  /\ heap \subseteq Frames
  /\ pc \in [Workers -> WorkerStates]
  /\ frame \in [Workers -> Frames \cup {NULL}]
  /\ sock \in [Workers -> Fds \cup {NULL}]
  /\ req \in [Workers -> Nat \cup {NULL}]
  /\ reg \in [Workers -> Int]
  /\ seen \in [Workers -> SUBSET Workers]
  /\ fd \in [Fds -> Nat \cup {NULL}]
  /\ consumed \subseteq Nat /\ dropped \subseteq Nat
  /\ got \in [Conns -> SUBSET (Nat \cup {NULL})]
  /\ qlist \in Seq(Frames) /\ plist \in Seq(Frames)

(* init_env and the start of main(): one thread per processor, at most     *)
(* max_threads; the static pointers are NULL.                              *)
Init ==
  LET n == IF Processors < MaxThreads THEN Processors ELSE MaxThreads IN
  /\ running = TRUE /\ mpc = "top" /\ mframe = NULL /\ tcount = 0
  /\ nthreads = n
  /\ busy_threads = 0 /\ qmutex = NULL /\ qcondvars = {} /\ signalled = {}
  /\ req_queue = NULL /\ req_tail = NULL /\ req_pool = NULL
  /\ next = [f \in Frames |-> NULL]
  /\ fsock = [f \in Frames |-> NULL]
  /\ fcount = [f \in Frames |-> 0]
  /\ heap = {}
  /\ pc = [w \in Workers |-> IF w <= n THEN "start" ELSE "off"]
  /\ frame = [w \in Workers |-> NULL]
  /\ sock = [w \in Workers |-> NULL]
  /\ req = [w \in Workers |-> NULL]
  /\ reg = [w \in Workers |-> 0]
  /\ seen = [w \in Workers |-> {}]
  /\ fd = [s \in Fds |-> NULL]
  /\ consumed = {} /\ dropped = {}
  /\ got = [c \in Conns |-> {}]
  /\ qlist = <<>> /\ plist = <<>> /\ taken = 0 /\ raced = FALSE

-----------------------------------------------------------------------------
(* The main thread.                                                        *)

(* get_frame: the head of the free list, or a new frame.  Every access to  *)
(* req_pool is under pmutex, so the whole body is one step.                *)
get_frame(f) ==
  IF req_pool = NULL
    THEN /\ f \in Frames \ heap
         /\ heap' = heap \cup {f}
         /\ UNCHANGED <<req_pool, plist>>
    ELSE /\ f = req_pool
         /\ req_pool' = next[f]
         /\ plist' = Tail(plist)
         /\ UNCHANGED heap

(* The head of main()'s loop: the test of running, then poll(), which may  *)
(* come back with nothing to do.  The housekeeping at this point is in     *)
(* DocCache (police).                                                      *)
Poll ==
  /\ mpc = "top" /\ running
  /\ mpc' = "poll"
  /\ UNCHANGED <<running, mframe, tcount, nthreads, queueVars, poolVars,
                 frameVars, countVars, condVars, netVars, thrVars>>

PollTimeout ==
  /\ mpc = "poll"
  /\ mpc' = "top"
  /\ UNCHANGED <<running, mframe, tcount, nthreads, queueVars, poolVars,
                 frameVars, countVars, condVars, netVars, thrVars>>

(* process_http up to the fields of the frame: accept() returns a free     *)
(* descriptor.  With no free descriptor accept() fails and process_http    *)
(* returns, changing nothing.  running is not tested again after poll().   *)
Accept(f, s) ==
  /\ mpc = "poll" /\ tcount < MaxConns
  /\ fd[s] = NULL
  /\ get_frame(f)
  /\ fd' = [fd EXCEPT ![s] = tcount]
  /\ fsock' = [fsock EXCEPT ![f] = s]
  /\ fcount' = [fcount EXCEPT ![f] = tcount]
  /\ mframe' = f
  /\ mpc' = "grow"
  /\ UNCHANGED <<running, tcount, nthreads, queueVars, next, countVars,
                 condVars, consumed, got, dropped, thrVars>>

(* add_thread returns at once when max_threads have been started.          *)
PoolNeverFull == FALSE
PoolFull == nthreads >= MaxThreads

(* process_http: if (busy_threads >= nthreads) add_thread().               *)
Grow ==
  /\ mpc = "grow"
  /\ IF busy_threads >= nthreads /\ ~PoolFull
       THEN /\ nthreads' = nthreads + 1
            /\ pc' = [pc EXCEPT ![nthreads + 1] = "start"]
       ELSE UNCHANGED <<nthreads, pc>>
  /\ mpc' = "enq"
  /\ UNCHANGED <<running, mframe, tcount, queueVars, poolVars, frameVars,
                 countVars, condVars, netVars, frame, sock, req>>

(* Append frame f to the queue that starts at req_queue.                   *)
LinkInFront(f) ==
  /\ next' = [next EXCEPT ![f] = req_queue]
  /\ req_queue' = f
  /\ req_tail' = IF req_queue = NULL THEN f ELSE req_tail

LinkKeepingTail(f) ==
  /\ next' = IF req_queue = NULL
               THEN [next EXCEPT ![f] = NULL]
               ELSE [next EXCEPT ![f] = NULL, ![req_tail] = f]
  /\ req_queue' = IF req_queue = NULL THEN f ELSE req_queue
  /\ req_tail' = IF req_queue = NULL THEN f ELSE req_tail

Link(f) ==
  /\ next' = IF req_queue = NULL
               THEN [next EXCEPT ![f] = NULL]
               ELSE [next EXCEPT ![f] = NULL, ![req_tail] = f]
  /\ req_queue' = IF req_queue = NULL THEN f ELSE req_queue
  /\ req_tail' = f

(* enqueue_frame, under qmutex: link the frame and, only when the queue    *)
(* was empty, signal every registered condition variable (a signal reaches *)
(* only a thread that waits).                                              *)
enqueue_frame(f) ==
  /\ qmutex = NULL
  /\ Link(f)
  /\ signalled' = IF req_queue = NULL
                    THEN signalled \cup {w \in qcondvars : pc[w] = "wait"}
                    ELSE signalled
  /\ qlist' = Append(qlist, f)

(* The rest of process_http: enqueue_frame, then tcount++.                 *)
Enqueue ==
  /\ mpc = "enq"
  /\ enqueue_frame(mframe)
  /\ tcount' = tcount + 1
  /\ mframe' = NULL
  /\ mpc' = "top"
  /\ UNCHANGED <<running, nthreads, taken, poolVars, fsock, fcount,
                 countVars, qcondvars, seen, netVars, thrVars>>

(* exit_gusher, called from a signal handler, the console or a responder.  *)
exit_gusher ==
  /\ "exit" \in Faults /\ running /\ mpc # "halt"
  /\ running' = FALSE
  /\ UNCHANGED <<mpc, mframe, tcount, nthreads, queueVars, poolVars,
                 frameVars, countVars, condVars, netVars, thrVars>>

(* The poll loop ends, clear_queues() empties both lists and main returns, *)
(* which ends every thread.                                                *)
Shutdown ==
  /\ mpc = "top" /\ ~running
  /\ mpc' = "halt"
  /\ req_queue' = NULL /\ qlist' = <<>>
  /\ req_pool' = NULL /\ plist' = <<>>
  /\ UNCHANGED <<running, mframe, tcount, nthreads, req_tail, taken, heap,
                 frameVars, countVars, condVars, netVars, thrVars>>

-----------------------------------------------------------------------------
(* dispatcher(): start-up and waiting.                                     *)

(* qcondvars = scm_cons(condvar, qcondvars), without a lock: the list is   *)
(* read in one step and stored in another.                                 *)
RegisterRead(w) ==
  /\ pc[w] = "start"
  /\ seen' = [seen EXCEPT ![w] = qcondvars]
  /\ pc' = [pc EXCEPT ![w] = "reg"]
  /\ UNCHANGED <<mainVars, queueVars, poolVars, frameVars, countVars,
                 qcondvars, signalled, netVars, frame, sock, req>>

RegisterWrite(w) ==
  /\ pc[w] = "reg"
  /\ qcondvars' = seen[w] \cup {w}
  /\ seen' = [seen EXCEPT ![w] = {}]
  /\ pc' = [pc EXCEPT ![w] = "loop"]
  /\ UNCHANGED <<mainVars, queueVars, poolVars, frameVars, countVars,
                 signalled, netVars, frame, sock, req>>

(* With qmutex held and the queue empty: start the timed wait, which       *)
(* releases qmutex.                                                        *)
StartWait(w) ==
  /\ pc[w] = "loop" /\ qmutex = NULL /\ req_queue = NULL
  /\ pc' = [pc EXCEPT ![w] = "wait"]
  /\ UNCHANGED <<mainVars, queueVars, poolVars, frameVars, countVars,
                 condVars, netVars, frame, sock, req>>

(* scm_timed_wait_condition_variable(condvar, qmutex, time(NULL) + 1)      *)
(* comes back when signalled, or at its deadline, which every wait meets.  *)
NeverTimesOut(w) == FALSE
TimesOut(w) == pc[w] = "wait"

WaitReturns(w) == pc[w] = "wait" /\ (w \in signalled \/ TimesOut(w))

(* The wait came back, by a signal or by the timeout, and the queue is     *)
(* empty: unlock and go round the loop.                                    *)
WakeForNothing(w) ==
  /\ WaitReturns(w) /\ qmutex = NULL /\ req_queue = NULL
  /\ pc' = [pc EXCEPT ![w] = "loop"]
  /\ signalled' = signalled \ {w}
  /\ UNCHANGED <<mainVars, queueVars, poolVars, frameVars, countVars,
                 qcondvars, seen, netVars, frame, sock, req>>

(* Take the head of the queue.  busy_threads++ follows under the same      *)
(* lock, but busy_threads-- elsewhere takes no lock, so the increment is a *)
(* read here and a store in the next step.                                 *)
TakeFrame(w) ==
  /\ pc[w] = "loop" \/ WaitReturns(w)
  /\ qmutex = NULL /\ req_queue # NULL
  /\ frame' = [frame EXCEPT ![w] = req_queue]
  /\ req_queue' = next[req_queue]
  /\ reg' = [reg EXCEPT ![w] = busy_threads]
  /\ qmutex' = w
  /\ signalled' = signalled \ {w}
  /\ pc' = [pc EXCEPT ![w] = "inc"]
  /\ qlist' = Tail(qlist) /\ taken' = taken + 1
  /\ UNCHANGED <<mainVars, req_tail, poolVars, frameVars, busy_threads,
                 raced, qcondvars, seen, netVars, sock, req>>

leave_qmutex_locked == UNCHANGED qmutex
unlock_qmutex == qmutex' = NULL

(* Store busy_threads, unlock, and enter process_request, which copies     *)
(* frame->sock into its local variable.                                    *)
BeginRequest(w) ==
  /\ pc[w] = "inc"
  /\ busy_threads' = reg[w] + 1
  /\ raced' = (raced \/ reg[w] # busy_threads)
  /\ unlock_qmutex
  /\ sock' = [sock EXCEPT ![w] = fsock[frame[w]]]
  /\ pc' = [pc EXCEPT ![w] = "read"]
  /\ UNCHANGED <<mainVars, queueVars, poolVars, frameVars, reg, condVars,
                 netVars, frame, req>>

-----------------------------------------------------------------------------
(* process_request.                                                        *)

(* The request head is read: a connection delivers its request once.       *)
ReadRequest(w) ==
  /\ pc[w] = "read"
  /\ fd[sock[w]] # NULL /\ fd[sock[w]] \notin consumed
  /\ req' = [req EXCEPT ![w] = fd[sock[w]]]
  /\ consumed' = consumed \cup {fd[sock[w]]}
  /\ pc' = [pc EXCEPT ![w] = "body"]
  /\ UNCHANGED <<mainVars, queueVars, poolVars, frameVars, countVars,
                 condVars, fd, got, dropped, frame, sock>>

ReadFailsGoesOn(w) ==
  /\ pc[w] = "read"
  /\ fd[sock[w]] = NULL \/ "eof" \in Faults
  /\ dropped' = IF fd[sock[w]] = NULL THEN dropped
                                      ELSE dropped \cup {fd[sock[w]]}
  /\ pc' = [pc EXCEPT ![w] = "body"]
  /\ UNCHANGED <<mainVars, queueVars, poolVars, frameVars, countVars,
                 condVars, fd, consumed, got, frame, sock, req>>

ReadFailsToLoop(w) ==
  /\ pc[w] = "read"
  /\ fd[sock[w]] = NULL \/ "eof" \in Faults
  /\ dropped' = IF fd[sock[w]] = NULL THEN dropped
                                      ELSE dropped \cup {fd[sock[w]]}
  /\ pc' = [pc EXCEPT ![w] = "loop"]
  /\ UNCHANGED <<mainVars, queueVars, poolVars, frameVars, countVars,
                 condVars, fd, consumed, got, frame, sock, req>>

(* GETLINE_PEER_CLOSED and GETLINE_READ_ERR: a bare return, which neither  *)
(* closes the descriptor nor releases the frame.                           *)
ReadFails(w) ==
  /\ pc[w] = "read"
  /\ fd[sock[w]] = NULL \/ "eof" \in Faults
  /\ dropped' = IF fd[sock[w]] = NULL THEN dropped
                                      ELSE dropped \cup {fd[sock[w]]}
  /\ pc' = [pc EXCEPT ![w] = "dec"]
  /\ UNCHANGED <<mainVars, queueVars, poolVars, frameVars, countVars,
                 condVars, fd, consumed, got, frame, sock, req>>

(* read() never comes back, or the loop over a POST body spins at end of   *)
(* file (form_urlencoded, form_multipart).                                 *)
Hang(w) ==
  /\ pc[w] \in {"read", "body"} /\ "stuck" \in Faults
  /\ pc' = [pc EXCEPT ![w] = "stuck"]
  /\ UNCHANGED <<mainVars, queueVars, poolVars, frameVars, countVars,
                 condVars, netVars, frame, sock, req>>

(* post_in and get_in: the rest of the request is read, or a conversion    *)
(* throws while the frame is still ours.                                   *)
PostIn(w) ==
  /\ pc[w] = "body"
  /\ \/ pc' = [pc EXCEPT ![w] = "release"]
     \/ "early" \in Faults /\ pc' = [pc EXCEPT ![w] = "ecatch"]
  /\ UNCHANGED <<mainVars, queueVars, poolVars, frameVars, countVars,
                 condVars, netVars, frame, sock, req>>

(* release_frame, before the responder runs.                               *)
release_frame(w) ==
  /\ pc[w] = "release"
  /\ next' = [next EXCEPT ![frame[w]] = req_pool]
  /\ req_pool' = frame[w]
  /\ plist' = <<frame[w]>> \o plist
  /\ pc' = [pc EXCEPT ![w] = "respond"]
  /\ UNCHANGED <<mainVars, queueVars, heap, fsock, fcount, countVars,
                 condVars, netVars, frame, sock, req>>

(* run_responder.                                                          *)
Respond(w) ==
  /\ pc[w] = "respond"
  /\ \/ pc' = [pc EXCEPT ![w] = "send"]
     \/ "throw" \in Faults /\ pc' = [pc EXCEPT ![w] = "catch"]
  /\ UNCHANGED <<mainVars, queueVars, poolVars, frameVars, countVars,
                 condVars, netVars, frame, sock, req>>

(* A reply to the request of thread w leaves on descriptor s; on a closed  *)
(* descriptor send() fails and send_all gives up.                          *)
send_all(w, s) ==
  got' = IF fd[s] = NULL THEN got
                         ELSE [got EXCEPT ![fd[s]] = @ \cup {req[w]}]

close_nothing(s) == UNCHANGED fd
close(s) == fd' = [fd EXCEPT ![s] = NULL]

(* The reply goes to the descriptor that was copied from the frame before  *)
(* the frame was released; then that descriptor is closed.                 *)
SockOfFrame(w) == fsock[frame[w]]
ReplySock(w) == sock[w]

Send(w) ==
  /\ pc[w] = "send"
  /\ send_all(w, ReplySock(w))
  /\ close(ReplySock(w))
  /\ pc' = [pc EXCEPT ![w] = "dec"]
  /\ UNCHANGED <<mainVars, queueVars, poolVars, frameVars, countVars,
                 condVars, consumed, dropped, frame, sock, req>>

(* A conversion of the reply throws after the status line has been sent.   *)
SendThrows(w) ==
  /\ pc[w] = "send" /\ "throw" \in Faults
  /\ send_all(w, ReplySock(w))
  /\ pc' = [pc EXCEPT ![w] = "catch"]
  /\ UNCHANGED <<mainVars, queueVars, poolVars, frameVars, countVars,
                 condVars, fd, consumed, dropped, frame, sock, req>>

(* send() to a peer that has gone raises SIGPIPE, which nothing in the code *)
(* ignores or catches: the process ends, whatever its threads are doing.   *)
SignalPipe(w) ==
  /\ "gone" \in Faults
  /\ \/ pc[w] = "send" /\ fd[ReplySock(w)] # NULL
     \/ pc[w] \in {"catch", "ecatch"} /\ fd[fsock[frame[w]]] # NULL
  /\ mpc' = "halt"
  /\ UNCHANGED <<running, mframe, tcount, nthreads, queueVars, poolVars, frameVars,
                 countVars, condVars, netVars, thrVars>>

catch_req_releasing(w) ==
  LET s == fsock[frame[w]] IN
  /\ pc[w] \in {"catch", "ecatch"}
  /\ send_all(w, s)
  /\ close(s)
  /\ next' = [next EXCEPT ![frame[w]] = req_pool]
  /\ req_pool' = frame[w]
  /\ plist' = <<frame[w]>> \o plist
  /\ pc' = [pc EXCEPT ![w] = "dec"]
  /\ UNCHANGED <<mainVars, queueVars, heap, fsock, fcount, countVars,
                 condVars, consumed, dropped, frame, sock, req>>

(* catch_req: the 500 answer goes to frame->sock, read from the frame now, *)
(* and that descriptor is closed.                                          *)
catch_req(w) ==
  LET s == fsock[frame[w]] IN
  /\ pc[w] \in {"catch", "ecatch"}
  /\ send_all(w, s)
  /\ close(s)
  /\ pc' = [pc EXCEPT ![w] = "dec"]
  /\ UNCHANGED <<mainVars, queueVars, poolVars, frameVars, countVars,
                 condVars, consumed, dropped, frame, sock, req>>

(* busy_threads--, whose lock is commented out: a read and a store.        *)
DecRead(w) ==
  /\ pc[w] = "dec"
  /\ reg' = [reg EXCEPT ![w] = busy_threads]
  /\ pc' = [pc EXCEPT ![w] = "decst"]
  /\ UNCHANGED <<mainVars, queueVars, poolVars, frameVars, busy_threads,
                 qmutex, raced, condVars, netVars, frame, sock, req>>

DecStore(w) ==
  /\ pc[w] = "decst"
  /\ busy_threads' = reg[w] - 1
  /\ raced' = (raced \/ reg[w] # busy_threads)
  /\ frame' = [frame EXCEPT ![w] = NULL]
  /\ sock' = [sock EXCEPT ![w] = NULL]
  /\ req' = [req EXCEPT ![w] = NULL]
  /\ pc' = [pc EXCEPT ![w] = "loop"]
  /\ UNCHANGED <<mainVars, queueVars, poolVars, frameVars, qmutex, reg,
                 condVars, netVars>>

-----------------------------------------------------------------------------
Idle(w)  == \/ RegisterRead(w) \/ RegisterWrite(w) \/ StartWait(w)
            \/ WakeForNothing(w) \/ TakeFrame(w)

Serve(w) == \/ BeginRequest(w) \/ ReadRequest(w) \/ ReadFails(w) \/ Hang(w)
            \/ PostIn(w) \/ release_frame(w) \/ Respond(w) \/ Send(w)
            \/ SendThrows(w) \/ SignalPipe(w) \/ catch_req(w)
            \/ DecRead(w) \/ DecStore(w)

dispatcher(w) == mpc # "halt" /\ (Idle(w) \/ Serve(w))

MainLoop == Poll \/ PollTimeout \/ Grow \/ Enqueue \/ Shutdown

Next ==
  \/ MainLoop
  \/ \E f \in Frames, s \in Fds : Accept(f, s)
  \/ exit_gusher
  \/ \E w \in Workers : dispatcher(w)

(* Every thread that can run eventually does; poll() times out.  Nothing   *)
(* is assumed of clients (Accept) nor of exit_gusher.                      *)
Fairness == WF_vars(MainLoop) /\ \A w \in Workers : WF_vars(dispatcher(w))

Spec == Init /\ [][Next]_vars /\ Fairness

-----------------------------------------------------------------------------
(* Properties.                                                             *)

(* head and link represent the list `seq': the code's next pointers, read  *)
(* from the head, visit exactly these frames and end in NULL.              *)
Represents(head, seq) ==
  /\ head = IF seq = <<>> THEN NULL ELSE seq[1]
  /\ \A i \in 1 .. Len(seq) :
       next[seq[i]] = IF i < Len(seq) THEN seq[i + 1] ELSE NULL

(* Frames move between the queue and the free list through one `next'      *)
(* field.  Following the pointers always gives the frames put in and not   *)
(* yet taken out, and req_tail is the last frame of a queue that has one,  *)
(* so that enqueue_frame never writes through a stale tail.                *)
ListsWellFormed ==
  /\ Represents(req_queue, qlist)
  /\ Represents(req_pool, plist)
  /\ qlist # <<>> => req_tail = qlist[Len(qlist)]

Members(seq) == {seq[i] : i \in 1 .. Len(seq)}
NoRepeats(seq) == \A i, j \in 1 .. Len(seq) : seq[i] = seq[j] => i = j

(* A frame is in one place only: free, queued, in process_http's hands, or *)
(* in the hands of one dispatcher that has not released it.  No frame is   *)
(* released twice and none is recycled while a request is being read.      *)
FrameOwnership ==
  /\ NoRepeats(qlist) /\ NoRepeats(plist)
  /\ Members(qlist) \cap Members(plist) = {}
  /\ mframe \notin Members(qlist) \cup Members(plist)
  /\ \A w \in Workers : pc[w] \in OwnsFrame =>
       /\ frame[w] \notin Members(qlist) \cup Members(plist) \cup {mframe}
       /\ \A v \in Workers : frame[v] = frame[w] /\ pc[v] \in OwnsFrame
                               => v = w

(* Dispatchers take connections in the order in which they were accepted,  *)
(* and none is skipped or taken twice.                                     *)
FirstComeFirstServed ==
  /\ \A w \in Workers : pc[w] = "inc" => fcount[frame[w]] = taken - 1
  /\ mpc # "halt" => taken + Len(qlist) = tcount

(* What is sent on a connection answers the request that came from it:     *)
(* no thread writes to a descriptor the kernel has given to another        *)
(* client meanwhile.                                                       *)
ReplyToOwner == \A c \in Conns : got[c] \subseteq {c}

(* An accepted connection stays open only while somebody is going to       *)
(* close it: process_http, a queued frame or a dispatcher; the exception   *)
(* is the early return of process_request on end of file.                  *)
DescriptorsHeld ==
  \A s \in Fds : fd[s] # NULL /\ mpc # "halt" =>
    \/ fd[s] \in dropped
    \/ mframe # NULL /\ fsock[mframe] = s
    \/ \E i \in 1 .. Len(qlist) : fsock[qlist[i]] = s
    \/ \E w \in Workers : \/ pc[w] = "inc" /\ fsock[frame[w]] = s
                          \/ pc[w] \in ServeStates \ {"inc"} /\ sock[w] = s

(* Unless two unlocked updates have overlapped, busy_threads is the number *)
(* of threads between the two updates, which is what the decision to add   *)
(* a thread relies on.                                                     *)
BusyCountExact ==
  ~raced => busy_threads = Cardinality({w \in Workers :
                pc[w] \in (ServeStates \ {"inc"}) \cup {"dec", "decst"}})

AllStuck == \A w \in 1 .. nthreads : pc[w] = "stuck"

(* Every accepted connection is eventually answered, found closed, or held *)
(* by a thread that hangs on a silent peer, unless the process ends (by    *)
(* exit_gusher, or because of a peer that has gone).  That holds although  *)
(* signals can be lost (a condition variable dropped by the unlocked       *)
(* registration, a signal only when the queue was empty): the timed wait   *)
(* makes up for them.  The other way out is a pool whose threads all hang. *)
ConnectionSettled ==
  \A c \in Conns : tcount > c ~>
    \/ got[c] # {} \/ c \in dropped
    \/ \E w \in Workers : pc[w] = "stuck" /\ fcount[frame[w]] = c
    \/ AllStuck \/ mpc = "halt"

(* Once exit_gusher has been called the main loop ends: no dispatcher can  *)
(* keep the main thread waiting for qmutex.                                *)
ExitHonoured == ~running ~> mpc = "halt"

-----------------------------------------------------------------------------
(* The service the pool provides, without its machinery.                   *)
Service == INSTANCE RequestService
             WITH arrived <- tcount, begun <- taken, replies <- got,
                  lost <- dropped, up <- (mpc # "halt")

(* While no responder throws, the pool is a first-come-first-served        *)
(* service: a connection is begun after all earlier ones, gets at most one *)
(* reply, its own, and none once it was found closed.  It may stop: when   *)
(* told to, or because one client did not wait for its reply.              *)
ImplementsService == Service!Spec

=============================================================================
