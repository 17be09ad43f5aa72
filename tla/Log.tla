--------------------------------- MODULE Log --------------------------------
(***************************************************************************)
(* The log: src/src/log.c.  log_msg writes a time stamp and a message      *)
(* under lmutex; log-to changes the file without it; and the signal        *)
(* handler of src/src/main.c calls log_msg from wherever the thread is.    *)
(***************************************************************************)
EXTENDS Integers, Sequences, FiniteSets

CONSTANTS
  Loggers,   \* the threads
  MaxMsgs,   \* BOUND: messages logged
  MaxFiles   \* BOUND: calls of log-to; file 0 is stderr

ASSUME LogConstantsOK == MaxMsgs \in Nat /\ MaxFiles \in Nat

VARIABLES
  gpc,      \* where each thread is
  lmutex,   \* the owner of lmutex: a set of at most one thread
  logfile, opened,   \* the file in use, and how many were opened
  logtext,  \* what each file holds: the thread and what it wrote
  msgs,
  moved,    \* history: log-to ran while another thread logged
  stuck     \* history: a signal hit a thread inside log_msg or log-to

logVars == <<gpc, lmutex, logfile, opened, logtext, msgs, moved, stuck>>

LogInit ==
  /\ gpc = [t \in Loggers |-> "idle"] /\ lmutex = {}
  /\ logfile = 0 /\ opened = 0 /\ logtext = [f \in 0 .. MaxFiles |-> <<>>]
  /\ msgs = 0 /\ moved = FALSE /\ stuck = FALSE

Inside == {t \in Loggers : gpc[t] \in {"stamp", "text", "unlock"}}
Moving == {t \in Loggers : gpc[t] = "open"}

Goto(t, there) == gpc' = [gpc EXCEPT ![t] = there]
Write(t, what) ==
  logtext' = [logtext EXCEPT ![logfile] = Append(@, <<t, what>>)]

-----------------------------------------------------------------------------
log_msg(t) ==
  /\ gpc[t] = "idle" /\ msgs < MaxMsgs
  /\ msgs' = msgs + 1 /\ Goto(t, "lock")
  /\ UNCHANGED <<lmutex, logfile, opened, logtext, moved, stuck>>

(* scm_lock_mutex; the mutant does not wait.                               *)
Obtainable_always == TRUE
Obtainable == lmutex = {}

Lock(t) ==
  /\ gpc[t] = "lock" /\ Obtainable
  /\ lmutex' = {t} /\ Goto(t, "stamp")
  /\ moved' = (moved \/ Moving # {})
  /\ UNCHANGED <<logfile, opened, logtext, msgs, stuck>>

WriteStamp(t) ==
  /\ gpc[t] = "stamp" /\ Write(t, "stamp") /\ Goto(t, "text")
  /\ UNCHANGED <<lmutex, logfile, opened, msgs, moved, stuck>>

WriteText(t) ==
  /\ gpc[t] = "text" /\ Write(t, "text") /\ Goto(t, "unlock")
  /\ UNCHANGED <<lmutex, logfile, opened, msgs, moved, stuck>>

Unlock(t) ==
  /\ gpc[t] = "unlock" /\ lmutex' = {} /\ Goto(t, "idle")
  /\ UNCHANGED <<logfile, opened, logtext, msgs, moved, stuck>>

(* log-to: the old file is closed, then a new one opened, or stderr used   *)
(* if that fails.  shutdown_log, which main calls while the other threads  *)
(* go on, does the same and ends with stderr.                              *)
log_to(t) ==
  /\ gpc[t] = "idle" /\ opened < MaxFiles
  /\ opened' = opened + 1 /\ Goto(t, "open")
  /\ moved' = (moved \/ Inside # {} \/ Moving # {})
  /\ UNCHANGED <<lmutex, logfile, logtext, msgs, stuck>>

log_to_open(t) ==
  /\ gpc[t] = "open" /\ logfile' \in {opened, 0} /\ Goto(t, "idle")
  /\ UNCHANGED <<lmutex, opened, logtext, msgs, moved, stuck>>

(* A signal inside log_msg: the handler's log_msg finds lmutex locked by   *)
(* its own thread and throws, past the unlock.  Inside log-to it writes to *)
(* the file that log-to has closed, which is undefined: nothing is claimed *)
(* from there on.                                                          *)
SignalInside(t) ==
  /\ gpc[t] \in {"stamp", "text", "unlock", "open"} /\ ~stuck
  /\ Goto(t, "thrown") /\ stuck' = TRUE
  /\ UNCHANGED <<lmutex, logfile, opened, logtext, msgs, moved>>

LogStep(t) == Lock(t) \/ WriteStamp(t) \/ WriteText(t) \/ Unlock(t)
LogNext == \E t \in Loggers : \/ log_msg(t) \/ LogStep(t) \/ log_to(t)
                              \/ log_to_open(t) \/ SignalInside(t)

LogSpec == LogInit /\ [][LogNext]_logVars

-----------------------------------------------------------------------------
(* Properties.                                                             *)

(* A log file is made of whole lines, each stamp followed by the message   *)
(* of the same thread, while any number of threads log and log-to changes  *)
(* files between messages; the last line may still be in the making.       *)
LinesWhole ==
  ~moved /\ ~stuck =>
    \A f \in 0 .. MaxFiles : LET text == logtext[f] IN
      \A i \in 1 .. Len(text) :
        IF i % 2 = 1 THEN text[i][2] = "stamp"
                     ELSE text[i] = <<text[i - 1][1], "text">>

=============================================================================
