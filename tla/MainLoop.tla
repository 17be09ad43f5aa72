------------------------------ MODULE MainLoop ------------------------------
(***************************************************************************)
(* The main loop of src/src/main.c in single-threaded mode (-s), in the    *)
(* foreground with a console or in the background (-d): housekeeping at    *)
(* intervals, poll, one connection served, one line of the console         *)
(* evaluated, and signals that arrive at any moment (but those that hit    *)
(* log_msg, which are in Log).  The police, run with the heartbeat, is in  *)
(* DocCache.                                                               *)
(***************************************************************************)
EXTENDS Integers, SequencesExt

CONSTANTS
  Intvl,       \* POLICE_INTVL
  MaxClock,    \* BOUND: time passes until here
  MaxConns     \* BOUND: connections made

ASSUME LoopConstantsOK == /\ Intvl \in Nat \ {0} /\ MaxClock \in Nat
                          /\ MaxConns \in Nat

VARIABLES
  lpc,         \* where main is: "top", "poll", "http", "line", held by a
               \* client for ever ("stuck"), "over" or "died"
  background,  \* -d
  running,
  clock, due,  \* the time, and mark
  pulse,       \* the heartbeat file is set
  accepted,    \* connections taken up
  conns,       \* history: what the client of each connection does
  console,     \* what stdin holds: nothing, a line, its end, or a hangup
  http_in, line_in,  \* POLLIN in polls[0].revents and polls[1].revents
  told,        \* history: who said to stop
  uncaught     \* history: a responder, or a conversion, threw

loopVars == <<lpc, background, running, clock, due, pulse, accepted, conns,
              console, http_in, line_in, told, uncaught>>

(* A client waits for its reply, goes away before it is out, or falls      *)
(* silent before its request is complete (or leaves in the middle of a     *)
(* body, which the loops over it do not notice).                           *)
Clients == {"waits", "leaves", "silent"}
Lines == {"expr", "error", "exit", "eof", "hup"}
Readable == console \notin {"empty", "hup"}

(* polls is not initialised, and poll fills in nfds entries only: in the   *)
(* background polls[1].revents stays what the stack held.                  *)
LoopInit ==
  /\ lpc = "top" /\ background \in BOOLEAN /\ running = TRUE
  /\ clock = 0 /\ due = Intvl /\ pulse \in BOOLEAN
  /\ accepted = 0 /\ conns = <<>> /\ console = "empty"
  /\ http_in = FALSE /\ line_in \in BOOLEAN
  /\ told = {} /\ uncaught = FALSE

-----------------------------------------------------------------------------
(* The world.                                                              *)
Tick == /\ clock < MaxClock /\ clock' = clock + 1
        /\ UNCHANGED <<lpc, background, running, due, pulse, accepted, conns,
                       console, http_in, line_in, told, uncaught>>

Connect == /\ Len(conns) < MaxConns
           /\ \E c \in Clients : conns' = Append(conns, c)
           /\ UNCHANGED <<lpc, background, running, clock, due, pulse,
                          accepted, console, http_in, line_in, told, uncaught>>

(* A daemon's stdin is at its end.  A pipe that is closed hangs up, which  *)
(* poll reports without POLLIN, again and again.                           *)
TypeLine == /\ console = "empty"
            /\ console' \in IF background THEN {"eof"} ELSE Lines
            /\ UNCHANGED <<lpc, background, running, clock, due, pulse,
                           accepted, conns, http_in, line_in, told, uncaught>>

(* exit_gusher clears running, which the loop tests at its head only: a    *)
(* read that a client keeps waiting goes on waiting after the handler.     *)
signal_handler ==
  /\ "signal" \notin told /\ lpc \notin {"over", "died"}
  /\ told' = told \cup {"signal"} /\ running' = FALSE
  /\ UNCHANGED <<lpc, background, clock, due, pulse, accepted, conns, console,
                 http_in, line_in, uncaught>>

-----------------------------------------------------------------------------
(* The loop.                                                               *)

(* creat may fail: then there is no heartbeat any more.                    *)
heartbeat == pulse' \in IF pulse THEN BOOLEAN ELSE {FALSE}

Top ==
  /\ lpc = "top"
  /\ IF ~running THEN lpc' = "over" /\ UNCHANGED <<due, pulse>>
     ELSE /\ lpc' = "poll"
          /\ IF clock >= due THEN due' = due + Intvl /\ heartbeat
                             ELSE UNCHANGED <<due, pulse>>
  /\ UNCHANGED <<background, running, clock, accepted, conns, console, http_in,
                 line_in, told, uncaught>>

Ready == accepted < Len(conns) \/ (~background /\ console # "empty")

(* poll returns after POLL_TIMEOUT, or interrupted; the mutant waits for   *)
(* input however long it takes.                                            *)
Unready_never == FALSE
Unready == TRUE

Poll ==
  /\ lpc = "poll"
  /\ \/ /\ Ready
        /\ http_in' = (accepted < Len(conns))
        /\ line_in' = IF background THEN line_in ELSE Readable
        /\ lpc' = "http"
     \/ /\ ~Ready /\ Unready
        /\ lpc' = "top"
        /\ UNCHANGED <<http_in, line_in>>
  /\ UNCHANGED <<background, running, clock, due, pulse, accepted, conns,
                 console, told, uncaught>>

(* The responder returns, says (exit) and returns, or something throws:    *)
(* there is no thread and no catch, so that goes all the way up and ends   *)
(* the process.                                                            *)
Responder ==
  \/ lpc' = "line" /\ UNCHANGED <<running, told, uncaught>>
  \/ /\ lpc' = "line" /\ running' = FALSE
     /\ told' = told \cup {"responder"} /\ UNCHANGED uncaught
  \/ lpc' = "died" /\ uncaught' = TRUE /\ UNCHANGED <<running, told>>

(* process_http with the whole of process_request: read() has no timeout,  *)
(* a client that left is found at end of file, or by send(), whose SIGPIPE *)
(* nothing ignores or catches.                                             *)
process_http ==
  /\ lpc = "http"
  /\ IF ~http_in
     THEN lpc' = "line" /\ UNCHANGED <<accepted, running, told, uncaught>>
     ELSE LET client == conns[accepted + 1] IN
          /\ accepted' = accepted + 1
          /\ \/ client # "silent" /\ Responder
             \/ /\ client = "leaves" /\ lpc' \in {"line", "died"}
                /\ UNCHANGED <<running, told, uncaught>>
             \/ /\ client = "silent" /\ lpc' = "stuck"
                /\ UNCHANGED <<running, told, uncaught>>
  /\ UNCHANGED <<background, clock, due, pulse, conns, console, http_in,
                 line_in>>

(* What a line does: (exit) and the end of input stop the loop, an error   *)
(* is caught and shown.  In the mutant an error stops it too.              *)
Exits_error(line) == line \in {"exit", "eof", "error"}
Exits(line) == line \in {"exit", "eof"}

(* process_line: a line that is not there yet is waited for.               *)
process_line ==
  /\ lpc = "line"
  /\ IF ~line_in THEN UNCHANGED <<running, console, told>>
     ELSE /\ Readable
          /\ running' = (running /\ ~Exits(console))
          /\ told' = IF console \in {"exit", "eof"} THEN told \cup {"console"}
                                                   ELSE told
          /\ console' = "empty"
  /\ lpc' = "top"
  /\ UNCHANGED <<background, clock, due, pulse, accepted, conns, http_in,
                 line_in, uncaught>>

LoopStep == Top \/ Poll \/ process_http \/ process_line
LoopNext == Tick \/ Connect \/ TypeLine \/ signal_handler \/ LoopStep

(* main runs, poll returns after its timeout, and responders and what the  *)
(* console evaluates end.  Nothing is assumed of clients: one that keeps   *)
(* main waiting is one of Clients.                                         *)
LoopFairness == WF_loopVars(LoopStep)

LoopSpec == LoopInit /\ [][LoopNext]_loopVars /\ LoopFairness

-----------------------------------------------------------------------------
(* Properties.                                                             *)

(* The value that polls[1].revents happens to have does no harm.           *)
NoStrayInput == ~(background /\ line_in)

(* The server stops only when a signal, a responder or the console says so *)
(* (a daemon not for its console): never for an error in a line of the     *)
(* console or a failing heartbeat.  It dies only of a responder that       *)
(* throws or of a client that has gone, and only a silent client holds it. *)
StopsOnlyWhenTold ==
  NoStrayInput =>
    /\ lpc = "over" => told # {} /\ (background => told # {"console"})
    /\ lpc = "died" => uncaught \/ "leaves" \in ToSet(conns)
    /\ lpc = "stuck" => "silent" \in ToSet(conns)

Gone == lpc \in {"over", "died"}

(* A signal ends the loop, also one that comes between the test of running *)
(* and poll, when no input comes any more; but not while a silent client   *)
(* holds main.                                                             *)
SignalStops == "signal" \in told /\ NoStrayInput ~> Gone \/ lpc = "stuck"

(* Housekeeping catches up, however long requests and lines kept the loop. *)
HousekeepingGoesOn ==
  clock >= due /\ NoStrayInput ~> clock < due \/ Gone \/ lpc = "stuck"

(* Every connection is taken up, or the server has ended or is held.       *)
EveryConnectionServed ==
  \A n \in 1 .. MaxConns :
    Len(conns) >= n /\ NoStrayInput ~> accepted >= n \/ Gone \/ lpc = "stuck"

(* Nothing but a silent client stops the loop from going round: a signal   *)
(* ends it, the housekeeping catches up and every connection is taken up,  *)
(* whatever the order of connections, lines, ticks and the signal.         *)
LoopGoesOn == SignalStops /\ HousekeepingGoesOn /\ EveryConnectionServed

=============================================================================
