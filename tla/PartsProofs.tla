---------------------------- MODULE PartsProofs -----------------------------
(***************************************************************************)
(* Proofs about the parts of gusher that work by themselves: the main      *)
(* loop, the log, the result objects of the database, the head of a        *)
(* request, and timestamps.                                                *)
(***************************************************************************)
EXTENDS MainLoop, Log, PgResult, RequestHead, GTime, ListFacts, TLAPS

(* The main loop: running is cleared for a reason, and the loop ends, the  *)
(* process dies and main is held only where the code says so.              *)
LoopInv ==
  /\ background \in BOOLEAN /\ running \in BOOLEAN /\ line_in \in BOOLEAN
  /\ uncaught \in BOOLEAN /\ accepted \in Nat /\ conns \in Seq(Clients)
  /\ NoStrayInput /\ ~running => told # {}
  /\ NoStrayInput /\ background => "console" \notin told
  /\ lpc = "http" /\ http_in => accepted < Len(conns)
  /\ lpc = "over" => ~running
  /\ lpc = "died" => uncaught \/ \E i \in 1 .. Len(conns) : conns[i] = "leaves"
  /\ lpc = "stuck" => \E i \in 1 .. Len(conns) : conns[i] = "silent"

(* Another client comes: those before it stay what they were.              *)
LEMMA OneMoreClient ==
  ASSUME conns \in Seq(Clients), Connect
  PROVE  /\ conns' \in Seq(Clients) /\ Len(conns') = Len(conns) + 1
         /\ \A i \in 1 .. Len(conns) : i \in 1 .. Len(conns') /\ conns'[i] = conns[i]
BY DEF Connect

(* The server stops only when a signal, a responder or the console says    *)
(* so, a daemon not for its console; it dies only of an exception or of a  *)
(* client that has gone, and only a silent client holds it.                *)
THEOREM Stops == LoopSpec => []StopsOnlyWhenTold
<1>1. LoopInit => LoopInv
  <2> SUFFICES ASSUME LoopInit PROVE LoopInv
    OBVIOUS
  <2>1. /\ background \in BOOLEAN /\ running \in BOOLEAN /\ line_in \in BOOLEAN
        /\ uncaught \in BOOLEAN /\ running
    BY DEF LoopInit
  <2>2. /\ accepted \in Nat /\ conns \in Seq(Clients)
        /\ lpc = "top" /\ told = {}
    BY DEF LoopInit
  <2>3. QED
    BY <2>1, <2>2 DEF LoopInv
<1>2. LoopInv /\ [LoopNext]_loopVars => LoopInv'
  <2> SUFFICES ASSUME LoopInv, [LoopNext]_loopVars PROVE LoopInv'
    OBVIOUS
  <2> USE DEF LoopInv, NoStrayInput
  <2>1. CASE UNCHANGED loopVars
    BY <2>1 DEF loopVars
  <2>2. CASE Tick \/ TypeLine
    BY <2>2 DEF Tick, TypeLine
  <2>3. CASE Connect
    <3>1. UNCHANGED <<lpc, background, running, accepted, http_in, line_in, told,
                      uncaught>>
      BY <2>3 DEF Connect
    <3>2. QED
      BY <2>3, <3>1, OneMoreClient
  <2>4. CASE signal_handler
    BY <2>4 DEF signal_handler
  <2>5. CASE Top
    BY <2>5 DEF Top
  <2>6. CASE Poll
    BY <2>6 DEF Poll, Readable
  <2>7. CASE process_http
    <3>1. CASE ~http_in
      BY <2>7, <3>1 DEF process_http
    <3>2. CASE http_in
      <4>1. accepted + 1 \in 1 .. Len(conns)
        BY <2>7, <3>2 DEF process_http
      <4>2. accepted' = accepted + 1 /\ UNCHANGED <<background, conns, line_in>>
        BY <2>7, <3>2 DEF process_http
      <4>3. CASE Responder
        <5>1. CASE lpc' = "line" /\ UNCHANGED <<running, told, uncaught>>
          BY <4>2, <5>1
        <5>2. CASE /\ lpc' = "line" /\ running' = FALSE
                   /\ told' = told \cup {"responder"} /\ UNCHANGED uncaught
          <6>1. told' # {} /\ ("console" \in told' <=> "console" \in told)
            BY <5>2
          <6>2. running' \in BOOLEAN /\ uncaught' \in BOOLEAN
            BY <5>2
          <6>3. accepted' \in Nat /\ conns' \in Seq(Clients)
            BY <4>2
          <6>4. lpc' = "line"
            BY <5>2
          <6>5. QED
            BY <4>2, <6>1, <6>2, <6>3, <6>4
        <5>3. CASE lpc' = "died" /\ uncaught' = TRUE /\ UNCHANGED <<running, told>>
          BY <4>2, <5>3
        <5>4. QED
          BY <4>3, <5>1, <5>2, <5>3 DEF Responder
      <4>4. CASE /\ conns[accepted + 1] = "leaves" /\ lpc' \in {"line", "died"}
                 /\ UNCHANGED <<running, told, uncaught>>
        BY <4>1, <4>2, <4>4
      <4>5. CASE /\ conns[accepted + 1] = "silent" /\ lpc' = "stuck"
                 /\ UNCHANGED <<running, told, uncaught>>
        BY <4>1, <4>2, <4>5
      <4>6. QED
        BY <2>7, <3>2, <4>3, <4>4, <4>5 DEF process_http
    <3>3. QED
      BY <3>1, <3>2
  <2>8. CASE process_line
    BY <2>8 DEF process_line, Exits
  <2>9. QED
    BY <2>1, <2>2, <2>3, <2>4, <2>5, <2>6, <2>7, <2>8 DEF LoopNext, LoopStep
<1>3. LoopInv => StopsOnlyWhenTold
  BY DEF LoopInv, StopsOnlyWhenTold, NoStrayInput, ToSet
<1>4. QED
  BY <1>1, <1>2, <1>3, PTL DEF LoopSpec

-----------------------------------------------------------------------------
(* The log: variables' types.                                              *)
LogTypes ==
  /\ gpc \in [Loggers -> {"idle", "lock", "stamp", "text", "unlock", "open", "thrown"}]
  /\ opened \in 0 .. MaxFiles /\ logfile \in 0 .. MaxFiles
  /\ logtext \in [0 .. MaxFiles -> Seq(Loggers \X {"stamp", "text"})]
  /\ moved \in BOOLEAN /\ stuck \in BOOLEAN

Odd(n) == n % 2 = 1

(* The parity of the numbers of pieces in a file alternates.               *)
LEMMA Parity == ~Odd(0) /\ \A n \in Nat : Odd(n + 1) <=> ~Odd(n)
BY DEF Odd

(* Until log-to gets in the way or a signal hits a thread inside log_msg:  *)
(* the thread inside has the mutex, nobody changes the file meanwhile, and *)
(* a file has an odd number of pieces only while a thread inside is about  *)
(* to write the text that belongs to the last stamp.                       *)
OneInside ==
  ~moved /\ ~stuck =>
    /\ \A t \in Inside : lmutex = {t} /\ Moving = {}
    /\ \A f \in 0 .. MaxFiles : Odd(Len(logtext[f])) => f = logfile
    /\ \A t \in Inside :
         LET text == logtext[logfile] IN
         IF gpc[t] = "text" THEN Odd(Len(text)) /\ text[Len(text)][1] = t
                            ELSE ~Odd(Len(text))
    /\ Inside = {} => \A f \in 0 .. MaxFiles : ~Odd(Len(logtext[f]))

LogInv == LogTypes /\ OneInside /\ LinesWhole

(* One piece more at the end of a file.                                    *)
LEMMA OneMore ==
  ASSUME LogTypes, NEW t \in Loggers, NEW what \in {"stamp", "text"}, Write(t, what)
  PROVE  /\ logtext' \in [0 .. MaxFiles -> Seq(Loggers \X {"stamp", "text"})]
         /\ \A f \in 0 .. MaxFiles : f # logfile => logtext'[f] = logtext[f]
         /\ Len(logtext'[logfile]) = Len(logtext[logfile]) + 1
         /\ Len(logtext[logfile]) \in Nat
         /\ \A i \in 1 .. Len(logtext[logfile]) :
              logtext'[logfile][i] = logtext[logfile][i]
         /\ logtext'[logfile][Len(logtext[logfile]) + 1] = <<t, what>>
<1> DEFINE e == <<t, what>>  s == logtext[logfile]
<1>1. /\ e \in Loggers \X {"stamp", "text"}
      /\ logtext \in [0 .. MaxFiles -> Seq(Loggers \X {"stamp", "text"})]
      /\ logfile \in 0 .. MaxFiles
      /\ logtext' = [logtext EXCEPT ![logfile] = Append(s, e)]
  BY DEF LogTypes, Write
<1> HIDE DEF e
<1>2. s \in Seq(Loggers \X {"stamp", "text"})
  BY <1>1
<1>3. Append(s, e) \in Seq(Loggers \X {"stamp", "text"})
  BY <1>1, <1>2
<1>4. logtext'[logfile] = Append(s, e)
  BY <1>1
<1>5. /\ Len(Append(s, e)) = Len(s) + 1 /\ Len(s) \in Nat
      /\ \A i \in 1 .. Len(s) : Append(s, e)[i] = s[i]
      /\ Append(s, e)[Len(s) + 1] = e
  BY <1>1, <1>2
<1>6. QED
  BY <1>1, <1>3, <1>4, <1>5 DEF e

(* However many threads log and whenever log-to runs between messages, a   *)
(* log file is made of whole lines.                                        *)
THEOREM WholeLines == LogSpec => []LinesWhole
<1>1. LogInit => LogInv
  <2> SUFFICES ASSUME LogInit PROVE LogInv
    OBVIOUS
  <2>1. <<>> \in Seq(Loggers \X {"stamp", "text"}) /\ Len(<<>>) = 0 /\ ~Odd(0)
        /\ 0 \in 0 .. MaxFiles
    BY LogConstantsOK, Parity
  <2>2. logtext \in [0 .. MaxFiles -> Seq(Loggers \X {"stamp", "text"})]
    BY <2>1 DEF LogInit
  <2>3. LogTypes
    BY <2>1, <2>2 DEF LogInit, LogTypes
  <2>4. Inside = {} /\ \A f \in 0 .. MaxFiles : logtext[f] = <<>>
    BY DEF LogInit, Inside
  <2>5. \A f \in 0 .. MaxFiles : ~Odd(Len(logtext[f])) /\ Len(logtext[f]) = 0
    BY <2>1, <2>4
  <2>6. OneInside
    BY <2>4, <2>5 DEF OneInside
  <2>7. LinesWhole
    BY <2>5 DEF LinesWhole
  <2>8. QED
    BY <2>3, <2>6, <2>7 DEF LogInv
<1>2. LogInv /\ [LogNext]_logVars => LogInv'
  <2> SUFFICES ASSUME LogInv, [LogNext]_logVars PROVE LogInv'
    OBVIOUS
  <2>0. LogTypes /\ OneInside /\ LinesWhole /\ MaxFiles \in Nat
    BY LogConstantsOK DEF LogInv
  <2>a. gpc \in [Loggers -> {"idle", "lock", "stamp", "text", "unlock", "open", "thrown"}]
    BY <2>0 DEF LogTypes
  <2>1. CASE UNCHANGED logVars
    BY <2>0, <2>1 DEF logVars, LogInv, LogTypes, OneInside, LinesWhole, Inside, Moving
  <2>2. ASSUME NEW t \in Loggers, log_msg(t) PROVE LogInv'
    <3>1. /\ UNCHANGED <<lmutex, logfile, opened, logtext, moved, stuck>>
          /\ gpc[t] = "idle" /\ gpc' = [gpc EXCEPT ![t] = "lock"]
      BY <2>2 DEF log_msg, Goto
    <3>2. Inside' = Inside /\ Moving' = Moving
      BY <2>a, <3>1 DEF Inside, Moving
    <3>3. \A u \in Inside : gpc'[u] = gpc[u]
      BY <2>a, <3>1 DEF Inside
    <3>4. LogTypes'
      BY <2>0, <2>a, <3>1 DEF LogTypes
    <3>5. OneInside' /\ LinesWhole'
      BY <2>0, <3>1, <3>2, <3>3 DEF OneInside, LinesWhole, Odd
    <3>6. QED
      BY <3>4, <3>5 DEF LogInv
  <2>3. ASSUME NEW t \in Loggers, Lock(t) PROVE LogInv'
    <3>1. /\ UNCHANGED <<logfile, opened, logtext, stuck>> /\ lmutex = {} /\ lmutex' = {t}
          /\ gpc[t] = "lock" /\ gpc' = [gpc EXCEPT ![t] = "stamp"]
          /\ moved' = (moved \/ Moving # {})
      BY <2>3 DEF Lock, Obtainable, Goto
    <3>2. Inside' = Inside \cup {t} /\ Moving' = Moving /\ gpc'[t] = "stamp"
      BY <2>a, <3>1 DEF Inside, Moving
    <3>3. LogTypes'
      BY <2>0, <2>a, <3>1 DEF LogTypes
    <3>4. ASSUME ~moved', ~stuck' PROVE OneInside'
      <4>1. ~moved /\ ~stuck /\ Moving = {}
        BY <3>1, <3>4
      <4>2. Inside = {}
        BY <2>0, <3>1, <4>1 DEF OneInside
      <4>3. \A f \in 0 .. MaxFiles : ~Odd(Len(logtext[f]))
        BY <2>0, <4>1, <4>2 DEF OneInside
      <4>4. Inside' = {t} /\ logfile \in 0 .. MaxFiles
        BY <2>0, <3>2, <4>2 DEF LogTypes
      <4>5. QED
        BY <3>1, <3>2, <4>1, <4>3, <4>4 DEF OneInside
    <3>5. LinesWhole'
      BY <2>0, <3>1 DEF LinesWhole, Odd
    <3>6. QED
      BY <3>3, <3>4, <3>5 DEF LogInv, OneInside
  <2>4. ASSUME NEW t \in Loggers, WriteStamp(t) PROVE LogInv'
    <3> DEFINE s == logtext[logfile]
    <3>1. /\ UNCHANGED <<lmutex, logfile, opened, moved, stuck>> /\ Write(t, "stamp")
          /\ gpc[t] = "stamp" /\ gpc' = [gpc EXCEPT ![t] = "text"]
      BY <2>4 DEF WriteStamp, Goto
    <3>2. Inside' = Inside /\ Moving' = Moving /\ gpc'[t] = "text" /\ t \in Inside
      BY <2>a, <3>1 DEF Inside, Moving
    <3>3. LogTypes'
      BY <2>0, <2>a, <3>1, OneMore DEF LogTypes
    <3>4. ASSUME ~moved', ~stuck' PROVE OneInside' /\ LinesWhole'
      <4>1. ~moved /\ ~stuck /\ logfile \in 0 .. MaxFiles
        BY <2>0, <3>1, <3>4 DEF LogTypes
      <4>2. Inside = {t} /\ Moving = {} /\ lmutex = {t}
        BY <2>0, <3>2, <4>1 DEF OneInside
      <4>3. ~Odd(Len(s)) /\ Len(s) \in Nat
        BY <2>0, <3>1, <3>2, <4>1, OneMore DEF OneInside
      <4>4. Odd(Len(s) + 1)
        BY <4>3, Parity
      <4>5. \A f \in 0 .. MaxFiles : Odd(Len(logtext'[f])) => f = logfile
        BY <2>0, <3>1, <4>1, OneMore DEF OneInside
      <4>6. Odd(Len(logtext'[logfile])) /\ logtext'[logfile][Len(s) + 1][1] = t
            /\ Len(logtext'[logfile]) = Len(s) + 1
        BY <2>0, <3>1, <4>4, OneMore
      <4>7. OneInside'
        BY <3>1, <3>2, <4>2, <4>5, <4>6 DEF OneInside
      <4>8. ASSUME NEW f \in 0 .. MaxFiles, NEW i \in 1 .. Len(logtext'[f])
            PROVE  IF Odd(i) THEN logtext'[f][i][2] = "stamp"
                   ELSE logtext'[f][i] = <<logtext'[f][i - 1][1], "text">>
        <5>1. CASE f # logfile
          <6>1. logtext'[f] = logtext[f] /\ i \in 1 .. Len(logtext[f])
            BY <2>0, <3>1, <5>1, OneMore
          <6>2. QED
            BY <2>0, <4>1, <6>1 DEF LinesWhole, Odd
        <5>2. CASE f = logfile /\ i = Len(s) + 1
          BY <2>0, <3>1, <4>4, <5>2, OneMore
        <5>3. CASE f = logfile /\ i # Len(s) + 1
          <6>1. i \in 1 .. Len(s) /\ (~Odd(i) => i - 1 \in 1 .. Len(s))
            <7>1. Len(logtext'[f]) = Len(s) + 1 /\ Len(s) \in Nat
              BY <2>0, <3>1, <5>3, OneMore
            <7>2. i \in 1 .. Len(s) /\ (i # 1 => i - 1 \in 1 .. Len(s))
              BY <5>3, <7>1
            <7>3. Odd(1)
              <8>1. 0 \in Nat /\ 0 + 1 = 1
                OBVIOUS
              <8>2. QED
                BY <8>1, Parity
            <7>4. QED
              BY <7>2, <7>3
          <6>2. IF Odd(i) THEN s[i][2] = "stamp" ELSE s[i] = <<s[i - 1][1], "text">>
            BY <2>0, <4>1, <6>1 DEF LinesWhole, Odd
          <6>3. QED
            BY <2>0, <3>1, <5>3, <6>1, <6>2, OneMore
        <5>4. QED
          BY <5>1, <5>2, <5>3
      <4>9. QED
        BY <4>7, <4>8 DEF LinesWhole, Odd
    <3>5. QED
      BY <3>3, <3>4 DEF LogInv, OneInside, LinesWhole, Odd
  <2>5. ASSUME NEW t \in Loggers, WriteText(t) PROVE LogInv'
    <3> DEFINE s == logtext[logfile]
    <3>1. /\ UNCHANGED <<lmutex, logfile, opened, moved, stuck>> /\ Write(t, "text")
          /\ gpc[t] = "text" /\ gpc' = [gpc EXCEPT ![t] = "unlock"]
      BY <2>5 DEF WriteText, Goto
    <3>2. Inside' = Inside /\ Moving' = Moving /\ gpc'[t] = "unlock" /\ t \in Inside
      BY <2>a, <3>1 DEF Inside, Moving
    <3>3. LogTypes'
      BY <2>0, <2>a, <3>1, OneMore DEF LogTypes
    <3>4. ASSUME ~moved', ~stuck' PROVE OneInside' /\ LinesWhole'
      <4>1. ~moved /\ ~stuck /\ logfile \in 0 .. MaxFiles
        BY <2>0, <3>1, <3>4 DEF LogTypes
      <4>2. Inside = {t} /\ Moving = {} /\ lmutex = {t}
        BY <2>0, <3>2, <4>1 DEF OneInside
      <4>3. Odd(Len(s)) /\ s[Len(s)][1] = t /\ Len(s) \in Nat
        BY <2>0, <3>1, <3>2, <4>1, OneMore DEF OneInside
      <4>4. ~Odd(Len(s) + 1) /\ Len(s) \in 1 .. Len(s)
        <5>1. ~Odd(Len(s) + 1) /\ Len(s) # 0
          BY <4>3, Parity
        <5>2. QED
          BY <4>3, <5>1
      <4>5. \A f \in 0 .. MaxFiles : Odd(Len(logtext'[f])) => f = logfile
        BY <2>0, <3>1, <4>1, OneMore DEF OneInside
      <4>6. ~Odd(Len(logtext'[logfile]))
        BY <2>0, <3>1, <4>4, OneMore
      <4>7. OneInside'
        BY <3>1, <3>2, <4>2, <4>5, <4>6 DEF OneInside
      <4>8. ASSUME NEW f \in 0 .. MaxFiles, NEW i \in 1 .. Len(logtext'[f])
            PROVE  IF Odd(i) THEN logtext'[f][i][2] = "stamp"
                   ELSE logtext'[f][i] = <<logtext'[f][i - 1][1], "text">>
        <5>1. CASE f # logfile
          <6>1. logtext'[f] = logtext[f] /\ i \in 1 .. Len(logtext[f])
            BY <2>0, <3>1, <5>1, OneMore
          <6>2. QED
            BY <2>0, <4>1, <6>1 DEF LinesWhole, Odd
        <5>2. CASE f = logfile /\ i = Len(s) + 1
          <6>1. i - 1 = Len(s)
            BY <4>3, <5>2
          <6>2. logtext'[f][i - 1] = s[Len(s)] /\ logtext'[f][i] = <<t, "text">>
            BY <2>0, <3>1, <4>4, <5>2, <6>1, OneMore
          <6>3. QED
            BY <4>3, <4>4, <5>2, <6>2
        <5>3. CASE f = logfile /\ i # Len(s) + 1
          <6>1. i \in 1 .. Len(s) /\ (~Odd(i) => i - 1 \in 1 .. Len(s))
            <7>1. Len(logtext'[f]) = Len(s) + 1 /\ Len(s) \in Nat
              BY <2>0, <3>1, <5>3, OneMore
            <7>2. i \in 1 .. Len(s) /\ (i # 1 => i - 1 \in 1 .. Len(s))
              BY <5>3, <7>1
            <7>3. Odd(1)
              <8>1. 0 \in Nat /\ 0 + 1 = 1
                OBVIOUS
              <8>2. QED
                BY <8>1, Parity
            <7>4. QED
              BY <7>2, <7>3
          <6>2. IF Odd(i) THEN s[i][2] = "stamp" ELSE s[i] = <<s[i - 1][1], "text">>
            BY <2>0, <4>1, <6>1 DEF LinesWhole, Odd
          <6>3. QED
            BY <2>0, <3>1, <5>3, <6>1, <6>2, OneMore
        <5>4. QED
          BY <5>1, <5>2, <5>3
      <4>9. QED
        BY <4>7, <4>8 DEF LinesWhole, Odd
    <3>5. QED
      BY <3>3, <3>4 DEF LogInv, OneInside, LinesWhole, Odd
  <2>6. ASSUME NEW t \in Loggers, Unlock(t) PROVE LogInv'
    <3>1. /\ UNCHANGED <<logfile, opened, logtext, moved, stuck>> /\ lmutex' = {}
          /\ gpc[t] = "unlock" /\ gpc' = [gpc EXCEPT ![t] = "idle"]
      BY <2>6 DEF Unlock, Goto
    <3>2. Inside' = Inside \ {t} /\ Moving' = Moving /\ t \in Inside
      BY <2>a, <3>1 DEF Inside, Moving
    <3>3. LogTypes' /\ LinesWhole'
      BY <2>0, <2>a, <3>1 DEF LogTypes, LinesWhole
    <3>4. ASSUME ~moved', ~stuck' PROVE OneInside'
      <4>1. ~moved /\ ~stuck
        BY <3>1, <3>4
      <4>2. Inside' = {} /\ ~Odd(Len(logtext[logfile]))
        BY <2>0, <3>1, <3>2, <4>1 DEF OneInside
      <4>3. \A f \in 0 .. MaxFiles : ~Odd(Len(logtext[f]))
        BY <2>0, <4>1, <4>2 DEF OneInside
      <4>4. QED
        BY <3>1, <4>2, <4>3 DEF OneInside
    <3>5. QED
      BY <3>3, <3>4 DEF LogInv, OneInside
  <2>7. ASSUME NEW t \in Loggers, log_to(t) PROVE LogInv'
    <3>1. /\ UNCHANGED <<lmutex, logfile, logtext, stuck>> /\ opened < MaxFiles
          /\ opened' = opened + 1 /\ moved' = (moved \/ Inside # {} \/ Moving # {})
          /\ gpc[t] = "idle" /\ gpc' = [gpc EXCEPT ![t] = "open"]
      BY <2>7 DEF log_to, Goto
    <3>2. Inside' = Inside
      BY <2>a, <3>1 DEF Inside
    <3>3. LogTypes' /\ LinesWhole'
      BY <2>0, <2>a, <3>1 DEF LogTypes, LinesWhole
    <3>4. ASSUME ~moved', ~stuck' PROVE OneInside'
      BY <2>0, <3>1, <3>2, <3>4 DEF OneInside
    <3>5. QED
      BY <3>3, <3>4 DEF LogInv, OneInside
  <2>8. ASSUME NEW t \in Loggers, log_to_open(t) PROVE LogInv'
    <3>1. /\ UNCHANGED <<lmutex, logtext, opened, moved, stuck>> /\ logfile' \in {opened, 0}
          /\ gpc[t] = "open" /\ gpc' = [gpc EXCEPT ![t] = "idle"]
      BY <2>8 DEF log_to_open, Goto
    <3>2. Inside' = Inside /\ t \in Moving
      BY <2>a, <3>1 DEF Inside, Moving
    <3>3. LogTypes' /\ LinesWhole'
      BY <2>0, <2>a, <3>1 DEF LogTypes, LinesWhole
    <3>4. ASSUME ~moved', ~stuck' PROVE OneInside'
      <4>1. Inside = {}
        BY <2>0, <3>1, <3>2, <3>4 DEF OneInside
      <4>2. \A f \in 0 .. MaxFiles : ~Odd(Len(logtext[f]))
        BY <2>0, <3>1, <3>4, <4>1 DEF OneInside
      <4>3. QED
        BY <3>1, <3>2, <4>1, <4>2 DEF OneInside
    <3>5. QED
      BY <3>3, <3>4 DEF LogInv, OneInside
  <2>9. ASSUME NEW t \in Loggers, SignalInside(t) PROVE LogInv'
    <3>1. /\ UNCHANGED <<lmutex, logfile, opened, logtext, moved>> /\ stuck' = TRUE
          /\ gpc' = [gpc EXCEPT ![t] = "thrown"]
      BY <2>9 DEF SignalInside, Goto
    <3>2. LogTypes'
      BY <2>0, <2>a, <3>1 DEF LogTypes
    <3>3. QED
      BY <3>1, <3>2 DEF LogInv, OneInside, LinesWhole, Odd
  <2>10. QED
    BY <2>1, <2>2, <2>3, <2>4, <2>5, <2>6, <2>7, <2>8, <2>9 DEF LogNext, LogStep
<1>3. LogInv => LinesWhole
  BY DEF LogInv
<1>4. QED
  BY <1>1, <1>2, <1>3, PTL DEF LogSpec

-----------------------------------------------------------------------------
(* The result objects of the database: variables' types.                   *)
PgTypes ==
  /\ conn \in {"none", "open", "null", "freed"}
  /\ res \in {"none", "live", "null", "freed"}
  /\ cursor \in Nat /\ tuples \in Nat /\ got \in Seq(Nat)
  /\ cleared \in BOOLEAN /\ nested \in BOOLEAN /\ threw \in BOOLEAN

(* An object that libpq still owns has not been released; a result that    *)
(* had rows and is gone has.                                               *)
Releases ==
  /\ clears \in {0, 1} /\ finishes \in {0, 1}
  /\ res \in {"none", "live"} => clears = 0
  /\ res \in {"null", "freed"} /\ tuples > 0 => clears = 1
  /\ conn \in {"none", "open"} => finishes = 0

(* Loops run over a result that exists, nothing has happened before there  *)
(* is one, and unless the program called pg-clear a result is released     *)
(* when its cursor has passed the rows.                                    *)
InUse ==
  /\ frames # <<>> => res \in {"live", "null"}
  /\ res = "none" => cursor = 0 /\ tuples = 0 /\ got = <<>> /\ mapped = {}
  /\ ~cleared /\ res = "null" => cursor >= tuples

LastRow == IF got = <<>> THEN 0 ELSE got[Len(got)]

(* The rows a loop that began at a cursor has collected, the last first.   *)
Bag(c, from) == [i \in 1 .. c + 1 - from |-> c + 2 - i]
Frame(k, from, bag) == [kind |-> k, from |-> from, bag |-> bag, depth |-> 0]
OneFrame(k, from, row, bag) == <<Frame(k, from, <<row>> \o bag)>>

InOrder ==
  \A i \in 1 .. Len(got) :
    \/ got[i] = (IF i = 1 THEN 0 ELSE got[i - 1]) + 1
    \/ threw /\ got[i] = (IF i = 1 THEN 0 ELSE got[i - 1])

(* Where a program that neither nests uses of a result nor clears it is:   *)
(* between calls, with the row before the cursor delivered last, or after  *)
(* a throw the row under it; or in one loop, at the row under the cursor.  *)
AtRow ==
  \/ frames = <<>> /\ cursor = LastRow
  \/ frames = <<>> /\ threw /\ cursor + 1 = LastRow /\ cursor < tuples
  \/ /\ cursor + 1 = LastRow /\ cursor < tuples
     /\ \E k \in {"each", "map"}, from \in 0 .. cursor :
          frames = <<Frame(k, from, Bag(cursor, from))>>
Walk ==
  ~nested /\ ~cleared =>
    /\ cursor <= tuples /\ InOrder /\ MapComplete
    /\ res = "null" => LastRow = tuples
    /\ AtRow

PgInv == PgTypes /\ Releases /\ InUse /\ NoEmptyRows /\ Walk

(* A row more at the end of those delivered.                               *)
LEMMA RowMore ==
  ASSUME NEW s \in Seq(Nat), NEW r \in Nat
  PROVE  /\ Append(s, r) \in Seq(Nat) /\ Append(s, r) # <<>>
         /\ Len(Append(s, r)) = Len(s) + 1 /\ Len(s) \in Nat
         /\ \A i \in 1 .. Len(s) : Append(s, r)[i] = s[i]
         /\ Append(s, r)[Len(s) + 1] = r
         /\ Range(Append(s, r)) = Range(s) \cup {r}
<1> DEFINE p == Append(s, r)
<1>1. /\ p \in Seq(Nat) /\ p # <<>>
      /\ Len(p) = Len(s) + 1 /\ Len(s) \in Nat
      /\ \A i \in 1 .. Len(s) : p[i] = s[i]
      /\ p[Len(s) + 1] = r
      /\ DOMAIN p = 1 .. Len(s) + 1 /\ DOMAIN s = 1 .. Len(s)
  OBVIOUS
<1> HIDE DEF p
<1>2. Range(p) = Range(s) \cup {r}
  BY <1>1 DEF Range
<1>3. QED
  BY <1>1, <1>2 DEF p

(* The bag of a loop grows by the row under the cursor.                    *)
LEMMA BagStarts ==
  ASSUME NEW c \in Nat PROVE <<c + 1>> \o <<>> = Bag(c, c)
BY DEF Bag

(* A bag that has begun grows by the next row.                             *)
LEMMA BagGrows ==
  ASSUME NEW c \in Nat, NEW from \in 0 .. c
  PROVE  <<c + 2>> \o Bag(c, from) = Bag(c + 1, from)
<1> DEFINE b == Bag(c, from)  n == c + 1 - from
<1>1. n \in Nat /\ b \in Seq(Nat) /\ Len(b) = n
      /\ \A i \in 1 .. n : b[i] = c + 2 - i
  BY DEF Bag
<1> DEFINE p == <<c + 2>> \o b
<1> HIDE DEF b
<1>2. p \in Seq(Nat) /\ Len(p) = n + 1
  BY <1>1
<1>3. ASSUME NEW i \in 1 .. n + 1 PROVE p[i] = c + 3 - i
  BY <1>1
<1>4. (c + 1) + 1 - from = n + 1 /\ \A i \in 1 .. n + 1 : (c + 1) + 2 - i = c + 3 - i
  OBVIOUS
<1> HIDE DEF n, p
<1>5. p = [i \in 1 .. n + 1 |-> c + 3 - i]
  BY <1>2, <1>3
<1>6. QED
  BY <1>4, <1>5 DEF p, b, Bag

(* The reversed bag is the list of the rows, in order.                     *)
LEMMA BagReversed ==
  ASSUME NEW c \in Nat, NEW from \in 0 .. c
  PROVE  Reverse(Bag(c, from)) = [i \in 1 .. c + 1 - from |-> from + i]
<1> DEFINE b == Bag(c, from)  n == c + 1 - from
<1>1. n \in Nat /\ b \in Seq(Nat) /\ Len(b) = n
      /\ \A i \in 1 .. n : b[i] = c + 2 - i
  BY DEF Bag
<1> HIDE DEF b
<1>2. \A i \in 1 .. n : b[n - i + 1] = from + i
  BY <1>1
<1>3. QED
  BY <1>1, <1>2 DEF Reverse, b

(* The row that a reader hands out when the cursor is not at the end.      *)
LEMMA RowUnder ==
  ASSUME PgInv, NEW c \in Nat, c >= cursor, ~AtEnd(c), res \in {"live", "null"}
  PROVE  /\ build_row(c) \in Nat /\ c < tuples
         /\ ~cleared => build_row(c) = c + 1
<1>1. c < tuples /\ cursor \in Nat /\ tuples \in Nat
  BY DEF PgInv, PgTypes, AtEnd
<1>2. build_row(c) \in Nat
  BY DEF build_row, NoRow
<1>3. ~cleared => res = "live"
  BY <1>1 DEF PgInv, InUse
<1>4. QED
  BY <1>1, <1>2, <1>3 DEF build_row

(* What one reader or one turn of a loop does to the rows: it delivers the *)
(* row at c, or it has found the end of the result.                        *)
Delivers(c) == /\ ~AtEnd(c) /\ cursor' \in {c, c + 1}
               /\ got' = Append(got, build_row(c))
               /\ UNCHANGED <<res, clears>>
Ends(c) == /\ AtEnd(c) /\ cursor' = c /\ UNCHANGED got
           /\ Clear \/ UNCHANGED <<res, clears>>

(* Either way objects are released once and no row is empty.               *)
LEMMA RowsGo ==
  ASSUME PgInv, NEW c \in {cursor, cursor + 1}, res \in {"live", "null"},
         Delivers(c) \/ Ends(c),
         UNCHANGED <<conn, tuples, finishes, cleared>>,
         nested' \in BOOLEAN, threw' \in BOOLEAN
  PROVE  PgTypes' /\ Releases' /\ InUse' /\ NoEmptyRows'
<1>1. /\ PgTypes /\ Releases /\ InUse /\ NoEmptyRows
      /\ cursor \in Nat /\ tuples \in Nat /\ got \in Seq(Nat) /\ c \in Nat /\ c >= cursor
  BY DEF PgInv, PgTypes
<1>2. CASE Delivers(c)
  <2>1. /\ build_row(c) \in Nat /\ c < tuples
        /\ ~cleared => build_row(c) = c + 1
    BY <1>1, <1>2, RowUnder DEF Delivers
  <2>2. /\ got' \in Seq(Nat) /\ Range(got') = Range(got) \cup {build_row(c)}
        /\ cursor' \in Nat /\ cursor' >= cursor /\ res' = res /\ clears' = clears
    BY <1>1, <1>2, <2>1, RowMore DEF Delivers
  <2>3. NoEmptyRows'
    BY <1>1, <2>1, <2>2 DEF NoEmptyRows, NoRow
  <2>4. PgTypes' /\ Releases' /\ InUse'
    BY <1>1, <2>2 DEF PgTypes, Releases, InUse
  <2>5. QED
    BY <2>3, <2>4
<1>3. CASE Ends(c)
  <2>1. cursor' = c /\ got' = got /\ c >= tuples
        /\ \/ clears' = clears + (IF res = "live" THEN 1 ELSE 0) /\ res' = "null"
           \/ clears' = clears /\ res' = res
    BY <1>3 DEF Ends, AtEnd, Clear
  <2>2. QED
    BY <1>1, <2>1 DEF PgTypes, Releases, InUse, NoEmptyRows
<1>4. QED
  BY <1>2, <1>3

(* A loop delivers a row or ends.                                          *)
LEMMA LoopGoes ==
  ASSUME NEW c, NEW f, Loop(c, f)
  PROVE  Delivers(c) \/ Ends(c)
BY DEF Loop, Delivers, Ends

(* All but the walk of a well-behaved program is preserved.                *)
LEMMA PgStep ==
  ASSUME PgInv, [PgNext]_pgVars
  PROVE  PgTypes' /\ Releases' /\ InUse' /\ NoEmptyRows'
<1>1. PgTypes /\ Releases /\ InUse /\ NoEmptyRows
  BY DEF PgInv
<1>2. CASE UNCHANGED pgVars
  BY <1>1, <1>2 DEF pgVars, PgTypes, Releases, InUse, NoEmptyRows
<1>3. CASE pg_open_primitive
  BY <1>1, <1>3 DEF pg_open_primitive, resVars, PgTypes, Releases, InUse, NoEmptyRows
<1>4. CASE pg_close \/ free_pg_conn
  <2>1. /\ conn \in {"open", "null"} /\ conn' \in {"null", "freed"}
        /\ finishes' = finishes + (IF conn = "open" THEN 1 ELSE 0)
        /\ UNCHANGED resVars
    BY <1>4 DEF pg_close, free_pg_conn, Finish
  <2>2. QED
    BY <1>1, <2>1 DEF resVars, PgTypes, Releases, InUse, NoEmptyRows
<1>5. CASE pg_exec
  <2>1. /\ res = "none" /\ UNCHANGED <<conn, cursor, frames, got, mapped, clears, finishes,
                                        cleared, nested, threw>>
        /\ tuples' \in Nat /\ (res' = "live" \/ (res' = "null" /\ tuples' = 0))
    BY <1>5, PgConstantsOK DEF pg_exec
  <2>2. QED
    BY <1>1, <2>1 DEF PgTypes, Releases, InUse, NoEmptyRows
<1>6. CASE pg_get_row \/ pg_next_row
  <2>1. /\ res \in {"live", "null"}
        /\ Delivers(cursor) \/ Ends(cursor)
        /\ UNCHANGED <<conn, tuples, finishes, cleared>>
        /\ nested' \in BOOLEAN /\ threw' \in BOOLEAN
    BY <1>1, <1>6
       DEF pg_get_row, pg_next_row, UseResult, NextRow, Delivers, Ends, Clear, PgTypes
  <2>2. QED
    BY <2>1, RowsGo
<1>7. CASE pg_clear
  <2>1. /\ res \in {"live", "null"} /\ UNCHANGED <<conn, tuples, finishes, threw, cursor, got>>
        /\ clears' = clears + (IF res = "live" THEN 1 ELSE 0) /\ res' = "null"
        /\ cleared' = TRUE /\ nested' \in BOOLEAN
    BY <1>1, <1>7 DEF pg_clear, UseResult, Clear, PgTypes
  <2>2. QED
    BY <1>1, <2>1 DEF PgTypes, Releases, InUse, NoEmptyRows
<1>8. CASE pg_each_row \/ pg_map_rows
  <2>1. /\ res \in {"live", "null"}
        /\ Delivers(cursor) \/ Ends(cursor)
        /\ UNCHANGED <<conn, tuples, finishes, cleared>>
        /\ nested' \in BOOLEAN /\ threw' \in BOOLEAN
    BY <1>1, <1>8, LoopGoes DEF pg_each_row, pg_map_rows, UseResult, PgTypes
  <2>2. QED
    BY <2>1, RowsGo
<1>9. CASE FunctionReturns
  <2>1. /\ res \in {"live", "null"}
        /\ Delivers(cursor + 1) \/ Ends(cursor + 1)
        /\ UNCHANGED <<conn, tuples, finishes, cleared>>
        /\ nested' \in BOOLEAN /\ threw' \in BOOLEAN
    BY <1>1, <1>9, LoopGoes DEF FunctionReturns, InUse, PgTypes
  <2>2. QED
    BY <2>1, RowsGo
<1>10. CASE FunctionThrows
  BY <1>1, <1>10 DEF FunctionThrows, PgTypes, Releases, InUse, NoEmptyRows
<1>11. CASE free_pg_res
  BY <1>1, <1>11 DEF free_pg_res, PgTypes, Releases, InUse, NoEmptyRows
<1>12. QED
  BY <1>2, <1>3, <1>4, <1>5, <1>6, <1>7, <1>8, <1>9, <1>10, <1>11 DEF PgNext

(* One turn of the outermost loop.                                         *)
LEMMA LoopShape ==
  ASSUME NEW k, NEW from, NEW bag, NEW c, Loop(c, Frame(k, from, bag))
  PROVE  /\ cursor' = c
         /\ \/ /\ ~AtEnd(c) /\ got' = Append(got, build_row(c))
               /\ frames' = OneFrame(k, from, build_row(c), bag)
               /\ UNCHANGED <<res, mapped>>
            \/ /\ AtEnd(c) /\ res' = "null" /\ frames' = <<>> /\ UNCHANGED got
               /\ mapped' \in {mapped, mapped \cup {[from |-> from, rows |-> Reverse(bag)]}}
<1> DEFINE f == Frame(k, from, bag)
<1>1. f.depth = 0 /\ f.bag = bag /\ f.from = from
  BY DEF Frame
<1>2. \A y : [f EXCEPT !.bag = y] = Frame(k, from, y)
  BY DEF Frame
<1> HIDE DEF f
<1>3. SubSeq(frames, 1, 0) = <<>>
  OBVIOUS
<1>4. \A x : Append(<<>>, x) = <<x>>
  OBVIOUS
<1>5. Loop(c, f)
  BY DEF f
<1>6. QED
  <2>1. CASE AtEnd(c)
    BY <1>1, <1>3, <1>5, <2>1 DEF Loop, Clear
  <2>2. CASE ~AtEnd(c)
    <3>1. /\ cursor' = c /\ got' = Append(got, build_row(c))
          /\ frames' = Append(SubSeq(frames, 1, f.depth),
                              [f EXCEPT !.bag = <<build_row(c)>> \o f.bag])
          /\ UNCHANGED <<res, mapped>>
      BY <1>5, <2>2 DEF Loop
    <3>2. frames' = <<Frame(k, from, <<build_row(c)>> \o bag)>>
      BY <1>1, <1>2, <1>3, <1>4, <3>1
    <3>3. QED
      BY <2>2, <3>1, <3>2 DEF OneFrame
  <2>3. QED
    BY <2>1, <2>2

(* Row c + 1 follows the last row, or after a throw repeats it.            *)
LEMMA NextInOrder ==
  ASSUME PgTypes, InOrder, NEW c \in Nat, got' = Append(got, c + 1), threw' = threw,
         LastRow = c \/ (threw /\ LastRow = c + 1)
  PROVE  InOrder' /\ LastRow' = c + 1
<1>1. /\ got' # <<>> /\ Len(got') = Len(got) + 1 /\ Len(got) \in Nat
      /\ \A i \in 1 .. Len(got) : got'[i] = got[i]
      /\ got'[Len(got) + 1] = c + 1 /\ (got # <<>> <=> Len(got) # 0)
  BY RowMore DEF PgTypes
<1>2. LastRow' = c + 1
  BY <1>1 DEF LastRow
<1>3. ASSUME NEW i \in 1 .. Len(got')
      PROVE  \/ got'[i] = (IF i = 1 THEN 0 ELSE got'[i - 1]) + 1
             \/ threw' /\ got'[i] = (IF i = 1 THEN 0 ELSE got'[i - 1])
  <2>1. CASE i \in 1 .. Len(got)
    <3>1. got'[i] = got[i] /\ (i # 1 => got'[i - 1] = got[i - 1])
      BY <1>1, <2>1
    <3>2. QED
      BY <2>1, <3>1 DEF InOrder
  <2>2. CASE i = Len(got) + 1
    <3>1. LastRow = IF i = 1 THEN 0 ELSE got'[i - 1]
      BY <1>1, <2>2 DEF LastRow
    <3>2. QED
      BY <1>1, <2>2, <3>1
  <2>3. QED
    BY <1>1, <2>1, <2>2
<1>4. QED
  BY <1>2, <1>3 DEF InOrder

(* A list that pg-map-rows returned joins the others.                      *)
LEMMA MapMore ==
  ASSUME MapComplete, ~nested, ~cleared, tuples' = tuples, NEW e,
         mapped' \in {mapped, mapped \cup {e}},
         e.rows = [i \in 1 .. tuples - e.from |-> e.from + i]
  PROVE  MapComplete'
<1>1. \A m \in mapped : m.rows = [i \in 1 .. tuples - m.from |-> m.from + i]
  BY DEF MapComplete
<1>2. \A m \in mapped' : m \in mapped \/ m = e
  OBVIOUS
<1>3. \A m \in mapped' : m.rows = [i \in 1 .. tuples - m.from |-> m.from + i]
  BY <1>1, <1>2
<1>4. QED
  BY <1>3 DEF MapComplete

(* A well-behaved program's walk goes on.                                  *)
LEMMA WalkStep ==
  ASSUME PgInv, [PgNext]_pgVars
  PROVE  Walk'
<1> SUFFICES ASSUME ~nested', ~cleared'
             PROVE  /\ cursor' <= tuples' /\ InOrder' /\ MapComplete'
                    /\ res' = "null" => LastRow' = tuples'
                    /\ AtRow'
  BY DEF Walk
<1>1. PgTypes /\ InUse /\ Walk /\ cursor \in Nat /\ tuples \in Nat /\ got \in Seq(Nat)
  BY DEF PgInv, PgTypes
<1>2. CASE UNCHANGED pgVars
  BY <1>1, <1>2 DEF pgVars, Walk, InOrder, MapComplete, LastRow, AtRow
<1>3. CASE pg_open_primitive \/ pg_close \/ free_pg_conn
  <2>1. UNCHANGED resVars
    BY <1>3 DEF pg_open_primitive, pg_close, free_pg_conn
  <2>2. QED
    BY <1>1, <2>1 DEF resVars, Walk, InOrder, MapComplete, LastRow, AtRow
<1>4. CASE pg_exec
  <2>1. /\ res = "none" /\ UNCHANGED <<cursor, frames, got, mapped, cleared, nested, threw>>
        /\ tuples' \in Nat /\ (res' = "live" \/ (res' = "null" /\ tuples' = 0))
    BY <1>4, PgConstantsOK DEF pg_exec
  <2>2. cursor = 0 /\ got = <<>> /\ mapped = {} /\ frames = <<>>
    BY <1>1, <2>1 DEF InUse
  <2>3. Len(got') = 0 /\ LastRow' = 0
    BY <2>1, <2>2 DEF LastRow
  <2>4. InOrder' /\ MapComplete'
    BY <2>1, <2>2, <2>3 DEF InOrder, MapComplete
  <2>5. QED
    BY <2>1, <2>2, <2>3, <2>4 DEF AtRow
<1>5. CASE pg_get_row \/ pg_next_row
  <2>1. /\ res \in {"live", "null"} /\ frames = <<>> /\ ~nested /\ ~cleared
        /\ UNCHANGED <<tuples, frames, mapped, threw>>
        /\ \/ /\ AtEnd(cursor) /\ UNCHANGED <<got, cursor>>
           \/ /\ ~AtEnd(cursor) /\ UNCHANGED res
              /\ got' = Append(got, build_row(cursor)) /\ cursor' = cursor + 1
    <3>1. nested' = (nested \/ frames # <<>>) /\ cleared' = cleared
      BY <1>5 DEF pg_get_row, pg_next_row, UseResult, NextRow
    <3>2. frames = <<>> /\ ~nested /\ ~cleared
      BY <3>1
    <3>3. QED
      BY <1>5, <3>2 DEF pg_get_row, pg_next_row, UseResult, NextRow
  <2>2. /\ cursor <= tuples /\ InOrder /\ MapComplete /\ AtRow
        /\ res = "null" => LastRow = tuples
    BY <1>1, <2>1 DEF Walk
  <2>3. LastRow = cursor \/ (threw /\ LastRow = cursor + 1 /\ cursor < tuples)
    BY <2>1, <2>2 DEF AtRow, Frame
  <2>4. MapComplete'
    BY <2>1, <2>2 DEF MapComplete
  <2>5. CASE AtEnd(cursor) /\ UNCHANGED <<got, cursor>>
    <3>1. LastRow' = LastRow /\ LastRow = cursor /\ cursor = tuples
      BY <1>1, <2>2, <2>3, <2>5 DEF LastRow, AtEnd
    <3>2. InOrder'
      BY <2>1, <2>2, <2>5 DEF InOrder
    <3>3. QED
      BY <1>1, <2>1, <2>4, <2>5, <3>1, <3>2 DEF AtRow
  <2>6. CASE /\ ~AtEnd(cursor) /\ UNCHANGED res
             /\ got' = Append(got, build_row(cursor)) /\ cursor' = cursor + 1
    <3>1. build_row(cursor) = cursor + 1 /\ cursor < tuples
      BY <1>1, <2>1, <2>6, RowUnder
    <3>2. InOrder' /\ LastRow' = cursor + 1
      BY <1>1, <2>1, <2>2, <2>3, <2>6, <3>1, NextInOrder
    <3>3. res' # "null"
      BY <1>1, <2>1, <2>6, <3>1 DEF InUse
    <3>4. QED
      BY <1>1, <2>1, <2>4, <2>6, <3>1, <3>2, <3>3 DEF AtRow
  <2>7. QED
    BY <2>1, <2>5, <2>6
<1>6. CASE pg_clear
  BY <1>6 DEF pg_clear
<1>7. CASE pg_each_row \/ pg_map_rows
  <2>1. /\ res \in {"live", "null"} /\ frames = <<>> /\ ~nested /\ ~cleared
        /\ UNCHANGED <<tuples, threw>>
        /\ \E k \in {"each", "map"} :
             Loop(cursor, [kind |-> k, from |-> cursor, bag |-> <<>>, depth |-> Len(frames)])
    <3>1. nested' = (nested \/ frames # <<>>) /\ cleared' = cleared
      BY <1>7 DEF pg_each_row, pg_map_rows, UseResult
    <3>2. frames = <<>> /\ ~nested /\ ~cleared
      BY <3>1
    <3>3. QED
      BY <1>7, <3>2 DEF pg_each_row, pg_map_rows, UseResult
  <2>2. PICK k \in {"each", "map"} : Loop(cursor, Frame(k, cursor, <<>>))
    <3>1. Len(frames) = 0
      BY <2>1
    <3>2. QED
      BY <2>1, <3>1 DEF Frame
  <2>3. /\ cursor <= tuples /\ InOrder /\ MapComplete /\ AtRow
        /\ res = "null" => LastRow = tuples
    BY <1>1, <2>1 DEF Walk
  <2>4. LastRow = cursor \/ (threw /\ LastRow = cursor + 1 /\ cursor < tuples)
    BY <2>1, <2>3 DEF AtRow, Frame
  <2>5. CASE AtEnd(cursor)
    <3>1. /\ cursor' = cursor /\ frames' = <<>> /\ got' = got
          /\ mapped' \in {mapped, mapped \cup {[from |-> cursor, rows |-> Reverse(<<>>)]}}
      BY <2>2, <2>5, LoopShape
    <3>2. LastRow' = LastRow /\ LastRow = cursor /\ cursor = tuples
      BY <1>1, <2>3, <2>4, <2>5, <3>1 DEF LastRow, AtEnd
    <3>3. InOrder'
      BY <2>1, <2>3, <3>1 DEF InOrder
    <3>4. Reverse(<<>>) = [i \in 1 .. tuples - cursor |-> cursor + i]
      BY <1>1, <3>2 DEF Reverse
    <3>5. MapComplete'
      <4> DEFINE e == [from |-> cursor, rows |-> Reverse(<<>>)]
      <4>1. /\ e.from = cursor /\ e.rows = Reverse(<<>>)
            /\ mapped' \in {mapped, mapped \cup {e}} /\ tuples' = tuples
        BY <2>1, <3>1
      <4> HIDE DEF e
      <4>2. e.rows = [i \in 1 .. tuples - e.from |-> e.from + i]
        BY <3>4, <4>1
      <4>3. QED
        BY <2>1, <2>3, <4>1, <4>2, MapMore
    <3>6. QED
      BY <1>1, <2>1, <3>1, <3>2, <3>3, <3>5 DEF AtRow
  <2>6. CASE ~AtEnd(cursor)
    <3>1. /\ cursor' = cursor /\ got' = Append(got, build_row(cursor))
          /\ frames' = OneFrame(k, cursor, build_row(cursor), <<>>)
          /\ UNCHANGED <<res, mapped>>
      BY <2>2, <2>6, LoopShape
    <3>2. build_row(cursor) = cursor + 1 /\ cursor < tuples
      BY <1>1, <2>1, <2>6, RowUnder
    <3>3. InOrder' /\ LastRow' = cursor + 1
      BY <1>1, <2>1, <2>3, <2>4, <3>1, <3>2, NextInOrder
    <3>4. res' # "null"
      BY <1>1, <2>1, <3>1, <3>2 DEF InUse
    <3>5. frames' = <<Frame(k, cursor, Bag(cursor, cursor))>> /\ cursor \in 0 .. cursor
      <4>1. <<cursor + 1>> \o <<>> = Bag(cursor, cursor)
        BY <1>1, BagStarts
      <4>2. frames' = <<Frame(k, cursor, Bag(cursor, cursor))>>
        BY <3>1, <3>2, <4>1 DEF OneFrame
      <4>3. QED
        BY <1>1, <4>2
    <3>6. MapComplete'
      BY <2>1, <2>3, <3>1 DEF MapComplete
    <3>7. QED
      BY <1>1, <2>1, <3>1, <3>2, <3>3, <3>4, <3>5, <3>6 DEF AtRow
  <2>7. QED
    BY <2>5, <2>6
<1>8. CASE FunctionReturns
  <2>1. /\ frames # <<>> /\ Loop(cursor + 1, Last(frames)) /\ ~nested /\ ~cleared
        /\ UNCHANGED <<tuples, threw>>
    BY <1>8 DEF FunctionReturns
  <2>2. /\ cursor <= tuples /\ InOrder /\ MapComplete /\ AtRow
    BY <1>1, <2>1 DEF Walk
  <2>3. LastRow = cursor + 1 /\ cursor < tuples
    BY <2>1, <2>2 DEF AtRow
  <2>4. PICK k \in {"each", "map"}, from \in 0 .. cursor :
          frames = <<Frame(k, from, Bag(cursor, from))>>
    BY <2>1, <2>2 DEF AtRow
  <2>5. Loop(cursor + 1, Frame(k, from, Bag(cursor, from)))
    BY <2>1, <2>4 DEF Last
  <2>6. CASE AtEnd(cursor + 1)
    <3>1. /\ cursor' = cursor + 1 /\ frames' = <<>> /\ got' = got
          /\ mapped' \in {mapped, mapped \cup {[from |-> from,
                                                rows |-> Reverse(Bag(cursor, from))]}}
      BY <2>5, <2>6, LoopShape
    <3>2. LastRow' = LastRow /\ cursor + 1 = tuples
      BY <1>1, <2>3, <2>6, <3>1 DEF LastRow, AtEnd
    <3>3. InOrder'
      BY <2>1, <2>2, <3>1 DEF InOrder
    <3>4. Reverse(Bag(cursor, from)) = [i \in 1 .. tuples - from |-> from + i]
      BY <1>1, <3>2, BagReversed
    <3>5. MapComplete'
      <4> DEFINE e == [from |-> from, rows |-> Reverse(Bag(cursor, from))]
      <4>1. /\ e.from = from /\ e.rows = Reverse(Bag(cursor, from))
            /\ mapped' \in {mapped, mapped \cup {e}} /\ tuples' = tuples
        BY <2>1, <3>1
      <4> HIDE DEF e
      <4>2. e.rows = [i \in 1 .. tuples - e.from |-> e.from + i]
        BY <3>4, <4>1
      <4>3. QED
        BY <2>1, <2>2, <4>1, <4>2, MapMore
    <3>6. QED
      BY <1>1, <2>1, <2>3, <3>1, <3>2, <3>3, <3>5 DEF AtRow
  <2>7. CASE ~AtEnd(cursor + 1)
    <3>0. res \in {"live", "null"} /\ cursor + 1 \in Nat /\ cursor + 1 >= cursor
      BY <1>1, <2>1 DEF InUse
    <3>1. /\ cursor' = cursor + 1 /\ got' = Append(got, build_row(cursor + 1))
          /\ frames' = OneFrame(k, from, build_row(cursor + 1), Bag(cursor, from))
          /\ UNCHANGED <<res, mapped>>
      BY <2>5, <2>7, LoopShape
    <3>2. build_row(cursor + 1) = (cursor + 1) + 1 /\ cursor + 1 < tuples
      BY <1>1, <2>1, <2>7, <3>0, RowUnder
    <3>3. InOrder' /\ LastRow' = (cursor + 1) + 1
      BY <1>1, <2>1, <2>2, <2>3, <3>0, <3>1, <3>2, NextInOrder
    <3>4. res' # "null"
      BY <1>1, <2>1, <2>3, <3>1 DEF InUse
    <3>5. frames' = <<Frame(k, from, Bag(cursor + 1, from))>> /\ from \in 0 .. cursor + 1
      <4>1. build_row(cursor + 1) = cursor + 2
        BY <1>1, <3>2
      <4>2. <<cursor + 2>> \o Bag(cursor, from) = Bag(cursor + 1, from)
        BY <1>1, BagGrows
      <4>3. frames' = <<Frame(k, from, Bag(cursor + 1, from))>>
        BY <3>1, <4>1, <4>2 DEF OneFrame
      <4>4. QED
        BY <1>1, <4>3
    <3>6. MapComplete'
      BY <2>1, <2>2, <3>1 DEF MapComplete
    <3>7. QED
      BY <1>1, <2>1, <3>1, <3>2, <3>3, <3>4, <3>5, <3>6 DEF AtRow
  <2>8. QED
    BY <2>6, <2>7
<1>9. CASE FunctionThrows
  <2>1. /\ frames # <<>> /\ ~nested /\ ~cleared /\ threw' = TRUE
        /\ \E d \in 0 .. Len(frames) - 1 : frames' = SubSeq(frames, 1, d)
        /\ UNCHANGED <<res, cursor, tuples, got, mapped>>
    BY <1>9 DEF FunctionThrows
  <2>2. /\ cursor <= tuples /\ InOrder /\ MapComplete /\ AtRow
        /\ res = "null" => LastRow = tuples
    BY <1>1, <2>1 DEF Walk
  <2>3. LastRow = cursor + 1 /\ cursor < tuples /\ Len(frames) = 1
    BY <2>1, <2>2 DEF AtRow
  <2>4. frames' = <<>>
    BY <2>1, <2>3
  <2>5. LastRow' = LastRow /\ InOrder' /\ MapComplete'
    BY <2>1, <2>2 DEF LastRow, InOrder, MapComplete
  <2>6. QED
    BY <1>1, <2>1, <2>2, <2>3, <2>4, <2>5 DEF AtRow
<1>10. CASE free_pg_res
  <2>1. /\ res' = "freed"
        /\ UNCHANGED <<cursor, tuples, frames, got, mapped, nested, cleared, threw>>
    BY <1>10 DEF free_pg_res
  <2>2. QED
    BY <1>1, <2>1 DEF Walk, InOrder, MapComplete, LastRow, AtRow
<1>11. QED
  BY <1>2, <1>3, <1>4, <1>5, <1>6, <1>7, <1>8, <1>9, <1>10 DEF PgNext

(* However a program mixes the readers, throws, clears, closes and lets    *)
(* the collector run, every row is delivered, in order and with its        *)
(* values, pg-map-rows answers with all of them, and what libpq allocated  *)
(* is released once; for any number of rows and calls.                     *)
THEOREM Rows == PgSpec => []RowsDelivered
<1>1. PgInit => PgInv
  <2> SUFFICES ASSUME PgInit PROVE PgInv
    OBVIOUS
  <2>1. PgTypes /\ Releases /\ InUse
    <3>1. PgTypes
      <4>1. <<>> \in Seq(Nat)
        OBVIOUS
      <4>2. QED
        BY <4>1 DEF PgInit, PgTypes
    <3>2. Releases
      BY DEF PgInit, Releases
    <3>3. QED
      BY <3>1, <3>2 DEF PgInit, InUse
  <2>2. got = <<>> /\ Len(got) = 0 /\ mapped = {}
    BY DEF PgInit
  <2>3. NoEmptyRows
    BY <2>2 DEF NoEmptyRows, Range
  <2>4. InOrder /\ MapComplete /\ LastRow = 0
    BY <2>2 DEF InOrder, MapComplete, LastRow
  <2>5. Walk
    BY <2>4 DEF PgInit, Walk, AtRow
  <2>6. QED
    BY <2>1, <2>3, <2>5 DEF PgInv
<1>2. PgInv /\ [PgNext]_pgVars => PgInv'
  BY PgStep, WalkStep DEF PgInv
<1>3. PgInv => RowsDelivered
  <2> SUFFICES ASSUME PgInv PROVE RowsDelivered
    OBVIOUS
  <2>1. ReleasedOnce
    BY DEF PgInv, Releases, ReleasedOnce
  <2>2. MapComplete
    BY DEF PgInv, Walk, MapComplete
  <2>3. NoRowLost
    <3> SUFFICES ASSUME ~nested, ~cleared
                 PROVE  /\ \A i \in 1 .. Len(got) :
                             LET before == IF i = 1 THEN 0 ELSE got[i - 1] IN
                             got[i] \in {before + 1} \cup (IF threw THEN {before} ELSE {})
                        /\ res = "null" => IF got = <<>> THEN tuples = 0
                                           ELSE Last(got) = tuples
      BY DEF NoRowLost
    <3>1. InOrder /\ (res = "null" => LastRow = tuples)
      BY DEF PgInv, Walk
    <3>2. QED
      BY <3>1 DEF InOrder, LastRow, Last
  <2>4. QED
    BY <2>1, <2>2, <2>3 DEF PgInv, RowsDelivered
<1>4. QED
  BY <1>1, <1>2, <1>3, PTL DEF PgSpec

-----------------------------------------------------------------------------
(* The head of a request: association lists.  The pair that assq-ref finds *)
(* is the first with the key.                                              *)
Newest(r, k, i) == /\ i \in 1 .. Len(r) /\ r[i].key = k
                   /\ \A j \in 1 .. i - 1 : r[j].key # k

(* assq_first is the value of the newest pair.                             *)
LEMMA Assq ==
  ASSUME NEW P, NEW r \in Seq(P), NEW k, NEW i, Newest(r, k, i)
  PROVE  assq_first(r, k) = r[i].val
<1> DEFINE m == CHOOSE x \in 1 .. Len(r) : /\ r[x].key = k
                                           /\ \A j \in 1 .. x - 1 : r[j].key # k
<1>1. i \in 1 .. Len(r) /\ r[i].key = k /\ \A j \in 1 .. i - 1 : r[j].key # k
  BY DEF Newest
<1>2. m \in 1 .. Len(r) /\ r[m].key = k /\ \A j \in 1 .. m - 1 : r[j].key # k
  BY <1>1
<1>3. assq_first(r, k) = r[m].val
  BY DEF assq_first
<1> HIDE DEF m
<1>4. ~(m < i) /\ ~(i < m) /\ Len(r) \in Nat
  BY <1>1, <1>2
<1>5. m = i
  BY <1>1, <1>2, <1>4
<1>6. QED
  BY <1>3, <1>5

(* There is a first pair with a key that some pair has.                    *)
LEMMA NewestIs ==
  ASSUME NEW P, NEW r \in Seq(P), NEW k, Has(r, k)
  PROVE  \E i : Newest(r, k, i)
<1> DEFINE T == {i \in 1 .. Len(r) : r[i].key = k}
<1>1. T # {} /\ T \subseteq Nat
  BY DEF Has
<1>2. PICK i \in T : \A y \in T : ~ (<<y, i>> \in OpToRel(<, Nat))
  BY <1>1, NatLessThanWellFounded, WFMin
<1>3. \A y \in T : ~(y < i)
  BY <1>1, <1>2 DEF OpToRel
<1>4. i \in 1 .. Len(r) /\ r[i].key = k /\ Len(r) \in Nat
  OBVIOUS
<1>5. \A j \in 1 .. i - 1 : r[j].key # k
  BY <1>3, <1>4
<1>6. QED
  BY <1>4, <1>5 DEF Newest

(* A pair in front of an association list hides those behind it.           *)
LEMMA AssqCons ==
  ASSUME NEW P, NEW r \in Seq(P), NEW e \in P, NEW k
  PROVE  /\ <<e>> \o r \in Seq(P)
         /\ Has(<<e>> \o r, k) <=> e.key = k \/ Has(r, k)
         /\ e.key = k => assq_first(<<e>> \o r, k) = e.val
         /\ e.key # k /\ Has(r, k) => assq_first(<<e>> \o r, k) = assq_first(r, k)
<1> DEFINE p == <<e>> \o r
<1>1. p \in Seq(P) /\ Len(p) = Len(r) + 1 /\ Len(r) \in Nat
  OBVIOUS
<1>2. p[1] = e /\ \A i \in 2 .. Len(p) : i - 1 \in 1 .. Len(r) /\ p[i] = r[i - 1]
  OBVIOUS
<1>3. \A i \in 1 .. Len(r) : i + 1 \in 2 .. Len(p) /\ p[i + 1] = r[i]
  OBVIOUS
<1> HIDE DEF p
<1>4. 1 \in 1 .. Len(p) /\ \A i \in 1 .. Len(p) : i = 1 \/ i \in 2 .. Len(p)
  BY <1>1
<1>5. \A i \in 2 .. Len(p) : i \in 1 .. Len(p)
  BY <1>1
<1>6. Has(p, k) <=> e.key = k \/ Has(r, k)
  BY <1>2, <1>3, <1>4, <1>5 DEF Has
<1>7. ASSUME e.key = k PROVE assq_first(p, k) = e.val
  <2>1. Newest(p, k, 1)
    BY <1>2, <1>4, <1>7 DEF Newest
  <2>2. QED
    BY <1>1, <1>2, <2>1, Assq
<1>8. ASSUME e.key # k, Has(r, k) PROVE assq_first(p, k) = assq_first(r, k)
  <2>1. PICK i : Newest(r, k, i)
    BY <1>8, NewestIs
  <2>2. i \in 1 .. Len(r) /\ r[i].key = k /\ \A j \in 1 .. i - 1 : r[j].key # k
    BY <2>1 DEF Newest
  <2>3. i + 1 \in 1 .. Len(p) /\ p[i + 1] = r[i]
    BY <1>3, <1>5, <2>2
  <2>4. ASSUME NEW j \in 1 .. (i + 1) - 1 PROVE p[j].key # k
    <3>1. CASE j = 1
      BY <1>2, <1>8, <3>1
    <3>2. CASE j # 1
      <4>1. j \in 2 .. Len(p) /\ j - 1 \in 1 .. i - 1
        BY <1>1, <2>2, <3>2
      <4>2. p[j] = r[j - 1]
        BY <1>2, <4>1
      <4>3. QED
        BY <2>2, <4>1, <4>2
    <3>3. QED
      BY <3>1, <3>2
  <2>5. Newest(p, k, i + 1)
    BY <2>2, <2>3, <2>4 DEF Newest
  <2>6. assq_first(p, k) = p[i + 1].val
    BY <1>1, <2>5, Assq
  <2>7. assq_first(r, k) = r[i].val
    BY <2>1, Assq
  <2>8. QED
    BY <2>3, <2>6, <2>7
<1>9. QED
  BY <1>1, <1>6, <1>7, <1>8 DEF p

Names == HeaderNames \cup {"", "query-string", "url-path", "url", "method", "query",
                           "remote-port", "remote-host", "path-info", "session"}
Pairs == [key : Names, val : Int]
Always == {"remote-host", "remote-port", "query"}

(* A field in front of the request.                                        *)
LEMMA FieldCons ==
  ASSUME NEW r \in Seq(Pairs), NEW f \in Names, NEW v \in Int, NEW k
  PROVE  /\ Field(f, v) \o r \in Seq(Pairs)
         /\ Has(Field(f, v) \o r, k) <=> f = k \/ Has(r, k)
         /\ f = k => assq_first(Field(f, v) \o r, k) = v
         /\ f # k /\ Has(r, k) => assq_first(Field(f, v) \o r, k) = assq_first(r, k)
<1> DEFINE e == [key |-> f, val |-> v]
<1>1. e \in Pairs /\ e.key = f /\ e.val = v /\ Field(f, v) = <<e>>
  BY DEF Pairs, Field
<1> HIDE DEF e
<1>2. QED
  BY <1>1, AssqCons

(* Appending lists is associative.                                         *)
LEMMA Grouped ==
  ASSUME NEW S, NEW a \in Seq(S), NEW b \in Seq(S), NEW c \in Seq(S)
  PROVE  (a \o b) \o c = a \o (b \o c)
OBVIOUS

(* A field is a list of one pair.                                          *)
LEMMA AField ==
  ASSUME NEW f \in Names, NEW v \in Int
  PROVE  Field(f, v) \in Seq(Pairs) /\ Field(f, v) # <<>>
BY DEF Field, Pairs

(* What the server knows, and what run_responder adds, in front of the     *)
(* request, and timestamps.                                                *)
LEMMA KnownFirst ==
  ASSUME NEW r \in Seq(Pairs), NEW k
  PROVE  /\ WithKnown(r) \in Seq(Pairs)
         /\ k \in Always => Has(WithKnown(r), k) /\ assq_first(WithKnown(r), k) = Server
         /\ k \notin Always => /\ Has(WithKnown(r), k) <=> Has(r, k)
                               /\ Has(r, k) => assq_first(WithKnown(r), k) = assq_first(r, k)
<1> DEFINE fq == Field("query", Server)
           fp == Field("remote-port", Server)
           fh == Field("remote-host", Server)
           r1 == fh \o r
           r2 == fp \o r1
           r3 == fq \o r2
<1>0. /\ Server \in Int /\ "query" \in Names /\ "remote-port" \in Names
      /\ "remote-host" \in Names
  BY DEF Names, Server
<1>1. fq \in Seq(Pairs) /\ fp \in Seq(Pairs) /\ fh \in Seq(Pairs)
  BY <1>0, AField
<1>2. /\ r1 \in Seq(Pairs) /\ (Has(r1, k) <=> "remote-host" = k \/ Has(r, k))
      /\ "remote-host" = k => assq_first(r1, k) = Server
      /\ "remote-host" # k /\ Has(r, k) => assq_first(r1, k) = assq_first(r, k)
  BY <1>0, FieldCons
<1> HIDE DEF r1
<1>3. /\ r2 \in Seq(Pairs) /\ (Has(r2, k) <=> "remote-port" = k \/ Has(r1, k))
      /\ "remote-port" = k => assq_first(r2, k) = Server
      /\ "remote-port" # k /\ Has(r1, k) => assq_first(r2, k) = assq_first(r1, k)
  BY <1>0, <1>2, FieldCons
<1> HIDE DEF r2
<1>4. /\ r3 \in Seq(Pairs) /\ (Has(r3, k) <=> "query" = k \/ Has(r2, k))
      /\ "query" = k => assq_first(r3, k) = Server
      /\ "query" # k /\ Has(r2, k) => assq_first(r3, k) = assq_first(r2, k)
  BY <1>0, <1>3, FieldCons
<1> HIDE DEF r3
<1>5. WithKnown(r) = r3
  <2>1. WithKnown(r) = ((fq \o fp) \o fh) \o r
    BY DEF WithKnown, Known
  <2> HIDE DEF fq, fp, fh
  <2>2. fq \o fp \in Seq(Pairs)
    BY <1>1
  <2>3. ((fq \o fp) \o fh) \o r = (fq \o fp) \o (fh \o r)
    BY <1>1, <2>2, Grouped
  <2>4. (fq \o fp) \o r1 = fq \o (fp \o r1)
    BY <1>1, <1>2, Grouped
  <2>5. QED
    BY <2>1, <2>3, <2>4 DEF r1, r2, r3
<1>6. QED
  BY <1>2, <1>3, <1>4, <1>5 DEF Always

(* session and path-info are the server's once a handler is found; the     *)
(* other names keep their values.                                          *)
LEMMA HandlerFirst ==
  ASSUME NEW r \in Seq(Pairs), NEW k
  PROVE  LET q == Field("path-info", Server) \o Field("session", Server) \o r IN
         /\ q \in Seq(Pairs)
         /\ k \in {"path-info", "session"} => Has(q, k) /\ assq_first(q, k) = Server
         /\ k \notin {"path-info", "session"} =>
              /\ Has(q, k) <=> Has(r, k)
              /\ Has(r, k) => assq_first(q, k) = assq_first(r, k)
<1> DEFINE fp == Field("path-info", Server)
           fs == Field("session", Server)
           r1 == fs \o r
           r2 == fp \o r1
<1>0. Server \in Int /\ "path-info" \in Names /\ "session" \in Names
  BY DEF Names, Server
<1>1. fp \in Seq(Pairs) /\ fs \in Seq(Pairs)
  BY <1>0, AField
<1>2. /\ r1 \in Seq(Pairs) /\ (Has(r1, k) <=> "session" = k \/ Has(r, k))
      /\ "session" = k => assq_first(r1, k) = Server
      /\ "session" # k /\ Has(r, k) => assq_first(r1, k) = assq_first(r, k)
  BY <1>0, FieldCons
<1> HIDE DEF r1
<1>3. /\ r2 \in Seq(Pairs) /\ (Has(r2, k) <=> "path-info" = k \/ Has(r1, k))
      /\ "path-info" = k => assq_first(r2, k) = Server
      /\ "path-info" # k /\ Has(r1, k) => assq_first(r2, k) = assq_first(r1, k)
  BY <1>0, <1>2, FieldCons
<1>4. (fp \o fs) \o r = r2
  <2> HIDE DEF fp, fs
  <2>1. QED
    BY <1>1, Grouped DEF r1
<1> HIDE DEF r2
<1>5. /\ k \in {"path-info", "session"} => Has(r2, k) /\ assq_first(r2, k) = Server
      /\ k \notin {"path-info", "session"} =>
           /\ Has(r2, k) <=> Has(r, k)
           /\ Has(r, k) => assq_first(r2, k) = assq_first(r, k)
  BY <1>2, <1>3
<1>6. QED
  BY <1>3, <1>4, <1>5

(* A name has the value of its last header.                                *)
LastSaid(n) ==
  SaidHeaders(n) # {} =>
    /\ Has(request, n)
    /\ \E i \in SaidHeaders(n) : /\ \A j \in SaidHeaders(n) : j <= i
                                 /\ assq_first(request, n) = lines[i].val

HeadTypes == /\ request \in Seq(Pairs) /\ lines \in Seq(Pairs) /\ ended \in BOOLEAN
             /\ rpc \in {"read", "fields", "gone", "respond", "responder"}

(* Names that are the server's by now.                                     *)
Taken == IF rpc = "responder" THEN ServerNames
         ELSE IF rpc = "respond" THEN Always ELSE {}

(* While the head is read a name has its last header's value; nobody but   *)
(* run_responder says path-info with the server's value.                   *)
HeadInv ==
  /\ HeadTypes
  /\ ended => rpc # "read"
  /\ rpc = "read" => (request = <<>> <=> lines = <<>>)
  /\ \A n \in HeaderNames \ Taken : LastSaid(n)
  /\ rpc \in {"respond", "responder"} =>
       \A k \in Always : Has(request, k) /\ assq_first(request, k) = Server
  /\ rpc # "responder" => ~Handled
  /\ rpc = "responder" /\ Handled => assq_first(request, "session") = Server

(* A line more.                                                            *)
LEMMA OneLine ==
  ASSUME NEW S, NEW s \in Seq(S), NEW e \in S
  PROVE  Append(s, e) \in Seq(S) /\ Append(s, e) # <<>>
<1>1. Append(s, e) \in Seq(S) /\ Len(Append(s, e)) = Len(s) + 1 /\ Len(s) \in Nat
  OBVIOUS
<1>2. Len(<<>>) = 0
  OBVIOUS
<1>3. QED
  BY <1>1, <1>2

(* A line that is not a header changes no name's last header.              *)
LEMMA SaidSame ==
  ASSUME lines \in Seq(Pairs), NEW l \in Pairs, lines' = Append(lines, l),
         NEW n, n # l.key
  PROVE  /\ SaidHeaders(n)' = SaidHeaders(n)
         /\ \A i \in SaidHeaders(n) : lines'[i] = lines[i]
<1>1. /\ Len(lines') = Len(lines) + 1 /\ Len(lines) \in Nat
      /\ lines'[Len(lines) + 1] = l
      /\ \A i \in 1 .. Len(lines) : lines'[i] = lines[i]
  OBVIOUS
<1>2. \A i : i \in 1 .. Len(lines') <=> i \in 1 .. Len(lines) \/ i = Len(lines) + 1
  BY <1>1
<1>3. QED
  BY <1>1, <1>2 DEF SaidHeaders

(* A header becomes its name's last.                                       *)
LEMMA SaidMore ==
  ASSUME lines \in Seq(Pairs), NEW l \in Pairs, lines' = Append(lines, l)
  PROVE  /\ Len(lines) + 1 \in SaidHeaders(l.key)'
         /\ \A j \in SaidHeaders(l.key)' : j <= Len(lines) + 1
         /\ lines'[Len(lines) + 1] = l
<1>1. /\ Len(lines') = Len(lines) + 1 /\ Len(lines) \in Nat
      /\ lines'[Len(lines) + 1] = l
  OBVIOUS
<1>2. QED
  BY <1>1 DEF SaidHeaders

(* The names of the server are its own and every other name has its last   *)
(* header's value when the responder runs.                                 *)
LEMMA HeadStep ==
  ASSUME HeadInv, [HeadNext]_headVars
  PROVE  HeadInv'
<1>0. /\ HeadTypes /\ request \in Seq(Pairs) /\ lines \in Seq(Pairs)
      /\ Len(lines) \in Nat
  BY DEF HeadInv, HeadTypes
<1>1. CASE UNCHANGED headVars
  BY <1>1 DEF headVars, HeadInv, HeadTypes, Taken, ServerNames, Handled, LastSaid,
              SaidHeaders
<1>2. ASSUME NEW m \in {Post, Get}, start_request(m) PROVE HeadInv'
  <2> DEFINE l == [key |-> "", val |-> m]
  <2>1. /\ rpc = "read" /\ request = <<>> /\ lines' = Append(lines, l)
        /\ request' = Field("query-string", Line) \o Field("url-path", Line)
                      \o Field("url", Line) \o Field("method", m)
        /\ UNCHANGED <<rpc, ended>>
    BY <1>2 DEF start_request, HeadLine, Read
  <2>2. l \in Pairs /\ l.key = "" /\ m \in Int /\ Line \in Int
    BY DEF Pairs, Names, Post, Get, Line
  <2> HIDE DEF l
  <2>3. lines = <<>> /\ Taken' = {} /\ Taken = {} /\ ~ended
    BY <2>1 DEF HeadInv, HeadTypes, Taken
  <2>4. \A n \in HeaderNames : SaidHeaders(n)' = {}
    <3>1. \A n \in HeaderNames : SaidHeaders(n) = {}
      <4>1. Len(lines) = 0
        BY <2>3
      <4>2. QED
        BY <4>1 DEF SaidHeaders
    <3>2. QED
      BY <1>0, <2>1, <2>2, <3>1, SaidSame, HeaderNamesOK
  <2> DEFINE f1 == Field("query-string", Line)
             f2 == Field("url-path", Line)
             f3 == Field("url", Line)
             f4 == Field("method", m)
  <2>5. /\ f1 \in Seq(Pairs) /\ f1 # <<>> /\ f2 \in Seq(Pairs) /\ f3 \in Seq(Pairs)
        /\ f4 \in Seq(Pairs)
    <3>1. /\ "query-string" \in Names /\ "url-path" \in Names /\ "url" \in Names
          /\ "method" \in Names
      BY DEF Names
    <3>2. QED
      BY <2>2, <3>1, AField
  <2>6. request' = ((f1 \o f2) \o f3) \o f4
    BY <2>1
  <2>7. ~Has(request', "path-info")
    BY <2>6 DEF Has, Field
  <2> HIDE DEF f1, f2, f3, f4
  <2>8. request' \in Seq(Pairs) /\ request' # <<>>
    BY <2>5, <2>6
  <2>9. HeadTypes' /\ lines' # <<>>
    <3>1. Append(lines, l) \in Seq(Pairs) /\ Append(lines, l) # <<>>
      BY <1>0, <2>2, OneLine
    <3>2. QED
      BY <1>0, <2>1, <2>8, <3>1 DEF HeadTypes
  <2>10. ~Handled'
    BY <2>7 DEF Handled
  <2>11. QED
    BY <2>1, <2>3, <2>4, <2>8, <2>9, <2>10 DEF HeadInv, LastSaid
<1>3. ASSUME NEW n \in HeaderNames, NEW b \in BOOLEAN,
             header_line([name |-> n, capital |-> b])
      PROVE  HeadInv'
  <2> DEFINE l == [key |-> n, val |-> Len(lines)]
  <2>1. /\ rpc = "read" /\ request # <<>> /\ lines' = Append(lines, l)
        /\ request' = Field(n, Len(lines)) \o request
        /\ UNCHANGED <<rpc, ended>>
    BY <1>3 DEF header_line, HeadLine, Read, downcase
  <2>2. l \in Pairs /\ l.key = n /\ l.val = Len(lines) /\ n \in Names /\ Len(lines) \in Int
    <3>1. n \in Names
      BY DEF Names
    <3>2. Len(lines) \in Int
      BY <1>0
    <3>3. QED
      BY <3>1, <3>2 DEF Pairs, l
  <2> HIDE DEF l
  <2>3. /\ Taken' = {} /\ Taken = {} /\ ~ended /\ ~Handled
        /\ \A x \in HeaderNames : LastSaid(x)
    BY <2>1 DEF HeadInv, HeadTypes, Taken
  <2>4. \A k : /\ request' \in Seq(Pairs)
               /\ Has(request', k) <=> n = k \/ Has(request, k)
               /\ n = k => assq_first(request', k) = Len(lines)
               /\ n # k /\ Has(request, k) => assq_first(request', k) = assq_first(request, k)
    <3> DEFINE v == Len(lines)
    <3>1. v \in Int /\ request' = Field(n, v) \o request
      BY <2>1, <2>2
    <3> HIDE DEF v
    <3>2. ASSUME NEW k
          PROVE  /\ request' \in Seq(Pairs)
                 /\ Has(request', k) <=> n = k \/ Has(request, k)
                 /\ n = k => assq_first(request', k) = v
                 /\ n # k /\ Has(request, k) => assq_first(request', k)
                                               = assq_first(request, k)
      BY <1>0, <2>2, <3>1, FieldCons
    <3>3. QED
      BY <3>2 DEF v
  <2>5. request' # <<>>
    BY <1>0, <2>1 DEF Field
  <2>6. ASSUME NEW x \in HeaderNames PROVE LastSaid(x)'
    <3>1. CASE x = n
      <4>1. /\ Len(lines) + 1 \in SaidHeaders(x)'
            /\ \A j \in SaidHeaders(x)' : j <= Len(lines) + 1
            /\ lines'[Len(lines) + 1].val = Len(lines)
        BY <1>0, <2>1, <2>2, <3>1, SaidMore
      <4>2. Has(request', x) /\ assq_first(request', x) = Len(lines)
        BY <2>4, <3>1
      <4>3. QED
        BY <4>1, <4>2 DEF LastSaid
    <3>2. CASE x # n
      <4>1. /\ SaidHeaders(x)' = SaidHeaders(x)
            /\ \A i \in SaidHeaders(x) : lines'[i] = lines[i]
        BY <1>0, <2>1, <2>2, <3>2, SaidSame
      <4>2. QED
        BY <2>3, <2>4, <3>2, <4>1 DEF LastSaid
    <3>3. QED
      BY <3>1, <3>2
  <2>7. HeadTypes' /\ lines' # <<>>
    <3>1. Append(lines, l) \in Seq(Pairs) /\ Append(lines, l) # <<>>
      BY <1>0, <2>2, OneLine
    <3>2. QED
      BY <1>0, <2>1, <2>4, <3>1 DEF HeadTypes
  <2>8. ~Handled'
    <3>1. Len(lines) # 0
      BY <1>0, <2>1 DEF HeadInv
    <3>2. QED
      BY <2>3, <2>4, <3>1 DEF Handled, Server
  <2>9. QED
    BY <2>1, <2>3, <2>5, <2>6, <2>7, <2>8 DEF HeadInv
<1>4. ASSUME other_line \/ \E crlf \in BOOLEAN : empty_line(crlf) PROVE HeadInv'
  <2> DEFINE l == [key |-> "", val |-> Line]
  <2>1. /\ rpc = "read" /\ request # <<>> /\ lines' = Append(lines, l)
        /\ UNCHANGED request /\ rpc' \in {"read", "fields"}
        /\ \/ ended' = ended
           \/ rpc' = "fields" /\ ended' \in BOOLEAN
    <3>1. CASE other_line
      BY <3>1 DEF other_line, HeadLine, Read
    <3>2. ASSUME NEW crlf \in BOOLEAN, empty_line(crlf)
          PROVE  /\ rpc = "read" /\ request # <<>> /\ lines' = Append(lines, l)
                 /\ UNCHANGED request /\ rpc' \in {"read", "fields"}
                 /\ \/ ended' = ended
                    \/ rpc' = "fields" /\ ended' \in BOOLEAN
      <4>1. /\ rpc = "read" /\ request # <<>> /\ lines' = Append(lines, l)
            /\ UNCHANGED request /\ ended' = (ended \/ crlf)
            /\ rpc' \in IF crlf THEN {"fields"} ELSE {"fields", "read"}
        BY <3>2 DEF empty_line, HeadLine, Read
      <4>2. ended \in BOOLEAN
        BY <1>0 DEF HeadTypes
      <4>3. CASE crlf
        BY <4>1, <4>2, <4>3
      <4>4. CASE ~crlf
        BY <4>1, <4>2, <4>4
      <4>5. QED
        BY <4>3, <4>4
    <3>3. QED
      BY <1>4, <3>1, <3>2
  <2>2. l \in Pairs /\ l.key = ""
    BY DEF Pairs, Names, Line
  <2> HIDE DEF l
  <2>3. /\ Taken' = {} /\ Taken = {} /\ ~ended /\ ~Handled
        /\ \A x \in HeaderNames : LastSaid(x)
    BY <2>1 DEF HeadInv, HeadTypes, Taken
  <2>4. ASSUME NEW x \in HeaderNames PROVE LastSaid(x)'
    <3>1. /\ SaidHeaders(x)' = SaidHeaders(x)
          /\ \A i \in SaidHeaders(x) : lines'[i] = lines[i]
      BY <1>0, <2>1, <2>2, SaidSame, HeaderNamesOK
    <3>2. QED
      BY <2>1, <2>3, <3>1 DEF LastSaid
  <2>5. HeadTypes' /\ lines' # <<>>
    <3>1. Append(lines, l) \in Seq(Pairs) /\ Append(lines, l) # <<>>
      BY <1>0, <2>2, OneLine
    <3>2. QED
      BY <1>0, <2>1, <3>1 DEF HeadTypes
  <2>6. ~Handled'
    BY <2>1, <2>3 DEF Handled
  <2>7. QED
    BY <2>1, <2>3, <2>4, <2>5, <2>6 DEF HeadInv
<1>5. CASE mygetline_fails
  <2>1. rpc = "read" /\ rpc' \in {"fields", "gone"} /\ UNCHANGED <<request, lines, ended>>
    BY <1>5 DEF mygetline_fails, HeadLine
  <2>2. Taken = {} /\ Taken' = {}
    BY <2>1 DEF Taken
  <2>3. HeadTypes' /\ Handled' = Handled /\ \A x : LastSaid(x)' <=> LastSaid(x)
    BY <1>0, <2>1 DEF HeadTypes, Handled, LastSaid, SaidHeaders
  <2>4. QED
    BY <2>1, <2>2, <2>3 DEF HeadInv
<1>6. CASE server_fields
  <2>1. /\ rpc = "fields" /\ request' = WithKnown(request) /\ rpc' = "respond"
        /\ UNCHANGED <<lines, ended>>
    BY <1>6 DEF server_fields
  <2>2. Taken = {} /\ Taken' = Always
    BY <2>1 DEF Taken
  <2>3. \A k : /\ request' \in Seq(Pairs)
               /\ k \in Always => Has(request', k) /\ assq_first(request', k) = Server
               /\ k \notin Always => /\ Has(request', k) <=> Has(request, k)
                                     /\ Has(request, k) => assq_first(request', k)
                                                           = assq_first(request, k)
    BY <1>0, <2>1, KnownFirst
  <2>4. request' # <<>>
    <3>1. Has(request', "query")
      BY <2>3 DEF Always
    <3>2. QED
      BY <3>1 DEF Has
  <2>5. \A x \in HeaderNames \ Always : LastSaid(x)'
    BY <2>1, <2>2, <2>3 DEF HeadInv, LastSaid, SaidHeaders
  <2>6. ~Handled'
    BY <2>1, <2>3 DEF HeadInv, Handled, Always
  <2>7. HeadTypes'
    BY <1>0, <2>1, <2>3 DEF HeadTypes
  <2>8. QED
    BY <2>1, <2>2, <2>3, <2>4, <2>5, <2>6, <2>7 DEF HeadInv
<1>7. CASE run_responder_head
  <2>1. rpc = "respond" /\ rpc' = "responder" /\ UNCHANGED <<lines, ended>>
    BY <1>7 DEF run_responder_head
  <2>2. /\ Taken = Always /\ Taken' = ServerNames'
        /\ \A k \in Always : Has(request, k) /\ assq_first(request, k) = Server
    BY <2>1 DEF HeadInv, Taken
  <2>3. CASE UNCHANGED request
    <3>1. ~Handled' /\ Taken' = Always
      BY <2>1, <2>2, <2>3 DEF HeadInv, Handled, ServerNames, Always
    <3>2. \A x : LastSaid(x)' <=> LastSaid(x)
      BY <2>1, <2>3 DEF LastSaid, SaidHeaders
    <3>3. HeadTypes'
      BY <1>0, <2>1, <2>3 DEF HeadTypes
    <3>4. QED
      BY <2>1, <2>2, <2>3, <3>1, <3>2, <3>3 DEF HeadInv
  <2>4. CASE request' = Field("path-info", Server) \o Field("session", Server) \o request
    <3>1. \A k : /\ request' \in Seq(Pairs)
                 /\ k \in {"path-info", "session"} => Has(request', k)
                                                      /\ assq_first(request', k) = Server
                 /\ k \notin {"path-info", "session"} =>
                      /\ Has(request', k) <=> Has(request, k)
                      /\ Has(request, k) => assq_first(request', k) = assq_first(request, k)
      BY <1>0, <2>4, HandlerFirst
    <3>2. Handled' /\ assq_first(request', "session") = Server
      BY <3>1 DEF Handled
    <3>3. Taken' = Always \cup {"session", "path-info"}
      BY <2>2, <3>2 DEF ServerNames, Always
    <3>4. request' # <<>>
      BY <3>2 DEF Handled, Has
    <3>5. \A x \in HeaderNames \ Taken' : LastSaid(x)'
      BY <2>1, <2>2, <3>1, <3>3 DEF HeadInv, LastSaid, SaidHeaders
    <3>6. HeadTypes'
      BY <1>0, <2>1, <3>1 DEF HeadTypes
    <3>7. \A k \in Always : Has(request', k) /\ assq_first(request', k) = Server
      BY <2>2, <3>1 DEF Always
    <3>8. QED
      BY <2>1, <3>2, <3>4, <3>5, <3>6, <3>7 DEF HeadInv
  <2>5. QED
    BY <1>7, <2>3, <2>4 DEF run_responder_head
<1>8. QED
  BY <1>1, <1>2, <1>3, <1>4, <1>5, <1>6, <1>7 DEF HeadNext

(* Whatever headers a client sends, in whatever number and order, the      *)
(* server's fields are the server's when the responder runs, every other   *)
(* name has the value of its last header, and nothing is read as a header  *)
(* after the empty line.                                                   *)
THEOREM FieldsWin == HeadSpec => []ServerFieldsWin
<1>1. HeadInit => HeadInv
  <2> SUFFICES ASSUME HeadInit PROVE HeadInv
    OBVIOUS
  <2>1. /\ rpc = "read" /\ request = <<>> /\ lines = <<>> /\ ended = FALSE
        /\ Len(lines) = 0 /\ Len(request) = 0
    BY DEF HeadInit
  <2>2. <<>> \in Seq(Pairs)
    OBVIOUS
  <2>3. HeadTypes
    BY <2>1, <2>2 DEF HeadTypes
  <2>4. ~Handled
    BY <2>1 DEF Handled, Has
  <2>5. \A n : LastSaid(n)
    BY <2>1 DEF LastSaid, SaidHeaders
  <2>6. QED
    BY <2>1, <2>3, <2>4, <2>5 DEF HeadInv
<1>2. HeadInv /\ [HeadNext]_headVars => HeadInv'
  BY HeadStep
<1>3. HeadInv => ServerFieldsWin
  <2> SUFFICES ASSUME HeadInv, rpc = "responder"
               PROVE  /\ \A k \in ServerNames : assq_first(request, k) = Server
                      /\ \A n \in HeaderNames \ ServerNames : LastSaid(n)
    BY DEF HeadInv, ServerFieldsWin, LastSaid
  <2>1. \A n \in HeaderNames \ ServerNames : LastSaid(n)
    BY DEF HeadInv, Taken
  <2>2. \A k \in Always : assq_first(request, k) = Server
    BY DEF HeadInv
  <2>3. Handled => /\ assq_first(request, "session") = Server
                   /\ assq_first(request, "path-info") = Server
    BY DEF HeadInv, Handled
  <2>4. QED
    BY <2>1, <2>2, <2>3 DEF ServerNames, Always
<1>4. QED
  BY <1>1, <1>2, <1>3, PTL DEF HeadSpec

-----------------------------------------------------------------------------
(* Timestamps.                                                             *)

(* A timestamp whose fields are its local time.                            *)
IsStamp(t) == \E e, u \in Int : t = Stamp(e, u)

(* What is kept beside Instant: a timestamp's fields are its local time,   *)
(* and the column is a local time of the instant that was written.         *)
TimeInv ==
  /\ Instant
  /\ time # NoTime => IsStamp(time)
  /\ column # NoColumn => \E c \in Int : column = <<c>> /\ stored \in Shows(c)

(* Products with a positive number keep the order.                         *)
LEMMA Cancel ==
  ASSUME NEW n \in Nat, n > 0, NEW a \in Int, NEW b \in Int, a * n < b * n
  PROVE  a < b
<1>1. SUFFICES ASSUME a >= b PROVE FALSE
  OBVIOUS
<1>2. PICK d \in Nat : a = b + d
  BY <1>1
<1>3. a * n = b * n + d * n /\ d * n >= 0
  BY <1>2
<1>4. QED
  BY <1>3

(* The rounding of a fraction r of a second: microseconds that are off by  *)
(* half of one at most, and may be a whole second.                         *)
LEMMA Rounding ==
  ASSUME NEW r \in 0 .. Second - 1
  PROVE  LET u == (r + Fine \div 2) \div Fine IN
         u \in 0 .. Micro /\ 2 * Distance(u * Fine, r) <= Fine
<1> DEFINE h == Fine \div 2
<1> DEFINE u == (r + h) \div Fine
<1>1. Fine \in Nat /\ Fine > 0 /\ Micro \in Nat /\ Fine % 2 = 0
  BY TimeConstantsOK
<1>2. h \in Nat /\ 2 * h = Fine
  BY <1>1
<1>3. r \in Nat /\ r < Micro * Fine
  <2>1. Micro * Fine \in Nat
    BY <1>1
  <2>2. QED
    BY <2>1 DEF Second
<1>4. u \in Int /\ u * Fine <= r + h /\ r + h < u * Fine + Fine
  <2>1. r + h \in Nat
    BY <1>2, <1>3
  <2> HIDE DEF h
  <2>2. QED
    BY <1>1, <2>1
<1> HIDE DEF u, h
<1>5. u >= 0
  <2>1. 0 * Fine < (u + 1) * Fine
    BY <1>1, <1>2, <1>3, <1>4
  <2>2. QED
    BY <1>1, <1>4, <2>1, Cancel
<1>6. u <= Micro
  <2>1. u * Fine < (Micro + 1) * Fine
    BY <1>1, <1>2, <1>3, <1>4
  <2>2. QED
    BY <1>1, <1>4, <2>1, Cancel
<1>7. 2 * Distance(u * Fine, r) <= Fine
  <2>1. PICK p \in Int : p = u * Fine
    BY <1>1, <1>4
  <2>2. QED
    BY <1>2, <1>3, <1>4, <2>1 DEF Distance
<1>8. QED
  BY <1>1, <1>4, <1>5, <1>6, <1>7 DEF u, h

(* A timestamp in normal form that is the instant x to half a microsecond. *)
Right(t, x) == /\ t.usec \in 0 .. Micro - 1
               /\ t.clock = localtime(t.epoch)
               /\ 2 * Distance(Ticks(t), x) <= Fine

LEMMA SecondOK == Second \in Nat /\ Second > 0 /\ Second = Micro * Fine
<1>1. Micro \in Nat /\ Micro > 0 /\ Fine \in Nat /\ Fine > 0
  BY TimeConstantsOK
<1>2. QED
  BY <1>1 DEF Second

(* The carry: a second and the rest of x make the timestamp for x.         *)
LEMMA CarriedRight ==
  ASSUME NEW x \in Int, NEW ep \in Int, x - ep * Second \in 0 .. Second - 1
  PROVE  Right(Carried(ep, Usec(x, ep)), x) /\ IsStamp(Carried(ep, Usec(x, ep)))
<1>0. /\ Micro \in Nat /\ Micro > 0 /\ Fine \in Nat /\ IntMax \in Nat /\ Micro < IntMax
      /\ Second \in Nat /\ Second = Micro * Fine
  BY SecondOK, TimeConstantsOK
<1> DEFINE b == ep * Second
<1>1. b \in Int /\ x - b \in 0 .. Second - 1
  BY <1>0
<1> DEFINE r == x - b
<1> DEFINE u == (r + Fine \div 2) \div Fine
<1>2. u \in 0 .. Micro /\ 2 * Distance(u * Fine, r) <= Fine
  BY <1>1, Rounding
<1>3. Usec(x, ep) = u
  <2>1. Usec(x, ep) = Cast(u)
    BY DEF Usec
  <2>2. u \in Ints
    <3> HIDE DEF u
    <3>1. QED
      BY <1>0, <1>2 DEF Ints
  <2>3. QED
    BY <2>1, <2>2 DEF Cast
<1> HIDE DEF u
<1>4. PICK f \in Int : f = u * Fine
  BY <1>0, <1>2
<1>5. (2 * Distance(b + f, x) <= Fine)
  <2>1. 2 * Distance(f, r) <= Fine
    BY <1>2, <1>4
  <2> HIDE DEF b
  <2>2. QED
    BY <1>0, <1>1, <2>1 DEF Distance
<1>6. CASE u >= Micro
  <2>1. u = Micro /\ u - Micro = 0
    BY <1>0, <1>2, <1>6
  <2>2. Carried(ep, u) = Stamp(ep + 1, 0)
    BY <1>6, <2>1 DEF Carried
  <2>3. (ep + 1) * Second + 0 * Fine = b + f
    BY <1>0, <1>4, <2>1
  <2>4. Right(Stamp(ep + 1, 0), x)
    BY <1>0, <1>5, <2>3 DEF Right, Stamp, Ticks
  <2>5. QED
    BY <1>3, <2>2, <2>4 DEF IsStamp
<1>7. CASE ~(u >= Micro)
  <2>1. u \in 0 .. Micro - 1
    BY <1>0, <1>2, <1>7
  <2>2. Carried(ep, u) = Stamp(ep, u)
    BY <1>7 DEF Carried
  <2>3. Right(Stamp(ep, u), x)
    BY <1>0, <1>4, <1>5, <2>1 DEF Right, Stamp, Ticks
  <2>4. u \in Int
    BY <2>1
  <2>5. QED
    BY <1>3, <2>2, <2>3, <2>4 DEF IsStamp
<1>8. QED
  BY <1>6, <1>7

(* The whole second below x, before 1970 too.                              *)
LEMMA Floor ==
  ASSUME NEW x \in Int
  PROVE  x \div Second \in Int /\ x - (x \div Second) * Second \in 0 .. Second - 1
<1>1. Second \in Nat /\ Second > 0
  BY SecondOK
<1> DEFINE q == x \div Second
<1>2. q \in Int /\ q * Second <= x /\ x < q * Second + Second
  BY <1>1
<1> HIDE DEF q
<1>3. PICK p \in Int : p = q * Second
  BY <1>1, <1>2
<1>4. x - p \in 0 .. Second - 1
  BY <1>1, <1>2, <1>3
<1>5. QED
  BY <1>2, <1>3, <1>4 DEF q

(* A whole second and no rest.                                             *)
LEMMA StampRight ==
  ASSUME NEW e \in Int, NEW u \in 0 .. Micro - 1
  PROVE  Right(Stamp(e, u), e * Second + u * Fine) /\ IsStamp(Stamp(e, u))
<1>1. PICK x \in Int : x = e * Second + u * Fine
  BY SecondOK, TimeConstantsOK
<1>2. 2 * Distance(x, x) <= Fine
  BY <1>1, TimeConstantsOK DEF Distance
<1>3. Right(Stamp(e, u), x)
  BY <1>1, <1>2 DEF Right, Stamp, Ticks
<1>4. QED
  BY <1>1, <1>3 DEF IsStamp

(* What mktime answers, outside the hour that the clock leaves out.        *)
LEMMA Mktime ==
  ASSUME NEW c \in Int, NEW e \in mktime(c)
  PROVE  /\ e \in Int /\ (Shows(c) # {} => e \in Shows(c) /\ e + Offset(e) = c)
         /\ \A s \in Shows(c) : s \in Int
<1>1. \A o \in Offsets : o \in Int
  BY TimeConstantsOK DEF Offsets
<1>2. \A s \in Shows(c) : s \in Int /\ s + Offset(s) = c
  BY <1>1 DEF Shows, localtime
<1>3. e \in Int
  BY <1>1, <1>2 DEF mktime
<1>4. QED
  BY <1>2, <1>3 DEF mktime

(* The hours that are read of a zone are a number of seconds.              *)
LEMMA WholeHoursInt ==
  ASSUME NEW z \in Int
  PROVE  WholeHours(z) \in Int
<1>1. Hour \in Nat \ {0}
  BY TimeConstantsOK
<1>2. CASE z < 0
  <2>1. (0 - z) \div Hour \in Int
    BY <1>1
  <2>2. QED
    BY <1>1, <1>2, <2>1 DEF WholeHours
<1>3. CASE ~(z < 0)
  <2>1. z \div Hour \in Int
    BY <1>1
  <2>2. QED
    BY <1>1, <1>3, <2>1 DEF WholeHours
<1>4. QED
  BY <1>2, <1>3

(* A timestamp for a local time.                                           *)
LEMMA LocalRight ==
  ASSUME NEW c \in Int, NEW frac \in 0 .. Second - 1,
         NEW t \in local_time_intern(c, frac), t # NoTime
  PROVE  /\ IsStamp(t)
         /\ Shows(c) # {} => \E e \in Shows(c) : Right(t, e * Second + frac)
<1>1. PICK e \in mktime(c) : t = Carried(e, Usec(frac, 0))
  BY DEF local_time_intern
<1>2. e \in Int /\ (Shows(c) # {} => e \in Shows(c))
  BY Mktime
<1>3. PICK x \in Int : x = e * Second + frac
  BY <1>2, SecondOK
<1>4. x - e * Second = frac /\ frac - 0 * Second = frac
  BY <1>2, <1>3, SecondOK
<1>5. Usec(x, e) = Usec(frac, 0)
  BY <1>4 DEF Usec
<1>6. Right(t, x) /\ IsStamp(t)
  BY <1>1, <1>2, <1>4, <1>5, CarriedRight
<1>7. QED
  BY <1>2, <1>3, <1>6

(* A timestamp that is right for one of the instants asked for.            *)
LEMMA MakeStep ==
  ASSUME TimeInv, NEW t, NEW S, Make(t, S),
         t # NoTime => IsStamp(t),
         t # NoTime /\ S # {} => \E x \in S : Right(t, x)
  PROVE  TimeInv'
<1>1. time' = t /\ asked' = S /\ UNCHANGED <<column, stored>>
  BY DEF Make
<1>2. Instant'
  <2>1. ASSUME t # NoTime, S # {}
        PROVE  /\ t.usec \in 0 .. Micro - 1 /\ t.clock = localtime(t.epoch)
               /\ \E x \in S : 2 * Distance(Ticks(t), x) <= Fine
    BY <2>1 DEF Right
  <2>2. QED
    BY <1>1, <2>1 DEF Instant, Ticks
<1>3. QED
  BY <1>1, <1>2 DEF TimeInv, IsStamp, Stamp

LEMMA TimeStep ==
  ASSUME TimeInv, [TimeNext]_timeVars
  PROVE  TimeInv'
<1>1. ASSUME NEW x \in Instants, time_at(x) PROVE TimeInv'
  <2> DEFINE ep == Cast(x \div Second)
  <2> DEFINE t == Carried(ep, Usec(x, ep))
  <2> DEFINE S == IF x \div Second \in Ints THEN {x} ELSE {}
  <2>1. Make(t, S)
    BY <1>1 DEF time_at
  <2>2. x \in Int /\ x \div Second \in Int /\ ep \in Int
    <3>1. x \in Int
      BY TimeConstantsOK
    <3>2. x \div Second \in Int
      BY <3>1, Floor
    <3>3. QED
      BY <3>1, <3>2, TimeConstantsOK DEF Cast
  <2>3. CASE x \div Second \in Ints
    <3>1. ep = x \div Second
      BY <2>3 DEF Cast
    <3>2. x - ep * Second \in 0 .. Second - 1
      BY <2>2, <3>1, Floor
    <3> HIDE DEF ep
    <3>3. Right(t, x) /\ IsStamp(t)
      BY <2>2, <3>2, CarriedRight
    <3> HIDE DEF t
    <3>4. QED
      BY <2>1, <2>3, <3>3, MakeStep
  <2>4. CASE x \div Second \notin Ints
    <3>1. Usec(x, ep) \in Int
      <4>1. PICK n : Usec(x, ep) = Cast(n)
        BY DEF Usec
      <4>2. QED
        BY <4>1, TimeConstantsOK DEF Cast, Ints
    <3> HIDE DEF ep
    <3>2. IsStamp(t)
      <4>1. PICK u \in Int : u = Usec(x, ep)
        BY <3>1
      <4>2. Carried(ep, u) = Stamp(ep + 1, u - Micro) \/ Carried(ep, u) = Stamp(ep, u)
        BY DEF Carried
      <4>3. ep + 1 \in Int /\ u - Micro \in Int
        BY <2>2, TimeConstantsOK
      <4>4. QED
        BY <2>2, <4>1, <4>2, <4>3 DEF IsStamp
    <3> HIDE DEF t
    <3>3. S = {}
      BY <2>4
    <3>4. QED
      BY <2>1, <3>2, <3>3, MakeStep
  <2>5. QED
    BY <2>3, <2>4
<1>2. ASSUME NEW s \in Instants, time_add(s) PROVE TimeInv'
  <2> DEFINE x0 == Ticks(time) + s
  <2>1. time # NoTime /\ Make(Carried(x0 \div Second, Usec(x0, x0 \div Second)), {x0})
    BY <1>2 DEF time_add
  <2>2. x0 \in Int
    <3>1. PICK e \in Int, u \in Int : time = Stamp(e, u)
      BY <2>1 DEF TimeInv, IsStamp
    <3>2. Ticks(time) = e * Second + u * Fine
      BY <3>1 DEF Ticks, Stamp
    <3>3. QED
      BY <3>2, SecondOK, TimeConstantsOK
  <2>3. PICK x \in Int : x = x0
    BY <2>2
  <2> DEFINE q == x \div Second
  <2>4. q \in Int /\ x - q * Second \in 0 .. Second - 1
    BY Floor
  <2>5. Make(Carried(q, Usec(x, q)), {x})
    BY <2>1, <2>3
  <2> HIDE DEF q, x0
  <2>6. Right(Carried(q, Usec(x, q)), x) /\ IsStamp(Carried(q, Usec(x, q)))
    BY <2>4, CarriedRight
  <2>7. QED
    BY <2>5, <2>6, MakeStep
<1>3. ASSUME NEW c \in Clocks, NEW frac \in 0 .. Second - 1, local_time(c, frac)
      PROVE  TimeInv'
  <2> DEFINE S == {e * Second + frac : e \in Shows(c)}
  <2>1. PICK t \in local_time_intern(c, frac) : Make(t, S)
    BY <1>3 DEF local_time
  <2>2. c \in Int
    BY TimeConstantsOK
  <2>3. t # NoTime => /\ IsStamp(t)
                      /\ Shows(c) # {} => \E e \in Shows(c) : Right(t, e * Second + frac)
    BY <2>2, LocalRight
  <2>4. t # NoTime /\ S # {} => \E x \in S : Right(t, x)
    BY <2>3
  <2> HIDE DEF S
  <2>5. QED
    BY <2>1, <2>3, <2>4, MakeStep
<1>4. ASSUME NEW c \in Clocks, NEW z \in Zones, time_decode(c, z) PROVE TimeInv'
  <2> DEFINE w == WholeHours(z)
             S == IF Shows(c) = {} \/ w # z THEN {} ELSE {(c - z) * Second}
  <2>1. PICK e \in mktime(c) : Make(Stamp(e + Offset(e) - w, 0), S)
    BY <1>4 DEF time_decode
  <2>2. c \in Int /\ z \in Int
    BY TimeConstantsOK
  <2>w. w \in Int
    BY <2>2, WholeHoursInt
  <2>3. e \in Int /\ (Shows(c) # {} => e + Offset(e) = c)
    BY <2>2, Mktime
  <2>o. PICK o \in Int : o = Offset(e)
    BY TimeConstantsOK DEF Offset
  <2>4. PICK n \in Int : n = e + o - w
    BY <2>w, <2>3
  <2>5. Right(Stamp(n, 0), n * Second) /\ IsStamp(Stamp(n, 0))
    <3>1. n * Second + 0 * Fine = n * Second
      BY SecondOK, TimeConstantsOK
    <3>2. 0 \in 0 .. Micro - 1
      BY TimeConstantsOK
    <3>3. QED
      BY <3>1, <3>2, StampRight
  <2>6. S # {} => n * Second \in S
    <3>1. SUFFICES ASSUME Shows(c) # {}, w = z PROVE n * Second \in S
      OBVIOUS
    <3>2. S = {(c - z) * Second}
      BY <3>1
    <3>3. e + o = c
      BY <2>3, <2>o, <3>1
    <3>4. n = c - z
      <4>1. w = z
        BY <3>1
      <4>2. n = e + o - z
        BY <2>4, <4>1
      <4>3. QED
        BY <2>2, <2>3, <3>3, <4>2
    <3>5. QED
      BY <3>2, <3>4
  <2> HIDE DEF S, w
  <2>7. QED
    BY <2>1, <2>4, <2>o, <2>5, <2>6, MakeStep
<1>5. ASSUME NEW c \in Clocks, time_decode_other(c) PROVE TimeInv'
  <2>1. PICK r \in {c, -1} : Make(Stamp(r, 0), {r * Second})
    BY <1>5 DEF time_decode_other
  <2>2. r \in Int /\ 0 \in 0 .. Micro - 1
    BY TimeConstantsOK
  <2>3. r * Second + 0 * Fine = r * Second
    BY <2>2, SecondOK, TimeConstantsOK
  <2>4. Right(Stamp(r, 0), r * Second) /\ IsStamp(Stamp(r, 0))
    BY <2>2, <2>3, StampRight
  <2>5. QED
    BY <2>1, <2>4, MakeStep
<1>6. ASSUME NEW c \in Clocks, NEW u \in 0 .. Micro - 1, now_time(c, u)
      PROVE  TimeInv'
  <2>1. Make(Stamp(c, u), {c * Second + u * Fine})
    BY <1>6 DEF now_time
  <2>2. Right(Stamp(c, u), c * Second + u * Fine) /\ IsStamp(Stamp(c, u))
    BY TimeConstantsOK, StampRight
  <2>3. QED
    BY <2>1, <2>2, MakeStep
<1>7. CASE pg_format_time
  <2>1. /\ time # NoTime /\ column' = <<time.clock>> /\ stored' = time.epoch
        /\ UNCHANGED <<time, times, asked>>
    BY <1>7 DEF pg_format_time, Fields
  <2>2. PICK e \in Int, u \in Int : time = Stamp(e, u)
    BY <2>1 DEF TimeInv, IsStamp
  <2>3. PICK c \in Int : c = localtime(e)
    BY TimeConstantsOK DEF localtime, Offset
  <2>4. e \in Shows(c)
    <3>1. Offset(e) \in Offsets /\ Offset(e) \in Int /\ e = c - Offset(e)
      BY <2>3, TimeConstantsOK DEF localtime, Offset, Offsets
    <3>2. QED
      BY <2>3, <3>1 DEF Shows
  <2>5. column' = <<c>> /\ stored' = e
    BY <2>1, <2>2, <2>3 DEF Stamp
  <2>6. Instant'
    BY <2>1 DEF TimeInv, Instant, Ticks
  <2>7. QED
    BY <2>1, <2>4, <2>5, <2>6 DEF TimeInv, Shows, IsStamp, Stamp
<1>8. CASE decode_timestamp
  <2>1. PICK c \in Int : column = <<c>> /\ stored \in Shows(c)
    BY <1>8 DEF decode_timestamp, TimeInv
  <2>2. PICK t \in local_time_intern(c, 0) : time' = t
    BY <1>8, <2>1 DEF decode_timestamp
  <2>3. asked' = {e * Second : e \in Shows(c)} /\ column' = NoColumn
    BY <1>8, <2>1 DEF decode_timestamp
  <2>4. 0 \in 0 .. Second - 1
    BY SecondOK
  <2>5. t # NoTime => /\ IsStamp(t)
                      /\ \E e \in Shows(c) : Right(t, e * Second + 0)
    BY <2>1, <2>4, LocalRight
  <2>6. \A e \in Shows(c) : e \in Int
    BY TimeConstantsOK DEF Shows, Offsets
  <2>7. t # NoTime => \E x \in asked' : Right(t, x)
    <3>1. \A e \in Shows(c) : e * Second + 0 = e * Second
      BY <2>6, SecondOK
    <3>2. QED
      BY <2>3, <2>5, <3>1
  <2>8. Instant'
    <3>1. ASSUME t # NoTime
          PROVE  /\ t.usec \in 0 .. Micro - 1 /\ t.clock = localtime(t.epoch)
                 /\ \E x \in asked' : 2 * Distance(Ticks(t), x) <= Fine
      BY <2>7, <3>1 DEF Right
    <3>2. QED
      BY <2>2, <3>1 DEF Instant, Ticks
  <2>9. QED
    BY <2>2, <2>3, <2>5, <2>8 DEF TimeInv, IsStamp, Stamp
<1>9. CASE UNCHANGED timeVars
  <2>1. UNCHANGED <<time, asked, column, stored>>
    BY <1>9 DEF timeVars
  <2>2. Instant'
    BY <2>1 DEF TimeInv, Instant, Ticks
  <2>3. QED
    BY <2>1, <2>2 DEF TimeInv, IsStamp, Stamp
<1>10. QED
  BY <1>1, <1>2, <1>3, <1>4, <1>5, <1>6, <1>7, <1>8, <1>9 DEF TimeNext

(* Every timestamp is the instant asked for to the nearest microsecond, in *)
(* normal form and with the fields of that instant: for every zone, every  *)
(* clock change and all numbers, as exact as the numbers are.              *)
THEOREM RightTime == TimeSpec => []Instant
<1>1. TimeInit => TimeInv
  BY DEF TimeInit, TimeInv, Instant
<1>2. TimeInv /\ [TimeNext]_timeVars => TimeInv'
  BY TimeStep
<1>3. TimeInv => Instant
  BY DEF TimeInv
<1>4. QED
  BY <1>1, <1>2, <1>3, PTL DEF TimeSpec

=============================================================================
