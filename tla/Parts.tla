-------------------------------- MODULE Parts -------------------------------
(***************************************************************************)
(* The parts of gusher that share no state with each other or with the     *)
(* request path: a behaviour of this module is a behaviour of one of them, *)
(* chosen at the start, while the others rest.  Forms is at work twice,    *)
(* reading what any client sends and reading what HttpClient sends.        *)
(***************************************************************************)
EXTENDS Conversions, PgResult, GTime, HttpClient, Multipart, RequestHead,
        MainLoop, Log

VARIABLE part   \* the part at work

ConvIdle == /\ stage = "none" /\ val = NIL /\ doc = False /\ back = NIL
            /\ template = <<>> /\ first = <<>> /\ second = <<>> /\ text = <<>>

PartsInit ==
  /\ part \in {"conversions", "results", "time", "forms", "client", "upload",
               "head", "loop", "log"}
  /\ IF part = "conversions" THEN Init ELSE ConvIdle
  /\ LoopInit /\ (part # "loop" => ~background /\ ~pulse /\ ~line_in)
  /\ PgInit /\ TimeInit /\ HttpInit /\ MpInit /\ HeadInit /\ LogInit

partsVars == <<part, vars, pgVars, timeVars, httpVars, mpVars, headVars,
               loopVars, logVars>>

(* The others at rest while main works.                                    *)
LoopRests == <<part, vars, pgVars, timeVars, httpVars, mpVars, headVars,
               logVars>>

PartsNext ==
  \/ /\ part = "conversions" /\ Next
     /\ UNCHANGED <<part, pgVars, timeVars, httpVars, mpVars, headVars, loopVars,
                    logVars>>
  \/ /\ part = "results" /\ PgNext
     /\ UNCHANGED <<part, vars, timeVars, httpVars, mpVars, headVars, loopVars,
                    logVars>>
  \/ /\ part = "time" /\ TimeNext
     /\ UNCHANGED <<part, vars, pgVars, httpVars, mpVars, headVars, loopVars,
                    logVars>>
  \/ /\ part = "forms" /\ FormNext
     /\ UNCHANGED <<part, vars, pgVars, timeVars, clientVars, mpVars, headVars,
                    loopVars, logVars>>
  \/ /\ part = "client" /\ HttpNext
     /\ UNCHANGED <<part, vars, pgVars, timeVars, mpVars, headVars, loopVars,
                    logVars>>
  \/ /\ part = "upload" /\ MpNext
     /\ UNCHANGED <<part, vars, pgVars, timeVars, httpVars, headVars, loopVars,
                    logVars>>
  \/ /\ part = "head" /\ HeadNext
     /\ UNCHANGED <<part, vars, pgVars, timeVars, httpVars, mpVars, loopVars,
                    logVars>>
  \/ part = "loop" /\ LoopNext /\ UNCHANGED LoopRests
  \/ /\ part = "log" /\ LogNext
     /\ UNCHANGED <<part, vars, pgVars, timeVars, httpVars, mpVars, headVars,
                    loopVars>>

(* LoopFairness, when main is at work.                                     *)
PartsFairness ==
  WF_partsVars(part = "loop" /\ LoopStep /\ UNCHANGED LoopRests)

PartsSpec == PartsInit /\ [][PartsNext]_partsVars /\ PartsFairness

=============================================================================
