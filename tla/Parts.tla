------------------------------- MODULE Parts --------------------------------
(***************************************************************************)
(* Four parts side by side that have nothing to say to each other: what    *)
(* one phone does to the device (DevicePages), and on the server the       *)
(* limiter of attempts, the settings and the line of the worker's threads. *)
(* A behaviour is that of one part, chosen at the beginning, as in Pages.  *)
(***************************************************************************)
EXTENDS DevicePages, RateLimiter, Config, ServerThreads

CONSTANT Part   \* the parts to choose from

ASSUME PartsAssumption == Part \subseteq {"device", "limiter", "config", "threads"}

VARIABLE part

partsVars == <<vars, limiterVars, configVars, threadsVars, part>>

PartsInit ==
  /\ Init /\ LimiterInit /\ ConfigInit /\ ThreadsInit
  /\ part \in Part
  /\ part # "device" => /\ cookie /\ lenSetting = 4
                        /\ \A c \in Control : real[c] = "a"
  /\ part # "threads" => threads = CHOOSE n \in Threads : TRUE

(* Only the chosen part moves.                                             *)
OfDevice(A) ==
  part = "device" /\ A /\ UNCHANGED <<limiterVars, configVars, threadsVars, part>>
OfLimiter(A) ==
  part = "limiter" /\ A /\ UNCHANGED <<vars, configVars, threadsVars, part>>
OfConfig(A) ==
  part = "config" /\ A /\ UNCHANGED <<vars, limiterVars, threadsVars, part>>
OfThreads(A) ==
  part = "threads" /\ A /\ UNCHANGED <<vars, limiterVars, configVars, part>>

PartsNext ==
  \/ OfDevice(Next) \/ OfLimiter(LimiterNext)
  \/ OfConfig(ConfigNext) \/ OfThreads(ThreadsNext)

PartsSpec == PartsInit /\ [][PartsNext]_partsVars

(* Threads work: requests are answered, streams say something every 20 s.  *)
(* No client need connect, send its body or leave.                         *)
FairSpec ==
  /\ PartsSpec
  /\ WF_partsVars(OfThreads(Take))
  /\ \A c \in Conn : /\ WF_partsVars(OfThreads(Answer(c)))
                     /\ WF_partsVars(OfThreads(Greet(c)))
                     /\ WF_partsVars(OfThreads(Notice(c)))

-----------------------------------------------------------------------------
(* Every part's state has its type, and what its module adds to that: the  *)
(* lock of the settings is held by the thread that saves, no thread serves *)
(* two connections, and no more streams run than _MAX_CLIENTS.             *)
PartsTypeOK ==
  /\ TypeOK /\ LimiterTypeOK /\ ConfigTypeOK /\ ThreadsTypeOK
  /\ part \in Part
=============================================================================
