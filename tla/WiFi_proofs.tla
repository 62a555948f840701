----------------------------- MODULE WiFi_proofs ----------------------------
(***************************************************************************)
(* The access point is watched, for every set of threads and timers, any   *)
(* number of deaths of the service and every set of commands that may fail.*)
(***************************************************************************)
EXTENDS WiFi, TLAPS

(* A thread at one of these steps takes the access point down or ends up   *)
(* starting a timer.                                                       *)
Watchful == {"stop", "down", "mark", "cancel", "create", "expired"}

(* ApIsWatched is not inductive: an access point that nobody watches yet   *)
(* has a thread that is about to, and one that outlived the service has    *)
(* the marker by which check_stale_ap() will find it.                      *)
Watched ==
  up /\ radio = "ap" =>
    ticking # {} \/ alone \/ \E t \in Thread : thread[t].at \in Watchful

Found == ~up /\ radio = "ap" => marker \/ alone

IInv == TypeOK /\ Watched /\ Found

-----------------------------------------------------------------------------
(* In every state, every variable has its type, and a service that is not  *)
(* running has no threads and no timers.                                   *)
LEMMA TypeInit == Init => TypeOK
<1> SUFFICES ASSUME Init PROVE TypeOK
  OBVIOUS
<1>1. Free \in [at : Steps, for : {"nothing", "connect", "timeout", "start", "check"}]
  BY DEF Free, Steps
<1>2. {marker, alone, lost} \subseteq BOOLEAN /\ up \in BOOLEAN
  BY DEF Init
<1> QED
  BY <1>1, <1>2, WiFiAssumption DEF Init, TypeOK

(* Every step keeps the types.                                             *)
LEMMA TypeNext == TypeOK /\ [Next]_vars => TypeOK'
<1> SUFFICES ASSUME TypeOK, [Next]_vars PROVE TypeOK'
  OBVIOUS
<1> USE WiFiAssumption DEF TypeOK, Steps
<1>1. ASSUME NEW t \in Thread, StopCancels(t) PROVE TypeOK'
  BY <1>1 DEF StopCancels, Cleared, CancelTimer, At, Goes
<1>2. ASSUME NEW t \in Thread, StopDowns(t) PROVE TypeOK'
  <2>1. alone' \in BOOLEAN
    BY <1>2 DEF StopDowns
  <2> QED
    BY <1>2, <2>1 DEF StopDowns, At, Goes, timerVars
<1>3. ASSUME NEW t \in Thread, StartHotspot(t) PROVE TypeOK'
  BY <1>3 DEF StartHotspot, At, Goes, timerVars
<1>4. ASSUME NEW t \in Thread, StartMarks(t) PROVE TypeOK'
  BY <1>4 DEF StartMarks, At, Goes, timerVars
<1>4a. ASSUME NEW t \in Thread, StartFails(t) PROVE TypeOK'
  <2>1. alone' \in BOOLEAN /\ lost' \in BOOLEAN
    BY <1>4a DEF StartFails
  <2> QED
    BY <1>4a, <2>1 DEF StartFails, At, Ends, Free, timerVars
<1>5. ASSUME NEW t \in Thread, StartCancels(t) PROVE TypeOK'
  BY <1>5 DEF StartCancels, CancelTimer, At, Goes
<1>6. ASSUME NEW t \in Thread, StartCreates(t) PROVE TypeOK'
  <2>1. PICK new \in Timer : timer' = new /\ ticking' = ticking \cup {new}
    BY <1>6 DEF StartCreates
  <2>2. thread' \in [Thread -> [at : Steps, for : {"nothing", "connect",
                                        "timeout", "start", "check"}]]
    BY <1>6 DEF StartCreates, Ends, Free
  <2> QED
    BY <1>6, <2>1, <2>2 DEF StartCreates, At
<1>7. ASSUME NEW t \in Thread, ConnectBegins(t) PROVE TypeOK'
  BY <1>7 DEF ConnectBegins, At, Goes, timerVars
<1>8. ASSUME NEW t \in Thread, ConnectJoins(t) PROVE TypeOK'
  <2>1. alone' \in BOOLEAN /\ lost' \in BOOLEAN
    BY <1>8 DEF ConnectJoins
  <2>2. radio' \in {"down", "station", "ap"}
    BY <1>8 DEF ConnectJoins
  <2> QED
    BY <1>8, <2>1, <2>2 DEF ConnectJoins, AfterJoin, At, Free, timerVars
<1>9. ASSUME NEW t \in Thread, TimerExpired(t) PROVE TypeOK'
  <2>1. alone' \in BOOLEAN
    BY <1>9 DEF TimerExpired
  <2> QED
    BY <1>9, <2>1 DEF TimerExpired, AfterClients, At, Goes, Ends, Free, timerVars
<1>10. ASSUME NEW t \in Thread, TimerLooks(t) PROVE TypeOK'
  BY <1>10 DEF TimerLooks, At, Goes, Ends, Free, timerVars
<1>11. ASSUME NEW t \in Thread, ConnectAsked(t) PROVE TypeOK'
  BY <1>11 DEF ConnectAsked, At, timerVars
<1>12. ASSUME NEW t \in Thread, Starts(t) PROVE TypeOK'
  <2>1. alone' \in BOOLEAN /\ marker' \in BOOLEAN
    BY <1>12 DEF Starts, Cleared
  <2> QED
    BY <1>12, <2>1 DEF Starts, Stale, timerVars
<1>13. ASSUME NEW t \in Thread, NEW n \in Timer, TimerFires(t, n) PROVE TypeOK'
  BY <1>13 DEF TimerFires, At
<1>14. CASE Dies
  <2>1. thread' \in [Thread -> [at : Steps, for : {"nothing", "connect",
                                        "timeout", "start", "check"}]]
    BY <1>14 DEF Dies, Free
  <2>2. deaths' \in 0..MaxDeaths
    BY <1>14 DEF Dies
  <2>3. radio' \in {"down", "station", "ap"}
    BY <1>14 DEF Dies
  <2>4. {marker', alone', lost'} \subseteq BOOLEAN
    BY <1>14 DEF Dies
  <2> QED
    BY <1>14, <2>1, <2>2, <2>3, <2>4 DEF Dies
<1>15. CASE NetworkLost
  BY <1>15 DEF NetworkLost, timerVars
<1>16. CASE NetworkFound
  BY <1>16 DEF NetworkFound, timerVars
<1>17. CASE UNCHANGED vars
  BY <1>17 DEF vars
<1> QED
  BY <1>1, <1>2, <1>3, <1>4, <1>4a, <1>5, <1>6, <1>7, <1>8, <1>9, <1>10,
     <1>11, <1>12, <1>13, <1>14, <1>15, <1>16, <1>17 DEF Next, Step

-----------------------------------------------------------------------------
(* While the service is down nothing starts an access point; what it left  *)
(* behind is marked, or noted as alone.                                    *)
LEMMA FoundNext == TypeOK /\ Found /\ [Next]_vars => Found'
<1> SUFFICES ASSUME TypeOK, Found, [Next]_vars PROVE Found'
  OBVIOUS
<1> USE DEF Found
<1>1. CASE Dies
  BY <1>1 DEF Dies, TypeOK
<1>2. CASE NetworkLost \/ NetworkFound
  BY <1>2 DEF NetworkLost, NetworkFound
<1>3. CASE UNCHANGED vars
  BY <1>3 DEF vars
<1>4. ASSUME NEW t \in Thread, Step(t) PROVE up'
  <2>1. CASE StopCancels(t) \/ StartHotspot(t)
    BY <2>1 DEF At, StopCancels, StartHotspot
  <2>4. CASE StopDowns(t)
    BY <2>4 DEF At, StopDowns
  <2>5. CASE StartFails(t)
    BY <2>5 DEF At, StartFails
  <2>2. CASE StartMarks(t) \/ StartCancels(t) \/ StartCreates(t)
    BY <2>2 DEF At, StartMarks, StartCancels, StartCreates
  <2>3. CASE \/ ConnectBegins(t) \/ ConnectJoins(t) \/ TimerExpired(t)
             \/ TimerLooks(t)
    BY <2>3 DEF At, ConnectBegins, ConnectJoins, TimerExpired, TimerLooks
  <2> QED
    BY <1>4, <2>1, <2>2, <2>3, <2>4, <2>5 DEF Step
<1>5. ASSUME NEW t \in Thread, ConnectAsked(t) \/ Starts(t) PROVE up'
  BY <1>5 DEF ConnectAsked, Starts, At
<1>6. ASSUME NEW t \in Thread, NEW n \in Timer, TimerFires(t, n) PROVE up'
  BY <1>6 DEF TimerFires, At
<1> QED
  BY <1>1, <1>2, <1>3, <1>4, <1>5, <1>6 DEF Next

(* Whatever a thread does to the radio, it goes on to watch it; and a      *)
(* thread that was about to leaves only after it has.                      *)
LEMMA WatchedNext == IInv /\ [Next]_vars => Watched'
<1> SUFFICES ASSUME IInv, [Next]_vars, up', radio' = "ap"
             PROVE ticking' # {} \/ alone'
                     \/ \E t \in Thread : thread'[t].at \in Watchful
  BY DEF Watched
<1> DEFINE Goal == ticking' # {} \/ alone'
                     \/ \E t \in Thread : thread'[t].at \in Watchful
<1> USE DEF IInv, TypeOK, Watchful
<1>1. ASSUME NEW t \in Thread,
             StopCancels(t) \/ StartHotspot(t) \/ StartMarks(t) \/ StartCancels(t)
      PROVE Goal
  <2>1. thread'[t].at \in Watchful
    BY <1>1 DEF StopCancels, StartHotspot, StartMarks, StartCancels, Goes
  <2> QED
    BY <2>1
<1>2. ASSUME NEW t \in Thread, StartCreates(t) PROVE Goal
  BY <1>2 DEF StartCreates
<1>3. ASSUME NEW t \in Thread, StopDowns(t) PROVE Goal
  BY <1>3 DEF StopDowns, is_ap_active
<1>4. ASSUME NEW t \in Thread, TimerExpired(t) PROVE Goal
  <2>1. PICK active \in BOOLEAN, clients \in BOOLEAN :
          /\ IF ~active \/ AfterClients(clients) = "free"
             THEN Ends(t) ELSE Goes(t, AfterClients(clients))
          /\ alone' = (alone \/ (is_ap_active /\ ~active))
    BY <1>4 DEF TimerExpired, Answer, is_ap_active
  <2>2. radio = "ap"
    BY <1>4 DEF TimerExpired
  <2>3. CASE active
    <3>1. thread'[t].at \in Watchful
      BY <2>1, <2>3 DEF AfterClients, Goes
    <3> QED
      BY <3>1
  <2>4. CASE ~active
    BY <2>1, <2>2, <2>4 DEF is_ap_active
  <2> QED
    BY <2>3, <2>4
<1>5. ASSUME NEW t \in Thread, NEW n \in Timer, TimerFires(t, n) PROVE Goal
  <2>1. thread'[t].at \in Watchful
    BY <1>5 DEF TimerFires
  <2> QED
    BY <2>1
<1>6. ASSUME NEW t \in Thread,
             \/ ConnectBegins(t) \/ ConnectJoins(t) \/ TimerLooks(t)
             \/ ConnectAsked(t) \/ StartFails(t)
      PROVE Goal
  <2>1. /\ up /\ radio = "ap" /\ thread[t].at \notin Watchful
        /\ ticking' = ticking /\ (alone => alone')
        /\ \A o \in Thread \ {t} : thread'[o] = thread[o]
    <3>1. CASE ConnectBegins(t)
      BY <3>1 DEF ConnectBegins, Goes, At, timerVars
    <3>4. CASE TimerLooks(t)
      BY <3>4 DEF TimerLooks, Goes, Ends, At, timerVars
    <3>5. CASE ConnectAsked(t)
      BY <3>5 DEF ConnectAsked, At, timerVars
    <3>2. CASE ConnectJoins(t)
      BY <3>2 DEF ConnectJoins, is_ap_active, At, timerVars
    <3>3. CASE StartFails(t)
      BY <3>3 DEF StartFails, Ends, At, timerVars
    <3> QED
      BY <1>6, <3>1, <3>2, <3>3, <3>4, <3>5
  <2>2. ticking # {} \/ alone \/ \E o \in Thread : thread[o].at \in Watchful
    BY <2>1 DEF Watched
  <2> QED
    BY <2>1, <2>2
<1>7. ASSUME NEW t \in Thread, Starts(t) PROVE Goal
  <2>1. radio = "ap" /\ (marker \/ alone)
    BY <1>7 DEF Starts, Found
  <2>2. marker => thread'[t].at \in Watchful \/ alone'
    <3>1. PICK stale \in BOOLEAN, readable \in BOOLEAN :
            /\ thread' = [thread EXCEPT ![t] =
                 [at |-> IF marker /\ readable THEN Stale(stale) ELSE "look",
                  for |-> IF marker /\ readable /\ ~stale
                          THEN "check" ELSE "start"]]
            /\ alone' = (alone \/ (is_ap_active /\ ~readable))
      BY <1>7 DEF Starts, Succeeds
    <3>2. CASE readable
      BY <3>1, <3>2 DEF Stale
    <3>3. CASE ~readable
      BY <3>1, <3>3, <2>1 DEF is_ap_active
    <3> QED
      BY <3>2, <3>3
  <2>3. alone => alone'
    BY <1>7 DEF Starts
  <2> QED
    BY <2>1, <2>2, <2>3
<1>8. CASE Dies
  BY <1>8 DEF Dies
<1>9. CASE NetworkLost \/ NetworkFound
  BY <1>9 DEF NetworkLost, NetworkFound
<1>10. CASE UNCHANGED vars
  BY <1>10 DEF vars, Watched
<1> QED
  BY <1>1, <1>2, <1>3, <1>4, <1>5, <1>6, <1>7, <1>8, <1>9, <1>10
  DEF Next, Step

-----------------------------------------------------------------------------
(* The inductive invariant holds in every reachable state.                 *)
THEOREM Invariance == Spec => []IInv
<1>1. Init => IInv
  BY TypeInit DEF Init, IInv, Watched, Found
<1>2. IInv /\ [Next]_vars => IInv'
  BY TypeNext, FoundNext, WatchedNext DEF IInv
<1> QED
  BY <1>1, <1>2, PTL DEF Spec

(* Type correctness of the radio, its threads and its timers.              *)
THEOREM TypeCorrect == Spec => []TypeOK
<1>1. IInv => TypeOK
  BY DEF IInv
<1> QED
  BY <1>1, Invariance, PTL

(* An access point that nobody is at work on has a timer that will look at *)
(* it, unless a failing command or marker, or a death before the marker,   *)
(* took it from its last watcher.                                          *)
THEOREM AccessPointWatched == Spec => []ApIsWatched
<1>1. IInv => ApIsWatched
  BY DEF IInv, Watched, Watchful, ApIsWatched, is_ap_active, Free
<1> QED
  BY <1>1, Invariance, PTL
=============================================================================
