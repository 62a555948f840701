-------------------------------- MODULE WiFi --------------------------------
(***************************************************************************)
(* The radio of the frame and who switches it (wifi.py): the thread of a   *)
(* request to connect (api.py), the handler of the access point's timer,   *)
(* and the start of the service.  The threads share the timer, behind a    *)
(* lock that is given back between any two of the steps below, and the     *)
(* radio, behind no lock at all.                                           *)
(*                                                                         *)
(* nmcli and NetworkManager are modelled by what wifi.py expects of them.  *)
(* A command may fail to join a network, and, where Faults says so, any    *)
(* other command may fail or time out: it then changes nothing, or has     *)
(* lost the connection there was, and a question is answered with no.  A   *)
(* radio in AP mode counts as connected, because is_connected() looks at   *)
(* the state of the device only.  Left out: the names of networks, and the *)
(* requests that start and stop the access point by hand, which no page    *)
(* makes.                                                                  *)
(***************************************************************************)
EXTENDS Naturals, FiniteSets

CONSTANTS
  Thread,    \* bound: threads at work at a time
  Timer,     \* bound: timers, ticking or held
  MaxDeaths, \* bound: how often the service dies
  Faults     \* what may fail: a question ("read"), taking the access point
             \* down ("down"), starting it ("hotspot"), its marker ("marker")

ASSUME WiFiAssumption ==
  /\ Timer \subseteq Nat \ {0} /\ MaxDeaths \in Nat
  /\ Faults \subseteq {"read", "down", "hotspot", "marker"}

VARIABLES
  radio,     \* "down", "station" or "ap"
  up,        \* the service runs
  deaths,    \* how often it has died
  thread,    \* where each thread is: [at, for]
  timer,     \* _ap_timer, 0 for None
  ticking,   \* timers that will fire
  marker,    \* _AP_MARKER_FILE exists
  alone,     \* history: the access point is up, and a command or a marker
             \* that failed, or a death while it had no marker, took it from
             \* its last watcher
  lost       \* history: the radio is down because the network was lost by
             \* itself, or because the access point could not be started

vars == <<radio, up, deaths, thread, timer, ticking, marker, alone, lost>>
timerVars == <<timer, ticking>>

Free == [at |-> "free", for |-> "nothing"]
Init ==
  /\ radio \in {"down", "station"} /\ up = FALSE /\ deaths = 0
  /\ thread = [t \in Thread |-> Free]
  /\ timer = 0 /\ ticking = {} /\ marker = FALSE
  /\ alone = FALSE /\ lost = FALSE

is_connected == radio # "down"
is_ap_active == radio = "ap"

(* _run(): what a command may come to, and what a question is answered.    *)
Succeeds(what) == {TRUE} \cup (IF what \in Faults THEN {FALSE} ELSE {})
Answer(really) == {really /\ asked : asked \in Succeeds("read")}

(* _clear_ap_marker(), which swallows the error.                           *)
Cleared == {marker /\ ~done : done \in Succeeds("marker")}

(* Thread t goes on at a step; "for" is what it is about.                  *)
Goes(t, step) == thread' = [thread EXCEPT ![t].at = step]
Ends(t) == thread' = [thread EXCEPT ![t] = Free]
At(t, step) == up /\ thread[t].at = step

-----------------------------------------------------------------------------
(* stop_ap(): _cancel_ap_timer(), _clear_ap_marker(), then nmcli.          *)
CancelTimer == timer' = 0 /\ ticking' = ticking \ {timer}

StopCancels(t) ==
  /\ At(t, "stop")
  /\ CancelTimer
  /\ marker' \in Cleared
  /\ Goes(t, "down")
  /\ UNCHANGED <<radio, up, deaths, alone, lost>>

(* NetworkManager may join a network it knows, or none.  A failure is      *)
(* logged: the callers go on as if the access point were down.             *)
StopDowns(t) ==
  /\ At(t, "down")
  /\ \E ok \in Succeeds("down") :
       /\ radio' \in IF is_ap_active /\ ok THEN {"down", "station"} ELSE {radio}
       /\ alone' = (is_ap_active /\ ~ok)
  /\ Goes(t, IF thread[t].for = "connect" THEN "join" ELSE "look")
  /\ UNCHANGED <<up, deaths, timerVars, marker, lost>>

(* start_ap(): the hotspot, the marker, and _start_ap_timer(), which       *)
(* cancels and creates in two sections of the lock.                        *)
StartHotspot(t) ==
  /\ At(t, "hotspot")
  /\ radio' = "ap"
  /\ lost' = FALSE
  /\ Goes(t, "mark")
  /\ UNCHANGED <<up, deaths, timerVars, marker, alone>>

(* The hotspot fails: no caller looks at what start_ap() returns.          *)
StartFails(t) ==
  /\ At(t, "hotspot") /\ FALSE \in Succeeds("hotspot")
  /\ radio' \in {radio, "down"}
  /\ lost' = (radio' = "down")
  /\ alone' = (alone /\ radio' = "ap")
  /\ Ends(t)
  /\ UNCHANGED <<up, deaths, timerVars, marker>>

StartMarks(t) ==
  /\ At(t, "mark")
  /\ marker' \in {marker \/ written : written \in Succeeds("marker")}
  /\ Goes(t, "cancel")
  /\ UNCHANGED <<radio, up, deaths, timerVars, alone, lost>>

StartCancels(t) ==
  /\ At(t, "cancel")
  /\ CancelTimer
  /\ Goes(t, "create")
  /\ UNCHANGED <<radio, up, deaths, marker, alone, lost>>

StartCreates(t) ==
  /\ At(t, "create")
  /\ \E new \in Timer \ (ticking \cup {timer}) :
       timer' = new /\ ticking' = ticking \cup {new}
  /\ IF thread[t].for = "check"
     THEN thread' = [thread EXCEPT ![t] = [at |-> "look", for |-> "start"]]
     ELSE Ends(t)
  /\ alone' = FALSE
  /\ UNCHANGED <<radio, up, deaths, marker, lost>>

-----------------------------------------------------------------------------
(* The service is still starting and serves no request.                    *)
Starting == \E t \in Thread : thread[t].for \in {"check", "start"}

(* POST /wifi/connect: its thread sleeps for 5 s, and nothing stops a      *)
(* second one.                                                             *)
ConnectAsked(t) ==
  /\ At(t, "free") /\ ~Starting
  /\ thread' = [thread EXCEPT ![t] = [at |-> "begin", for |-> "connect"]]
  /\ UNCHANGED <<radio, up, deaths, timerVars, marker, alone, lost>>

ConnectBegins(t) ==
  /\ At(t, "begin")
  /\ \E active \in Answer(is_ap_active) :
       Goes(t, IF active THEN "stop" ELSE "join")
  /\ UNCHANGED <<radio, up, deaths, timerVars, marker, alone, lost>>

(* Mutant: the access point is not started again after a failure.          *)
AfterJoinEnds(joined) == "free"

(* Joined, or the access point is started again.                           *)
AfterJoin(joined) == IF joined THEN "free" ELSE "hotspot"

(* nmcli dev wifi connect leaves the radio in the network, or, if it       *)
(* fails, down or still the access point it was.                           *)
ConnectJoins(t) ==
  /\ At(t, "join")
  /\ \E joined \in BOOLEAN :
       /\ radio' \in IF joined THEN {"station"}
                     ELSE IF is_ap_active THEN {"ap", "down"} ELSE {"down"}
       /\ thread' = [thread EXCEPT ![t] =
            IF AfterJoin(joined) = "free" THEN Free
            ELSE [@ EXCEPT !.at = AfterJoin(joined)]]
       /\ lost' = (lost /\ ~joined)
  /\ alone' = (alone /\ radio' = "ap")
  /\ UNCHANGED <<up, deaths, timerVars, marker>>

-----------------------------------------------------------------------------
(* A timer fires: _ap_timeout_handler() runs in its thread and forgets the *)
(* timer held, which may be another one.                                   *)
TimerFires(t, n) ==
  /\ At(t, "free") /\ n \in ticking
  /\ ticking' = ticking \ {n}
  /\ timer' = 0
  /\ thread' = [thread EXCEPT ![t] = [at |-> "expired", for |-> "timeout"]]
  /\ UNCHANGED <<radio, up, deaths, marker, alone, lost>>

(* Mutant: a client that is connected ends the matter.                     *)
AfterClientsEnds(clients) == IF clients THEN "free" ELSE "stop"

(* With clients the timer starts again, without the AP stops.              *)
AfterClients(clients) == IF clients THEN "cancel" ELSE "stop"

(* A question about clients that fails counts as none.                     *)
TimerExpired(t) ==
  /\ At(t, "expired")
  /\ \E active \in Answer(is_ap_active), clients \in BOOLEAN :
       /\ IF ~active \/ AfterClients(clients) = "free"
          THEN Ends(t) ELSE Goes(t, AfterClients(clients))
       /\ alone' = (alone \/ (is_ap_active /\ ~active))
  /\ UNCHANGED <<radio, up, deaths, timerVars, marker, lost>>

(* After the AP is down: is the frame connected by now?                    *)
TimerLooks(t) ==
  /\ At(t, "look")
  /\ \E connected \in Answer(is_connected) :
       IF connected THEN Ends(t) ELSE Goes(t, "hotspot")
  /\ UNCHANGED <<radio, up, deaths, timerVars, marker, alone, lost>>

-----------------------------------------------------------------------------
(* The service dies, with its threads and timers; the radio and the marker *)
(* stay as they are, unless the frame loses power.                         *)
Dies ==
  /\ up /\ deaths < MaxDeaths
  /\ up' = FALSE /\ deaths' = deaths + 1
  /\ thread' = [t \in Thread |-> Free]
  /\ timer' = 0 /\ ticking' = {}
  /\ radio' \in {radio, IF radio = "ap" THEN "down" ELSE radio}
  /\ alone' = (radio' = "ap" /\ ~marker)
  /\ UNCHANGED <<marker, lost>>

(* check_stale_ap(): a marker that is too old stops the AP, a younger one  *)
(* starts a timer for the rest, one that cannot be read is removed.        *)
Stale(stale) == IF stale THEN "stop" ELSE "cancel"

(* The service starts: check_stale_ap(), then start_ap() if the frame is   *)
(* not connected, before it serves a request.                              *)
Starts(t) ==
  /\ ~up
  /\ up' = TRUE
  /\ \E stale \in BOOLEAN, readable \in Succeeds("marker") :
       /\ thread' = [thread EXCEPT ![t] =
            [at |-> IF marker /\ readable THEN Stale(stale) ELSE "look",
             for |-> IF marker /\ readable /\ ~stale THEN "check" ELSE "start"]]
       /\ IF readable THEN UNCHANGED marker ELSE marker' \in Cleared
       /\ alone' = (alone \/ (is_ap_active /\ ~readable))
  /\ UNCHANGED <<radio, deaths, timerVars, lost>>

(* The network goes away; nothing watches for it.  NetworkManager may find *)
(* one it knows.                                                           *)
NetworkLost ==
  /\ radio = "station"
  /\ radio' = "down" /\ lost' = TRUE
  /\ UNCHANGED <<up, deaths, thread, timerVars, marker, alone>>

NetworkFound ==
  /\ radio = "down"
  /\ radio' = "station" /\ lost' = FALSE
  /\ UNCHANGED <<up, deaths, thread, timerVars, marker, alone>>

Step(t) ==
  \/ StopCancels(t) \/ StopDowns(t)
  \/ StartHotspot(t) \/ StartFails(t) \/ StartMarks(t) \/ StartCancels(t) \/ StartCreates(t)
  \/ ConnectBegins(t) \/ ConnectJoins(t) \/ TimerExpired(t) \/ TimerLooks(t)

Next ==
  \/ \E t \in Thread : Step(t) \/ ConnectAsked(t) \/ Starts(t)
                         \/ \E n \in Timer : TimerFires(t, n)
  \/ Dies \/ NetworkLost \/ NetworkFound

Spec == Init /\ [][Next]_vars

(* systemd starts the service again, and a thread that can go on does.     *)
FairSpec ==
  /\ Spec
  /\ \A t \in Thread : WF_vars(Step(t))
  /\ WF_vars(\E t \in Thread : Starts(t))

-----------------------------------------------------------------------------
Steps == {"free", "stop", "down", "hotspot", "mark", "cancel", "create",
          "begin", "join", "expired", "look"}

TypeOK ==
  /\ radio \in {"down", "station", "ap"} /\ up \in BOOLEAN
  /\ deaths \in 0..MaxDeaths
  /\ thread \in [Thread -> [at : Steps, for : {"nothing", "connect", "timeout",
                                               "start", "check"}]]
  /\ timer \in ticking \cup {0} /\ ticking \subseteq Timer
  /\ {marker, alone, lost} \subseteq BOOLEAN
  /\ ~up => ticking = {} /\ \A t \in Thread : thread[t] = Free

(* An access point, which is open to everyone, is left alone only by what   *)
(* fails: while the service is up and nobody is at work on the radio some  *)
(* timer will look at it, whatever threads have stopped and started it and *)
(* wherever the service has died, unless the last to see to it was stopped *)
(* by a command or a marker that failed, or died before it was marked.     *)
ApIsWatched ==
  up /\ is_ap_active /\ (\A t \in Thread : thread[t] = Free)
    => ticking # {} \/ alone

(* The frame does not stay out of reach: a radio that is down comes up as  *)
(* station or access point, unless it was up and lost its network, of      *)
(* which nothing tells the service, or the access point failed to start,   *)
(* which nobody tries again.                                               *)
ComesBack == (radio = "down" /\ ~lost) ~> (radio # "down" \/ lost)
=============================================================================
