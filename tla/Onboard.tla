------------------------------ MODULE Onboard -------------------------------
(***************************************************************************)
(* The wizard of the first start (Onboard.jsx), as far as it goes: its     *)
(* first step.  It waits for an answer with "success", and the server      *)
(* answers a request to connect at once with "status" and "ssid" only, so  *)
(* that every answer is a CONNECTION FAULT and no later step is reached.   *)
(* Left out: those steps, signal bars, toasts, and what the server does    *)
(* about the network, for which see WiFi.                                  *)
(***************************************************************************)
EXTENDS PageCalls

CONSTANTS
  Network,   \* the networks a scan may find
  Secured    \* those with a password

(* The wizard begins with two requests.                                    *)
ASSUME OnboardAssumption == Secured \subseteq Network /\ MaxCalls >= 2

VARIABLES
  wizard,         \* "WIFI", or "left" for the upload page
  scanning,       \* scanning
  networks,       \* networks
  selectedNet,    \* selected
  connecting,     \* connecting
  errorStep,      \* errorStep = "WIFI"
  wizardCalls     \* requests under way

wizardVars == <<wizard, scanning, networks, selectedNet, connecting, errorStep,
                wizardCalls>>

NoNetwork == "no network"

OnboardInit ==
  /\ wizard = "WIFI" /\ scanning = TRUE /\ networks = {}
  /\ selectedNet = NoNetwork /\ connecting = FALSE /\ errorStep = FALSE
  /\ wizardCalls = Send(Send(Quiet, [do |-> "settings"]), [do |-> "scan"])

(* /api/settings: a frame that is set up needs no wizard.                  *)
WizardSettings(n) ==
  /\ wizardCalls[n].do = "settings"
  /\ wizard' \in {"left", wizard}
  /\ wizardCalls' = Over(wizardCalls, n)
  /\ UNCHANGED <<scanning, networks, selectedNet, connecting, errorStep>>

-----------------------------------------------------------------------------
(* doScan()                                                                *)
Rescan ==
  /\ wizard = "WIFI" /\ ~scanning /\ Room(wizardCalls, 1)
  /\ networks = {} \/ (selectedNet = NoNetwork /\ ~connecting)
  /\ scanning' = TRUE /\ errorStep' = FALSE
  /\ wizardCalls' = Send(wizardCalls, [do |-> "scan"])
  /\ UNCHANGED <<wizard, networks, selectedNet, connecting>>

(* The networks of the answer, or SCAN FAULT and those of before.          *)
ScanAnswered(n) ==
  /\ wizardCalls[n].do = "scan"
  /\ scanning' = FALSE
  /\ \/ networks' \in SUBSET Network /\ UNCHANGED errorStep
     \/ errorStep' = TRUE /\ UNCHANGED networks
  /\ wizardCalls' = Over(wizardCalls, n)
  /\ UNCHANGED <<wizard, selectedNet, connecting>>

-----------------------------------------------------------------------------
(* Something is shown of the networks.                                     *)
Listed == wizard = "WIFI" /\ ~scanning /\ networks # {} /\ ~connecting

(* doConnect()                                                             *)
doConnect ==
  /\ Room(wizardCalls, 1)
  /\ connecting' = TRUE
  /\ wizardCalls' = Send(wizardCalls, [do |-> "connect"])

(* handleSelect(): an open network needs no password.                      *)
handleSelect(net) ==
  /\ Listed /\ selectedNet = NoNetwork /\ net \in networks
  /\ selectedNet' = net /\ errorStep' = FALSE
  /\ IF net \in Secured THEN UNCHANGED <<connecting, wizardCalls>>
     ELSE doConnect
  /\ UNCHANGED <<wizard, scanning, networks>>

(* CONNECT of the form, also for an open network that did not answer.      *)
handleConnect ==
  /\ Listed /\ selectedNet # NoNetwork
  /\ errorStep' = FALSE
  /\ doConnect
  /\ UNCHANGED <<wizard, scanning, networks, selectedNet>>

(* BACK of the form.                                                       *)
BackToNetworks ==
  /\ Listed /\ selectedNet # NoNetwork
  /\ selectedNet' = NoNetwork
  /\ UNCHANGED <<wizard, scanning, networks, connecting, errorStep, wizardCalls>>

(* Whatever the answer is, it has no "success".                            *)
ConnectAnswered(n) ==
  /\ wizardCalls[n].do = "connect"
  /\ connecting' = FALSE /\ errorStep' = TRUE
  /\ wizardCalls' = Over(wizardCalls, n)
  /\ UNCHANGED <<wizard, scanning, networks, selectedNet>>

OnboardNext ==
  \/ Rescan \/ handleConnect \/ BackToNetworks
  \/ \E net \in Network : handleSelect(net)
  \/ \E n \in Slot : WizardSettings(n) \/ ScanAnswered(n) \/ ConnectAnswered(n)

OnboardSpec == OnboardInit /\ [][OnboardNext]_wizardVars

-----------------------------------------------------------------------------
(* What is shown as under way is under way, and one thing at a time.       *)
OnboardTypeOK ==
  /\ wizard \in {"WIFI", "left"} /\ networks \subseteq Network
  /\ selectedNet \in Network \cup {NoNetwork} /\ errorStep \in BOOLEAN
  /\ scanning = Busy(wizardCalls, "scan")
  /\ connecting = Busy(wizardCalls, "connect")
  /\ ~(scanning /\ connecting)
=============================================================================
