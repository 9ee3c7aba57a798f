---------------------------- MODULE WifiCommands ----------------------------
(***************************************************************************)
(* The Wi-Fi side of NetworkDaemon (src/src/service/network_daemon.cpp):   *)
(* the client commands run on the reactor thread, wpa_supplicant changes   *)
(* the link on its own and because of them, and the WPA monitor thread     *)
(* hands the link events to WifiManager, which starts and stops DHCP.      *)
(*                                                                         *)
(* The reactor is blocked during a command, so the supplicant requests of  *)
(* one command are one step; stop_dhcp, which takes WifiManager's locks,   *)
(* is not part of that step.  WpaMonitor.tla models the monitor itself:    *)
(* here it reads STATUS after attaching, then the events in their order.   *)
(***************************************************************************)
EXTENDS WifiManager, WifiProfiles

CONSTANTS
    MaxFaults,    \* bound: requests that fail or time out
    MaxChanges,   \* bound: associations and supplicant restarts
    Home          \* the network that is saved when the daemon starts

ASSUME BoundAssumption == MaxFaults \in Nat /\ MaxChanges \in Nat
ASSUME HomeAssumption == Home \in Ssids

VARIABLES
    sup,      \* wpa_supplicant (WifiProfiles.tla)
    command,  \* the command the reactor is executing after its stop_dhcp
    excused,  \* history: since the last CONNECTED, a command that stops DHCP
              \* reported failure, or STATUS could not be read
    changes   \* associations and restarts so far

cvars == <<sup, command, excused, changes>>
allvars == <<vars, cvars>>

\* The daemon starts: networks as saved, the link up or not, STATUS unread.
CmdInit ==
    /\ Init
    /\ LET nets == [i \in Ids |-> IF i = 0 THEN [ssid |-> Home, on |-> TRUE, fate |-> "active"]
                                            ELSE NoProfile]
       IN  \E linked \in {NoId, 0} :
             sup = [nets |-> nets, saved |-> nets, up |-> TRUE, barred |-> FALSE,
                    link |-> linked, news |-> <<"status">>, faults |-> MaxFaults]
    /\ command = "none" /\ excused = FALSE /\ changes = 0

-----------------------------------------------------------------------------
(* Commands. *)
Reactor(t) == t \in ControlThreads /\ pc[t] = "idle"

\* A command that leaves DHCP to the link events.
Request(outs) ==
    /\ command = "none"
    /\ \E t \in ControlThreads : Reactor(t)
    /\ \E o \in outs : sup' = o.s
    /\ UNCHANGED <<vars, command, excused, changes>>

wifi_connect(ssid) == next_id(sup) \in Ids /\ Request(connect_new(sup, ssid))
wifi_connect_saved(ssid) == Request(connect_saved(sup, ssid))
wifi_forget(ssid) == Request(forget(sup, ssid))
wifi_set_autoconnect(ssid, on) == Request(set_autoconnect(sup, ssid, on))
wifi_enable == Request(wifi_set_enabled(sup, TRUE))

\* wifi_disconnect() and wifi_set_enabled(false) stop DHCP before anything else.
StopFirst(t) ==
    /\ command = "none"
    /\ stop_dhcp(t)
    /\ command' \in {"disconnect", "disable"}
    /\ UNCHANGED <<sup, excused, changes>>

StopRequest ==
    CASE command = "disconnect" -> wifi_disconnect(sup)
      [] command = "disable" -> wifi_set_enabled(sup, FALSE)
      [] OTHER -> {}

StopThen(t) ==
    /\ command # "none" /\ Reactor(t)
    /\ \E o \in StopRequest : sup' = o.s /\ excused' = (excused \/ ~o.ok)
    /\ command' = "none"
    /\ UNCHANGED <<vars, changes>>

\* The reactor's tick, and the rest of the calls it is in.
Tick(t) ==
    /\ command = "none" \/ pc[t] # "idle"
    /\ reconcile_dhcp_process(t)
    /\ UNCHANGED cvars

-----------------------------------------------------------------------------
(* wpa_supplicant and the DHCP client on their own. *)
Associate(i) ==
    /\ changes < MaxChanges /\ changes' = changes + 1
    /\ sup.up /\ ~sup.barred /\ sup.link = NoId
    /\ i \in Used(sup) /\ sup.nets[i].on /\ sup.nets[i].ssid # NoSsid
    /\ sup' = [sup EXCEPT !.link = i, !.news = Append(@, "up")]
    /\ UNCHANGED <<vars, command, excused>>

LinkLost ==
    /\ sup.link # NoId
    /\ sup' = Drop(sup)
    /\ UNCHANGED <<vars, command, excused, changes>>

\* It comes back with the saved networks; the monitor attaches again.
SupplicantRestart ==
    /\ changes < MaxChanges /\ changes' = changes + 1
    /\ sup' = [sup EXCEPT !.nets = sup.saved, !.link = NoId, !.barred = FALSE,
                          !.news = <<"status">>]
    /\ UNCHANGED <<vars, command, excused>>

ClientDies == ClientExits /\ UNCHANGED cvars

-----------------------------------------------------------------------------
(* The monitor thread. *)
Says(connected) == Head(sup.news) = IF connected THEN "up" ELSE "down"
StatusSays(connected) == Head(sup.news) = "status" /\ connected = (sup.link # NoId)

Deliver(t) ==
    /\ pc[t] = "idle" /\ sup.news # <<>>
    /\ sup' = [sup EXCEPT !.news = Tail(@)]
    /\ \/ /\ Says(TRUE) \/ StatusSays(TRUE)
          /\ ConnectedReserve(t) /\ excused' = FALSE
       \/ /\ Says(FALSE) \/ StatusSays(FALSE)
          /\ on_l2_disconnected(t) /\ UNCHANGED excused
    /\ UNCHANGED <<command, changes>>

\* No STATUS reply: WifiManager is told nothing.
StatusFails(t) ==
    /\ pc[t] = "idle" /\ sup.news # <<>> /\ Head(sup.news) = "status"
    /\ \E o \in Failed([sup EXCEPT !.news = Tail(@)]) : sup' = o.s
    /\ excused' = TRUE
    /\ UNCHANGED <<vars, command, changes>>

\* The rest of on_l2_connected, and the stops both threads owe.  One thread
\* delivers both L2 events, so ConnectedCancel cannot happen here.
Continue(t) ==
    /\ \/ ConnectedAcquire(t) \/ ConnectedProceed(t)
       \/ StartSucceeds(t) \/ StartFails(t) \/ ConnectedFailed(t) \/ ConnectedStarted(t)
       \/ StopStep(t)
    /\ UNCHANGED cvars

Commands ==
    \/ \E ssid \in Ssids :
         \/ wifi_connect(ssid) \/ wifi_connect_saved(ssid) \/ wifi_forget(ssid)
         \/ \E on \in BOOLEAN : wifi_set_autoconnect(ssid, on)
    \/ wifi_enable
    \/ \E t \in ControlThreads : StopFirst(t) \/ StopThen(t) \/ Tick(t)

CmdNext ==
    \/ Commands
    \/ \E t \in L2Threads : Deliver(t) \/ StatusFails(t)
    \/ \E t \in Threads : Continue(t)
    \/ \E i \in Ids : Associate(i)
    \/ LinkLost \/ SupplicantRestart \/ ClientDies

CmdSpec == CmdInit /\ [][CmdNext]_allvars

\* Both threads are scheduled, their calls return, and the monitor reads what
\* waits on its socket; nothing is assumed of callers, supplicant and udhcpc.
CmdFairSpec ==
    /\ CmdSpec
    /\ \A t \in Threads : WF_allvars(Continue(t))
    /\ \A t \in L2Threads : WF_allvars(Deliver(t) \/ StatusFails(t))
    /\ \A t \in ControlThreads : WF_allvars(StopThen(t)) /\ WF_allvars(Tick(t))

-----------------------------------------------------------------------------
(* Properties *)
\* Types of the variables.
CmdTypeOK ==
    /\ TypeOK
    /\ sup.nets \in [Ids -> Profile \cup {NoProfile}]
    /\ sup.saved \in [Ids -> Profile \cup {NoProfile}]
    /\ sup.link \in Ids \cup {NoId} /\ sup.up \in BOOLEAN /\ sup.barred \in BOOLEAN
    /\ sup.faults \in Nat
    /\ command \in {"none", "disconnect", "disable"} /\ excused \in BOOLEAN

\* Nothing is in progress: all calls returned, all events were read.
Quiet == (\A t \in Threads : pc[t] = "idle") /\ sup.news = <<>> /\ command = "none"

\* No transient profile is left behind (wifi_backend.cpp:247-250 and
\* wifi_profile_policy.cpp:62-64): whatever request of connect_new or
\* create_profile fails, at runtime and in the saved configuration there are only
\* profiles whose activation succeeded, or whose removal was itself not answered.
NoTransientProfile ==
    \A i \in Ids : sup.nets[i].fate # "new" /\ sup.saved[i].fate # "new"

\* No client outlives the link: when nothing is in progress and the link is down,
\* no DHCP client of the service runs, adopted ones and races of a stop command
\* with a start in progress included, unless STATUS was not readable.
NoClientWithoutLink == Quiet /\ sup.link = NoId => ~running \/ excused

\* A connect takes effect although isolating the profile is only best effort: when
\* a profile becomes active, it is enabled and no other profile is.
ConnectIsolates ==
    [][\A i \in Ids : sup'.nets[i].fate = "active" /\ sup.nets[i].fate # "active"
                      /\ changes' = changes
         => \A j \in Ids : sup'.nets[j].on <=> i = j]_allvars

\* A link that stays up is served, never silently left without DHCP: a client runs
\* for it or its failure is shown, unless the command that stopped DHCP told its
\* caller that it failed, or STATUS was not readable.
LinkServed ==
    sup.link # NoId ~> \/ sup.link = NoId \/ excused
                       \/ dhcp_state \in {"Running", "Failed"}
=============================================================================
