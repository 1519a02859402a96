------------------------------ MODULE Hotspot -------------------------------
(***************************************************************************)
(* How the portal gets onto a network (portal/portal.c): it tries the      *)
(* network it knows, and opens a hotspot of its own when that fails; one   *)
(* of two servers, masterconn or apconn, serves port 80.                   *)
(*                                                                         *)
(* External: the SDK.  station is what its station interface does, events  *)
(* is what it will report to wifi_handle_event_cb, in order.  It accepts   *)
(* one server on a port, and deletes none that still has connections.  It  *)
(* reports that a network was lost or left; a change of the mode and a try *)
(* that comes to nothing it may report or not.                             *)
(***************************************************************************)
EXTENDS Sequences, Naturals

CONSTANT
  MaxEvents   \* bound: how many events wait before the SDK reports another,
              \* or the portal is told to try another network

VARIABLES
  opmode,      \* STATION or SOFTAP
  station,     \* idle, joining, joined or addressed
  events,      \* STAMODE_... events; OTHER is OPMODE_CHANGED or any event of
               \* the hotspot
  oneshotInit, \* oneshot_init_t is armed
  errorTimer,  \* error_timer_t is armed
  server,      \* masterconn, apconn or none
  lamps        \* which of pin_station and pin_ap are high

wifiVars == <<opmode, station, events, oneshotInit, errorTimer, server, lamps>>

(* The opmode is in flash, as the last one to set it left it.              *)
WifiInit ==
  /\ opmode \in {"STATION", "SOFTAP"}
  /\ station = "idle"
  /\ events = <<>>
  /\ oneshotInit = TRUE
  /\ errorTimer = FALSE
  /\ server = "none"
  /\ lamps = {}

-----------------------------------------------------------------------------
(* THE SDK                                                                 *)

(* espconn_accept and espconn_delete: the server after them.               *)
Accept(conn, s) == IF s = "none" THEN conn ELSE s
Delete(conn, s, connected) == IF s = conn /\ ~connected THEN "none" ELSE s

(* What may be reported when the station interface is told to stop.        *)
Reports ==
  CASE station = "idle" -> {<<>>}
    [] station = "joining" -> {<<>>, <<"DISCONNECTED">>}
    [] OTHER -> {<<"DISCONNECTED">>}

(* What wifi_set_opmode may report: that whoever was in the hotspot left   *)
(* it, or that the mode was set, whatever it was before: display.c relies  *)
(* on such an event, and the list of events in portal.c has none.          *)
ModeReports == {<<>>, <<"OTHER">>}

Report(event) ==
  /\ Len(events) < MaxEvents
  /\ events' = Append(events, event)

StationChanges(from, to, event) ==
  /\ opmode = "STATION"
  /\ station \in from
  /\ station' = to
  /\ Report(event)
  /\ UNCHANGED <<opmode, oneshotInit, errorTimer, server, lamps>>

Network ==
  \/ StationChanges({"joining"}, "joined", "CONNECTED")
  \/ StationChanges({"joined"}, "addressed", "GOT_IP")
  \/ StationChanges({"joining", "joined", "addressed"}, "joining", "DISCONNECTED")
  \/ StationChanges({"joined"}, "joined", "DHCP_TIMEOUT")
  \/ StationChanges({"joined"}, "joined", "AUTHMODE_CHANGE")

(* Somebody joins or leaves the hotspot, or looks for one.                 *)
Visitor ==
  /\ opmode = "SOFTAP"
  /\ "OTHER" \notin {events[i] : i \in DOMAIN events}
  /\ Report("OTHER")
  /\ UNCHANGED <<opmode, station, oneshotInit, errorTimer, server, lamps>>

-----------------------------------------------------------------------------
(* THE PORTAL                                                              *)

(* connectAP, with the events left to handle and the server before it.     *)
ConnectAP(rest, s) ==
  /\ lamps' = {"ap"}
  /\ opmode' = "SOFTAP"
  /\ station' = "idle"
  /\ \E report \in Reports, modeReport \in ModeReports :
       events' = rest \o report \o modeReport
  /\ server' = Accept("apconn", s)

(* oneshot_init, 100 ms after the boot.  The timer is armed before what    *)
(* the mode change reports is handled, which disarms it.                   *)
OneshotInit ==
  /\ oneshotInit
  /\ oneshotInit' = FALSE
  /\ opmode' = "STATION"
  /\ station' = "joining"
  /\ \E modeReport \in ModeReports : events' = events \o modeReport
  /\ errorTimer' = TRUE
  /\ UNCHANGED <<server, lamps>>

(* error_timer                                                             *)
ErrorTimer ==
  /\ errorTimer
  /\ errorTimer' = FALSE
  /\ ConnectAP(events, server)
  /\ UNCHANGED oneshotInit

(* connectStation, for the page setwifi.html, which a client asks for      *)
Online == station = "addressed"
Served == server # "none" /\ (opmode = "SOFTAP" \/ Online)

ConnectStation ==
  /\ Served
  /\ Len(events) < MaxEvents
  /\ opmode' = "STATION"
  /\ station' = "joining"
  /\ \E modeReport \in ModeReports, report \in Reports :
       events' = events \o modeReport \o report
  /\ errorTimer' = TRUE
  /\ UNCHANGED <<oneshotInit, server, lamps>>

(* The cases of wifi_handle_event_cb; connected: the server it may delete  *)
(* has connections.  Every event disarms error_timer_t first.              *)
Connected ==
  /\ errorTimer' = TRUE
  /\ lamps' = {}
  /\ events' = Tail(events)
  /\ UNCHANGED <<opmode, station, server>>

GotIpAcceptsFirst(connected) ==
  /\ errorTimer' = FALSE
  /\ lamps' = lamps \cup {"station"}
  /\ server' = Delete("apconn", Accept("masterconn", server), connected)
  /\ events' = Tail(events)
  /\ UNCHANGED <<opmode, station>>

GotIp(connected) ==
  /\ errorTimer' = FALSE
  /\ lamps' = lamps \cup {"station"}
  /\ server' = Accept("masterconn", Delete("apconn", server, connected))
  /\ events' = Tail(events)
  /\ UNCHANGED <<opmode, station>>

Disconnected(connected) ==
  /\ errorTimer' = FALSE
  /\ ConnectAP(Tail(events), Delete("masterconn", server, connected))

NoAddress ==
  /\ errorTimer' = FALSE
  /\ ConnectAP(Tail(events), server)

OtherEvent ==
  /\ errorTimer' = FALSE
  /\ events' = Tail(events)
  /\ UNCHANGED <<opmode, station, server, lamps>>

WifiHandleEventForgetsTimer(connected) ==
  /\ events # <<>>
  /\ \/ /\ Head(events) = "CONNECTED"
        /\ errorTimer' = FALSE
        /\ lamps' = {}
        /\ events' = Tail(events)
        /\ UNCHANGED <<opmode, station, server>>
     \/ Head(events) = "GOT_IP" /\ GotIp(connected)
     \/ Head(events) = "DISCONNECTED" /\ Disconnected(connected)
     \/ Head(events) \in {"AUTHMODE_CHANGE", "DHCP_TIMEOUT"} /\ NoAddress
     \/ Head(events) = "OTHER" /\ OtherEvent
  /\ UNCHANGED oneshotInit

WifiHandleEvent(connected) ==
  /\ events # <<>>
  /\ \/ Head(events) = "CONNECTED" /\ Connected
     \/ Head(events) = "GOT_IP" /\ GotIp(connected)
     \/ Head(events) = "DISCONNECTED" /\ Disconnected(connected)
     \/ Head(events) \in {"AUTHMODE_CHANGE", "DHCP_TIMEOUT"} /\ NoAddress
     \/ Head(events) = "OTHER" /\ OtherEvent
  /\ UNCHANGED oneshotInit

(* tcp_connTask, for led.json, inverts the lamp of the station.            *)
ToggleLed == lamps' = (lamps \ {"station"}) \cup ({"station"} \ lamps)

LedJson ==
  /\ server # "none"
  /\ ToggleLed
  /\ UNCHANGED <<opmode, station, events, oneshotInit, errorTimer, server>>

HotspotNext ==
  \/ Network \/ Visitor
  \/ OneshotInit \/ ErrorTimer
  \/ ConnectStation
  \/ \E connected \in BOOLEAN : WifiHandleEvent(connected)
  \/ LedJson

HotspotSpec == WifiInit /\ [][HotspotNext]_wifiVars

(* The SDK runs timers, hands over events, and reports in the end how each *)
(* try to join a network went.  That a network ever takes the portal, or   *)
(* gives it an address, is not assumed.                                    *)
TryEnds == station = "joining" /\ Network

HotspotFairness ==
  /\ WF_wifiVars(OneshotInit)
  /\ WF_wifiVars(ErrorTimer)
  /\ WF_wifiVars(\E connected \in BOOLEAN : WifiHandleEvent(connected))
  /\ WF_wifiVars(TryEnds)

HotspotFairSpec == HotspotSpec /\ HotspotFairness

-----------------------------------------------------------------------------
(* PROPERTIES                                                              *)

(* Whatever the order in which networks come and go and are reported, and  *)
(* although a server cannot be deleted while it has connections: when all  *)
(* is reported, a portal that is on a network or has opened its hotspot    *)
(* serves port 80.                                                         *)
Reachable ==
  (opmode = "SOFTAP" \/ Online) /\ events = <<>> /\ ~oneshotInit => server # "none"

(* A portal that tries a network ends on it or opens its hotspot,          *)
(* whatever is reported meanwhile: each event disarms the timer that would *)
(* end a try, and that of the mode change the one that was just armed.     *)
Settles == opmode = "STATION" ~> Served
=============================================================================
