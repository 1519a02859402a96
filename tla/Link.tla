-------------------------------- MODULE Link --------------------------------
(***************************************************************************)
(* How the display gets onto a network (display/display.c): as a station   *)
(* of a known base station or, failing that, as an access point that a     *)
(* phone joins to tell it another one.  The SDK reports what happens to    *)
(* the station as events, which reach wifi_handle_event_cb later and in    *)
(* order; two timers change the mode meanwhile.  Each event is handled     *)
(* together with the beacon it starts (module Beacon).                     *)
(*                                                                         *)
(* The SDK, as the code uses it: wifi_set_opmode always reports the mode   *)
(* ("will cause event of type 8 in wifi callback", display.c:152), and a   *)
(* station that loses its base station, by whatever call, is reported as   *)
(* disconnected.                                                           *)
(***************************************************************************)
EXTENDS Beacon, SequencesExt

CONSTANT MaxEvents   \* bound: events under way before the SDK makes up another

ASSUME LinkAssumption == MaxEvents \in Nat

VARIABLES
  opmode,        \* the SDK's wifi mode
  station,       \* the SDK's station: OFF, TRYING, CONNECTED, UP
  events,        \* events not yet handed to wifi_handle_event_cb
  errorTimer,    \* gs_error_timer is armed
  connectTimer,  \* gs_station_connect_timer is armed
  gbReady,       \* gb_ready
  led,           \* the last of the LED_ macros
  crashed,       \* the processor took an exception
  disarmed       \* history: an event without a case of its own was reported
                 \* of a station, or behind the mode that makes it one

linkVars == <<opmode, station, events, errorTimer, connectTimer, gbReady, led,
              crashed, disarmed>>
deviceVars == <<linkVars, beaconVars>>

OpModes == {"OPMODE_STATION", "OPMODE_SOFTAP"}

SdkReports == {"CONNECTED", "DISCONNECTED", "GOT_IP", "DHCP_TIMEOUT",
               "AUTHMODE_CHANGE", "SOFTAP_CLIENT"}

(* After user_init, which has set the mode.                                *)
LinkInit ==
  /\ BeaconStart
  /\ opmode = "OPMODE_STATION"
  /\ station = "TRYING"
  /\ events = <<"OPMODE_STATION">>
  /\ errorTimer = FALSE
  /\ connectTimer = FALSE
  /\ gbReady = FALSE
  /\ led = "POWERON"
  /\ crashed = FALSE
  /\ disarmed = FALSE

-----------------------------------------------------------------------------
(* The macros LED_POWERON, LED_AP, LED_CONNECTED and LED_READY.            *)
Led(state) ==
  /\ led' = state
  /\ gbReady' = (state = "READY")

Associated == station \in {"CONNECTED", "UP"}

(* What the SDK still reports of a station that is taken off the air.      *)
Leaving == IF Associated THEN <<"DISCONNECTED">> ELSE <<>>

(* connect_ap, with the events that are still to be handled; the request   *)
(* timer it disarms is in module Tracker.                                  *)
ConnectAp(waiting) ==
  /\ Led("AP")
  /\ opmode' = "OPMODE_SOFTAP"
  /\ station' = "OFF"
  /\ events' = waiting \o Leaving \o <<"OPMODE_SOFTAP">>

-----------------------------------------------------------------------------
(* wifi_handle_event_cb, one action for each case.                         *)
Handles(event) == events # <<>> /\ Head(events) = event

(* Every event but DISCONNECTED disarms the error timer first.             *)
HandleConnected ==
  /\ Handles("CONNECTED")
  /\ errorTimer' = TRUE
  /\ Led("CONNECTED")
  /\ events' = Tail(events)
  /\ UNCHANGED <<opmode, station, beaconVars>>

HandleGotIp ==
  /\ Handles("GOT_IP")
  /\ errorTimer' = FALSE
  /\ Led("READY")
  /\ events' = Tail(events)
  /\ InitBeacon(30000, TRUE)
  /\ UNCHANGED <<opmode, station>>

(* A short loss looks like part of the connection process.                 *)
HandleDisconnectedIgnored ==
  /\ Handles("DISCONNECTED")
  /\ events' = Tail(events)
  /\ UNCHANGED <<led, gbReady, errorTimer, opmode, station, beaconVars>>

HandleDisconnected ==
  /\ Handles("DISCONNECTED")
  /\ Led("POWERON")
  /\ events' = Tail(events)
  /\ UNCHANGED <<errorTimer, opmode, station, beaconVars>>

HandleDhcpTimeout ==
  /\ Handles("DHCP_TIMEOUT")
  /\ errorTimer' = FALSE
  /\ ConnectAp(Tail(events))
  /\ UNCHANGED beaconVars

HandleStationModeNoTimeout ==
  /\ Handles("OPMODE_STATION")
  /\ errorTimer' = FALSE
  /\ Led("POWERON")
  /\ events' = Tail(events) \o Leaving
  /\ station' = IF opmode = "OPMODE_STATION" THEN "TRYING" ELSE "OFF"
  /\ UNCHANGED <<opmode, beaconVars>>

(* wifi_station_connect does nothing in the other mode.                    *)
HandleStationMode ==
  /\ Handles("OPMODE_STATION")
  /\ errorTimer' = TRUE
  /\ Led("POWERON")
  /\ events' = Tail(events) \o Leaving
  /\ station' = IF opmode = "OPMODE_STATION" THEN "TRYING" ELSE "OFF"
  /\ UNCHANGED <<opmode, beaconVars>>

HandleSoftApModeToAll ==
  /\ Handles("OPMODE_SOFTAP")
  /\ errorTimer' = FALSE
  /\ events' = Tail(events)
  /\ InitBeacon(7500, TRUE)
  /\ UNCHANGED <<led, gbReady, opmode, station>>

HandleSoftApModeKeepsTimer ==
  /\ Handles("OPMODE_SOFTAP")
  /\ events' = Tail(events)
  /\ InitBeacon(7500, FALSE)
  /\ UNCHANGED <<errorTimer, led, gbReady, opmode, station>>

HandleSoftApMode ==
  /\ Handles("OPMODE_SOFTAP")
  /\ errorTimer' = FALSE
  /\ events' = Tail(events)
  /\ InitBeacon(7500, FALSE)
  /\ UNCHANGED <<led, gbReady, opmode, station>>

(* Events without a case of their own.                                     *)
HandleOther ==
  /\ Handles("AUTHMODE_CHANGE") \/ Handles("SOFTAP_CLIENT")
  /\ errorTimer' = FALSE
  /\ events' = Tail(events)
  /\ UNCHANGED <<led, gbReady, opmode, station, beaconVars>>

WifiHandleEvent ==
  /\ \/ HandleConnected
     \/ HandleGotIp
     \/ HandleDisconnected
     \/ HandleDhcpTimeout
     \/ HandleStationMode
     \/ HandleSoftApMode
     \/ HandleOther
  /\ UNCHANGED <<connectTimer, crashed, disarmed>>

-----------------------------------------------------------------------------
(* error_timer: wifi_station_disconnect, then connect_ap.                  *)
ErrorTimer ==
  /\ errorTimer
  /\ errorTimer' = FALSE
  /\ ConnectAp(events)
  /\ UNCHANGED <<connectTimer, crashed, disarmed, beaconVars>>

(* connect_station.                                                        *)
ConnectStation == connectTimer' = TRUE

(* setwifi_action, called by a phone that reaches the HTTP server.         *)
SetWifi ==
  /\ opmode = "OPMODE_SOFTAP" \/ station = "UP"
  /\ udp   \* http_init has run: it is called just before beacon_init
  /\ Len(events) < MaxEvents
  /\ ConnectStation
  /\ UNCHANGED <<opmode, station, events, errorTimer, gbReady, led, crashed,
                 disarmed, beaconVars>>

(* station_connect_timer.  That a phone is put off the access point may be *)
(* reported too, and late.                                                 *)
StationConnectTimer ==
  /\ connectTimer
  /\ connectTimer' = FALSE
  /\ opmode' = "OPMODE_STATION"
  /\ \/ /\ events' = Append(events, "OPMODE_STATION")
        /\ UNCHANGED disarmed
     \/ /\ opmode = "OPMODE_SOFTAP"
        /\ events' = Append(Append(events, "SOFTAP_CLIENT"), "OPMODE_STATION")
        /\ UNCHANGED disarmed
     \/ /\ opmode = "OPMODE_SOFTAP"
        /\ events' = Append(Append(events, "OPMODE_STATION"), "SOFTAP_CLIENT")
        /\ disarmed' = TRUE
  /\ UNCHANGED <<station, errorTimer, gbReady, led, crashed, beaconVars>>

(* beacon_timer.                                                           *)
BeaconDue == BeaconTimer /\ UNCHANGED linkVars

(* button_timer sets the brightness, which uConf broadcasts whether or not *)
(* there is a network.                                                     *)
ButtonSetsBrightness ==
  /\ \/ BroadcastCrashes /\ crashed' = TRUE /\ UNCHANGED beaconVars
     \/ Broadcast /\ UNCHANGED crashed
  /\ UNCHANGED <<opmode, station, events, errorTimer, connectTimer, gbReady,
                 led, disarmed>>

-----------------------------------------------------------------------------
(* The SDK's station.                                                      *)
SdkReport(event, newStation) ==
  /\ Len(events) < MaxEvents
  /\ events' = Append(events, event)
  /\ station' = newStation
  /\ disarmed' = (disarmed \/ event = "AUTHMODE_CHANGE")
  /\ UNCHANGED <<opmode, errorTimer, connectTimer, gbReady, led, crashed,
                 beaconVars>>

Associate == station = "TRYING" /\ SdkReport("CONNECTED", "CONNECTED")

GetIp == station = "CONNECTED" /\ SdkReport("GOT_IP", "UP")

(* It goes on trying.                                                      *)
LoseBase == station # "OFF" /\ SdkReport("DISCONNECTED", "TRYING")

DhcpFails == station = "CONNECTED" /\ SdkReport("DHCP_TIMEOUT", station)

AuthModeChanges == Associated /\ SdkReport("AUTHMODE_CHANGE", station)

PhoneSeen == opmode = "OPMODE_SOFTAP" /\ SdkReport("SOFTAP_CLIENT", station)

Sdk == Associate \/ GetIp \/ LoseBase \/ DhcpFails \/ AuthModeChanges \/ PhoneSeen

-----------------------------------------------------------------------------
LinkNext ==
  /\ ~crashed
  /\ \/ WifiHandleEvent
     \/ ErrorTimer
     \/ SetWifi
     \/ StationConnectTimer
     \/ BeaconDue
     \/ ButtonSetsBrightness
     \/ Sdk

LinkSpec == LinkInit /\ [][LinkNext]_deviceVars

(* Events are handled and the timers of the connection and of the beacon   *)
(* expire.  The error timer expires unless it is armed again before, and   *)
(* again, which only a new association or a new mode does.                 *)
LinkFairness ==
  /\ WF_deviceVars(~crashed /\ WifiHandleEvent)
  /\ WF_deviceVars(~crashed /\ StationConnectTimer)
  /\ WF_deviceVars(~crashed /\ BeaconDue)
  /\ \/ []<><<ErrorTimer>>_deviceVars
     \/ []<>(~errorTimer \/ crashed)
     \/ []<><<HandleConnected \/ HandleStationMode>>_deviceVars

LinkFairSpec == LinkSpec /\ LinkFairness

-----------------------------------------------------------------------------
(* PROPERTIES                                                              *)

(* Nothing of the past is still to be handled.                             *)
Settled == events = <<>>

(* gb_ready, which decides whether the LEDs may be changed and the tracker *)
(* may ask, is true exactly when the station has an address, as soon as    *)
(* what happened meanwhile was handled: also when a timer changed the mode *)
(* between an event and its handling.                                      *)
ReadyMeansUp == Settled => (gbReady <=> station = "UP")

(* Announcements are for someone who can hear them: for the phone on the   *)
(* access point, for everyone on the network of a base station.  None goes *)
(* the other way, and none of before the change of mode is still to come;  *)
(* one that is sent again over a new connection may go to nobody at all.   *)
BeaconFollowsMode ==
  Settled =>
    /\ opmode = "OPMODE_SOFTAP" => udp /\ ~bcast /\ sentTo # "ALL"
    /\ station = "UP" => bcast /\ sentTo # "PHONE"

(* The error timer does not start the access point anew, with another      *)
(* password, under a phone that uses it.                                   *)
HotspotStable == Settled /\ opmode = "OPMODE_SOFTAP" => ~errorTimer

(* A beacon that has a connection goes on announcing the device: refused   *)
(* sends and new connections made by two callers never stop its timer.     *)
NeverSilent == created => beaconTimer # 0

(* An attempt to be a station begins.                                      *)
ModeJustSet == events # <<>> /\ Last(events) = "OPMODE_STATION"

(* display/README.md:8-10: "Starts in hotspot mode ... if unable to        *)
(* connect to pre-configured WiFi".  Every attempt to be a station ends    *)
(* with an address or as an access point, if the phone leaves it alone and *)
(* nothing keeps the error timer from expiring: the base station does not  *)
(* take and drop the station for ever, and no event without a case of its  *)
(* own (another authentication, a phone put off by the change of mode)     *)
(* comes behind the mode and disarms it.                                   *)
HotspotIfUnable ==
  <>[][~Associate /\ ~SetWifi]_deviceVars
    => (ModeJustSet
          ~> station = "UP" \/ opmode = "OPMODE_SOFTAP" \/ crashed \/ disarmed)
=============================================================================
