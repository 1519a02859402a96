------------------------------- MODULE Beacon -------------------------------
(***************************************************************************)
(* The beacon of the display (display/beacon.c): a UDP packet that         *)
(* announces the device, sent by a timer, and the same packet with the     *)
(* value of a variable, sent by uConf whenever that variable is set.  Both *)
(* use one connection, and either may find it broken and make a new one.   *)
(***************************************************************************)
EXTENDS Integers

CONSTANT CreateMayFail   \* espconn_create may fail

ASSUME BeaconAssumption == CreateMayFail \in BOOLEAN

VARIABLES
  udp,          \* gs_beacon_conn.proto.udp is not NULL
  created,      \* the SDK knows gs_beacon_conn
  remote,       \* remote_ip and remote_port of gs_beacon_udp, by whom they reach
  bcast,        \* gb_bcast
  period,       \* gui_timer_period
  beaconTimer,  \* delay gs_beacon_timer is armed with, 0 if it is not
  sentTo        \* history: address of the last packet since the event that
                \* started the beacon, "NOTHING" if none was sent

beaconVars == <<udp, created, remote, bcast, period, beaconTimer, sentTo>>

Periods == {7500, 30000}

BeaconStart ==
  /\ udp = FALSE
  /\ created = FALSE
  /\ remote = "NOBODY"
  /\ bcast = TRUE
  /\ period = 30000
  /\ beaconTimer = 0
  /\ sentTo = "NOTHING"

-----------------------------------------------------------------------------
(* beacon_init up to espconn_create, beacon_deinit included: the old       *)
(* connection and its address are gone whether or not there is a new one.  *)
NewConnection(toAll) ==
  /\ udp' = TRUE
  /\ remote' = "NOBODY"
  /\ bcast' = toAll
  /\ created' \in IF CreateMayFail THEN BOOLEAN ELSE {TRUE}

(* gb_bcast is kept, the period is not, if there is no connection.         *)
InitBeacon(ms, toAll) ==
  /\ NewConnection(toAll)
  /\ period' = IF created' THEN ms ELSE period
  /\ beaconTimer' = IF created' THEN ms ELSE 0
  /\ sentTo' = "NOTHING"

-----------------------------------------------------------------------------
(* beacon_with_data, but for the timer, by what espconn_sendto returned.   *)
Address(toAll) == IF toAll THEN "ALL" ELSE "PHONE"

SendOk ==
  /\ created
  /\ remote' = Address(bcast)
  /\ sentTo' = remote'
  /\ UNCHANGED <<udp, created, bcast, period>>

SendError ==
  /\ udp
  /\ remote' = Address(bcast)
  /\ UNCHANGED <<udp, created, bcast, period, sentTo>>

(* On ESPCONN_IF a new connection is made, which clears the address, and   *)
(* the packet is sent again.                                               *)
SendAgain ==
  /\ udp
  /\ NewConnection(bcast)
  /\ created'
  /\ sentTo' = remote'
  /\ UNCHANGED period

SendBroken ==
  /\ udp
  /\ NewConnection(bcast)
  /\ UNCHANGED <<period, sentTo>>

(* beacon_timer re-arms itself whatever beacon_init did to the timer.      *)
BeaconTimerNotAfterError ==
  /\ beaconTimer # 0
  /\ \/ (SendOk \/ SendAgain) /\ beaconTimer' = period
     \/ (SendError \/ SendBroken) /\ beaconTimer' = 0

BeaconTimer ==
  /\ beaconTimer # 0
  /\ \/ (SendOk \/ SendAgain) /\ beaconTimer' = period
     \/ (SendError \/ SendBroken) /\ beaconTimer' = 5000

(* beacon_with_variable_*: the timer is touched only by a new connection.  *)
Broadcast ==
  \/ (SendOk \/ SendError) /\ UNCHANGED beaconTimer
  \/ (SendAgain \/ SendBroken) /\ beaconTimer' = IF created' THEN period ELSE 0

(* Without a connection beacon_with_data writes through a NULL pointer.    *)
BroadcastCrashes == ~udp
=============================================================================
