----------------------------- MODULE LinkProofs -----------------------------
(***************************************************************************)
(* Proofs about the display's way onto a network, for any number of events *)
(* under way, and about the LED driver that shows how far it got, for      *)
(* every width of the word of at least eight bits, every set of patterns   *)
(* and every range of brightness.                                          *)
(***************************************************************************)
EXTENDS Link, Led, TLAPS, SequenceTheorems

-----------------------------------------------------------------------------
(* WHAT A QUEUE WILL HAVE DONE WHEN IT IS EMPTY                            *)

(* None of these events is in the queue.                                   *)
Free(q, bad) == \A i \in 1..Len(q) : q[i] \notin bad

(* One of the good events is, and none of the bad ones behind it.          *)
EndsIn(q, good, bad) ==
  \E i \in 1..Len(q) :
    q[i] \in good /\ \A j \in 1..Len(q) : j > i => q[j] \notin bad

(* An event is reported.                                                   *)
LEMMA Reported ==
  ASSUME NEW S, NEW q \in Seq(S), NEW event, NEW good, NEW bad
  PROVE  /\ Free(Append(q, event), bad) <=> Free(q, bad) /\ event \notin bad
         /\ EndsIn(Append(q, event), good, bad) <=>
              event \in good \/ (EndsIn(q, good, bad) /\ event \notin bad)
<1> DEFINE r == Append(q, event)
           n == Len(q)
<1>1. n \in Nat /\ Len(r) = n + 1 /\ r[n + 1] = event
  OBVIOUS
<1>2. \A i \in 1..n : r[i] = q[i] /\ i \in 1..n + 1 /\ i < n + 1
  OBVIOUS
<1>3. \A i \in 1..n + 1 : i \in 1..n \/ i = n + 1
  BY <1>1
<1>4. n + 1 \in 1..n + 1 /\ \A i \in 1..n + 1 : ~(i > n + 1)
  BY <1>1
<1> HIDE DEF r
<1>5. Free(r, bad) <=> Free(q, bad) /\ event \notin bad
  BY <1>1, <1>2, <1>3, <1>4 DEF Free
<1>6. ASSUME EndsIn(r, good, bad)
      PROVE  event \in good \/ (EndsIn(q, good, bad) /\ event \notin bad)
  <2>1. PICK i \in 1..n + 1 :
          r[i] \in good /\ \A j \in 1..n + 1 : j > i => r[j] \notin bad
    BY <1>6, <1>1 DEF EndsIn
  <2>2. CASE i = n + 1
    BY <2>1, <2>2, <1>1
  <2>3. CASE i \in 1..n
    BY <2>1, <2>3, <1>1, <1>2, <1>4 DEF EndsIn
  <2> QED
    BY <2>2, <2>3, <1>3
<1>7. ASSUME event \in good
      PROVE  EndsIn(r, good, bad)
  BY <1>7, <1>1, <1>4 DEF EndsIn
<1>8. ASSUME EndsIn(q, good, bad), event \notin bad
      PROVE  EndsIn(r, good, bad)
  <2>1. PICK i \in 1..n :
          q[i] \in good /\ \A j \in 1..n : j > i => q[j] \notin bad
    BY <1>8 DEF EndsIn
  <2>2. i \in 1..n + 1 /\ r[i] \in good
    BY <2>1, <1>2
  <2>3. \A j \in 1..n + 1 : j > i => r[j] \notin bad
    BY <2>1, <1>1, <1>2, <1>3, <1>8
  <2> QED
    BY <2>2, <2>3, <1>1 DEF EndsIn
<1> QED
  BY <1>5, <1>6, <1>7, <1>8 DEF r

(* An event is handled.                                                    *)
LEMMA Handled ==
  ASSUME NEW S, NEW q \in Seq(S), q # <<>>, NEW good, NEW bad
  PROVE  /\ Free(q, bad) <=> Head(q) \notin bad /\ Free(Tail(q), bad)
         /\ EndsIn(q, good, bad) <=>
              \/ EndsIn(Tail(q), good, bad)
              \/ Head(q) \in good /\ Free(Tail(q), bad)
<1> DEFINE r == Tail(q)
           n == Len(r)
<1>1. n \in Nat /\ Len(q) = n + 1 /\ q[1] = Head(q)
  OBVIOUS
<1>2. \A i \in 1..n : q[i + 1] = r[i] /\ i + 1 \in 1..n + 1 /\ i + 1 > 1
  OBVIOUS
<1>3. \A i \in 1..n + 1 : i = 1 \/ \E j \in 1..n : i = j + 1
  <2>1. \A i \in 1..n + 1 : i = 1 \/ (i - 1 \in 1..n /\ i = i - 1 + 1)
    BY <1>1
  <2> QED
    BY <2>1
<1>4. 1 \in 1..n + 1
  BY <1>1
<1> HIDE DEF r, n
<1>5. Free(q, bad) <=> Head(q) \notin bad /\ Free(r, bad)
  <2>1. ASSUME Free(q, bad)
        PROVE  Head(q) \notin bad /\ Free(r, bad)
    BY <2>1, <1>1, <1>2, <1>4 DEF Free, n
  <2>2. ASSUME Head(q) \notin bad, Free(r, bad)
        PROVE  \A i \in 1..n + 1 : q[i] \notin bad
    BY <2>2, <1>1, <1>2, <1>3 DEF Free, n
  <2> QED
    BY <2>1, <2>2, <1>1 DEF Free
<1>6. ASSUME EndsIn(q, good, bad)
      PROVE  EndsIn(r, good, bad) \/ (Head(q) \in good /\ Free(r, bad))
  <2>1. PICK i \in 1..n + 1 :
          q[i] \in good /\ \A j \in 1..n + 1 : j > i => q[j] \notin bad
    BY <1>6, <1>1 DEF EndsIn
  <2>2. CASE i = 1
    BY <2>1, <2>2, <1>1, <1>2 DEF Free, n
  <2>3. ASSUME NEW k \in 1..n, i = k + 1
        PROVE  EndsIn(r, good, bad)
    <3>1. \A j \in 1..n : j > k => j + 1 \in 1..n + 1 /\ j + 1 > i
      BY <2>3, <1>1
    <3>2. r[k] \in good /\ \A j \in 1..n : j > k => r[j] \notin bad
      BY <3>1, <2>1, <2>3, <1>2
    <3> QED
      BY <3>2 DEF EndsIn, n
  <2> QED
    BY <2>2, <2>3, <1>3
<1>7. ASSUME EndsIn(r, good, bad)
      PROVE  EndsIn(q, good, bad)
  <2>1. PICK k \in 1..n :
          r[k] \in good /\ \A j \in 1..n : j > k => r[j] \notin bad
    BY <1>7 DEF EndsIn, n
  <2>2. \A j \in 1..n : j + 1 > k + 1 => j > k
    BY <1>1
  <2>3. ~(1 > k + 1)
    BY <1>1
  <2>4. \A j \in 1..n + 1 : j > k + 1 => q[j] \notin bad
    BY <2>1, <2>2, <2>3, <1>2, <1>3
  <2> QED
    BY <2>1, <2>4, <1>1, <1>2 DEF EndsIn
<1>8. ASSUME Head(q) \in good, Free(r, bad)
      PROVE  EndsIn(q, good, bad)
  <2>1. ~(1 > 1)
    OBVIOUS
  <2>2. \A j \in 1..n + 1 : j > 1 => q[j] \notin bad
    BY <1>8, <1>2, <1>3, <2>1 DEF Free, n
  <2> QED
    BY <2>2, <1>1, <1>4, <1>8 DEF EndsIn
<1> QED
  BY <1>5, <1>6, <1>7, <1>8 DEF r

(* Nothing ends in anything.                                               *)
LEMMA NothingLeft ==
  \A good, bad : Free(<<>>, bad) /\ ~EndsIn(<<>>, good, bad)
BY DEF Free, EndsIn

-----------------------------------------------------------------------------
(* WHAT THE EVENTS UNDER WAY WILL HAVE DONE                                *)

LinkEvents == SdkReports \cup OpModes

(* The state of the connection is well formed, and an access point is no   *)
(* station: what is reported in that mode can no longer bring it up.       *)
LinkShape ==
  /\ opmode \in OpModes
  /\ station \in {"OFF", "TRYING", "CONNECTED", "UP"}
  /\ events \in Seq(LinkEvents)
  /\ gbReady \in BOOLEAN
  /\ errorTimer \in BOOLEAN
  /\ udp \in BOOLEAN
  /\ bcast \in BOOLEAN
  /\ opmode = "OPMODE_SOFTAP" => station = "OFF"

(* Events that clear gb_ready.                                             *)
Clears == {"CONNECTED", "DISCONNECTED", "DHCP_TIMEOUT", "OPMODE_STATION"}

(* Events that take the station off the air when they are handled.         *)
Cuts == {"DHCP_TIMEOUT", "OPMODE_STATION"}

(* Events that arm the error timer.                                        *)
Arms == {"CONNECTED", "OPMODE_STATION"}

(* gb_ready will be set when all is handled.                               *)
WillBeReady ==
  \/ EndsIn(events, {"GOT_IP"}, Clears)
  \/ gbReady /\ Free(events, Clears)

ReadyInv ==
  /\ WillBeReady => station = "UP"
  /\ station = "UP" => WillBeReady \/ ~Free(events, Cuts)

(* On an access point the error timer will be disarmed, and the beacon     *)
(* will address the phone; on a network it will address everyone.          *)
HotspotInv ==
  opmode = "OPMODE_SOFTAP" =>
    \/ EndsIn(events, {"OPMODE_SOFTAP"}, Arms)
    \/ ~errorTimer /\ Free(events, Arms)

ToPhoneInv ==
  opmode = "OPMODE_SOFTAP" =>
    \/ EndsIn(events, {"OPMODE_SOFTAP"}, {"GOT_IP"})
    \/ udp /\ ~bcast /\ Free(events, {"GOT_IP"})

ToAllInv ==
  station = "UP" =>
    \/ EndsIn(events, {"GOT_IP"}, {"OPMODE_SOFTAP"})
    \/ bcast /\ Free(events, {"OPMODE_SOFTAP"})

LinkInv == LinkShape /\ ReadyInv /\ HotspotInv /\ ToPhoneInv /\ ToAllInv

(* What was sent since the beacon was started went where it was to go, or  *)
(* to nobody.                                                              *)
SentInv == sentTo \in {"NOTHING", "NOBODY", Address(bcast)}

-----------------------------------------------------------------------------
(* What a station that leaves adds to the queue.                           *)
LEMMA LeavingAdds ==
  ASSUME NEW q \in Seq(LinkEvents)
  PROVE  /\ Associated => q \o Leaving = Append(q, "DISCONNECTED")
         /\ ~Associated => q \o Leaving = q
         /\ q \o Leaving \in Seq(LinkEvents)
         /\ \A event : q \o <<event>> = Append(q, event)
<1>1. \A event : q \o <<event>> = Append(q, event)
  BY AppendProperties, ConcatProperties
<1>2. q \o <<>> = q
  BY ConcatEmptySeq
<1>3. Append(q, "DISCONNECTED") \in Seq(LinkEvents)
  BY AppendProperties DEF LinkEvents, SdkReports
<1> QED
  BY <1>1, <1>2, <1>3 DEF Leaving

(* Nothing is under way at the start but the mode that user_init has set.  *)
LEMMA LinkInitHolds == LinkInit => LinkInv
<1> SUFFICES ASSUME LinkInit
             PROVE  LinkInv
  OBVIOUS
<1>1. events = Append(<<>>, "OPMODE_STATION") /\ <<>> \in Seq(LinkEvents)
  BY DEF LinkInit
<1>2. events \in Seq(LinkEvents)
  BY <1>1, AppendProperties DEF LinkEvents, OpModes
<1>3. ASSUME NEW good, NEW bad, EndsIn(events, good, bad)
      PROVE  "OPMODE_STATION" \in good
  <2>1. EndsIn(Append(<<>>, "OPMODE_STATION"), good, bad)
    BY <1>1, <1>3
  <2>2. "OPMODE_STATION" \in good \/ EndsIn(<<>>, good, bad)
    BY <2>1, <1>1, Reported
  <2> QED
    BY <2>2, NothingLeft
<1>4. station = "TRYING" /\ opmode = "OPMODE_STATION" /\ gbReady = FALSE
  BY DEF LinkInit
<1>5. LinkShape
  <2>1. gbReady \in BOOLEAN /\ errorTimer \in BOOLEAN /\ udp \in BOOLEAN /\ bcast \in BOOLEAN
    <3>1. gbReady = FALSE /\ errorTimer = FALSE
      BY DEF LinkInit
    <3>2. udp = FALSE /\ bcast = TRUE
      BY DEF LinkInit, BeaconStart
    <3> QED
      BY <3>1, <3>2
  <2> QED
    BY <2>1, <1>2, <1>4 DEF LinkShape, OpModes
<1>6. ReadyInv
  <2>1. ~EndsIn(events, {"GOT_IP"}, Clears)
    BY <1>3
  <2> QED
    BY <2>1, <1>4 DEF ReadyInv, WillBeReady
<1>7. HotspotInv /\ ToPhoneInv /\ ToAllInv
  BY <1>4 DEF HotspotInv, ToPhoneInv, ToAllInv
<1> QED
  BY <1>5, <1>6, <1>7 DEF LinkInv

(* wifi_handle_event_cb.                                                   *)
LEMMA HandlingKeepsLink ==
  ASSUME LinkInv, WifiHandleEvent
  PROVE  LinkInv'
<1> DEFINE rest == Tail(events)
           station2 == rest \o Leaving
<1>1. events \in Seq(LinkEvents) /\ events # <<>>
  <2>1. events # <<>>
    <3>1. CASE HandleConnected
      BY <3>1 DEF HandleConnected, Handles
    <3>2. CASE HandleGotIp
      BY <3>2 DEF HandleGotIp, Handles
    <3>3. CASE HandleDisconnected
      BY <3>3 DEF HandleDisconnected, Handles
    <3>4. CASE HandleDhcpTimeout
      BY <3>4 DEF HandleDhcpTimeout, Handles
    <3>5. CASE HandleStationMode
      BY <3>5 DEF HandleStationMode, Handles
    <3>6. CASE HandleSoftApMode
      BY <3>6 DEF HandleSoftApMode, Handles
    <3>7. CASE HandleOther
      BY <3>7 DEF HandleOther, Handles
    <3> QED
      BY <3>1, <3>2, <3>3, <3>4, <3>5, <3>6, <3>7 DEF WifiHandleEvent
  <2> QED
    BY <2>1 DEF LinkInv, LinkShape
<1>2. rest \in Seq(LinkEvents)
  BY <1>1, HeadTailProperties
<1>3. \A good, bad :
        /\ Free(events, bad) <=> Head(events) \notin bad /\ Free(rest, bad)
        /\ EndsIn(events, good, bad) <=>
             \/ EndsIn(rest, good, bad)
             \/ Head(events) \in good /\ Free(rest, bad)
  BY <1>1, Handled
<1>4. /\ station2 \in Seq(LinkEvents)
      /\ Associated => station2 = Append(rest, "DISCONNECTED")
      /\ ~Associated => station2 = rest
  BY <1>2, LeavingAdds
<1>5. \A good, bad :
        /\ Free(station2, bad) <=>
             Free(rest, bad) /\ (Associated => "DISCONNECTED" \notin bad)
        /\ EndsIn(station2, good, bad) <=>
             \/ Associated /\ "DISCONNECTED" \in good
             \/ /\ EndsIn(rest, good, bad)
                /\ Associated => "DISCONNECTED" \notin bad
  <2>1. CASE Associated
    <3>1. \A good, bad :
            /\ Free(Append(rest, "DISCONNECTED"), bad) <=>
                 Free(rest, bad) /\ "DISCONNECTED" \notin bad
            /\ EndsIn(Append(rest, "DISCONNECTED"), good, bad) <=>
                 \/ "DISCONNECTED" \in good
                 \/ EndsIn(rest, good, bad) /\ "DISCONNECTED" \notin bad
      BY <1>2, Reported
    <3>2. station2 = Append(rest, "DISCONNECTED")
      BY <2>1, <1>4
    <3> HIDE DEF station2, rest
    <3> QED
      BY <3>1, <3>2, <2>1, Zenon
  <2>2. CASE ~Associated
    BY <2>2, <1>4
  <2> QED
    BY <2>1, <2>2
<1> HIDE DEF rest, station2
<1>6. CASE HandleConnected
  <2>1. /\ Head(events) = "CONNECTED"
        /\ events' = rest /\ errorTimer' = TRUE /\ gbReady' = FALSE
        /\ opmode' = opmode /\ station' = station /\ udp' = udp /\ bcast' = bcast
    BY <1>6 DEF HandleConnected, Handles, Led, beaconVars, rest
  <2>2. LinkShape'
    BY <2>1, <1>2 DEF LinkInv, LinkShape
  <2>3. ReadyInv'
    BY <2>1, <1>3 DEF LinkInv, ReadyInv, WillBeReady, Clears, Cuts
  <2>4. HotspotInv'
    BY <2>1, <1>3 DEF LinkInv, HotspotInv, Arms
  <2>5. ToPhoneInv' /\ ToAllInv'
    BY <2>1, <1>3 DEF LinkInv, ToPhoneInv, ToAllInv
  <2> QED
    BY <2>2, <2>3, <2>4, <2>5 DEF LinkInv
<1>7. CASE HandleGotIp
  <2>1. /\ Head(events) = "GOT_IP"
        /\ events' = rest /\ errorTimer' = FALSE /\ gbReady' = TRUE
        /\ opmode' = opmode /\ station' = station /\ udp' = TRUE /\ bcast' = TRUE
    <3>1. /\ Head(events) = "GOT_IP"
          /\ events' = rest /\ errorTimer' = FALSE
          /\ opmode' = opmode /\ station' = station
      BY <1>7 DEF HandleGotIp, Handles, rest
    <3>2. udp' = TRUE /\ bcast' = TRUE
      BY <1>7 DEF HandleGotIp, InitBeacon, NewConnection
    <3>3. gbReady' = ("READY" = "READY")
      BY <1>7 DEF HandleGotIp, Led
    <3> QED
      BY <3>1, <3>2, <3>3, Zenon
  <2>2. LinkShape'
    BY <2>1, <1>2 DEF LinkInv, LinkShape
  <2>3. ReadyInv'
    BY <2>1, <1>3 DEF LinkInv, ReadyInv, WillBeReady, Clears, Cuts
  <2>4. HotspotInv'
    BY <2>1, <1>3 DEF LinkInv, HotspotInv, Arms
  <2>5. ToPhoneInv' /\ ToAllInv'
    BY <2>1, <1>3 DEF LinkInv, ToPhoneInv, ToAllInv
  <2> QED
    BY <2>2, <2>3, <2>4, <2>5 DEF LinkInv
<1>8. CASE HandleDisconnected
  <2>1. /\ Head(events) = "DISCONNECTED"
        /\ events' = rest /\ errorTimer' = errorTimer /\ gbReady' = FALSE
        /\ opmode' = opmode /\ station' = station /\ udp' = udp /\ bcast' = bcast
    BY <1>8 DEF HandleDisconnected, Handles, Led, beaconVars, rest
  <2>2. LinkShape'
    BY <2>1, <1>2 DEF LinkInv, LinkShape
  <2>3. ReadyInv'
    BY <2>1, <1>3 DEF LinkInv, ReadyInv, WillBeReady, Clears, Cuts
  <2>4. HotspotInv'
    BY <2>1, <1>3 DEF LinkInv, HotspotInv, Arms
  <2>5. ToPhoneInv' /\ ToAllInv'
    BY <2>1, <1>3 DEF LinkInv, ToPhoneInv, ToAllInv
  <2> QED
    BY <2>2, <2>3, <2>4, <2>5 DEF LinkInv
<1>9. CASE HandleSoftApMode
  <2>1. /\ Head(events) = "OPMODE_SOFTAP"
        /\ events' = rest /\ errorTimer' = FALSE /\ gbReady' = gbReady
        /\ opmode' = opmode /\ station' = station /\ udp' = TRUE /\ bcast' = FALSE
    BY <1>9 DEF HandleSoftApMode, Handles, InitBeacon, NewConnection, rest
  <2>2. LinkShape'
    BY <2>1, <1>2 DEF LinkInv, LinkShape
  <2>3. ReadyInv'
    BY <2>1, <1>3 DEF LinkInv, ReadyInv, WillBeReady, Clears, Cuts
  <2>4. HotspotInv'
    BY <2>1, <1>3 DEF LinkInv, HotspotInv, Arms
  <2>5. ToPhoneInv' /\ ToAllInv'
    BY <2>1, <1>3 DEF LinkInv, ToPhoneInv, ToAllInv
  <2> QED
    BY <2>2, <2>3, <2>4, <2>5 DEF LinkInv
<1>10. CASE HandleOther
  <2>1. /\ Head(events) \in {"AUTHMODE_CHANGE", "SOFTAP_CLIENT"}
        /\ events' = rest /\ errorTimer' = FALSE /\ gbReady' = gbReady
        /\ opmode' = opmode /\ station' = station /\ udp' = udp /\ bcast' = bcast
    BY <1>10 DEF HandleOther, Handles, beaconVars, rest
  <2>2. LinkShape'
    BY <2>1, <1>2 DEF LinkInv, LinkShape
  <2>3. ReadyInv'
    BY <2>1, <1>3 DEF LinkInv, ReadyInv, WillBeReady, Clears, Cuts
  <2>4. HotspotInv'
    BY <2>1, <1>3 DEF LinkInv, HotspotInv, Arms
  <2>5. ToPhoneInv' /\ ToAllInv'
    BY <2>1, <1>3 DEF LinkInv, ToPhoneInv, ToAllInv
  <2> QED
    BY <2>2, <2>3, <2>4, <2>5 DEF LinkInv
<1>11. CASE HandleStationMode
  <2>1. /\ Head(events) = "OPMODE_STATION"
        /\ events' = station2 /\ errorTimer' = TRUE /\ gbReady' = FALSE
        /\ opmode' = opmode /\ udp' = udp /\ bcast' = bcast
        /\ station' = IF opmode = "OPMODE_STATION" THEN "TRYING" ELSE "OFF"
    BY <1>11 DEF HandleStationMode, Handles, Led, beaconVars, rest, station2
  <2>2. LinkShape'
    BY <2>1, <1>4 DEF LinkInv, LinkShape, OpModes
  <2>3. ReadyInv'
    BY <2>1, <1>3, <1>5 DEF LinkInv, ReadyInv, WillBeReady, Clears, Cuts, Associated
  <2>4. HotspotInv'
    BY <2>1, <1>3, <1>5 DEF LinkInv, HotspotInv, Arms
  <2>5. ToPhoneInv' /\ ToAllInv'
    BY <2>1, <1>3, <1>5 DEF LinkInv, ToPhoneInv, ToAllInv
  <2> QED
    BY <2>2, <2>3, <2>4, <2>5 DEF LinkInv
<1>12. CASE HandleDhcpTimeout
  <2> DEFINE hotspot == Append(station2, "OPMODE_SOFTAP")
  <2>1. hotspot \in Seq(LinkEvents)
    BY <1>4, AppendProperties DEF LinkEvents, OpModes
  <2>2. \A good, bad :
          /\ Free(hotspot, bad) <=>
               Free(station2, bad) /\ "OPMODE_SOFTAP" \notin bad
          /\ EndsIn(hotspot, good, bad) <=>
               \/ "OPMODE_SOFTAP" \in good
               \/ EndsIn(station2, good, bad) /\ "OPMODE_SOFTAP" \notin bad
    BY <1>4, Reported
  <2>3. hotspot = station2 \o <<"OPMODE_SOFTAP">>
    BY <1>4, LeavingAdds
  <2> HIDE DEF hotspot
  <2>4. /\ Head(events) = "DHCP_TIMEOUT"
        /\ events' = hotspot /\ errorTimer' = FALSE /\ gbReady' = FALSE
        /\ opmode' = "OPMODE_SOFTAP" /\ station' = "OFF"
        /\ udp' = udp /\ bcast' = bcast
    BY <1>12, <2>3
       DEF HandleDhcpTimeout, Handles, ConnectAp, Led, beaconVars, rest, station2
  <2>5. LinkShape'
    BY <2>1, <2>4 DEF LinkInv, LinkShape, OpModes
  <2>6. ReadyInv'
    BY <2>2, <2>4, <1>3, <1>5 DEF LinkInv, ReadyInv, WillBeReady, Clears, Associated
  <2>7. HotspotInv' /\ ToPhoneInv' /\ ToAllInv'
    BY <2>2, <2>4 DEF HotspotInv, ToPhoneInv, ToAllInv
  <2> QED
    BY <2>5, <2>6, <2>7 DEF LinkInv
<1> QED
  BY <1>6, <1>7, <1>8, <1>9, <1>10, <1>11, <1>12 DEF WifiHandleEvent

(* error_timer.                                                            *)
LEMMA ErrorTimerKeepsLink ==
  ASSUME LinkInv, ErrorTimer
  PROVE  LinkInv'
<1> DEFINE left == events \o Leaving
           hotspot == Append(left, "OPMODE_SOFTAP")
<1>1. /\ left \in Seq(LinkEvents)
      /\ Associated => left = Append(events, "DISCONNECTED")
      /\ ~Associated => left = events
  BY LeavingAdds DEF LinkInv, LinkShape
<1>2. hotspot \in Seq(LinkEvents)
  BY <1>1, AppendProperties DEF LinkEvents, OpModes
<1>3. \A good, bad :
        EndsIn(hotspot, good, bad) <=>
          \/ "OPMODE_SOFTAP" \in good
          \/ EndsIn(left, good, bad) /\ "OPMODE_SOFTAP" \notin bad
  BY <1>1, Reported
<1>4. hotspot = left \o <<"OPMODE_SOFTAP">>
  BY <1>1, LeavingAdds
<1>5. ~EndsIn(left, {"GOT_IP"}, Clears)
  <2>1. CASE Associated
    <3>1. events \in Seq(LinkEvents) /\ left = Append(events, "DISCONNECTED")
      BY <2>1, <1>1 DEF LinkInv, LinkShape
    <3> HIDE DEF left
    <3>2. \A good, bad :
            EndsIn(left, good, bad) => "DISCONNECTED" \in good \/ "DISCONNECTED" \notin bad
      BY <3>1, Reported
    <3> QED
      BY <3>2 DEF Clears
  <2>2. CASE ~Associated
    BY <2>2, <1>1 DEF LinkInv, ReadyInv, WillBeReady, Associated
  <2> QED
    BY <2>1, <2>2
<1> HIDE DEF left, hotspot
<1>6. /\ events' = hotspot /\ errorTimer' = FALSE /\ gbReady' = FALSE
      /\ opmode' = "OPMODE_SOFTAP" /\ station' = "OFF"
      /\ udp' = udp /\ bcast' = bcast
  BY <1>4 DEF ErrorTimer, ConnectAp, Led, beaconVars, left
<1>7. LinkShape'
  BY <1>2, <1>6 DEF LinkInv, LinkShape, OpModes
<1>8. ReadyInv'
  BY <1>3, <1>5, <1>6 DEF ReadyInv, WillBeReady
<1>9. HotspotInv' /\ ToPhoneInv' /\ ToAllInv'
  BY <1>3, <1>6 DEF HotspotInv, ToPhoneInv, ToAllInv
<1> QED
  BY <1>7, <1>8, <1>9 DEF LinkInv

(* What the SDK reports, and the mode that station_connect_timer sets.     *)
LEMMA ReportKeepsLink ==
  ASSUME LinkInv, NEW event \in LinkEvents, events' = Append(events, event),
         gbReady' = gbReady, errorTimer' = errorTimer, udp' = udp, bcast' = bcast,
         \/ /\ event \in {"CONNECTED", "DISCONNECTED", "DHCP_TIMEOUT"}
            /\ station # "OFF" /\ station' \in {"TRYING", "CONNECTED"}
            /\ opmode' = opmode
         \/ event = "GOT_IP" /\ station # "OFF" /\ station' = "UP" /\ opmode' = opmode
         \/ event \in {"AUTHMODE_CHANGE", "SOFTAP_CLIENT"} /\ UNCHANGED <<station, opmode>>
         \/ event = "OPMODE_STATION" /\ opmode' = event /\ station' = station
  PROVE  LinkInv'
<1>1. \A good, bad :
        /\ Free(events', bad) <=> Free(events, bad) /\ event \notin bad
        /\ EndsIn(events', good, bad) <=>
             event \in good \/ (EndsIn(events, good, bad) /\ event \notin bad)
  BY Reported DEF LinkInv, LinkShape
<1>2. events' \in Seq(LinkEvents)
  BY AppendProperties DEF LinkInv, LinkShape
<1>3. LinkShape'
  BY <1>2 DEF LinkInv, LinkShape, OpModes
<1>4. ReadyInv'
  BY <1>1 DEF LinkInv, LinkShape, ReadyInv, WillBeReady, Clears, Cuts
<1>5. HotspotInv'
  BY <1>1 DEF LinkInv, LinkShape, HotspotInv, Arms
<1>6. ToPhoneInv' /\ ToAllInv'
  BY <1>1 DEF LinkInv, LinkShape, ToPhoneInv, ToAllInv
<1> QED
  BY <1>3, <1>4, <1>5, <1>6 DEF LinkInv

(* station_connect_timer, when the SDK also reports that it has put off a  *)
(* phone, before the mode or behind it.                                    *)
LEMMA PutOffKeepsLink ==
  ASSUME LinkInv, NEW first \in {"SOFTAP_CLIENT", "OPMODE_STATION"},
         NEW second \in {"SOFTAP_CLIENT", "OPMODE_STATION"}, first # second,
         events' = Append(Append(events, first), second),
         opmode' = "OPMODE_STATION",
         UNCHANGED <<station, gbReady, errorTimer, udp, bcast>>
  PROVE  LinkInv'
<1> DEFINE once == Append(events, first)
<1>1. events \in Seq(LinkEvents) /\ first \in LinkEvents /\ second \in LinkEvents
  BY DEF LinkInv, LinkShape, LinkEvents, SdkReports, OpModes
<1>2. once \in Seq(LinkEvents)
  BY <1>1, AppendProperties
<1>3. \A good, bad :
        /\ Free(once, bad) <=> Free(events, bad) /\ first \notin bad
        /\ EndsIn(once, good, bad) <=>
             first \in good \/ (EndsIn(events, good, bad) /\ first \notin bad)
  BY <1>1, Reported
<1> HIDE DEF once
<1>4. \A good, bad :
        /\ Free(Append(once, second), bad) <=> Free(once, bad) /\ second \notin bad
        /\ EndsIn(Append(once, second), good, bad) <=>
             second \in good \/ (EndsIn(once, good, bad) /\ second \notin bad)
  BY <1>2, Reported
<1>5. Append(once, second) \in Seq(LinkEvents)
  BY <1>1, <1>2, AppendProperties
<1>6. events' = Append(once, second)
  BY DEF once
<1>7. \A good, bad :
        /\ Free(events', bad) <=>
             Free(events, bad) /\ first \notin bad /\ second \notin bad
        /\ EndsIn(events', good, bad) <=>
             \/ second \in good
             \/ first \in good /\ second \notin bad
             \/ EndsIn(events, good, bad) /\ first \notin bad /\ second \notin bad
  <2>1. \A good, bad :
          /\ Free(Append(once, second), bad) <=>
               Free(events, bad) /\ first \notin bad /\ second \notin bad
          /\ EndsIn(Append(once, second), good, bad) <=>
               \/ second \in good
               \/ first \in good /\ second \notin bad
               \/ EndsIn(events, good, bad) /\ first \notin bad /\ second \notin bad
    BY <1>3, <1>4, Zenon
  <2> QED
    BY <2>1, <1>6
<1>8. LinkShape'
  BY <1>5, <1>6 DEF LinkInv, LinkShape, OpModes
<1>9. ReadyInv'
  BY <1>7 DEF LinkInv, LinkShape, ReadyInv, WillBeReady, Clears, Cuts
<1>10. HotspotInv' /\ ToPhoneInv' /\ ToAllInv'
  BY <1>7 DEF LinkInv, LinkShape, HotspotInv, ToPhoneInv, ToAllInv
<1> QED
  BY <1>8, <1>9, <1>10 DEF LinkInv

(* The beacon keeps the addressee it was given.                            *)
LEMMA BeaconKeepsLink ==
  ASSUME LinkInv, udp' \in BOOLEAN, udp => udp', bcast' = bcast,
         UNCHANGED <<opmode, station, events, gbReady, errorTimer>>
  PROVE  LinkInv'
BY DEF LinkInv, LinkShape, ReadyInv, WillBeReady, HotspotInv, ToPhoneInv, ToAllInv

(* Nothing of the past is left, so the events tell no more than the state. *)
LEMMA WhenSettled ==
  LinkInv /\ SentInv => ReadyMeansUp /\ BeaconFollowsMode /\ HotspotStable
<1> SUFFICES ASSUME LinkInv, SentInv, events = <<>>
             PROVE  /\ gbReady <=> station = "UP"
                    /\ opmode = "OPMODE_SOFTAP"
                         => udp /\ ~bcast /\ ~errorTimer /\ sentTo # "ALL"
                    /\ station = "UP" => bcast /\ sentTo # "PHONE"
  BY DEF ReadyMeansUp, BeaconFollowsMode, HotspotStable, Settled
<1>1. \A good, bad : Free(events, bad) /\ ~EndsIn(events, good, bad)
  BY NothingLeft
<1>2. gbReady <=> station = "UP"
  BY <1>1 DEF LinkInv, ReadyInv, WillBeReady
<1>3. opmode = "OPMODE_SOFTAP" => udp /\ ~bcast /\ ~errorTimer
  BY <1>1 DEF LinkInv, HotspotInv, ToPhoneInv
<1>4. station = "UP" => bcast
  BY <1>1 DEF LinkInv, ToAllInv
<1>5. (bcast => sentTo # "PHONE") /\ (~bcast => sentTo # "ALL")
  BY DEF SentInv, Address
<1> QED
  BY <1>2, <1>3, <1>4, <1>5

(* Every step of the display keeps the invariant.                          *)
LEMMA StepKeepsLink ==
  ASSUME LinkInv, [LinkNext]_deviceVars
  PROVE  LinkInv'
<1>1. CASE WifiHandleEvent
  BY <1>1, HandlingKeepsLink
<1>2. CASE ErrorTimer
  BY <1>2, ErrorTimerKeepsLink
<1>3. CASE SetWifi
  BY <1>3, BeaconKeepsLink DEF SetWifi, ConnectStation, beaconVars, LinkInv, LinkShape
<1>4. CASE StationConnectTimer
  <2>1. /\ opmode' = "OPMODE_STATION"
        /\ UNCHANGED <<station, gbReady, errorTimer, udp, bcast>>
    BY <1>4 DEF StationConnectTimer, beaconVars
  <2>2. CASE events' = Append(events, "OPMODE_STATION")
    BY <2>1, <2>2, ReportKeepsLink DEF LinkEvents, OpModes
  <2>3. CASE events' = Append(Append(events, "SOFTAP_CLIENT"), "OPMODE_STATION")
    BY <2>1, <2>3, PutOffKeepsLink
  <2>4. CASE events' = Append(Append(events, "OPMODE_STATION"), "SOFTAP_CLIENT")
    BY <2>1, <2>4, PutOffKeepsLink
  <2> QED
    BY <1>4, <2>2, <2>3, <2>4 DEF StationConnectTimer
<1>5. CASE BeaconDue
  <2>1. UNCHANGED <<opmode, station, events, gbReady, errorTimer>>
    BY <1>5 DEF BeaconDue, linkVars
  <2>2. udp' \in BOOLEAN /\ (udp => udp') /\ bcast' = bcast
    <3>1. SendOk \/ SendError \/ SendAgain \/ SendBroken
      BY <1>5 DEF BeaconDue, BeaconTimer
    <3> QED
      BY <3>1
         DEF SendOk, SendError, SendAgain, SendBroken, NewConnection, LinkInv, LinkShape
  <2> QED
    BY <2>1, <2>2, BeaconKeepsLink
<1>6. CASE ButtonSetsBrightness
  <2>1. UNCHANGED <<opmode, station, events, gbReady, errorTimer>>
    BY <1>6 DEF ButtonSetsBrightness
  <2>2. udp' \in BOOLEAN /\ (udp => udp') /\ bcast' = bcast
    <3>1. UNCHANGED beaconVars \/ SendOk \/ SendError \/ SendAgain \/ SendBroken
      BY <1>6 DEF ButtonSetsBrightness, Broadcast
    <3> QED
      BY <3>1
         DEF SendOk, SendError, SendAgain, SendBroken, NewConnection, beaconVars,
             LinkInv, LinkShape
  <2> QED
    BY <2>1, <2>2, BeaconKeepsLink
<1>7. CASE Sdk
  <2>1. CASE Associate
    BY <2>1, ReportKeepsLink DEF Associate, SdkReport, LinkEvents, SdkReports, beaconVars
  <2>2. CASE GetIp
    BY <2>2, ReportKeepsLink DEF GetIp, SdkReport, LinkEvents, SdkReports, beaconVars
  <2>3. CASE LoseBase
    BY <2>3, ReportKeepsLink DEF LoseBase, SdkReport, LinkEvents, SdkReports, beaconVars
  <2>4. CASE DhcpFails
    BY <2>4, ReportKeepsLink DEF DhcpFails, SdkReport, LinkEvents, SdkReports, beaconVars
  <2>5. CASE AuthModeChanges
    BY <2>5, ReportKeepsLink DEF AuthModeChanges, SdkReport, LinkEvents, SdkReports, beaconVars
  <2>6. CASE PhoneSeen
    BY <2>6, ReportKeepsLink DEF PhoneSeen, SdkReport, LinkEvents, SdkReports, beaconVars
  <2> QED
    BY <1>7, <2>1, <2>2, <2>3, <2>4, <2>5, <2>6 DEF Sdk
<1>8. CASE UNCHANGED deviceVars
  BY <1>8, BeaconKeepsLink DEF deviceVars, linkVars, beaconVars, LinkInv, LinkShape
<1> QED
  BY <1>1, <1>2, <1>3, <1>4, <1>5, <1>6, <1>7, <1>8 DEF LinkNext

(* Every packet goes to the addressee of the beacon or to nobody, and a    *)
(* new addressee comes with a new beacon.                                  *)
LEMMA StepKeepsSent ==
  ASSUME SentInv, [LinkNext]_deviceVars
  PROVE  SentInv'
<1> USE DEF SentInv
<1>1. CASE UNCHANGED beaconVars
  BY <1>1 DEF beaconVars, Address
<1>2. CASE SendOk \/ SendError \/ SendAgain \/ SendBroken
  <2>1. bcast' = bcast
    BY <1>2 DEF SendOk, SendError, SendAgain, SendBroken, NewConnection
  <2>2. Address(bcast)' = Address(bcast)
    BY <2>1 DEF Address
  <2>3. sentTo' \in {sentTo, "NOBODY", Address(bcast)}
    BY <1>2 DEF SendOk, SendError, SendAgain, SendBroken, NewConnection
  <2> QED
    BY <2>2, <2>3
<1>3. CASE WifiHandleEvent
  <2>1. CASE HandleGotIp
    BY <2>1 DEF HandleGotIp, InitBeacon
  <2>2. CASE HandleSoftApMode
    BY <2>2 DEF HandleSoftApMode, InitBeacon
  <2>3. CASE ~HandleGotIp /\ ~HandleSoftApMode
    <3>1. UNCHANGED beaconVars
      BY <1>3, <2>3
         DEF WifiHandleEvent, HandleConnected, HandleDisconnected, HandleDhcpTimeout,
             HandleStationMode, HandleOther
    <3> QED
      BY <1>1, <3>1
  <2> QED
    BY <2>1, <2>2, <2>3
<1>4. CASE BeaconDue
  BY <1>2, <1>4 DEF BeaconDue, BeaconTimer
<1>5. CASE ButtonSetsBrightness
  BY <1>1, <1>2, <1>5 DEF ButtonSetsBrightness, Broadcast
<1>6. CASE ErrorTimer \/ SetWifi \/ StationConnectTimer \/ Sdk \/ UNCHANGED deviceVars
  <2>1. UNCHANGED beaconVars
    BY <1>6
       DEF ErrorTimer, SetWifi, ConnectStation, StationConnectTimer, Sdk, Associate, GetIp, LoseBase,
           DhcpFails, AuthModeChanges, PhoneSeen, SdkReport, deviceVars
  <2> QED
    BY <1>1, <2>1
<1> QED
  BY <1>3, <1>4, <1>5, <1>6 DEF LinkNext

(* The invariant always holds.                                             *)
LEMMA LinkAlways == LinkSpec => [](LinkInv /\ SentInv)
<1>1. LinkInit => SentInv
  BY DEF LinkInit, BeaconStart, SentInv
<1>2. LinkInv /\ SentInv /\ [LinkNext]_deviceVars => (LinkInv /\ SentInv)'
  BY StepKeepsLink, StepKeepsSent
<1> QED
  BY <1>1, <1>2, LinkInitHolds, PTL DEF LinkSpec

(* However many events are under way and however the timers come between   *)
(* them: once all are handled, gb_ready is true exactly when the station   *)
(* has an address.                                                         *)
THEOREM ReadyMeansUpHolds == LinkSpec => []ReadyMeansUp
BY LinkAlways, WhenSettled, PTL

(* And the beacon addresses those who can hear it: none of its packets has *)
(* gone to the others, those that were sent again included.                *)
THEOREM BeaconFollowsModeHolds == LinkSpec => []BeaconFollowsMode
BY LinkAlways, WhenSettled, PTL

(* And the error timer does not disturb the phone on the access point.     *)
THEOREM HotspotStableHolds == LinkSpec => []HotspotStable
BY LinkAlways, WhenSettled, PTL

-----------------------------------------------------------------------------
(* THE TIMER OF THE BEACON                                                 *)

(* The timer is armed with gui_timer_period, which is never 0.             *)
BeaconInv == period \in Periods /\ NeverSilent

(* Whoever makes the connection, and whatever fails, the beacon goes on.   *)
THEOREM NeverSilentHolds == LinkSpec => []NeverSilent
<1>1. LinkInit => BeaconInv
  BY DEF LinkInit, BeaconStart, BeaconInv, NeverSilent, Periods
<1>2. BeaconInv /\ [LinkNext]_deviceVars => BeaconInv'
  <2> SUFFICES ASSUME BeaconInv, [LinkNext]_deviceVars
               PROVE  BeaconInv'
    OBVIOUS
  <2> USE DEF BeaconInv, NeverSilent, Periods
  <2>1. CASE UNCHANGED beaconVars
    BY <2>1 DEF beaconVars
  <2>2. CASE WifiHandleEvent
    <3>1. CASE HandleGotIp
      BY <3>1 DEF HandleGotIp, InitBeacon
    <3>2. CASE HandleSoftApMode
      BY <3>2 DEF HandleSoftApMode, InitBeacon
    <3>3. CASE ~HandleGotIp /\ ~HandleSoftApMode
      BY <2>1, <2>2, <3>3
         DEF WifiHandleEvent, HandleConnected, HandleDisconnected, HandleDhcpTimeout,
             HandleStationMode, HandleOther
    <3> QED
      BY <3>1, <3>2, <3>3
  <2>3. CASE BeaconDue
    BY <2>3 DEF BeaconDue, BeaconTimer, SendOk, SendError, SendAgain, SendBroken
  <2>4. CASE ButtonSetsBrightness
    BY <2>4, <2>1
       DEF ButtonSetsBrightness, Broadcast, SendOk, SendError, SendAgain, SendBroken
  <2>5. CASE ErrorTimer \/ SetWifi \/ StationConnectTimer \/ Sdk \/ UNCHANGED deviceVars
    BY <2>5, <2>1
       DEF ErrorTimer, SetWifi, ConnectStation, StationConnectTimer, Sdk, Associate, GetIp, LoseBase,
           DhcpFails, AuthModeChanges, PhoneSeen, SdkReport, deviceVars
  <2> QED
    BY <2>2, <2>3, <2>4, <2>5 DEF LinkNext
<1>3. BeaconInv => NeverSilent
  BY DEF BeaconInv
<1> QED
  BY <1>1, <1>2, <1>3, PTL DEF LinkSpec

-----------------------------------------------------------------------------
(* THE LED DRIVER                                                          *)

(* The low byte of a word whose higher bits repeat it, shifted as          *)
(* LED_ROTATE_L and LED_ROTATE_R of spi_timer shift it, has been rotated   *)
(* by one LED.                                                             *)
LEMMA ShiftsRotate ==
  ASSUME LedTypeOK, Periodic
  PROVE  /\ (ShiftLeft(value, 1) \cup ShiftRight(value, 7)) \cap Lamps
              = {i \in Lamps : RightOf(i) \in LowByte}
         /\ (ShiftLeft(value, 7) \cup ShiftRight(value, 1)) \cap Lamps
              = {i \in Lamps : LeftOf(i) \in LowByte}
<1>1. \A i \in Lamps : i \in 0..Width - 1
  BY LedAssumption, SMT DEF Lamps
<1>2. \A j \in value : j \in Int /\ j >= 0
  BY LedAssumption, SMT DEF LedTypeOK
<1>3. ASSUME NEW i \in Lamps
      PROVE  i - 1 \in value \/ i + 7 \in value <=> RightOf(i) \in LowByte
  <2>1. CASE i = 0
    BY <1>2, <2>1, SMT DEF Lamps, LowByte, RightOf
  <2>2. CASE i # 0
    <3>1. i + 7 \in value => i + 7 - 8 \in value
      BY <2>2, SMT DEF Periodic, Lamps
    <3>2. i + 7 - 8 = i - 1 /\ i - 1 \in Lamps
      BY <2>2, SMT DEF Lamps
    <3>3. RightOf(i) = i - 1
      BY <2>2 DEF RightOf
    <3> QED
      BY <3>1, <3>2, <3>3 DEF LowByte
  <2> QED
    BY <2>1, <2>2
<1>4. ASSUME NEW i \in Lamps
      PROVE  i - 7 \in value \/ i + 1 \in value <=> LeftOf(i) \in LowByte
  <2>1. CASE i = 7
    <3>1. 8 \in value => 8 - 8 \in value
      BY DEF Periodic
    <3>2. 8 - 8 = 0 /\ 7 - 7 = 0 /\ 7 + 1 = 8 /\ 0 \in Lamps
      BY SMT DEF Lamps
    <3>3. LeftOf(i) = 0
      BY <2>1 DEF LeftOf
    <3> QED
      BY <2>1, <3>1, <3>2, <3>3 DEF LowByte
  <2>2. CASE i # 7
    BY <1>2, <2>2, SMT DEF Lamps, LowByte, LeftOf
  <2> QED
    BY <2>1, <2>2
<1> QED
  BY <1>1, <1>3, <1>4, SMT DEF ShiftLeft, ShiftRight

(* Both shifts keep the higher bits a repetition of the lower ones.        *)
LEMMA ShiftsKeepPeriodic ==
  ASSUME LedTypeOK, Periodic, NEW n \in {1, 7},
         value' = ShiftLeft(value, n) \cup ShiftRight(value, 8 - n)
  PROVE  value' \subseteq 0..Width - 1 /\ Periodic'
<1>1. value' \subseteq 0..Width - 1
  BY DEF ShiftLeft, ShiftRight
<1>2. ASSUME NEW i \in value', i >= 8
      PROVE  i - 8 \in value'
  <2>1. i \in 0..Width - 1 /\ i - 8 \in 0..Width - 1
    BY <1>1, <1>2, LedAssumption, SMT
  <2>2. CASE i - n \in value
    <3>1. i - 8 + (8 - n) \in value
      BY <2>1, <2>2, SMT
    <3> QED
      BY <2>1, <3>1, SMT DEF ShiftRight
  <2>3. CASE i + (8 - n) \in value
    <3>1. i + (8 - n) - 8 \in value
      BY <2>1, <2>3, <1>2, SMT DEF Periodic
    <3>2. i - 8 + (8 - n) \in value
      BY <2>1, <3>1, SMT
    <3> QED
      BY <2>1, <3>2, SMT DEF ShiftRight
  <2> QED
    BY <2>2, <2>3, <1>2, SMT DEF ShiftLeft, ShiftRight
<1> QED
  BY <1>1, <1>2 DEF Periodic

LEMMA LedInitInv == LedInit => LedInv
  BY LedAssumption, SMT
  DEF LedInit, LedInv, LedTypeOK, Periodic, Modes, Lamps

LEMMA LedNextInv == LedInv /\ [LedNext]_ledVars => LedInv'
<1> SUFFICES ASSUME LedInv, [LedNext]_ledVars
             PROVE  LedInv'
  OBVIOUS
<1> USE DEF LedInv, LedTypeOK, Modes
<1>1. ASSUME NEW pattern \in Patterns, NEW newMode \in Modes \cup {"BRIGHT"},
             NEW newTarget \in 0..MaxBright,
             LedDisplay(pattern, newMode, newTarget)
      PROVE  LedInv'
  <2>1. LedTypeOK'
    <3>1. pattern \subseteq 0..Width - 1
      BY LedAssumption, SMT DEF Lamps
    <3>2. pulseDown' \in BOOLEAN
      BY <1>1, Zenon DEF LedDisplay
    <3> QED
      BY <1>1, <3>1, <3>2 DEF LedDisplay
  <2>2. Periodic'
    <3>1. CASE value' = value
      BY <3>1 DEF Periodic
    <3>2. CASE value' = pattern
      BY <3>2, LedAssumption, SMT DEF Periodic, Lamps
    <3> QED
      BY <1>1, <3>1, <3>2 DEF LedDisplay
  <2> QED
    BY <2>1, <2>2
<1>2. ASSUME SpiTimer
      PROVE  LedInv'
  <2>1. shown' \subseteq Lamps /\ target' \in 0..MaxBright /\ mode' \in Modes
    BY <1>2 DEF SpiTimer, LowByte
  <2>2. /\ value' \subseteq 0..Width - 1
        /\ Periodic'
    <3>1. CASE UNCHANGED value
      BY <3>1 DEF Periodic
    <3>2. CASE RotateL
      <4>1. value' = ShiftLeft(value, 1) \cup ShiftRight(value, 8 - 1)
        BY <3>2, SMT DEF RotateL
      <4> QED
        BY <4>1, ShiftsKeepPeriodic
    <3>3. CASE RotateR
      <4>1. value' = ShiftLeft(value, 7) \cup ShiftRight(value, 8 - 7)
        BY <3>3, SMT DEF RotateR
      <4> QED
        BY <4>1, ShiftsKeepPeriodic
    <3> QED
      BY <1>2, <3>1, <3>2, <3>3 DEF SpiTimer, None, Fade, Pulse, Flash
  <2>3. brightness' \in 0..MaxBright
    BY <1>2, LedAssumption, SMT
    DEF SpiTimer, None, Fade, Pulse, Flash, RotateL, RotateR
  <2>4. duty' \in 0..MaxBright
    BY <1>2, <2>3 DEF SpiTimer
  <2>5. armed' \in BOOLEAN
    BY <1>2, Zenon DEF SpiTimer, None, Fade, Pulse, Flash, RotateL, RotateR
  <2>6. pulseDown' \in BOOLEAN
    BY <1>2, Zenon DEF SpiTimer, None, Fade, Pulse, Flash, RotateL, RotateR
  <2> QED
    BY <2>1, <2>2, <2>3, <2>4, <2>5, <2>6
<1>3. CASE UNCHANGED ledVars
  BY <1>3 DEF ledVars, Periodic
<1> QED
  BY <1>1, <1>2, <1>3 DEF LedNext, Display

THEOREM LedInvariance == LedSpec => []LedInv
<1> QED
  BY LedInitInv, LedNextInv, PTL DEF LedSpec

(* Every state that led_display and spi_timer reach is well formed: the    *)
(* brightness never wraps around.                                          *)
THEOREM LedTypeCorrect == LedSpec => []LedTypeOK
  BY LedInvariance, PTL DEF LedInv

(* The rotations of spi_timer are rotations of a ring of eight LEDs.       *)
THEOREM RotationIsExact == LedSpec => RotatesRing
<1>1. ASSUME LedInv, [LedNext]_ledVars
      PROVE  [SpiTimer =>
               /\ mode = "ROTATE_L"
                    => LowByte' = {i \in Lamps : RightOf(i) \in LowByte}
               /\ mode = "ROTATE_R"
                    => LowByte' = {i \in Lamps : LeftOf(i) \in LowByte}]_ledVars
  <2>1. ASSUME SpiTimer, mode = "ROTATE_L"
        PROVE  LowByte' = {i \in Lamps : RightOf(i) \in LowByte}
    <3>1. value' = ShiftLeft(value, 1) \cup ShiftRight(value, 7)
      BY <2>1 DEF SpiTimer, None, Fade, Pulse, Flash, RotateL, RotateR
    <3> QED
      BY <1>1, <3>1, ShiftsRotate DEF LowByte, LedInv
  <2>2. ASSUME SpiTimer, mode = "ROTATE_R"
        PROVE  LowByte' = {i \in Lamps : LeftOf(i) \in LowByte}
    <3>1. value' = ShiftLeft(value, 7) \cup ShiftRight(value, 1)
      BY <2>2 DEF SpiTimer, None, Fade, Pulse, Flash, RotateL, RotateR
    <3> QED
      BY <1>1, <3>1, ShiftsRotate DEF LowByte, LedInv
  <2> QED
    BY <2>1, <2>2
<1> QED
  BY <1>1, LedInvariance, PTL DEF LedSpec, RotatesRing
=============================================================================
