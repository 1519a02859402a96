------------------------------ MODULE MCPortal ------------------------------
(***************************************************************************)
(* The portal, by one of four questions at a time (watched):               *)
(*   WIFI      how it gets onto a network, module Hotspot                  *)
(*   PAGES     two clients that come, ask once and leave when they like,   *)
(*             one of them for what changes something                      *)
(*   SEGMENTS  a client that goes on asking on its connection              *)
(*   TIME      a client that asks for the time, requests that are repeated *)
(*             before they are answered, and any exchange with the time    *)
(*             server                                                      *)
(* For the last three networks come and go in any way, as in module        *)
(* Portal, and the hotspot of module Hotspot is left open and quiet.       *)
(***************************************************************************)
EXTENDS Portal, Hotspot

CONSTANTS c1, c2

VARIABLE watched

boardVars == <<portalVars, wifiVars, watched>>

Led == <<"/", "led", ".json">>
Time == <<"/", "settime", ".json">>
MCRequests == {Led, Time, <<"/", "setwifi", ".html?", "ssid=">>}

(* What the server's clock showed when the portal's showed 0, when the     *)
(* request was sent, how long it and its answer were under way, and how    *)
(* long the portal took with it.  Quick and slow ones, slow on one way     *)
(* only, at the start, in the middle and at the end of a second on both    *)
(* clocks, one with a new second between the two times that the portal     *)
(* reads its clock, and one during which that clock starts again.          *)
Exchange(clock, sent, there, back, work) ==
  [sent |-> sent, receive |-> clock + sent + there,
   transmit |-> clock + sent + there, received |-> sent + there + back, late |-> back,
   read |-> sent + there + back + work]

AnExchange == Exchange(411, 23, 1, 0, 0)

MCExchanges ==
  {AnExchange, Exchange(407, 7, 1, 0, 0), Exchange(414, 25, 0, 4, 1),
   Exchange(414, 3, 5, 0, 0), Exchange(407, 6, 0, 9, 0), Exchange(414, 3, 4, 0, 2),
   Exchange(407, 30, 1, 3, 0), Exchange(403, 1, 0, 8, 6), Exchange(406, 7, 0, 0, 1)}

(* The limits of each question; setwifi.html, which ends the connection    *)
(* that it comes by, is in the reach of every client.                      *)
Within ==
  /\ watched = "PAGES" =>
       asked[c1] \in {<<>>, <<Led>>, <<Time>>} /\ asked[c2] \in {<<>>, <<Time>>}
  /\ watched = "SEGMENTS" => client[c2] = "away"
  /\ watched = "TIME" => client[c2] = "away" /\ asked[c1] \in {<<>>, <<Time>>}
  /\ watched # "TIME" => exchange \subseteq {AnExchange} /\ inFlight <= 1

(* ConnectAP has been called, and nothing is left to handle.               *)
HotspotOpen ==
  /\ opmode = "SOFTAP"
  /\ station = "idle"
  /\ events = <<>>
  /\ oneshotInit = FALSE
  /\ errorTimer = FALSE
  /\ server = "apconn"
  /\ lamps = {"ap"}

BoardInit ==
  /\ PortalInit
  /\ \/ watched = "WIFI" /\ WifiInit
     \/ watched \in {"PAGES", "SEGMENTS", "TIME"} /\ HotspotOpen

BoardNext ==
  /\ UNCHANGED watched
  /\ \/ watched = "WIFI" /\ HotspotNext /\ UNCHANGED portalVars
     \/ watched # "WIFI" /\ PortalNext /\ Within' /\ UNCHANGED wifiVars

BoardSpec ==
  BoardInit /\ [][BoardNext]_boardVars /\ PortalFairness /\ HotspotFairness
=============================================================================
