---------------------------- MODULE PortalProofs ----------------------------
(***************************************************************************)
(* What holds of the portal for any number of waiting events: port 80 is   *)
(* served whenever the portal can be reached; for any number of clients,   *)
(* segments, pages and places in the queue, and any exchanges with the     *)
(* time server: the clock is set no more often than it was asked for and   *)
(* to the right time, and a client is answered with what it asked for.     *)
(* And of the matrix: the picture that is served is a whole one, for any   *)
(* pictures of any number of rows.                                         *)
(***************************************************************************)
EXTENDS Portal, Hotspot, Frames, SequenceLemmas

Event == {"CONNECTED", "GOT_IP", "DISCONNECTED", "DHCP_TIMEOUT", "AUTHMODE_CHANGE",
          "OTHER"}

(* There is a server from the first one on: whoever deletes one accepts    *)
(* one.  Until then the portal is trying a network, and has handled no     *)
(* address.                                                                *)
WifiInv ==
  /\ events \in Seq(Event)
  /\ opmode \in {"STATION", "SOFTAP"}
  /\ server = "none" /\ ~oneshotInit => opmode = "STATION"
  /\ server = "none" /\ Online => \E i \in DOMAIN events : events[i] = "GOT_IP"

(* An exchange is under way, or every one that was begun has set the clock.*)
TimeInv ==
  /\ ntpconn \in [open : BOOLEAN, reverse : Clients \cup {Nobody}]
  /\ due = IF ntpconn.open THEN 1 ELSE 0

-----------------------------------------------------------------------------
(* LEMMAS                                                                  *)

(* What is in a queue is its head or in the rest.                          *)
LEMMA InTail ==
  ASSUME NEW s \in Seq(Event), s # <<>>, NEW e, e # Head(s),
         \E i \in DOMAIN s : s[i] = e
  PROVE  \E i \in DOMAIN Tail(s) : Tail(s)[i] = e
<1>1. PICK i \in 1..Len(s) : s[i] = e
  OBVIOUS
<1>2. i # 1
  BY <1>1
<1>3. i - 1 \in DOMAIN Tail(s) /\ Tail(s)[i - 1] = e
  BY <1>1, <1>2
<1>. QED
  BY <1>3

(* An event that is added leaves those that wait.                          *)
LEMMA InAppend ==
  ASSUME NEW s \in Seq(Event), NEW t \in Seq(Event), NEW e,
         \E i \in DOMAIN s : s[i] = e
  PROVE  \E i \in DOMAIN (s \o t) : (s \o t)[i] = e
<1>1. PICK i \in 1..Len(s) : s[i] = e
  OBVIOUS
<1>2. i \in DOMAIN (s \o t) /\ (s \o t)[i] = e
  BY <1>1
<1>. QED
  BY <1>2

(* What the SDK may add is a queue of events.                              *)
LEMMA ReportsAreEvents ==
  Reports \subseteq Seq(Event) /\ ModeReports \subseteq Seq(Event)
<1>1. <<"DISCONNECTED">> \in Seq(Event) /\ <<"OTHER">> \in Seq(Event)
      /\ << >> \in Seq(Event)
  BY DEF Event
<1>. QED
  BY <1>1 DEF Reports, ModeReports

(* Once there is a server there is one.                                    *)
LEMMA StaysServed ==
  ASSUME NEW s, NEW connected \in BOOLEAN
  PROVE  /\ Accept("apconn", s) # "none"
         /\ Accept("masterconn", s) # "none"
BY DEF Accept

-----------------------------------------------------------------------------
(* The start of the hotspot keeps the invariant, whatever it follows.      *)
LEMMA HotspotStarts ==
  ASSUME WifiInv, NEW rest \in Seq(Event), NEW s, ConnectAP(rest, s),
         oneshotInit' = oneshotInit
  PROVE  WifiInv'
<1>1. server' # "none" /\ opmode' = "SOFTAP" /\ station' = "idle"
  BY StaysServed DEF ConnectAP
<1>2. events' \in Seq(Event)
  BY ReportsAreEvents DEF ConnectAP
<1>. QED
  BY <1>1, <1>2 DEF WifiInv, Online

LEMMA OneshotInitKeepsWifiInv == WifiInv /\ OneshotInit => WifiInv'
<1>. SUFFICES ASSUME WifiInv, OneshotInit PROVE WifiInv'
  OBVIOUS
<1>1. events' \in Seq(Event)
  BY ReportsAreEvents DEF WifiInv, OneshotInit
<1>. QED
  BY <1>1 DEF WifiInv, OneshotInit, Online

LEMMA NetworkKeepsWifiInv == WifiInv /\ Network => WifiInv'
<1>. SUFFICES ASSUME WifiInv, Network PROVE WifiInv'
  OBVIOUS
<1>1. ASSUME NEW from \in SUBSET {"joining", "joined", "addressed"}, NEW to,
             NEW e \in Event, to = "addressed" => e = "GOT_IP",
             StationChanges(from, to, e)
      PROVE  WifiInv'
  <2>1. events' = Append(events, e) /\ events' \in Seq(Event)
    BY <1>1 DEF WifiInv, StationChanges, Report
  <2>2. Online' => \E i \in DOMAIN events' : events'[i] = "GOT_IP"
    <3>1. ASSUME Online' PROVE events'[Len(events')] = "GOT_IP" /\ Len(events') \in DOMAIN events'
      BY <1>1, <2>1, <3>1 DEF WifiInv, StationChanges, Online
    <3>. QED
      BY <3>1
  <2>. QED
    BY <1>1, <2>1, <2>2 DEF WifiInv, StationChanges
<1>. QED
  BY <1>1 DEF Network, Event

LEMMA VisitorKeepsWifiInv == WifiInv /\ Visitor => WifiInv'
<1>. SUFFICES ASSUME WifiInv, Visitor PROVE WifiInv'
  OBVIOUS
<1>1. events' = events \o <<"OTHER">> /\ <<"OTHER">> \in Seq(Event)
  BY DEF WifiInv, Visitor, Report, Event
<1>2. server = "none" /\ Online => \E i \in DOMAIN events' : events'[i] = "GOT_IP"
  BY <1>1, InAppend DEF WifiInv
<1>. QED
  BY <1>1, <1>2 DEF WifiInv, Visitor, Online

LEMMA WifiEventKeepsWifiInv ==
  ASSUME WifiInv, NEW connected \in BOOLEAN, WifiHandleEvent(connected)
  PROVE  WifiInv'
<1>1. events # <<>>
  BY DEF WifiHandleEvent
<1>2. Tail(events) \in Seq(Event)
  BY <1>1 DEF WifiInv
<1>3. Head(events) # "GOT_IP" /\ server = "none" /\ Online =>
        \E i \in DOMAIN Tail(events) : Tail(events)[i] = "GOT_IP"
  BY <1>1, InTail DEF WifiInv
<1>4. CASE Head(events) = "CONNECTED" /\ Connected
  <2>1. oneshotInit' = oneshotInit
    BY DEF WifiHandleEvent
  <2>. QED
    BY <1>2, <1>3, <1>4, <2>1 DEF WifiInv, Connected, Online
<1>5. CASE GotIp(connected)
  <2>1. server' # "none"
    BY <1>5, StaysServed DEF GotIp
  <2>. QED
    BY <1>1, <1>2, <1>5, <2>1 DEF WifiInv, GotIp, Online, WifiHandleEvent
<1>6. CASE Disconnected(connected)
  BY <1>1, <1>2, <1>6, HotspotStarts DEF Disconnected, WifiHandleEvent
<1>7. CASE NoAddress
  BY <1>1, <1>2, <1>7, HotspotStarts DEF NoAddress, WifiHandleEvent
<1>8. CASE Head(events) = "OTHER" /\ OtherEvent
  BY <1>1, <1>2, <1>3, <1>8 DEF WifiInv, OtherEvent, Online, WifiHandleEvent
<1>. QED
  BY <1>1, <1>4, <1>5, <1>6, <1>7, <1>8 DEF WifiHandleEvent

LEMMA ConnectStationKeepsWifiInv == WifiInv /\ ConnectStation => WifiInv'
<1>. SUFFICES ASSUME WifiInv, ConnectStation PROVE WifiInv'
  OBVIOUS
<1>1. server' # "none" /\ opmode' = "STATION"
  BY DEF Served, ConnectStation
<1>2. events' \in Seq(Event)
  BY ReportsAreEvents DEF WifiInv, ConnectStation
<1>. QED
  BY <1>1, <1>2 DEF WifiInv

-----------------------------------------------------------------------------
(* THEOREMS                                                                *)

(* Module Hotspot, Reachable: GOT_IP and DISCONNECTED delete one server    *)
(* and accept the other in an order that never leaves port 80 without one. *)
THEOREM HotspotReachable == HotspotSpec => []Reachable
<1>1. WifiInit => WifiInv
  BY DEF WifiInit, WifiInv, Online
<1>2. WifiInv /\ [HotspotNext]_wifiVars => WifiInv'
  <2>. SUFFICES ASSUME WifiInv, [HotspotNext]_wifiVars PROVE WifiInv'
    OBVIOUS
  <2>1. CASE Network \/ Visitor
    BY <2>1, NetworkKeepsWifiInv, VisitorKeepsWifiInv
  <2>2. CASE OneshotInit
    BY <2>2, OneshotInitKeepsWifiInv
  <2>3. CASE ErrorTimer
    BY <2>3, HotspotStarts DEF WifiInv, ErrorTimer
  <2>4. CASE \E connected \in BOOLEAN : WifiHandleEvent(connected)
    BY <2>4, WifiEventKeepsWifiInv
  <2>5. CASE ConnectStation
    BY <2>5, ConnectStationKeepsWifiInv
  <2>6. CASE LedJson \/ UNCHANGED wifiVars
    BY <2>6 DEF WifiInv, Online, LedJson, wifiVars
  <2>. QED
    BY <2>1, <2>2, <2>3, <2>4, <2>5, <2>6 DEF HotspotNext
<1>3. WifiInv => Reachable
  <2>1. WifiInv /\ events = << >> => ~(server = "none" /\ Online)
    BY DEF WifiInv
  <2>. QED
    BY <2>1 DEF WifiInv, Reachable
<1>. QED
  BY <1>1, <1>2, <1>3, PTL DEF HotspotSpec

(* Module Portal, SetsTimeOnce: the connection to the time server is       *)
(* deleted with the first answer, so no repeated request is answered twice.*)
THEOREM PortalSetsTimeOnce == PortalSpec => []SetsTimeOnce
<1>1. PortalInit => TimeInv
  BY DEF PortalInit, TimeInv
<1>2. TimeInv /\ [PortalNext]_portalVars => TimeInv'
  <2>. SUFFICES ASSUME TimeInv, [PortalNext]_portalVars PROVE TimeInv'
    OBVIOUS
  <2>1. CASE UNCHANGED <<ntpconn, due>>
    BY <2>1 DEF TimeInv
  <2>2. ASSUME NEW c \in Clients, RequestTime(c) PROVE TimeInv'
    <3>1. CASE ntpconn.open
      <4>1. ntpconn' = [ntpconn EXCEPT !.reverse = c] /\ due' = due
        BY <2>2, <3>1 DEF RequestTime
      <4>2. ntpconn'.open = ntpconn.open
        BY <4>1 DEF TimeInv
      <4>3. ntpconn' \in [open : BOOLEAN, reverse : Clients \cup {Nobody}]
        BY <4>1 DEF TimeInv
      <4>. QED
        BY <4>1, <4>2, <4>3 DEF TimeInv
    <3>2. CASE ~ntpconn.open
      <4>1. ntpconn' = [open |-> TRUE, reverse |-> c] /\ due' = due + 1
        BY <2>2, <3>2 DEF RequestTime
      <4>2. due' = 1
        BY <3>2, <4>1 DEF TimeInv
      <4>. QED
        BY <4>1, <4>2 DEF TimeInv
    <3>. QED
      BY <3>1, <3>2
  <2>3. CASE NtpconnRecv
    <3>1. ntpconn' = [ntpconn EXCEPT !.open = FALSE] /\ due' = due - 1 /\ ntpconn.open
      BY <2>3 DEF NtpconnRecv
    <3>2. ~ntpconn'.open
      BY <3>1 DEF TimeInv
    <3>3. ntpconn' \in [open : BOOLEAN, reverse : Clients \cup {Nobody}]
      BY <3>1 DEF TimeInv
    <3>4. due' = 0
      BY <3>1 DEF TimeInv
    <3>. QED
      BY <3>2, <3>3, <3>4 DEF TimeInv
  <2>4. ASSUME NEW c \in Clients, TcpclientRecv(c) PROVE TimeInv'
    <3>1. RequestTime(c) \/ UNCHANGED <<ntpconn, due>>
      BY <2>4 DEF TcpclientRecv, ntpVars
    <3>. QED
      BY <2>1, <2>2, <3>1
  <2>5. CASE NetworkChanges
    BY <2>1, <2>5 DEF NetworkChanges, ntpVars
  <2>6. ASSUME NEW c \in Clients, Connect(c) \/ Leave(c) \/ TcpclientSent(c)
        PROVE  TimeInv'
    BY <2>1, <2>6 DEF Connect, Leave, TcpclientSent, ntpVars
  <2>7. CASE TcpConnTask
    BY <2>1, <2>7 DEF TcpConnTask
  <2>8. CASE Request \/ PacketLost
    BY <2>1, <2>8 DEF Request, PacketLost
  <2>9. CASE UNCHANGED portalVars
    BY <2>1, <2>9 DEF portalVars, ntpVars
  <2>. QED
    BY <2>3, <2>4, <2>5, <2>6, <2>7, <2>8, <2>9 DEF PortalNext
<1>3. TimeInv => SetsTimeOnce
  BY DEF TimeInv, SetsTimeOnce
<1>. QED
  BY <1>1, <1>2, <1>3, PTL DEF PortalSpec

-----------------------------------------------------------------------------
(* ANSWERS                                                                 *)

Signal == 0..13

ClientState == {"away", "open", "waiting", "answered", "told", "forgotten", "shut"}

AnswerTypeOK ==
  /\ client \in [Clients -> ClientState]
  /\ asked \in [Clients -> Seq(Requests)]
  /\ got \in [Clients -> SUBSET Signal]
  /\ queue \in Seq(Signal \X Clients)
  /\ ntpconn \in [open : BOOLEAN, reverse : Clients \cup {Nobody}]
  /\ ntpconn.open => ntpconn.reverse \in Clients

(* What it may be answered with                                            *)
Wanted(c) == UNION {Answers(asked[c][i]) : i \in DOMAIN asked[c]}

Queued(sig, c) == \E i \in DOMAIN queue : queue[i] = <<sig, c>>

(* What is on its way to this address is for the client that has it.       *)
Expected(c) ==
  /\ \A sig \in Signal : Queued(sig, c) => sig = 1 \/ sig \in Wanted(c)
  /\ ntpconn.open /\ ntpconn.reverse = c => AsksTime(c)

AnswerInv ==
  /\ AnswerTypeOK
  /\ \A c \in Clients \ heirs :
       /\ got[c] \subseteq Wanted(c)
       /\ InReach(c) => Expected(c)

-----------------------------------------------------------------------------
(* A path leads to a page or to one of the two commands, never to the      *)
(* signal that hangs up.                                                   *)
LEMMA RouteIsASignal ==
  ASSUME NEW path
  PROVE  Route(path) \in (0..13) \ {1}
<1>. DEFINE I == {i \in 1..Len(Pages) : Matches(path, Pages[i][1])}
<1>1. SelectInSeq(Pages, LAMBDA page : Matches(path, page[1])) =
        IF I # {} THEN Min(I) ELSE 0
  BY DEF SelectInSeq
<1>2. Len(Pages) = 13
  BY DEF Pages
<1>3. I # {} => Min(I) \in I
  <2>1. I \subseteq Nat
    BY <1>2
  <2>. HIDE DEF I
  <2>. QED
    BY <2>1, LeastExists
<1>. DEFINE i == SelectInSeq(Pages, LAMBDA page : Matches(path, page[1]))
<1>4. i = 0 \/ i \in 1..Len(Pages)
  BY <1>1, <1>3
<1>5. Route(path) = IF i = 0 THEN 0 ELSE Pages[i][2]
  BY DEF Route
<1>6. \A j \in 1..13 : Pages[j][2] \in (0..13) \ {1}
  BY DEF Pages, SETTIME, SETWIFI
<1>. HIDE DEF i
<1>. QED
  BY <1>4, <1>5, <1>2, <1>6

(* What a client may be answered with, page by page                        *)
LEMMA AnswersAre ==
  \A path :
    /\ Route(path) = SETTIME => Answers(path) = {10, 11}
    /\ Route(path) = SETWIFI => Answers(path) = {2}
    /\ Route(path) \in 0..11 => Answers(path) = {Route(path)}
<1>. TAKE path
<1>1. Route(path) \in (0..13) \ {1}
  BY RouteIsASignal
<1>. QED
  BY <1>1 DEF Answers, SETTIME, SETWIFI

(* What is in the queue was there, or is what was put into it.             *)
LEMMA Posted ==
  ASSUME AnswerTypeOK, NEW sig \in Signal, NEW c \in Clients, Post(sig, c)
  PROVE  /\ queue' \in Seq(Signal \X Clients)
         /\ \A s, d : Queued(s, d)' => Queued(s, d) \/ (s = sig /\ d = c)
<1>. DEFINE entry == <<sig, c>>
            Entries == Signal \X Clients
<1>1. queue \in Seq(Entries) /\ entry \in Entries
  BY DEF AnswerTypeOK
<1>2. queue' = Append(queue, entry) \/ queue' = queue
  BY DEF Post
<1>. HIDE DEF entry, Entries
<1>3. queue' \in Seq(Entries)
  BY <1>1, <1>2
<1>4. ASSUME NEW s, NEW d, Queued(s, d)'
      PROVE  Queued(s, d) \/ (s = sig /\ d = c)
  <2>1. PICK i \in DOMAIN queue' : queue'[i] = <<s, d>>
    BY <1>4 DEF Queued
  <2>2. (i \in DOMAIN queue /\ queue'[i] = queue[i]) \/ queue'[i] = entry
    BY <1>1, <1>2, <2>1
  <2>. QED
    BY <2>1, <2>2 DEF Queued, entry
<1>. QED
  BY <1>3, <1>4 DEF Entries

(* With a request more, a client may be answered with more.                *)
LEMMA WantsMore ==
  ASSUME AnswerTypeOK, NEW c \in Clients, NEW path \in Requests,
         asked' = [asked EXCEPT ![c] = Append(@, path)]
  PROVE  /\ asked' \in [Clients -> Seq(Requests)]
         /\ Wanted(c) \subseteq Wanted(c)'
         /\ Answers(path) \subseteq Wanted(c)'
         /\ AsksTime(c) \/ Route(path) = SETTIME => AsksTime(c)'
         /\ \A d \in Clients \ {c} : asked'[d] = asked[d]
<1>1. asked[c] \in Seq(Requests) /\ asked \in [Clients -> Seq(Requests)]
  BY DEF AnswerTypeOK
<1>2. asked' \in [Clients -> Seq(Requests)] /\ asked'[c] = Append(asked[c], path)
      /\ \A d \in Clients \ {c} : asked'[d] = asked[d]
  BY <1>1
<1>3. /\ \A i \in DOMAIN asked[c] : i \in DOMAIN asked'[c] /\ asked'[c][i] = asked[c][i]
      /\ Len(asked[c]) + 1 \in DOMAIN asked'[c]
      /\ asked'[c][Len(asked[c]) + 1] = path
  BY <1>1, <1>2
<1>4. Wanted(c) \subseteq Wanted(c)' /\ Answers(path) \subseteq Wanted(c)'
  BY <1>3 DEF Wanted
<1>5. AsksTime(c) \/ Route(path) = SETTIME => AsksTime(c)'
  BY <1>3 DEF AsksTime
<1>. QED
  BY <1>2, <1>4, <1>5

(* What is known of a client that nothing happens to.                      *)
LEMMA SameClient ==
  ASSUME NEW c, client'[c] = client[c], asked'[c] = asked[c]
  PROVE  /\ Wanted(c)' = Wanted(c)
         /\ AsksTime(c)' = AsksTime(c)
         /\ InReach(c)' => InReach(c)
BY DEF Wanted, AsksTime, InReach

(* One that has gone or got out of reach is due nothing.                   *)
LEMMA EndsKeeps ==
  ASSUME AnswerInv, NEW gone \in SUBSET Clients, NEW how \in {"away", "shut"},
         Ends(gone, how), queue' \in Seq(Signal \X Clients), ntpconn' = ntpconn,
         \A s, d : Queued(s, d)' /\ d \notin gone => Queued(s, d)
  PROVE  AnswerInv'
<1>1. AnswerTypeOK'
  <2>1. client' \in [Clients -> ClientState]
    BY DEF AnswerInv, AnswerTypeOK, Ends, ClientState
  <2>2. asked' \in [Clients -> Seq(Requests)]
    BY DEF AnswerInv, AnswerTypeOK, Ends
  <2>3. got' \in [Clients -> SUBSET Signal]
    BY DEF AnswerInv, AnswerTypeOK, Ends
  <2>. QED
    BY <2>1, <2>2, <2>3 DEF AnswerInv, AnswerTypeOK
<1>2. ASSUME NEW c \in Clients \ heirs'
      PROVE  got'[c] \subseteq Wanted(c)' /\ (InReach(c)' => Expected(c)')
  <2>1. CASE c \in gone
    <3>1. got'[c] = {} /\ ~InReach(c)'
      BY <2>1 DEF Ends, InReach
    <3>. QED
      BY <3>1
  <2>2. CASE c \notin gone
    <3>1. /\ client'[c] = client[c] /\ asked'[c] = asked[c] /\ got'[c] = got[c]
          /\ c \notin heirs
      BY <2>2 DEF Ends
    <3>2. /\ Wanted(c)' = Wanted(c) /\ AsksTime(c)' = AsksTime(c)
          /\ InReach(c)' => InReach(c)
      BY <3>1, SameClient
    <3>3. got[c] \subseteq Wanted(c) /\ (InReach(c) => Expected(c))
      BY <3>1 DEF AnswerInv
    <3>. QED
      BY <2>2, <3>1, <3>2, <3>3 DEF Expected
  <2>. QED
    BY <2>1, <2>2
<1>. QED
  BY <1>1, <1>2 DEF AnswerInv

(* A client that asks may be answered with what is put into the queue.     *)
LEMMA AsksKeeps ==
  ASSUME AnswerInv, NEW c \in Clients, NEW path \in Requests, InReach(c),
         NEW how \in {"waiting", "forgotten"}, NEW robbed, Asks(c, how, robbed),
         asked' = [asked EXCEPT ![c] = Append(@, path)],
         queue' \in Seq(Signal \X Clients),
         \A s, d : Queued(s, d)' => Queued(s, d) \/ (s \in Answers(path) /\ d = c),
         ntpconn' = ntpconn
           \/ (Route(path) = SETTIME /\ ntpconn' = [open |-> TRUE, reverse |-> c]),
         UNCHANGED <<got, heirs>>
  PROVE  AnswerInv'
<1>1. AnswerTypeOK
  BY DEF AnswerInv
<1>2. /\ asked' \in [Clients -> Seq(Requests)]
      /\ Wanted(c) \subseteq Wanted(c)'
      /\ Answers(path) \subseteq Wanted(c)'
      /\ AsksTime(c) \/ Route(path) = SETTIME => AsksTime(c)'
      /\ \A d \in Clients \ {c} : asked'[d] = asked[d]
  BY <1>1, WantsMore
<1>3. AnswerTypeOK'
  <2>1. client' \in [Clients -> ClientState]
    BY <1>1 DEF AnswerTypeOK, Asks, ClientState
  <2>2. /\ ntpconn' \in [open : BOOLEAN, reverse : Clients \cup {Nobody}]
        /\ ntpconn'.open => ntpconn'.reverse \in Clients
    <3>1. CASE ntpconn' = ntpconn
      BY <1>1, <3>1 DEF AnswerTypeOK
    <3>2. CASE ntpconn' = [open |-> TRUE, reverse |-> c]
      BY <3>2
    <3>. QED
      BY <3>1, <3>2
  <2>. QED
    BY <1>1, <1>2, <2>1, <2>2 DEF AnswerTypeOK
<1>4. ASSUME NEW d \in Clients \ heirs
      PROVE  got'[d] \subseteq Wanted(d)' /\ (InReach(d)' => Expected(d)')
  <2>1. got[d] \subseteq Wanted(d) /\ (InReach(d) => Expected(d))
    BY DEF AnswerInv
  <2>2. CASE d = c
    <3>1. ntpconn'.open /\ ntpconn'.reverse = c =>
            (ntpconn.open /\ ntpconn.reverse = c) \/ Route(path) = SETTIME
      OBVIOUS
    <3>. QED
      BY <1>2, <2>1, <2>2, <3>1 DEF Expected
  <2>3. CASE d # c
    <3>1. InReach(d)' => InReach(d)
      BY <2>3 DEF Asks, InReach
    <3>2. Wanted(d)' = Wanted(d) /\ AsksTime(d)' = AsksTime(d)
      BY <1>2, <2>3 DEF Wanted, AsksTime
    <3>3. ntpconn'.open /\ ntpconn'.reverse = d => ntpconn.open /\ ntpconn.reverse = d
      BY <2>3
    <3>. QED
      BY <2>1, <2>3, <3>1, <3>2, <3>3 DEF Expected
  <2>. QED
    BY <2>2, <2>3
<1>. QED
  BY <1>3, <1>4 DEF AnswerInv

LEMMA RequestTimeKeeps ==
  ASSUME AnswerInv, NEW c \in Clients, NEW path \in Requests, InReach(c),
         Route(path) = SETTIME, RequestTime(c),
         asked' = [asked EXCEPT ![c] = Append(@, path)],
         UNCHANGED <<got, heirs>>
  PROVE  AnswerInv'
<1>1. AnswerTypeOK /\ Answers(path) = {10, 11} /\ 10 \in Signal
  BY AnswersAre DEF AnswerInv, Signal
<1>2. CASE ntpconn.open
  <2>1. /\ ntpconn' = [ntpconn EXCEPT !.reverse = c]
        /\ Post(10, c)
        /\ Asks(c, Heard, {ntpconn.reverse} \ {c})
    BY <1>2 DEF RequestTime
  <2>2. ntpconn' = [open |-> TRUE, reverse |-> c]
    BY <1>1, <1>2, <2>1 DEF AnswerTypeOK
  <2>3. Heard \in {"waiting", "forgotten"}
    BY DEF Heard
  <2>4. /\ queue' \in Seq(Signal \X Clients)
        /\ \A s, d : Queued(s, d)' => Queued(s, d) \/ (s \in Answers(path) /\ d = c)
    <3>. DEFINE sig == 10
    <3>1. sig \in Signal /\ sig \in Answers(path) /\ Post(sig, c)
      BY <1>1, <2>1
    <3>. HIDE DEF sig
    <3>. QED
      BY <1>1, <3>1, Posted
  <2>. QED
    BY <1>1, <2>1, <2>2, <2>3, <2>4, AsksKeeps
<1>3. CASE ~ntpconn.open
  <2>1. /\ ntpconn' = [open |-> TRUE, reverse |-> c]
        /\ Asks(c, "waiting", {})
        /\ queue' = queue
    BY <1>3 DEF RequestTime
  <2>2. /\ queue' \in Seq(Signal \X Clients)
        /\ \A s, d : Queued(s, d)' => Queued(s, d)
    BY <1>1, <2>1 DEF AnswerTypeOK, Queued
  <2>. QED
    BY <2>1, <2>2, AsksKeeps
<1>. QED
  BY <1>2, <1>3

(* A client that asks: the three ways to deal with its path.               *)
LEMMA TcpclientRecvKeeps ==
  ASSUME AnswerInv, NEW c \in Clients, TcpclientRecv(c)
  PROVE  AnswerInv'
<1>1. InReach(c) /\ AnswerTypeOK
  BY DEF TcpclientRecv, AnswerInv
<1>2. PICK path \in Requests :
       \/ /\ Route(path) = SETTIME
          /\ RequestTime(c)
          /\ asked' = [asked EXCEPT ![c] = Append(@, path)]
          /\ UNCHANGED <<network, got, heirs>>
       \/ /\ Route(path) = SETWIFI
          /\ network' = "none"
          /\ Post(2, c)
          /\ NetworkTakesClients
          /\ UNCHANGED ntpVars
       \/ /\ Route(path) \in 0..11
          /\ Post(Route(path), c)
          /\ Asks(c, Heard, {})
          /\ asked' = [asked EXCEPT ![c] = Append(@, path)]
          /\ UNCHANGED <<network, got, heirs, ntpVars>>
  BY DEF TcpclientRecv
<1>3. CASE Route(path) = SETTIME /\ RequestTime(c)
           /\ asked' = [asked EXCEPT ![c] = Append(@, path)]
           /\ UNCHANGED <<network, got, heirs>>
  BY <1>1, <1>3, RequestTimeKeeps
<1>4. CASE Post(2, c) /\ NetworkTakesClients /\ UNCHANGED ntpVars
  <2>. DEFINE gone == {d \in Clients : InReach(d)}
  <2>1. Ends(gone, "away") /\ c \in gone /\ gone \in SUBSET Clients
    BY <1>1, <1>4 DEF NetworkTakesClients
  <2>2. /\ queue' \in Seq(Signal \X Clients)
        /\ \A s, d : Queued(s, d)' => Queued(s, d) \/ (s = 2 /\ d = c)
    BY <1>1, <1>4, Posted DEF Signal
  <2>3. ntpconn' = ntpconn
    BY <1>4 DEF ntpVars
  <2>. HIDE DEF gone
  <2>. QED
    BY <2>1, <2>2, <2>3, EndsKeeps
<1>5. CASE Route(path) \in 0..11 /\ Post(Route(path), c) /\ Asks(c, Heard, {})
           /\ asked' = [asked EXCEPT ![c] = Append(@, path)]
           /\ UNCHANGED <<network, got, heirs, ntpVars>>
  <2>. DEFINE sig == Route(path)
  <2>1. sig \in Signal /\ Answers(path) = {sig} /\ ntpconn' = ntpconn
    BY <1>5, AnswersAre DEF Signal, ntpVars
  <2>2. Heard \in {"waiting", "forgotten"}
    BY DEF Heard
  <2>. HIDE DEF sig
  <2>3. /\ queue' \in Seq(Signal \X Clients)
        /\ \A s, d : Queued(s, d)' => Queued(s, d) \/ (s = sig /\ d = c)
    BY <1>1, <1>5, <2>1, Posted DEF sig
  <2>. QED
    BY <1>1, <1>5, <2>1, <2>2, <2>3, AsksKeeps
<1>. QED
  BY <1>2, <1>3, <1>4, <1>5

(* What keeps the clients in reach, what they asked for and the others'    *)
(* entries, and gives nobody what it does not want.                        *)
LEMMA OthersKeepAnswerInv ==
  ASSUME AnswerInv, AnswerTypeOK', UNCHANGED <<asked, heirs>>,
         \A c \in Clients : InReach(c)' => InReach(c),
         \A c \in Clients \ heirs : got'[c] \subseteq got[c] \cup Wanted(c),
         \A s, d : Queued(s, d)' => \/ Queued(s, d) \/ s = 1
                                    \/ s = 11 /\ AsksTime(d)
                                    \/ d \in heirs \/ ~InReach(d),
         ntpconn' = ntpconn \/ ~ntpconn'.open
  PROVE  AnswerInv'
<1>. SUFFICES ASSUME NEW c \in Clients \ heirs
              PROVE  got'[c] \subseteq Wanted(c)' /\ (InReach(c)' => Expected(c)')
  BY DEF AnswerInv
<1>1. got[c] \subseteq Wanted(c) /\ (InReach(c) => Expected(c))
  BY DEF AnswerInv
<1>2. Wanted(c)' = Wanted(c) /\ AsksTime(c)' = AsksTime(c)
  BY DEF Wanted, AsksTime
<1>3. AsksTime(c) => 11 \in Wanted(c)
  BY AnswersAre DEF AsksTime, Wanted
<1>. QED
  BY <1>1, <1>2, <1>3 DEF Expected

LEMMA TcpclientSentKeeps ==
  ASSUME AnswerInv, NEW c \in Clients, TcpclientSent(c)
  PROVE  AnswerInv'
<1>1. /\ client[c] = "answered"
      /\ client' = [client EXCEPT ![c] = "told"]
      /\ Post(1, c)
      /\ UNCHANGED <<asked, got, heirs, ntpconn>>
  BY DEF TcpclientSent, ntpVars
<1>2. AnswerTypeOK /\ 1 \in Signal
  BY DEF AnswerInv, Signal
<1>3. /\ queue' \in Seq(Signal \X Clients)
      /\ \A s, d : Queued(s, d)' => Queued(s, d) \/ (s = 1 /\ d = c)
  BY <1>1, <1>2, Posted
<1>4. AnswerTypeOK'
  BY <1>1, <1>2, <1>3 DEF AnswerTypeOK, ClientState
<1>5. \A d \in Clients : InReach(d)' => InReach(d)
  BY <1>1, <1>2 DEF InReach, AnswerTypeOK
<1>. QED
  BY <1>1, <1>3, <1>4, <1>5, OthersKeepAnswerInv

LEMMA NtpconnRecvKeeps ==
  ASSUME AnswerInv, NtpconnRecv
  PROVE  AnswerInv'
<1>. DEFINE c == ntpconn.reverse
<1>1. /\ ntpconn.open
      /\ ntpconn' = [ntpconn EXCEPT !.open = FALSE]
      /\ Post(11, c) /\ Forgets(c)
      /\ UNCHANGED <<asked, got, heirs>>
  BY DEF NtpconnRecv
<1>2. AnswerTypeOK /\ 11 \in Signal /\ c \in Clients
  BY <1>1 DEF AnswerInv, AnswerTypeOK, Signal
<1>3. /\ ntpconn' \in [open : BOOLEAN, reverse : Clients \cup {Nobody}]
      /\ ~ntpconn'.open
  BY <1>1, <1>2 DEF AnswerTypeOK
<1>4. c \notin heirs /\ InReach(c) => AsksTime(c)
  BY <1>1, <1>2 DEF AnswerInv, Expected
<1>. HIDE DEF c
<1>5. /\ queue' \in Seq(Signal \X Clients)
      /\ \A s, d : Queued(s, d)' => Queued(s, d) \/ (s = 11 /\ d = c)
  BY <1>1, <1>2, Posted
<1>6. client' \in [Clients -> ClientState]
  BY <1>1, <1>2 DEF AnswerTypeOK, Forgets, ClientState
<1>7. AnswerTypeOK'
  BY <1>1, <1>2, <1>3, <1>5, <1>6 DEF AnswerTypeOK
<1>8. \A d \in Clients : InReach(d)' => InReach(d)
  BY <1>1, <1>2 DEF InReach, AnswerTypeOK, Forgets
<1>. QED
  BY <1>1, <1>3, <1>4, <1>5, <1>7, <1>8, OthersKeepAnswerInv

(* The task answers the head of the queue, or hangs up on its client.      *)
LEMMA TcpConnTaskKeeps ==
  ASSUME AnswerInv, TcpConnTask
  PROVE  AnswerInv'
<1>. DEFINE sig == queue[1][1]
            c == queue[1][2]
<1>1. /\ AnswerTypeOK /\ queue \in Seq(Signal \X Clients) /\ queue # <<>>
      /\ queue' = Tail(queue) /\ ntpconn' = ntpconn
      /\ (sig = 1 /\ Hangup(c)) \/ (sig # 1 /\ Answer(sig, c))
  BY DEF AnswerInv, AnswerTypeOK, TcpConnTask
<1>2. sig \in Signal /\ c \in Clients /\ Queued(sig, c)
      /\ queue' \in Seq(Signal \X Clients)
  <2>1. 1 \in DOMAIN queue /\ queue[1] \in Signal \X Clients
    BY <1>1
  <2>. QED
    BY <1>1, <2>1 DEF Queued
<1>3. \A s, d : Queued(s, d)' => Queued(s, d)
  <2>. SUFFICES ASSUME NEW s, NEW d, NEW i \in DOMAIN queue', queue'[i] = <<s, d>>
                PROVE  Queued(s, d)
    BY DEF Queued
  <2>1. i + 1 \in DOMAIN queue /\ queue[i + 1] = queue'[i]
    BY <1>1
  <2>. QED
    BY <2>1 DEF Queued
<1>. HIDE DEF sig, c
<1>4. CASE UNCHANGED <<client, asked, got, heirs>>
  <2>1. AnswerTypeOK'
    BY <1>1, <1>2, <1>4 DEF AnswerTypeOK
  <2>2. \A d \in Clients : InReach(d)' => InReach(d)
    BY <1>4 DEF InReach
  <2>. QED
    BY <1>1, <1>3, <1>4, <2>1, <2>2, OthersKeepAnswerInv
<1>5. CASE sig = 1 /\ InReach(c) /\ Hangup(c)
  <2>. DEFINE how == IF client[c] = "waiting" THEN "shut" ELSE "away"
  <2>1. Ends({c}, how) /\ how \in {"away", "shut"} /\ {c} \in SUBSET Clients
    BY <1>2, <1>5 DEF Hangup
  <2>. HIDE DEF how
  <2>. QED
    BY <1>1, <1>2, <1>3, <2>1, EndsKeeps
<1>6. CASE sig # 1 /\ InReach(c) /\ UNCHANGED <<asked, heirs>>
           /\ client' = [client EXCEPT ![c] = "answered"]
           /\ got' = [got EXCEPT ![c] = {sig}]
  <2>1. AnswerTypeOK'
    BY <1>1, <1>2, <1>6 DEF AnswerTypeOK, ClientState
  <2>2. \A d \in Clients : InReach(d)' => InReach(d)
    BY <1>1, <1>6 DEF InReach, AnswerTypeOK
  <2>3. c \notin heirs => sig \in Wanted(c)
    BY <1>2, <1>6 DEF AnswerInv, Expected
  <2>4. \A d \in Clients \ heirs : got'[d] \subseteq got[d] \cup Wanted(d)
    BY <1>1, <1>2, <1>6, <2>3 DEF AnswerTypeOK
  <2>. QED
    BY <1>1, <1>3, <1>6, <2>1, <2>2, <2>4, OthersKeepAnswerInv
<1>. QED
  BY <1>1, <1>4, <1>5, <1>6 DEF Hangup, Answer

(* A client whose address nobody has is due nothing yet.                   *)
LEMMA ConnectKeeps ==
  ASSUME AnswerInv, NEW c \in Clients, Connect(c)
  PROVE  AnswerInv'
<1>1. /\ client' = [client EXCEPT ![c] = "open"]
      /\ heirs' = IF InUse(c) THEN heirs \cup {c} ELSE heirs
      /\ UNCHANGED <<asked, got, queue, ntpconn>>
  BY DEF Connect, ntpVars
<1>2. AnswerTypeOK
  BY DEF AnswerInv
<1>3. AnswerTypeOK'
  BY <1>1, <1>2 DEF AnswerTypeOK, ClientState
<1>4. ASSUME NEW d \in Clients \ heirs'
      PROVE  got'[d] \subseteq Wanted(d)' /\ (InReach(d)' => Expected(d)')
  <2>1. /\ Wanted(d)' = Wanted(d) /\ AsksTime(d)' = AsksTime(d)
        /\ \A s : Queued(s, d)' = Queued(s, d)
    BY <1>1 DEF Wanted, AsksTime, Queued
  <2>2. got[d] \subseteq Wanted(d) /\ (InReach(d) => Expected(d))
    BY <1>1 DEF AnswerInv
  <2>3. CASE d = c
    <3>1. ~InUse(c)
      BY <1>1, <2>3
    <3>2. \A s : ~Queued(s, c)
      BY <3>1 DEF InUse, Queued
    <3>3. ~(ntpconn.open /\ ntpconn.reverse = c)
      BY <3>1 DEF InUse
    <3>. QED
      BY <1>1, <2>1, <2>2, <2>3, <3>2, <3>3 DEF Expected
  <2>4. CASE d # c
    <3>1. InReach(d)' = InReach(d)
      BY <1>1, <1>2, <2>4 DEF InReach, AnswerTypeOK
    <3>. QED
      BY <1>1, <2>1, <2>2, <3>1 DEF Expected
  <2>. QED
    BY <2>3, <2>4
<1>. QED
  BY <1>3, <1>4 DEF AnswerInv

(* Module Portal, AnsweredAsAsked: an answer goes to the client that asked,*)
(* and is for a page it asked for, however the callbacks, the task and the *)
(* time server follow each other, whoever leaves meanwhile and whatever    *)
(* does not fit into the queue.                                            *)
THEOREM PortalAnsweredAsAsked == PortalSpec => []AnsweredAsAsked
<1>1. PortalInit => AnswerInv
  <2>. SUFFICES ASSUME PortalInit PROVE AnswerInv
    OBVIOUS
  <2>1. AnswerTypeOK
    BY DEF PortalInit, AnswerTypeOK, ClientState
  <2>2. \A c \in Clients : got[c] = {} /\ ~InReach(c)
    BY DEF PortalInit, InReach
  <2>. QED
    BY <2>1, <2>2 DEF AnswerInv
<1>2. AnswerInv /\ [PortalNext]_portalVars => AnswerInv'
  <2>. SUFFICES ASSUME AnswerInv, [PortalNext]_portalVars PROVE AnswerInv'
    OBVIOUS
  <2>1. ASSUME NEW gone \in SUBSET Clients, Ends(gone, "away"), queue' = queue,
               UNCHANGED ntpVars
        PROVE  AnswerInv'
    <3>1. /\ queue' \in Seq(Signal \X Clients) /\ ntpconn' = ntpconn
          /\ \A s, d : Queued(s, d)' => Queued(s, d)
      BY <2>1 DEF AnswerInv, AnswerTypeOK, Queued, ntpVars
    <3>. QED
      BY <2>1, <3>1, EndsKeeps
  <2>2. CASE NetworkChanges
    <3>. DEFINE gone == {c \in Clients : InReach(c)}
    <3>1. gone \in SUBSET Clients /\ Ends(gone, "away") /\ queue' = queue /\ UNCHANGED ntpVars
      BY <2>2 DEF NetworkChanges, NetworkTakesClients
    <3>. HIDE DEF gone
    <3>. QED
      BY <2>1, <3>1
  <2>3. ASSUME NEW c \in Clients, Leave(c) PROVE AnswerInv'
    BY <2>1, <2>3 DEF Leave
  <2>4. ASSUME NEW c \in Clients, Connect(c) \/ TcpclientRecv(c) \/ TcpclientSent(c)
        PROVE  AnswerInv'
    BY <2>4, ConnectKeeps, TcpclientRecvKeeps, TcpclientSentKeeps
  <2>5. CASE TcpConnTask
    BY <2>5, TcpConnTaskKeeps
  <2>6. CASE NtpconnRecv
    BY <2>6, NtpconnRecvKeeps
  <2>7. CASE UNCHANGED <<httpVars, ntpconn>>
    BY <2>7 DEF AnswerInv, AnswerTypeOK, InReach, Expected, Wanted, Queued, AsksTime, httpVars
  <2>8. CASE Request \/ PacketLost \/ UNCHANGED portalVars
    BY <2>7, <2>8 DEF Request, PacketLost, portalVars, ntpVars
  <2>. QED
    BY <2>2, <2>3, <2>4, <2>5, <2>6, <2>8 DEF PortalNext
<1>3. AnswerInv => AnsweredAsAsked
  BY DEF AnswerInv, AnsweredAsAsked, Wanted
<1>. QED
  BY <1>1, <1>2, <1>3, PTL DEF PortalSpec

-----------------------------------------------------------------------------
(* THE CLOCK                                                               *)

(* Quotient and remainder                                                  *)
LEMMA Division ==
  ASSUME NEW n \in Int, NEW d \in Nat \ {0}
  PROVE  /\ n \div d \in Int /\ n % d \in 0..d - 1
         /\ n = d * (n \div d) + (n % d)
         /\ n \in Nat => n \div d \in Nat
OBVIOUS

(* They are the only numbers of this kind.                                 *)
LEMMA Quotient ==
  ASSUME NEW n \in Int, NEW d \in Nat \ {0}, NEW q \in Int, NEW r \in 0..d - 1,
         n = d * q + r
  PROVE  n \div d = q /\ n % d = r
<1>. DEFINE p == n \div d
            e == n % d
<1>1. p \in Int /\ e \in 0..d - 1 /\ n = d * p + e
  BY Division
<1>. HIDE DEF p, e
<1>2. d * (p - q) = r - e
  BY <1>1
<1>3. ~(p - q >= 1)
  <2>. SUFFICES ASSUME p - q >= 1 PROVE FALSE
    OBVIOUS
  <2>1. d * (p - q) >= d * 1
    BY <1>1
  <2>. QED
    BY <1>1, <1>2, <2>1
<1>4. ~(q - p >= 1)
  <2>. SUFFICES ASSUME q - p >= 1 PROVE FALSE
    OBVIOUS
  <2>1. d * (q - p) >= d * 1
    BY <1>1
  <2>2. d * (q - p) = -(d * (p - q))
    BY <1>1
  <2>. QED
    BY <1>1, <1>2, <2>1, <2>2
<1>5. p = q
  BY <1>1, <1>3, <1>4
<1>6. e = r
  BY <1>1, <1>2, <1>5
<1>. QED
  BY <1>5, <1>6 DEF p, e

(* The code's fraction of a second is what is missing to a word.           *)
LEMMA FracIs ==
  ASSUME NEW us \in Nat
  PROVE  Frac(us) = IF us % Second = 0 THEN 0 ELSE Word - (us % Second)
<1>. DEFINE m == us % Second
<1>1. m \in 0..Second - 1 /\ Second < Word /\ {Word, Second} \subseteq Nat \ {0}
  BY SntpAssumption
<1>. HIDE DEF m
<1>2. m * (Word - 1) = Word * (m - 1) + (Word - m)
  BY <1>1
<1>3. ASSUME m # 0 PROVE (m * (Word - 1)) % Word = Word - m
  <2>. DEFINE n == m * (Word - 1)
              q == m - 1
              r == Word - m
  <2>1. n \in Int /\ n = Word * q + r
    BY <1>1, <1>2
  <2>2. q \in Int /\ r \in 0..Word - 1
    BY <1>1, <1>3
  <2>. HIDE DEF n, q, r
  <2>3. n % Word = r
    BY <1>1, <2>1, <2>2, Quotient
  <2>. QED
    BY <2>3 DEF n, r
<1>4. m = 0 => (m * (Word - 1)) % Word = 0
  BY <1>1
<1>. QED
  BY <1>3, <1>4 DEF Frac, m


(* A difference of timestamps whose microseconds are r (of the server) and *)
(* a (of the portal): its fraction f, and k, what is borrowed for it.      *)
LEMMA Borrowed ==
  ASSUME NEW a \in 0..Second - 1, NEW r \in 0..Second - 1,
         NEW fa, fa = (IF a = 0 THEN 0 ELSE Word - a),
         NEW fr, fr = (r * Word) \div Second,
         NEW k, k = (IF fr < fa THEN 1 ELSE 0),
         NEW f, f = (IF fr < fa THEN (fr + Word - 1 - fa) % Word ELSE fr - fa)
  PROVE  /\ f \in Nat /\ f < Word
         /\ f * Second =< r * Word + a * Second - k * Second
                           - (IF k = 0 /\ a > 0 THEN Word * Second ELSE 0)
         /\ f * Second > r * Word + a * Second - k * Second - Second
                           - (IF k = 0 /\ a > 0 THEN Word * Second ELSE 0)
         /\ k \in {0, 1} /\ (k = 1 => a > 0)
<1>1. /\ Word \in Nat /\ Second \in Nat /\ Second > 0 /\ 2 * Second < Word
      /\ a \in Int /\ r \in Int /\ a >= 0 /\ r >= 0 /\ a < Second /\ r < Second
  BY SntpAssumption
<1>2. r * Word \in Nat
  BY <1>1
<1>3. /\ fr \in Nat
      /\ Second * fr =< r * Word /\ r * Word < Second * fr + Second
  <2>. DEFINE n == r * Word
              e == n % Second
  <2>1. n \in Nat /\ e \in 0..Second - 1 /\ n = Second * fr + e /\ fr \in Nat
    BY <1>1, <1>2, Division
  <2>. HIDE DEF e
  <2>. QED
    BY <1>1, <2>1
<1>4. fr < Word
  <2>. SUFFICES ASSUME fr >= Word PROVE FALSE
    BY <1>1, <1>3
  <2>1. Second * fr >= Second * Word
    BY <1>1, <1>3
  <2>2. r * Word < Second * Word
    BY <1>1
  <2>. QED
    BY <1>1, <1>2, <1>3, <2>1, <2>2
<1>5. CASE fr < fa
  <2>1. a > 0 /\ fa = Word - a /\ k = 1
    BY <1>1, <1>3, <1>5
  <2>2. f = fr + a - 1
    <3>1. fr + Word - 1 - fa = fr + a - 1
      BY <1>1, <1>3, <2>1
    <3>2. fr + a - 1 \in 0..Word - 1
      BY <1>1, <1>3, <1>5, <2>1
    <3>. DEFINE n == fr + a - 1
    <3>3. n % Word = n
      <4>1. n \in Int /\ n \in 0..Word - 1 /\ n = Word * 0 + n
        BY <1>1, <3>2
      <4>. HIDE DEF n
      <4>. QED
        BY <1>1, <4>1, Quotient
    <3>. QED
      BY <1>5, <3>1, <3>3
  <2>3. f * Second = Second * fr + a * Second - Second
    BY <1>1, <1>3, <2>2
  <2>. QED
    BY <1>1, <1>2, <1>3, <1>4, <1>5, <2>1, <2>2, <2>3
<1>6. CASE fr >= fa
  <2>1. k = 0 /\ f = fr - fa
    BY <1>1, <1>3, <1>6
  <2>2. CASE a = 0
    <3>1. f = fr
      BY <1>1, <1>3, <2>1, <2>2
    <3>. QED
      BY <1>1, <1>2, <1>3, <1>4, <2>1, <2>2, <3>1
  <2>3. CASE a > 0
    <3>1. f = fr - Word + a
      BY <1>1, <1>3, <2>1, <2>3
    <3>2. f * Second = Second * fr - Word * Second + a * Second
      BY <1>1, <1>3, <3>1
    <3>. QED
      BY <1>1, <1>2, <1>3, <1>4, <1>6, <2>1, <2>3, <3>1, <3>2
  <2>. QED
    BY <1>1, <2>2, <2>3
<1>. QED
  BY <1>1, <1>3, <1>5, <1>6

(* What two such differences and their sum, which carries k3, leave of the *)
(* microseconds is at least -2 * Slack and at most three seconds.          *)
LEMMA Error ==
  ASSUME NEW a \in 0..Second - 1, NEW r \in 0..Second - 1,
         NEW b \in 0..Second - 1, NEW t \in 0..Second - 1,
         NEW fa, fa = (IF a = 0 THEN 0 ELSE Word - a),
         NEW fb, fb = (IF b = 0 THEN 0 ELSE Word - b),
         NEW fr, fr = (r * Word) \div Second,
         NEW ft, ft = (t * Word) \div Second,
         NEW k1, k1 = (IF fr < fa THEN 1 ELSE 0),
         NEW k2, k2 = (IF ft < fb THEN 1 ELSE 0),
         NEW f1, f1 = (IF fr < fa THEN (fr + Word - 1 - fa) % Word ELSE fr - fa),
         NEW f2, f2 = (IF ft < fb THEN (ft + Word - 1 - fb) % Word ELSE ft - fb),
         NEW k3, k3 = (IF f1 + f2 >= Word THEN 1 ELSE 0),
         NEW T, T = r + t - a - b + (k1 + k2 - k3) * Second
  PROVE  -T =< 2 * Slack /\ T =< 3 * Second
<1>1. /\ Word \in Nat /\ Second \in Nat /\ Second > 0 /\ 2 * Second < Word
      /\ {a, b, r, t} \subseteq Nat
      /\ a < Second /\ b < Second /\ r < Second /\ t < Second
  BY SntpAssumption
<1>2. /\ f1 \in Nat
      /\ f1 * Second =< r * Word + a * Second - k1 * Second
                         - (IF k1 = 0 /\ a > 0 THEN Word * Second ELSE 0)
      /\ f1 * Second > r * Word + a * Second - k1 * Second - Second
                         - (IF k1 = 0 /\ a > 0 THEN Word * Second ELSE 0)
      /\ k1 \in {0, 1} /\ (k1 = 1 => a > 0)
  BY Borrowed
<1>3. /\ f2 \in Nat
      /\ f2 * Second =< t * Word + b * Second - k2 * Second
                         - (IF k2 = 0 /\ b > 0 THEN Word * Second ELSE 0)
      /\ f2 * Second > t * Word + b * Second - k2 * Second - Second
                         - (IF k2 = 0 /\ b > 0 THEN Word * Second ELSE 0)
      /\ k2 \in {0, 1} /\ (k2 = 1 => b > 0)
  BY Borrowed
<1>4. /\ k3 \in {0, 1}
      /\ k3 = 1 => f1 + f2 >= Word
      /\ k3 = 0 => f1 + f2 < Word
  BY <1>1, <1>2, <1>3
<1>. DEFINE aW == a * Word
            bW == b * Word
            rW == r * Word
            tW == t * Word
            aS == a * Second
            bS == b * Second
            SW == Word * Second
            SS == Second * Second
            g1 == f1 * Second
            g2 == f2 * Second
<1>5. /\ {aW, bW, rW, tW, aS, bS, SW, SS, g1, g2} \subseteq Nat
  BY <1>1, <1>2, <1>3
<1>6. \A n \in Nat : n < Second => n * Word =< SW - Word /\ n * Second =< SS - Second
  BY <1>1
<1>7. aW =< SW - Word /\ bW =< SW - Word /\ rW =< SW - Word /\ tW =< SW - Word
      /\ aS =< SS - Second /\ bS =< SS - Second
  BY <1>1, <1>6
<1>8. 2 * SS =< SW
  BY <1>1
<1>9. (a = 0 => aW = 0 /\ aS = 0) /\ (b = 0 => bW = 0 /\ bS = 0)
  BY <1>1
<1>10. (a > 0 => aS >= Second /\ aW >= Word) /\ (b > 0 => bS >= Second /\ bW >= Word)
  BY <1>1
<1>11. /\ k3 = 1 => g1 + g2 >= SW
       /\ k3 = 0 => g1 + g2 < SW
  BY <1>1, <1>2, <1>3, <1>4
<1>12. T * Word = rW + tW - aW - bW + (k1 + k2 - k3) * SW
  BY <1>1, <1>2, <1>3, <1>4
<1>13. T \in Int /\ T * Word \in Int
  BY <1>1, <1>2, <1>3, <1>4
<1>14. /\ T * Word >= 0 \/ -(T * Word) =< 2 * SS - 2 * Word
       /\ T * Word =< 3 * SW
  <2>. DEFINE n == T * Word
  <2>1. /\ g1 =< rW + aS - k1 * Second - (IF k1 = 0 /\ a > 0 THEN SW ELSE 0)
        /\ g1 > rW + aS - k1 * Second - Second - (IF k1 = 0 /\ a > 0 THEN SW ELSE 0)
        /\ g2 =< tW + bS - k2 * Second - (IF k2 = 0 /\ b > 0 THEN SW ELSE 0)
        /\ g2 > tW + bS - k2 * Second - Second - (IF k2 = 0 /\ b > 0 THEN SW ELSE 0)
    BY <1>2, <1>3
  <2>2. n \in Int /\ n = rW + tW - aW - bW + (k1 + k2 - k3) * SW
    BY <1>12, <1>13
  <2>3. a =< Second - 1
    BY <1>1
  <2>. HIDE DEF aW, bW, rW, tW, aS, bS, SW, SS, g1, g2, n
  <2>. DEFINE u == rW - aW + k1 * SW
              w == tW - bW + k2 * SW
  <2>4. /\ u \in Int /\ u =< g1 + SW /\ u =< 2 * SW
        /\ u >= g1 \/ u >= g1 + Word - SS
    <3>. USE <1>1, <1>5, <1>7, <1>8, <1>9, <1>10, <2>1
    <3>1. CASE k1 = 1 /\ a > 0
      BY <3>1
    <3>2. CASE k1 = 0 /\ a > 0
      BY <3>2
    <3>3. CASE k1 = 0 /\ a = 0
      BY <3>3
    <3>. QED
      BY <1>2, <3>1, <3>2, <3>3
  <2>5. /\ w \in Int /\ w =< g2 + SW /\ w =< 2 * SW
        /\ w >= g2 \/ w >= g2 + Word - SS
    <3>. USE <1>1, <1>5, <1>7, <1>8, <1>9, <1>10, <2>1
    <3>1. CASE k2 = 1 /\ b > 0
      BY <3>1
    <3>2. CASE k2 = 0 /\ b > 0
      BY <3>2
    <3>3. CASE k2 = 0 /\ b = 0
      BY <3>3
    <3>. QED
      BY <1>3, <3>1, <3>2, <3>3
  <2>6. n = u + w - k3 * SW
    <3>1. k1 \in Int /\ k2 \in Int /\ k3 \in Int
      BY <1>2, <1>3, <1>4
    <3>2. (k1 + k2 - k3) * SW = k1 * SW + k2 * SW - k3 * SW
      BY ONLY <1>5, <3>1
    <3>3. k1 * SW \in Int /\ k2 * SW \in Int /\ k3 * SW \in Int
      BY ONLY <1>5, <3>1
    <3>. DEFINE x == k1 * SW
                y == k2 * SW
                z == k3 * SW
    <3>4. n = rW + tW - aW - bW + (x + y - z) /\ {x, y, z} \subseteq Int
      BY <2>2, <3>2, <3>3
    <3>5. u = rW - aW + x /\ w = tW - bW + y
      OBVIOUS
    <3>. HIDE DEF x, y, z, u, w
    <3>6. n = u + w - z
      BY ONLY <1>5, <3>4, <3>5
    <3>. QED
      BY <3>6 DEF z
  <2>. HIDE DEF u, w
  <2>7. (n >= 0 \/ -n =< 2 * SS - 2 * Word) /\ n =< 3 * SW
    <3>. USE <1>1, <1>5, <1>11, <2>2, <2>4, <2>5, <2>6
    <3>1. CASE k3 = 1
      BY <3>1
    <3>2. CASE k3 = 0
      BY <3>2
    <3>. QED
      BY <1>4, <3>1, <3>2
  <2>. QED
    BY <2>7 DEF n, SS, SW
<1>15. T =< 3 * Second
  <2>. SUFFICES ASSUME T >= 3 * Second + 1 PROVE FALSE
    BY <1>1, <1>13
  <2>1. T * Word >= (3 * Second + 1) * Word
    BY <1>1, <1>13
  <2>. QED
    BY <1>1, <1>14, <2>1
<1>16. -T =< 2 * Slack
  <2>. DEFINE q == SS \div Word
              e == SS % Word
  <2>. HIDE DEF SS
  <2>1. q \in Nat /\ e \in 0..Word - 1 /\ SS = Word * q + e
    <3>1. SS \in Nat /\ SS \in Int /\ Word \in Nat \ {0}
      BY <1>1, <1>5
    <3>2. q \in Nat
      BY ONLY <3>1, Division
    <3>. QED
      BY ONLY <3>1, <3>2, Division
  <2>. HIDE DEF q, e
  <2>. SUFFICES ASSUME -T >= 2 * q + 1 PROVE FALSE
    BY <1>13, <2>1 DEF Slack, q, SS
  <2>2. \A i, j \in Int : i >= j => i * Word >= j * Word
    <3>. SUFFICES ASSUME NEW i \in Int, NEW j \in Int, i >= j
                  PROVE  i * Word >= j * Word
      OBVIOUS
    <3>1. Word \in Nat
      BY <1>1
    <3>2. i - j \in Nat
      OBVIOUS
    <3>3. (i - j) * Word \in Nat
      BY ONLY <3>1, <3>2
    <3>4. i * Word = j * Word + (i - j) * Word
      BY ONLY <3>1, i \in Int, j \in Int
    <3>5. i * Word \in Int /\ j * Word \in Int
      BY ONLY <3>1, i \in Int, j \in Int
    <3>. QED
      BY ONLY <3>3, <3>4, <3>5
  <2>3. (-T) * Word >= (2 * q + 1) * Word
    BY <1>13, <2>1, <2>2
  <2>4. (-T) * Word >= 1 * Word
    BY <1>13, <2>1, <2>2
  <2>5. (2 * q + 1) * Word = 2 * (Word * q) + Word
    BY <1>1, <2>1
  <2>. DEFINE v == (-T) * Word
              w == Word * q
  <2>6. v \in Int /\ T * Word = -v /\ w \in Int
    BY <1>1, <1>13, <2>1
  <2>7. v =< 2 * SS - 2 * Word
    <3>. HIDE DEF v
    <3>. QED
      BY <1>1, <1>14, <2>4, <2>6 DEF v
  <2>8. v >= 2 * w + Word
    BY <2>3, <2>5
  <2>. HIDE DEF v, w
  <2>9. SS = w + e
    BY <2>1 DEF w
  <2>. QED
    BY <1>1, <2>1, <2>6, <2>7, <2>8, <2>9
<1>. QED
  BY <1>15, <1>16

(* Twice the error of the clock, from the error of the fractions, what the *)
(* halving cuts off, and how long the packets were under way.              *)
LEMMA ClockIsWithin ==
  ASSUME NEW x, Possible(x), Steady(x)
  PROVE  ClockWithin(x)
<1>. DEFINE sent == x.sent
            received == x.received
            read == x.read
            receive == x.receive
            transmit == x.transmit
            s == sent % Wrap
            d == received % Wrap
            g == read % Wrap
            qs == s \div Second
            a == s % Second
            qd == d \div Second
            b == d % Second
            qg == g \div Second
            c == g % Second
            qr == receive \div Second
            r == receive % Second
            qt == transmit \div Second
            t == transmit % Second
            fa == IF a = 0 THEN 0 ELSE Word - a
            fb == IF b = 0 THEN 0 ELSE Word - b
            fr == (r * Word) \div Second
            ft == (t * Word) \div Second
            k1 == IF fr < fa THEN 1 ELSE 0
            k2 == IF ft < fb THEN 1 ELSE 0
            f1 == IF fr < fa THEN (fr + Word - 1 - fa) % Word ELSE fr - fa
            f2 == IF ft < fb THEN (ft + Word - 1 - fb) % Word ELSE ft - fb
            k3 == IF f1 + f2 >= Word THEN 1 ELSE 0
            e == r + t - a - b + (k1 + k2 - k3) * Second
            n == qr - qs - k1 + (qt - qd - k2) + k3
            half == n \div 2
            odd == n % 2
            offset == half + qg
            shows == TrueTime(x)
            ard == ArdTime(x)
            ahead == shows - offset * Second
<1>1. /\ {sent, receive, transmit, received, x.late, read} \subseteq Nat
      /\ receive =< transmit /\ received =< read
      /\ transmit - receive + x.late =< received - sent
  BY DEF Possible
<1>2. /\ Word \in Nat \ {0} /\ Second \in Nat \ {0} /\ Wrap \in Nat \ {0}
      /\ Day \in Nat \ {0} /\ 2 * Second < Word
  BY SntpAssumption
<1>3. /\ s \in Nat /\ d \in Nat /\ g \in Nat
      /\ d - s = received - sent
      /\ g - d = read - received
  <2>1. sent \div Wrap = read \div Wrap
    BY DEF Steady
  <2>. HIDE DEF sent, received, read
  <2>2. sent \in Int /\ received \in Int /\ read \in Int /\ Wrap \in Nat \ {0}
    BY <1>1, <1>2
  <2>3. sent = Wrap * (sent \div Wrap) + s /\ s \in 0..Wrap - 1 /\ sent \div Wrap \in Int
    BY ONLY <2>2, Division
  <2>4. read = Wrap * (read \div Wrap) + g /\ g \in 0..Wrap - 1
    BY ONLY <2>2, Division
  <2>5. sent =< received /\ received =< read
    BY <1>1
  <2>. DEFINE q == sent \div Wrap
              p == Wrap * q
  <2>6. p \in Int /\ q \in Int
    BY <1>2, <2>3
  <2>7. sent = p + s /\ read = p + g
    BY <2>1, <2>3, <2>4
  <2>8. received = Wrap * q + (received - p) /\ received - p \in 0..Wrap - 1
    <3>. HIDE DEF s, g
    <3>1. received - p \in 0..Wrap - 1
      <4>. HIDE DEF p
      <4>. QED
        BY <1>2, <2>2, <2>3, <2>4, <2>5, <2>6, <2>7
    <3>. QED
      BY <2>2, <2>6, <3>1
  <2>9. d = received - p
    <3>. DEFINE f == received - p
    <3>1. received = Wrap * q + f /\ f \in 0..Wrap - 1
      BY <2>8
    <3>. HIDE DEF f, q
    <3>2. received % Wrap = f
      BY <2>2, <2>6, <3>1, Quotient
    <3>. QED
      BY <3>2 DEF f, q
  <2>. HIDE DEF p, s, d, g
  <2>. QED
    BY <1>2, <2>2, <2>3, <2>4, <2>5, <2>6, <2>7, <2>8, <2>9
<1>4. /\ Stamp(x.sent) = <<qs, fa>>
      /\ Stamp(x.received) = <<qd, fb>>
      /\ ServerStamp(x.receive) = <<qr, fr>>
      /\ ServerStamp(x.transmit) = <<qt, ft>>
  BY <1>3, FracIs DEF Stamp, SystemGetTime, ServerStamp
<1>5. SystemGetTime(x.read) \div Second = qg
  BY DEF SystemGetTime
<1>6. shows = transmit + x.late + (read - received)
  BY DEF TrueTime
<1>. HIDE DEF s, d, g, sent, received, read, receive, transmit
<1>7. /\ s = Second * qs + a /\ qs \in Int /\ a \in 0..Second - 1
      /\ d = Second * qd + b /\ qd \in Int /\ b \in 0..Second - 1
      /\ g = Second * qg + c /\ qg \in Int /\ c \in 0..Second - 1
  <2>1. s \in Int /\ d \in Int /\ g \in Int /\ Second \in Nat \ {0}
    BY <1>2, <1>3
  <2>. QED
    BY ONLY <2>1, Division
<1>8. /\ receive = Second * qr + r /\ qr \in Int /\ r \in 0..Second - 1
      /\ transmit = Second * qt + t /\ qt \in Int /\ t \in 0..Second - 1
  <2>1. receive \in Int /\ transmit \in Int /\ Second \in Nat \ {0}
    BY <1>1, <1>2
  <2>. QED
    BY ONLY <2>1, Division
<1>9. {k1, k2, k3} \subseteq {0, 1}
  OBVIOUS
<1>. HIDE DEF qs, qd, qg, qr, qt, a, b, c, r, t
<1>10. ard = offset % Day
  <2>1. /\ Sub(ServerStamp(x.receive), Stamp(x.sent)) = <<qr - qs - k1, f1>>
        /\ Sub(ServerStamp(x.transmit), Stamp(x.received)) = <<qt - qd - k2, f2>>
    <3>. HIDE DEF fa, fb, fr, ft
    <3>. QED
      BY <1>4, <1>7, <1>8 DEF Sub
  <2>2. Plus(<<qr - qs - k1, f1>>, <<qt - qd - k2, f2>>)[1] = n
    <3>. HIDE DEF f1, f2, k1, k2
    <3>. QED
      BY <1>7, <1>8, <1>9 DEF Plus
  <2>. HIDE DEF n, f1, f2, k1, k2
  <2>. QED
    BY <1>5, <2>1, <2>2 DEF ArdTime
<1>11. -e =< 2 * Slack /\ e =< 3 * Second
  <2>1. /\ a \in 0..Second - 1 /\ r \in 0..Second - 1
        /\ b \in 0..Second - 1 /\ t \in 0..Second - 1
    BY <1>7, <1>8
  <2>. QED
    BY ONLY <2>1, Error
<1>. HIDE DEF shows, ard, fa, fb, fr, ft, f1, f2, k1, k2, k3
<1>. DEFINE kS == (k1 + k2 - k3) * Second
<1>12. /\ kS \in Int /\ e = r + t - a - b + kS /\ e \in Int
       /\ n \in Int
  BY <1>2, <1>7, <1>8, <1>9
<1>13. n = 2 * half + odd /\ half \in Int /\ odd \in 0..1
  <2>. HIDE DEF n
  <2>. QED
    BY ONLY <1>12, Division
<1>. DEFINE nS == n * Second
            hS == half * Second
            oS == odd * Second
            oD == offset * Second
<1>14. /\ {nS, hS, oS, oD} \subseteq Int
       /\ nS = 2 * hS + oS
       /\ oS >= 0 /\ oS =< Second
       /\ offset \in Int
  <2>. HIDE DEF n, half, odd
  <2>1. offset \in Int
    BY <1>7, <1>13
  <2>2. {nS, hS, oS, oD} \subseteq Int
    BY <1>2, <1>12, <1>13, <2>1
  <2>3. nS = (2 * half + odd) * Second
    BY <1>13
  <2>4. nS = 2 * hS + oS
    BY <1>2, <1>13, <2>3
  <2>5. odd = 0 \/ odd = 1
    BY <1>13
  <2>6. oS >= 0 /\ oS =< Second
    BY <1>2, <2>5
  <2>. QED
    BY <2>1, <2>2, <2>4, <2>6
<1>15. nS = (receive - r) + (transmit - t) - (s - a) - (d - b) - kS
  <2>. DEFINE rS == Second * qr
              tS == Second * qt
              sS == Second * qs
              dS == Second * qd
              k == k1 + k2 - k3
  <2>1. {rS, tS, sS, dS} \subseteq Int
    BY <1>2, <1>7, <1>8
  <2>2. k \in Int /\ n = qr + qt - qs - qd - k
    BY <1>7, <1>8, <1>9
  <2>. HIDE DEF n, k
  <2>3. n * Second = rS + tS - sS - dS - k * Second
    BY <1>2, <1>7, <1>8, <2>2
  <2>4. rS = receive - r /\ tS = transmit - t /\ sS = s - a /\ dS = d - b
    <3>. HIDE DEF rS, tS, sS, dS
    <3>1. receive = rS + r /\ transmit = tS + t /\ s = sS + a /\ d = dS + b
      BY <1>7, <1>8 DEF rS, tS, sS, dS
    <3>2. {a, b, r, t} \subseteq Int
      BY <1>2, <1>7, <1>8
    <3>. QED
      BY ONLY <2>1, <3>1, <3>2
  <2>. HIDE DEF rS, tS, sS, dS
  <2>. QED
    BY <1>12, <2>3, <2>4 DEF k
<1>16. oD = hS + (g - c)
  <2>1. oD = hS + qg * Second
    <3>. HIDE DEF half
    <3>. QED
      BY <1>2, <1>7, <1>13
  <2>2. qg * Second = g - c
    <3>. DEFINE gS == Second * qg
    <3>1. gS \in Int /\ g = gS + c /\ qg * Second = gS
      BY <1>2, <1>7
    <3>. HIDE DEF gS
    <3>. QED
      BY <1>2, <1>7, <3>1
  <2>. QED
    BY <2>1, <2>2
<1>. HIDE DEF nS, hS, oS, oD, kS, e, n, half, odd, offset
<1>17. ahead = shows - oD /\ ahead \in Int
  BY <1>1, <1>6, <1>14 DEF oD
<1>. HIDE DEF ahead
<1>18. 2 * ahead = (transmit - receive) + 2 * x.late - (received - sent)
                     + e + oS + 2 * c
  <2>1. {a, b, c, r, t} \subseteq Int
    BY <1>2, <1>7, <1>8
  <2>2. nS = receive + transmit - s - d - e
    BY ONLY <1>1, <1>3, <1>12, <1>15, <2>1
  <2>3. 2 * hS = receive + transmit - s - d - e - oS /\ {hS, oS, oD, e} \subseteq Int
    BY ONLY <1>1, <1>3, <1>12, <1>14, <2>2
  <2>4. 2 * oD = receive + transmit - s - d - e - oS + 2 * g - 2 * c
    BY ONLY <1>1, <1>3, <1>16, <2>1, <2>3
  <2>5. s + d - 2 * g = -(received - sent) - 2 * (read - received)
    BY ONLY <1>1, <1>3
  <2>6. 2 * ahead = 2 * (transmit + x.late + (read - received)) - 2 * oD
    BY ONLY <1>1, <1>6, <1>17, <2>3
  <2>. QED
    BY ONLY <1>1, <1>3, <2>1, <2>3, <2>4, <2>5, <2>6
<1>19. Slack \in Int
  BY <1>2, Division DEF Slack
<1>20. /\ 2 * ahead =< 6 * Second + (received - sent)
       /\ -(2 * ahead) =< (received - sent) + 2 * Slack
  BY <1>1, <1>2, <1>7, <1>11, <1>12, <1>14, <1>18, <1>19
<1>. DEFINE M == Day * Second
            behind == (shows - ard * Second) % M
<1>21. PICK z \in Int : ahead = M * z + behind
  <2>. DEFINE p == offset \div Day
              m == shows - ard * Second
              q == m \div M
  <2>1. offset = Day * p + ard /\ p \in Int /\ ard \in Int
    <3>1. offset \in Int /\ Day \in Nat \ {0}
      BY <1>2, <1>14
    <3>2. offset = Day * p + (offset % Day) /\ p \in Int /\ offset % Day \in Int
      BY ONLY <3>1, Division
    <3>. QED
      BY <1>10, <3>2
  <2>2. M \in Nat \ {0} /\ m \in Int
    BY <1>1, <1>2, <1>6, <2>1
  <2>3. m = M * q + behind /\ q \in Int /\ behind \in Int
    <3>. HIDE DEF M
    <3>1. \A i \in Int : i = M * (i \div M) + (i % M) /\ i \div M \in Int /\ i % M \in Int
      BY ONLY <2>2, Division
    <3>. QED
      BY <2>2, <3>1
  <2>. HIDE DEF p, q
  <2>4. oD = M * p + ard * Second
    <3>1. oD = (Day * p + ard) * Second
      BY <2>1 DEF oD
    <3>. QED
      BY <1>2, <2>1, <3>1
  <2>5. ard * Second \in Int
    BY <1>2, <2>1
  <2>. DEFINE w == ard * Second
  <2>6. shows \in Int
    BY <1>1, <1>6
  <2>7. ahead = m - M * p
    <3>1. M * p \in Int
      BY <2>1, <2>2
    <3>. DEFINE y == M * p
    <3>2. oD = y + w /\ m = shows - w /\ y \in Int /\ w \in Int
      BY <2>4, <2>5, <3>1
    <3>. HIDE DEF w, m, y
    <3>3. ahead = m - y
      BY ONLY <1>17, <2>6, <3>2
    <3>. QED
      BY <3>3 DEF y
  <2>. HIDE DEF m, M, behind
  <2>8. ahead = M * (q - p) + behind
    <3>1. M * (q - p) = M * q - M * p /\ M * q \in Int /\ M * p \in Int
      BY <2>1, <2>2, <2>3
    <3>. DEFINE u == M * q
                v == M * p
    <3>2. M * (q - p) = u - v /\ u \in Int /\ v \in Int /\ m = u + behind /\ ahead = m - v
      BY <2>3, <2>7, <3>1
    <3>. HIDE DEF u, v
    <3>. QED
      BY <2>2, <2>3, <3>2
  <2>9. q - p \in Int
    BY <2>1, <2>3
  <2>. QED
    BY <2>8, <2>9
<1>22. M \in Nat \ {0} /\ behind \in Int
  <2>1. M \in Nat \ {0}
    BY <1>2
  <2>2. ard \in Int
    <3>1. offset \in Int /\ Day \in Nat \ {0}
      BY <1>2, <1>14
    <3>2. offset % Day \in Int
      BY ONLY <3>1, Division
    <3>. QED
      BY <1>10, <3>2
  <2>3. shows - ard * Second \in Int
    BY <1>1, <1>2, <1>6, <2>2
  <2>. HIDE DEF M
  <2>. QED
    BY <2>1, <2>3, Division
<1>23. \/ 2 * behind =< 6 * Second + (received - sent)
       \/ 2 * (M - behind) =< (received - sent) + 2 * Slack
  <2>. HIDE DEF M, behind
  <2>1. CASE z >= 0
    <3>. DEFINE y == M * z
    <3>1. y >= 0 /\ y \in Int
      BY <1>22, <2>1
    <3>2. ahead = y + behind
      BY <1>21
    <3>. HIDE DEF y
    <3>. QED
      BY <1>1, <1>2, <1>17, <1>20, <1>22, <3>1, <3>2
  <2>2. CASE z =< -1
    <3>. DEFINE y == M * z
    <3>1. y =< -M /\ y \in Int
      BY <1>22, <2>2
    <3>2. ahead = y + behind
      BY <1>21
    <3>. HIDE DEF y
    <3>. QED
      BY <1>1, <1>2, <1>17, <1>19, <1>20, <1>22, <3>1, <3>2
  <2>. QED
    BY <2>1, <2>2
<1>. QED
  BY <1>23 DEF ClockWithin, shows, ard, sent, received

(* Module Portal, ClockRight: for a clock of any word, any second and any  *)
(* day, of which the real one is an instance, borrows and carries that are *)
(* off by one leave the clock at most three seconds behind.                *)
THEOREM PortalClockRight == PortalSpec => []ClockRight
<1>1. PortalInit => exchange \subseteq Exchanges
  BY DEF PortalInit
<1>2. exchange \subseteq Exchanges /\ [PortalNext]_portalVars
        => (exchange \subseteq Exchanges)'
  <2>. SUFFICES ASSUME exchange \subseteq Exchanges, [PortalNext]_portalVars
                PROVE  exchange' \subseteq Exchanges
    OBVIOUS
  <2>1. CASE NetworkChanges
    BY <2>1 DEF NetworkChanges, ntpVars
  <2>2. ASSUME NEW c \in Clients,
               Connect(c) \/ Leave(c) \/ TcpclientRecv(c) \/ TcpclientSent(c)
        PROVE  exchange' = exchange
    BY <2>2 DEF Connect, Leave, TcpclientRecv, TcpclientSent, RequestTime, ntpVars
  <2>3. CASE TcpConnTask
    <3>1. exchange' = exchange \/ exchange' = {}
      BY <2>3 DEF TcpConnTask, Hangup, Answer
    <3>. QED
      BY <3>1
  <2>4. CASE Request \/ PacketLost
    BY <2>4 DEF Request, PacketLost
  <2>5. CASE NtpconnRecv
    BY <2>5 DEF NtpconnRecv
  <2>6. CASE UNCHANGED portalVars
    BY <2>6 DEF portalVars, ntpVars
  <2>. QED
    BY <2>1, <2>2, <2>3, <2>4, <2>5, <2>6 DEF PortalNext
<1>3. exchange \subseteq Exchanges => ClockRight
  BY ExchangesAssumption, ClockIsWithin DEF ClockRight
<1>. QED
  BY <1>1, <1>2, <1>3, PTL DEF PortalSpec

-----------------------------------------------------------------------------
(* FRAMES                                                                  *)

Bytes == SUBSET (0..7)

Receivers ==
  [state : 0..ROWS, sub : 0..4,
   new : [1..ROWS -> SUBSET (0..31)], data : [1..ROWS -> SUBSET (0..31)]]

(* A picture with no delimiter in it.                                      *)
Drawn(p) ==
  /\ p \in [1..ROWS -> SUBSET (0..31)]
  /\ \A i \in 1..ROWS, k \in Byte : ~(BitsOf(k) \subseteq p[i])

(* A place in a frame is how many of its bytes are read: at i and c, those *)
(* of the rows before i, and c of its own.                                 *)
Place(i, c) == 5 * (i - 1) + c + 1

FrameLength == Place(ROWS + 1, 0)

IsPlace(i, c, at) ==
  /\ i \in 1..ROWS + 1 /\ c \in 0..4
  /\ i = ROWS + 1 => c = 0
  /\ at = Place(i, c)

(* Whatever row the receiver takes one for, it goes on to the next with    *)
(* it, and from the last one to searching: the state it has f states ahead *)
(* of a receiver in step, as a row begins.                                 *)
Turn(f, i) == IF f + i <= ROWS THEN f + i ELSE f + i - (ROWS + 1)

(* How many states it can be ahead when k frames have come through: each   *)
(* one has a delimiter more than rows, which costs it one.                 *)
Behind(k) == IF k > ROWS THEN 0 ELSE ROWS + 1 - k

(* The receiver waits for a delimiter.                                     *)
Rests(r) == r.state = eSearching \/ r.sub = eDelim

(* It stores bytes of the row, or has had enough of them and waits.        *)
OnTurn(r, i, c, f) ==
  IF c = 0 THEN r.state = Turn(f, i) /\ (i # 1 => Rests(r))
  ELSE \/ r.state = Turn(f, i) /\ r.state # eSearching /\ r.sub <= 4 - c
       \/ r.state = Turn(f, i + 1) /\ Rests(r)

(* While the k-th frame comes through, the receiver is no further ahead    *)
(* than k allows; where it is at the start is up to the frame before.      *)
InStep(r, k, at) ==
  \/ at = 0 /\ (k = 1 \/ (r.state \in 0..Behind(k - 1) /\ Rests(r)))
  \/ \E i, c : IsPlace(i, c, at) /\ \E f \in 0..Behind(k) : OnTurn(r, i, c, f)

(* The bytes of a row from s on are those of another.                      *)
Agrees(row, want, s) == \A k \in s..3 : row \cap BitsOf(k) = want \cap BitsOf(k)

(* The receiver has read the picture as far as the place.                  *)
Reads(r, p, i, c) ==
  /\ r.state = Turn(0, i)
  /\ i <= ROWS => r.sub = 4 - c
  /\ i = ROWS + 1 => r.data = Seen(p)
  /\ \A j \in 1..i - 1 : r.new[j] = Seen(p)[j]
  /\ i <= ROWS => Agrees(r.new[i], p[i], 5 - c)

Reading(r, p, at) ==
  \/ at = 0 /\ r.state = eSearching
  \/ \E i, c : IsPlace(i, c, at) /\ Reads(r, p, i, c)

(* With each frame that comes through the receiver gets closer to the step *)
(* of the frames, and after ROWS + 1 of them it has it, and reads the      *)
(* next.                                                                   *)
Tracks(r, at) ==
  /\ whole # 0 => InStep(r, whole, at)
  /\ lost = 0 \/ whole >= ROWS + 2 => Reading(r, picture, at)
  /\ (lost = 0 \/ whole > ROWS + 2) /\ at # FrameLength => r.data = Shown(before)

(* Before the first frame.                                                 *)
NothingSent ==
  /\ picture = Unsent /\ line = <<>> /\ lost = 0 /\ whole = 0
  /\ receiver.state = eSearching /\ receiver.data = Pattern

(* From then on, what is on the line is the rest of a frame, unless a byte *)
(* of it was lost.                                                         *)
FrameSent ==
  /\ Drawn(picture)
  /\ lost = 0 \/ whole # 0 =>
       \E at \in 0..FrameLength :
         /\ line = SubSeq(Frame(picture), at + 1, FrameLength)
         /\ Tracks(receiver, at)

FramesInv ==
  /\ receiver \in Receivers
  /\ line \in Seq(Bytes)
  /\ lost \in Nat /\ whole \in Nat
  /\ NothingSent \/ FrameSent

(* Parts of Merged: a byte put into a row, and the shift of a row that is  *)
(* whole.                                                                  *)
Merge(old, byte, s) == (old \ BitsOf(s)) \cup {bit + 8 * s : bit \in byte}
Shifted(row, s) == IF s = 0 THEN {bit - 10 : bit \in row \ 0..9} ELSE row

(* Reading what has arrived is reading one byte after the other: the fold  *)
(* over the places of a sequence, as a function of how many are read.      *)
LEMMA ReceiveUnfolds ==
  ASSUME NEW S, NEW data \in Seq(S), NEW first
  PROVE  \E f : /\ f[0] = first
                /\ \A i \in 1..Len(data) : f[i] = Receive(f[i - 1], data[i])
                /\ FoldLeft(Receive, first, data) = f[Len(data)]
<1>. DEFINE
       Unfold(f, n) ==
         [z \in SUBSET (1..n) |->
            IF z = {} THEN first ELSE Receive(f[z \ {Max(z)}], data[Max(z)])]
       P == {n \in Nat : \E f : f = Unfold(f, n)}
       n == Len(data)
       iter == CHOOSE f :
                 f = [z \in SUBSET (DOMAIN data) |->
                        IF z = {} THEN first
                        ELSE Receive(f[z \ {Max(z)}], data[Max(z)])]
<1>1. FoldLeft(Receive, first, data) = iter[DOMAIN data]
  BY Zenon DEF FoldLeft, MapThenFoldSet
<1>2. 0 \in P
  <2>1. [z \in SUBSET (1..0) |-> first] = Unfold([z \in SUBSET (1..0) |-> first], 0)
    OBVIOUS
  <2>. QED
    BY <2>1
<1>3. ASSUME NEW k \in Nat, k \in P PROVE k + 1 \in P
  <2>1. PICK f : f = Unfold(f, k)
    BY <1>3
  <2>. DEFINE g == [z \in SUBSET (1..k + 1) |->
                      IF k + 1 \in z THEN Receive(f[z \ {k + 1}], data[k + 1])
                      ELSE f[z]]
  <2>2. ASSUME NEW z \in SUBSET (1..k)
        PROVE  f[z] = IF z = {} THEN first ELSE Receive(f[z \ {Max(z)}], data[Max(z)])
    BY <2>1, Zenon
  <2>3. ASSUME NEW z \in SUBSET (1..k + 1), ~(k + 1 \in z)
        PROVE  z \in SUBSET (1..k)
    BY <2>3
  <2>4. ASSUME NEW z \in SUBSET (1..k + 1)
        PROVE  g[z] = IF z = {} THEN first ELSE Receive(g[z \ {Max(z)}], data[Max(z)])
    <3>1. CASE k + 1 \in z
      <4>1. Max(z) = k + 1
        BY <3>1, MaxIs
      <4>2. z \ {k + 1} \in SUBSET (1..k + 1) /\ ~(k + 1 \in z \ {k + 1})
        OBVIOUS
      <4>3. g[z \ {k + 1}] = f[z \ {k + 1}]
        BY <4>2, Zenon
      <4>4. g[z] = Receive(f[z \ {k + 1}], data[k + 1])
        BY <3>1, Zenon
      <4>. HIDE DEF g
      <4>. QED
        BY <3>1, <4>1, <4>3, <4>4, Zenon
    <3>2. CASE ~(k + 1 \in z)
      <4>1. z \ {Max(z)} \in SUBSET (1..k + 1) /\ ~(k + 1 \in z \ {Max(z)})
        BY <3>2
      <4>2. g[z] = f[z] /\ g[z \ {Max(z)}] = f[z \ {Max(z)}]
        BY <3>2, <4>1, Zenon
      <4>3. z \in SUBSET (1..k)
        BY <2>3, <3>2
      <4>. HIDE DEF g
      <4>. QED
        BY <2>2, <4>2, <4>3, Zenon
    <3>. QED
      BY <3>1, <3>2
  <2>5. g = Unfold(g, k + 1)
    <3>1. g = [z \in SUBSET (1..k + 1) |-> g[z]]
      BY Zenon
    <3>. HIDE DEF g
    <3>. QED
      BY <2>4, <3>1, Zenon
  <2>. HIDE DEF g, Unfold
  <2>. QED
    BY <2>5
<1>4. n \in Nat /\ DOMAIN data = 1..n
  BY LenProperties
<1>5. n \in P
  <2>. HIDE DEF P, n
  <2>. QED
    BY <1>2, <1>3, <1>4, NatInductive
<1>6. iter = Unfold(iter, n)
  <2>1. \E f : f = Unfold(f, n)
    BY <1>5, Zenon
  <2>2. iter = CHOOSE f : f = Unfold(f, n)
    BY <1>4, Zenon
  <2>. HIDE DEF Unfold, n, iter
  <2>. QED
    BY <2>1, <2>2, Zenon
<1>. HIDE DEF iter, n
<1>. DEFINE f == [i \in 0..n |-> iter[1..i]]
<1>7. f[0] = first
  <2>1. iter[{}] = first
    BY <1>6, Zenon
  <2>2. 1..0 = {} /\ 0 \in 0..n
    BY <1>4
  <2>. QED
    BY <2>1, <2>2, Zenon
<1>8. ASSUME NEW i \in 1..n PROVE f[i] = Receive(f[i - 1], data[i])
  <2>0. i \in Nat /\ 1 <= i /\ i <= n
    BY <1>4
  <2>1. /\ 1..i \in SUBSET (1..n) /\ 1..i # {}
        /\ i \in 0..n /\ i - 1 \in 0..n
        /\ (1..i) \ {i} = 1..i - 1
    <3>1. 1 \in 1..i /\ i \in 0..n /\ i - 1 \in 0..n
      BY <1>4, <2>0
    <3>2. \A j \in 1..i : j \in 1..n
      BY <1>4, <2>0
    <3>3. (1..i) \ {i} = 1..i - 1
      BY <2>0
    <3>. QED
      BY <3>1, <3>2, <3>3, Zenon
  <2>2. Max(1..i) = i
    <3>1. i - 1 \in Nat /\ (i - 1) + 1 = i /\ i \in 1..i
      BY <1>4
    <3>. QED
      BY <3>1, MaxIs
  <2>3. iter[1..i] = Receive(iter[(1..i) \ {Max(1..i)}], data[Max(1..i)])
    BY <1>6, <2>1, Zenon
  <2>. QED
    BY <2>1, <2>2, <2>3, Zenon
<1>9. FoldLeft(Receive, first, data) = f[n]
  <2>1. n \in 0..n
    BY <1>4
  <2>. QED
    BY <1>1, <1>4, <2>1, Zenon
<1>. HIDE DEF f
<1>. QED
  BY <1>7, <1>8, <1>9, Zenon DEF n

(* A picture has rows.                                                     *)
LEMMA RowsIs == ROWS \in Nat /\ ROWS >= 1
  BY FramesAssumption

(* Where each byte of a frame is: a delimiter, and for each row a          *)
(* delimiter and its bytes, the highest first.                             *)
LEMMA FrameIs ==
  ASSUME NEW p \in [1..ROWS -> SUBSET (0..31)]
  PROVE  /\ Frame(p) \in Seq(Bytes)
         /\ FrameLength \in Nat
         /\ Len(Frame(p)) = FrameLength
         /\ Frame(p)[1] = FF
         /\ \A i \in 1..ROWS, c \in 0..4 :
              Frame(p)[Place(i, c) + 1] = IF c = 0 THEN FF ELSE ByteOf(p[i], 4 - c)
<1>. DEFINE row(i) ==
              <<FF, ByteOf(p[i], 3), ByteOf(p[i], 2), ByteOf(p[i], 1), ByteOf(p[i], 0)>>
            rows == [i \in 1..ROWS |-> row(i)]
            flat == FlattenSeq(rows)
            starts == [i \in 1..ROWS + 1 |-> 5 * (i - 1)]
<1>1. \A i \in 1..ROWS, k \in 0..3 : ByteOf(p[i], k) \in Bytes
  BY DEF ByteOf, BitsOf, Bytes
<1>2. FF \in Bytes
  BY DEF FF, Bytes
<1>3. ASSUME NEW i \in 1..ROWS
      PROVE  /\ row(i) \in Seq(Bytes) /\ Len(row(i)) = 5
             /\ \A c \in 0..4 : row(i)[c + 1] = IF c = 0 THEN FF ELSE ByteOf(p[i], 4 - c)
  <2>. DEFINE a == ByteOf(p[i], 3)
              b == ByteOf(p[i], 2)
              d == ByteOf(p[i], 1)
              e == ByteOf(p[i], 0)
  <2>1. a \in Bytes /\ b \in Bytes /\ d \in Bytes /\ e \in Bytes
    BY <1>1
  <2>2. \A c \in 0..4 : ByteOf(p[i], 4 - c) =
                           IF c = 1 THEN a ELSE IF c = 2 THEN b ELSE IF c = 3 THEN d
                           ELSE IF c = 4 THEN e ELSE ByteOf(p[i], 4 - c)
    OBVIOUS
  <2>. HIDE DEF a, b, d, e
  <2>3. <<FF, a, b, d, e>> \in Seq(Bytes) /\ Len(<<FF, a, b, d, e>>) = 5
    BY <1>2, <2>1
  <2>4. ASSUME NEW c \in 0..4
        PROVE  <<FF, a, b, d, e>>[c + 1] = IF c = 0 THEN FF ELSE ByteOf(p[i], 4 - c)
    BY <2>2
  <2>. QED
    BY <2>3, <2>4 DEF a, b, d, e
<1>. HIDE DEF row
<1>4. rows \in Seq(Seq(Bytes)) /\ Len(rows) = ROWS
  BY <1>3, RowsIs
<1>5. IsStarts(starts, rows)
  <2>1. \A i \in 1..ROWS : Len(rows[i]) = 5
    BY <1>3
  <2>2. starts \in [1..ROWS + 1 -> Nat] /\ starts[1] = 0
    BY RowsIs
  <2>3. \A i \in 1..ROWS : starts[i + 1] = starts[i] + 5
    BY RowsIs
  <2>. HIDE DEF starts, rows
  <2>. QED
    BY <1>4, <2>1, <2>2, <2>3 DEF IsStarts
<1>6. /\ flat \in Seq(Bytes) /\ Len(flat) = starts[ROWS + 1]
      /\ \A i \in 1..ROWS : Laid(flat, starts[i], rows[i])
  <2>. HIDE DEF starts, rows
  <2>. QED
    BY <1>4, <1>5, FlattenLays
<1>7. \A i \in 1..ROWS, c \in 0..4 :
        flat[5 * (i - 1) + (c + 1)] = IF c = 0 THEN FF ELSE ByteOf(p[i], 4 - c)
  <2>1. SUFFICES ASSUME NEW i \in 1..ROWS, NEW c \in 0..4
                 PROVE  flat[5 * (i - 1) + (c + 1)] =
                          IF c = 0 THEN FF ELSE ByteOf(p[i], 4 - c)
    OBVIOUS
  <2>2. starts[i] = 5 * (i - 1) /\ rows[i] = row(i)
    BY RowsIs
  <2>3. Laid(flat, 5 * (i - 1), row(i))
    BY <1>6, <2>2
  <2>4. c + 1 \in 1..Len(row(i))
    BY <1>3
  <2>5. flat[5 * (i - 1) + (c + 1)] = row(i)[c + 1]
    BY <2>3, <2>4, Zenon DEF Laid
  <2>. QED
    BY <1>3, <2>5
<1>8. Len(flat) = 5 * ROWS
  BY <1>6, RowsIs
<1>. HIDE DEF flat
<1>9. Frame(p) = <<FF>> \o flat
  BY Zenon DEF Frame, flat, rows, row
<1>10. <<FF>> \in Seq(Bytes) /\ Len(<<FF>>) = 1 /\ <<FF>>[1] = FF
  BY <1>2
<1>11. /\ Frame(p) \in Seq(Bytes) /\ Len(Frame(p)) = 1 + 5 * ROWS
       /\ Laid(Frame(p), 0, <<FF>>) /\ Laid(Frame(p), 1, flat)
  <2>. DEFINE one == <<FF>>
  <2>1. one \in Seq(Bytes) /\ Len(one) = 1
    BY <1>10
  <2>. HIDE DEF one
  <2>2. /\ one \o flat \in Seq(Bytes) /\ Len(one \o flat) = Len(one) + Len(flat)
        /\ Laid(one \o flat, 0, one) /\ Laid(one \o flat, Len(one), flat)
    BY <1>6, <2>1, LaidConcat
  <2>. QED
    BY <1>8, <1>9, <2>1, <2>2 DEF one
<1>12. Frame(p)[1] = FF
  <2>1. 1 \in 1..Len(<<FF>>)
    BY <1>10
  <2>2. Frame(p)[0 + 1] = <<FF>>[1]
    BY <1>11, <2>1, Zenon DEF Laid
  <2>. QED
    BY <1>10, <2>2
<1>13. ASSUME NEW i \in 1..ROWS, NEW c \in 0..4
       PROVE  Frame(p)[Place(i, c) + 1] = IF c = 0 THEN FF ELSE ByteOf(p[i], 4 - c)
  <2>1. 5 * (i - 1) + (c + 1) \in 1..Len(flat)
    BY <1>8, RowsIs
  <2>2. Frame(p)[1 + (5 * (i - 1) + (c + 1))] = flat[5 * (i - 1) + (c + 1)]
    BY <1>11, <2>1, Zenon DEF Laid
  <2>3. Place(i, c) + 1 = 1 + (5 * (i - 1) + (c + 1))
    BY DEF Place
  <2>. QED
    BY <1>7, <2>2, <2>3
<1>14. FrameLength \in Nat /\ FrameLength = 1 + 5 * ROWS
  BY RowsIs DEF FrameLength, Place
<1>. QED
  BY <1>11, <1>12, <1>13, <1>14

(* No byte of a picture is the delimiter.                                  *)
LEMMA RowByte ==
  ASSUME NEW p, Drawn(p), NEW i \in 1..ROWS, NEW k \in Byte
  PROVE  ByteOf(p[i], k) \in Bytes /\ ByteOf(p[i], k) # FF
<1>1. PICK bit \in BitsOf(k) : bit \notin p[i]
  BY DEF Drawn
<1>2. k \in 0..3 /\ bit \in 8 * k..8 * k + 7 /\ p[i] \in SUBSET (0..31)
  BY <1>1 DEF BitsOf, Byte, Drawn
<1>3. bit - 8 * k \in FF
  BY <1>2 DEF FF
<1>4. ~(bit - 8 * k \in ByteOf(p[i], k))
  BY <1>1, <1>2 DEF ByteOf, BitsOf
<1>5. ByteOf(p[i], k) \in Bytes
  BY <1>2 DEF ByteOf, BitsOf, Bytes
<1>. QED
  BY <1>3, <1>4, <1>5

(* A row with a byte stored in it is a row.                                *)
LEMMA MergedIs ==
  ASSUME NEW r \in Receivers, NEW byte \in Bytes, r.state # eSearching, r.sub # eDelim
  PROVE  Merged(r, byte) \in [1..ROWS -> SUBSET (0..31)]
<1>1. r.sub \in 0..3 /\ r.state \in 1..ROWS /\ r.new \in [1..ROWS -> SUBSET (0..31)]
  <2>1. r.sub \in 0..4 /\ r.state \in 0..ROWS /\ r.new \in [1..ROWS -> SUBSET (0..31)]
    BY DEF Receivers
  <2>2. r.sub # 4 /\ r.state # 0
    BY DEF eSearching, eDelim
  <2>3. r.sub \in 0..3 /\ r.state \in 1..ROWS
    BY ONLY <2>1, <2>2, RowsIs
  <2>. QED
    BY <2>1, <2>3
<1>. DEFINE row == (r.new[r.state] \ BitsOf(r.sub)) \cup {bit + 8 * r.sub : bit \in byte}
            new == IF r.sub = 0 THEN {bit - 10 : bit \in row \ 0..9} ELSE row
<1>2. row \in SUBSET (0..31)
  <2>1. ASSUME NEW bit \in byte PROVE bit + 8 * r.sub \in 0..31
    <3>1. bit \in 0..7
      BY DEF Bytes
    <3>2. r.sub \in 0..3
      BY <1>1
    <3>. QED
      BY ONLY <3>1, <3>2
  <2>. QED
    BY <1>1, <2>1
<1>. HIDE DEF row
<1>3. new \in SUBSET (0..31)
  BY <1>2
<1>4. Merged(r, byte) = [r.new EXCEPT ![r.state] = new]
  BY DEF Merged, row
<1>. HIDE DEF new
<1>. QED
  BY <1>1, <1>3, <1>4

(* What a byte does to the receiver, state by state (uart_recvTask).       *)
LEMMA ReceiveIs ==
  ASSUME NEW r \in Receivers, NEW byte \in Bytes, NEW q, q = Receive(r, byte)
  PROVE  /\ q \in Receivers
         /\ r.state = eSearching /\ byte # FF => q = r
         /\ r.state = eSearching /\ byte = FF =>
              q.state = 1 /\ q.sub = eDelim /\ q.new = r.new /\ q.data = r.data
         /\ r.state # eSearching /\ r.sub = eDelim /\ byte # FF => q = r
         /\ r.state # eSearching /\ r.sub = eDelim /\ byte = FF =>
              q.state = r.state /\ q.sub = 3 /\ q.new = r.new /\ q.data = r.data
         /\ r.state # eSearching /\ r.sub # eDelim =>
              /\ q.new = Merged(r, byte)
              /\ r.sub # 0 => q.state = r.state /\ q.sub = r.sub - 1 /\ q.data = r.data
              /\ r.sub = 0 /\ r.state # ROWS =>
                   q.state = r.state + 1 /\ q.sub = eDelim /\ q.data = r.data
              /\ r.sub = 0 /\ r.state = ROWS =>
                   q.state = eSearching /\ q.sub = eDelim /\ q.data = Merged(r, byte)
<1>. DEFINE new == Merged(r, byte)
            Rows == [1..ROWS -> SUBSET (0..31)]
            States == 0..ROWS
            Subs == 0..4
<1>1. PICK s \in States, u \in Subs, n \in Rows, d \in Rows :
        r = [state |-> s, sub |-> u, new |-> n, data |-> d]
  BY Zenon DEF Receivers
<1>2. r.state = s /\ r.sub = u /\ r.new = n /\ r.data = d
  BY <1>1
<1>. DEFINE Rec(a, b, c, e) == [state |-> a, sub |-> b, new |-> c, data |-> e]
<1>3. eSearching \in States /\ 1 \in States /\ eDelim \in Subs /\ 3 \in Subs
  BY RowsIs DEF eSearching, eDelim
<1>. DEFINE All == [state : States, sub : Subs, new : Rows, data : Rows]
<1>0. Receivers = All
  BY Zenon DEF Receivers
<1>. HIDE DEF Rows, States, Subs, new
<1>4. ASSUME NEW a \in States, NEW b \in Subs, NEW c \in Rows, NEW e \in Rows,
             q = Rec(a, b, c, e)
      PROVE  /\ q \in Receivers
             /\ q.state = a /\ q.sub = b /\ q.new = c /\ q.data = e
  BY <1>0, <1>4
<1>5. CASE r.state = eSearching /\ byte # FF
  <2>1. q = r
    BY <1>5 DEF Receive
  <2>. QED
    BY <1>5, <2>1
<1>6. CASE r.state = eSearching /\ byte = FF
  <2>1. q = [r EXCEPT !.state = 1, !.sub = eDelim]
    BY <1>6 DEF Receive
  <2>2. q = Rec(1, eDelim, n, d)
    BY <1>1, <2>1
  <2>. HIDE DEF Rec
  <2>. QED
    BY <1>2, <1>3, <1>4, <1>6, <2>2
<1>7. CASE r.state # eSearching /\ r.sub = eDelim /\ byte # FF
  <2>1. q = r
    BY <1>7 DEF Receive
  <2>. QED
    BY <1>7, <2>1
<1>8. CASE r.state # eSearching /\ r.sub = eDelim /\ byte = FF
  <2>1. q = [r EXCEPT !.sub = 3]
    BY <1>8 DEF Receive
  <2>2. q = Rec(s, 3, n, d)
    BY <1>1, <2>1
  <2>. HIDE DEF Rec
  <2>. QED
    BY <1>2, <1>3, <1>4, <1>8, <2>2
<1>9. CASE r.state # eSearching /\ r.sub # eDelim
  <2>1. new \in Rows
    BY <1>9, MergedIs DEF new, Rows
  <2>2. q = StoreByte(r, byte)
    BY <1>9 DEF Receive
  <2>3. CASE r.sub # 0
    <3>1. q = [r EXCEPT !.new = new, !.sub = @ - 1]
      BY <2>2, <2>3 DEF StoreByte, new
    <3>2. q = Rec(s, u - 1, new, d)
      BY <1>1, <3>1
    <3>3. u - 1 \in Subs
      BY <1>2, <2>3 DEF Subs
    <3>. HIDE DEF Rec
    <3>4. q \in Receivers /\ q.state = s /\ q.sub = u - 1 /\ q.new = new /\ q.data = d
      BY <1>4, <2>1, <3>2, <3>3
    <3>. QED
      BY <1>2, <1>9, <2>3, <3>4 DEF new
  <2>4. CASE r.sub = 0 /\ r.state # ROWS
    <3>1. q = [r EXCEPT !.new = new, !.sub = eDelim, !.state = @ + 1]
      BY <2>2, <2>4 DEF StoreByte, new
    <3>2. q = Rec(s + 1, eDelim, new, d)
      BY <1>1, <3>1
    <3>3. s + 1 \in States
      BY <1>2, <2>4, RowsIs DEF States
    <3>. HIDE DEF Rec
    <3>4. q \in Receivers /\ q.state = s + 1 /\ q.sub = eDelim /\ q.new = new /\ q.data = d
      BY <1>3, <1>4, <2>1, <3>2, <3>3
    <3>. QED
      BY <1>2, <1>9, <2>4, <3>4 DEF new
  <2>5. CASE r.sub = 0 /\ r.state = ROWS
    <3>1. q = [r EXCEPT !.new = new, !.sub = eDelim, !.state = eSearching, !.data = new]
      BY <2>2, <2>5 DEF StoreByte, new
    <3>2. q = Rec(eSearching, eDelim, new, new)
      BY <1>1, <3>1
    <3>. HIDE DEF Rec
    <3>3. /\ q \in Receivers /\ q.state = eSearching /\ q.sub = eDelim
          /\ q.new = new /\ q.data = new
      BY <1>3, <1>4, <2>1, <3>2
    <3>. QED
      BY <1>9, <2>5, <3>3 DEF new
  <2>. QED
    BY <2>3, <2>4, <2>5
<1>. QED
  BY <1>5, <1>6, <1>7, <1>8, <1>9

(* The place after a byte.                                                 *)
LEMMA NextPlace ==
  ASSUME NEW i, NEW c, NEW at, IsPlace(i, c, at), at # FrameLength
  PROVE  /\ i \in 1..ROWS
         /\ c < 4 => IsPlace(i, c + 1, at + 1)
         /\ c = 4 => IsPlace(i + 1, 0, at + 1)
<1>1. i \in 1..ROWS + 1 /\ c \in 0..4 /\ (i = ROWS + 1 => c = 0) /\ at = Place(i, c)
  BY DEF IsPlace
<1>2. i # ROWS + 1
  BY <1>1 DEF FrameLength
<1>3. i \in 1..ROWS
  BY <1>1, <1>2, RowsIs
<1>4. CASE c < 4
  <2>1. at + 1 = Place(i, c + 1) /\ c + 1 \in 0..4
    BY <1>1, <1>4 DEF Place
  <2>. QED
    BY <1>1, <1>2, <1>3, <1>4, <2>1 DEF IsPlace
<1>5. CASE c = 4
  <2>1. at + 1 = Place(i + 1, 0) /\ i + 1 \in 1..ROWS + 1
    BY <1>1, <1>3, <1>5, RowsIs DEF Place
  <2>. QED
    BY <1>3, <1>5, <2>1 DEF IsPlace
<1>. QED
  BY <1>1, <1>3, <1>4, <1>5

(* The state after a row is the next one, and after the last row it is     *)
(* searching.                                                              *)
LEMMA TurnIs ==
  ASSUME NEW f \in 0..ROWS, NEW i \in 1..ROWS + 1
  PROVE  /\ Turn(f, i) \in 0..ROWS
         /\ i <= ROWS /\ Turn(f, i) # ROWS => Turn(f, i + 1) = Turn(f, i) + 1
         /\ i <= ROWS /\ Turn(f, i) = ROWS => Turn(f, i + 1) = 0
  BY RowsIs DEF Turn

(* A receiver out of step goes on a state with each row: either it finds   *)
(* the delimiter, or it takes it for a byte and skips the bytes that are   *)
(* left.                                                                   *)
LEMMA TurnKept ==
  ASSUME NEW r \in Receivers, NEW byte \in Bytes, NEW i \in 1..ROWS, NEW c \in 0..4,
         NEW f \in 0..ROWS, byte = FF <=> c = 0, OnTurn(r, i, c, f)
  PROVE  /\ c < 4 => OnTurn(Receive(r, byte), i, c + 1, f)
         /\ c = 4 => OnTurn(Receive(r, byte), i + 1, 0, f)
<1>. DEFINE q == Receive(r, byte)
            here == Turn(f, i)
            next == Turn(f, i + 1)
<1>1. /\ here \in 0..ROWS
      /\ here # ROWS => next = here + 1
      /\ here = ROWS => next = 0
  <2>1. i \in 1..ROWS + 1 /\ i <= ROWS
    BY RowsIs
  <2>. QED
    BY <2>1, TurnIs
<1>2. r.state \in 0..ROWS /\ r.sub \in 0..4
  BY DEF Receivers
<1>3. /\ r.state = 0 /\ c # 0 => q = r
      /\ r.state = 0 /\ c = 0 => q.state = 1 /\ q.sub = 4
      /\ r.state # 0 /\ r.sub = 4 /\ c # 0 => q = r
      /\ r.state # 0 /\ r.sub = 4 /\ c = 0 => q.state = r.state /\ q.sub = 3
      /\ r.state # 0 /\ r.sub # 4 =>
           /\ r.sub # 0 => q.state = r.state /\ q.sub = r.sub - 1
           /\ r.sub = 0 /\ r.state # ROWS => q.state = r.state + 1 /\ q.sub = 4
           /\ r.sub = 0 /\ r.state = ROWS => q.state = 0 /\ q.sub = 4
  BY ReceiveIs DEF eSearching, eDelim
<1>. HIDE DEF q
<1>4. /\ c = 0 => r.state = here
      /\ c # 0 => \/ r.state = here /\ r.state # 0 /\ r.sub <= 4 - c
                  \/ r.state = next /\ (r.state = 0 \/ r.sub = 4)
  BY DEF OnTurn, Rests, eSearching, eDelim
<1>. HIDE DEF here, next
<1>5. CASE c = 0
  <2>1. \/ q.state = here /\ q.state # 0 /\ q.sub <= 3
        \/ q.state = next /\ (q.state = 0 \/ q.sub = 4)
    BY <1>1, <1>2, <1>3, <1>4, <1>5, RowsIs
  <2>2. OnTurn(q, i, 1, f)
    BY <2>1 DEF OnTurn, Rests, eSearching, eDelim, here, next
  <2>. QED
    BY <1>5, <2>2 DEF q
<1>6. CASE c \in 1..3
  <2>1. \/ q.state = here /\ q.state # 0 /\ q.sub <= 4 - (c + 1)
        \/ q.state = next /\ (q.state = 0 \/ q.sub = 4)
    BY <1>1, <1>2, <1>3, <1>4, <1>6, RowsIs
  <2>2. c + 1 # 0
    BY <1>6
  <2>3. OnTurn(q, i, c + 1, f)
    BY <2>1, <2>2 DEF OnTurn, Rests, eSearching, eDelim, here, next
  <2>. QED
    BY <1>6, <2>3 DEF q
<1>7. CASE c = 4
  <2>1. q.state = next /\ (q.state = 0 \/ q.sub = 4)
    BY <1>1, <1>2, <1>3, <1>4, <1>7, RowsIs
  <2>2. OnTurn(q, i + 1, 0, f)
    BY <2>1 DEF OnTurn, Rests, eSearching, eDelim, next
  <2>. QED
    BY <1>7, <2>2 DEF q
<1>. QED
  BY <1>5, <1>6, <1>7 DEF q

(* Each byte keeps it as far ahead as it was, but the delimiter before the *)
(* first row takes one state of that.                                      *)
LEMMA InStepKept ==
  ASSUME NEW r \in Receivers, NEW p, Drawn(p), NEW k \in Nat \ {0},
         NEW at \in 0..FrameLength, at # FrameLength, InStep(r, k, at)
  PROVE  InStep(Receive(r, Frame(p)[at + 1]), k, at + 1)
<1>. DEFINE byte == Frame(p)[at + 1]
            q == Receive(r, byte)
<1>0. Behind(k) \in 0..ROWS
  BY RowsIs DEF Behind
<1>1. CASE at = 0 /\ (k = 1 \/ (r.state \in 0..Behind(k - 1) /\ Rests(r)))
  <2>1. byte = FF /\ byte \in Bytes
    <3>1. FF \in Bytes
      BY DEF FF, Bytes
    <3>2. byte = FF
      <4>1. at + 1 = 1
        BY <1>1
      <4>2. Frame(p)[1] = FF
        BY FrameIs DEF Drawn
      <4>. QED
        BY <4>1, <4>2
    <3>. QED
      BY <3>1, <3>2
  <2>2. r.state \in 0..ROWS /\ r.sub \in 0..4
    BY DEF Receivers
  <2>3. /\ r.state = 0 => q.state = 1
        /\ r.state # 0 /\ r.sub = 4 => q.state = r.state
        /\ r.state # 0 /\ r.sub # 4 =>
             /\ r.sub # 0 => q.state = r.state
             /\ r.sub = 0 /\ r.state # ROWS => q.state = r.state + 1
             /\ r.sub = 0 /\ r.state = ROWS => q.state = 0
    BY <2>1, ReceiveIs DEF eSearching, eDelim
  <2>. HIDE DEF q
  <2>4. \A f \in 0..ROWS : Turn(f, 1) = IF f = ROWS THEN 0 ELSE f + 1
    BY RowsIs DEF Turn
  <2>5. k = 1 => Behind(k) = ROWS
    BY RowsIs DEF Behind
  <2>6. k # 1 => \A s \in 0..Behind(k - 1) :
                   s # 0 => s - 1 \in 0..Behind(k) /\ s \in 1..ROWS
    BY RowsIs DEF Behind
  <2>7. \E f \in 0..Behind(k) : q.state = Turn(f, 1)
    <3>1. CASE r.state = 0
      <4>1. q.state = Turn(0, 1) /\ 0 \in 0..Behind(k)
        BY <1>0, <2>3, <2>4, <3>1, RowsIs
      <4>. QED
        BY <4>1
    <3>2. CASE r.state # 0 /\ k = 1
      <4>1. CASE r.sub # 0 \/ r.sub = 4
        <5>1. r.state - 1 \in 0..ROWS /\ q.state = Turn(r.state - 1, 1)
          <6>1. r.state - 1 \in 0..ROWS /\ r.state - 1 # ROWS /\ (r.state - 1) + 1 = r.state
            BY <2>2, <3>2, RowsIs
          <6>2. q.state = r.state
            BY <2>3, <3>2, <4>1
          <6>3. Turn(r.state - 1, 1) = (r.state - 1) + 1
            BY <2>4, <6>1, Zenon
          <6>. QED
            BY <6>1, <6>2, <6>3, Zenon
        <5>. QED
          BY <2>5, <3>2, <5>1
      <4>2. CASE r.sub = 0
        <5>1. r.state \in 0..ROWS /\ q.state = Turn(r.state, 1)
          BY <2>2, <2>3, <2>4, <3>2, <4>2
        <5>. QED
          BY <2>5, <3>2, <5>1
      <4>. QED
        BY <4>1, <4>2
    <3>3. CASE r.state # 0 /\ k # 1
      <4>1. r.state \in 0..Behind(k - 1) /\ r.sub = 4
        BY <1>1, <3>3 DEF Rests, eSearching, eDelim
      <4>2. r.state - 1 \in 0..Behind(k) /\ r.state \in 1..ROWS
        BY <2>6, <3>3, <4>1
      <4>3. q.state = Turn(r.state - 1, 1)
        <5>1. r.state - 1 \in 0..ROWS /\ r.state - 1 # ROWS /\ (r.state - 1) + 1 = r.state
          BY <2>2, <3>3, RowsIs
        <5>2. q.state = r.state
          BY <2>3, <3>3, <4>1
        <5>3. Turn(r.state - 1, 1) = (r.state - 1) + 1
          BY <2>4, <5>1, Zenon
        <5>. QED
          BY <5>1, <5>2, <5>3, Zenon
      <4>. QED
        BY <4>2, <4>3
    <3>. QED
      BY <3>1, <3>2, <3>3
  <2>8. IsPlace(1, 0, at + 1)
    BY <1>1, RowsIs DEF IsPlace, Place
  <2>9. \E f \in 0..Behind(k) : OnTurn(q, 1, 0, f)
    BY <2>7 DEF OnTurn
  <2>10. InStep(q, k, at + 1)
    BY <2>8, <2>9, Zenon DEF InStep
  <2>. QED
    BY <2>10 DEF q
<1>2. CASE \E i, c : IsPlace(i, c, at) /\ \E f \in 0..Behind(k) : OnTurn(r, i, c, f)
  <2>1. PICK i, c : IsPlace(i, c, at) /\ \E f \in 0..Behind(k) : OnTurn(r, i, c, f)
    BY <1>2
  <2>2. PICK f \in 0..Behind(k) : OnTurn(r, i, c, f)
    BY <2>1
  <2>3. /\ i \in 1..ROWS /\ c \in 0..4
        /\ c < 4 => IsPlace(i, c + 1, at + 1)
        /\ c = 4 => IsPlace(i + 1, 0, at + 1)
        /\ at = Place(i, c)
    BY <2>1, NextPlace DEF IsPlace
  <2>4. byte = IF c = 0 THEN FF ELSE ByteOf(p[i], 4 - c)
    BY <2>3, FrameIs DEF Drawn
  <2>5. byte \in Bytes /\ (byte = FF <=> c = 0)
    <3>1. c # 0 => 4 - c \in Byte
      BY <2>3 DEF Byte
    <3>2. FF \in Bytes
      BY DEF FF, Bytes
    <3>. HIDE DEF byte
    <3>. QED
      BY <2>3, <2>4, <3>1, <3>2, RowByte
  <2>6. f \in 0..ROWS
    BY <1>0, RowsIs
  <2>. HIDE DEF byte
  <2>7. /\ c < 4 => OnTurn(q, i, c + 1, f)
        /\ c = 4 => OnTurn(q, i + 1, 0, f)
    BY <2>2, <2>3, <2>5, <2>6, TurnKept
  <2>. HIDE DEF q
  <2>8. c < 4 \/ c = 4
    BY <2>3
  <2>9. InStep(q, k, at + 1)
    BY <2>3, <2>7, <2>8, Zenon DEF InStep
  <2>. QED
    BY <2>9 DEF q, byte
<1>. QED
  BY <1>1, <1>2 DEF InStep

(* A byte stored makes the row agree in one byte more.                     *)
LEMMA RowMerges ==
  ASSUME NEW old \in SUBSET (0..31), NEW want \in SUBSET (0..31), NEW s \in 0..3,
         \A k \in s + 1..3 : old \cap BitsOf(k) = want \cap BitsOf(k)
  PROVE  /\ \A k \in s..3 :
              Merge(old, ByteOf(want, s), s) \cap BitsOf(k) = want \cap BitsOf(k)
         /\ s = 0 => Merge(old, ByteOf(want, s), s) = want
<1>. DEFINE row == Merge(old, ByteOf(want, s), s)
            now == {bit + 8 * s : bit \in ByteOf(want, s)}
<1>1. now = want \cap BitsOf(s)
  <2>1. ASSUME NEW x \in now PROVE x \in want \cap BitsOf(s)
    <3>1. PICK bit \in want \cap BitsOf(s) : x = (bit - 8 * s) + 8 * s
      BY <2>1 DEF ByteOf
    <3>2. bit \in 0..31
      BY <3>1
    <3>3. x = bit
      BY <3>1, <3>2
    <3>. QED
      BY <3>1, <3>3
  <2>2. ASSUME NEW x \in want \cap BitsOf(s) PROVE x \in now
    <3>1. x - 8 * s \in ByteOf(want, s)
      BY DEF ByteOf
    <3>2. x \in 0..31 /\ x = (x - 8 * s) + 8 * s
      BY <2>2
    <3>. QED
      BY <3>1, <3>2
  <2>. HIDE DEF now
  <2>. QED
    BY <2>1, <2>2
<1>. HIDE DEF now
<1>2. row = (old \ BitsOf(s)) \cup (want \cap BitsOf(s))
  BY <1>1 DEF now, Merge
<1>. HIDE DEF row
<1>3. \A k \in s + 1..3 : BitsOf(k) \cap BitsOf(s) = {}
  BY DEF BitsOf
<1>4. ASSUME NEW k \in s..3 PROVE row \cap BitsOf(k) = want \cap BitsOf(k)
  <2>1. CASE k = s
    BY <1>2, <2>1, Zenon
  <2>2. CASE k # s
    <3>1. k \in s + 1..3
      BY <2>2
    <3>2. BitsOf(k) \cap BitsOf(s) = {} /\ old \cap BitsOf(k) = want \cap BitsOf(k)
      BY <1>3, <3>1
    <3>. QED
      BY <1>2, <3>2
  <2>. QED
    BY <2>1, <2>2
<1>5. ASSUME s = 0 PROVE row = want
  <2>1. \A x \in 0..31 : \E k \in s..3 : x \in BitsOf(k)
    BY <1>5 DEF BitsOf
  <2>2. row \in SUBSET (0..31)
    <3>1. \A x \in BitsOf(s) : x \in 0..31
      BY <1>5 DEF BitsOf
    <3>. QED
      BY <1>2, <3>1
  <2>3. ASSUME NEW x \in 0..31 PROVE x \in row <=> x \in want
    <3>1. PICK k \in s..3 : x \in BitsOf(k)
      BY <2>1
    <3>2. row \cap BitsOf(k) = want \cap BitsOf(k)
      BY <1>4
    <3>. QED
      BY <3>1, <3>2, Zenon
  <2>. QED
    BY <2>2, <2>3
<1>. QED
  BY <1>4, <1>5 DEF row

(* With the last byte of a row, the row is what the portal makes of it.    *)
LEMMA RowReceived ==
  ASSUME NEW old \in SUBSET (0..31), NEW p, Drawn(p), NEW i \in 1..ROWS, NEW s \in 0..3,
         Agrees(old, p[i], s + 1)
  PROVE  /\ s # 0 => Agrees(Shifted(Merge(old, ByteOf(p[i], s), s), s), p[i], s)
         /\ s = 0 => Shifted(Merge(old, ByteOf(p[i], s), s), s) = Seen(p)[i]
<1>. DEFINE want == p[i]
            row == Merge(old, ByteOf(want, s), s)
<1>1. want \in SUBSET (0..31)
  BY DEF Drawn
<1>2. \A k \in s + 1..3 : old \cap BitsOf(k) = want \cap BitsOf(k)
  BY DEF Agrees
<1>3. Seen(p)[i] = {bit - 10 : bit \in want \ 0..9}
  BY DEF Seen
<1>. HIDE DEF want
<1>4. /\ \A k \in s..3 : row \cap BitsOf(k) = want \cap BitsOf(k)
      /\ s = 0 => row = want
  BY <1>1, <1>2, RowMerges
<1>. HIDE DEF row
<1>5. s = 0 => Shifted(row, s) = Seen(p)[i]
  BY <1>3, <1>4 DEF Shifted
<1>6. s # 0 => Shifted(row, s) = row
  BY DEF Shifted
<1>7. s # 0 => Agrees(Shifted(row, s), want, s)
  BY <1>4, <1>6 DEF Agrees
<1>. QED
  BY <1>5, <1>7, Zenon DEF want, row

(* What StoreByte does to the row, and that it leaves the others.          *)
LEMMA MergedIsShifted ==
  ASSUME NEW r \in Receivers, NEW byte, r.state \in 1..ROWS
  PROVE  /\ Merged(r, byte)[r.state] =
              Shifted(Merge(r.new[r.state], byte, r.sub), r.sub)
         /\ \A j \in 1..ROWS : j # r.state => Merged(r, byte)[j] = r.new[j]
         /\ r.new[r.state] \in SUBSET (0..31)
<1>1. r.new \in [1..ROWS -> SUBSET (0..31)]
  BY DEF Receivers
<1>2. Merged(r, byte) =
        [r.new EXCEPT ![r.state] = Shifted(Merge(r.new[r.state], byte, r.sub), r.sub)]
  BY DEF Merged, Merge, Shifted
<1>. QED
  BY <1>1, <1>2

(* In step, each byte goes where it belongs, and only the last one of a    *)
(* frame changes what is served.                                           *)
LEMMA ReadsKept ==
  ASSUME NEW r \in Receivers, NEW p, Drawn(p), NEW i \in 1..ROWS, NEW c \in 0..4,
         NEW byte, byte = (IF c = 0 THEN FF ELSE ByteOf(p[i], 4 - c)), Reads(r, p, i, c),
         NEW q, q = Receive(r, byte)
  PROVE  /\ c < 4 => Reads(q, p, i, c + 1)
         /\ c = 4 => Reads(q, p, i + 1, 0)
         /\ ~(i = ROWS /\ c = 4) => q.data = r.data
<1>1. /\ r.state = i /\ r.sub = 4 - c
      /\ \A j \in 1..i - 1 : r.new[j] = Seen(p)[j]
      /\ Agrees(r.new[i], p[i], 5 - c)
  <2>1. i <= ROWS /\ Turn(0, i) = i
    BY RowsIs DEF Turn
  <2>. QED
    BY <2>1 DEF Reads
<1>2. Turn(0, i) = i /\ Turn(0, i + 1) = (IF i = ROWS THEN 0 ELSE i + 1)
  BY RowsIs DEF Turn
<1>3. CASE c = 0
  <2>1. byte = FF /\ byte \in Bytes /\ r.state # eSearching /\ r.sub = eDelim
    BY <1>1, <1>3 DEF FF, Bytes, eSearching, eDelim
  <2>2. q.state = i /\ q.sub = 3 /\ q.new = r.new /\ q.data = r.data
    BY <1>1, <2>1, ReceiveIs
  <2>3. Agrees(r.new[i], p[i], 5 - 1)
    BY DEF Agrees
  <2>4. i <= ROWS /\ i # ROWS + 1 /\ 4 - 1 = 3
    BY RowsIs
  <2>5. Reads(q, p, i, 1)
    BY <1>1, <1>2, <2>2, <2>3, <2>4, Zenon DEF Reads
  <2>. QED
    BY <1>3, <2>2, <2>5
<1>4. CASE c \in 1..4
  <2>. DEFINE s == 4 - c
              m == Merged(r, byte)
  <2>1. s \in 0..3 /\ s \in Byte /\ byte = ByteOf(p[i], s) /\ s + 1 = 5 - c
    BY <1>4 DEF Byte
  <2>2. byte \in Bytes
    BY <2>1, RowByte
  <2>3. r.state # eSearching /\ r.sub # eDelim /\ r.sub = s
    BY <1>1, <1>4 DEF eSearching, eDelim
  <2>4. /\ q.new = m
        /\ s # 0 => q.state = r.state /\ q.sub = s - 1 /\ q.data = r.data
        /\ s = 0 /\ r.state # ROWS =>
             q.state = r.state + 1 /\ q.sub = eDelim /\ q.data = r.data
        /\ s = 0 /\ r.state = ROWS => q.state = eSearching /\ q.sub = eDelim /\ q.data = m
    BY <2>2, <2>3, ReceiveIs
  <2>. HIDE DEF s
  <2>5. /\ m[i] = Shifted(Merge(r.new[i], ByteOf(p[i], s), s), s)
        /\ \A j \in 1..ROWS : j # i => m[j] = r.new[j]
        /\ r.new[i] \in SUBSET (0..31)
    BY <1>1, <2>1, <2>3, MergedIsShifted
  <2>6. /\ s # 0 => Agrees(m[i], p[i], s)
        /\ s = 0 => m[i] = Seen(p)[i]
    <3>1. Agrees(r.new[i], p[i], s + 1)
      BY <1>1, <2>1
    <3>. QED
      BY <2>1, <2>5, <3>1, RowReceived
  <2>7. \A j \in 1..i - 1 : m[j] = Seen(p)[j]
    <3>1. \A j \in 1..i - 1 : j \in 1..ROWS /\ j # i
      BY RowsIs
    <3>. QED
      BY <1>1, <2>5, <3>1, Zenon
  <2>8. m \in [1..ROWS -> SUBSET (0..31)]
    BY <2>2, <2>3, MergedIs
  <2>. HIDE DEF m
  <2>9. CASE c < 4
    <3>1. s # 0 /\ s - 1 = 4 - (c + 1) /\ 5 - (c + 1) = s
      BY <1>4, <2>9 DEF s
    <3>2. i <= ROWS /\ i # ROWS + 1
      BY RowsIs
    <3>3. q.state = i /\ q.sub = 4 - (c + 1) /\ q.new = m /\ q.data = r.data
      BY <1>1, <2>4, <3>1
    <3>4. Agrees(m[i], p[i], 5 - (c + 1))
      BY <2>6, <3>1
    <3>5. Reads(q, p, i, c + 1)
      BY <1>2, <2>7, <3>2, <3>3, <3>4, Zenon DEF Reads
    <3>. QED
      BY <2>9, <3>3, <3>5
  <2>10. CASE c = 4
    <3>1. s = 0
      BY <2>10 DEF s
    <3>2. \A j \in 1..(i + 1) - 1 : m[j] = Seen(p)[j]
      <4>1. \A j \in 1..(i + 1) - 1 : j = i \/ j \in 1..i - 1
        OBVIOUS
      <4>. QED
        BY <2>6, <2>7, <3>1, <4>1, Zenon
    <3>3. \A row, want : Agrees(row, want, 5 - 0)
      BY DEF Agrees
    <3>4. CASE i = ROWS
      <4>1. q.state = 0 /\ q.new = m /\ q.data = m
        BY <1>1, <2>4, <3>1, <3>4 DEF eSearching
      <4>2. m = Seen(p)
        <5>1. Seen(p) = [j \in 1..ROWS |-> Seen(p)[j]]
          BY Zenon DEF Seen
        <5>2. \A j \in 1..ROWS : j \in 1..(i + 1) - 1
          BY <3>4, RowsIs
        <5>3. m = [j \in 1..ROWS |-> m[j]]
          BY <2>8
        <5>. QED
          BY <3>2, <5>1, <5>2, <5>3
      <4>3. ~(i + 1 <= ROWS) /\ Turn(0, i + 1) = 0
        BY <1>2, <3>4, RowsIs
      <4>4. Reads(q, p, i + 1, 0)
        BY <3>2, <4>1, <4>2, <4>3, Zenon DEF Reads
      <4>. QED
        BY <2>10, <3>4, <4>4
    <3>5. CASE i # ROWS
      <4>1. q.state = i + 1 /\ q.sub = 4 - 0 /\ q.new = m /\ q.data = r.data
        BY <1>1, <2>4, <3>1, <3>5 DEF eDelim
      <4>2. i + 1 # ROWS + 1 /\ Turn(0, i + 1) = i + 1
        BY <1>2, <3>5, RowsIs
      <4>3. Reads(q, p, i + 1, 0)
        BY <3>2, <3>3, <4>1, <4>2, Zenon DEF Reads
      <4>. QED
        BY <2>10, <4>1, <4>3
    <3>. QED
      BY <3>4, <3>5
  <2>. QED
    BY <1>4, <2>9, <2>10
<1>. QED
  BY <1>3, <1>4

(* So for each byte of a frame.                                            *)
LEMMA ReadingKept ==
  ASSUME NEW r \in Receivers, NEW p, Drawn(p),
         NEW at \in 0..FrameLength, at # FrameLength, Reading(r, p, at),
         NEW q, q = Receive(r, Frame(p)[at + 1])
  PROVE  /\ Reading(q, p, at + 1)
         /\ at + 1 # FrameLength => q.data = r.data
<1>. DEFINE byte == Frame(p)[at + 1]
<1>1. CASE at = 0 /\ r.state = eSearching
  <2>1. byte = FF /\ byte \in Bytes
    <3>1. FF \in Bytes
      BY DEF FF, Bytes
    <3>2. byte = FF
      <4>1. at + 1 = 1
        BY <1>1
      <4>2. Frame(p)[1] = FF
        BY FrameIs DEF Drawn
      <4>. QED
        BY <4>1, <4>2
    <3>. QED
      BY <3>1, <3>2
  <2>2. q.state = 1 /\ q.sub = 4 /\ q.data = r.data
    BY <1>1, <2>1, ReceiveIs DEF eDelim
  <2>3. IsPlace(1, 0, at + 1)
    BY <1>1, RowsIs DEF IsPlace, Place
  <2>4. Reads(q, p, 1, 0)
    <3>1. Turn(0, 1) = 1 /\ 4 - 0 = 4 /\ 1 # ROWS + 1
      BY RowsIs DEF Turn
    <3>2. \A j \in 1..1 - 1 : FALSE
      OBVIOUS
    <3>3. \A row, want : Agrees(row, want, 5 - 0)
      BY DEF Agrees
    <3>. QED
      BY <2>2, <3>1, <3>2, <3>3, Zenon DEF Reads
  <2>. QED
    BY <2>2, <2>3, <2>4 DEF Reading
<1>2. CASE \E i, c : IsPlace(i, c, at) /\ Reads(r, p, i, c)
  <2>1. PICK i, c : IsPlace(i, c, at) /\ Reads(r, p, i, c)
    BY <1>2
  <2>2. /\ i \in 1..ROWS /\ c \in 0..4
        /\ c < 4 => IsPlace(i, c + 1, at + 1)
        /\ c = 4 => IsPlace(i + 1, 0, at + 1)
        /\ at = Place(i, c)
    BY <2>1, NextPlace DEF IsPlace
  <2>3. byte = IF c = 0 THEN FF ELSE ByteOf(p[i], 4 - c)
    BY <2>2, FrameIs DEF Drawn
  <2>4. q = Receive(r, byte)
    OBVIOUS
  <2>. HIDE DEF byte
  <2>5. /\ c < 4 => Reads(q, p, i, c + 1)
        /\ c = 4 => Reads(q, p, i + 1, 0)
        /\ ~(i = ROWS /\ c = 4) => q.data = r.data
    BY <2>1, <2>2, <2>3, <2>4, ReadsKept
  <2>6. i = ROWS /\ c = 4 => at + 1 = FrameLength
    BY <2>2, RowsIs DEF Place, FrameLength
  <2>7. c < 4 \/ c = 4
    BY <2>2
  <2>8. Reading(q, p, at + 1)
    BY <2>2, <2>5, <2>7, Zenon DEF Reading
  <2>. QED
    BY <2>5, <2>6, <2>8
<1>. QED
  BY <1>1, <1>2 DEF Reading

(* A byte that is read keeps what the invariant says of the receiver.      *)
LEMMA TracksKept ==
  ASSUME NEW r \in Receivers, Drawn(picture), whole \in Nat,
         NEW at \in 0..FrameLength, at # FrameLength, Tracks(r, at),
         NEW q, q = Receive(r, Frame(picture)[at + 1])
  PROVE  Tracks(q, at + 1)
<1>1. whole # 0 => InStep(q, whole, at + 1)
  <2>1. SUFFICES ASSUME whole # 0 PROVE InStep(q, whole, at + 1)
    OBVIOUS
  <2>2. InStep(r, whole, at) /\ whole \in Nat \ {0}
    BY <2>1 DEF Tracks
  <2>. QED
    BY <2>2, InStepKept
<1>2. ASSUME Reading(r, picture, at)
      PROVE  Reading(q, picture, at + 1) /\ (at + 1 # FrameLength => q.data = r.data)
  BY <1>2, ReadingKept
<1>3. lost = 0 \/ whole >= ROWS + 2 => Reading(r, picture, at)
  BY DEF Tracks
<1>4. lost = 0 \/ whole > ROWS + 2 =>
        r.data = Shown(before) /\ (lost = 0 \/ whole >= ROWS + 2)
  BY RowsIs DEF Tracks
<1>. QED
  BY <1>1, <1>2, <1>3, <1>4, Zenon DEF Tracks

(* Whatever bytes come, lost ones between them or not, the receiver has a  *)
(* state.                                                                  *)
LEMMA ReceivedTypes ==
  ASSUME NEW r \in Receivers, NEW data \in Seq(Bytes)
  PROVE  FoldLeft(Receive, r, data) \in Receivers
<1>. DEFINE n == Len(data)
<1>1. PICK f : /\ f[0] = r
               /\ \A i \in 1..n : f[i] = Receive(f[i - 1], data[i])
               /\ FoldLeft(Receive, r, data) = f[n]
  BY ReceiveUnfolds
<1>2. n \in Nat /\ \A i \in 1..n : data[i] \in Bytes
  BY LenProperties, ElementOfSeq
<1>. DEFINE P == {m \in Nat : m <= n => f[m] \in Receivers}
<1>. HIDE DEF n
<1>3. 0 \in P
  BY <1>1
<1>4. ASSUME NEW m \in Nat, m \in P PROVE m + 1 \in P
  <2>1. SUFFICES ASSUME m + 1 <= n PROVE f[m + 1] \in Receivers
    OBVIOUS
  <2>2. m + 1 \in 1..n /\ (m + 1) - 1 = m /\ m <= n
    BY <1>2, <2>1
  <2>3. f[m] \in Receivers
    BY <1>4, <2>2
  <2>4. f[m + 1] = Receive(f[m], data[m + 1]) /\ data[m + 1] \in Bytes
    BY <1>1, <1>2, <2>2
  <2>. QED
    BY <2>3, <2>4, ReceiveIs
<1>5. n \in P
  <2>. HIDE DEF P
  <2>. QED
    BY <1>2, <1>3, <1>4, NatInductive
<1>. QED
  BY <1>1, <1>2, <1>5

(* What remains of a sequence after some of it.                            *)
LEMMA RestIs ==
  ASSUME NEW S, NEW seq \in Seq(S), NEW a \in 0..Len(seq)
  PROVE  /\ SubSeq(seq, a + 1, Len(seq)) \in Seq(S)
         /\ Len(SubSeq(seq, a + 1, Len(seq))) = Len(seq) - a
         /\ \A j \in 1..Len(seq) - a : SubSeq(seq, a + 1, Len(seq))[j] = seq[a + j]
<1>. DEFINE rest == SubSeq(seq, a + 1, Len(seq))
<1>1. Len(seq) \in Nat /\ a \in Nat /\ a <= Len(seq)
  BY LenProperties
<1>2. rest \in Seq(S)
  BY <1>1, SubSeqAny
<1>3. Len(rest) = Len(seq) - a
  BY <1>1
<1>4. \A j \in 1..Len(seq) - a : rest[j] = seq[a + j]
  BY <1>1
<1>. QED
  BY <1>2, <1>3, <1>4

(* So do all bytes of a call, and what it leaves on the line is the rest   *)
(* of the frame.                                                           *)
LEMMA ReadTracks ==
  ASSUME Drawn(picture), whole \in Nat, receiver \in Receivers,
         NEW at \in 0..FrameLength, line = SubSeq(Frame(picture), at + 1, FrameLength),
         Tracks(receiver, at), NEW n \in 0..Len(line)
  PROVE  /\ at + n \in 0..FrameLength
         /\ SubSeq(line, n + 1, Len(line)) = SubSeq(Frame(picture), (at + n) + 1, FrameLength)
         /\ Tracks(FoldLeft(Receive, receiver, SubSeq(line, 1, n)), at + n)
<1>. DEFINE frame == Frame(picture)
            data == SubSeq(line, 1, n)
<1>1. frame \in Seq(Bytes) /\ Len(frame) = FrameLength /\ FrameLength \in Nat
  BY FrameIs DEF Drawn
<1>. HIDE DEF frame
<1>2. /\ line \in Seq(Bytes) /\ Len(line) = FrameLength - at
      /\ \A j \in 1..FrameLength - at : line[j] = frame[at + j]
  <2>1. line = SubSeq(frame, at + 1, FrameLength)
    BY DEF frame
  <2>2. line \in Seq(Bytes)
    BY <1>1, <2>1, SubSeqAny
  <2>3. Len(line) = FrameLength - at
    BY <1>1, <2>1
  <2>4. \A j \in 1..FrameLength - at : line[j] = frame[at + j]
    BY <1>1, <2>1
  <2>. QED
    BY <2>2, <2>3, <2>4
<1>3. n \in Nat /\ n <= FrameLength - at /\ n <= Len(line)
  BY <1>1, <1>2
<1>4. /\ data \in Seq(Bytes) /\ Len(data) = n
      /\ \A j \in 1..n : data[j] = frame[at + j]
  <2>1. data \in Seq(Bytes)
    BY <1>2, <1>3, SubSeqAny
  <2>2. Len(data) = n /\ \A j \in 1..n : data[j] = line[j]
    BY <1>2, <1>3
  <2>3. \A j \in 1..n : j \in 1..FrameLength - at
    BY <1>1, <1>3
  <2>. QED
    BY <1>2, <2>1, <2>2, <2>3, Zenon
<1>5. SubSeq(line, n + 1, Len(line)) = SubSeq(frame, (at + n) + 1, FrameLength)
  <2>. DEFINE from == at + n
              rest == FrameLength - from
              old == SubSeq(line, n + 1, Len(line))
              new == SubSeq(frame, from + 1, FrameLength)
  <2>1. from \in Nat /\ from <= FrameLength /\ rest \in Nat /\ Len(line) - n = rest
        /\ Len(line) \in Nat
    BY <1>1, <1>2, <1>3
  <2>2. from = at + n /\ rest = FrameLength - from
    OBVIOUS
  <2>. HIDE DEF from, rest
  <2>3. n \in 0..Len(line) /\ from \in 0..Len(frame) /\ Len(frame) - from = rest
    BY <1>1, <1>3, <2>1, <2>2
  <2>4. /\ old \in Seq(Bytes) /\ Len(old) = rest
        /\ \A j \in 1..rest : old[j] = line[n + j]
    <3>1. line \in Seq(Bytes)
      BY <1>2
    <3>3. /\ SubSeq(line, n + 1, Len(line)) \in Seq(Bytes)
          /\ Len(SubSeq(line, n + 1, Len(line))) = Len(line) - n
          /\ \A j \in 1..Len(line) - n : SubSeq(line, n + 1, Len(line))[j] = line[n + j]
      BY <2>3, <3>1, RestIs, Zenon
    <3>. QED
      BY <2>1, <3>3, Zenon
  <2>5. /\ new \in Seq(Bytes) /\ Len(new) = rest
        /\ \A j \in 1..rest : new[j] = frame[from + j]
    BY <1>1, <2>3, RestIs
  <2>6. ASSUME NEW j \in 1..rest PROVE line[n + j] = frame[from + j]
    <3>1. n + j \in 1..FrameLength - at /\ at + (n + j) = from + j
      BY <1>1, <1>3, <2>1, <2>2
    <3>. QED
      BY <1>2, <3>1
  <2>. HIDE DEF old, new
  <2>7. old = new
    BY <2>4, <2>5, <2>6, SeqEqual
  <2>. QED
    BY <2>7 DEF old, new, from
<1>6. PICK f : /\ f[0] = receiver
               /\ \A i \in 1..Len(data) : f[i] = Receive(f[i - 1], data[i])
               /\ FoldLeft(Receive, receiver, data) = f[Len(data)]
  BY <1>4, ReceiveUnfolds
<1>. DEFINE P == {m \in Nat : m <= n => f[m] \in Receivers /\ Tracks(f[m], at + m)}
<1>. HIDE DEF data
<1>7. 0 \in P
  <2>1. at + 0 = at
    BY <1>1
  <2>. QED
    BY <1>6, <2>1
<1>8. ASSUME NEW m \in Nat, m \in P PROVE m + 1 \in P
  <2>1. SUFFICES ASSUME m + 1 <= n
                 PROVE  f[m + 1] \in Receivers /\ Tracks(f[m + 1], at + (m + 1))
    OBVIOUS
  <2>2. /\ m + 1 \in 1..n /\ (m + 1) - 1 = m /\ m <= n
        /\ at + m \in 0..FrameLength /\ at + m # FrameLength
        /\ at + (m + 1) = (at + m) + 1
        /\ (at + m) + 1 \in 1..Len(frame)
    BY <1>1, <1>3, <2>1
  <2>3. f[m] \in Receivers /\ Tracks(f[m], at + m)
    BY <1>8, <2>2
  <2>4. f[m + 1] = Receive(f[m], frame[(at + m) + 1])
    BY <1>4, <1>6, <2>2
  <2>5. frame[(at + m) + 1] \in Bytes
    BY <1>1, <2>2, ElementOfSeq
  <2>6. f[m + 1] \in Receivers
    BY <2>3, <2>4, <2>5, ReceiveIs
  <2>7. Tracks(f[m + 1], (at + m) + 1)
    BY <2>2, <2>3, <2>4, TracksKept DEF frame
  <2>. QED
    BY <2>2, <2>6, <2>7
<1>9. n \in P
  <2>. HIDE DEF P
  <2>. QED
    BY <1>3, <1>7, <1>8, NatInductive
<1>10. Tracks(f[n], at + n)
  BY <1>3, <1>9
<1>11. at + n \in 0..FrameLength
  BY <1>1, <1>3
<1>. QED
  BY <1>4, <1>5, <1>6, <1>10, <1>11 DEF frame, data

(* A picture is not taken for none.                                        *)
LEMMA DrawnIsShown ==
  ASSUME NEW p, Drawn(p)
  PROVE  Shown(p) = Seen(p)
<1>1. p # Unsent
  BY RowsIs DEF Drawn, Unsent
<1>. QED
  BY <1>1 DEF Shown

(* The end of a frame is no place of a row.                                *)
LEMMA AtTheEnd ==
  ASSUME NEW i, NEW c, IsPlace(i, c, FrameLength)
  PROVE  i = ROWS + 1 /\ c = 0
BY RowsIs DEF IsPlace, FrameLength, Place

(* At the end of a frame the receiver waits, and one in step serves the    *)
(* picture.                                                                *)
LEMMA EndOfFrame ==
  ASSUME NEW r \in Receivers, NEW k \in Nat \ {0}, NEW p
  PROVE  /\ InStep(r, k, FrameLength) => r.state \in 0..Behind(k) /\ Rests(r)
         /\ Reading(r, p, FrameLength) => r.state = eSearching /\ r.data = Seen(p)
<1>1. FrameLength # 0
  BY RowsIs DEF FrameLength, Place
<1>2. Behind(k) \in 0..ROWS
  BY RowsIs DEF Behind
<1>3. ASSUME InStep(r, k, FrameLength) PROVE r.state \in 0..Behind(k) /\ Rests(r)
  <2>1. PICK i, c : IsPlace(i, c, FrameLength) /\ \E f \in 0..Behind(k) : OnTurn(r, i, c, f)
    BY <1>1, <1>3, Zenon DEF InStep
  <2>2. i = ROWS + 1 /\ c = 0
    BY <2>1, AtTheEnd
  <2>3. PICK f \in 0..Behind(k) : OnTurn(r, ROWS + 1, 0, f)
    BY <2>1, <2>2
  <2>4. Turn(f, ROWS + 1) = f /\ ROWS + 1 # 1
    BY <1>2, RowsIs DEF Turn
  <2>. QED
    BY <2>3, <2>4 DEF OnTurn
<1>4. ASSUME Reading(r, p, FrameLength) PROVE r.state = eSearching /\ r.data = Seen(p)
  <2>1. PICK i, c : IsPlace(i, c, FrameLength) /\ Reads(r, p, i, c)
    BY <1>1, <1>4, Zenon DEF Reading
  <2>2. i = ROWS + 1 /\ c = 0
    BY <2>1, AtTheEnd
  <2>3. Turn(0, ROWS + 1) = 0
    BY RowsIs DEF Turn
  <2>. QED
    BY <2>1, <2>2, <2>3, Zenon DEF Reads, eSearching
<1>. QED
  BY <1>3, <1>4

(* The invariant holds at first.                                           *)
LEMMA FramesInitially == FramesInit => FramesInv
<1>. SUFFICES ASSUME FramesInit PROVE FramesInv
  OBVIOUS
<1>1. /\ picture = Unsent /\ line = <<>> /\ lost = 0 /\ whole = 0
      /\ receiver = [state |-> eSearching, sub |-> 0, new |-> Nothing, data |-> Pattern]
  BY DEF FramesInit
<1>2. receiver \in Receivers
  <2>1. eSearching = 0 /\ 0 \in 0..ROWS /\ 0 \in 0..4
    BY RowsIs DEF eSearching
  <2>2. Nothing \in [1..ROWS -> SUBSET (0..31)]
    BY DEF Nothing
  <2>3. Pattern \in [1..ROWS -> SUBSET (0..31)]
    <3>1. \A i : 4..31 \cup {bit \in 0..3 : ((i - 1) \div 2^bit) % 2 = 1} \in SUBSET (0..31)
      OBVIOUS
    <3>. QED
      BY <3>1, Zenon DEF Pattern
  <2>. QED
    BY <1>1, <2>1, <2>2, <2>3 DEF Receivers
<1>3. line \in Seq(Bytes)
  BY <1>1
<1>4. NothingSent
  BY <1>1 DEF NothingSent
<1>. QED
  BY <1>1, <1>2, <1>3, <1>4 DEF FramesInv

(* A new frame begins when the line is empty, from wherever the receiver   *)
(* is.                                                                     *)
LEMMA EchoKeepsInv ==
  ASSUME FramesInv, EchoBuffer PROVE FramesInv'
<1>1. /\ receiver \in Receivers /\ lost \in Nat /\ whole \in Nat
  BY DEF FramesInv
<1>2. /\ line = <<>> /\ picture' \in Pictures /\ before' = picture
      /\ line' = Frame(picture')
      /\ whole' = IF whole > ROWS + 2 THEN whole ELSE whole + 1
      /\ receiver' = receiver /\ lost' = lost
  BY DEF EchoBuffer
<1>3. Drawn(picture')
  BY <1>2, FramesAssumption DEF Drawn
<1>4. /\ Frame(picture') \in Seq(Bytes) /\ Len(Frame(picture')) = FrameLength
      /\ FrameLength \in Nat
  BY <1>3, FrameIs DEF Drawn
<1>5. line' = SubSeq(Frame(picture'), 0 + 1, FrameLength)
  <2>1. 0 + 1 = 1
    OBVIOUS
  <2>. QED
    BY <1>2, <1>4, <2>1, SubSeqFull
<1>6. ASSUME FrameSent, lost = 0 \/ whole # 0 PROVE Tracks(receiver, FrameLength)
  <2>1. PICK at \in 0..FrameLength :
          line = SubSeq(Frame(picture), at + 1, FrameLength) /\ Tracks(receiver, at)
    BY <1>6, Zenon DEF FrameSent
  <2>2. Len(SubSeq(Frame(picture), at + 1, FrameLength)) = FrameLength - at
    <3>1. Frame(picture) \in Seq(Bytes) /\ Len(Frame(picture)) = FrameLength
      BY <1>6, FrameIs DEF FrameSent, Drawn
    <3>. QED
      BY <1>4, <3>1
  <2>3. at = FrameLength
    BY <1>2, <1>4, <2>1, <2>2
  <2>. QED
    BY <2>1, <2>3
<1>7. /\ whole # 0 => receiver.state \in 0..Behind(whole) /\ Rests(receiver)
      /\ lost = 0 \/ whole >= ROWS + 2 =>
           receiver.state = eSearching /\ receiver.data = Shown(picture)
  <2>1. CASE NothingSent
    BY <2>1, RowsIs DEF NothingSent, Shown
  <2>2. CASE FrameSent
    <3>1. whole # 0 => InStep(receiver, whole, FrameLength)
      BY <1>6, <2>2 DEF Tracks
    <3>2. lost = 0 \/ whole >= ROWS + 2 => Reading(receiver, picture, FrameLength)
      BY <1>1, <1>6, <2>2, RowsIs DEF Tracks
    <3>3. whole # 0 => receiver.state \in 0..Behind(whole) /\ Rests(receiver)
      BY <1>1, <3>1, EndOfFrame
    <3>4. ASSUME Reading(receiver, picture, FrameLength)
          PROVE  receiver.state = eSearching /\ receiver.data = Shown(picture)
      <4>1. 1 \in Nat \ {0}
        OBVIOUS
      <4>2. receiver.state = eSearching /\ receiver.data = Seen(picture)
        BY <1>1, <3>4, <4>1, EndOfFrame, Zenon
      <4>. QED
        BY <2>2, <4>2, DrawnIsShown DEF FrameSent
    <3>. QED
      BY <3>2, <3>3, <3>4, Zenon
  <2>. QED
    BY <2>1, <2>2 DEF FramesInv
<1>8. /\ whole' \in Nat \ {0}
      /\ whole' # 1 => whole # 0 /\ Behind(whole' - 1) = Behind(whole)
      /\ whole' >= ROWS + 2 => whole # 0 /\ Behind(whole) = 0
      /\ whole' > ROWS + 2 => whole >= ROWS + 2
  BY <1>1, <1>2, RowsIs DEF Behind
<1>9. InStep(receiver, whole', 0)
  BY <1>7, <1>8 DEF InStep
<1>10. lost = 0 \/ whole' >= ROWS + 2 => Reading(receiver, picture', 0)
  <2>1. whole' >= ROWS + 2 => receiver.state = 0
    BY <1>7, <1>8
  <2>. QED
    BY <1>7, <2>1 DEF Reading, eSearching
<1>11. lost = 0 \/ whole' > ROWS + 2 => receiver.data = Shown(before')
  BY <1>2, <1>7, <1>8
<1>12. Tracks(receiver, 0)'
  BY <1>2, <1>9, <1>10, <1>11 DEF Tracks
<1>13. 0 \in 0..FrameLength
  BY <1>4
<1>. QED
  BY <1>1, <1>2, <1>3, <1>4, <1>5, <1>8, <1>12, <1>13 DEF FramesInv, FrameSent

(* A lost byte ends what is known, but for types.                          *)
LEMMA LoseKeepsInv ==
  ASSUME FramesInv, Lose PROVE FramesInv'
<1>1. /\ receiver \in Receivers /\ lost \in Nat /\ line \in Seq(Bytes)
      /\ NothingSent \/ FrameSent
  BY DEF FramesInv
<1>2. /\ lost' = lost + 1 /\ whole' = 0 /\ picture' = picture /\ receiver' = receiver
      /\ \E i \in DOMAIN line : line' = RemoveAt(line, i)
  BY DEF Lose
<1>3. line' \in Seq(Bytes)
  <2>1. PICK i \in DOMAIN line : line' = RemoveAt(line, i)
    BY <1>2
  <2>2. i \in 1..Len(line) /\ Len(line) \in Nat
    BY <1>1, LenProperties
  <2>3. /\ SubSeq(line, 1, i - 1) \in Seq(Bytes)
        /\ SubSeq(line, i + 1, Len(line)) \in Seq(Bytes)
    BY <1>1, <2>2, SubSeqAny
  <2>4. line' = SubSeq(line, 1, i - 1) \o SubSeq(line, i + 1, Len(line))
    BY <2>1, Zenon DEF RemoveAt
  <2>. QED
    BY <2>3, <2>4, ConcatProperties
<1>4. Drawn(picture)
  <2>1. line # <<>>
    BY <1>1, <1>2
  <2>. QED
    BY <1>1, <2>1 DEF NothingSent, FrameSent
<1>5. lost' \in Nat /\ lost' # 0
  BY <1>1, <1>2
<1>. QED
  BY <1>1, <1>2, <1>3, <1>4, <1>5 DEF FramesInv, FrameSent

(* uart_recvTask reads any of the bytes that have arrived.                 *)
LEMMA TaskKeepsInv ==
  ASSUME FramesInv, UartRecvTask PROVE FramesInv'
<1>1. /\ receiver \in Receivers /\ lost \in Nat /\ whole \in Nat /\ line \in Seq(Bytes)
      /\ NothingSent \/ FrameSent
  BY DEF FramesInv
<1>2. /\ picture' = picture /\ before' = before /\ lost' = lost /\ whole' = whole
  BY DEF UartRecvTask, RxIntrEnable
<1>3. PICK n \in 0..Len(line) :
        /\ receiver' = FoldLeft(Receive, receiver, SubSeq(line, 1, n))
        /\ line' = SubSeq(line, n + 1, Len(line))
  BY Zenon DEF UartRecvTask, RxIntrEnable, Read
<1>4. n \in Nat /\ n <= Len(line) /\ Len(line) \in Nat
  BY <1>1, <1>3, LenProperties
<1>5. SubSeq(line, 1, n) \in Seq(Bytes) /\ line' \in Seq(Bytes)
  BY <1>1, <1>3, <1>4, SubSeqAny
<1>6. receiver' \in Receivers
  BY <1>1, <1>3, <1>5, ReceivedTypes
<1>7. ASSUME FrameSent, lost = 0 \/ whole # 0
      PROVE  \E at \in 0..FrameLength :
               /\ line' = SubSeq(Frame(picture), at + 1, FrameLength)
               /\ Tracks(receiver', at)
  <2>1. PICK at \in 0..FrameLength :
          line = SubSeq(Frame(picture), at + 1, FrameLength) /\ Tracks(receiver, at)
    BY <1>7, Zenon DEF FrameSent
  <2>2. /\ at + n \in 0..FrameLength
        /\ line' = SubSeq(Frame(picture), (at + n) + 1, FrameLength)
        /\ Tracks(receiver', at + n)
    BY <1>1, <1>3, <1>7, <2>1, ReadTracks DEF FrameSent
  <2>. QED
    BY <2>2
<1>8. \A at : Tracks(receiver', at) => Tracks(receiver, at)'
  BY <1>2 DEF Tracks
<1>9. CASE FrameSent
  BY <1>1, <1>2, <1>5, <1>6, <1>7, <1>8, <1>9 DEF FramesInv, FrameSent
<1>10. CASE NothingSent
  <2>1. n = 0 /\ line = <<>>
    BY <1>4, <1>10 DEF NothingSent
  <2>2. Len(SubSeq(line, 1, n)) = 0 /\ line' = <<>>
    <3>1. SubSeq(line, 1, n) = <<>> /\ SubSeq(line, n + 1, Len(line)) = <<>>
      BY <2>1
    <3>. QED
      BY <1>3, <3>1
  <2>3. receiver' = receiver
    <3>. DEFINE data == SubSeq(line, 1, n)
    <3>1. PICK f : /\ f[0] = receiver
                   /\ \A i \in 1..Len(data) : f[i] = Receive(f[i - 1], data[i])
                   /\ FoldLeft(Receive, receiver, data) = f[Len(data)]
      <4>1. data \in Seq(Bytes)
        BY <1>5
      <4>. HIDE DEF data
      <4>. QED
        BY <4>1, ReceiveUnfolds, Zenon
    <3>. QED
      BY <1>3, <2>2, <3>1
  <2>4. NothingSent'
    BY <1>2, <1>10, <2>2, <2>3 DEF NothingSent
  <2>. QED
    BY <1>1, <1>2, <1>5, <1>6, <2>4 DEF FramesInv
<1>. QED
  BY <1>1, <1>9, <1>10

(* Whatever is lost and however the frames are cut, the invariant holds.   *)
LEMMA FramesInvInductive == FramesSpec => []FramesInv
<1>1. ASSUME FramesInv, [FramesNext]_framesVars PROVE FramesInv'
  <2>1. CASE EchoBuffer
    BY <1>1, <2>1, EchoKeepsInv
  <2>2. CASE Lose
    BY <1>1, <2>2, LoseKeepsInv
  <2>3. ASSUME UNCHANGED <<picture, before, line, receiver, lost, whole>>
        PROVE  FramesInv'
    <3>1. \A at : Tracks(receiver, at) => Tracks(receiver, at)'
      BY <2>3 DEF Tracks
    <3>2. NothingSent => NothingSent'
      BY <2>3 DEF NothingSent
    <3>3. FrameSent => FrameSent'
      BY <2>3, <3>1 DEF FrameSent
    <3>. QED
      BY <1>1, <2>3, <3>2, <3>3 DEF FramesInv
  <2>4. CASE UartRecvTask
    BY <1>1, <2>4, TaskKeepsInv
  <2>5. CASE RxInterrupt
    BY <2>3, <2>5 DEF RxInterrupt, RxIntrDisable
  <2>6. CASE Switch
    BY <2>3, <2>6 DEF Switch
  <2>7. CASE UNCHANGED framesVars
    BY <2>3, <2>7 DEF framesVars
  <2>. QED
    BY <1>1, <2>1, <2>2, <2>4, <2>5, <2>6, <2>7 DEF FramesNext
<1>. QED
  BY <1>1, FramesInitially, PTL DEF FramesSpec

(* The portal never serves rows of two pictures while nothing is lost, and *)
(* again after two frames more than a picture has rows (uart_recvTask,     *)
(* storebyte): for every number of rows and any pictures without a         *)
(* delimiter.                                                              *)
THEOREM ServesWholePicturesHolds == FramesSpec => []ServesWholePictures
<1>1. FramesInv => ServesWholePictures
  <2>1. SUFFICES ASSUME FramesInv, lost = 0 \/ whole > ROWS + 2
                 PROVE  receiver.data = IF line = <<>> THEN Shown(picture) ELSE Shown(before)
    BY DEF ServesWholePictures
  <2>2. CASE NothingSent
    BY <2>2 DEF NothingSent, Shown
  <2>3. CASE FrameSent
    <3>1. /\ whole \in Nat /\ receiver \in Receivers /\ Drawn(picture)
          /\ lost = 0 \/ whole # 0
      BY <2>1, <2>3, RowsIs DEF FramesInv, FrameSent
    <3>2. PICK at \in 0..FrameLength :
            line = SubSeq(Frame(picture), at + 1, FrameLength) /\ Tracks(receiver, at)
      BY <2>3, <3>1, Zenon DEF FrameSent
    <3>3. /\ Frame(picture) \in Seq(Bytes) /\ Len(Frame(picture)) = FrameLength
          /\ FrameLength \in Nat
      BY <3>1, FrameIs DEF Drawn
    <3>4. Len(line) = FrameLength - at
      <4>1. Len(SubSeq(Frame(picture), at + 1, FrameLength)) = FrameLength - at
        BY <3>3
      <4>. QED
        BY <3>2, <4>1
    <3>5. line = <<>> <=> at = FrameLength
      <4>1. line \in Seq(Bytes)
        BY <2>1 DEF FramesInv
      <4>2. line = <<>> <=> Len(line) = 0
        BY <4>1, EmptySeq
      <4>. QED
        BY <3>3, <3>4, <4>2
    <3>6. CASE at = FrameLength
      <4>1. Reading(receiver, picture, FrameLength)
        BY <2>1, <3>1, <3>2, <3>6, RowsIs DEF Tracks
      <4>2. 1 \in Nat \ {0}
        OBVIOUS
      <4>3. receiver.data = Seen(picture)
        BY <3>1, <4>1, <4>2, EndOfFrame, Zenon
      <4>. QED
        BY <3>1, <3>5, <3>6, <4>3, DrawnIsShown
    <3>7. CASE at # FrameLength
      BY <2>1, <3>2, <3>5, <3>7 DEF Tracks
    <3>. QED
      BY <3>6, <3>7
  <2>. QED
    BY <2>1, <2>2, <2>3 DEF FramesInv
<1>. QED
  BY <1>1, FramesInvInductive, PTL
=============================================================================
