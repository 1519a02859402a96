------------------------------- MODULE Portal -------------------------------
(***************************************************************************)
(* The web server of the portal (portal/portal.c), and the request for the *)
(* time (portal/sntp.c) that one of its pages makes.  A callback of the    *)
(* SDK puts a signal into the queue of a task, tcp_connTask answers it,    *)
(* and the callback for what was sent makes the task hang up.              *)
(*                                                                         *)
(* How the portal gets onto a network is the matter of module Hotspot:     *)
(* here networks come and go in any way.  Inverting the lamp, which is all *)
(* that led.json does but answering, is modelled there too.                *)
(*                                                                         *)
(* What the code keeps of a client is the address of its connection, in    *)
(* the queue and in the request for the time.  A client that leaves takes  *)
(* neither back, and the connection of another may get its address: that   *)
(* one is its heir.                                                        *)
(***************************************************************************)
EXTENDS Sntp, FiniteSets, SequencesExt

CONSTANTS
  Clients,      \* addresses of connections
  Requests,     \* the paths they ask for, as sequences of words
  MaxSegments,  \* bound: how many requests come on a connection
  QueueLen,     \* tcp_connTaskQueueLen, 10
  Exchanges,    \* of packets with the time server, see module Sntp
  MaxInFlight   \* bound: requests for the time and answers on their way

Nobody == "nobody"

ASSUME PortalAssumption ==
  /\ IsFiniteSet(Clients)
  /\ Nobody \notin Clients
  /\ {MaxSegments, QueueLen} \subseteq Nat

ASSUME ExchangesAssumption == \A x \in Exchanges : Possible(x)

VARIABLES
  network,    \* by which clients come: station, hotspot or none
  client,     \* away (gone, timed out, out of reach, or hung up on), open,
              \* waiting (it has asked), answered or told (the SDK knows that
              \* the answer has arrived); forgotten, when what it waits for
              \* found the queue full, or somebody else gets it; shut, when it
              \* was hung up on without an answer
  asked,      \* what it asked for, in order
  got,        \* the signal it was answered with last
  queue,      \* of tcp_connTask: signal and client
  ntpconn,    \* [open, reverse], reverse the client that asked for the time
  ntpTimer,   \* ntp_t is armed
  inFlight,   \* requests for the time or answers on their way
  due,        \* history: exchanges begun less set-time commands sent
  exchange,   \* history: the exchange that the time in the queue is from
  heirs       \* history: clients whose address was in use when they came

ntpVars == <<ntpconn, ntpTimer, inFlight, due, exchange>>
httpVars == <<client, asked, got, queue, heirs>>
portalVars == <<network, httpVars, ntpVars>>

PortalInit ==
  /\ network = "none"
  /\ client = [c \in Clients |-> "away"]
  /\ asked = [c \in Clients |-> <<>>]
  /\ got = [c \in Clients |-> {}]
  /\ queue = <<>>
  /\ ntpconn = [open |-> FALSE, reverse |-> Nobody]
  /\ ntpTimer = FALSE
  /\ inFlight = 0
  /\ due = 0
  /\ exchange = {}
  /\ heirs = {}

-----------------------------------------------------------------------------
(* PATHS                                                                   *)

(* A path is matched with the start of each of these, in this order, two   *)
(* of them with theirs: the signal, or, above them, what else to do.       *)
SETTIME == 12
SETWIFI == 13

Pages ==
  << << <<"/">>, 2>>, << <<"/", "next", ".html">>, 3>>,
     << <<"/", "toggle", ".html">>, 4>>, << <<"/", "led", ".json">>, 5>>,
     << <<"/", "state", ".html">>, 6>>, << <<"/", "zero", ".json">>, 7>>,
     << <<"/", "settime", ".json">>, SETTIME>>,
     << <<"/", "scroll", ".json?", "scroll=", "1">>, 7>>,
     << <<"/", "scroll", ".json?", "scroll=", "0">>, 7>>,
     << <<"/", "speed", ".json?", "speed=">>, 7>>,
     << <<"/", "state", ".json">>, 8>>, << <<"/", "wifi", ".html">>, 9>>,
     << <<"/", "setwifi", ".html?">>, SETWIFI>> >>

Matches(path, page) ==
  CASE page = <<"/", "speed", ".json?", "speed=">> -> IsStrictPrefix(page, path)
    [] page = <<"/", "setwifi", ".html?">> -> IsPrefix(page, path)
    [] OTHER -> IsPrefix(path, page)

Route(path) ==
  LET i == SelectInSeq(Pages, LAMBDA page : Matches(path, page[1]))
  IN IF i = 0 THEN 0 ELSE Pages[i][2]

-----------------------------------------------------------------------------
(* CLIENTS, AND THE SDK                                                    *)

InReach(c) == client[c] \notin {"away", "shut"}

(* Somebody still has the address of this connection.                      *)
InUse(c) ==
  \/ \E i \in DOMAIN queue : queue[i][2] = c
  \/ ntpconn.open /\ ntpconn.reverse = c

(* tcpserver_connectcb                                                     *)
Connect(c) ==
  /\ ~InReach(c)
  /\ network # "none"
  /\ client' = [client EXCEPT ![c] = "open"]
  /\ heirs' = IF InUse(c) THEN heirs \cup {c} ELSE heirs
  /\ UNCHANGED <<network, asked, got, queue, ntpVars>>

(* What becomes of clients whose connection ends.                          *)
Ends(clients, how) ==
  /\ client' = [c \in Clients |-> IF c \in clients THEN how ELSE client[c]]
  /\ asked' = [c \in Clients |-> IF c \in clients THEN <<>> ELSE asked[c]]
  /\ got' = [c \in Clients |-> IF c \in clients THEN {} ELSE got[c]]
  /\ heirs' = heirs \ clients

(* A client leaves or gets out of reach, or 300 seconds have passed        *)
(* without a word of it: shell_tcp_disconcb does nothing.                  *)
Leave(c) ==
  /\ InReach(c)
  /\ Ends({c}, "away")
  /\ UNCHANGED <<network, queue, ntpVars>>

(* With the network that they came by, all clients are gone.               *)
NetworkTakesClients == Ends({c \in Clients : InReach(c)}, "away")

NetworkChanges ==
  /\ network' \in {"station", "hotspot", "none"} \ {network}
  /\ NetworkTakesClients
  /\ UNCHANGED <<queue, ntpVars>>

-----------------------------------------------------------------------------
(* REQUESTS                                                                *)

(* system_os_post, whose result nobody looks at                            *)
Post(sig, c) == queue' = IF Len(queue) < QueueLen THEN Append(queue, <<sig, c>>) ELSE queue

Heard == IF Len(queue) < QueueLen THEN "waiting" ELSE "forgotten"

(* What becomes of a client that asks, and of those who lose by it.        *)
Asks(c, how, robbed) ==
  client' = [d \in Clients |->
    IF d = c /\ client[d] \in {"open", "forgotten"} THEN how
    ELSE IF d \in robbed /\ client[d] = "waiting" THEN "forgotten"
    ELSE client[d]]

(* requestTime, with espconn_create refusing what exists already; request  *)
RequestTime(c) ==
  IF ntpconn.open
  THEN /\ ntpconn' = [ntpconn EXCEPT !.reverse = c]
       /\ Post(10, c)
       /\ Asks(c, Heard, {ntpconn.reverse} \ {c})
       /\ UNCHANGED <<ntpTimer, inFlight, due, exchange>>
  ELSE /\ ntpconn' = [open |-> TRUE, reverse |-> c]
       /\ ntpTimer' = TRUE
       /\ inFlight' = 1
       /\ due' = due + 1
       /\ Asks(c, "waiting", {})
       /\ UNCHANGED <<queue, exchange>>

(* tcpclient_recv_cb, for each segment that comes; the commands it sends   *)
(* are in module Command.  Another network is tried before the answer is   *)
(* posted, and the client that asked for it is gone with the old one.      *)
TcpclientRecv(c) ==
  /\ InReach(c)
  /\ Len(asked[c]) < MaxSegments
  /\ \E path \in Requests :
       \/ /\ Route(path) = SETTIME
          /\ RequestTime(c)
          /\ asked' = [asked EXCEPT ![c] = Append(@, path)]
          /\ UNCHANGED <<network, got, heirs>>
       \/ /\ Route(path) = SETWIFI
          /\ network' = "none"
          /\ Post(2, c)
          /\ NetworkTakesClients
          /\ UNCHANGED ntpVars
       \/ /\ Route(path) \in 0..11
          /\ Post(Route(path), c)
          /\ Asks(c, Heard, {})
          /\ asked' = [asked EXCEPT ![c] = Append(@, path)]
          /\ UNCHANGED <<network, got, heirs, ntpVars>>

(* tcpclient_sent_cb                                                       *)
TcpclientSent(c) ==
  /\ client[c] = "answered"
  /\ client' = [client EXCEPT ![c] = "told"]
  /\ Post(1, c)
  /\ UNCHANGED <<network, asked, got, heirs, ntpVars>>

-----------------------------------------------------------------------------
(* tcp_connTask: nothing reaches a client that is gone, and the SDK may    *)
(* refuse an answer while one before is under way.                         *)
Hangup(c) ==
  IF InReach(c) THEN Ends({c}, IF client[c] = "waiting" THEN "shut" ELSE "away")
  ELSE UNCHANGED <<client, asked, got, heirs>>

AnswerWithoutBreak(sig, c) ==
  /\ \/ /\ ~InReach(c) \/ client[c] = "answered"
        /\ UNCHANGED <<client, got>>
     \/ /\ InReach(c)
        /\ client' = [client EXCEPT ![c] = "answered"]
        /\ got' = [got EXCEPT ![c] = {IF sig = 5 THEN 6 ELSE sig}]
  /\ exchange' = IF sig = 11 THEN {} ELSE exchange
  /\ UNCHANGED <<asked, heirs>>

Answer(sig, c) ==
  /\ \/ /\ ~InReach(c) \/ client[c] = "answered"
        /\ UNCHANGED <<client, got>>
     \/ /\ InReach(c)
        /\ client' = [client EXCEPT ![c] = "answered"]
        /\ got' = [got EXCEPT ![c] = {sig}]
  /\ exchange' = IF sig = 11 THEN {} ELSE exchange
  /\ UNCHANGED <<asked, heirs>>

TcpConnTask ==
  /\ queue # <<>>
  /\ queue' = Tail(queue)
  /\ LET sig == Head(queue)[1]
         c == Head(queue)[2]
     IN \/ sig = 1 /\ Hangup(c) /\ UNCHANGED exchange
        \/ sig # 1 /\ Answer(sig, c)
  /\ UNCHANGED <<network, ntpconn, ntpTimer, inFlight, due>>

-----------------------------------------------------------------------------
(* THE TIME                                                                *)

(* ntp_t, every 250 ms: request                                            *)
RequestOnce ==
  /\ ntpTimer
  /\ ntpTimer' = FALSE
  /\ inFlight' = IF inFlight < MaxInFlight THEN inFlight + 1 ELSE inFlight
  /\ UNCHANGED <<network, httpVars, ntpconn, due, exchange>>

Request ==
  /\ ntpTimer
  /\ inFlight < MaxInFlight
  /\ inFlight' = inFlight + 1
  /\ UNCHANGED <<network, httpVars, ntpconn, ntpTimer, due, exchange>>

(* A packet is lost.                                                       *)
PacketLost ==
  /\ inFlight > 0
  /\ inFlight' = inFlight - 1
  /\ UNCHANGED <<network, httpVars, ntpconn, ntpTimer, due, exchange>>

(* One that finds no place in the queue will hear nothing more.            *)
Forgets(c) ==
  client' = IF Heard = "forgotten" /\ client[c] = "waiting"
            THEN [client EXCEPT ![c] = "forgotten"] ELSE client

(* ntpconn_recv_callback: later answers will find no connection.           *)
NtpconnRecvKeepsConnection ==
  /\ inFlight > 0
  /\ network = "station"
  /\ ntpconn.open
  /\ inFlight' = inFlight - 1
  /\ ntpTimer' = FALSE
  /\ due' = due - 1
  /\ \E x \in Exchanges : exchange' = {x}
  /\ Post(11, ntpconn.reverse)
  /\ Forgets(ntpconn.reverse)
  /\ UNCHANGED <<network, asked, got, heirs, ntpconn>>

NtpconnRecv ==
  /\ inFlight > 0
  /\ network = "station"
  /\ ntpconn.open
  /\ inFlight' = 0
  /\ ntpTimer' = FALSE
  /\ ntpconn' = [ntpconn EXCEPT !.open = FALSE]
  /\ due' = due - 1
  /\ \E x \in Exchanges : exchange' = {x}
  /\ Post(11, ntpconn.reverse)
  /\ Forgets(ntpconn.reverse)
  /\ UNCHANGED <<network, asked, got, heirs>>

-----------------------------------------------------------------------------
PortalNext ==
  \/ NetworkChanges
  \/ \E c \in Clients :
       \/ Connect(c) \/ Leave(c)
       \/ TcpclientRecv(c) \/ TcpclientSent(c)
  \/ TcpConnTask
  \/ Request \/ PacketLost \/ NtpconnRecv

PortalSpec == PortalInit /\ [][PortalNext]_portalVars

(* The SDK runs the task and says what was sent, and the timer repeats a   *)
(* request of which nothing is left.  Of requests sent again and again,    *)
(* one is answered in the end as long as the portal is on a network.       *)
PortalFairness ==
  /\ WF_portalVars(TcpConnTask)
  /\ \A c \in Clients : WF_portalVars(TcpclientSent(c))
  /\ WF_portalVars(inFlight = 0 /\ Request)
  /\ SF_portalVars(NtpconnRecv)

PortalFairSpec == PortalSpec /\ PortalFairness

-----------------------------------------------------------------------------
(* PROPERTIES                                                              *)

(* What a client that asked for this may be answered with                  *)
Answers(path) ==
  CASE Route(path) = SETTIME -> {10, 11}
    [] Route(path) = SETWIFI -> {2}
    [] OTHER -> {Route(path)}

(* A client is answered with what it asked for, and only with that, though *)
(* others come and go, are timed out, send one request after another or    *)
(* ask for the time at once; unless its connection has the address of one  *)
(* that was closed before all was done for it.                             *)
AnsweredAsAsked ==
  \A c \in Clients \ heirs :
    got[c] \subseteq UNION {Answers(asked[c][i]) : i \in DOMAIN asked[c]}

(* Requests for the time are repeated and may each be answered: the clock  *)
(* is set once for each time that a client made the portal ask.            *)
SetsTimeOnce == due >= 0

(* It has asked for the time.                                              *)
AsksTime(c) == \E i \in DOMAIN asked[c] : Route(asked[c][i]) = SETTIME

(* Every client that asks is answered before it is hung up on, unless it   *)
(* leaves or its network does, has an address that was in use, or finds    *)
(* the queue full: one that asks for the time, however many packets are    *)
(* lost, but not over the hotspot, which leads to no time server, nor if   *)
(* another client asks for it meanwhile.                                   *)
RepliesToAll ==
  \A c \in Clients :
    client[c] = "waiting" ~>
      \/ client[c] \in {"told", "away", "forgotten"}
      \/ c \in heirs
      \/ AsksTime(c) /\ network = "hotspot"

(* The time that the portal passes on is at most three seconds behind, but *)
(* for half the time the packets were under way; unless the portal's own   *)
(* clock started again meanwhile.  It is ahead by no more than that half   *)
(* and Slack, 232 microseconds: what the code takes for the fraction of a  *)
(* second is nearly a whole one, and the borrow that makes up for it does  *)
(* not happen if the server's is as late.                                  *)
Slack == (Second * Second) \div Word

ClockWithin(x) ==
  LET behind == (TrueTime(x) - ArdTime(x) * Second) % (Day * Second)
      trip == x.received - x.sent
  IN \/ 2 * behind <= 6 * Second + trip
     \/ 2 * (Day * Second - behind) <= trip + 2 * Slack

ClockRight == \A x \in exchange : Steady(x) => ClockWithin(x)
=============================================================================
