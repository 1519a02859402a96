------------------------------ MODULE Tracker ------------------------------
(***************************************************************************)
(* The member counter of the display (display/display.c): the state        *)
(* machine that logs in to the gym's web site and polls the number of      *)
(* people there, driven by one timer and by the requester's callbacks.     *)
(*                                                                         *)
(* The requester calls back from within its own handlers, so each action   *)
(* here is a handler of module Requester together with what the tracker's  *)
(* callbacks do in it.                                                     *)
(***************************************************************************)
EXTENDS Requester

CONSTANTS
  Codes,     \* bound: response codes of the server: 200, 302, any other
  Lookups,   \* bound: what espconn_gethostbyname may return, and "NOT_FOUND"
  MaxFlaps,  \* bound: times the wifi link is lost
  MaxSets    \* bound: times the user sets the e-mail address or the PIN

ASSUME TrackerAssumption ==
  /\ Codes \subseteq {200, 302, 500}
  /\ Lookups \subseteq LookupResults \cup {"NOT_FOUND"}
  /\ MaxFlaps \in Nat
  /\ MaxSets \in Nat

VARIABLES
  geState,       \* ge_state
  reqTimer,      \* delay gs_request_timer was armed with, 0 when disarmed
  timeoutFirst,  \* the requester's timeout expires before gs_request_timer
  eventsFirst,   \* events dispatched before gs_request_timer expires
  page,          \* whose callbacks s_context holds
  match,         \* gui_match_state
  token,         \* what gs_scan_ctx.pch_token points to
  cookies,       \* what the cookie jar proves to the server
  dangling,      \* what s_context points to that has been freed
  led,           \* the pattern led_display was last called with
  gbReady,       \* gb_ready
  crashed,       \* the processor took an exception
  flaps, sets    \* how often the link was lost, the credentials set

trackerVars ==
  <<geState, reqTimer, timeoutFirst, eventsFirst, page, match, token, cookies,
    dangling, led, gbReady, crashed, flaps, sets>>

allVars == <<vars, trackerVars>>

TrackerInit ==
  /\ Init
  /\ geState = "eInit"
  /\ reqTimer = 0
  /\ timeoutFirst = FALSE
  /\ eventsFirst = 0
  /\ page = "NONE"
  /\ match = 0
  /\ token = "NULL"
  /\ cookies = "NONE"
  /\ dangling = {}
  /\ led = "POWERON"
  /\ gbReady = FALSE
  /\ crashed = FALSE
  /\ flaps = 0
  /\ sets = 0

-----------------------------------------------------------------------------
(* Timers.  Real time is reduced to the orders the code relies on: what    *)
(* was queued or armed to expire before the request timer comes first.     *)
(* Those are the events that are queued when the timer is armed, and, for  *)
(* a delay of 500 ms or more, the timeout that is armed then and the event *)
(* it posts.  A timeout re-armed later, or an event posted later, may come *)
(* on either side.                                                         *)

Arm(delay) ==
  /\ reqTimer' = delay
  /\ timeoutFirst' = (timeoutArmed' /\ delay >= 500)
  /\ eventsFirst' = posted'

Disarm ==
  /\ reqTimer' = 0
  /\ timeoutFirst' = FALSE
  /\ eventsFirst' = 0

(* A step that leaves the request timer alone, and may run an event or the *)
(* timeout.                                                                *)
KeepTimer ==
  /\ UNCHANGED reqTimer
  /\ timeoutFirst' = (timeoutFirst /\ timeoutArmed')
  /\ eventsFirst' = IF timeoutFirst /\ ~timeoutArmed' THEN posted'
                    ELSE IF eventsFirst > 0 /\ posted' < posted
                         THEN eventsFirst - 1
                         ELSE eventsFirst

(* A packet re-arms the timeout: it no longer comes first.                 *)
KeepTimerOnPacket ==
  /\ UNCHANGED <<reqTimer, eventsFirst>>
  /\ timeoutFirst' = FALSE

RequestTimerDue == reqTimer # 0 /\ ~timeoutFirst /\ eventsFirst = 0

-----------------------------------------------------------------------------
(* request_status_cb, called with report'.                                 *)
StatusFail ==
  /\ report' = "REQ_CONN_FAIL"
  /\ geState' = "eInit"
  /\ Arm(20000)
  /\ led' = "ERROR"

StatusClosedAfter250 ==
  /\ report' = "REQ_CONN_CLOSED"
  /\ UNCHANGED led
  /\ \/ /\ geState = "eMembersToken"
        /\ geState' = "eMembers"
        /\ Arm(60000)
     \/ /\ geState = "eDoNothing"
        /\ UNCHANGED geState
        /\ KeepTimer
     \/ /\ geState \notin {"eMembersToken", "eDoNothing"}
        /\ UNCHANGED geState
        /\ Arm(250)

StatusClosedNoPoll ==
  /\ report' = "REQ_CONN_CLOSED"
  /\ UNCHANGED led
  /\ \/ /\ geState = "eMembersToken"
        /\ geState' = "eMembers"
        /\ KeepTimer
     \/ /\ geState = "eDoNothing"
        /\ UNCHANGED geState
        /\ KeepTimer
     \/ /\ geState \notin {"eMembersToken", "eDoNothing"}
        /\ UNCHANGED geState
        /\ Arm(500)

StatusClosedForgetsRefusal ==
  /\ report' = "REQ_CONN_CLOSED"
  /\ UNCHANGED led
  /\ \/ /\ geState = "eMembersToken"
        /\ geState' = "eMembers"
        /\ Arm(60000)
     \/ /\ geState = "eDoNothing"
        /\ geState' = "eInit"
        /\ Arm(500)
     \/ /\ geState \notin {"eMembersToken", "eDoNothing"}
        /\ UNCHANGED geState
        /\ Arm(500)

StatusClosed ==
  /\ report' = "REQ_CONN_CLOSED"
  /\ UNCHANGED led
  /\ \/ /\ geState = "eMembersToken"
        /\ geState' = "eMembers"
        /\ Arm(60000)
     \/ /\ geState = "eDoNothing"
        /\ UNCHANGED geState
        /\ KeepTimer
     \/ /\ geState \notin {"eMembersToken", "eDoNothing"}
        /\ UNCHANGED geState
        /\ Arm(500)

StatusIgnored ==
  /\ report' \notin {"REQ_CONN_FAIL", "REQ_CONN_CLOSED"}
  /\ UNCHANGED <<geState, led>>
  /\ KeepTimer

RequestStatus ==
  /\ StatusFail \/ StatusClosed \/ StatusIgnored
  /\ UNCHANGED <<page, match, token, cookies, dangling, gbReady, crashed,
                 flaps, sets>>

-----------------------------------------------------------------------------
(* What the server sets in the jar is lost when the jar it was sent with   *)
(* has been freed meanwhile.                                               *)
GainCookies(proof) ==
  cookies' = IF "JAR" \in dangling THEN cookies ELSE proof

(* login_response_header_cb.                                               *)
LoginHeaders(code) ==
  /\ page = "LOGIN"
  /\ UNCHANGED dangling
  /\ \/ /\ code = 200
        /\ token' = "STATIC"
        /\ match' = 0
        /\ GainCookies("VISITOR")
        /\ UNCHANGED <<geState, led>>
        /\ KeepTimerOnPacket
     \/ /\ code # 200
        /\ geState' = "eInit"
        /\ Arm(20000)
        /\ led' = "ERROR"
        /\ UNCHANGED <<token, match, cookies>>

(* loginapi_response_header_cb: the login data is freed whatever the code. *)
LoginApiHeaders(code) ==
  /\ page = "LOGINAPI"
  /\ token' = "NULL"
  /\ dangling' = dangling \cup {"POST_DATA"}
  /\ UNCHANGED match
  /\ \/ /\ code = 200
        /\ geState' = "eMembers"
        /\ GainCookies("MEMBER")
        /\ UNCHANGED led
        /\ KeepTimerOnPacket
     \/ /\ code = 302
        /\ geState' = "eDoNothing"
        /\ led' = "LOGIN_ERR"
        /\ UNCHANGED cookies
        /\ KeepTimerOnPacket
     \/ /\ code \notin {200, 302}
        /\ geState' = "eInit"
        /\ Arm(20000)
        /\ UNCHANGED <<led, cookies>>

(* members_response_header_cb.                                             *)
MembersHeaders(code) ==
  /\ page = "MEMBERS"
  /\ UNCHANGED <<led, cookies, dangling>>
  /\ \/ /\ code = 200
        /\ token' = "STATIC"
        /\ match' = 0
        /\ UNCHANGED geState
        /\ KeepTimerOnPacket
     \/ /\ code # 200
        /\ geState' = IF code = 302 THEN "eReAuth" ELSE "eInit"
        /\ Arm(100)
        /\ UNCHANGED <<token, match>>

Headers ==
  /\ \E code \in Codes :
       LoginHeaders(code) \/ LoginApiHeaders(code) \/ MembersHeaders(code)
  /\ UNCHANGED <<page, gbReady, crashed, flaps, sets>>

-----------------------------------------------------------------------------
(* login_response_cb and members_response_cb on one piece of the body.     *)

(* The prefix searched for is not in this piece.                           *)
ScanNothing ==
  /\ match = 0 => token # "NULL"
  /\ UNCHANGED <<geState, match, token, led, crashed>>

ScanTokenKeepsPointer ==
  /\ match = 0
  /\ token # "NULL"
  /\ match' = 1
  /\ UNCHANGED <<geState, token, led, crashed>>

(* scan_token finds it.                                                    *)
ScanToken ==
  /\ match = 0
  /\ token # "NULL"
  /\ match' = 1
  /\ token' = "NULL"
  /\ UNCHANGED <<geState, led, crashed>>

(* scan_token takes the length of a token nobody has set: reading address  *)
(* 0 is an exception on this processor.                                    *)
ScanNull ==
  /\ match = 0
  /\ token = "NULL"
  /\ crashed' = TRUE
  /\ UNCHANGED <<geState, match, token, led>>

(* scan_until copies what there is of the value.                           *)
ScanPart ==
  /\ match = 1
  /\ token' = "HEAP"
  /\ UNCHANGED <<geState, match, led, crashed>>

(* scan_until finds the end of the value: the login keeps it, the number   *)
(* of members is published and freed.                                      *)
ScanEnd ==
  /\ match = 1
  /\ match' = 2
  /\ UNCHANGED crashed
  /\ \/ /\ page = "LOGIN"
        /\ token' = "HEAP"
        /\ geState' = "eLogin"
        /\ UNCHANGED led
     \/ /\ page = "MEMBERS"
        /\ token' = "NULL"
        /\ geState' = "eMembersToken"
        /\ led' = "ACTIVE"

Body ==
  /\ phase = "BODY"
  /\ page \in {"LOGIN", "MEMBERS"}
  /\ ScanNothing \/ ScanToken \/ ScanNull \/ ScanPart \/ ScanEnd
  /\ UNCHANGED <<page, cookies, dangling, gbReady, flaps, sets>>
  /\ KeepTimerOnPacket

(* Pieces that only the requester looks at, and loginapi_response_cb.      *)
NoCallback ==
  /\ UNCHANGED <<geState, page, match, token, cookies, dangling, led, gbReady,
                 crashed, flaps, sets>>
  /\ KeepTimerOnPacket

-----------------------------------------------------------------------------
(* request_timer.                                                          *)
Started == \E dns \in Lookups \cap {"OK", "INPROGRESS"} : RequestAccepted(dns)

(* request() returns false: the timer is not armed again.                  *)
BadName == "ARG" \in Lookups /\ RequestAccepted("ARG")

(* Cases eReAuth and eInit: a new jar, whoever still uses the old one.     *)
TimerLogin ==
  /\ geState \in {"eReAuth", "eInit"}
  /\ cookies' = "NONE"
  /\ \/ /\ Started
        /\ geState' = "eGetToken"
        /\ led' = "HTTP_CONN"
        /\ page' = "LOGIN"
        /\ dangling' = {}
     \/ /\ BadName
        /\ page' = "LOGIN"
        /\ dangling' = {}
        /\ UNCHANGED <<geState, led>>
     \/ /\ RequestDirty
        /\ dangling' = dangling \cup {"JAR"}
        /\ UNCHANGED <<geState, led, page>>

(* Case eLogin: new post data, whoever still uses the old.                 *)
TimerLoginApi ==
  /\ geState = "eLogin"
  /\ UNCHANGED <<geState, led, cookies>>
  /\ \/ /\ Started \/ BadName
        /\ page' = "LOGINAPI"
        /\ dangling' = {}
     \/ /\ RequestDirty
        /\ dangling' = IF page = "LOGINAPI" THEN dangling \cup {"POST_DATA"}
                                            ELSE dangling
        /\ UNCHANGED page

(* Case eMembers.                                                          *)
TimerMembers ==
  /\ geState = "eMembers"
  /\ UNCHANGED <<geState, led, cookies>>
  /\ \/ /\ Started \/ BadName
        /\ page' = "MEMBERS"
        /\ dangling' = {}
     \/ /\ RequestDirty
        /\ UNCHANGED <<page, dangling>>

(* A second try in case no callback comes.                                 *)
TimerRequestsRearmed ==
  /\ TimerLogin \/ TimerLoginApi \/ TimerMembers
  /\ Arm(20000)

TimerRequests ==
  /\ TimerLogin \/ TimerLoginApi \/ TimerMembers
  /\ Disarm

TimerNoTokenSkipsLogin ==
  /\ geState \in {"eGetToken", "eMembersToken"}
  /\ geState' = "eMembers"
  /\ UNCHANGED <<vars, led, page, cookies, dangling>>
  /\ Arm(500)

(* Cases eGetToken and eMembersToken: "bad state, token not found?".       *)
TimerNoToken ==
  /\ geState \in {"eGetToken", "eMembersToken"}
  /\ geState' = "eInit"
  /\ UNCHANGED <<vars, led, page, cookies, dangling>>
  /\ Arm(500)

TimerDoNothing ==
  /\ geState = "eDoNothing"
  /\ Disarm
  /\ UNCHANGED <<vars, geState, led, page, cookies, dangling>>

RequestTimer ==
  /\ RequestTimerDue
  /\ TimerRequests \/ TimerNoToken \/ TimerDoNothing
  /\ UNCHANGED <<match, token, gbReady, crashed, flaps, sets>>

-----------------------------------------------------------------------------
(* wifi_handle_event_cb, as far as it touches this state.                  *)

(* EVENT_STAMODE_GOT_IP.                                                   *)
GotIp ==
  /\ ~gbReady
  /\ led' = "READY"
  /\ gbReady' = TRUE
  /\ UNCHANGED <<vars, geState, page, match, token, cookies, dangling,
                 crashed, flaps, sets>>
  /\ Arm(1000)

(* EVENT_STAMODE_DISCONNECTED.                                             *)
LinkLost ==
  /\ gbReady
  /\ flaps < MaxFlaps
  /\ flaps' = flaps + 1
  /\ led' = "POWERON"
  /\ gbReady' = FALSE
  /\ UNCHANGED <<vars, geState, page, match, token, cookies, dangling,
                 crashed, sets>>
  /\ KeepTimer

(* connect_ap, called by the error timer or on EVENT_STAMODE_DHCP_TIMEOUT. *)
StartAp ==
  /\ flaps < MaxFlaps
  /\ flaps' = flaps + 1
  /\ led' = "AP"
  /\ gbReady' = FALSE
  /\ Disarm
  /\ UNCHANGED <<vars, geState, page, match, token, cookies, dangling,
                 crashed, sets>>

SetCredentialsNotArmed ==
  /\ sets < MaxSets
  /\ sets' = sets + 1
  /\ geState' = "eInit"
  /\ UNCHANGED <<vars, page, match, token, cookies, dangling, led, gbReady,
                 crashed, flaps>>
  /\ Disarm

(* set_email and set_pin with a valid value.                               *)
SetCredentials ==
  /\ sets < MaxSets
  /\ sets' = sets + 1
  /\ geState' = "eInit"
  /\ UNCHANGED <<vars, page, match, token, cookies, dangling, led, gbReady,
                 crashed, flaps>>
  /\ IF gbReady THEN Arm(500) ELSE Disarm

-----------------------------------------------------------------------------
TrackerStatus ==
  /\ \/ DnsFound
     \/ DnsNotFound /\ "NOT_FOUND" \in Lookups
     \/ Task
     \/ Connected
     \/ Disconnected
     \/ Reconnect
     \/ TimeoutFires
  /\ RequestStatus

TrackerReceive ==
  \/ ReceiveHeaders /\ Headers
  \/ (ReceivePart \/ ReceiveEnd) /\ (NoCallback \/ Body)

Environment == GotIp \/ LinkLost \/ StartAp \/ SetCredentials

TrackerNext ==
  /\ ~crashed
  /\ \/ TrackerStatus
     \/ TrackerReceive
     \/ RequestTimer
     \/ Environment

TrackerSpec == TrackerInit /\ [][TrackerNext]_allVars

(* As for the requester, with the tracker's callbacks, its timer, and the  *)
(* station that gets an address once the link is up.                       *)
TrackerFairness ==
  /\ WF_allVars(~crashed /\ (DnsFound \/ DnsNotFound) /\ RequestStatus)
  /\ WF_allVars(~crashed /\ Task /\ RequestStatus)
  /\ WF_allVars(~crashed /\ TimeoutFires /\ RequestStatus)
  /\ WF_allVars(~crashed /\ conn = "WAIT" /\ (Connected \/ Reconnect)
                /\ RequestStatus)
  /\ WF_allVars(~crashed /\ disconnecting /\ Disconnected /\ RequestStatus)
  /\ WF_allVars(~crashed /\ Unanswered
                /\ (TrackerReceive \/ (Disconnected /\ RequestStatus)))
  /\ WF_allVars(~crashed /\ RequestTimer)
  /\ WF_allVars(~crashed /\ GotIp)

TrackerFairSpec == TrackerSpec /\ TrackerFairness

-----------------------------------------------------------------------------
(* PROPERTIES                                                              *)

(* The tracker is a client as module Requester assumes it: it starts a     *)
(* request only when nothing of the last one can act on the shared context *)
(* any more, in particular not the timeout, which disconnectcb leaves      *)
(* armed.  Nothing but the delays of gs_request_timer sees to that ("timers *)
(* of 250 have caused esp to reset").                                      *)
RequesterUsedOneAtATime == Spec

(* The tracker shows the web site nothing but a session, as long as nobody *)
(* sets another e-mail address or PIN: see module Session.  A login that   *)
(* was refused is sent again only when reconncb reports the connection it  *)
(* was refused on.                                                         *)
Stage ==
  CASE geState = "eLogin" -> "HAS_TOKEN"
    [] geState \in {"eMembers", "eMembersToken"} -> "MEMBER"
    [] geState = "eDoNothing" -> "REFUSED"
    [] OTHER -> "VISITOR"

InProgress == Dirty \/ lookups > 0 \/ (posted > 0 /\ conn = "NONE")

WebSession == INSTANCE Session WITH
  stage <- Stage,
  asking <- IF InProgress THEN page ELSE "NONE",
  broken <- report = "REQ_CONN_FAIL"

KeepsToSession == WebSession!SessionSpec

(* The context will still be read: by the task that writes the request, or *)
(* by the parser, which puts cookies into the jar.                         *)
WillRead ==
  \/ conn = "WAIT"
  \/ conn = "CONNECT" /\ eStatus = "SEND_REQUEST" /\ posted > 0
  \/ conn = "CONNECT" /\ phase = "HEADERS" /\ packets > 0

(* Jar, login data and token are lent to the requester and freed by the    *)
(* tracker, each by another callback: none goes while it is still read.    *)
LentMemoryLive ==
  WillRead =>
    /\ dangling = {}
    /\ page = "LOGINAPI" => token = "HEAP"

(* One pointer, pch_token, points to a constant while a page is searched   *)
(* and to the heap while a value is collected.  scan_until, which          *)
(* reallocates it, and loginapi_response_header_cb, which frees it, meet   *)
(* it only where it does not point to the constant.                        *)
FreesOnlyHeap ==
  /\ match = 1 => token # "STATIC"
  /\ Dirty /\ phase = "HEADERS" /\ page = "LOGINAPI" => token # "STATIC"

(* Nothing is left that would ever start a request.                        *)
Stranded == gbReady /\ Quiet /\ reqTimer = 0 /\ ~crashed

(* However a connection ends, some callback has armed the request timer,   *)
(* except after a refused login: the tracker is stranded only when the     *)
(* name of the server could not be resolved.                               *)
NotStranded == Stranded => geState = "eDoNothing" \/ conn = "NONE"

(* A refused login, a name that was not resolved, an exception.            *)
Stopped == crashed \/ geState = "eDoNothing" \/ (Stranded /\ conn = "NONE")

(* The page has given what it was asked for.                               *)
Served ==
  \/ page = "LOGIN" /\ geState = "eLogin"
  \/ page = "LOGINAPI" /\ geState = "eMembers"
  \/ page = "MEMBERS" /\ geState = "eMembersToken"

(* A step in which DNS, the network or the server fails the tracker: an    *)
(* error is reported, or a response is given up or over before its time.   *)
Fault ==
  \/ report' # report /\ report' \in {"REQ_CONN_FAIL", "REQ_DNS_LOOKUP_FAIL",
                                      "REQ_OUT_OF_MEM"}
  \/ /\ conn = "CONNECT"
     /\ eStatus # "CLOSE_CONNECTION"
     /\ eStatus' = "CLOSE_CONNECTION"
     /\ ~Served'
  \/ /\ conn # "CLOSE"
     /\ conn' = "CLOSE"
     /\ ~Served

(* Whatever has gone wrong before, in whatever order: once nothing goes    *)
(* wrong any more, the tracker logs in again if it has to and publishes    *)
(* the number of members again and again, unless it has stopped.           *)
Recovers == <>[][~Fault]_allVars => []<>(geState = "eMembersToken") \/ <>[]Stopped
=============================================================================
