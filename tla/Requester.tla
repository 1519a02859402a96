----------------------------- MODULE Requester -----------------------------
(***************************************************************************)
(* The HTTPS client of the display (display/requester.c).                  *)
(*                                                                         *)
(* One static connection, one static context, one task queue and one       *)
(* timeout timer are shared by all requests, one after the other.  The SDK *)
(* runs callbacks, timers and tasks to completion, so every handler is one *)
(* action; what interleaves is their order.  A posted event carries only   *)
(* the connection: what the task does is read from e_status when the event *)
(* is dispatched, not when it is posted.                                   *)
(*                                                                         *)
(* The module's own specification composes the requester with a client     *)
(* that starts a request only when the previous one has left nothing       *)
(* behind (Quiet).  That the tracker of display.c is such a client is      *)
(* checked in module Tracker.                                              *)
(***************************************************************************)
EXTENDS Naturals

CONSTANTS
  QueueLen,   \* requester_TaskQueueLen
  MaxPackets  \* bound: packets the server sends in answer to one request

ASSUME RequesterAssumption ==
  /\ QueueLen \in Nat \ {0}
  /\ MaxPackets \in Nat

VARIABLES
  conn,          \* s_requester_conn.state
  eStatus,       \* s_context.e_status
  phase,         \* s_context.e_response_state, the states of one phase merged
  posted,        \* events in requester_TaskQueue
  timeoutArmed,  \* timeout_timer_t is armed
  lookups,       \* name lookups whose callback is still to come
  disconnecting, \* espconn_secure_disconnect called, callback still to come
  packets,       \* packets the server still has to send, 0 before the send
  report         \* argument of f_status in the step just taken, or "NOTHING"

vars == <<conn, eStatus, phase, posted, timeoutArmed, lookups, disconnecting,
          packets, report>>

-----------------------------------------------------------------------------
(* The SDK's connection states the code tells apart; the others (READ,     *)
(* WRITE) are "CONNECT" here.                                              *)
ConnStates == {"NONE", "WAIT", "CONNECT", "CLOSE"}

Tasks == {"OPEN_CONNECTION", "SEND_REQUEST", "CLOSE_CONNECTION"}

(* HEADERS: STATUS_LINE .. END_HEADER_CR.  BODY: LENGTH .. IN_BODY.        *)
(* IN_ERROR is left in the step that enters it.                            *)
Phases == {"HEADERS", "BODY", "NOOP"}

Statuses == {"REQ_CONN_CONNECTED", "REQ_CONN_CLOSED", "REQ_DNS_LOOKUP_FAIL",
             "REQ_CONN_FAIL", "REQ_OUT_OF_MEM"}

TypeOK ==
  /\ conn \in ConnStates
  /\ eStatus \in Tasks
  /\ phase \in Phases
  /\ posted \in 0..QueueLen
  /\ timeoutArmed \in BOOLEAN
  /\ lookups \in Nat
  /\ disconnecting \in BOOLEAN
  /\ packets \in 0..MaxPackets
  /\ report \in Statuses \cup {"NOTHING"}

Init ==
  /\ conn = "NONE"
  /\ eStatus = "OPEN_CONNECTION"
  /\ phase = "HEADERS"
  /\ posted = 0
  /\ timeoutArmed = FALSE
  /\ lookups = 0
  /\ disconnecting = FALSE
  /\ packets = 0
  /\ report = "NOTHING"

-----------------------------------------------------------------------------
(* Operators named after a fault ("...WithoutDisconnect") are mutants: the definition *)
(* that follows them with one plausible mistake in it.  PROJECT.json says  *)
(* which property each of them breaks; the specification uses none.        *)

(* system_os_post: an event that finds the queue full is dropped, and no   *)
(* caller looks at the result.                                             *)
Post(n) == IF n < QueueLen THEN n + 1 ELSE n

(* The check at the head of request(): "connection is dirty".              *)
Dirty == conn \notin {"NONE", "CLOSE"}

(* request() refused because the connection is in use: nothing changes.    *)
RequestDirty ==
  /\ Dirty
  /\ report' = "NOTHING"
  /\ UNCHANGED <<conn, eStatus, phase, posted, timeoutArmed, lookups,
                 disconnecting, packets>>

(* request() past the check.  The memset of the context makes e_status     *)
(* OPEN_CONNECTION, which is 0.  dns is what espconn_gethostbyname         *)
(* returned: with OK the code calls dnscb itself, with ARG it returns      *)
(* false.  Neither the timer nor the queue is touched.                     *)
RequestAccepted(dns) ==
  /\ ~Dirty
  /\ conn' = "NONE"
  /\ eStatus' = "OPEN_CONNECTION"
  /\ phase' = "HEADERS"
  /\ posted' = IF dns = "OK" THEN Post(posted) ELSE posted
  /\ lookups' = IF dns = "INPROGRESS" THEN lookups + 1 ELSE lookups
  /\ disconnecting' = FALSE
  /\ packets' = 0
  /\ report' = "NOTHING"
  /\ UNCHANGED timeoutArmed

LookupResults == {"OK", "INPROGRESS", "ARG"}

-----------------------------------------------------------------------------
(* dnscb with an address.                                                  *)
DnsFound ==
  /\ lookups > 0
  /\ lookups' = lookups - 1
  /\ eStatus' = "OPEN_CONNECTION"
  /\ posted' = Post(posted)
  /\ report' = "NOTHING"
  /\ UNCHANGED <<conn, phase, timeoutArmed, disconnecting, packets>>

(* dnscb without an address.                                               *)
DnsNotFound ==
  /\ lookups > 0
  /\ lookups' = lookups - 1
  /\ report' = "REQ_DNS_LOOKUP_FAIL"
  /\ UNCHANGED <<conn, eStatus, phase, posted, timeoutArmed, disconnecting,
                 packets>>

-----------------------------------------------------------------------------
(* requester_Task, case OPEN_CONNECTION.  espconn_secure_connect may fail, *)
(* and does so on a connection that is in use.                             *)
TaskOpen ==
  /\ posted > 0
  /\ eStatus = "OPEN_CONNECTION"
  /\ posted' = posted - 1
  /\ \/ /\ ~Dirty
        /\ conn' = "WAIT"
        /\ report' = "REQ_CONN_CONNECTED"
     \/ /\ report' = "REQ_CONN_FAIL"
        /\ UNCHANGED conn
  /\ UNCHANGED <<eStatus, phase, timeoutArmed, lookups, disconnecting, packets>>

(* requester_Task, case SEND_REQUEST, the request fits the buffer.  A send *)
(* that succeeds lets the server answer with up to MaxPackets packets.     *)
TaskSend ==
  /\ posted > 0
  /\ eStatus = "SEND_REQUEST"
  /\ posted' = posted - 1
  /\ \/ /\ conn = "CONNECT"
        /\ packets' \in 0..MaxPackets
        /\ report' = "NOTHING"
     \/ /\ report' = "REQ_CONN_FAIL"
        /\ UNCHANGED packets
  /\ UNCHANGED <<conn, eStatus, phase, timeoutArmed, lookups, disconnecting>>

(* requester_Task, case SEND_REQUEST, MEM_ERROR: the request, its cookies  *)
(* or its body do not fit in REQUEST_BUFFER_SIZE.                          *)
TaskSendTooBig ==
  /\ posted > 0
  /\ eStatus = "SEND_REQUEST"
  /\ eStatus' = "CLOSE_CONNECTION"
  /\ posted' = Post(posted - 1)
  /\ report' = "REQ_OUT_OF_MEM"
  /\ UNCHANGED <<conn, phase, timeoutArmed, lookups, disconnecting, packets>>

TaskCloseWithoutDisconnect ==
  /\ posted > 0
  /\ eStatus = "CLOSE_CONNECTION"
  /\ posted' = posted - 1
  /\ timeoutArmed' = FALSE
  /\ report' = "NOTHING"
  /\ UNCHANGED <<conn, eStatus, phase, lookups, disconnecting, packets>>

(* requester_Task, case CLOSE_CONNECTION.  The disconnect of a connection  *)
(* that is not open is refused by the SDK and has no effect.               *)
TaskClose ==
  /\ posted > 0
  /\ eStatus = "CLOSE_CONNECTION"
  /\ posted' = posted - 1
  /\ timeoutArmed' = FALSE
  /\ disconnecting' = (disconnecting \/ Dirty)
  /\ report' = "NOTHING"
  /\ UNCHANGED <<conn, eStatus, phase, lookups, packets>>

Task == TaskOpen \/ TaskSend \/ TaskSendTooBig \/ TaskClose

-----------------------------------------------------------------------------

(* connectcb.                                                              *)
Connected ==
  /\ conn = "WAIT"
  /\ conn' = "CONNECT"
  /\ eStatus' = "SEND_REQUEST"
  /\ posted' = Post(posted)
  /\ report' = "NOTHING"
  /\ UNCHANGED <<phase, timeoutArmed, lookups, disconnecting, packets>>

(* The connection is gone: what every closing callback finds in the SDK.   *)
ConnectionGone ==
  /\ conn' = "CLOSE"
  /\ disconnecting' = FALSE
  /\ packets' = 0
  /\ UNCHANGED <<eStatus, phase, posted, timeoutArmed, lookups>>

(* disconnectcb, after our disconnect or the server's.  It is registered   *)
(* by connectcb.                                                           *)
Disconnected ==
  /\ conn = "CONNECT"
  /\ ConnectionGone
  /\ report' = "REQ_CONN_CLOSED"

(* reconncb: error 8 is reported as a close, any other as a failure.       *)
Reconnect ==
  /\ conn \in {"WAIT", "CONNECT"}
  /\ ConnectionGone
  /\ report' \in {"REQ_CONN_CLOSED", "REQ_CONN_FAIL"}

-----------------------------------------------------------------------------
(* receivecb.  Every packet re-arms the timeout, also one that arrives     *)
(* after the parser has decided to close.                                  *)
Packet ==
  /\ conn = "CONNECT"
  /\ packets > 0
  /\ packets' = packets - 1
  /\ timeoutArmed' = TRUE
  /\ report' = "NOTHING"
  /\ UNCHANGED <<conn, lookups, disconnecting>>

(* receivecb stays within its phase: part of a line, of a chunk or of the  *)
(* body, or anything once it is in NOOP.                                   *)
ReceivePart ==
  /\ Packet
  /\ UNCHANGED <<eStatus, phase, posted>>

(* receivecb up to the empty line: f_header is called.                     *)
ReceiveHeaders ==
  /\ Packet
  /\ phase = "HEADERS"
  /\ phase' = "BODY"
  /\ UNCHANGED <<eStatus, posted>>

(* receivecb reaches the end of the body, a malformed response or a        *)
(* callback that returned false: the connection is to be closed.           *)
ReceiveEnd ==
  /\ Packet
  /\ phase # "NOOP"
  /\ phase' = "NOOP"
  /\ eStatus' = "CLOSE_CONNECTION"
  /\ posted' = Post(posted)

Receive == ReceivePart \/ ReceiveHeaders \/ ReceiveEnd

(* timeout_timer: no packet for 500 ms.                                    *)
TimeoutFires ==
  /\ timeoutArmed
  /\ timeoutArmed' = FALSE
  /\ eStatus' = "CLOSE_CONNECTION"
  /\ posted' = Post(posted)
  /\ report' = "NOTHING"
  /\ UNCHANGED <<conn, phase, lookups, disconnecting, packets>>

-----------------------------------------------------------------------------
(* Nothing of an earlier request can still act on the shared context.      *)
Quiet == ~Dirty /\ posted = 0 /\ lookups = 0 /\ ~timeoutArmed

ClientRequest == Quiet /\ \E dns \in LookupResults : RequestAccepted(dns)

(* A client may also call request() while one is running; it is refused.   *)
ClientRefused == RequestDirty

Next ==
  \/ ClientRequest
  \/ ClientRefused
  \/ DnsFound
  \/ DnsNotFound
  \/ Task
  \/ Connected
  \/ Disconnected
  \/ Reconnect
  \/ Receive
  \/ TimeoutFires

Spec == Init /\ [][Next]_vars

(* The request is written and no packet has answered it yet.               *)
Unanswered == eStatus = "SEND_REQUEST" /\ posted = 0 /\ ~timeoutArmed

-----------------------------------------------------------------------------
(* PROPERTIES                                                              *)

(* requester_Task never connects a connection that is in use, nor one      *)
(* whose host is not resolved: the event it runs was posted by the lookup  *)
(* of the request in the context, although nothing but e_status, which     *)
(* every callback overwrites, tells it so.                                 *)
OpensOnlyResolved ==
  posted > 0 /\ eStatus = "OPEN_CONNECTION"
    => conn = "NONE" /\ lookups = 0 /\ posted = 1

(* A decision to close is not lost: as long as the connection that the     *)
(* parser or the timeout gave up is open and its disconnect has not been   *)
(* called, an event that will call it is queued, even when posts are       *)
(* dropped by a full queue.                                                *)
CloseNotLost ==
  eStatus = "CLOSE_CONNECTION" /\ conn = "CONNECT" /\ ~disconnecting
    => posted > 0

(* The request line is written once per connection, before any byte of the *)
(* response is parsed: while a SEND_REQUEST event is queued the parser is  *)
(* in its initial state and no timeout can turn it into a close.           *)
SendsBeforeReceiving ==
  posted > 0 /\ eStatus = "SEND_REQUEST"
    => posted = 1 /\ phase = "HEADERS" /\ ~timeoutArmed /\ packets = 0

(* The parser never falls back within a request: f_header is called at     *)
(* most once, and nothing after NOOP, until request() resets the context.  *)
PhaseOnlyAdvances ==
  [][\/ phase' = phase
     \/ phase = "HEADERS"
     \/ phase = "BODY" /\ phase' = "NOOP"
     \/ ClientRequest]_vars

-----------------------------------------------------------------------------
(* THE INDUCTIVE INVARIANT                                                 *)
(*                                                                         *)
(* What each stage of a request excludes.  It says why one word, e_status, *)
(* is enough to tell the task what to do: at most one callback at a time   *)
(* may still post an event, until the response has begun.                  *)

(* A lookup is under way: nothing else is.                                 *)
LookingUp ==
  lookups > 0 =>
    /\ lookups = 1
    /\ posted = 0
    /\ conn = "NONE"
    /\ eStatus = "OPEN_CONNECTION"

(* From request() to connectcb.                                            *)
Opening ==
  eStatus = "OPEN_CONNECTION" =>
    /\ conn # "CONNECT"
    /\ phase = "HEADERS"
    /\ ~timeoutArmed
    /\ packets = 0
    /\ posted > 0 => posted = 1 /\ conn = "NONE"

(* The other two stages are entered through connectcb only.                *)
Opened == conn \in {"NONE", "WAIT"} => eStatus = "OPEN_CONNECTION"

(* From connectcb to the decision to close.                                *)
Sending ==
  eStatus = "SEND_REQUEST" =>
    /\ phase # "NOOP"
    /\ posted > 0 =>
         posted = 1 /\ phase = "HEADERS" /\ ~timeoutArmed /\ packets = 0

Inv ==
  /\ TypeOK
  /\ LookingUp
  /\ Opening
  /\ Opened
  /\ Sending
  /\ CloseNotLost
=============================================================================
