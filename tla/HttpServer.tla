----------------------------- MODULE HttpServer -----------------------------
(***************************************************************************)
(* The HTTP server of the display (display/http.c): callbacks of the SDK   *)
(* post events, one task serves them.  An event names its connection by    *)
(* the address of the SDK's structure, which is released when the client   *)
(* has gone and may then be given to another client.                       *)
(*                                                                         *)
(* A response is a first send, the header, and then pieces of 512 bytes,   *)
(* one for each time the SDK reports that the last send is through.        *)
(***************************************************************************)
EXTENDS Naturals, Sequences, FiniteSets

CONSTANTS
  Conns,        \* addresses the SDK uses for the structures of connections
  EventsLen,    \* server_TaskQueueLen
  MaxPieces,    \* bound: pieces of 512 bytes in a payload
  MaxSegments,  \* bound: segments a client sends on one connection
  SendMayFail,  \* espconn_send may refuse, and memory may run out
  Manners       \* when clients leave: once "SERVED", also when "IDLE" before
                \* they ask for anything, or at "ANY" time

ASSUME HttpAssumption ==
  /\ EventsLen \in Nat \ {0}
  /\ MaxPieces \in Nat \ {0}
  /\ MaxSegments \in Nat
  /\ SendMayFail \in BOOLEAN
  /\ Manners \in {"SERVED", "IDLE", "ANY"}

VARIABLES
  link,      \* the SDK's side of each connection; "DEAF" without callbacks
  context,   \* conn->reverse points to a context
  handler,   \* ps_internal->f_handler is set
  data,      \* what ps_internal->pch_data points to
  left,      \* pieces in ps_internal->ui_data_len
  owned,     \* ps_internal->pch_data_to_free is set
  unacked,   \* sends whose sentcb is still to come
  segments,  \* segments received on the connection
  refused,   \* a send was refused, or no memory for the header
  queue,     \* server_TaskQueue
  crashed    \* the processor took an exception

httpVars == <<link, context, handler, data, left, owned, unacked, segments,
              refused, queue, crashed>>

connVars == <<link, context, handler, data, left, owned, unacked, segments,
              refused>>

Signals == {"DISCONNECT_CLIENT", "ERROR_404", "APP_SERVICED", "SEND_DATA"}

(* CLIENT_DISCONNECTED carries NULL for a connection, and serves nothing.  *)
ClientDisconnected == <<"CLIENT_DISCONNECTED">>

Events == (Signals \X Conns) \cup {ClientDisconnected}

HttpTypeOK ==
  /\ link \in [Conns -> {"FREE", "OPEN", "CLOSING", "DEAF"}]
  /\ context \in [Conns -> BOOLEAN]
  /\ handler \in [Conns -> BOOLEAN]
  /\ data \in [Conns -> {"NULL", "STATIC", "HEAP", "FREED"}]
  /\ left \in [Conns -> 0..MaxPieces]
  /\ owned \in [Conns -> BOOLEAN]
  /\ unacked \in [Conns -> Nat]
  /\ segments \in [Conns -> 0..MaxSegments]
  /\ refused \in [Conns -> BOOLEAN]
  /\ queue \in Seq(Events) /\ Len(queue) <= EventsLen
  /\ crashed \in BOOLEAN

HttpInit ==
  /\ link = [c \in Conns |-> "FREE"]
  /\ context = [c \in Conns |-> FALSE]
  /\ handler = [c \in Conns |-> FALSE]
  /\ data = [c \in Conns |-> "NULL"]
  /\ left = [c \in Conns |-> 0]
  /\ owned = [c \in Conns |-> FALSE]
  /\ unacked = [c \in Conns |-> 0]
  /\ segments = [c \in Conns |-> 0]
  /\ refused = [c \in Conns |-> FALSE]
  /\ queue = <<>>
  /\ crashed = FALSE

-----------------------------------------------------------------------------

(* system_os_post: an event that finds the queue full is dropped.          *)
Post(q, event) == IF Len(q) < EventsLen THEN Append(q, event) ELSE q

(* connectcb, with the new context that http_request_context_new returns;  *)
(* without memory for one the callbacks are not registered either, and     *)
(* nobody closes the connection.                                           *)
Connect(c) ==
  /\ link[c] = "FREE"
  /\ \/ /\ link' = [link EXCEPT ![c] = "OPEN"]
        /\ context' = [context EXCEPT ![c] = TRUE]
     \/ /\ SendMayFail
        /\ link' = [link EXCEPT ![c] = "DEAF"]
        /\ context' = [context EXCEPT ![c] = FALSE]
  /\ handler' = [handler EXCEPT ![c] = FALSE]
  /\ data' = [data EXCEPT ![c] = "NULL"]
  /\ left' = [left EXCEPT ![c] = 0]
  /\ owned' = [owned EXCEPT ![c] = FALSE]
  /\ unacked' = [unacked EXCEPT ![c] = 0]
  /\ segments' = [segments EXCEPT ![c] = 0]
  /\ refused' = [refused EXCEPT ![c] = FALSE]
  /\ UNCHANGED <<queue, crashed>>

(* receivecb on a segment that asks for a resource with a handler, and on  *)
(* any other.                                                              *)
Receive(c) ==
  /\ link[c] = "OPEN"
  /\ segments[c] < MaxSegments
  /\ segments' = [segments EXCEPT ![c] = @ + 1]
  /\ \/ /\ handler' = [handler EXCEPT ![c] = TRUE]
        /\ queue' = Post(queue, <<"APP_SERVICED", c>>)
     \/ /\ queue' = Post(queue, <<"ERROR_404", c>>)
        /\ UNCHANGED handler
  /\ UNCHANGED <<link, context, data, left, owned, unacked, refused, crashed>>

SentSaysNothingAtEnd(c) ==
  /\ link[c] \in {"OPEN", "CLOSING"}
  /\ unacked[c] > 0
  /\ unacked' = [unacked EXCEPT ![c] = @ - 1]
  /\ queue' = IF left[c] > 0 THEN Post(queue, <<"SEND_DATA", c>>) ELSE queue
  /\ UNCHANGED <<link, context, handler, data, left, owned, segments, refused,
                 crashed>>

SentOffByOne(c) ==
  /\ link[c] \in {"OPEN", "CLOSING"}
  /\ unacked[c] > 0
  /\ unacked' = [unacked EXCEPT ![c] = @ - 1]
  /\ queue' = Post(queue, <<IF left[c] > 1 THEN "SEND_DATA"
                                           ELSE "DISCONNECT_CLIENT", c>>)
  /\ UNCHANGED <<link, context, handler, data, left, owned, segments, refused,
                 crashed>>

(* sentcb.                                                                 *)
Sent(c) ==
  /\ link[c] \in {"OPEN", "CLOSING"}
  /\ unacked[c] > 0
  /\ unacked' = [unacked EXCEPT ![c] = @ - 1]
  /\ queue' = Post(queue, <<IF left[c] > 0 THEN "SEND_DATA"
                                           ELSE "DISCONNECT_CLIENT", c>>)
  /\ UNCHANGED <<link, context, handler, data, left, owned, segments, refused,
                 crashed>>

(* disconnectcb and reconncb: the context goes, with the payload it owns,  *)
(* and the SDK releases the connection.                                    *)
Gone(c) ==
  /\ link' = [link EXCEPT ![c] = "FREE"]
  /\ context' = [context EXCEPT ![c] = FALSE]
  /\ handler' = [handler EXCEPT ![c] = FALSE]
  /\ data' = [data EXCEPT ![c] = "NULL"]
  /\ left' = [left EXCEPT ![c] = 0]
  /\ owned' = [owned EXCEPT ![c] = FALSE]
  /\ unacked' = [unacked EXCEPT ![c] = 0]
  /\ queue' = Post(queue, ClientDisconnected)
  /\ UNCHANGED <<segments, refused, crashed>>

(* Something of the server's is still under way for this connection.       *)
Pending(c) ==
  \/ unacked[c] > 0
  \/ \E i \in 1..Len(queue) : queue[i] \in Signals \X {c}

(* After espconn_disconnect, or because the client leaves.                 *)
Closed(c) == link[c] = "CLOSING" /\ Gone(c)

Leaves(c) ==
  /\ link[c] = "OPEN"
  /\ \/ Manners = "ANY"
     \/ ~Pending(c) /\ (segments[c] > 0 \/ Manners = "IDLE")
  /\ Gone(c)

(* A connection without callbacks goes when its client leaves or the SDK   *)
(* times it out, and the server is not told.                               *)
GoesUnheard(c) ==
  /\ link[c] = "DEAF"
  /\ link' = [link EXCEPT ![c] = "FREE"]
  /\ UNCHANGED <<context, handler, data, left, owned, unacked, segments,
                 refused, queue, crashed>>

-----------------------------------------------------------------------------
(* server_Task, one event at a time.                                       *)

Serving(signal, c) == queue # <<>> /\ Head(queue) = <<signal, c>>

MaySend(c) == link[c] = "OPEN"
MayRefuse(c) == SendMayFail \/ link[c] # "OPEN"

(* The context is gone, or nobody has set its handler: NULL is followed.   *)
ServeNull(c) ==
  /\ \/ \E signal \in Signals \ {"ERROR_404"} : Serving(signal, c) /\ ~context[c]
     \/ Serving("APP_SERVICED", c) /\ ~handler[c]
  /\ crashed' = TRUE
  /\ queue' = Tail(queue)
  /\ UNCHANGED connVars

ServeDisconnectKeepsPointer(c) ==
  /\ Serving("DISCONNECT_CLIENT", c)
  /\ context[c]
  /\ data' = [data EXCEPT ![c] = IF owned[c] THEN "FREED" ELSE @]
  /\ link' = [link EXCEPT ![c] = IF @ = "OPEN" THEN "CLOSING" ELSE @]
  /\ queue' = Tail(queue)
  /\ UNCHANGED <<context, handler, left, owned, unacked, segments, refused,
                 crashed>>

ServeDisconnectStaysOpen(c) ==
  /\ Serving("DISCONNECT_CLIENT", c)
  /\ context[c]
  /\ data' = [data EXCEPT ![c] = IF owned[c] THEN "FREED" ELSE @]
  /\ owned' = [owned EXCEPT ![c] = FALSE]
  /\ queue' = Tail(queue)
  /\ UNCHANGED <<link, context, handler, left, unacked, segments, refused,
                 crashed>>

(* DISCONNECT_CLIENT.                                                      *)
ServeDisconnect(c) ==
  /\ Serving("DISCONNECT_CLIENT", c)
  /\ context[c]
  /\ data' = [data EXCEPT ![c] = IF owned[c] THEN "FREED" ELSE @]
  /\ owned' = [owned EXCEPT ![c] = FALSE]
  /\ link' = [link EXCEPT ![c] = IF @ = "OPEN" THEN "CLOSING" ELSE @]
  /\ queue' = Tail(queue)
  /\ UNCHANGED <<context, handler, left, unacked, segments, refused, crashed>>

(* SEND_DATA: the next piece, or the end.                                  *)
ServePiece(c) ==
  /\ Serving("SEND_DATA", c)
  /\ context[c]
  /\ data[c] # "NULL" /\ left[c] > 0
  /\ \/ /\ MaySend(c)
        /\ left' = [left EXCEPT ![c] = @ - 1]
        /\ unacked' = [unacked EXCEPT ![c] = @ + 1]
        /\ queue' = Tail(queue)
        /\ UNCHANGED refused
     \/ /\ MayRefuse(c)
        /\ refused' = [refused EXCEPT ![c] = TRUE]
        /\ queue' = Post(Tail(queue), <<"DISCONNECT_CLIENT", c>>)
        /\ UNCHANGED <<left, unacked>>
  /\ UNCHANGED <<link, context, handler, data, owned, segments, crashed>>

ServeNoPiece(c) ==
  /\ Serving("SEND_DATA", c)
  /\ context[c]
  /\ data[c] = "NULL" \/ left[c] = 0
  /\ queue' = Post(Tail(queue), <<"DISCONNECT_CLIENT", c>>)
  /\ UNCHANGED <<connVars, crashed>>

ServeAnswerFreesAtOnce(c, payload, pieces) ==
  /\ Serving("APP_SERVICED", c)
  /\ context[c] /\ handler[c]
  /\ MaySend(c)
  /\ data' = [data EXCEPT ![c] = IF payload = "HEAP" THEN "FREED" ELSE payload]
  /\ left' = [left EXCEPT ![c] = pieces]
  /\ unacked' = [unacked EXCEPT ![c] = @ + 1]
  /\ queue' = Tail(queue)
  /\ UNCHANGED <<link, context, handler, owned, segments, refused, crashed>>

(* APP_SERVICED, a handler that answers through http_send_response with a  *)
(* payload of its own or a constant.  What an earlier answer left in the   *)
(* context is overwritten.                                                 *)
ServeAnswer(c, payload, pieces) ==
  /\ Serving("APP_SERVICED", c)
  /\ context[c] /\ handler[c]
  /\ MaySend(c)
  /\ data' = [data EXCEPT ![c] = payload]
  /\ left' = [left EXCEPT ![c] = pieces]
  /\ owned' = [owned EXCEPT ![c] = (payload = "HEAP")]
  /\ unacked' = [unacked EXCEPT ![c] = @ + 1]
  /\ queue' = Tail(queue)
  /\ UNCHANGED <<link, context, handler, segments, refused, crashed>>

(* The header is not sent: nobody keeps the payload, and unless memory was *)
(* short nobody closes the connection.                                     *)
ServeAnswerFails(c, payload) ==
  /\ Serving("APP_SERVICED", c)
  /\ context[c] /\ handler[c]
  /\ MayRefuse(c)
  /\ refused' = [refused EXCEPT ![c] = TRUE]
  /\ \/ queue' = Tail(queue)
     \/ SendMayFail /\ queue' = Post(Tail(queue), <<"DISCONNECT_CLIENT", c>>)
  /\ UNCHANGED <<link, context, handler, data, left, owned, unacked, segments,
                 crashed>>

(* ERROR_404, and APP_SERVICED with a handler that returns false.          *)
ServeError(c) ==
  /\ \/ Serving("ERROR_404", c)
     \/ Serving("APP_SERVICED", c) /\ context[c] /\ handler[c]
  /\ \/ /\ MaySend(c)
        /\ unacked' = [unacked EXCEPT ![c] = @ + 1]
        /\ UNCHANGED refused
     \/ /\ MayRefuse(c)
        /\ refused' = [refused EXCEPT ![c] = TRUE]
        /\ UNCHANGED unacked
  /\ queue' = Tail(queue)
  /\ UNCHANGED <<link, context, handler, data, left, owned, segments, crashed>>

ServeClientDisconnected ==
  /\ queue # <<>>
  /\ Head(queue) = ClientDisconnected
  /\ queue' = Tail(queue)
  /\ UNCHANGED <<connVars, crashed>>

Serve(c) ==
  \/ ServeNull(c)
  \/ ServeDisconnect(c)
  \/ ServePiece(c)
  \/ ServeNoPiece(c)
  \/ \E payload \in {"STATIC", "HEAP"} :
       \/ \E pieces \in 1..MaxPieces : ServeAnswer(c, payload, pieces)
       \/ ServeAnswerFails(c, payload)
  \/ ServeError(c)

ServerTask == ServeClientDisconnected \/ \E c \in Conns : Serve(c)

HttpNext ==
  /\ ~crashed
  /\ \/ ServerTask
     \/ \E c \in Conns :
          \/ Connect(c) \/ Receive(c) \/ Sent(c)
          \/ Closed(c) \/ Leaves(c) \/ GoesUnheard(c)

HttpSpec == HttpInit /\ [][HttpNext]_httpVars

(* The SDK runs posted events, reports what is sent, and completes a       *)
(* disconnect.  No client has to do anything.                              *)
HttpFairness ==
  /\ WF_httpVars(~crashed /\ ServerTask)
  /\ \A c \in Conns :
       /\ WF_httpVars(~crashed /\ Sent(c))
       /\ WF_httpVars(~crashed /\ Closed(c))

HttpFairSpec == HttpSpec /\ HttpFairness

-----------------------------------------------------------------------------
(* PROPERTIES                                                              *)

(* What the context owns is what it points to and has not been freed: the  *)
(* payload is freed once, by DISCONNECT_CLIENT or with the context.        *)
FreedOnce == \A c \in Conns : owned[c] => data[c] = "HEAP"

(* No piece is read from a payload that has been freed.                    *)
ReadsLivePayload ==
  \A c \in Conns :
    Serving("SEND_DATA", c) /\ context[c] /\ left[c] > 0
      => data[c] \in {"STATIC", "HEAP"}

(* The server hangs up only when it has nothing left to send, or a send    *)
(* was refused.                                                            *)
HangsUpWhenDone ==
  \A c \in Conns : link[c] = "CLOSING" => left[c] = 0 \/ refused[c]

(* Once a client has asked for something the server never forgets it: until *)
(* it hangs up, an event for the connection is queued, or a sentcb to come *)
(* will post one.  The events of all connections share one queue that      *)
(* drops what does not fit; two entries for each connection are enough as  *)
(* long as clients do not leave before they ask.                           *)
NeverForgotten ==
  \A c \in Conns :
    link[c] = "OPEN" /\ segments[c] > 0 => Pending(c) \/ refused[c]

(* A client that asks for something is answered, and hung up on, unless a  *)
(* send is refused.                                                        *)
Answered ==
  \A c \in Conns :
    link[c] = "OPEN" /\ segments[c] > 0 ~> link[c] # "OPEN" \/ refused[c]

(* display/http.c:242-244: "validity of ps_internal needs to be checked to *)
(* avoid invalid memmory access.  not clear how the event is posted with   *)
(* invalid context."  The event is dispatched with no context at all.      *)
DisconnectHasContext ==
  \A c \in Conns : Serving("DISCONNECT_CLIENT", c) => context[c]
=============================================================================
