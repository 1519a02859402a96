--------------------------- MODULE TrackerProofs ---------------------------
(***************************************************************************)
(* What TLC checks of the requester and of the tracker that drives it on a *)
(* small instance, proved for every length of the task queue, every number *)
(* of packets, every set of answers and, where nothing else is said, any   *)
(* number of lost links and of settings made meanwhile.                    *)
(***************************************************************************)
EXTENDS Tracker, TLAPS

-----------------------------------------------------------------------------
(* THE REQUESTER, WITH ANY CLIENT THAT WAITS UNTIL IT IS QUIET             *)


(* SMT takes a variable for a value it knows nothing of: it has to be told *)
(* that TRUE and FALSE, assigned, are Booleans.                            *)
LEMMA BooleanValues == \A x : x = TRUE \/ x = FALSE => x \in BOOLEAN
  OBVIOUS

(* The initial state, with nothing asked yet, satisfies the invariant.     *)
LEMMA InitInv == Init => Inv
  BY RequesterAssumption, BooleanValues
  DEF Init, Inv, TypeOK, LookingUp, Opening, Opened, Sending, CloseNotLost,
      ConnStates, Tasks, Phases, Statuses

(* Posting to a queue keeps within its length and leaves an event in it:   *)
(* this one, or one of those that filled it.                               *)
LEMMA PostBounds ==
  ASSUME NEW n \in 0..QueueLen
  PROVE  /\ Post(n) \in 1..QueueLen
         /\ Post(n) <= n + 1
  BY RequesterAssumption DEF Post

(* Every handler keeps the type and the stages apart.                      *)
LEMMA NextInv == Inv /\ [Next]_vars => Inv'
<1> SUFFICES ASSUME Inv, [Next]_vars
             PROVE  Inv'
  OBVIOUS
<1> USE RequesterAssumption, BooleanValues
    DEF Inv, TypeOK, LookingUp, Opening, Opened, Sending, CloseNotLost,
        ConnStates, Tasks, Phases, Statuses
<1>1. CASE ClientRequest
  BY <1>1, PostBounds
  DEF ClientRequest, Quiet, Dirty, LookupResults, RequestAccepted, Post
<1>2. CASE ClientRefused
  BY <1>2 DEF ClientRefused, RequestDirty
<1>3. CASE DnsFound
  BY <1>3, PostBounds DEF DnsFound, Post
<1>4. CASE DnsNotFound
  BY <1>4 DEF DnsNotFound
<1>5. CASE Task
  <2>1. CASE TaskOpen
    BY <2>1 DEF TaskOpen, Dirty
  <2>2. CASE TaskSend
    BY <2>2 DEF TaskSend
  <2>3. CASE TaskSendTooBig
    BY <2>3, PostBounds DEF TaskSendTooBig, Post
  <2>4. CASE TaskClose
    BY <2>4 DEF TaskClose, Dirty
  <2> QED
    BY <1>5, <2>1, <2>2, <2>3, <2>4 DEF Task
<1>6. CASE Connected
  BY <1>6, PostBounds DEF Connected, Post
<1>7. CASE Disconnected
  BY <1>7 DEF Disconnected, ConnectionGone
<1>8. CASE Reconnect
  BY <1>8 DEF Reconnect, ConnectionGone
<1>9. CASE Receive
  <2>1. CASE ReceivePart
    BY <2>1 DEF ReceivePart, Packet
  <2>2. CASE ReceiveHeaders
    BY <2>2 DEF ReceiveHeaders, Packet
  <2>3. CASE ReceiveEnd
    BY <2>3, PostBounds DEF ReceiveEnd, Packet, Post
  <2> QED
    BY <1>9, <2>1, <2>2, <2>3 DEF Receive
<1>10. CASE TimeoutFires
  BY <1>10, PostBounds DEF TimeoutFires, Post
<1>11. CASE UNCHANGED vars
  BY <1>11 DEF vars
<1> QED
  BY <1>1, <1>2, <1>3, <1>4, <1>5, <1>6, <1>7, <1>8, <1>9, <1>10, <1>11
  DEF Next

LEMMA Invariance == Spec => []Inv
<1>1. Init => Inv
  BY InitInv
<1>2. Inv /\ [Next]_vars => Inv'
  BY NextInv
<1> QED
  BY <1>1, <1>2, PTL DEF Spec

-----------------------------------------------------------------------------
(* The shared state keeps its types, whatever the queue's length: posts    *)
(* never overflow it.                                                      *)
THEOREM TypeCorrect == Spec => []TypeOK
<1>1. Inv => TypeOK
  BY DEF Inv
<1> QED
  BY <1>1, Invariance, PTL

(* requester_Task opens a connection only for the request whose lookup     *)
(* posted the event it runs.                                               *)
THEOREM OpensOnlyResolvedHolds == Spec => []OpensOnlyResolved
<1>1. Inv => OpensOnlyResolved
  BY RequesterAssumption DEF Inv, TypeOK, LookingUp, Opening, OpensOnlyResolved
<1> QED
  BY <1>1, Invariance, PTL

(* A decision of the parser, of the timeout or of a request that does not  *)
(* fit its buffer to close the connection is never lost, not even to a     *)
(* full queue.                                                             *)
THEOREM CloseNotLostHolds == Spec => []CloseNotLost
<1>1. Inv => CloseNotLost
  BY DEF Inv
<1> QED
  BY <1>1, Invariance, PTL

(* The request is written once per connection and before the response.     *)
THEOREM SendsBeforeReceivingHolds == Spec => []SendsBeforeReceiving
<1>1. Inv => SendsBeforeReceiving
  BY DEF Inv, Sending, SendsBeforeReceiving
<1> QED
  BY <1>1, Invariance, PTL

(* Only request() takes the response parser back.                          *)
THEOREM PhaseOnlyAdvancesHolds == Spec => PhaseOnlyAdvances
<1> DEFINE Advances == \/ phase' = phase
                       \/ phase = "HEADERS"
                       \/ phase = "BODY" /\ phase' = "NOOP"
                       \/ ClientRequest
<1>1. ASSUME Inv, Next
      PROVE  Advances
  <2>1. CASE Receive
    BY <1>1, <2>1
    DEF Inv, TypeOK, Phases, Receive, ReceivePart, ReceiveHeaders, ReceiveEnd
  <2>2. CASE \/ ClientRefused \/ DnsFound \/ DnsNotFound \/ Task
            \/ Connected \/ Disconnected \/ Reconnect \/ TimeoutFires
    BY <2>2
    DEF ClientRefused, RequestDirty, DnsFound, DnsNotFound, Task, TaskOpen,
        TaskSend, TaskSendTooBig, TaskClose, Connected, Disconnected,
        Reconnect, ConnectionGone, TimeoutFires
  <2> QED
    BY <1>1, <2>1, <2>2 DEF Next
<1>2. Inv /\ [Next]_vars => [Advances]_vars
  BY <1>1
<1> QED
  BY <1>2, Invariance, PTL DEF Spec, PhaseOnlyAdvances

-----------------------------------------------------------------------------
(* THE REQUESTER, DRIVEN BY THE TRACKER                                    *)

(* The request timer calls request() once or not at all.                   *)
LEMMA TimerCallsRequest ==
  ASSUME RequestTimer
  PROVE  \/ \E dns \in LookupResults : RequestAccepted(dns)
         \/ RequestDirty
         \/ UNCHANGED vars
<1>1. Started \/ BadName => \E dns \in LookupResults : RequestAccepted(dns)
  BY DEF Started, BadName, LookupResults
<1>2. TimerLogin \/ TimerLoginApi \/ TimerMembers => Started \/ BadName \/ RequestDirty
  BY DEF TimerLogin, TimerLoginApi, TimerMembers
<1>3. TimerNoToken \/ TimerDoNothing => UNCHANGED vars
  BY DEF TimerNoToken, TimerDoNothing
<1> QED
  BY <1>1, <1>2, <1>3 DEF RequestTimer, TimerRequests

(* The requester's own types, and that no close is lost, do not depend on  *)
(* when the tracker calls request().                                       *)
LEMMA RequesterDriven ==
  ASSUME TypeOK, CloseNotLost, [TrackerNext]_allVars
  PROVE  TypeOK' /\ CloseNotLost'
<1> USE RequesterAssumption, BooleanValues
    DEF TypeOK, CloseNotLost, ConnStates, Tasks, Phases, Statuses
<1>1. CASE DnsFound
  BY <1>1, PostBounds DEF DnsFound, Post
<1>2. CASE DnsNotFound
  BY <1>2 DEF DnsNotFound
<1>3. CASE Task
  <2>1. CASE TaskOpen
    BY <2>1 DEF TaskOpen, Dirty
  <2>2. CASE TaskSend
    BY <2>2 DEF TaskSend
  <2>3. CASE TaskSendTooBig
    BY <2>3, PostBounds DEF TaskSendTooBig, Post
  <2>4. CASE TaskClose
    BY <2>4 DEF TaskClose, Dirty
  <2> QED
    BY <1>3, <2>1, <2>2, <2>3, <2>4 DEF Task
<1>4. CASE Connected
  BY <1>4, PostBounds DEF Connected, Post
<1>5. CASE Disconnected \/ Reconnect
  BY <1>5 DEF Disconnected, Reconnect, ConnectionGone
<1>6. CASE TimeoutFires
  BY <1>6, PostBounds DEF TimeoutFires, Post
<1>7. CASE ReceivePart \/ ReceiveHeaders
  BY <1>7 DEF ReceivePart, ReceiveHeaders, Packet
<1>8. CASE ReceiveEnd
  BY <1>8, PostBounds DEF ReceiveEnd, Packet, Post
<1>9. CASE \E dns \in LookupResults : RequestAccepted(dns)
  BY <1>9, PostBounds DEF RequestAccepted, LookupResults, Post
<1>10. CASE RequestDirty
  BY <1>10 DEF RequestDirty
<1>11. CASE UNCHANGED vars
  BY <1>11 DEF vars
<1>12. Environment => UNCHANGED vars
  BY DEF Environment, GotIp, LinkLost, StartAp, SetCredentials
<1>13. UNCHANGED allVars => UNCHANGED vars
  BY DEF allVars
<1> QED
  BY <1>1, <1>2, <1>3, <1>4, <1>5, <1>6, <1>7, <1>8, <1>9, <1>10, <1>11,
     <1>12, <1>13, TimerCallsRequest
  DEF TrackerNext, TrackerStatus, TrackerReceive

-----------------------------------------------------------------------------
(* THE TRACKER, WHATEVER DISTURBS IT                                       *)

States == {"eInit", "eGetToken", "eLogin", "eMembers", "eMembersToken",
           "eReAuth", "eDoNothing"}

TrackerTypeOK ==
  /\ geState \in States
  /\ reqTimer \in Nat
  /\ timeoutFirst \in BOOLEAN
  /\ eventsFirst \in Nat
  /\ page \in {"NONE", "LOGIN", "LOGINAPI", "MEMBERS"}
  /\ match \in 0..2
  /\ token \in {"NULL", "STATIC", "HEAP"}
  /\ cookies \in {"NONE", "VISITOR", "MEMBER"}
  /\ dangling \subseteq {"JAR", "POST_DATA"}
  /\ led \in {"POWERON", "AP", "READY", "HTTP_CONN", "ACTIVE", "ERROR", "LOGIN_ERR"}
  /\ gbReady \in BOOLEAN
  /\ crashed \in BOOLEAN
  /\ flaps \in 0..MaxFlaps
  /\ sets \in 0..MaxSets

(* The timer, however it is set, keeps its types.                          *)
TimerTypeOK ==
  /\ reqTimer \in Nat
  /\ timeoutFirst \in BOOLEAN
  /\ eventsFirst \in Nat

LEMMA ArmTyped ==
  ASSUME TypeOK', NEW delay \in Nat, Arm(delay)
  PROVE  TimerTypeOK'
<1>1. posted' \in Nat
  BY RequesterAssumption DEF TypeOK
<1>2. timeoutFirst' \in BOOLEAN
  BY BooleanValues DEF Arm
<1> QED
  BY <1>1, <1>2 DEF Arm, TimerTypeOK

LEMMA KeptTyped ==
  ASSUME TypeOK, TypeOK', TimerTypeOK, KeepTimer \/ KeepTimerOnPacket \/ Disarm
  PROVE  TimerTypeOK'
<1>1. posted \in Nat /\ posted' \in Nat
  BY RequesterAssumption DEF TypeOK
<1>2. timeoutFirst' \in BOOLEAN
  BY BooleanValues DEF KeepTimer, KeepTimerOnPacket, Disarm
<1>3. eventsFirst' \in Nat
  BY <1>1 DEF KeepTimer, KeepTimerOnPacket, Disarm, TimerTypeOK
<1> QED
  BY <1>2, <1>3 DEF KeepTimer, KeepTimerOnPacket, Disarm, TimerTypeOK

LEMMA TrackerTyped ==
  ASSUME TypeOK, TypeOK', TrackerTypeOK, [TrackerNext]_allVars
  PROVE  TrackerTypeOK'
<1>0. TimerTypeOK
  BY DEF TrackerTypeOK, TimerTypeOK
<1> USE <1>0, ArmTyped, KeptTyped, TrackerAssumption, BooleanValues DEF States
<1>1. CASE RequestStatus
  <2>1. TimerTypeOK'
    BY <1>1 DEF RequestStatus, StatusFail, StatusClosed, StatusIgnored
  <2> QED
    BY <1>1, <2>1
    DEF TrackerTypeOK, TimerTypeOK, RequestStatus, StatusFail, StatusClosed,
        StatusIgnored
<1>2. CASE NoCallback
  BY <1>2 DEF NoCallback, TrackerTypeOK, TimerTypeOK
<1>3. CASE Headers
  <2>1. PICK code \in Codes :
          LoginHeaders(code) \/ LoginApiHeaders(code) \/ MembersHeaders(code)
    BY <1>3 DEF Headers
  <2>2. TimerTypeOK'
    BY <2>1 DEF LoginHeaders, LoginApiHeaders, MembersHeaders
  <2> QED
    BY <1>3, <2>1, <2>2
    DEF TrackerTypeOK, TimerTypeOK, Headers, LoginHeaders, LoginApiHeaders,
        MembersHeaders, GainCookies
<1>4. CASE Body
  <2>1. TimerTypeOK'
    BY <1>4 DEF Body
  <2> QED
    BY <1>4, <2>1
    DEF TrackerTypeOK, TimerTypeOK, Body, ScanNothing, ScanToken, ScanNull,
        ScanPart, ScanEnd
<1>5. CASE RequestTimer
  <2>1. TimerTypeOK'
    BY <1>5 DEF RequestTimer, TimerRequests, TimerNoToken, TimerDoNothing
  <2>2. UNCHANGED <<match, token, gbReady, crashed, flaps, sets>>
    BY <1>5 DEF RequestTimer
  <2>3. CASE TimerLogin
    BY <2>1, <2>2, <2>3 DEF TrackerTypeOK, TimerTypeOK, TimerLogin
  <2>4. CASE TimerLoginApi
    BY <2>1, <2>2, <2>4 DEF TrackerTypeOK, TimerTypeOK, TimerLoginApi
  <2>5. CASE TimerMembers
    BY <2>1, <2>2, <2>5 DEF TrackerTypeOK, TimerTypeOK, TimerMembers
  <2>6. CASE TimerNoToken \/ TimerDoNothing
    BY <2>1, <2>2, <2>6
    DEF TrackerTypeOK, TimerTypeOK, TimerNoToken, TimerDoNothing
  <2> QED
    BY <1>5, <2>3, <2>4, <2>5, <2>6 DEF RequestTimer, TimerRequests
<1>6. CASE Environment
  <2>1. TimerTypeOK'
    BY <1>6 DEF Environment, GotIp, LinkLost, StartAp, SetCredentials
  <2>2. CASE GotIp
    BY <2>1, <2>2 DEF TrackerTypeOK, TimerTypeOK, GotIp
  <2>3. CASE LinkLost
    BY <2>1, <2>3 DEF TrackerTypeOK, TimerTypeOK, LinkLost
  <2>4. CASE StartAp
    BY <2>1, <2>4 DEF TrackerTypeOK, TimerTypeOK, StartAp
  <2>5. CASE SetCredentials
    BY <2>1, <2>5 DEF TrackerTypeOK, TimerTypeOK, SetCredentials
  <2> QED
    BY <1>6, <2>2, <2>3, <2>4, <2>5 DEF Environment
<1>7. CASE UNCHANGED allVars
  BY <1>7 DEF allVars, trackerVars, TrackerTypeOK
<1> QED
  BY <1>1, <1>2, <1>3, <1>4, <1>5, <1>6, <1>7
  DEF TrackerNext, TrackerStatus, TrackerReceive

(* A request is started only while no connection is in use, and what the   *)
(* requester otherwise does to its parser while a status is reported is    *)
(* nothing.                                                                *)
LEMMA StatusKeepsPhase == TrackerStatus => UNCHANGED phase
BY DEF TrackerStatus, DnsFound, DnsNotFound, Task, TaskOpen, TaskSend,
       TaskSendTooBig, TaskClose, Connected, Disconnected, Reconnect,
       ConnectionGone, TimeoutFires

LEMMA StartedResets ==
  ASSUME Started \/ BadName
  PROVE  /\ ~Dirty
         /\ conn' = "NONE"
         /\ phase' = "HEADERS"
<1>1. \E dns : RequestAccepted(dns)
  BY DEF Started, BadName
<1> QED
  BY <1>1 DEF RequestAccepted

LEMMA RefusedKeeps ==
  RequestDirty => Dirty /\ UNCHANGED <<conn, eStatus, phase, posted, timeoutArmed,
                                       lookups, disconnecting, packets>>
BY DEF RequestDirty

(* Where pch_token points.  The page that was searched for the token has   *)
(* been left when the tracker is about to log in, and no page but the      *)
(* login's response frees it.                                              *)
LoginDataReady ==
  geState = "eLogin" =>
    /\ token = "HEAP"
    /\ match = 2
    /\ phase # "HEADERS" \/ page = "LOGINAPI"

LoginDataFreed == page = "LOGINAPI" /\ phase = "HEADERS" => token # "STATIC"

CollectsOnHeap == match = 1 => token # "STATIC"

TokenInv == LoginDataReady /\ LoginDataFreed /\ CollectsOnHeap

(* The tracker's callbacks and its timer keep track of what is on the heap. *)
LEMMA TokenStep ==
  ASSUME TypeOK, TrackerTypeOK, TokenInv, [TrackerNext]_allVars
  PROVE  TokenInv'
<1> USE DEF TokenInv, LoginDataReady, LoginDataFreed, CollectsOnHeap
<1>1. CASE TrackerStatus
  <2>1. UNCHANGED <<phase, page, match, token>>
    BY <1>1, StatusKeepsPhase DEF TrackerStatus, RequestStatus
  <2>2. geState' \in {geState, "eInit", "eMembers"}
    BY <1>1
    DEF TrackerStatus, RequestStatus, StatusFail, StatusClosed, StatusIgnored
  <2> QED
    BY <2>1, <2>2
<1>2. CASE ReceiveHeaders /\ Headers
  <2>1. phase = "HEADERS" /\ phase' = "BODY"
    BY <1>2 DEF ReceiveHeaders
  <2>2. PICK code \in Codes :
          LoginHeaders(code) \/ LoginApiHeaders(code) \/ MembersHeaders(code)
    BY <1>2 DEF Headers
  <2>3. UNCHANGED page
    BY <1>2 DEF Headers
  <2>4. CASE LoginHeaders(code)
    BY <2>1, <2>3, <2>4 DEF LoginHeaders
  <2>5. CASE LoginApiHeaders(code)
    BY <2>1, <2>3, <2>5 DEF LoginApiHeaders
  <2>6. CASE MembersHeaders(code)
    BY <2>1, <2>3, <2>6 DEF MembersHeaders
  <2> QED
    BY <2>2, <2>4, <2>5, <2>6
<1>3. CASE (ReceivePart \/ ReceiveEnd) /\ (NoCallback \/ Body)
  <2>1. phase' \in {phase, "NOOP"}
    BY <1>3 DEF ReceivePart, ReceiveEnd
  <2>2. CASE NoCallback
    BY <2>1, <2>2 DEF NoCallback
  <2>3. CASE Body
    <3>1. phase = "BODY" /\ page' = page
      BY <2>3 DEF Body
    <3>2. CASE ScanNothing \/ ScanToken \/ ScanNull \/ ScanPart
      BY <2>1, <3>1, <3>2 DEF ScanNothing, ScanToken, ScanNull, ScanPart
    <3>3. CASE ScanEnd
      BY <2>1, <3>1, <3>3 DEF ScanEnd
    <3> QED
      BY <2>3, <3>2, <3>3 DEF Body
  <2> QED
    BY <1>3, <2>2, <2>3
<1>4. CASE RequestTimer
  <2>1. UNCHANGED <<match, token>>
    BY <1>4 DEF RequestTimer
  <2>2. CASE TimerLogin \/ TimerMembers
    <3>1. geState' # "eLogin"
      BY <2>2 DEF TimerLogin, TimerMembers
    <3>2. page' = "LOGINAPI" => page = "LOGINAPI" /\ phase' = phase
      BY <2>2, RefusedKeeps DEF TimerLogin, TimerMembers
    <3> QED
      BY <2>1, <3>1, <3>2
  <2>3. CASE TimerLoginApi
    <3>1. token = "HEAP" /\ match = 2 /\ geState' = geState
      BY <2>3 DEF TimerLoginApi
    <3>2. \/ page' = "LOGINAPI"
          \/ page' = page /\ phase' = phase
      BY <2>3, RefusedKeeps DEF TimerLoginApi
    <3> QED
      BY <2>1, <2>3, <3>1, <3>2 DEF TimerLoginApi
  <2>4. CASE TimerNoToken \/ TimerDoNothing
    BY <2>1, <2>4 DEF TimerNoToken, TimerDoNothing, vars
  <2> QED
    BY <1>4, <2>2, <2>3, <2>4 DEF RequestTimer, TimerRequests
<1>5. CASE Environment
  <2>1. UNCHANGED <<phase, page, match, token>>
    BY <1>5 DEF Environment, GotIp, LinkLost, StartAp, SetCredentials, vars
  <2>2. geState' \in {geState, "eInit"}
    BY <1>5 DEF Environment, GotIp, LinkLost, StartAp, SetCredentials
  <2> QED
    BY <2>1, <2>2
<1>6. CASE UNCHANGED allVars
  BY <1>6 DEF allVars, trackerVars, vars
<1> QED
  BY <1>1, <1>2, <1>3, <1>4, <1>5, <1>6 DEF TrackerNext, TrackerReceive

(* A connection that has ended is followed by another: the request timer   *)
(* runs, unless a login was refused.                                       *)
Rearmed == conn = "CLOSE" /\ gbReady => reqTimer # 0 \/ geState = "eDoNothing"

(* Every callback that ends a connection, and the timer each time it       *)
(* expires, arms it.                                                       *)
LEMMA RearmedStep ==
  ASSUME TypeOK, TrackerTypeOK, Rearmed, [TrackerNext]_allVars
  PROVE  Rearmed'
<1> USE DEF Rearmed
<1>1. CASE TrackerStatus
  <2>1. UNCHANGED gbReady
    BY <1>1 DEF TrackerStatus, RequestStatus
  <2>2. CASE conn' = conn
    <3>1. conn = "CLOSE" => geState' = geState \/ reqTimer' # 0
      BY <1>1
      DEF TrackerStatus, RequestStatus, StatusFail, StatusClosed, StatusIgnored, Arm
    <3> QED
      BY <1>1, <2>1, <2>2, <3>1
      DEF TrackerStatus, RequestStatus, StatusFail, StatusClosed, StatusIgnored,
          Arm, KeepTimer
  <2>3. CASE conn' = "CLOSE" /\ conn # "CLOSE"
    <3>1. report' \in {"REQ_CONN_CLOSED", "REQ_CONN_FAIL"}
      BY <1>1, <2>3
      DEF TrackerStatus, DnsFound, DnsNotFound, Task, TaskOpen, TaskSend,
          TaskSendTooBig, TaskClose, Connected, Disconnected, Reconnect,
          TimeoutFires
    <3> QED
      BY <1>1, <3>1
      DEF TrackerStatus, RequestStatus, StatusFail, StatusClosed, StatusIgnored, Arm
  <2> QED
    BY <2>2, <2>3
<1>2. CASE TrackerReceive
  BY <1>2
  DEF TrackerReceive, ReceiveHeaders, ReceivePart, ReceiveEnd, Packet
<1>3. CASE RequestTimer
  <2>1. UNCHANGED gbReady
    BY <1>3 DEF RequestTimer
  <2>2. CASE TimerRequests
    <3>1. CASE Started \/ BadName
      BY <3>1, StartedResets
    <3>2. CASE RequestDirty
      BY <3>2, RefusedKeeps DEF Dirty
    <3> QED
      BY <2>2, <3>1, <3>2 DEF TimerRequests, TimerLogin, TimerLoginApi, TimerMembers
  <2>3. CASE TimerNoToken
    BY <2>3 DEF TimerNoToken, Arm
  <2>4. CASE TimerDoNothing
    BY <2>4 DEF TimerDoNothing
  <2> QED
    BY <1>3, <2>2, <2>3, <2>4 DEF RequestTimer
<1>4. CASE Environment
  <2>1. CASE GotIp
    BY <2>1 DEF GotIp, Arm
  <2>2. CASE LinkLost \/ StartAp
    BY <2>2 DEF LinkLost, StartAp
  <2>3. CASE SetCredentials
    BY <2>3 DEF SetCredentials, Arm, vars
  <2> QED
    BY <1>4, <2>1, <2>2, <2>3 DEF Environment
<1>5. CASE UNCHANGED allVars
  BY <1>5 DEF allVars, trackerVars, vars
<1> QED
  BY <1>1, <1>2, <1>3, <1>4, <1>5 DEF TrackerNext

AnyInv ==
  /\ TypeOK
  /\ TrackerTypeOK
  /\ CloseNotLost
  /\ TokenInv
  /\ Rearmed

LEMMA AnyInit == TrackerInit => AnyInv
<1> SUFFICES ASSUME TrackerInit
             PROVE  AnyInv
  OBVIOUS
<1>1. TypeOK /\ CloseNotLost
  BY InitInv DEF TrackerInit, Inv
<1>2. TrackerTypeOK
  BY TrackerAssumption, BooleanValues DEF TrackerInit, TrackerTypeOK, States
<1>3. TokenInv /\ Rearmed
  BY DEF TrackerInit, Init, TokenInv, LoginDataReady, LoginDataFreed,
         CollectsOnHeap, Rearmed
<1> QED
  BY <1>1, <1>2, <1>3 DEF AnyInv

LEMMA AnyStep == AnyInv /\ [TrackerNext]_allVars => AnyInv'
  BY RequesterDriven, TrackerTyped, TokenStep, RearmedStep DEF AnyInv

LEMMA AnyInvariance == TrackerSpec => []AnyInv
  BY AnyInit, AnyStep, PTL DEF TrackerSpec

(* Every reachable state of the tracker and its requester is well formed.  *)
THEOREM TrackerTypeCorrect == TrackerSpec => [](TypeOK /\ TrackerTypeOK)
<1>1. AnyInv => TypeOK /\ TrackerTypeOK
  BY DEF AnyInv
<1> QED
  BY <1>1, AnyInvariance, PTL

(* A decision to close is not lost either when the wifi link is lost or the *)
(* user sets an address meanwhile, whenever the tracker starts its next    *)
(* request.                                                                *)
THEOREM TrackerCloseNotLost == TrackerSpec => []CloseNotLost
<1>1. AnyInv => CloseNotLost
  BY DEF AnyInv
<1> QED
  BY <1>1, AnyInvariance, PTL

(* pch_token never points to the constant where it is reallocated or freed, *)
(* whatever the server answers and whenever the link is lost.              *)
THEOREM FreesOnlyHeapHolds == TrackerSpec => []FreesOnlyHeap
<1>1. AnyInv => FreesOnlyHeap
  BY DEF AnyInv, TokenInv, LoginDataFreed, CollectsOnHeap, FreesOnlyHeap
<1> QED
  BY <1>1, AnyInvariance, PTL

(* However a connection ends, something will start the next request, unless *)
(* the login was refused or the name was not resolved.                     *)
THEOREM NotStrandedHolds == TrackerSpec => []NotStranded
<1>1. AnyInv => NotStranded
  BY DEF AnyInv, TypeOK, ConnStates, Rearmed, NotStranded, Stranded, Quiet, Dirty
<1> QED
  BY <1>1, AnyInvariance, PTL

-----------------------------------------------------------------------------
(* THE TRACKER, WHEN THE LINK STAYS UP AND NOBODY SETS CREDENTIALS         *)
(*                                                                         *)
(* A link that is lost or an address that is set in the middle of a        *)
(* request arms the request timer while a connection is open: the results  *)
(* below need that this does not happen.                                   *)

Undisturbed == MaxFlaps = 0 /\ MaxSets = 0

LEMMA OnlyGotIp ==
  ASSUME Undisturbed, TrackerTypeOK, Environment
  PROVE  GotIp
BY DEF Undisturbed, TrackerTypeOK, Environment, LinkLost, StartAp, SetCredentials

(* While the timer runs after a connection has ended, whatever that        *)
(* connection left behind comes before it expires.                         *)
ClosedWaits ==
  conn = "CLOSE" /\ reqTimer # 0 /\ geState # "eDoNothing" =>
    /\ timeoutArmed => timeoutFirst
    /\ posted <= eventsFirst

(* No timer runs while a request has not got as far as a connection.       *)
FreshWaits == conn = "NONE" /\ reqTimer # 0 => Quiet

(* Nothing happens before the station has an address.                      *)
Booting == ~gbReady => conn = "NONE" /\ Quiet /\ reqTimer = 0

(* No timer runs while the request has to be written or its response's     *)
(* cookies have to be read, and what is lent for that is there.            *)
Reads ==
  (conn = "NONE" /\ ~Quiet) \/ WillRead =>
    /\ reqTimer = 0
    /\ dangling = {}
    /\ page = "LOGINAPI" => token = "HEAP"

CalmInv ==
  /\ AnyInv
  /\ Inv
  /\ ClosedWaits
  /\ FreshWaits
  /\ Booting
  /\ Reads

(* When the timer calls request(), and it is not refused, the last request *)
(* has left nothing behind.                                                *)
LEMMA QuietWhenDue ==
  ASSUME CalmInv, RequestTimerDue, geState # "eDoNothing", ~Dirty
  PROVE  Quiet
<1>1. conn \in {"NONE", "CLOSE"}
  BY DEF Dirty
<1>2. CASE conn = "NONE"
  BY <1>2 DEF CalmInv, FreshWaits, RequestTimerDue
<1>3. CASE conn = "CLOSE"
  <2>1. ~timeoutArmed /\ posted <= 0
    BY <1>3 DEF CalmInv, ClosedWaits, RequestTimerDue
  <2>2. posted \in Nat /\ lookups \in Nat
    BY RequesterAssumption DEF CalmInv, Inv, TypeOK
  <2>3. ~(lookups > 0)
    BY <1>3 DEF CalmInv, Inv, LookingUp
  <2> QED
    BY <2>1, <2>2, <2>3 DEF Quiet
<1> QED
  BY <1>1, <1>2, <1>3

(* So what the tracker does to the requester is what its client may do.    *)
LEMMA ClientStep ==
  ASSUME Undisturbed, CalmInv, [TrackerNext]_allVars
  PROVE  [Next]_vars
<1>1. CASE TrackerStatus
  BY <1>1 DEF TrackerStatus, Next
<1>2. CASE TrackerReceive
  BY <1>2 DEF TrackerReceive, Next, Receive
<1>3. CASE RequestTimer
  <2>1. CASE \E dns \in LookupResults : RequestAccepted(dns)
    <3>1. CASE TimerNoToken \/ TimerDoNothing
      BY <3>1 DEF TimerNoToken, TimerDoNothing
    <3>2. CASE TimerRequests
      <4>1. geState # "eDoNothing"
        BY <3>2 DEF TimerRequests, TimerLogin, TimerLoginApi, TimerMembers
      <4>2. ~Dirty
        BY <2>1 DEF RequestAccepted
      <4>3. Quiet
        BY <1>3, <4>1, <4>2, QuietWhenDue DEF RequestTimer
      <4> QED
        BY <2>1, <4>3 DEF ClientRequest, Next
    <3> QED
      BY <1>3, <3>1, <3>2 DEF RequestTimer
  <2> QED
    BY <1>3, <2>1, TimerCallsRequest DEF Next, ClientRefused
<1>4. CASE Environment
  BY <1>4, OnlyGotIp DEF CalmInv, AnyInv, GotIp
<1>5. CASE UNCHANGED allVars
  BY <1>5 DEF allVars
<1> QED
  BY <1>1, <1>2, <1>3, <1>4, <1>5 DEF TrackerNext

LEMMA BootingStep ==
  ASSUME Undisturbed, CalmInv, [TrackerNext]_allVars
  PROVE  Booting'
<1> SUFFICES ASSUME ~gbReady'
             PROVE  (conn = "NONE" /\ Quiet /\ reqTimer = 0)'
  BY DEF Booting
<1>1. CASE ~gbReady
  <2>1. conn = "NONE" /\ posted = 0 /\ lookups = 0 /\ ~timeoutArmed /\ reqTimer = 0
    BY <1>1 DEF CalmInv, Booting, Quiet
  <2>2. ~TrackerStatus /\ ~TrackerReceive /\ ~RequestTimer
    BY <2>1
    DEF TrackerStatus, DnsFound, DnsNotFound, Task, TaskOpen, TaskSend,
        TaskSendTooBig, TaskClose, Connected, Disconnected, Reconnect,
        TimeoutFires, TrackerReceive, ReceiveHeaders, ReceivePart, ReceiveEnd,
        Packet, RequestTimer, RequestTimerDue
  <2>3. ~Environment
    BY OnlyGotIp DEF CalmInv, AnyInv, GotIp
  <2>4. UNCHANGED allVars
    BY <2>2, <2>3 DEF TrackerNext
  <2> QED
    BY <2>1, <2>4 DEF allVars, trackerVars, vars, Quiet, Dirty
<1>2. CASE gbReady
  <2>1. CASE TrackerStatus
    BY <1>2, <2>1 DEF TrackerStatus, RequestStatus
  <2>2. CASE TrackerReceive
    BY <1>2, <2>2 DEF TrackerReceive, Headers, NoCallback, Body
  <2>3. CASE RequestTimer
    BY <1>2, <2>3 DEF RequestTimer
  <2>4. CASE Environment
    BY <1>2, <2>4, OnlyGotIp DEF CalmInv, AnyInv, GotIp
  <2>5. CASE UNCHANGED allVars
    BY <1>2, <2>5 DEF allVars, trackerVars
  <2> QED
    BY <2>1, <2>2, <2>3, <2>4, <2>5 DEF TrackerNext
<1> QED
  BY <1>1, <1>2 DEF CalmInv, AnyInv, TrackerTypeOK

(* What a status does to the request timer.                                *)
LEMMA StatusTimer ==
  ASSUME RequestStatus
  PROVE  /\ UNCHANGED <<page, token, dangling, gbReady>>
         /\ report' \notin {"REQ_CONN_FAIL", "REQ_CONN_CLOSED"} =>
              KeepTimer /\ UNCHANGED geState
         /\ report' = "REQ_CONN_FAIL" => geState' = "eInit" /\ Arm(20000)
         /\ report' = "REQ_CONN_CLOSED" =>
              \/ geState' = "eDoNothing"
              \/ Arm(60000)
              \/ Arm(500)
BY DEF RequestStatus, StatusFail, StatusClosed, StatusIgnored

(* Events that run while the timer waits are events it waits for.          *)
LEMMA ClosedWaitsStep ==
  ASSUME Undisturbed, CalmInv, TypeOK', [TrackerNext]_allVars
  PROVE  ClosedWaits'
<1> SUFFICES ASSUME conn' = "CLOSE", reqTimer' # 0, geState' # "eDoNothing"
             PROVE  (timeoutArmed' => timeoutFirst') /\ posted' <= eventsFirst'
  BY DEF ClosedWaits
<1>0. /\ posted \in Nat
      /\ posted' \in Nat
      /\ posted <= QueueLen
      /\ QueueLen \in Nat \ {0}
      /\ timeoutArmed \in BOOLEAN
      /\ timeoutArmed' \in BOOLEAN
      /\ timeoutFirst \in BOOLEAN
      /\ eventsFirst \in Nat
  BY RequesterAssumption DEF CalmInv, AnyInv, TypeOK, TrackerTypeOK
<1>a. ASSUME NEW delay \in Nat, delay >= 500, Arm(delay)
      PROVE  (timeoutArmed' => timeoutFirst') /\ posted' <= eventsFirst'
  BY <1>0, <1>a DEF Arm
<1>1. CASE TrackerStatus
  <2>1. CASE report' \in {"REQ_CONN_FAIL", "REQ_CONN_CLOSED"}
    BY <1>1, <1>a, <2>1, StatusTimer DEF TrackerStatus
  <2>2. CASE report' \notin {"REQ_CONN_FAIL", "REQ_CONN_CLOSED"}
    <3>1. KeepTimer /\ geState' = geState
      BY <1>1, <2>2, StatusTimer DEF TrackerStatus
    <3>2. reqTimer' = reqTimer
      BY <3>1 DEF KeepTimer
    <3>3. conn = "CLOSE"
      BY <1>1, <2>2
      DEF TrackerStatus, DnsFound, DnsNotFound, Task, TaskOpen, TaskSend,
          TaskSendTooBig, TaskClose, Connected, Disconnected, Reconnect,
          TimeoutFires
    <3>4. (timeoutArmed => timeoutFirst) /\ posted <= eventsFirst
      BY <3>1, <3>2, <3>3 DEF CalmInv, ClosedWaits
    <3>5. ~(lookups > 0) /\ (posted > 0 => eStatus # "OPEN_CONNECTION")
      BY <3>3 DEF CalmInv, Inv, LookingUp, Opening
    <3>6. CASE TimeoutFires
      BY <1>0, <3>1, <3>4, <3>6 DEF TimeoutFires, KeepTimer
    <3>7. CASE TaskSend
      BY <2>2, <3>3, <3>7 DEF TaskSend
    <3>8. CASE TaskSendTooBig
      <4>1. posted' = posted /\ timeoutArmed' = timeoutArmed
        BY <1>0, <3>8 DEF TaskSendTooBig, Post
      <4> QED
        BY <1>0, <3>1, <3>4, <4>1 DEF KeepTimer
    <3>9. CASE TaskClose
      <4>1. posted' = posted - 1 /\ ~timeoutArmed' /\ posted > 0
        BY <3>9 DEF TaskClose
      <4> QED
        BY <1>0, <3>1, <3>4, <4>1 DEF KeepTimer
    <3>10. ~DnsFound /\ ~DnsNotFound /\ ~TaskOpen
      BY <3>5 DEF DnsFound, DnsNotFound, TaskOpen
    <3>11. ~Connected /\ ~Disconnected /\ ~Reconnect
      BY <3>3 DEF Connected, Disconnected, Reconnect
    <3> QED
      BY <1>1, <3>6, <3>7, <3>8, <3>9, <3>10, <3>11 DEF TrackerStatus, Task
  <2> QED
    BY <2>1, <2>2
<1>2. CASE TrackerReceive
  BY <1>2 DEF TrackerReceive, ReceiveHeaders, ReceivePart, ReceiveEnd, Packet
<1>3. CASE RequestTimer
  <2>1. CASE TimerRequests
    BY <2>1 DEF TimerRequests, Disarm
  <2>2. CASE TimerNoToken
    BY <1>a, <2>2 DEF TimerNoToken
  <2>3. CASE TimerDoNothing
    BY <2>3 DEF TimerDoNothing, Disarm
  <2> QED
    BY <1>3, <2>1, <2>2, <2>3 DEF RequestTimer
<1>4. CASE Environment
  BY <1>4, OnlyGotIp DEF CalmInv, AnyInv, Booting, GotIp, vars
<1>5. CASE UNCHANGED allVars
  BY <1>5 DEF allVars, trackerVars, vars, CalmInv, ClosedWaits
<1> QED
  BY <1>1, <1>2, <1>3, <1>4, <1>5 DEF TrackerNext

(* A status that arms the timer before there is a connection is the last   *)
(* the request has to report.                                              *)
LEMMA FreshWaitsStep ==
  ASSUME Undisturbed, CalmInv, [TrackerNext]_allVars
  PROVE  FreshWaits'
<1> SUFFICES ASSUME conn' = "NONE", reqTimer' # 0
             PROVE  Quiet'
  BY DEF FreshWaits
<1>a. ASSUME conn = "NONE"
      PROVE  /\ eStatus = "OPEN_CONNECTION"
             /\ ~timeoutArmed
             /\ posted > 0 => posted = 1 /\ lookups = 0
             /\ lookups \in Nat
             /\ posted \in Nat
  BY <1>a, RequesterAssumption DEF CalmInv, Inv, TypeOK, LookingUp, Opening, Opened
<1>1. CASE TrackerStatus
  <2>1. conn = "NONE"
    BY <1>1
    DEF TrackerStatus, DnsFound, DnsNotFound, Task, TaskOpen, TaskSend,
        TaskSendTooBig, TaskClose, Connected, Disconnected, Reconnect,
        ConnectionGone, TimeoutFires
  <2>2. CASE DnsFound \/ DnsNotFound
    <3>1. ~Quiet
      BY <1>a, <2>1, <2>2 DEF DnsFound, DnsNotFound, Quiet
    <3>2. reqTimer = 0
      BY <2>1, <3>1 DEF CalmInv, FreshWaits
    <3>3. KeepTimer
      BY <1>1, <2>2, StatusTimer DEF TrackerStatus, DnsFound, DnsNotFound
    <3> QED
      BY <3>2, <3>3 DEF KeepTimer
  <2>3. CASE TaskOpen
    BY <1>a, <2>1, <2>3 DEF TaskOpen, Quiet, Dirty
  <2>4. ~TimeoutFires /\ ~TaskSend /\ ~TaskSendTooBig /\ ~TaskClose
    BY <1>a, <2>1 DEF TimeoutFires, TaskSend, TaskSendTooBig, TaskClose
  <2>5. ~Connected /\ ~Disconnected /\ ~Reconnect
    BY <2>1 DEF Connected, Disconnected, Reconnect
  <2> QED
    BY <1>1, <2>2, <2>3, <2>4, <2>5 DEF TrackerStatus, Task
<1>2. CASE TrackerReceive
  BY <1>2 DEF TrackerReceive, ReceiveHeaders, ReceivePart, ReceiveEnd, Packet
<1>3. CASE RequestTimer
  <2>1. CASE TimerRequests
    BY <2>1 DEF TimerRequests, Disarm
  <2>2. CASE TimerNoToken
    BY <1>3, <2>2
    DEF RequestTimer, RequestTimerDue, TimerNoToken, vars, CalmInv, FreshWaits,
        Quiet, Dirty
  <2>3. CASE TimerDoNothing
    BY <2>3 DEF TimerDoNothing, Disarm
  <2> QED
    BY <1>3, <2>1, <2>2, <2>3 DEF RequestTimer
<1>4. CASE Environment
  BY <1>4, OnlyGotIp DEF CalmInv, AnyInv, Booting, GotIp, vars, Quiet, Dirty
<1>5. CASE UNCHANGED allVars
  BY <1>5 DEF allVars, trackerVars, vars, CalmInv, FreshWaits, Quiet, Dirty
<1> QED
  BY <1>1, <1>2, <1>3, <1>4, <1>5 DEF TrackerNext

(* What is lent stays where it is until it has been read.                  *)
LEMMA ReadsStep ==
  ASSUME Undisturbed, CalmInv, [TrackerNext]_allVars
  PROVE  Reads'
<1> DEFINE Lent == (conn = "NONE" /\ ~Quiet) \/ WillRead
           Kept == /\ reqTimer = 0
                   /\ dangling = {}
                   /\ page = "LOGINAPI" => token = "HEAP"
<1>0. Lent => Kept
  BY DEF CalmInv, Reads
<1> SUFFICES ASSUME Lent'
             PROVE  Kept'
  BY DEF Reads
<1>a. ASSUME Lent, UNCHANGED <<reqTimer, dangling, page, token>>
      PROVE  Kept'
  BY <1>0, <1>a
<1>b. /\ posted \in Nat
      /\ lookups \in Nat
      /\ packets \in Nat
  BY RequesterAssumption DEF CalmInv, AnyInv, TypeOK
<1>1. CASE TrackerStatus
  <2>1. report' # "REQ_CONN_CLOSED"
    BY <1>1
    DEF TrackerStatus, DnsFound, DnsNotFound, Task, TaskOpen, TaskSend,
        TaskSendTooBig, TaskClose, Connected, Disconnected, Reconnect,
        ConnectionGone, TimeoutFires, WillRead
  <2>2. CASE Lent
    <3>1. report' # "REQ_CONN_FAIL"
      <4>1. CASE TaskOpen
        <5>1. posted = 1 /\ lookups = 0 /\ conn = "NONE" /\ ~timeoutArmed
          BY <1>b, <4>1 DEF TaskOpen, CalmInv, Inv, Opening, LookingUp
        <5>2. CASE report' = "REQ_CONN_FAIL"
          <6>1. conn' = "NONE" /\ posted' = 0 /\ lookups' = 0 /\ ~timeoutArmed'
            BY <4>1, <5>1, <5>2 DEF TaskOpen
          <6> QED
            BY <6>1 DEF Quiet, Dirty, WillRead
        <5> QED
          BY <5>2
      <4>2. CASE TaskSend
        <5>1. posted = 1 /\ packets = 0 /\ conn \notin {"NONE", "WAIT"}
          BY <4>2 DEF TaskSend, CalmInv, Inv, Sending, Opened
        <5>2. CASE report' = "REQ_CONN_FAIL"
          <6>1. conn' = conn /\ posted' = 0 /\ packets' = 0
            BY <4>2, <5>1, <5>2 DEF TaskSend
          <6> QED
            BY <5>1, <6>1 DEF WillRead
        <5> QED
          BY <5>2
      <4>3. CASE Reconnect \/ Disconnected
        BY <4>3 DEF Reconnect, Disconnected, ConnectionGone, WillRead
      <4> QED
        BY <1>1, <4>1, <4>2, <4>3
        DEF TrackerStatus, DnsFound, DnsNotFound, Task, TaskSendTooBig,
            TaskClose, Connected, TimeoutFires
    <3>2. KeepTimer
      BY <1>1, <2>1, <3>1, StatusTimer DEF TrackerStatus
    <3>3. UNCHANGED <<reqTimer, dangling, page, token>>
      BY <1>1, <3>2, StatusTimer DEF TrackerStatus, KeepTimer
    <3> QED
      BY <1>a, <2>2, <3>3
  <2>3. CASE ~Lent
    <3>1. CASE DnsFound \/ DnsNotFound
      BY <1>b, <2>3, <3>1
      DEF DnsFound, DnsNotFound, CalmInv, Inv, LookingUp, Quiet
    <3>2. CASE TaskOpen
      BY <1>b, <2>3, <3>2 DEF TaskOpen, CalmInv, Inv, Opening, Quiet
    <3>3. CASE TaskSend
      BY <2>3, <3>3
      DEF TaskSend, CalmInv, Inv, Opened, WillRead
    <3>4. CASE TaskSendTooBig
      BY <2>3, <3>4
      DEF TaskSendTooBig, CalmInv, Inv, Opened, Sending, WillRead
    <3>5. CASE TaskClose
      BY <2>3, <3>5
      DEF TaskClose, CalmInv, Inv, Opened, WillRead
    <3>6. CASE Connected
      BY <2>3, <3>6 DEF Connected, WillRead
    <3>7. CASE Disconnected \/ Reconnect
      BY <3>7 DEF Disconnected, Reconnect, ConnectionGone, WillRead
    <3>8. CASE TimeoutFires
      BY <2>3, <3>8
      DEF TimeoutFires, CalmInv, Inv, Opened, Opening, WillRead
    <3> QED
      BY <1>1, <3>1, <3>2, <3>3, <3>4, <3>5, <3>6, <3>7, <3>8
      DEF TrackerStatus, Task
  <2> QED
    BY <2>2, <2>3
<1>2. CASE TrackerReceive
  <2>1. conn = "CONNECT" /\ conn' = "CONNECT" /\ packets > 0
    BY <1>2 DEF TrackerReceive, ReceiveHeaders, ReceivePart, ReceiveEnd, Packet
  <2>2. ~(eStatus = "SEND_REQUEST" /\ posted > 0)
    BY <2>1 DEF CalmInv, Inv, Sending
  <2>3. CASE ReceivePart
    <3>1. phase = "HEADERS" /\ phase' = "HEADERS"
      BY <2>1, <2>2, <2>3 DEF ReceivePart, WillRead
    <3>2. Lent
      BY <2>1, <3>1 DEF WillRead
    <3>3. UNCHANGED <<reqTimer, dangling, page, token>>
      BY <1>2, <2>3, <3>1
      DEF TrackerReceive, ReceiveHeaders, ReceiveEnd, NoCallback, Body,
          KeepTimerOnPacket
    <3> QED
      BY <1>a, <3>2, <3>3
  <2>4. CASE ReceiveHeaders \/ ReceiveEnd
    BY <2>1, <2>2, <2>4 DEF ReceiveHeaders, ReceiveEnd, WillRead
  <2> QED
    BY <1>2, <2>3, <2>4 DEF TrackerReceive
<1>3. CASE RequestTimer
  <2>0. ~Lent
    BY <1>0, <1>3 DEF RequestTimer, RequestTimerDue
  <2>1. CASE RequestDirty
    BY <2>0, <2>1, RefusedKeeps DEF WillRead, Quiet, Dirty
  <2>2. CASE TimerNoToken \/ TimerDoNothing
    BY <2>0, <2>2 DEF TimerNoToken, TimerDoNothing, vars, WillRead, Quiet, Dirty
  <2>3. CASE TimerRequests /\ (Started \/ BadName)
    <3>1. reqTimer' = 0 /\ token' = token /\ ~Dirty
      BY <1>3, <2>3, StartedResets DEF RequestTimer, TimerRequests, Disarm
    <3>2. dangling' = {}
      BY <2>3, <3>1
      DEF TimerRequests, TimerLogin, TimerLoginApi, TimerMembers, RequestDirty
    <3>3. page' = "LOGINAPI" => geState = "eLogin"
      BY <2>3, <3>1
      DEF TimerRequests, TimerLogin, TimerLoginApi, TimerMembers, RequestDirty
    <3> QED
      BY <3>1, <3>2, <3>3 DEF CalmInv, AnyInv, TokenInv, LoginDataReady
  <2> QED
    BY <1>3, <2>1, <2>2, <2>3
    DEF RequestTimer, TimerRequests, TimerLogin, TimerLoginApi, TimerMembers
<1>4. CASE Environment
  <2>1. GotIp
    BY <1>4, OnlyGotIp DEF CalmInv, AnyInv
  <2>2. conn = "NONE" /\ Quiet /\ UNCHANGED vars
    BY <2>1 DEF CalmInv, Booting, GotIp
  <2> QED
    BY <2>2 DEF vars, WillRead, Quiet, Dirty
<1>5. CASE UNCHANGED allVars
  BY <1>0, <1>5 DEF allVars, trackerVars, vars, WillRead, Quiet, Dirty
<1> QED
  BY <1>1, <1>2, <1>3, <1>4, <1>5 DEF TrackerNext

LEMMA CalmInvariance ==
  ASSUME Undisturbed
  PROVE  TrackerSpec => []CalmInv
<1>1. TrackerInit => CalmInv
  <2> SUFFICES ASSUME TrackerInit
               PROVE  CalmInv
    OBVIOUS
  <2>1. AnyInv
    BY AnyInit
  <2>2. Inv
    BY InitInv DEF TrackerInit
  <2>3. ClosedWaits /\ FreshWaits /\ Booting /\ Reads
    BY DEF TrackerInit, Init, ClosedWaits, FreshWaits, Booting, Reads, WillRead,
           Quiet, Dirty
  <2> QED
    BY <2>1, <2>2, <2>3 DEF CalmInv
<1>2. CalmInv /\ [TrackerNext]_allVars => CalmInv'
  <2> SUFFICES ASSUME CalmInv, [TrackerNext]_allVars
               PROVE  CalmInv'
    OBVIOUS
  <2>1. AnyInv'
    BY AnyStep DEF CalmInv
  <2>2. Inv'
    BY ClientStep, NextInv DEF CalmInv
  <2>3. TypeOK'
    BY <2>1 DEF AnyInv
  <2> QED
    BY <2>1, <2>2, <2>3, ClosedWaitsStep, FreshWaitsStep, BootingStep, ReadsStep
    DEF CalmInv
<1> QED
  BY <1>1, <1>2, PTL DEF TrackerSpec

(* The tracker is a client of the requester as that assumes it: whatever   *)
(* the server, the network and the timers do, the next request is started  *)
(* only when nothing of the last one can act on the shared context any     *)
(* more.  Every step of the tracker is a step of module Requester.         *)
THEOREM RequesterUsedOneAtATimeHolds ==
  ASSUME Undisturbed
  PROVE  TrackerSpec => RequesterUsedOneAtATime
<1>1. TrackerInit => Init
  BY DEF TrackerInit
<1>2. CalmInv /\ [TrackerNext]_allVars => [Next]_vars
  BY ClientStep
<1> QED
  BY <1>1, <1>2, CalmInvariance, PTL DEF TrackerSpec, RequesterUsedOneAtATime, Spec

(* Jar, login data and token are not freed while the requester still reads *)
(* them.                                                                   *)
THEOREM LentMemoryLiveHolds ==
  ASSUME Undisturbed
  PROVE  TrackerSpec => []LentMemoryLive
<1>1. CalmInv => LentMemoryLive
  BY DEF CalmInv, Reads, LentMemoryLive
<1> QED
  BY <1>1, CalmInvariance, PTL

-----------------------------------------------------------------------------
(* THE CONVERSATION WITH THE WEB SITE                                      *)

(* What the site takes each state of the tracker for.                      *)
LEMMA StageOf ==
  /\ geState = "eLogin" => Stage = "HAS_TOKEN"
  /\ geState \in {"eMembers", "eMembersToken"} => Stage = "MEMBER"
  /\ geState = "eDoNothing" => Stage = "REFUSED"
  /\ geState \in {"eInit", "eGetToken", "eReAuth"} => Stage = "VISITOR"
BY DEF Stage

LEMMA StageOfNext ==
  /\ geState' = "eLogin" => Stage' = "HAS_TOKEN"
  /\ geState' \in {"eMembers", "eMembersToken"} => Stage' = "MEMBER"
  /\ geState' = "eDoNothing" => Stage' = "REFUSED"
  /\ geState' \in {"eInit", "eGetToken", "eReAuth"} => Stage' = "VISITOR"
  /\ geState' = geState => Stage' = Stage
BY DEF Stage

Asking == IF InProgress THEN page ELSE "NONE"

(* The steps of a session, in the tracker's terms.                         *)
LEMMA SessionAsk ==
  ASSUME NEW p \in {"LOGIN", "LOGINAPI", "MEMBERS"},
         Asking = "NONE", Asking' = p, Stage' = Stage,
         p = "LOGIN" => Stage = "VISITOR",
         p = "LOGINAPI" => Stage = "HAS_TOKEN",
         p = "MEMBERS" => Stage = "MEMBER"
  PROVE  WebSession!SessionNext
<1>1. WebSession!Pages = {"LOGIN", "LOGINAPI", "MEMBERS"}
  BY DEF WebSession!Pages, WebSession!AllowedAt
<1>2. Stage = WebSession!AllowedAt[p]
  BY DEF WebSession!AllowedAt
<1>3. WebSession!Ask(p)
  BY <1>2 DEF WebSession!Ask, Asking
<1> QED
  BY <1>1, <1>3 DEF WebSession!SessionNext

LEMMA SessionAnswer ==
  ASSUME Asking # "NONE", Asking' = Asking,
         Stage # "REFUSED",
         \/ Asking = "LOGIN" /\ Stage' = "HAS_TOKEN"
         \/ Asking = "LOGINAPI" /\ Stage' \in {"MEMBER", "REFUSED"}
         \/ Asking = "MEMBERS" /\ Stage' = "MEMBER"
  PROVE  WebSession!SessionNext
<1>1. Stage' \in WebSession!Outcomes[Asking]
  BY DEF WebSession!Outcomes
<1>2. WebSession!Answer
  BY <1>1 DEF WebSession!Answer, Asking
<1> QED
  BY <1>2 DEF WebSession!SessionNext

LEMMA SessionStartAgain ==
  ASSUME Stage # "REFUSED", Stage' = "VISITOR", Asking' \in {Asking, "NONE"}
  PROVE  WebSession!SessionNext
<1>1. WebSession!StartAgain
  BY DEF WebSession!StartAgain, Asking
<1> QED
  BY <1>1 DEF WebSession!SessionNext

LEMMA SessionRefusalBrokenOff ==
  ASSUME Stage = "REFUSED", Asking = "LOGINAPI", report' = "REQ_CONN_FAIL",
         Stage' = "VISITOR", Asking' = "NONE"
  PROVE  WebSession!SessionNext
<1>1. WebSession!RefusalBrokenOff
  BY DEF WebSession!RefusalBrokenOff, Asking
<1> QED
  BY <1>1 DEF WebSession!SessionNext

LEMMA SessionGoesOn ==
  ASSUME Stage' = Stage, Asking' \in {Asking, "NONE"}
  PROVE  [WebSession!SessionNext]_WebSession!sessionVars
<1>1. CASE Asking' = Asking
  BY <1>1 DEF WebSession!sessionVars, Asking
<1>2. CASE Asking # "NONE" /\ Asking' = "NONE"
  <2>1. WebSession!Finish
    BY <1>2 DEF WebSession!Finish, Asking
  <2> QED
    BY <2>1 DEF WebSession!SessionNext
<1> QED
  BY <1>1, <1>2

(* A refusal is found in the headers of the answer to LOGINAPI, and stays  *)
(* until something else is made of the tracker: no later page is asked for *)
(* and no headers are read again.                                          *)
RefusalRead == geState = "eDoNothing" => page = "LOGINAPI" /\ phase # "HEADERS"

LEMMA RefusalReadInvariance == TrackerSpec => []RefusalRead
<1>1. TrackerInit => RefusalRead
  BY DEF TrackerInit, RefusalRead
<1>2. RefusalRead /\ [TrackerNext]_allVars => RefusalRead'
  <2> SUFFICES ASSUME RefusalRead, [TrackerNext]_allVars, geState' = "eDoNothing"
               PROVE  page' = "LOGINAPI" /\ phase' # "HEADERS"
    BY DEF RefusalRead
  <2>1. CASE TrackerStatus
    <3>1. UNCHANGED phase
      BY <2>1, StatusKeepsPhase
    <3>2. UNCHANGED <<geState, page>>
      BY <2>1
      DEF TrackerStatus, RequestStatus, StatusFail, StatusClosed, StatusIgnored
    <3> QED
      BY <3>1, <3>2 DEF RefusalRead
  <2>2. CASE TrackerReceive
    <3>1. CASE ReceiveHeaders /\ Headers
      <4>1. phase' = "BODY" /\ phase = "HEADERS"
        BY <3>1 DEF ReceiveHeaders
      <4>2. geState # "eDoNothing"
        BY <4>1 DEF RefusalRead
      <4>3. PICK code \in Codes :
              LoginHeaders(code) \/ LoginApiHeaders(code) \/ MembersHeaders(code)
        BY <3>1 DEF Headers
      <4>4. page = "LOGINAPI"
        BY <4>2, <4>3 DEF LoginHeaders, LoginApiHeaders, MembersHeaders
      <4> QED
        BY <3>1, <4>1, <4>4 DEF Headers
    <3>2. CASE (ReceivePart \/ ReceiveEnd) /\ (NoCallback \/ Body)
      <4>1. phase' \in {phase, "NOOP"}
        BY <3>2 DEF ReceivePart, ReceiveEnd
      <4>2. UNCHANGED <<geState, page>>
        BY <3>2
        DEF NoCallback, Body, ScanNothing, ScanToken, ScanNull, ScanPart, ScanEnd
      <4> QED
        BY <4>1, <4>2 DEF RefusalRead
    <3> QED
      BY <2>2, <3>1, <3>2 DEF TrackerReceive
  <2>3. CASE RequestTimer
    <3>1. TimerDoNothing
      BY <2>3
      DEF RequestTimer, TimerRequests, TimerLogin, TimerLoginApi, TimerMembers,
          TimerNoToken
    <3> QED
      BY <3>1 DEF TimerDoNothing, RefusalRead, vars
  <2>4. CASE Environment
    <3>1. UNCHANGED <<phase, geState, page>>
      BY <2>4 DEF Environment, GotIp, LinkLost, StartAp, SetCredentials, vars
    <3> QED
      BY <3>1 DEF RefusalRead
  <2>5. CASE UNCHANGED allVars
    BY <2>5 DEF allVars, trackerVars, vars, RefusalRead
  <2> QED
    BY <2>1, <2>2, <2>3, <2>4, <2>5 DEF TrackerNext
<1> QED
  BY <1>1, <1>2, PTL DEF TrackerSpec

(* No status begins a page, and none makes anything but a beginner of the  *)
(* visitor.                                                                *)
LEMMA StatusBeginsNothing ==
  ASSUME CalmInv, TrackerStatus
  PROVE  Asking' \in {Asking, "NONE"}
<1>0. page' = page
  BY StatusTimer DEF TrackerStatus
<1>1. ASSUME InProgress'
      PROVE  InProgress
  <2>1. CASE DnsFound \/ DnsNotFound
    BY <2>1 DEF DnsFound, DnsNotFound, InProgress
  <2>2. CASE TaskOpen
    BY <2>2 DEF TaskOpen, CalmInv, Inv, Opening, InProgress
  <2>3. CASE TaskSend
    BY <1>1, <2>3 DEF TaskSend, CalmInv, Inv, Opened, InProgress, Dirty
  <2>4. CASE TaskSendTooBig
    BY <1>1, <2>4 DEF TaskSendTooBig, CalmInv, Inv, Opened, InProgress, Dirty
  <2>5. CASE TaskClose
    BY <1>1, <2>5 DEF TaskClose, CalmInv, Inv, Opened, InProgress, Dirty
  <2>6. CASE Connected \/ Disconnected \/ Reconnect
    BY <2>6 DEF Connected, Disconnected, Reconnect, InProgress, Dirty
  <2>7. CASE TimeoutFires
    BY <1>1, <2>7
    DEF TimeoutFires, CalmInv, Inv, Opened, Opening, InProgress, Dirty
  <2> QED
    BY <2>1, <2>2, <2>3, <2>4, <2>5, <2>6, <2>7 DEF TrackerStatus, Task
<1> QED
  BY <1>0, <1>1 DEF Asking

LEMMA SessionStep ==
  ASSUME Undisturbed, CalmInv, RefusalRead, [TrackerNext]_allVars
  PROVE  [WebSession!SessionNext]_WebSession!sessionVars
<1>0. geState \in States /\ page \in {"NONE", "LOGIN", "LOGINAPI", "MEMBERS"}
  BY DEF CalmInv, AnyInv, TrackerTypeOK
<1> USE StageOf, StageOfNext
<1>00. geState # "eDoNothing" => Stage # "REFUSED"
  BY <1>0 DEF States
<1>1. CASE TrackerStatus
  <2>1. Asking' \in {Asking, "NONE"}
    BY <1>1, StatusBeginsNothing
  <2>2. Stage' \in {Stage, "VISITOR"}
    BY <1>1
    DEF TrackerStatus, RequestStatus, StatusFail, StatusClosed, StatusIgnored
  <2>3. CASE geState # "eDoNothing"
    <3>1. Stage # "REFUSED"
      BY <1>0, <2>3 DEF States
    <3> QED
      BY <2>1, <2>2, <3>1, SessionGoesOn, SessionStartAgain
  <2>4. CASE geState = "eDoNothing" /\ ~StatusFail
    <3>1. geState' = geState
      BY <1>1, <2>4 DEF TrackerStatus, RequestStatus, StatusClosed, StatusIgnored
    <3> QED
      BY <2>1, <3>1, SessionGoesOn
  <2>5. CASE geState = "eDoNothing" /\ StatusFail
    <3>1. page = "LOGINAPI" /\ phase # "HEADERS" /\ report' = "REQ_CONN_FAIL"
      BY <2>5 DEF RefusalRead, StatusFail
    <3>2. eStatus = "CLOSE_CONNECTION" \/ (eStatus = "SEND_REQUEST" /\ posted = 0)
      <4>1. eStatus \in Tasks /\ posted \in Nat
        BY RequesterAssumption DEF CalmInv, Inv, TypeOK
      <4> QED
        BY <3>1, <4>1 DEF CalmInv, Inv, Opening, Sending, Tasks
    <3>3. Reconnect
      <4>1. posted \in Nat
        BY RequesterAssumption DEF CalmInv, Inv, TypeOK
      <4> QED
        BY <1>1, <3>1, <3>2, <4>1
        DEF TrackerStatus, DnsFound, DnsNotFound, Task, TaskOpen, TaskSend,
            TaskSendTooBig, TaskClose, Connected, Disconnected, TimeoutFires
    <3>4. Asking = "LOGINAPI"
      BY <3>1, <3>3 DEF Reconnect, Asking, InProgress, Dirty
    <3>5. Asking' = "NONE"
      <4>1. lookups = 0
        <5>1. lookups \in Nat
          BY DEF CalmInv, Inv, TypeOK
        <5> QED
          BY <3>3, <5>1 DEF CalmInv, Inv, LookingUp, Reconnect
      <4>2. conn' = "CLOSE" /\ lookups' = 0
        BY <3>3, <4>1 DEF Reconnect, ConnectionGone
      <4> QED
        BY <4>2 DEF Asking, InProgress, Dirty
    <3>6. Stage = "REFUSED" /\ Stage' = "VISITOR"
      BY <2>5 DEF StatusFail
    <3> QED
      BY <3>1, <3>4, <3>5, <3>6, SessionRefusalBrokenOff
  <2> QED
    BY <2>3, <2>4, <2>5
<1>2. CASE TrackerReceive
  <2>1. conn = "CONNECT" /\ conn' = "CONNECT"
    BY <1>2 DEF TrackerReceive, ReceiveHeaders, ReceivePart, ReceiveEnd, Packet
  <2>2. page' = page
    BY <1>2 DEF TrackerReceive, Headers, NoCallback, Body
  <2>3. Asking = page /\ Asking' = page
    BY <2>1, <2>2 DEF Asking, InProgress, Dirty
  <2>4. CASE NoCallback
    <3>1. geState' = geState
      BY <2>4 DEF NoCallback
    <3> QED
      BY <2>3, <3>1, SessionGoesOn
  <2>5. CASE Body
    <3>1. CASE ScanEnd
      <4>1. page # "LOGINAPI"
        BY <3>1 DEF ScanEnd
      <4>2. Stage # "REFUSED"
        BY <1>00, <4>1 DEF RefusalRead
      <4> QED
        BY <2>3, <3>1, <4>2, SessionAnswer DEF ScanEnd
    <3>2. CASE ScanNothing \/ ScanToken \/ ScanNull \/ ScanPart
      <4>1. geState' = geState
        BY <3>2 DEF ScanNothing, ScanToken, ScanNull, ScanPart
      <4> QED
        BY <2>3, <4>1, SessionGoesOn
    <3> QED
      BY <2>5, <3>1, <3>2 DEF Body
  <2>6. CASE ReceiveHeaders /\ Headers
    <3>1. PICK code \in Codes :
            LoginHeaders(code) \/ LoginApiHeaders(code) \/ MembersHeaders(code)
      BY <2>6 DEF Headers
    <3>0. Stage # "REFUSED"
      BY <1>00, <2>6 DEF RefusalRead, ReceiveHeaders
    <3>2. CASE geState' = geState \/ geState' \in {"eInit", "eReAuth"}
      BY <2>3, <3>0, <3>2, SessionGoesOn, SessionStartAgain
    <3>3. CASE LoginApiHeaders(code) /\ geState' \in {"eMembers", "eDoNothing"}
      BY <2>3, <3>0, <3>3, SessionAnswer DEF LoginApiHeaders
    <3> QED
      BY <3>1, <3>2, <3>3 DEF LoginHeaders, LoginApiHeaders, MembersHeaders
  <2> QED
    BY <1>2, <2>4, <2>5, <2>6 DEF TrackerReceive
<1>3. CASE RequestTimer
  <2>1. CASE TimerRequests /\ (Started \/ BadName)
    <3>1. ~Dirty
      BY <2>1, StartedResets
    <3>2. geState # "eDoNothing"
      BY <2>1 DEF TimerRequests, TimerLogin, TimerLoginApi, TimerMembers
    <3>3. Quiet
      BY <1>3, <3>1, <3>2, QuietWhenDue DEF RequestTimer
    <3>4. Asking = "NONE"
      BY <3>3 DEF Asking, InProgress, Quiet
    <3>5. ~RequestDirty
      BY <3>1 DEF RequestDirty
    <3>6. CASE Started
      <4>1. InProgress'
        <5>1. conn' = "NONE" /\ (posted' > 0 \/ lookups' > 0)
          BY <3>3, <3>6, RequesterAssumption
          DEF Started, RequestAccepted, Quiet, Post
        <5> QED
          BY <5>1 DEF InProgress
      <4>2. Asking' = page'
        BY <4>1 DEF Asking
      <4>3. CASE TimerLogin /\ page' = "LOGIN" /\ geState' \in {geState, "eGetToken"}
        BY <3>4, <4>2, <4>3, SessionAsk DEF TimerLogin
      <4>4. CASE TimerLoginApi /\ page' = "LOGINAPI"
        BY <3>4, <4>2, <4>4, SessionAsk DEF TimerLoginApi
      <4>5. CASE TimerMembers /\ page' = "MEMBERS"
        BY <3>4, <4>2, <4>5, SessionAsk DEF TimerMembers
      <4> QED
        BY <2>1, <3>5, <4>3, <4>4, <4>5
        DEF TimerRequests, TimerLogin, TimerLoginApi, TimerMembers
    <3>7. CASE BadName /\ ~Started
      <4>1. ~InProgress'
        BY <3>3, <3>7 DEF BadName, RequestAccepted, Quiet, InProgress, Dirty
      <4>2. geState' = geState
        BY <2>1, <3>5, <3>7
        DEF TimerRequests, TimerLogin, TimerLoginApi, TimerMembers
      <4> QED
        BY <4>1, <4>2, SessionGoesOn DEF Asking
    <3> QED
      BY <2>1, <3>6, <3>7
  <2>2. CASE TimerRequests /\ ~Started /\ ~BadName
    <3>1. RequestDirty /\ UNCHANGED <<geState, page>>
      BY <2>2 DEF TimerRequests, TimerLogin, TimerLoginApi, TimerMembers
    <3>2. Asking' = Asking
      BY <3>1, RefusedKeeps DEF Asking, InProgress, Dirty
    <3> QED
      BY <3>1, <3>2, SessionGoesOn
  <2>3. CASE TimerNoToken \/ TimerDoNothing
    <3>1. geState' \in {geState, "eInit"} /\ UNCHANGED <<vars, page>>
      BY <2>3 DEF TimerNoToken, TimerDoNothing
    <3>2. Asking' = Asking
      BY <3>1 DEF Asking, InProgress, Dirty, vars
    <3>3. geState = "eDoNothing" => geState' = geState
      BY <2>3 DEF TimerNoToken, TimerDoNothing
    <3> QED
      BY <1>00, <3>1, <3>2, <3>3, SessionGoesOn, SessionStartAgain
  <2> QED
    BY <1>3, <2>1, <2>2, <2>3 DEF RequestTimer
<1>4. CASE Environment \/ UNCHANGED allVars
  <2>1. UNCHANGED <<vars, geState, page>>
    BY <1>4, OnlyGotIp DEF CalmInv, AnyInv, GotIp, allVars, trackerVars
  <2>2. Asking' = Asking
    BY <2>1 DEF Asking, InProgress, Dirty, vars
  <2> QED
    BY <2>1, <2>2, SessionGoesOn
<1> QED
  BY <1>1, <1>2, <1>3, <1>4 DEF TrackerNext

(* The web site sees nothing but a session: one page at a time, the login  *)
(* data only with a token, the members only as a member, and nothing after *)
(* a refused login, unless the connection it was refused on broke before   *)
(* it was closed.  The tracker refines module Session.                     *)
THEOREM KeepsToSessionHolds ==
  ASSUME Undisturbed
  PROVE  TrackerSpec => KeepsToSession
<1>1. TrackerInit => WebSession!SessionInit
  BY StageOf
  DEF TrackerInit, Init, WebSession!SessionInit, InProgress, Dirty
<1>2. CalmInv /\ RefusalRead /\ [TrackerNext]_allVars
        => [WebSession!SessionNext]_WebSession!sessionVars
  BY SessionStep
<1> QED
  BY <1>1, <1>2, CalmInvariance, RefusalReadInvariance, PTL
  DEF TrackerSpec, KeepsToSession, WebSession!SessionSpec
=============================================================================
