-------------------------- MODULE HttpServerProofs --------------------------
(***************************************************************************)
(* Proofs about the HTTP server (module HttpServer), for any number of     *)
(* connections, any length of the queue, any payload, any number of        *)
(* segments and every manner of clients: what a context owns is freed      *)
(* once.  And, under clients that ask once and wait: a queue with two      *)
(* entries for each connection loses no event, and so every connection is  *)
(* served to its end.                                                      *)
(***************************************************************************)
EXTENDS HttpServer, TLAPS, FiniteSetTheorems

QueueOK(q) == q \in Seq(Events) /\ Len(q) <= EventsLen

(* Posting keeps the queue within its length, dropping what does not fit.  *)
LEMMA PostKeepsQueue ==
  ASSUME NEW q, QueueOK(q), NEW event \in Events
  PROVE  QueueOK(Post(q, event))
BY HttpAssumption DEF QueueOK, Post, HttpAssumption

(* Taking an event out of the queue keeps it a queue.                      *)
LEMMA TailKeepsQueue ==
  ASSUME NEW q, QueueOK(q), q # <<>>
  PROVE  QueueOK(Tail(q))
BY HttpAssumption DEF QueueOK, HttpAssumption

(* Everything that is posted is an event.                                  *)
LEMMA PostedIsEvent ==
  /\ ClientDisconnected \in Events
  /\ \A c \in Conns : \A signal \in Signals : <<signal, c>> \in Events
BY DEF Events

(* FreedOnce is inductive with the types: what a context owns is written   *)
(* together with what it points to.                                        *)
HttpInv == HttpTypeOK /\ FreedOnce

(* The server starts with an empty queue and no contexts.                  *)
LEMMA InitHolds == HttpInit => HttpInv
<1>1. HttpInit => HttpTypeOK
  <2>1. ASSUME HttpInit
        PROVE  queue \in Seq(Events) /\ Len(queue) <= EventsLen
    BY <2>1, HttpAssumption DEF HttpInit, HttpAssumption
  <2>2. 0 \in 0..MaxPieces /\ 0 \in 0..MaxSegments /\ 0 \in Nat
    BY HttpAssumption DEF HttpAssumption
  <2> QED
    BY <2>1, <2>2 DEF HttpInit, HttpTypeOK
<1>2. HttpInit => FreedOnce
  BY DEF HttpInit, FreedOnce
<1> QED
  BY <1>1, <1>2 DEF HttpInv

(* The callbacks of the SDK.                                               *)
LEMMA CallbacksKeepInv ==
  ASSUME HttpInv, NEW c \in Conns,
         \/ Connect(c) \/ Receive(c) \/ Sent(c)
         \/ Closed(c) \/ Leaves(c) \/ GoesUnheard(c)
  PROVE  HttpInv'
<1> USE DEF HttpInv
<1>q. QueueOK(queue)
  BY DEF HttpTypeOK, QueueOK
<1>s. {"DISCONNECT_CLIENT", "ERROR_404", "APP_SERVICED", "SEND_DATA"} = Signals
  BY DEF Signals
<1>1. CASE Connect(c)
  <2>1. 0 \in 0..MaxPieces /\ 0 \in 0..MaxSegments /\ 0 \in Nat
    BY HttpAssumption DEF HttpAssumption
  <2>2. HttpTypeOK'
    BY <1>1, <2>1 DEF Connect, HttpTypeOK
  <2>3. FreedOnce'
    BY <1>1 DEF Connect, HttpTypeOK, FreedOnce
  <2> QED
    BY <2>2, <2>3
<1>2. CASE Receive(c)
  <2>1. segments[c] + 1 \in 0..MaxSegments
    BY <1>2, HttpAssumption DEF Receive, HttpTypeOK, HttpAssumption
  <2>2. QueueOK(queue')
    BY <1>2, <1>q, <1>s, PostKeepsQueue, PostedIsEvent DEF Receive
  <2>3. HttpTypeOK'
    BY <1>2, <2>1, <2>2 DEF Receive, HttpTypeOK, QueueOK
  <2>4. FreedOnce'
    BY <1>2 DEF Receive, FreedOnce
  <2> QED
    BY <2>3, <2>4
<1>3. CASE Sent(c)
  <2>1. unacked[c] - 1 \in Nat
    BY <1>3 DEF Sent, HttpTypeOK
  <2>2. QueueOK(queue')
    BY <1>3, <1>q, <1>s, PostKeepsQueue, PostedIsEvent DEF Sent
  <2>3. HttpTypeOK'
    BY <1>3, <2>1, <2>2 DEF Sent, HttpTypeOK, QueueOK
  <2>4. FreedOnce'
    BY <1>3 DEF Sent, FreedOnce
  <2> QED
    BY <2>3, <2>4
<1>4. CASE Gone(c)
  <2>1. QueueOK(queue')
    BY <1>4, <1>q, PostKeepsQueue, PostedIsEvent DEF Gone
  <2>2. HttpTypeOK'
    BY <1>4, <2>1, HttpAssumption DEF Gone, HttpTypeOK, QueueOK, HttpAssumption
  <2>3. FreedOnce'
    BY <1>4 DEF Gone, HttpTypeOK, FreedOnce
  <2> QED
    BY <2>2, <2>3
<1>5. CASE GoesUnheard(c)
  BY <1>5 DEF GoesUnheard, HttpTypeOK, FreedOnce
<1> QED
  BY <1>1, <1>2, <1>3, <1>4, <1>5 DEF Closed, Leaves

(* server_Task.                                                            *)
LEMMA TaskKeepsInv ==
  ASSUME HttpInv, ServerTask
  PROVE  HttpInv'
<1> USE DEF HttpInv
<1>q. QueueOK(queue)
  BY DEF HttpTypeOK, QueueOK
<1>t. queue # <<>> => QueueOK(Tail(queue))
  BY <1>q, TailKeepsQueue
<1>p. ASSUME NEW c \in Conns, queue # <<>>
      PROVE  QueueOK(Post(Tail(queue), <<"DISCONNECT_CLIENT", c>>))
  <2>1. <<"DISCONNECT_CLIENT", c>> \in Events
    BY PostedIsEvent DEF Signals
  <2> QED
    BY <1>p, <1>t, <2>1, PostKeepsQueue
<1>1. CASE ServeClientDisconnected
  <2>1. HttpTypeOK'
    BY <1>1, <1>t DEF ServeClientDisconnected, HttpTypeOK, QueueOK, connVars
  <2>2. FreedOnce'
    BY <1>1 DEF ServeClientDisconnected, FreedOnce, connVars
  <2> QED
    BY <2>1, <2>2
<1>2. ASSUME NEW c \in Conns, Serve(c)
      PROVE  HttpInv'
  <2>1. CASE ServeNull(c)
    <3>1. HttpTypeOK'
      BY <2>1, <1>t DEF ServeNull, Serving, HttpTypeOK, QueueOK, connVars
    <3>2. FreedOnce'
      BY <2>1 DEF ServeNull, FreedOnce, connVars
    <3> QED
      BY <3>1, <3>2
  <2>2. CASE ServeDisconnect(c)
    <3>1. HttpTypeOK'
      BY <2>2, <1>t DEF ServeDisconnect, Serving, HttpTypeOK, QueueOK
    <3>2. FreedOnce'
      BY <2>2 DEF ServeDisconnect, HttpTypeOK, FreedOnce
    <3> QED
      BY <3>1, <3>2
  <2>3. CASE ServePiece(c)
    <3>1. left[c] - 1 \in 0..MaxPieces /\ unacked[c] + 1 \in Nat
      BY <2>3, HttpAssumption DEF ServePiece, HttpTypeOK, HttpAssumption
    <3>2. QueueOK(queue')
      BY <2>3, <1>t, <1>p DEF ServePiece, Serving
    <3>3. HttpTypeOK'
      BY <2>3, <3>1, <3>2 DEF ServePiece, HttpTypeOK, QueueOK
    <3>4. FreedOnce'
      BY <2>3 DEF ServePiece, FreedOnce
    <3> QED
      BY <3>3, <3>4
  <2>4. CASE ServeNoPiece(c)
    <3>1. HttpTypeOK'
      BY <2>4, <1>p DEF ServeNoPiece, Serving, HttpTypeOK, QueueOK, connVars
    <3>2. FreedOnce'
      BY <2>4 DEF ServeNoPiece, FreedOnce, connVars
    <3> QED
      BY <3>1, <3>2
  <2>5. ASSUME NEW payload \in {"STATIC", "HEAP"}, NEW pieces \in 1..MaxPieces,
               ServeAnswer(c, payload, pieces)
        PROVE  HttpInv'
    <3>1. unacked[c] + 1 \in Nat /\ pieces \in 0..MaxPieces
      BY HttpAssumption DEF HttpTypeOK, HttpAssumption
    <3>2. HttpTypeOK'
      BY <2>5, <1>t, <3>1 DEF ServeAnswer, Serving, HttpTypeOK, QueueOK
    <3>3. FreedOnce'
      BY <2>5 DEF ServeAnswer, HttpTypeOK, FreedOnce
    <3> QED
      BY <3>2, <3>3
  <2>6. ASSUME NEW payload \in {"STATIC", "HEAP"}, ServeAnswerFails(c, payload)
        PROVE  HttpInv'
    <3>1. QueueOK(queue')
      BY <2>6, <1>t, <1>p DEF ServeAnswerFails, Serving
    <3>2. HttpTypeOK'
      BY <2>6, <3>1 DEF ServeAnswerFails, HttpTypeOK, QueueOK
    <3>3. FreedOnce'
      BY <2>6 DEF ServeAnswerFails, FreedOnce
    <3> QED
      BY <3>2, <3>3
  <2>7. CASE ServeError(c)
    <3>1. unacked[c] + 1 \in Nat
      BY DEF HttpTypeOK
    <3>2. HttpTypeOK'
      BY <2>7, <1>t, <3>1 DEF ServeError, Serving, HttpTypeOK, QueueOK
    <3>3. FreedOnce'
      BY <2>7 DEF ServeError, FreedOnce
    <3> QED
      BY <3>2, <3>3
  <2> QED
    BY <1>2, <2>1, <2>2, <2>3, <2>4, <2>5, <2>6, <2>7 DEF Serve
<1> QED
  BY <1>1, <1>2 DEF ServerTask

(* Every step keeps the invariant.                                         *)
LEMMA StepKeepsInv == HttpInv /\ [HttpNext]_httpVars => HttpInv'
<1> SUFFICES ASSUME HttpInv, [HttpNext]_httpVars
             PROVE  HttpInv'
  OBVIOUS
<1>1. CASE ServerTask
  BY <1>1, TaskKeepsInv
<1>2. ASSUME NEW c \in Conns,
             \/ Connect(c) \/ Receive(c) \/ Sent(c)
             \/ Closed(c) \/ Leaves(c) \/ GoesUnheard(c)
      PROVE  HttpInv'
  BY <1>2, CallbacksKeepInv
<1>3. CASE UNCHANGED httpVars
  BY <1>3 DEF HttpInv, HttpTypeOK, FreedOnce, httpVars
<1> QED
  BY <1>1, <1>2, <1>3 DEF HttpNext

(* The invariant is one, of the server under any clients.                  *)
LEMMA InvAlways == HttpSpec => []HttpInv
BY InitHolds, StepKeepsInv, PTL DEF HttpSpec

(* The state of the server stays what its types say: however many events   *)
(* are posted, and whatever clients do, the queue stays within its length  *)
(* and no connection has more pieces left than its payload had.            *)
THEOREM HttpTypeCorrect == HttpSpec => []HttpTypeOK
<1>1. HttpInv => HttpTypeOK
  BY DEF HttpInv
<1> QED
  BY <1>1, InvAlways, PTL

(* What a context owns is what it points to and has not been freed,        *)
(* whatever order callbacks, posted events and departures come in, also    *)
(* when sends are refused, events dropped and addresses reused: the server *)
(* never frees a payload twice.                                            *)
THEOREM PayloadFreedOnce == HttpSpec => []FreedOnce
<1>1. HttpInv => FreedOnce
  BY DEF HttpInv
<1> QED
  BY <1>1, InvAlways, PTL

-----------------------------------------------------------------------------
(* THE CAPACITY OF THE QUEUE                                               *)

(* Clients that ask once and wait, and two events for each connection.     *)
AsksOnce == Manners = "SERVED" /\ MaxSegments <= 1
TwoEach == IsFiniteSet(Conns) /\ 2 * Cardinality(Conns) <= EventsLen

(* 1 for the event that a connection has gone, which does not say which.   *)
Kind(event) == IF event = ClientDisconnected THEN 1 ELSE 0

(* w says for each event which connection posted it.  No connection has    *)
(* two events of a kind in the queue, and one that has gone and come again *)
(* and is not idle has asked since, behind the event of its going.         *)
Assigned(q, w, idle) ==
  /\ w \in [1..Len(q) -> Conns]
  /\ \A i \in 1..Len(q) : Kind(q[i]) = 0 => q[i] \in Signals \X {w[i]}
  /\ \A i, j \in 1..Len(q) : w[i] = w[j] /\ Kind(q[i]) = Kind(q[j]) => i = j
  /\ \A i \in 1..Len(q) :
       Kind(q[i]) = 1 =>
         \/ w[i] \in idle
         \/ \E j \in 1..Len(q) : i < j /\ w[j] = w[i]

(* The signals of a connection in the queue.                               *)
Mine(q, c) == {s \in Signals : \E i \in 1..Len(q) : q[i] = <<s, c>>}

(* An event is of one of two kinds.                                        *)
LEMMA Kinds ==
  /\ \A event : Kind(event) \in 0..1
  /\ Kind(ClientDisconnected) = 1
  /\ \A s \in Signals : \A c : Kind(<<s, c>>) = 0
  /\ \A event \in Events : Kind(event) = 0 => \E s \in Signals, c \in Conns : event = <<s, c>>
BY DEF Kind, ClientDisconnected, Signals, Events

(* A connection finds room for an event of a kind that it has not yet in   *)
(* the queue.                                                              *)
LEMMA HasRoom ==
  ASSUME TwoEach, NEW q, QueueOK(q), NEW w, NEW idle, Assigned(q, w, idle),
         NEW c \in Conns, NEW k \in 0..1,
         \A i \in 1..Len(q) : w[i] = c => Kind(q[i]) # k
  PROVE  Len(q) < EventsLen
<1> DEFINE all == Conns \X (0..1)
           free == all \ {<<c, k>>}
           slot == [i \in 1..Len(q) |-> <<w[i], Kind(q[i])>>]
<1>0. Len(q) \in Nat
  BY DEF QueueOK
<1>1. IsFiniteSet(1..Len(q)) /\ Cardinality(1..Len(q)) = Len(q)
  <2>1. 1 \in Int /\ Len(q) \in Int
    BY <1>0
  <2>2. /\ IsFiniteSet(1..Len(q))
        /\ Cardinality(1..Len(q)) = IF 1 > Len(q) THEN 0 ELSE Len(q) - 1 + 1
    BY <2>1, FS_Interval, Zenon
  <2>3. (IF 1 > Len(q) THEN 0 ELSE Len(q) - 1 + 1) = Len(q)
    BY <1>0
  <2> QED
    BY <2>2, <2>3
<1>2. IsFiniteSet(0..1) /\ Cardinality(0..1) = 2
  <2>1. 0 \in Int /\ 1 \in Int
    OBVIOUS
  <2>2. /\ IsFiniteSet(0..1)
        /\ Cardinality(0..1) = IF 0 > 1 THEN 0 ELSE 1 - 0 + 1
    BY <2>1, FS_Interval, Zenon
  <2> QED
    BY <2>2
<1>3. IsFiniteSet(all) /\ Cardinality(all) = Cardinality(Conns) * 2
  BY <1>2, FS_Product DEF TwoEach
<1>4. <<c, k>> \in all
  OBVIOUS
<1>5. IsFiniteSet(free) /\ Cardinality(free) = Cardinality(all) - 1
  BY <1>3, <1>4, FS_RemoveElement
<1>6. slot \in [1..Len(q) -> free]
  <2>1. ASSUME NEW i \in 1..Len(q)
        PROVE  <<w[i], Kind(q[i])>> \in free
    <3>1. w[i] \in Conns /\ Kind(q[i]) \in 0..1
      BY Kinds DEF Assigned
    <3>2. <<w[i], Kind(q[i])>> # <<c, k>>
      OBVIOUS
    <3> QED
      BY <3>1, <3>2
  <2> QED
    BY <2>1
<1>7. ~(Cardinality(free) < Len(q))
  <2> SUFFICES ASSUME Cardinality(free) < Len(q)
               PROVE  FALSE
    OBVIOUS
  <2> HIDE DEF slot, free
  <2>1. PICK i, j \in 1..Len(q) : i # j /\ slot[i] = slot[j]
    BY <1>1, <1>5, <1>6, FS_PigeonHole
  <2>2. w[i] = w[j] /\ Kind(q[i]) = Kind(q[j])
    BY <2>1 DEF slot
  <2> QED
    BY <2>1, <2>2 DEF Assigned
<1>8. Cardinality(Conns) \in Nat
  BY FS_CardinalityType DEF TwoEach
<1> HIDE DEF all, free
<1> QED
  BY <1>0, <1>3, <1>5, <1>7, <1>8, HttpAssumption DEF TwoEach, HttpAssumption

(* What is posted goes to the end of the queue if there is room.           *)
LEMMA Appended ==
  ASSUME NEW q, QueueOK(q), NEW w, NEW idle, Assigned(q, w, idle),
         NEW idle2, NEW c \in Conns, NEW event \in Events,
         Kind(event) = 0 => event \in Signals \X {c},
         Kind(event) = 1 => c \in idle2,
         \A d \in idle : d \in idle2 \/ (d = c /\ Kind(event) = 0),
         \A i \in 1..Len(q) : w[i] = c => Kind(q[i]) # Kind(event)
  PROVE  \E w2 : Assigned(Append(q, event), w2, idle2)
<1> DEFINE r == Append(q, event)
           n == Len(q)
           w2 == [i \in 1..n + 1 |-> IF i = n + 1 THEN c ELSE w[i]]
<1>1. n \in Nat /\ Len(r) = n + 1 /\ r[n + 1] = event
  BY DEF QueueOK
<1>2. \A i \in 1..n : r[i] = q[i] /\ i # n + 1 /\ i \in 1..n + 1
  BY DEF QueueOK
<1>3. \A i \in 1..n + 1 : i \in 1..n \/ i = n + 1
  BY <1>1
<1>4. w2[n + 1] = c /\ \A i \in 1..n : w2[i] = w[i]
  BY <1>1, <1>2
<1>5. n + 1 \in 1..n + 1 /\ \A i \in 1..n : i < n + 1
  BY <1>1
<1>6. w2 \in [1..n + 1 -> Conns]
  BY <1>3 DEF Assigned
<1> HIDE DEF r, w2, n
<1>a. w \in [1..n -> Conns]
  BY DEF Assigned, n
<1>7. \A i \in 1..n + 1 : Kind(r[i]) = 0 => r[i] \in Signals \X {w2[i]}
  BY <1>1, <1>2, <1>3, <1>4 DEF Assigned, n
<1>8. ASSUME NEW i \in 1..n + 1, NEW j \in 1..n + 1,
             w2[i] = w2[j], Kind(r[i]) = Kind(r[j])
      PROVE  i = j
  <2>1. CASE i \in 1..n /\ j \in 1..n
    BY <1>8, <1>2, <1>4, <2>1 DEF Assigned, n
  <2>2. CASE i = n + 1 /\ j \in 1..n
    BY <1>8, <1>1, <1>2, <1>4, <2>2 DEF n
  <2>3. CASE i \in 1..n /\ j = n + 1
    BY <1>8, <1>1, <1>2, <1>4, <2>3 DEF n
  <2> QED
    BY <1>3, <2>1, <2>2, <2>3
<1>9. ASSUME NEW i \in 1..n + 1, Kind(r[i]) = 1
      PROVE  w2[i] \in idle2 \/ \E j \in 1..n + 1 : i < j /\ w2[j] = w2[i]
  <2>1. CASE i = n + 1
    BY <1>9, <1>1, <1>4, <2>1
  <2>2. CASE i \in 1..n /\ w[i] \in idle
    BY <1>4, <1>5, <2>2
  <2>3. ASSUME i \in 1..n, NEW j \in 1..n, i < j, w[j] = w[i]
        PROVE  \E k \in 1..n + 1 : i < k /\ w2[k] = w2[i]
    BY <1>2, <1>4, <2>3
  <2>4. i \in 1..n => w[i] \in idle \/ \E j \in 1..n : i < j /\ w[j] = w[i]
    BY <1>9, <1>2 DEF Assigned, n
  <2> QED
    BY <1>3, <2>1, <2>2, <2>3, <2>4
<1> QED
  BY <1>1, <1>6, <1>7, <1>8, <1>9 DEF Assigned, r

(* What is served is taken from the front.                                 *)
LEMMA Taken ==
  ASSUME NEW q, QueueOK(q), q # <<>>, NEW w, NEW idle, Assigned(q, w, idle)
  PROVE  \E w2 : /\ Assigned(Tail(q), w2, idle)
                 /\ \A i \in 1..Len(Tail(q)) : w2[i] = w[i + 1]
<1> DEFINE r == Tail(q)
           n == Len(q)
           w2 == [i \in 1..n - 1 |-> w[i + 1]]
<1>1. n \in Nat \ {0} /\ Len(r) = n - 1
  BY DEF QueueOK
<1>2. \A i \in 1..n - 1 : r[i] = q[i + 1] /\ i + 1 \in 1..n
  BY <1>1 DEF QueueOK
<1>3. \A i \in 1..n - 1 : w2[i] = w[i + 1]
  OBVIOUS
<1>4. w2 \in [1..n - 1 -> Conns]
  BY <1>2 DEF Assigned
<1> HIDE DEF r, w2, n
<1>5. \A i \in 1..n - 1 : Kind(r[i]) = 0 => r[i] \in Signals \X {w2[i]}
  BY <1>2, <1>3 DEF Assigned, n
<1>6. ASSUME NEW i \in 1..n - 1, NEW j \in 1..n - 1,
             w2[i] = w2[j], Kind(r[i]) = Kind(r[j])
      PROVE  i = j
  <2>1. i + 1 = j + 1
    BY <1>6, <1>2, <1>3 DEF Assigned, n
  <2> QED
    BY <2>1
<1>7. ASSUME NEW i \in 1..n - 1, Kind(r[i]) = 1
      PROVE  w2[i] \in idle \/ \E j \in 1..n - 1 : i < j /\ w2[j] = w2[i]
  <2>1. ASSUME NEW j \in 1..n, i + 1 < j, w[j] = w[i + 1]
        PROVE  \E k \in 1..n - 1 : i < k /\ w2[k] = w2[i]
    <3>1. j - 1 \in 1..n - 1 /\ i < j - 1 /\ (j - 1) + 1 = j
      BY <2>1, <1>1
    <3> QED
      BY <3>1, <2>1, <1>3
  <2>2. w[i + 1] \in idle \/ \E j \in 1..n : i + 1 < j /\ w[j] = w[i + 1]
    BY <1>7, <1>2 DEF Assigned, n
  <2> QED
    BY <1>3, <2>1, <2>2
<1>8. Assigned(r, w2, idle)
  BY <1>1, <1>4, <1>5, <1>6, <1>7 DEF Assigned
<1>9. \A i \in 1..Len(r) : w2[i] = w[i + 1]
  BY <1>1, <1>3
<1> QED
  BY <1>8, <1>9 DEF r

(* Whose event it is can be told, see Assigned.                            *)
Slots(q, idle) == \E w : Assigned(q, w, idle)

(* What posting does to the signals in the queue.                          *)
LEMMA MineOfAppend ==
  ASSUME NEW q, QueueOK(q), NEW event \in Events
  PROVE  \A d : Mine(Append(q, event), d) =
                  Mine(q, d) \cup {s \in Signals : event = <<s, d>>}
<1> SUFFICES ASSUME NEW d, NEW s \in Signals
             PROVE  (\E i \in 1..Len(Append(q, event)) : Append(q, event)[i] = <<s, d>>)
                      <=> (\E i \in 1..Len(q) : q[i] = <<s, d>>) \/ event = <<s, d>>
  BY DEF Mine
<1> DEFINE r == Append(q, event)
           n == Len(q)
<1>1. n \in Nat /\ Len(r) = n + 1 /\ r[n + 1] = event
  BY DEF QueueOK
<1>2. \A i \in 1..n : r[i] = q[i] /\ i \in 1..n + 1
  BY DEF QueueOK
<1>3. \A i \in 1..n + 1 : i \in 1..n \/ i = n + 1
  BY <1>1
<1>4. n + 1 \in 1..n + 1
  BY <1>1
<1> HIDE DEF r, n
<1>5. (\E i \in 1..n + 1 : r[i] = <<s, d>>)
        <=> (\E i \in 1..n : q[i] = <<s, d>>) \/ event = <<s, d>>
  BY <1>1, <1>2, <1>3, <1>4
<1> QED
  BY <1>1, <1>5 DEF r, n

(* What taking the front does to them.                                     *)
LEMMA MineOfTail ==
  ASSUME NEW q, QueueOK(q), q # <<>>
  PROVE  \A d : Mine(q, d) = Mine(Tail(q), d) \cup {s \in Signals : Head(q) = <<s, d>>}
<1> SUFFICES ASSUME NEW d, NEW s \in Signals
             PROVE  (\E i \in 1..Len(q) : q[i] = <<s, d>>)
                      <=> \/ \E i \in 1..Len(Tail(q)) : Tail(q)[i] = <<s, d>>
                          \/ Head(q) = <<s, d>>
  BY DEF Mine
<1> DEFINE r == Tail(q)
           n == Len(q)
<1>1. n \in Nat \ {0} /\ Len(r) = n - 1 /\ Head(q) = q[1]
  BY DEF QueueOK
<1>2. \A i \in 1..n - 1 : r[i] = q[i + 1] /\ i + 1 \in 1..n
  BY <1>1 DEF QueueOK
<1>3. \A i \in 1..n : i = 1 \/ (i - 1 \in 1..n - 1 /\ (i - 1) + 1 = i)
  BY <1>1
<1>4. 1 \in 1..n
  BY <1>1
<1> HIDE DEF r, n
<1>5. (\E i \in 1..n : q[i] = <<s, d>>)
        <=> (\E i \in 1..n - 1 : r[i] = <<s, d>>) \/ q[1] = <<s, d>>
  BY <1>2, <1>3, <1>4
<1> QED
  BY <1>1, <1>5 DEF r, n

(* A connection that has no signal in the queue posts one.                 *)
LEMMA SignalPosted ==
  ASSUME TwoEach, NEW q, QueueOK(q), NEW idle, Slots(q, idle), NEW idle2,
         NEW c \in Conns, NEW s \in Signals, Mine(q, c) = {},
         \A d \in idle : d \in idle2 \/ d = c
  PROVE  /\ Slots(Post(q, <<s, c>>), idle2)
         /\ Mine(Post(q, <<s, c>>), c) = {s}
         /\ \A d : d # c => Mine(Post(q, <<s, c>>), d) = Mine(q, d)
<1> DEFINE event == <<s, c>>
<1>1. PICK w : Assigned(q, w, idle)
  BY DEF Slots
<1>2. event \in Events /\ Kind(event) = 0 /\ event \in Signals \X {c}
  BY Kinds DEF Events
<1>3. ASSUME NEW i \in 1..Len(q), w[i] = c
      PROVE  Kind(q[i]) # 0
  BY <1>1, <1>3 DEF Assigned, Mine
<1>4. Len(q) < EventsLen
  BY <1>1, <1>3, HasRoom
<1>5. Post(q, event) = Append(q, event)
  BY <1>4 DEF Post
<1>6. ASSUME NEW e, e = event
      PROVE  Slots(Append(q, e), idle2)
  <2>1. e \in Events
    BY <1>2, <1>6
  <2>2. Kind(e) = 0
    BY <1>2, <1>6
  <2>3. e \in Signals \X {c}
    BY <1>6
  <2>4. \A i \in 1..Len(q) : w[i] = c => Kind(q[i]) # Kind(e)
    BY <1>3, <2>2
  <2> HIDE <1>6 DEF event
  <2>5. \A d \in idle : d \in idle2 \/ (d = c /\ Kind(e) = 0)
    BY <2>2
  <2>6. Kind(e) = 1 => c \in idle2
    BY <2>2
  <2>7. \E w2 : Assigned(Append(q, e), w2, idle2)
    BY <1>1, <2>1, <2>3, <2>4, <2>5, <2>6, Appended
  <2> QED
    BY <2>7 DEF Slots
<1>7. \A d : Mine(Append(q, event), d) =
               Mine(q, d) \cup {t \in Signals : event = <<t, d>>}
  BY <1>2, MineOfAppend
<1> QED
  BY <1>5, <1>6, <1>7

(* A connection that is not idle and has no signal in the queue posts that *)
(* it has gone, and is idle.                                               *)
LEMMA GonePosted ==
  ASSUME TwoEach, NEW q, QueueOK(q), NEW idle, Slots(q, idle), NEW c \in Conns,
         c \notin idle, Mine(q, c) = {}
  PROVE  /\ Slots(Post(q, ClientDisconnected), idle \cup {c})
         /\ \A d : Mine(Post(q, ClientDisconnected), d) = Mine(q, d)
<1>1. PICK w : Assigned(q, w, idle)
  BY DEF Slots
<1>2. ClientDisconnected \in Events /\ Kind(ClientDisconnected) = 1
  BY Kinds DEF Events
<1>3. ASSUME NEW i \in 1..Len(q), w[i] = c
      PROVE  Kind(q[i]) # 1
  <2> SUFFICES ASSUME Kind(q[i]) = 1
               PROVE  FALSE
    OBVIOUS
  <2>1. PICK j \in 1..Len(q) : i < j /\ w[j] = c
    BY <1>1, <1>3 DEF Assigned
  <2>2. Kind(q[j]) = 0
    BY <1>1, <1>3, <2>1, Kinds DEF Assigned, QueueOK
  <2> QED
    BY <1>1, <2>1, <2>2 DEF Assigned, Mine
<1>4. Len(q) < EventsLen
  BY <1>1, <1>3, HasRoom
<1>5. Post(q, ClientDisconnected) = Append(q, ClientDisconnected)
  BY <1>4 DEF Post
<1>6. \E w2 : Assigned(Append(q, ClientDisconnected), w2, idle \cup {c})
  BY <1>1, <1>2, <1>3, Appended
<1>7. \A d : Mine(Append(q, ClientDisconnected), d) =
               Mine(q, d) \cup {t \in Signals : ClientDisconnected = <<t, d>>}
  BY <1>2, MineOfAppend
<1>8. \A d : \A t \in Signals : ClientDisconnected # <<t, d>>
  BY DEF ClientDisconnected, Signals
<1> QED
  BY <1>5, <1>6, <1>7, <1>8 DEF Slots

(* A signal is taken from the queue: the connection's only one.            *)
LEMMA SignalTaken ==
  ASSUME NEW q, QueueOK(q), q # <<>>, NEW idle, Slots(q, idle),
         NEW c \in Conns, NEW s \in Signals, Head(q) = <<s, c>>
  PROVE  /\ QueueOK(Tail(q))
         /\ Slots(Tail(q), idle)
         /\ s \in Mine(q, c)
         /\ Mine(Tail(q), c) = {}
         /\ \A d : d # c => Mine(Tail(q), d) = Mine(q, d)
<1>1. PICK w : Assigned(q, w, idle)
  BY DEF Slots
<1>2. Slots(Tail(q), idle)
  BY <1>1, Taken DEF Slots
<1>3. \A d : Mine(q, d) = Mine(Tail(q), d) \cup {t \in Signals : Head(q) = <<t, d>>}
  BY MineOfTail
<1>4. QueueOK(Tail(q)) /\ Len(Tail(q)) = Len(q) - 1 /\ Len(q) \in Nat \ {0} /\ Head(q) = q[1]
  BY HttpAssumption DEF QueueOK, HttpAssumption
<1>5. ASSUME NEW t \in Mine(Tail(q), c)
      PROVE  FALSE
  <2>1. PICK i \in 1..Len(Tail(q)) : Tail(q)[i] = <<t, c>>
    BY DEF Mine
  <2>2. i + 1 \in 1..Len(q) /\ q[i + 1] = <<t, c>> /\ 1 \in 1..Len(q) /\ i + 1 # 1
    BY <1>4, <2>1 DEF QueueOK
  <2>3. Kind(q[i + 1]) = 0 /\ Kind(q[1]) = 0
    BY <1>4, <2>2, Kinds DEF Mine
  <2>4. w[i + 1] = c /\ w[1] = c
    BY <1>1, <1>4, <2>2, <2>3 DEF Assigned
  <2> QED
    BY <1>1, <2>2, <2>3, <2>4 DEF Assigned
<1>6. \A d : d # c => {t \in Signals : Head(q) = <<t, d>>} = {}
  OBVIOUS
<1>7. s \in {t \in Signals : Head(q) = <<t, c>>}
  OBVIOUS
<1> QED
  BY <1>2, <1>3, <1>4, <1>5, <1>6, <1>7

(* The event of a connection that has gone is taken from the queue.        *)
LEMMA GoneTaken ==
  ASSUME NEW q, QueueOK(q), q # <<>>, NEW idle, Slots(q, idle),
         Head(q) = ClientDisconnected
  PROVE  /\ Slots(Tail(q), idle)
         /\ \A d : Mine(Tail(q), d) = Mine(q, d)
<1>1. PICK w : Assigned(q, w, idle)
  BY DEF Slots
<1>2. Slots(Tail(q), idle)
  BY <1>1, Taken DEF Slots
<1>3. \A d : Mine(q, d) = Mine(Tail(q), d) \cup {t \in Signals : Head(q) = <<t, d>>}
  BY MineOfTail
<1>4. \A d : \A t \in Signals : ClientDisconnected # <<t, d>>
  BY DEF ClientDisconnected, Signals
<1> QED
  BY <1>2, <1>3, <1>4

-----------------------------------------------------------------------------
(* CLIENTS THAT ASK ONCE AND WAIT                                          *)

(* Connections that have nothing under way, or are free.                   *)
IdleConns == {c \in Conns : link[c] = "FREE" \/ segments[c] = 0}

(* At most one thing is under way for a connection, a signal or a send,    *)
(* and exactly one from its request to the end, unless a send was refused. *)
OneAtATime(c) ==
  LET mine == Mine(queue, c)
  IN /\ link[c] \in {"FREE", "DEAF"} <=> ~context[c]
     /\ link[c] = "DEAF" => segments[c] = 0
     /\ mine # {} \/ unacked[c] > 0 => link[c] = "OPEN" /\ segments[c] > 0
     /\ unacked[c] <= 1 /\ (mine # {} => unacked[c] = 0)
     /\ link[c] = "OPEN" /\ segments[c] = 0 => left[c] = 0
     /\ link[c] = "OPEN" /\ segments[c] > 0 =>
          mine # {} \/ unacked[c] > 0 \/ refused[c]
     /\ link[c] = "OPEN" /\ left[c] > 0 => data[c] \in {"STATIC", "HEAP"}
     /\ link[c] = "CLOSING" => segments[c] > 0 /\ (left[c] = 0 \/ refused[c])
     /\ "APP_SERVICED" \in mine => handler[c] /\ left[c] = 0
     /\ "ERROR_404" \in mine => left[c] = 0
     /\ "DISCONNECT_CLIENT" \in mine => left[c] = 0 \/ refused[c]

OnceInv ==
  /\ ~crashed
  /\ Slots(queue, IdleConns)
  /\ \A c \in Conns : OneAtATime(c)

(* What is pending is a send or a signal.                                  *)
LEMMA PendingIsMine ==
  ASSUME NEW c \in Conns
  PROVE  Pending(c) <=> unacked[c] > 0 \/ Mine(queue, c) # {}
<1>1. ASSUME NEW i \in 1..Len(queue), queue[i] \in Signals \X {c}
      PROVE  Mine(queue, c) # {}
  <2>1. queue[i][1] \in Signals /\ queue[i] = <<queue[i][1], c>>
    BY <1>1
  <2> QED
    BY <2>1 DEF Mine
<1>2. ASSUME NEW s \in Mine(queue, c)
      PROVE  \E i \in 1..Len(queue) : queue[i] \in Signals \X {c}
  <2>1. PICK i \in 1..Len(queue) : queue[i] = <<s, c>>
    BY DEF Mine
  <2>2. <<s, c>> \in Signals \X {c}
    BY DEF Mine
  <2> QED
    BY <2>1, <2>2
<1> QED
  BY <1>1, <1>2 DEF Pending

(* Only this connection has changed.                                       *)
Elsewhere(c) ==
  \A d \in Conns \ {c} :
    /\ link'[d] = link[d] /\ context'[d] = context[d] /\ handler'[d] = handler[d]
    /\ data'[d] = data[d] /\ left'[d] = left[d] /\ unacked'[d] = unacked[d]
    /\ segments'[d] = segments[d] /\ refused'[d] = refused[d]
    /\ Mine(queue', d) = Mine(queue, d)

(* One connection at a time.                                               *)
LEMMA ElsewhereKept ==
  ASSUME OnceInv, NEW c \in Conns, Elsewhere(c), OneAtATime(c)'
  PROVE  \A d \in Conns : OneAtATime(d)'
<1>1. ASSUME NEW d \in Conns \ {c}
      PROVE  OneAtATime(d)'
  <2>1. OneAtATime(d)
    BY DEF OnceInv
  <2>2. /\ link'[d] = link[d] /\ context'[d] = context[d] /\ handler'[d] = handler[d]
        /\ data'[d] = data[d] /\ left'[d] = left[d] /\ unacked'[d] = unacked[d]
        /\ segments'[d] = segments[d] /\ refused'[d] = refused[d]
        /\ Mine(queue', d) = Mine(queue, d)
    BY <1>1 DEF Elsewhere
  <2>3. Mine(queue, d)' = Mine(queue', d)
    BY DEF Mine
  <2> QED
    BY <2>1, <2>2, <2>3 DEF OneAtATime
<1> QED
  BY <1>1

(* Nothing is under way at the start.                                      *)
LEMMA OnceInit == HttpInit => OnceInv
<1> SUFFICES ASSUME HttpInit
             PROVE  OnceInv
  OBVIOUS
<1>1. Len(queue) = 0 /\ 1..Len(queue) = {}
  BY DEF HttpInit
<1>2. \A c : Mine(queue, c) = {}
  BY <1>1 DEF Mine
<1>3. Assigned(queue, [i \in {} |-> i], IdleConns)
  BY <1>1 DEF Assigned
<1>4. ASSUME NEW c \in Conns
      PROVE  OneAtATime(c)
  BY <1>2 DEF HttpInit, OneAtATime
<1> QED
  BY <1>3, <1>4 DEF OnceInv, Slots, HttpInit

(* The callbacks of the SDK.                                               *)
LEMMA CallbacksKeepOnce ==
  ASSUME AsksOnce, TwoEach, HttpTypeOK, OnceInv, NEW c \in Conns,
         \/ Connect(c) \/ Receive(c) \/ Sent(c)
         \/ Closed(c) \/ Leaves(c) \/ GoesUnheard(c)
  PROVE  OnceInv'
<1>q. QueueOK(queue)
  BY DEF HttpTypeOK, QueueOK
<1>o. OneAtATime(c) /\ Slots(queue, IdleConns) /\ ~crashed
  BY DEF OnceInv
<1>m. \A q : \A d : Mine(q, d) \subseteq Signals
  BY DEF Mine
<1>t. /\ link[c] \in {"FREE", "OPEN", "CLOSING", "DEAF"} /\ left[c] \in Nat
      /\ unacked[c] \in Nat /\ segments[c] \in Nat
  BY HttpAssumption DEF HttpTypeOK, HttpAssumption
<1>p. Mine(queue, c)' = Mine(queue', c)
  BY DEF Mine
<1>1. CASE Connect(c)
  <2>1. IdleConns' = IdleConns
    BY <1>1 DEF Connect, HttpTypeOK, IdleConns
  <2>2. Elsewhere(c)
    BY <1>1 DEF Connect, HttpTypeOK, Elsewhere
  <2>3. OneAtATime(c)'
    BY <1>1, <1>o, <1>p DEF Connect, HttpTypeOK, OneAtATime
  <2>4. \A d \in Conns : OneAtATime(d)'
    BY <2>2, <2>3, ElsewhereKept
  <2> QED
    BY <1>1, <1>o, <2>1, <2>4 DEF OnceInv, Connect
<1>2. CASE Receive(c)
  <2>1. segments[c] = 0
    BY <1>2, <1>t, HttpAssumption DEF Receive, AsksOnce, HttpAssumption
  <2>2. Mine(queue, c) = {} /\ unacked[c] = 0
    BY <1>o, <1>t, <2>1 DEF OneAtATime
  <2>3. PICK s \in {"APP_SERVICED", "ERROR_404"} :
          /\ queue' = Post(queue, <<s, c>>)
          /\ s = "APP_SERVICED" => handler' = [handler EXCEPT ![c] = TRUE]
    BY <1>2 DEF Receive
  <2>4. \A d \in IdleConns : d \in IdleConns' \/ d = c
    BY <1>2 DEF Receive, HttpTypeOK, IdleConns
  <2>5. s \in Signals
    BY DEF Signals
  <2>6. /\ Slots(queue', IdleConns')
        /\ Mine(queue', c) = {s}
        /\ \A d : d # c => Mine(queue', d) = Mine(queue, d)
    BY <1>q, <1>o, <2>2, <2>3, <2>4, <2>5, SignalPosted
  <2>7. Elsewhere(c)
    BY <1>2, <2>6 DEF Receive, HttpTypeOK, Elsewhere
  <2>8. OneAtATime(c)'
    <3>1. /\ link'[c] = "OPEN" /\ link[c] = "OPEN" /\ segments'[c] = 1
          /\ context'[c] = context[c] /\ left'[c] = left[c] /\ data'[c] = data[c]
          /\ unacked'[c] = 0 /\ refused'[c] = refused[c]
          /\ s = "APP_SERVICED" => handler'[c]
      BY <1>2, <2>1, <2>2, <2>3 DEF Receive, HttpTypeOK
    <3>2. left[c] = 0 /\ (link[c] \in {"FREE", "DEAF"} <=> ~context[c])
      BY <1>o, <2>1, <3>1 DEF OneAtATime
    <3> QED
      BY <1>p, <2>6, <3>1, <3>2 DEF OneAtATime
  <2>9. \A d \in Conns : OneAtATime(d)'
    BY <2>7, <2>8, ElsewhereKept
  <2> QED
    BY <1>2, <1>o, <2>6, <2>9 DEF OnceInv, Receive
<1>3. CASE Sent(c)
  <2>1. Mine(queue, c) = {} /\ unacked[c] = 1
    BY <1>3, <1>o, <1>t DEF Sent, OneAtATime
  <2>2. PICK s \in {"SEND_DATA", "DISCONNECT_CLIENT"} :
          /\ queue' = Post(queue, <<s, c>>)
          /\ s = "DISCONNECT_CLIENT" => left[c] = 0
    BY <1>3, <1>t DEF Sent
  <2>3. IdleConns' = IdleConns
    BY <1>3 DEF Sent, IdleConns
  <2>4. s \in Signals
    BY DEF Signals
  <2>5. /\ Slots(queue', IdleConns)
        /\ Mine(queue', c) = {s}
        /\ \A d : d # c => Mine(queue', d) = Mine(queue, d)
    BY <1>q, <1>o, <2>1, <2>2, <2>4, SignalPosted
  <2>6. Elsewhere(c)
    BY <1>3, <2>5 DEF Sent, HttpTypeOK, Elsewhere
  <2>7. OneAtATime(c)'
    <3>1. /\ link'[c] = link[c] /\ segments'[c] = segments[c] /\ handler'[c] = handler[c]
          /\ context'[c] = context[c] /\ left'[c] = left[c] /\ data'[c] = data[c]
          /\ unacked'[c] = 0 /\ refused'[c] = refused[c]
      BY <1>3, <2>1 DEF Sent, HttpTypeOK
    <3>2. /\ link[c] = "OPEN" /\ segments[c] > 0 /\ context[c]
          /\ left[c] > 0 => data[c] \in {"STATIC", "HEAP"}
      BY <1>o, <2>1 DEF OneAtATime
    <3> QED
      BY <1>p, <2>2, <2>5, <3>1, <3>2 DEF OneAtATime
  <2>8. \A d \in Conns : OneAtATime(d)'
    BY <2>6, <2>7, ElsewhereKept
  <2> QED
    BY <1>3, <1>o, <2>3, <2>5, <2>8 DEF OnceInv, Sent
<1>4. ASSUME Gone(c), Closed(c) \/ Leaves(c)
      PROVE  OnceInv'
  <2>1. link[c] # "FREE" /\ segments[c] > 0 /\ Mine(queue, c) = {}
    <3>1. CASE Closed(c)
      BY <3>1, <1>o, <1>t DEF Closed, OneAtATime
    <3>2. CASE Leaves(c)
      BY <3>2, PendingIsMine DEF Leaves, AsksOnce
    <3> QED
      BY <1>4, <3>1, <3>2
  <2>2. c \notin IdleConns
    BY <1>t, <2>1 DEF IdleConns
  <2>3. queue' = Post(queue, ClientDisconnected)
    BY <1>4 DEF Gone
  <2>4. /\ Slots(queue', IdleConns \cup {c})
        /\ \A d : Mine(queue', d) = Mine(queue, d)
    BY <1>q, <1>o, <2>1, <2>2, <2>3, GonePosted
  <2>5. IdleConns' = IdleConns \cup {c}
    BY <1>4 DEF Gone, HttpTypeOK, IdleConns
  <2>6. Elsewhere(c)
    BY <1>4, <2>4 DEF Gone, HttpTypeOK, Elsewhere
  <2>7. OneAtATime(c)'
    BY <1>4, <1>p, <2>1, <2>4 DEF Gone, HttpTypeOK, OneAtATime
  <2>8. \A d \in Conns : OneAtATime(d)'
    BY <2>6, <2>7, ElsewhereKept
  <2> QED
    BY <1>4, <1>o, <2>4, <2>5, <2>8 DEF OnceInv, Gone
<1>5. CASE GoesUnheard(c)
  <2>1. segments[c] = 0
    BY <1>5, <1>o DEF GoesUnheard, OneAtATime
  <2>2. IdleConns' = IdleConns
    BY <1>5, <2>1 DEF GoesUnheard, HttpTypeOK, IdleConns
  <2>3. Mine(queue, c)' = Mine(queue, c) /\ Elsewhere(c)
    BY <1>5, <1>p DEF GoesUnheard, HttpTypeOK, Elsewhere
  <2>4. OneAtATime(c)'
    BY <1>5, <1>o, <2>3 DEF GoesUnheard, HttpTypeOK, OneAtATime
  <2>5. \A d \in Conns : OneAtATime(d)'
    BY <2>3, <2>4, ElsewhereKept
  <2> QED
    BY <1>5, <1>o, <2>2, <2>5 DEF OnceInv, GoesUnheard
<1> QED
  BY <1>1, <1>2, <1>3, <1>4, <1>5 DEF Closed, Leaves

(* server_Task.                                                            *)
LEMMA TaskKeepsOnce ==
  ASSUME TwoEach, HttpTypeOK, OnceInv, ServerTask
  PROVE  OnceInv'
<1>q. QueueOK(queue)
  BY DEF HttpTypeOK, QueueOK
<1>o. Slots(queue, IdleConns) /\ ~crashed /\ \A d \in Conns : OneAtATime(d)
  BY DEF OnceInv
<1>p. \A d : Mine(queue, d)' = Mine(queue', d)
  BY DEF Mine
<1>1. CASE ServeClientDisconnected
  <2>1. IdleConns' = IdleConns
    BY <1>1 DEF ServeClientDisconnected, connVars, IdleConns
  <2>2. Slots(queue', IdleConns) /\ \A d : Mine(queue', d) = Mine(queue, d)
    BY <1>1, <1>q, <1>o, GoneTaken DEF ServeClientDisconnected
  <2>3. ASSUME NEW d \in Conns
        PROVE  OneAtATime(d)'
    BY <1>1, <1>o, <1>p, <2>2 DEF ServeClientDisconnected, connVars, OneAtATime
  <2> QED
    BY <1>1, <1>o, <2>1, <2>2, <2>3 DEF OnceInv, ServeClientDisconnected
<1>2. ASSUME NEW c \in Conns, Serve(c)
      PROVE  OnceInv'
  <2>1. PICK s \in Signals : Serving(s, c)
    BY <1>2 DEF Serve, ServeNull, ServeDisconnect, ServePiece, ServeNoPiece,
                ServeAnswer, ServeAnswerFails, ServeError, Signals
  <2>2. queue # <<>> /\ Head(queue) = <<s, c>>
    BY <2>1 DEF Serving
  <2>3. /\ QueueOK(Tail(queue))
        /\ Slots(Tail(queue), IdleConns)
        /\ s \in Mine(queue, c)
        /\ Mine(Tail(queue), c) = {}
        /\ \A d : d # c => Mine(Tail(queue), d) = Mine(queue, d)
    BY <1>q, <1>o, <2>2, SignalTaken
  <2>4. \A t : Serving(t, c) => t = s
    BY <2>2 DEF Serving
  <2>5. /\ link[c] = "OPEN" /\ segments[c] > 0 /\ context[c] /\ unacked[c] = 0
        /\ left[c] > 0 => data[c] \in {"STATIC", "HEAP"}
        /\ s = "APP_SERVICED" => handler[c] /\ left[c] = 0
        /\ s = "ERROR_404" => left[c] = 0
        /\ s = "DISCONNECT_CLIENT" => left[c] = 0 \/ refused[c]
    <3>1. OneAtATime(c)
      BY <1>o
    <3> QED
      BY <2>3, <3>1 DEF OneAtATime, HttpTypeOK
  <2>6. IdleConns' = IdleConns
    <3>1. segments' = segments
      BY <1>2 DEF Serve, ServeNull, ServeDisconnect, ServePiece, ServeNoPiece,
                  ServeAnswer, ServeAnswerFails, ServeError, connVars
    <3>2. link' = link \/ link' = [link EXCEPT ![c] = "CLOSING"]
      BY <1>2, <2>5 DEF Serve, ServeNull, ServeDisconnect, ServePiece, ServeNoPiece,
                        ServeAnswer, ServeAnswerFails, ServeError, connVars
    <3>3. \A d \in Conns : link'[d] = "FREE" <=> link[d] = "FREE"
      BY <2>5, <3>2 DEF HttpTypeOK
    <3> QED
      BY <3>1, <3>3 DEF IdleConns
  <2>7. ASSUME NEW t \in Signals
        PROVE  LET q == Post(Tail(queue), <<t, c>>)
               IN /\ Slots(q, IdleConns)
                  /\ Mine(q, c) = {t}
                  /\ \A d : d # c => Mine(q, d) = Mine(queue, d)
    <3>1. \A d \in IdleConns : d \in IdleConns \/ d = c
      OBVIOUS
    <3> QED
      BY <2>3, <3>1, SignalPosted
  <2>8. "DISCONNECT_CLIENT" \in Signals
    BY DEF Signals
  <2>a. SUFFICES /\ ~crashed'
                 /\ Slots(queue', IdleConns)
                 /\ Elsewhere(c)
                 /\ OneAtATime(c)'
    BY <2>6, ElsewhereKept DEF OnceInv
  <2>9. ~ServeNull(c)
    BY <2>4, <2>5 DEF ServeNull
  <2>10. CASE ServeDisconnect(c)
    <3>1. s = "DISCONNECT_CLIENT" /\ queue' = Tail(queue) /\ crashed' = crashed
      BY <2>4, <2>10 DEF ServeDisconnect
    <3>2. Elsewhere(c)
      BY <2>3, <2>10, <3>1 DEF ServeDisconnect, HttpTypeOK, Elsewhere
    <3>3. /\ link'[c] = "CLOSING" /\ context'[c] /\ segments'[c] = segments[c]
          /\ left'[c] = left[c] /\ refused'[c] = refused[c] /\ unacked'[c] = 0
      BY <2>5, <2>10 DEF ServeDisconnect, HttpTypeOK
    <3>4. OneAtATime(c)'
      BY <1>p, <2>3, <2>5, <3>1, <3>3 DEF OneAtATime
    <3> QED
      BY <1>o, <2>3, <3>1, <3>2, <3>4
  <2>11. CASE ServePiece(c)
    <3>1. CASE queue' = Tail(queue) /\ unacked' = [unacked EXCEPT ![c] = @ + 1]
      <4>1. Elsewhere(c)
        BY <2>3, <2>11, <3>1 DEF ServePiece, HttpTypeOK, Elsewhere
      <4>2. /\ link'[c] = link[c] /\ context'[c] /\ segments'[c] = segments[c]
            /\ data'[c] = data[c] /\ unacked'[c] = 1
            /\ left'[c] > 0 => left[c] > 0
        BY <2>5, <2>11, <3>1, HttpAssumption DEF ServePiece, HttpTypeOK, HttpAssumption
      <4>3. OneAtATime(c)'
        BY <1>p, <2>3, <2>5, <3>1, <4>2 DEF OneAtATime
      <4> QED
        BY <1>o, <2>3, <2>11, <3>1, <4>1, <4>3 DEF ServePiece
    <3>2. CASE /\ queue' = Post(Tail(queue), <<"DISCONNECT_CLIENT", c>>)
               /\ refused' = [refused EXCEPT ![c] = TRUE]
               /\ UNCHANGED <<left, unacked>>
      <4>1. Elsewhere(c)
        BY <2>7, <2>8, <2>11, <3>2 DEF ServePiece, HttpTypeOK, Elsewhere
      <4>2. /\ link'[c] = link[c] /\ context'[c] /\ segments'[c] = segments[c]
            /\ data'[c] = data[c] /\ left'[c] = left[c] /\ unacked'[c] = 0 /\ refused'[c]
        BY <2>5, <2>11, <3>2 DEF ServePiece, HttpTypeOK
      <4>3. OneAtATime(c)'
        BY <1>p, <2>5, <2>7, <2>8, <3>2, <4>2 DEF OneAtATime
      <4> QED
        BY <1>o, <2>7, <2>8, <2>11, <3>2, <4>1, <4>3 DEF ServePiece
    <3> QED
      BY <2>11, <3>1, <3>2 DEF ServePiece
  <2>12. CASE ServeNoPiece(c)
    <3>1. queue' = Post(Tail(queue), <<"DISCONNECT_CLIENT", c>>)
      BY <2>12 DEF ServeNoPiece
    <3>2. Elsewhere(c)
      BY <2>7, <2>8, <2>12, <3>1 DEF ServeNoPiece, connVars, HttpTypeOK, Elsewhere
    <3>3. left[c] = 0
      BY <2>5, <2>12, HttpAssumption DEF ServeNoPiece, HttpTypeOK, HttpAssumption
    <3>4. OneAtATime(c)'
      BY <1>p, <2>5, <2>7, <2>8, <2>12, <3>1, <3>3 DEF ServeNoPiece, connVars, OneAtATime
    <3> QED
      BY <1>o, <2>7, <2>8, <2>12, <3>1, <3>2, <3>4 DEF ServeNoPiece
  <2>13. ASSUME NEW payload \in {"STATIC", "HEAP"}, NEW pieces \in 1..MaxPieces,
                ServeAnswer(c, payload, pieces)
         PROVE  /\ ~crashed' /\ Slots(queue', IdleConns)
                /\ Elsewhere(c) /\ OneAtATime(c)'
    <3>1. queue' = Tail(queue) /\ crashed' = crashed
      BY <2>13 DEF ServeAnswer
    <3>2. Elsewhere(c)
      BY <2>3, <2>13, <3>1 DEF ServeAnswer, HttpTypeOK, Elsewhere
    <3>3. /\ link'[c] = link[c] /\ context'[c] /\ segments'[c] = segments[c]
          /\ data'[c] = payload /\ unacked'[c] = 1
      BY <2>5, <2>13 DEF ServeAnswer, HttpTypeOK
    <3>4. OneAtATime(c)'
      BY <1>p, <2>3, <2>5, <3>1, <3>3 DEF OneAtATime
    <3> QED
      BY <1>o, <2>3, <3>1, <3>2, <3>4
  <2>14. ASSUME NEW payload \in {"STATIC", "HEAP"}, ServeAnswerFails(c, payload)
         PROVE  /\ ~crashed' /\ Slots(queue', IdleConns)
                /\ Elsewhere(c) /\ OneAtATime(c)'
    <3>1. /\ link'[c] = link[c] /\ context'[c] /\ segments'[c] = segments[c]
          /\ left'[c] = left[c] /\ unacked'[c] = 0 /\ refused'[c] /\ crashed' = crashed
      BY <2>5, <2>14 DEF ServeAnswerFails, HttpTypeOK
    <3>2. left[c] = 0
      BY <2>4, <2>5, <2>14 DEF ServeAnswerFails
    <3>3. CASE queue' = Tail(queue)
      <4>1. Elsewhere(c)
        BY <2>3, <2>14, <3>3 DEF ServeAnswerFails, HttpTypeOK, Elsewhere
      <4>2. OneAtATime(c)'
        BY <1>p, <2>3, <2>5, <3>1, <3>2, <3>3 DEF OneAtATime
      <4> QED
        BY <1>o, <2>3, <3>1, <3>3, <4>1, <4>2
    <3>4. CASE queue' = Post(Tail(queue), <<"DISCONNECT_CLIENT", c>>)
      <4>1. Elsewhere(c)
        BY <2>7, <2>8, <2>14, <3>4 DEF ServeAnswerFails, HttpTypeOK, Elsewhere
      <4>2. OneAtATime(c)'
        BY <1>p, <2>5, <2>7, <2>8, <3>1, <3>2, <3>4 DEF OneAtATime
      <4> QED
        BY <1>o, <2>7, <2>8, <3>1, <3>4, <4>1, <4>2
    <3> QED
      BY <2>14, <3>3, <3>4 DEF ServeAnswerFails
  <2>15. CASE ServeError(c)
    <3>1. queue' = Tail(queue) /\ crashed' = crashed
      BY <2>15 DEF ServeError
    <3>2. Elsewhere(c)
      BY <2>3, <2>15, <3>1 DEF ServeError, HttpTypeOK, Elsewhere
    <3>3. left[c] = 0
      BY <2>4, <2>5, <2>15 DEF ServeError
    <3>4. /\ link'[c] = link[c] /\ context'[c] /\ segments'[c] = segments[c]
          /\ left'[c] = left[c]
          /\ unacked'[c] = 1 \/ (unacked'[c] = 0 /\ refused'[c])
      BY <2>5, <2>15 DEF ServeError, HttpTypeOK
    <3>5. OneAtATime(c)'
      BY <1>p, <2>3, <2>5, <3>1, <3>3, <3>4 DEF OneAtATime
    <3> QED
      BY <1>o, <2>3, <3>1, <3>2, <3>5
  <2> QED
    BY <1>2, <2>9, <2>10, <2>11, <2>12, <2>13, <2>14, <2>15 DEF Serve
<1> QED
  BY <1>1, <1>2 DEF ServerTask

(* Every step keeps it.                                                    *)
LEMMA StepKeepsOnce ==
  ASSUME AsksOnce, TwoEach, HttpTypeOK, OnceInv, [HttpNext]_httpVars
  PROVE  OnceInv'
<1>1. CASE ServerTask
  BY <1>1, TaskKeepsOnce
<1>2. ASSUME NEW c \in Conns,
             \/ Connect(c) \/ Receive(c) \/ Sent(c)
             \/ Closed(c) \/ Leaves(c) \/ GoesUnheard(c)
      PROVE  OnceInv'
  BY <1>2, CallbacksKeepOnce
<1>3. CASE UNCHANGED httpVars
  <2>1. \A d : Mine(queue, d)' = Mine(queue, d)
    BY <1>3 DEF Mine, httpVars
  <2>2. IdleConns' = IdleConns
    BY <1>3 DEF IdleConns, httpVars
  <2> QED
    BY <1>3, <2>1, <2>2 DEF OnceInv, OneAtATime, httpVars
<1> QED
  BY <1>1, <1>2, <1>3 DEF HttpNext

(* So it always holds.                                                     *)
LEMMA OnceAlways ==
  ASSUME AsksOnce, TwoEach
  PROVE  HttpSpec => [](HttpTypeOK /\ OnceInv)
<1>1. HttpTypeOK /\ OnceInv /\ [HttpNext]_httpVars => OnceInv'
  BY StepKeepsOnce
<1> QED
  BY <1>1, OnceInit, HttpTypeCorrect, PTL DEF HttpSpec

(* The queue of server_Task is large enough: with two entries for each     *)
(* connection no event is dropped that somebody waits for.                 *)
THEOREM NeverForgottenHolds ==
  ASSUME AsksOnce, TwoEach
  PROVE  HttpSpec => []NeverForgotten
<1>1. HttpTypeOK /\ OnceInv => NeverForgotten
  BY PendingIsMine DEF OnceInv, OneAtATime, NeverForgotten
<1> QED
  BY <1>1, OnceAlways, PTL

(* The server does not hang up on such a client with a part of the         *)
(* response still to be sent, unless a send was refused.                   *)
THEOREM HangsUpWhenDoneHolds ==
  ASSUME AsksOnce, TwoEach
  PROVE  HttpSpec => []HangsUpWhenDone
<1>1. HttpTypeOK /\ OnceInv => HangsUpWhenDone
  BY DEF OnceInv, OneAtATime, HangsUpWhenDone
<1> QED
  BY <1>1, OnceAlways, PTL

(* It sends no piece of a payload that was freed.                          *)
THEOREM ReadsLivePayloadHolds ==
  ASSUME AsksOnce, TwoEach
  PROVE  HttpSpec => []ReadsLivePayload
<1>1. ASSUME HttpTypeOK, OnceInv, NEW c \in Conns,
             Serving("SEND_DATA", c), left[c] > 0
      PROVE  data[c] \in {"STATIC", "HEAP"}
  <2>1. "SEND_DATA" \in Mine(queue, c)
    BY <1>1, SignalTaken DEF Serving, OnceInv, QueueOK, HttpTypeOK, Signals
  <2> QED
    BY <1>1, <2>1 DEF OnceInv, OneAtATime
<1>2. HttpTypeOK /\ OnceInv => ReadsLivePayload
  BY <1>1 DEF ReadsLivePayload
<1> QED
  BY <1>2, OnceAlways, PTL

(* And no event of such a client is served without a context or a handler. *)
THEOREM NeverCrashes ==
  ASSUME AsksOnce, TwoEach
  PROVE  HttpSpec => []~crashed
<1>1. HttpTypeOK /\ OnceInv => ~crashed
  BY DEF OnceInv
<1> QED
  BY <1>1, OnceAlways, PTL
=============================================================================
