--------------------------- MODULE PrinterProofs ----------------------------
(***************************************************************************)
(* Proofs about the time printer, for every size of its buffer, every set  *)
(* of commands and any number of them, of seconds and of presses.          *)
(***************************************************************************)
EXTENDS Printer, SequenceLemmas

-----------------------------------------------------------------------------
(* THE RING BUFFER, WHATEVER USES IT                                       *)

(* The remainder only comes into play at the end of the array.             *)
LEMMA SuccWraps ==
  ASSUME NEW i \in Indices
  PROVE  /\ Succ(i) = IF i + 1 = PendingSize THEN 0 ELSE i + 1
         /\ Succ(i) \in Indices
<1>1. CASE i + 1 = PendingSize
  BY <1>1, RingAssumption, SMT DEF Succ, Indices
<1>2. CASE i + 1 # PendingSize
  <2>1. i + 1 \in 0..PendingSize - 1
    BY <1>2, RingAssumption, SMT DEF Indices
  <2>2. (i + 1) % PendingSize = i + 1
    BY <2>1, RingAssumption, SMT
  <2> QED
    BY <1>2, <2>1, <2>2 DEF Succ, Indices
<1> QED
  BY <1>1, <1>2

(* The indices stay in the array whatever is stored and taken.             *)
THEOREM RingTypeCorrect == RingSpec => []RingTypeOK
<1>1. RingInit => RingTypeOK
  BY RingAssumption, SMT DEF RingInit, RingTypeOK, Indices
<1>2. RingTypeOK /\ [RingNext]_ringVars => RingTypeOK'
  <2> SUFFICES ASSUME RingTypeOK, [RingNext]_ringVars
               PROVE  RingTypeOK'
    OBVIOUS
  <2>1. CASE Take
    BY <2>1, SuccWraps DEF Take, RingTypeOK
  <2>2. ASSUME NEW byte \in Bytes, Store(byte)
        PROVE  RingTypeOK'
    BY <2>2, SuccWraps DEF Store, RingTypeOK
  <2>3. CASE UNCHANGED ringVars
    BY <2>3 DEF ringVars, RingTypeOK
  <2> QED
    BY <2>1, <2>2, <2>3 DEF RingNext
<1> QED
  BY <1>1, <1>2, PTL DEF RingSpec

(* The place of every byte in the buffer is one of the array, and the      *)
(* content a sequence.                                                     *)
LEMMA BetweenIsASequence ==
  ASSUME NEW bytes \in [Indices -> Bytes], NEW head \in Indices,
         NEW tail \in Indices
  PROVE  /\ Count(head, tail) \in 0..PendingSize - 1
         /\ \A i \in 1..Count(head, tail) : Place(tail, i) \in Indices
         /\ Between(bytes, head, tail) \in Seq(Bytes)
         /\ Len(Between(bytes, head, tail)) = Count(head, tail)
<1>1. Count(head, tail) \in 0..PendingSize - 1
  BY RingAssumption, SMT DEF Indices, Count
<1>2. ASSUME NEW i \in 1..Count(head, tail)
      PROVE  Place(tail, i) \in Indices
  BY <1>1, RingAssumption, SMT DEF Indices, Place
<1>3. \A i \in 1..Count(head, tail) : bytes[Place(tail, i)] \in Bytes
  BY <1>2
<1>4. Between(bytes, head, tail) \in [1..Count(head, tail) -> Bytes]
  BY <1>3 DEF Between
<1>5. /\ Between(bytes, head, tail) \in Seq(Bytes)
      /\ Len(Between(bytes, head, tail)) = Count(head, tail)
  BY <1>1, <1>4, SMT
<1> QED
  BY <1>1, <1>2, <1>5

(* The test for a full buffer is right: one place is never used.           *)
THEOREM FullWhenFull ==
  ASSUME RingTypeOK
  PROVE  /\ IsFull <=> Count(pendingHead, pendingTail) = PendingSize - 1
         /\ IsEmpty <=> Count(pendingHead, pendingTail) = 0
<1>1. pendingHead \in Indices /\ pendingTail \in Indices
  BY DEF RingTypeOK
<1> QED
  BY <1>1, SuccWraps, RingAssumption, SMT DEF IsFull, IsEmpty, Count, Indices

(* A byte stored at the head comes after those in the buffer.              *)
LEMMA StoreAppends ==
  ASSUME NEW bytes \in [Indices -> Bytes], NEW head \in Indices,
         NEW tail \in Indices,
         NEW byte \in Bytes, Succ(head) # tail
  PROVE  Between([bytes EXCEPT ![head] = byte], Succ(head), tail)
           = Append(Between(bytes, head, tail), byte)
<1> DEFINE n == Count(head, tail)
           before == Between(bytes, head, tail)
           after == Between([bytes EXCEPT ![head] = byte], Succ(head), tail)
<1>1. Count(Succ(head), tail) = n + 1
  <2>1. Succ(head) = IF head + 1 = PendingSize THEN 0 ELSE head + 1
    BY SuccWraps
  <2> QED
    BY <2>1, RingAssumption, SMT DEF Count, Indices
<1>2. n \in Nat
  BY BetweenIsASequence, RingAssumption, SMT
<1>3. [bytes EXCEPT ![head] = byte] \in [Indices -> Bytes]
      /\ Succ(head) \in Indices
  BY SuccWraps
<1>4. ASSUME NEW i \in 1..n
      PROVE  after[i] = before[i]
  <2>1. Place(tail, i) # head
    BY RingAssumption, SMT DEF Place, Count, Indices
  <2>2. Place(tail, i) \in Indices
    BY BetweenIsASequence
  <2>3. i \in 1..Count(Succ(head), tail)
    BY <1>1, <1>2, SMT
  <2> QED
    BY <2>1, <2>2, <2>3 DEF Between
<1>5. after[n + 1] = byte
  <2>1. Place(tail, n + 1) = head
    BY RingAssumption, SMT DEF Place, Count, Indices
  <2>2. n + 1 \in 1..Count(Succ(head), tail)
    BY <1>1, <1>2, SMT
  <2> QED
    BY <2>1, <2>2 DEF Between
<1>6. before \in Seq(Bytes) /\ Len(before) = n
  BY BetweenIsASequence
<1>7. after \in Seq(Bytes) /\ Len(after) = n + 1
  <2>1. /\ after \in Seq(Bytes)
        /\ Len(after) = Count(Succ(head), tail)
    BY <1>3, BetweenIsASequence
  <2> QED
    BY <1>1, <2>1
<1> HIDE DEF before, after, n
<1>8. /\ Append(before, byte) \in Seq(Bytes)
      /\ Len(Append(before, byte)) = n + 1
      /\ \A i \in 1..n : Append(before, byte)[i] = before[i]
      /\ Append(before, byte)[n + 1] = byte
  BY <1>6, AppendProperties
<1>9. \A i \in 1..n + 1 : after[i] = Append(before, byte)[i]
  <2>1. \A i \in 1..n + 1 : i \in 1..n \/ i = n + 1
    BY <1>2, SMT
  <2> QED
    BY <1>4, <1>5, <1>8, <2>1
<1>10. after = Append(before, byte)
  BY <1>7, <1>8, <1>9, SeqEqual
<1> QED
  BY <1>10 DEF before, after

(* The byte at the tail is the first, and is gone when the tail moves on.  *)
LEMMA TakeIsTail ==
  ASSUME NEW bytes \in [Indices -> Bytes], NEW head \in Indices,
         NEW tail \in Indices,
         head # tail
  PROVE  /\ Between(bytes, head, tail) # <<>>
         /\ Between(bytes, head, Succ(tail)) = Tail(Between(bytes, head, tail))
<1> DEFINE n == Count(head, tail)
           before == Between(bytes, head, tail)
           after == Between(bytes, head, Succ(tail))
<1>0. Succ(tail) = IF tail + 1 = PendingSize THEN 0 ELSE tail + 1
  BY SuccWraps
<1>1. Count(head, Succ(tail)) = n - 1 /\ n \in Nat \ {0}
  BY <1>0, RingAssumption, SMT DEF Count, Indices
<1>2. Succ(tail) \in Indices
  BY SuccWraps
<1>3. ASSUME NEW i \in 1..n - 1
      PROVE  after[i] = before[i + 1]
  <2>1. Place(Succ(tail), i) = Place(tail, i + 1)
    BY <1>0, RingAssumption, SMT DEF Place, Count, Indices
  <2>2. i \in 1..Count(head, Succ(tail)) /\ i + 1 \in 1..n
    BY <1>1, SMT
  <2> QED
    BY <2>1, <2>2 DEF Between
<1>4. before \in Seq(Bytes) /\ Len(before) = n
  BY BetweenIsASequence
<1>5. after \in Seq(Bytes) /\ Len(after) = n - 1
  <2>1. after \in Seq(Bytes) /\ Len(after) = Count(head, Succ(tail))
    BY <1>2, BetweenIsASequence
  <2> QED
    BY <1>1, <2>1
<1> HIDE DEF before, after, n
<1>6. before # <<>>
  BY <1>1, <1>4, EmptySeq
<1>7. /\ Tail(before) \in Seq(Bytes)
      /\ Len(Tail(before)) = n - 1
      /\ \A i \in 1..Len(Tail(before)) : Tail(before)[i] = before[i + 1]
  BY <1>4, <1>6, HeadTailProperties
<1>8. after = Tail(before)
  BY <1>3, <1>5, <1>7, SeqEqual
<1> QED
  BY <1>6, <1>8 DEF before, after

(* The buffer implements the queue: it starts empty, every byte that is    *)
(* stored is put at the end or, when it is full, changes nothing, and      *)
(* every byte taken is the first.                                          *)
THEOREM RingIsFifo == RingSpec => IsFifo
<1>1. RingTypeOK /\ RingInit => Promise!FifoInit
  <2> SUFFICES ASSUME RingTypeOK, RingInit
               PROVE  Content = <<>>
    BY DEF Promise!FifoInit
  <2>1. Count(pendingHead, pendingTail) = 0
    BY SMT DEF RingInit, Count
  <2>2. Content \in Seq(Bytes) /\ Len(Content) = 0
    BY <2>1, BetweenIsASequence DEF Content, RingTypeOK
  <2> QED
    BY <2>2, EmptySeq
<1>2. RingTypeOK /\ RingTypeOK'
      /\ [RingNext]_ringVars => [Promise!FifoNext]_Content
  <2> SUFFICES ASSUME RingTypeOK, [RingNext]_ringVars
               PROVE  Promise!FifoNext \/ UNCHANGED Content
    OBVIOUS
  <2>1. CASE Take
    <3>1. Content # <<>> /\ Content' = Tail(Content)
      BY <2>1, TakeIsTail DEF Take, IsEmpty, Content, RingTypeOK
    <3> QED
      BY <3>1 DEF Promise!FifoNext, Promise!Get
  <2>2. ASSUME NEW byte \in Bytes, Store(byte), ~IsFull
        PROVE  Promise!FifoNext
    <3>1. Content' = Append(Content, byte)
      <4>1. /\ pending' = [pending EXCEPT ![pendingHead] = byte]
            /\ pendingHead' = Succ(pendingHead)
            /\ pendingTail' = pendingTail
        BY <2>2 DEF Store
      <4>2. /\ pending \in [Indices -> Bytes]
            /\ pendingHead \in Indices
            /\ pendingTail \in Indices
            /\ Succ(pendingHead) # pendingTail
        BY <2>2 DEF RingTypeOK, IsFull
      <4> QED
        BY <4>1, <4>2, StoreAppends DEF Content
    <3>2. Len(Content) = Count(pendingHead, pendingTail)
      BY BetweenIsASequence DEF Content, RingTypeOK
    <3>3. Count(pendingHead, pendingTail) \in 0..PendingSize - 1
      BY BetweenIsASequence DEF RingTypeOK
    <3>4. Len(Content) < PendingSize - 1
      BY <2>2, <3>2, <3>3, FullWhenFull, RingAssumption, SMT
    <3> QED
      BY <3>1, <3>4 DEF Promise!FifoNext, Promise!Put
  <2>3. ASSUME NEW byte \in Bytes, Store(byte), IsFull
        PROVE  UNCHANGED Content
    BY <2>3 DEF Store, Content
  <2>4. CASE UNCHANGED ringVars
    BY <2>4 DEF ringVars, Content
  <2> QED
    BY <2>1, <2>2, <2>3, <2>4 DEF RingNext
<1> QED
  BY <1>1, <1>2, RingTypeCorrect, PTL DEF RingSpec, IsFifo, Promise!FifoSpec

-----------------------------------------------------------------------------
(* THE PRINTER                                                             *)

(* What is on the way is a sequence of bytes.                              *)
LineTypeOK == line \in Seq(Bytes)

LEMMA LineTypeCorrect == PrinterSpec => []LineTypeOK
<1>1. PrinterInit => LineTypeOK
  BY EmptySeq DEF PrinterInit, LineTypeOK
<1>2. LineTypeOK /\ [PrinterNext]_printerVars => LineTypeOK'
  <2> SUFFICES ASSUME LineTypeOK, [PrinterNext]_printerVars
               PROVE  LineTypeOK'
    OBVIOUS
  <2>1. ASSUME NEW command \in Commands, Ask(command)
        PROVE  LineTypeOK'
    <3>1. Written(command) \in Seq(Bytes)
      BY PrinterAssumption
    <3>2. line \o Written(command) \in Seq(Bytes)
      BY <3>1, ConcatProperties DEF LineTypeOK
    <3> QED
      BY <2>1, <3>2 DEF Ask, LineTypeOK
  <2>2. CASE SerialEvent
    <3>1. Tail(line) \in Seq(Bytes)
      BY <2>2, HeadTailProperties DEF SerialEvent, LineTypeOK
    <3> QED
      BY <2>2, <3>1 DEF SerialEvent, LineTypeOK
  <2>3. CASE PinFalls
    BY <2>3 DEF PinFalls, LineTypeOK
  <2>4. CASE SecondPasses
    BY <2>4 DEF SecondPasses, LineTypeOK
  <2>5. CASE Due
    BY <2>5 DEF Due, LineTypeOK
  <2>6. CASE ProcessCommand
    BY <2>6 DEF ProcessCommand, LineTypeOK
  <2>7. CASE UpdateBuffer
    BY <2>7 DEF UpdateBuffer, LineTypeOK
  <2>8. CASE UNCHANGED printerVars
    BY <2>8 DEF printerVars, LineTypeOK
  <2> QED
    BY <2>1, <2>2, <2>3, <2>4, <2>5, <2>6, <2>7, <2>8 DEF PrinterNext
<1> QED
  BY <1>1, <1>2, PTL DEF PrinterSpec

(* Everything the printer does to its buffer is storing or taking a byte.  *)
LEMMA PrinterUsesRing == PrinterSpec => RingSpec
<1>1. PrinterInit => RingInit
  BY DEF PrinterInit
<1>2. LineTypeOK /\ [PrinterNext]_printerVars => [RingNext]_ringVars
  <2> SUFFICES ASSUME LineTypeOK, [PrinterNext]_printerVars
               PROVE  RingNext \/ UNCHANGED ringVars
    OBVIOUS
  <2>1. ASSUME NEW command \in Commands, Ask(command)
        PROVE  UNCHANGED ringVars
    BY <2>1 DEF Ask
  <2>2. CASE SerialEvent
    <3>1. Head(line) \in Bytes
      BY <2>2, HeadTailProperties DEF SerialEvent, LineTypeOK
    <3>2. CASE serialDisable
      BY <2>2, <3>2 DEF SerialEvent
    <3>3. CASE ~serialDisable
      BY <2>2, <3>1, <3>3 DEF SerialEvent, RingNext
    <3> QED
      BY <3>2, <3>3
  <2>3. CASE PinFalls
    BY <2>3 DEF PinFalls
  <2>4. CASE SecondPasses
    BY <2>4 DEF SecondPasses
  <2>5. CASE Due
    BY <2>5 DEF Due
  <2>6. CASE ProcessCommand
    BY <2>6 DEF ProcessCommand, RingNext
  <2>7. CASE UpdateBuffer
    BY <2>7 DEF UpdateBuffer
  <2>8. CASE UNCHANGED printerVars
    BY <2>8 DEF printerVars
  <2> QED
    BY <2>1, <2>2, <2>3, <2>4, <2>5, <2>6, <2>7, <2>8 DEF PrinterNext
<1> QED
  BY <1>1, <1>2, LineTypeCorrect, PTL DEF PrinterSpec, RingSpec

(* The bytes of the commands that the printer works off are those that     *)
(* arrived, in order, short only of those that found the buffer full or    *)
(* the line disabled.                                                      *)
THEOREM PrinterKeepsOrder == PrinterSpec => IsFifo
BY PrinterUsesRing, RingIsFifo, PTL

(* A text that does not scroll stands at its beginning: wherever scrolling *)
(* is switched off the offset goes back, and it does not move on.          *)
StandsStill == scroll \in BOOLEAN /\ (~scroll => offset = 0)

THEOREM StandsStillHolds == PrinterSpec => []StandsStill
<1>1. PrinterInit => StandsStill
  BY DEF PrinterInit, StandsStill
<1>2. StandsStill /\ [PrinterNext]_printerVars => StandsStill'
  <2> SUFFICES ASSUME StandsStill, [PrinterNext]_printerVars
               PROVE  StandsStill'
    OBVIOUS
  <2>1. ASSUME NEW command \in Commands, Ask(command)
        PROVE  StandsStill'
    BY <2>1 DEF Ask, loopVars, StandsStill
  <2>2. CASE SerialEvent
    BY <2>2 DEF SerialEvent, loopVars, StandsStill
  <2>3. CASE PinFalls
    BY <2>3 DEF PinFalls, loopVars, StandsStill
  <2>4. CASE SecondPasses
    BY <2>4 DEF SecondPasses, StandsStill
  <2>5. CASE Due
    BY <2>5 DEF Due, loopVars, StandsStill
  <2>6. CASE ProcessCommand
    <3>1. CASE Searching
      BY <3>1 DEF Searching, Goes, StandsStill
    <3>2. CASE CommandId
      <4>1. \/ UNCHANGED <<scroll, offset>>
            \/ scroll' = TRUE /\ UNCHANGED offset
            \/ scroll' = FALSE /\ offset' = 0
        BY <3>2, Zenon DEF CommandId, Goes
      <4> QED
        BY <4>1 DEF StandsStill
    <3>3. CASE CommandSpeed1
      BY <3>3 DEF CommandSpeed1, Goes, StandsStill
    <3>4. CASE CommandSpeed2
      BY <3>4 DEF CommandSpeed2, StandsStill
    <3>5. CASE CommandSetTime123
      BY <3>5 DEF CommandSetTime123, Goes, StandsStill
    <3>6. CASE CommandSetTime4
      BY <3>6 DEF CommandSetTime4, StandsStill
    <3> QED
      BY <2>6, <3>1, <3>2, <3>3, <3>4, <3>5, <3>6 DEF ProcessCommand
  <2>7. CASE UpdateBuffer
    <3>1. CASE scroll
      BY <2>7, <3>1 DEF UpdateBuffer, StandsStill
    <3>2. CASE ~scroll
      <4>1. offset' = 0 % ScrollPeriod
        BY <2>7, <3>2 DEF UpdateBuffer, StandsStill
      <4>2. 0 % ScrollPeriod = 0
        BY SMT DEF ScrollPeriod
      <4> QED
        BY <2>7, <4>1, <4>2 DEF UpdateBuffer, StandsStill
    <3> QED
      BY <3>1, <3>2
  <2>8. CASE UNCHANGED printerVars
    BY <2>8 DEF printerVars, loopVars, StandsStill
  <2> QED
    BY <2>1, <2>2, <2>3, <2>4, <2>5, <2>6, <2>7, <2>8 DEF PrinterNext
<1> QED
  BY <1>1, <1>2, PTL DEF PrinterSpec

-----------------------------------------------------------------------------
(* THE BYTES OF A COMMAND                                                  *)

(* What a division and its remainder are.                                  *)
LEMMA Division ==
  ASSUME NEW n \in Int, NEW d \in Nat \ {0}
  PROVE  /\ n \div d \in Int /\ n % d \in 0..d - 1
         /\ n = d * (n \div d) + (n % d)
         /\ n \in Nat => n \div d \in Nat
OBVIOUS

(* The commands there are.                                                 *)
LEMMA CommandType ==
  ASSUME NEW c \in Commands
  PROVE  \/ c = Zero
         \/ c = ScrollOn
         \/ c = ScrollOff
         \/ c[1] = "speed" /\ c[2] \in UInt16 /\ c = <<"speed", c[2]>>
         \/ c[1] = "settime" /\ c[2] \in Times /\ c = <<"settime", c[2]>>
<1>1. \/ c \in {Zero, ScrollOn, ScrollOff}
      \/ \E n \in UInt16 : c = <<"speed", n>>
      \/ \E n \in Times : c = <<"settime", n>>
  BY CommandsAssumption
<1>2. CASE c \in {Zero, ScrollOn, ScrollOff}
  BY <1>2
<1>3. CASE \E n \in UInt16 : c = <<"speed", n>>
  BY <1>3
<1>4. CASE \E n \in Times : c = <<"settime", n>>
  BY <1>4
<1>. QED
  BY <1>1, <1>2, <1>3, <1>4

(* The bytes of each of them, as the portal writes them.                   *)
LEMMA EncodedLength ==
  ASSUME NEW c \in Commands
  PROVE  /\ c = Zero => Encoded(c) = <<0>>
         /\ c = ScrollOn => Encoded(c) = <<1>>
         /\ c = ScrollOff => Encoded(c) = <<2>>
         /\ c[1] = "speed" => Encoded(c) = <<3, c[2] \div 256, c[2] % 256>>
         /\ c[1] = "settime" =>
              Encoded(c) = <<4, 0, c[2] \div 65536, (c[2] \div 256) % 256, c[2] % 256>>
<1>1. ASSUME c = Zero PROVE Encoded(c) = <<0>>
  <2>1. c[1] = "zero"
    BY <1>1 DEF Zero
  <2>. QED
    BY <2>1 DEF Encoded
<1>2. ASSUME c = ScrollOn PROVE Encoded(c) = <<1>>
  <2>1. c[1] = "scroll" /\ c[2] = 1
    BY <1>2 DEF ScrollOn
  <2>. QED
    BY <2>1 DEF Encoded
<1>3. ASSUME c = ScrollOff PROVE Encoded(c) = <<2>>
  <2>1. c[1] = "scroll" /\ c[2] = 0
    BY <1>3 DEF ScrollOff
  <2>. QED
    BY <2>1 DEF Encoded
<1>4. ASSUME c[1] = "speed" PROVE Encoded(c) = <<3, c[2] \div 256, c[2] % 256>>
  BY <1>4 DEF Encoded
<1>5. ASSUME c[1] = "settime"
      PROVE  Encoded(c) = <<4, 0, c[2] \div 65536, (c[2] \div 256) % 256, c[2] % 256>>
  BY <1>5 DEF Encoded
<1>. QED
  BY <1>1, <1>2, <1>3, <1>4, <1>5

(* A quotient is small when the number is.                                 *)
LEMMA Below ==
  ASSUME NEW n \in Nat, NEW d \in Nat \ {0}, NEW m \in Nat, n < m * d
  PROVE  n \div d \in 0..m - 1
<1>. DEFINE q == n \div d
            r == n % d
<1>1. q \in Nat /\ r \in Nat /\ n = d * q + r
  BY Division
<1>. HIDE DEF q, r
<1>2. ASSUME q >= m PROVE FALSE
  <2>1. d * q >= d * m
    BY <1>1, <1>2
  <2>. QED
    BY <1>1, <2>1
<1>. QED
  BY <1>1, <1>2 DEF q

(* The numbers of the commands are natural numbers, and not too large.     *)
LEMMA Numbers ==
  /\ \A n \in UInt16 : n \in Nat /\ n < Word
  /\ \A n \in Times : n \in Nat /\ n < Day
<1>1. \A d \in Nat : \A n \in 0..d - 1 : n \in Nat /\ n < d
  OBVIOUS
<1>2. Word \in Nat /\ Day \in Nat
  BY DEF Word, Day
<1>. QED
  BY <1>1, <1>2 DEF UInt16, Times

(* Every byte of a command is one.                                         *)
LEMMA OneByte ==
  ASSUME NEW n \in Nat
  PROVE  /\ n \in UInt16 => n \div 256 \in 0..255
         /\ n % 256 \in 0..255
         /\ (n \div 256) % 256 \in 0..255
         /\ n \in Times => n \div 65536 \in {0, 1}
<1>1. \A b \in Nat \ {0} : n % b \in 0..b - 1 /\ (n \div b) % b \in 0..b - 1
  BY Division
<1>2. n % 256 \in 0..255 /\ (n \div 256) % 256 \in 0..255
  BY <1>1, SMTT(60)
<1>3. n \in UInt16 => n < 256 * 256
  BY Numbers DEF Word
<1>4. n \in UInt16 => n \div 256 \in 0..255
  BY <1>3, Below
<1>5. n \in Times => n < 2 * 65536
  BY Numbers DEF Day
<1>6. n \in Times => n \div 65536 \in 0..1
  BY <1>5, Below
<1>. QED
  BY <1>2, <1>4, <1>6

(* All that fits into a byte.                                              *)
Byte == 0..255

(* A command is encoded in bytes, one, three or five of them.              *)
LEMMA EncodedIs ==
  ASSUME NEW c \in Commands
  PROVE  Encoded(c) \in Seq(Byte) /\ Len(Encoded(c)) \in {1, 3, 5}
<1>1. CASE \E id \in 0..2 : Encoded(c) = <<id>>
  BY <1>1 DEF Byte
<1>2. ASSUME NEW n \in UInt16, Encoded(c) = <<3, n \div 256, n % 256>>
      PROVE  Encoded(c) \in Seq(Byte) /\ Len(Encoded(c)) = 3
  <2>1. n \in Nat
    BY Numbers
  <2>2. n \div 256 \in 0..255 /\ n % 256 \in 0..255
    BY <2>1, OneByte
  <2>. QED
    BY <1>2, <2>2 DEF Byte
<1>3. ASSUME NEW n \in Times,
             Encoded(c) = <<4, 0, n \div 65536, (n \div 256) % 256, n % 256>>
      PROVE  Encoded(c) \in Seq(Byte) /\ Len(Encoded(c)) = 5
  <2>1. n \in Nat
    BY Numbers
  <2>2. n \div 65536 \in 0..255 /\ (n \div 256) % 256 \in 0..255
        /\ n % 256 \in 0..255
    BY <2>1, OneByte
  <2>. QED
    BY <1>3, <2>2 DEF Byte
<1>4. Encoded(c) = <<0>> \/ Encoded(c) = <<1>> \/ Encoded(c) = <<2>>
      => \E id \in 0..2 : Encoded(c) = <<id>>
  OBVIOUS
<1>5. \/ Encoded(c) = <<0>> \/ Encoded(c) = <<1>> \/ Encoded(c) = <<2>>
      \/ \E n \in UInt16 : Encoded(c) = <<3, n \div 256, n % 256>>
      \/ \E n \in Times :
           Encoded(c) = <<4, 0, n \div 65536, (n \div 256) % 256, n % 256>>
  <2>1. CASE c = Zero \/ c = ScrollOn \/ c = ScrollOff
    BY <2>1, EncodedLength
  <2>2. ASSUME c[1] = "speed", NEW n \in UInt16, n = c[2]
        PROVE  Encoded(c) = <<3, n \div 256, n % 256>>
    BY <2>2, EncodedLength
  <2>3. ASSUME c[1] = "settime", NEW n \in Times, n = c[2]
        PROVE  Encoded(c) = <<4, 0, n \div 65536, (n \div 256) % 256, n % 256>>
    BY <2>3, EncodedLength
  <2>4. \/ c = Zero \/ c = ScrollOn \/ c = ScrollOff
        \/ c[1] = "speed" /\ c[2] \in UInt16
        \/ c[1] = "settime" /\ c[2] \in Times
    BY CommandType, Zenon
  <2>5. CASE c[1] = "speed" /\ c[2] \in UInt16
    BY <2>2, <2>5
  <2>6. CASE c[1] = "settime" /\ c[2] \in Times
    BY <2>3, <2>6
  <2>. QED
    BY <2>1, <2>4, <2>5, <2>6
<1>. QED
  BY <1>1, <1>2, <1>3, <1>4, <1>5

(* The bytes of a command when the driver does not change them.            *)
Sent(command) == <<Delimiter>> \o Encoded(command)

(* On the line it is one longer: the delimiter comes first.                *)
LEMMA SentIs ==
  ASSUME NEW c \in Commands
  PROVE  /\ Sent(c) \in Seq(Byte)
         /\ Len(Sent(c)) = Len(Encoded(c)) + 1
         /\ Sent(c)[1] = Delimiter
         /\ \A i \in 1..Len(Encoded(c)) : Sent(c)[i + 1] = Encoded(c)[i]
<1>. DEFINE first == <<Delimiter>>
            rest == Encoded(c)
            both == first \o rest
<1>1. first \in Seq(Byte) /\ Len(first) = 1 /\ first[1] = Delimiter
  BY DEF Delimiter, Byte
<1>2. rest \in Seq(Byte) /\ Len(rest) \in Nat
  BY EncodedIs
<1>. HIDE DEF first, rest
<1>3. /\ both \in Seq(Byte)
      /\ Len(both) = 1 + Len(rest)
      /\ \A i \in 1..1 + Len(rest) : both[i] =
           IF i <= 1 THEN first[i] ELSE rest[i - 1]
  <2>1. both \in Seq(Byte) /\ Len(both) = Len(first) + Len(rest)
    BY <1>1, <1>2, ConcatProperties
  <2>2. \A i \in 1..Len(first) + Len(rest) :
          both[i] = IF i <= Len(first) THEN first[i] ELSE rest[i - Len(first)]
    BY <1>1, <1>2, ConcatProperties
  <2>. HIDE DEF both
  <2>. QED
    BY <1>1, <1>2, <2>1, <2>2
<1>. HIDE DEF both
<1>4. both[1] = Delimiter
  BY <1>1, <1>2, <1>3
<1>5. \A i \in 1..Len(rest) : both[i + 1] = rest[i]
  BY <1>2, <1>3
<1>. QED
  BY <1>2, <1>3, <1>4, <1>5 DEF Sent, both, first, rest

(* A command that the driver does not change is written byte for byte.     *)
LEMMA WrittenIs ==
  ASSUME NEW c \in Commands, Verbatim(c)
  PROVE  /\ Written(c) = Sent(c)
         /\ Sent(c) \in Seq(Bytes)
<1>1. /\ Sent(c) \in Seq(Byte)
      /\ Len(Sent(c)) \in Nat \ {0}
      /\ Len(Sent(c)) = Len(Encoded(c)) + 1
      /\ Encoded(c) \in Seq(Byte)
  <2>1. Len(Encoded(c)) \in Nat
    BY EncodedIs
  <2>. QED
    BY <2>1, SentIs, EncodedIs
<1>2. \A i \in DOMAIN Encoded(c) : Encoded(c)[i] \notin {CR, LF}
  BY DEF Verbatim, Range
<1>3. \A i \in 1..Len(Sent(c)) : Sent(c)[i] \notin {CR, LF}
  <2>1. ASSUME NEW i \in 1..Len(Sent(c))
        PROVE  Sent(c)[i] \notin {CR, LF}
    <3>1. CASE i = 1
      BY <3>1, SentIs DEF Delimiter, CR, LF
    <3>2. CASE i # 1
      <4>1. i - 1 \in 1..Len(Encoded(c)) /\ (i - 1) + 1 = i
        BY <1>1, <3>2
      <4>2. Sent(c)[i] = Encoded(c)[i - 1]
        BY <4>1, SentIs
      <4>. QED
        BY <1>1, <1>2, <4>1, <4>2
    <3>. QED
      BY <3>1, <3>2
  <2>. QED
    BY <2>1
<1>4. DOMAIN Sent(c) = 1..Len(Sent(c))
  BY <1>1
<1>5. \A b : b \notin {CR, LF} => Uart0WriteChar(b) = <<b>>
  BY DEF Uart0WriteChar
<1>6. \A i \in DOMAIN Sent(c) : Uart0WriteChar(Sent(c)[i]) = <<Sent(c)[i]>>
  BY <1>3, <1>4, <1>5
<1>7. Written(c) = FlattenSeq([i \in DOMAIN Sent(c) |-> Uart0WriteChar(Sent(c)[i])])
  BY Zenon DEF Written, Sent
<1>8. [i \in DOMAIN Sent(c) |-> Uart0WriteChar(Sent(c)[i])]
        = [i \in DOMAIN Sent(c) |-> <<Sent(c)[i]>>]
  BY <1>6
<1>9. Written(c) = Sent(c)
  <2>1. Len(Sent(c)) > 0
    BY <1>1
  <2>2. FlattenSeq([i \in DOMAIN Sent(c) |-> <<Sent(c)[i]>>]) = Sent(c)
    BY <1>1, <2>1, FlattenIs, SMTT(60)
  <2>. QED
    BY <1>7, <1>8, <2>2, Zenon
<1>. QED
  BY <1>9, PrinterAssumption

(* A remainder that changes nothing.                                       *)
LEMMA Small ==
  ASSUME NEW n \in Nat, NEW d \in Nat, n < d
  PROVE  n % d = n
OBVIOUS

(* A time arrives as it was sent.                                          *)
LEMMA TimeArrives ==
  ASSUME NEW n \in Times
  PROVE  Shift(Shift(Shift(0, n \div 65536), (n \div 256) % 256), n % 256) = n
<1>. DEFINE q == n \div 256
            u == n \div 65536
<1>0. n \in Nat /\ n < Day /\ Day \in Nat /\ Day > 1000
  BY Numbers DEF Day
<1>1. q \in Nat /\ n = q * 256 + (n % 256)
  BY <1>0
<1>2. u = q \div 256
  BY <1>0
<1>. HIDE DEF q
<1>3. u \in Nat /\ q = u * 256 + (q % 256)
  BY <1>1, <1>2
<1>4. u \in {0, 1}
  BY <1>0, OneByte
<1>. HIDE DEF u
<1>5. Shift(0, u) = u
  <2>1. 0 * 256 + u = u /\ u < Day
    BY <1>0, <1>4
  <2>. QED
    BY <1>0, <1>3, <2>1, Small DEF Shift
<1>6. Shift(u, q % 256) = q
  <2>1. q < Day
    BY <1>0, <1>1
  <2>. QED
    BY <1>0, <1>1, <1>3, <2>1, Small DEF Shift
<1>7. Shift(q, n % 256) = n
  BY <1>0, <1>1, Small DEF Shift
<1>. QED
  BY <1>5, <1>6, <1>7 DEF u, q

-----------------------------------------------------------------------------
(* THE PARSER, IN THE MIDDLE OF A COMMAND                                  *)

(* p bytes of a command have been parsed.                                  *)
InCommand(state, kept, command, p) ==
  LET s == Sent(command)
  IN \/ state = "eSearching" /\ p = 0
     \/ state = "eCommandId" /\ p = 1
     \/ /\ command[1] = "speed"
        /\ \/ state = "eCommandSpeed1" /\ p = 2
           \/ state = "eCommandSpeed2" /\ p = 3 /\ kept = <<s[3]>>
     \/ /\ command[1] = "settime"
        /\ \/ state = "eCommandSetTime1" /\ p = 2
           \/ state = "eCommandSetTime2" /\ p = 3 /\ kept = <<s[3]>>
           \/ state = "eCommandSetTime3" /\ p = 4 /\ kept = <<s[3], s[4]>>
           \/ state = "eCommandSetTime4" /\ p = 5 /\ kept = <<s[3], s[4], s[5]>>

(* The highest byte of a time; with a name for it, as the provers are lost *)
(* in numerals of this size.                                               *)
Third(n) == n \div 65536

(* What each command looks like on the line.                               *)
LEMMA Shapes ==
  ASSUME NEW c \in Commands
  PROVE  /\ Len(Sent(c)) \in {2, 4, 6}
         /\ Sent(c)[1] = Delimiter
         /\ c[1] = "speed" =>
              /\ Len(Sent(c)) = 4
              /\ Sent(c)[2] = 3
              /\ Sent(c)[3] = c[2] \div 256
              /\ Sent(c)[4] = c[2] % 256
         /\ c[1] = "settime" =>
              /\ Len(Sent(c)) = 6
              /\ Sent(c)[2] = 4
              /\ Sent(c)[3] = 0
              /\ Sent(c)[4] = Third(c[2])
              /\ Sent(c)[5] = (c[2] \div 256) % 256
              /\ Sent(c)[6] = c[2] % 256
         /\ c[1] \notin {"speed", "settime"} =>
              /\ Len(Sent(c)) = 2
              /\ \/ c = Zero /\ Sent(c)[2] = 0
                 \/ c = ScrollOn /\ Sent(c)[2] = 1
                 \/ c = ScrollOff /\ Sent(c)[2] = 2
<1>. DEFINE s == Sent(c)
            e == Encoded(c)
<1>1. /\ Len(s) = Len(e) + 1
      /\ s[1] = Delimiter
      /\ \A i \in 1..Len(e) : s[i + 1] = e[i]
  BY SentIs
<1>2. Len(e) \in {1, 3, 5}
  BY EncodedIs
<1>. HIDE DEF s, e
<1>3. /\ s[2] = e[1]
      /\ Len(e) >= 3 => s[3] = e[2] /\ s[4] = e[3]
      /\ Len(e) >= 5 => s[5] = e[4] /\ s[6] = e[5]
  <2>1. 1 \in 1..Len(e) /\ (Len(e) >= 3 => 2 \in 1..Len(e) /\ 3 \in 1..Len(e))
    BY <1>2
  <2>2. Len(e) >= 5 => 4 \in 1..Len(e) /\ 5 \in 1..Len(e)
    BY <1>2
  <2>3. /\ 1 \in 1..Len(e) => s[1 + 1] = e[1]
        /\ 2 \in 1..Len(e) => s[2 + 1] = e[2]
        /\ 3 \in 1..Len(e) => s[3 + 1] = e[3]
        /\ 4 \in 1..Len(e) => s[4 + 1] = e[4]
        /\ 5 \in 1..Len(e) => s[5 + 1] = e[5]
    BY <1>1
  <2>. QED
    BY <2>1, <2>2, <2>3
<1>4. c[1] = "speed" =>
        /\ Len(e) = 3
        /\ e[1] = 3 /\ e[2] = c[2] \div 256 /\ e[3] = c[2] % 256
  <2>. DEFINE m == c[2] \div 256
              r == c[2] % 256
  <2>1. c[1] = "speed" => e = <<3, m, r>>
    BY EncodedLength DEF e
  <2>. HIDE DEF m, r
  <2>2. ASSUME e = <<3, m, r>>
        PROVE  Len(e) = 3 /\ e[1] = 3 /\ e[2] = m /\ e[3] = r
    BY <2>2
  <2>. QED
    BY <2>1, <2>2 DEF m, r
<1>5. c[1] = "settime" =>
        /\ Len(e) = 5
        /\ e[1] = 4 /\ e[2] = 0 /\ e[3] = Third(c[2])
        /\ e[4] = (c[2] \div 256) % 256 /\ e[5] = c[2] % 256
  <2>. DEFINE u == Third(c[2])
              m == (c[2] \div 256) % 256
              r == c[2] % 256
  <2>1. c[1] = "settime" => e = <<4, 0, u, m, r>>
    BY EncodedLength DEF e, Third
  <2>. HIDE DEF u, m, r
  <2>2. ASSUME e = <<4, 0, u, m, r>>
        PROVE  Len(e) = 5 /\ e[1] = 4 /\ e[2] = 0 /\ e[3] = u /\ e[4] = m
               /\ e[5] = r
    BY <2>2
  <2>. QED
    BY <2>1, <2>2 DEF u, m, r
<1>6. c[1] \notin {"speed", "settime"} =>
        /\ Len(e) = 1
        /\ \/ c = Zero /\ e[1] = 0
           \/ c = ScrollOn /\ e[1] = 1
           \/ c = ScrollOff /\ e[1] = 2
  <2>1. c[1] \notin {"speed", "settime"} => c = Zero \/ c = ScrollOn \/ c = ScrollOff
    BY CommandType, Zenon
  <2>2. /\ c = Zero => e = <<0>>
        /\ c = ScrollOn => e = <<1>>
        /\ c = ScrollOff => e = <<2>>
    BY EncodedLength DEF e
  <2>3. \A i : e = <<i>> => Len(e) = 1 /\ e[1] = i
    OBVIOUS
  <2>. QED
    BY <2>1, <2>2, <2>3
<1>. DEFINE l == Len(e)
            m == Len(s)
<1>7. m = l + 1 /\ l \in {1, 3, 5}
  BY <1>1, <1>2
<1>. HIDE DEF l, m
<1>8. /\ m \in {2, 4, 6}
      /\ l = 1 => m = 2
      /\ l = 3 => m = 4
      /\ l = 5 => m = 6
  BY <1>7
<1>. DEFINE kind == c[1]
            n == c[2]
<1>. HIDE DEF kind, n
<1>9. ASSUME kind = "speed"
      PROVE  Len(s) = 4 /\ s[2] = 3 /\ s[3] = n \div 256 /\ s[4] = n % 256
  <2>1. l = 3 /\ e[1] = 3 /\ e[2] = n \div 256 /\ e[3] = n % 256
    BY <1>4, <1>9, Zenon DEF l, kind, n
  <2>2. l >= 3
    BY <2>1
  <2>. QED
    BY <1>3, <1>8, <2>1, <2>2, Zenon DEF l, m
<1>10. ASSUME kind = "settime"
       PROVE  /\ Len(s) = 6 /\ s[2] = 4 /\ s[3] = 0 /\ s[4] = Third(n)
              /\ s[5] = (n \div 256) % 256 /\ s[6] = n % 256
  <2>1. /\ l = 5 /\ e[1] = 4 /\ e[2] = 0 /\ e[3] = Third(n)
        /\ e[4] = (n \div 256) % 256 /\ e[5] = n % 256
    BY <1>5, <1>10, Zenon DEF l, kind, n
  <2>2. l >= 3 /\ l >= 5
    BY <2>1
  <2>. QED
    BY <1>3, <1>8, <2>1, <2>2, Zenon DEF l, m
<1>11. ASSUME kind \notin {"speed", "settime"}
       PROVE  /\ Len(s) = 2
              /\ \/ c = Zero /\ s[2] = 0
                 \/ c = ScrollOn /\ s[2] = 1
                 \/ c = ScrollOff /\ s[2] = 2
  BY <1>3, <1>6, <1>8, <1>11, Zenon DEF l, m, kind
<1>12. Len(s) \in {2, 4, 6}
  BY <1>8 DEF m
<1>. QED
  BY <1>1, <1>9, <1>10, <1>11, <1>12, Zenon DEF s, kind, n

(* How ui_new_seconds is put together, byte by byte.                       *)
LEMMA AppendsAre ==
  ASSUME NEW S, NEW a \in S, NEW b \in S, NEW c \in S
  PROVE  Append(<<a>>, b) = <<a, b>> /\ Append(<<a, b>>, c) = <<a, b, c>>
<1>. DEFINE one == <<a>>
            two == <<a, b>>
            three == <<a, b, c>>
<1>1. one \in Seq(S) /\ Len(one) = 1 /\ one[1] = a
  OBVIOUS
<1>2. two \in Seq(S) /\ Len(two) = 2 /\ two[1] = a /\ two[2] = b
  OBVIOUS
<1>3. three \in Seq(S) /\ Len(three) = 3 /\ three[1] = a /\ three[2] = b
      /\ three[3] = c
  OBVIOUS
<1>. HIDE DEF one, two, three
<1>4. Append(one, b) = two
  <2>. DEFINE t == Append(one, b)
  <2>1. t \in Seq(S) /\ Len(t) = 2 /\ t[1] = a /\ t[2] = b
    BY <1>1, AppendProperties
  <2>. HIDE DEF t
  <2>2. \A i \in 1..Len(t) : t[i] = two[i]
    BY <1>2, <2>1
  <2>3. t = two
    BY <1>2, <2>1, <2>2, SeqEqual
  <2>. QED
    BY <2>3 DEF t
<1>5. Append(two, c) = three
  <2>. DEFINE t == Append(two, c)
  <2>1. /\ t \in Seq(S) /\ Len(t) = Len(two) + 1
        /\ \A i \in 1..Len(two) : t[i] = two[i]
        /\ t[Len(two) + 1] = c
    BY <1>2, AppendProperties, SMTT(60)
  <2>. HIDE DEF t
  <2>2. Len(t) = 3 /\ t[1] = a /\ t[2] = b /\ t[3] = c
    BY <1>2, <2>1
  <2>3. \A i \in 1..Len(t) : t[i] = three[i]
    BY <1>3, <2>2
  <2>4. t = three
    BY <1>3, <2>1, <2>2, <2>3, SeqEqual
  <2>. QED
    BY <2>4 DEF t
<1>. QED
  BY <1>4, <1>5 DEF one, two, three

(* All that is sent are bytes.                                             *)
LEMMA SentBytes ==
  ASSUME NEW c \in Commands
  PROVE  \A i \in 1..Len(Sent(c)) : Sent(c)[i] \in Byte
BY SentIs, ElementOfSeq

(* The commands with a number.                                             *)
LEMMA Kinds ==
  ASSUME NEW c \in Commands
  PROVE  /\ c[1] = "speed" => c[2] \in UInt16 /\ c = <<"speed", c[2]>>
         /\ c[1] = "settime" => c[2] \in Times /\ c = <<"settime", c[2]>>
<1>1. Zero[1] = "zero" /\ ScrollOn[1] = "scroll" /\ ScrollOff[1] = "scroll"
  BY DEF Zero, ScrollOn, ScrollOff
<1>. QED
  BY <1>1, CommandType, Zenon

(* What a byte of the command it is in does to the parser.                 *)
Parsed(command, p) ==
  \/ /\ p + 1 < Len(Sent(command))
     /\ InCommand(parseState', newData', command, p + 1)
     /\ done' = done
  \/ /\ p + 1 = Len(Sent(command))
     /\ parseState' = "eSearching"
     /\ done' = Append(done, command)

(* In the middle of a command there is another byte of it.                 *)
LEMMA InCommandShort ==
  ASSUME NEW c \in Commands, NEW p, InCommand(parseState, newData, c, p)
  PROVE  p + 1 \in 1..Len(Sent(c))
<1>1. p \in {0, 1} \/ (c[1] = "speed"
      /\ p \in {2, 3}) \/ (c[1] = "settime" /\ p \in 2..5)
  BY DEF InCommand
<1>2. CASE p \in {0, 1}
  <2>. DEFINE l == Len(Sent(c))
  <2>1. l \in {2, 4, 6}
    BY Shapes
  <2>. HIDE DEF l
  <2>2. p + 1 \in 1..l
    BY <1>2, <2>1
  <2>. QED
    BY <2>2 DEF l
<1>3. CASE c[1] = "speed" /\ p \in {2, 3}
  <2>1. Len(Sent(c)) = 4
    BY <1>3, Shapes
  <2>. QED
    BY <1>3, <2>1
<1>4. CASE c[1] = "settime" /\ p \in 2..5
  <2>1. Len(Sent(c)) = 6
    BY <1>4, Shapes
  <2>. QED
    BY <1>4, <2>1
<1>. QED
  BY <1>1, <1>2, <1>3, <1>4

(* The byte that comes next in the command takes processCommand to the     *)
(* place after it, and the last one executes the command, with the number  *)
(* that was sent.                                                          *)
LEMMA ParserStep ==
  ASSUME NEW c \in Commands, NEW p, InCommand(parseState, newData, c, p),
         ProcessCommand,
         Oldest = Sent(c)[p + 1]
  PROVE  Parsed(c, p)
<1>. DEFINE s == Sent(c)
<1>1. CASE parseState = "eSearching"
  <2>1. p = 0 /\ Oldest = Delimiter
    BY <1>1, Shapes DEF InCommand
  <2>2. parseState' = "eCommandId" /\ done' = done
    BY <1>1, <2>1 DEF ProcessCommand, Searching, CommandId, CommandSpeed1,
           CommandSpeed2, CommandSetTime123, CommandSetTime4, Parsing, Goes
  <2>3. Len(s) \in {2, 4, 6}
    BY Shapes
  <2>. QED
    BY <2>1, <2>2, <2>3, SMTT(60) DEF Parsed, InCommand
<1>2. CASE parseState = "eCommandId"
  <2>1. p = 1 /\ Oldest = s[2]
    BY <1>2 DEF InCommand
  <2>2. CommandId
    BY <1>2 DEF ProcessCommand, Searching, CommandSpeed1, CommandSpeed2,
           CommandSetTime123, CommandSetTime4, Parsing
  <2>3. CASE c[1] = "speed"
    <3>1. Len(s) = 4 /\ Oldest = 3
      BY <2>1, <2>3, Shapes
    <3>2. parseState' = "eCommandSpeed1" /\ done' = done
      BY <2>2, <3>1 DEF CommandId, Goes
    <3>. QED
      BY <2>1, <2>3, <3>1, <3>2 DEF Parsed, InCommand
  <2>4. CASE c[1] = "settime"
    <3>1. Len(s) = 6 /\ Oldest = 4
      BY <2>1, <2>4, Shapes
    <3>2. parseState' = "eCommandSetTime1" /\ done' = done
      BY <2>2, <3>1 DEF CommandId, Goes
    <3>. QED
      BY <2>1, <2>4, <3>1, <3>2 DEF Parsed, InCommand
  <2>5. CASE c[1] \notin {"speed", "settime"}
    <3>1. /\ Len(s) = 2
          /\ \/ c = Zero /\ Oldest = 0
             \/ c = ScrollOn /\ Oldest = 1
             \/ c = ScrollOff /\ Oldest = 2
      BY <2>1, <2>5, Shapes
    <3>2. /\ Oldest = 0 => Executes(Zero)
          /\ Oldest = 1 => Executes(ScrollOn)
          /\ Oldest = 2 => Executes(ScrollOff)
      BY <2>2 DEF CommandId
    <3>3. Executes(c)
      BY <3>1, <3>2
    <3>. QED
      BY <2>1, <3>1, <3>3 DEF Parsed, Executes
  <2>. QED
    BY <2>3, <2>4, <2>5
<1>3. CASE parseState = "eCommandSpeed1"
  <2>1. p = 2 /\ c[1] = "speed" /\ Oldest = s[3]
    BY <1>3 DEF InCommand
  <2>2. parseState' = "eCommandSpeed2" /\ newData' = <<Oldest>> /\ done' = done
    BY <1>3 DEF ProcessCommand, Searching, CommandId, CommandSpeed1,
           CommandSpeed2, CommandSetTime123, CommandSetTime4, Parsing, Goes
  <2>3. Len(s) = 4
    BY <2>1, Shapes
  <2>. QED
    BY <2>1, <2>2, <2>3 DEF Parsed, InCommand
<1>4. CASE parseState = "eCommandSpeed2"
  <2>1. p = 3 /\ c[1] = "speed" /\ Oldest = s[4] /\ newData = <<s[3]>>
    BY <1>4 DEF InCommand
  <2>2. CommandSpeed2
    BY <1>4 DEF ProcessCommand, Searching, CommandId, CommandSpeed1,
           CommandSetTime123, CommandSetTime4, Parsing
  <2>3. Len(s) = 4 /\ s[3] = c[2] \div 256 /\ s[4] = c[2] % 256
    BY <2>1, Shapes
  <2>4. c[2] \in UInt16 /\ c = <<"speed", c[2]>>
    BY <2>1, Kinds
  <2>5. iSecond' = c[2]
    <3>1. iSecond' = newData[1] * 256 + Oldest /\ newData[1] = s[3]
      BY <2>1, <2>2, SMTT(60) DEF CommandSpeed2
    <3>2. \A n \in UInt16 : (n \div 256) * 256 + (n % 256) = n
      BY Numbers
    <3>. QED
      BY <2>1, <2>3, <2>4, <3>1, <3>2
  <2>6. Executes(c)
    BY <2>2, <2>4, <2>5, Zenon DEF CommandSpeed2
  <2>. QED
    BY <2>1, <2>3, <2>6 DEF Parsed, Executes
<1>5. CASE parseState = "eCommandSetTime1"
  <2>1. p = 2 /\ c[1] = "settime" /\ Oldest = s[3]
    BY <1>5 DEF InCommand
  <2>2. parseState' = "eCommandSetTime2" /\ newData' = <<Oldest>>
        /\ done' = done
    BY <1>5 DEF ProcessCommand, Searching, CommandId, CommandSpeed1,
           CommandSpeed2, CommandSetTime123, CommandSetTime4, Parsing, Goes
  <2>3. Len(s) = 6
    BY <2>1, Shapes
  <2>. QED
    BY <2>1, <2>2, <2>3 DEF Parsed, InCommand
<1>6. CASE parseState = "eCommandSetTime2"
  <2>1. p = 3 /\ c[1] = "settime" /\ Oldest = s[4] /\ newData = <<s[3]>>
    BY <1>6 DEF InCommand
  <2>2. parseState' = "eCommandSetTime3"
        /\ newData' = Append(newData, Oldest) /\ done' = done
    BY <1>6 DEF ProcessCommand, Searching, CommandId, CommandSpeed1,
           CommandSpeed2, CommandSetTime123, CommandSetTime4, Parsing, Goes
  <2>3. Len(s) = 6
    BY <2>1, Shapes
  <2>4. newData' = <<s[3], s[4]>>
    <3>1. s[3] \in Byte /\ s[4] \in Byte
      <4>1. 3 \in 1..Len(s) /\ 4 \in 1..Len(s) /\ 5 \in 1..Len(s)
        BY <2>3
      <4>. QED
        BY <4>1, SentBytes
    <3>. QED
      BY <2>1, <2>2, <3>1, AppendsAre, Zenon
  <2>5. p + 1 = 4
    BY <2>1
  <2>. QED
    <3>1. InCommand(parseState', newData', c, p + 1)
      BY <2>1, <2>2, <2>4, <2>5, Zenon DEF InCommand
    <3>. QED
      BY <2>1, <2>2, <2>3, <3>1 DEF Parsed
<1>7. CASE parseState = "eCommandSetTime3"
  <2>1. p = 4 /\ c[1] = "settime" /\ Oldest = s[5] /\ newData = <<s[3], s[4]>>
    BY <1>7 DEF InCommand
  <2>2. parseState' = "eCommandSetTime4"
        /\ newData' = Append(newData, Oldest) /\ done' = done
    BY <1>7 DEF ProcessCommand, Searching, CommandId, CommandSpeed1,
           CommandSpeed2, CommandSetTime123, CommandSetTime4, Parsing, Goes
  <2>3. Len(s) = 6
    BY <2>1, Shapes
  <2>4. newData' = <<s[3], s[4], s[5]>>
    <3>1. s[3] \in Byte /\ s[4] \in Byte /\ s[5] \in Byte
      <4>1. 3 \in 1..Len(s) /\ 4 \in 1..Len(s) /\ 5 \in 1..Len(s)
        BY <2>3
      <4>. QED
        BY <4>1, SentBytes
    <3>2. Append(<<s[3], s[4]>>, s[5]) = <<s[3], s[4], s[5]>>
      BY <3>1, AppendsAre, Zenon
    <3>. QED
      BY <2>1, <2>2, <3>2, Zenon
  <2>5. p + 1 = 5
    BY <2>1
  <2>. QED
    <3>1. InCommand(parseState', newData', c, p + 1)
      BY <2>1, <2>2, <2>4, <2>5, Zenon DEF InCommand
    <3>. QED
      BY <2>1, <2>2, <2>3, <3>1 DEF Parsed
<1>8. CASE parseState = "eCommandSetTime4"
  <2>1. p = 5 /\ c[1] = "settime" /\ Oldest = s[6]
        /\ newData = <<s[3], s[4], s[5]>>
    BY <1>8 DEF InCommand
  <2>2. CommandSetTime4
    BY <1>8 DEF ProcessCommand, Searching, CommandId, CommandSpeed1,
           CommandSpeed2, CommandSetTime123, Parsing
  <2>3. /\ Len(s) = 6 /\ s[3] = 0 /\ s[4] = Third(c[2])
        /\ s[5] = (c[2] \div 256) % 256 /\ s[6] = c[2] % 256
    BY <2>1, Shapes
  <2>4. c[2] \in Times /\ c = <<"settime", c[2]>>
    BY <2>1, Kinds
  <2>5. seconds' = c[2]
    <3>1. /\ seconds' = Shift(Shift(Shift(newData[1], newData[2]), newData[3]), Oldest)
          /\ newData[1] = s[3] /\ newData[2] = s[4] /\ newData[3] = s[5]
      BY <2>1, <2>2 DEF CommandSetTime4
    <3>2. \A n \in Times : Shift(Shift(Shift(0, Third(n)), (n \div 256) % 256), n % 256) = n
      BY TimeArrives DEF Third
    <3>. QED
      BY <2>1, <2>3, <2>4, <3>1, <3>2
  <2>6. Executes(c)
    BY <2>2, <2>4, <2>5, Zenon DEF CommandSetTime4, SetTime
  <2>. QED
    BY <2>1, <2>3, <2>6 DEF Parsed, Executes
<1>. QED
  BY <1>1, <1>2, <1>3, <1>4, <1>5, <1>6, <1>7, <1>8 DEF InCommand

-----------------------------------------------------------------------------
(* WHAT IS ON ITS WAY                                                      *)

(* What is on its way to the parser: the bytes in the buffer, and those of *)
(* the line.                                                               *)
Stream == Content \o line

(* The buffer holds a sequence of bytes.                                   *)
LEMMA ContentType ==
  ASSUME RingTypeOK, LineTypeOK
  PROVE  Content \in Seq(Bytes) /\ line \in Seq(Bytes) /\ Stream \in Seq(Bytes)
<1>1. Content \in Seq(Bytes)
  BY BetweenIsASequence DEF RingTypeOK, Content
<1>. QED
  BY <1>1, ConcatProperties DEF Stream, LineTypeOK

(* The parser takes the first byte of what is on its way.                  *)
LEMMA TakesFirst ==
  ASSUME RingTypeOK, LineTypeOK, Take, line' = line
  PROVE  /\ Stream \in Seq(Bytes)
         /\ Stream # <<>>
         /\ Stream[1] = Oldest
         /\ Stream' = Tail(Stream)
<1>1. Content # <<>> /\ Content' = Tail(Content)
  BY TakeIsTail DEF Take, IsEmpty, Content, RingTypeOK
<1>2. Content \in Seq(Bytes) /\ line \in Seq(Bytes) /\ Stream \in Seq(Bytes)
  BY ContentType
<1>3. Content[1] = Oldest
  <2>1. Place(pendingTail, 1) = pendingTail
    BY RingAssumption DEF RingTypeOK, Indices, Place
  <2>2. Len(Content) = Count(pendingHead, pendingTail)
    BY BetweenIsASequence DEF Content, RingTypeOK
  <2>3. Len(Content) \in Nat \ {0}
    BY <1>1, <1>2, EmptySeq
  <2>4. 1 \in 1..Count(pendingHead, pendingTail)
    BY <2>2, <2>3
  <2>. QED
    BY <2>1, <2>4 DEF Content, Between, Oldest
<1>4. Len(Content) \in Nat \ {0} /\ Len(line) \in Nat
  BY <1>1, <1>2, EmptySeq, LenProperties
<1>. DEFINE s == Content
            l == line
            t == Tail(Content)
<1>5. /\ t \in Seq(Bytes) /\ Len(t) = Len(s) - 1
      /\ \A i \in 1..Len(t) : t[i] = s[i + 1]
  BY <1>1, <1>2, HeadTailProperties
<1>6. Stream = s \o l /\ Stream' = t \o l
  BY <1>1 DEF Stream
<1>. HIDE DEF s, l, t
<1>7. s \in Seq(Bytes) /\ l \in Seq(Bytes) /\ Len(s) \in Nat \ {0}
      /\ Len(l) \in Nat
  BY <1>2, <1>4 DEF s, l
<1>8. /\ s \o l \in Seq(Bytes)
      /\ Len(s \o l) = Len(s) + Len(l)
      /\ \A i \in 1..Len(s) + Len(l) :
           (s \o l)[i] = IF i <= Len(s) THEN s[i] ELSE l[i - Len(s)]
  BY <1>7, ConcatProperties
<1>9. /\ t \o l \in Seq(Bytes)
      /\ Len(t \o l) = Len(t) + Len(l)
      /\ \A i \in 1..Len(t) + Len(l) :
           (t \o l)[i] = IF i <= Len(t) THEN t[i] ELSE l[i - Len(t)]
  BY <1>5, <1>7, ConcatProperties
<1>. DEFINE x == s \o l
            y == t \o l
<1>10. x # <<>> /\ x[1] = s[1]
  BY <1>7, <1>8
<1>. HIDE DEF x, y
<1>11. /\ Tail(x) \in Seq(Bytes) /\ Len(Tail(x)) = Len(x) - 1
       /\ \A i \in 1..Len(Tail(x)) : Tail(x)[i] = x[i + 1]
  <2>1. x \in Seq(Bytes)
    BY <1>8 DEF x
  <2>. QED
    BY <1>10, <2>1, HeadTailProperties
<1>12. Len(Tail(x)) = Len(y)
  BY <1>5, <1>7, <1>8, <1>9, <1>11 DEF x, y
<1>13. ASSUME NEW i \in 1..Len(y)
       PROVE  Tail(x)[i] = y[i]
  <2>1. Tail(x)[i] = x[i + 1]
    BY <1>11, <1>12
  <2>2. Len(x) = Len(s) + Len(l) /\ Len(y) = Len(t) + Len(l)
        /\ Len(t) = Len(s) - 1
    BY <1>5, <1>8, <1>9 DEF x, y
  <2>3. i \in Nat /\ i >= 1 /\ i <= Len(t) + Len(l)
        /\ i + 1 \in 1..Len(s) + Len(l)
    BY <1>7, <2>2
  <2>4. x[i + 1] = IF i + 1 <= Len(s) THEN s[i + 1] ELSE l[(i + 1) - Len(s)]
    BY <1>8, <2>3 DEF x
  <2>5. y[i] = IF i <= Len(t) THEN t[i] ELSE l[i - Len(t)]
    BY <1>9, <2>3, <2>2 DEF y
  <2>6. CASE i <= Len(t)
    <3>1. i + 1 <= Len(s) /\ t[i] = s[i + 1]
      BY <1>5, <1>7, <2>2, <2>3, <2>6
    <3>. QED
      BY <2>1, <2>4, <2>5, <2>6, <3>1
  <2>7. CASE ~(i <= Len(t))
    <3>1. ~(i + 1 <= Len(s)) /\ (i + 1) - Len(s) = i - Len(t)
      BY <1>7, <2>2, <2>3, <2>7
    <3>. QED
      BY <2>1, <2>4, <2>5, <2>7, <3>1
  <2>. QED
    BY <2>6, <2>7
<1>14. Tail(x) = y
  <2>1. y \in Seq(Bytes) /\ Tail(x) \in Seq(Bytes)
    BY <1>9, <1>11 DEF y
  <2>. QED
    BY <1>12, <1>13, <2>1, SeqEqual
<1>. QED
  BY <1>2, <1>3, <1>6, <1>10, <1>14 DEF x, y, s

(* A byte that is stored only goes from the line into the buffer.          *)
LEMMA StoreKeepsStream ==
  ASSUME RingTypeOK, LineTypeOK, SerialEvent, ~dropped'
  PROVE  Stream' = Stream
<1>1. line # <<>> /\ line' = Tail(line) /\ ~serialDisable /\ ~IsFull
      /\ Store(Head(line))
  BY DEF SerialEvent
<1>2. Content \in Seq(Bytes) /\ line \in Seq(Bytes)
  BY ContentType
<1>3. Head(line) \in Bytes /\ Tail(line) \in Seq(Bytes)
  BY <1>1, <1>2, HeadTailProperties
<1>4. Content' = Append(Content, Head(line))
  <2>1. ASSUME NEW byte \in Bytes, Store(byte), ~IsFull
        PROVE  Content' = Append(Content, byte)
    BY <2>1, StoreAppends DEF Store, IsFull, Content, RingTypeOK
  <2>. QED
    BY <1>1, <1>3, <2>1
<1>. DEFINE h == <<Head(line)>>
            t == Tail(line)
            s == Content
<1>5. Append(s, Head(line)) = s \o h
  BY <1>2, <1>3, AppendIsConcat
<1>6. h \o t = line
  BY <1>1, <1>2
<1>7. h \in Seq(Bytes)
  BY <1>3
<1>. HIDE DEF h, t, s
<1>8. (s \o h) \o t = s \o (h \o t)
  BY <1>2, <1>3, <1>7, ConcatAssociative, SMTT(60) DEF s, t
<1>. QED
  BY <1>1, <1>4, <1>5, <1>6, <1>8 DEF Stream, s, t

(* What the portal writes comes after all that is on its way.              *)
LEMMA AskExtendsStream ==
  ASSUME RingTypeOK, LineTypeOK, NEW c \in Commands, Ask(c)
  PROVE  Stream' = Stream \o Written(c)
<1>1. line' = line \o Written(c) /\ Content' = Content
  BY DEF Ask, ringVars, Content
<1>2. Content \in Seq(Bytes) /\ line \in Seq(Bytes) /\ Written(c) \in Seq(Bytes)
  BY ContentType, PrinterAssumption
<1>3. (Content \o line) \o Written(c) = Content \o (line \o Written(c))
  BY <1>2, ConcatAssociative, SMTT(60)
<1>. QED
  BY <1>1, <1>3 DEF Stream

(* The bytes of the commands, one after the other; start[i] of them come   *)
(* before the i-th.                                                        *)
Lays(whole, start, commands) ==
  /\ start[Len(commands) + 1] = Len(whole)
  /\ \A i \in 1..Len(commands) :
       /\ start[i + 1] = start[i] + Len(Sent(commands[i]))
       /\ start[i + 1] <= Len(whole)
       /\ \A j \in 1..Len(Sent(commands[i])) :
            whole[start[i] + j] = Sent(commands[i])[j]

(* All but the first t of them.                                            *)
Remains(stream, whole, t) ==
  /\ Len(stream) = Len(whole) - t
  /\ \A j \in 1..Len(stream) : stream[j] = whole[t + j]

(* Another command is laid after the others.                               *)
LEMMA LaysMore ==
  ASSUME NEW whole \in Seq(Bytes), NEW commands \in Seq(Commands),
         NEW start \in [1..Len(commands) + 1 -> Nat], Lays(whole, start, commands),
         NEW c \in Commands, Sent(c) \in Seq(Bytes)
  PROVE  \E further \in [1..Len(commands) + 2 -> Nat] :
           /\ Lays(whole \o Sent(c), further, Append(commands, c))
           /\ \A i \in 1..Len(commands) + 1 : further[i] = start[i]
<1>. DEFINE n == Len(commands)
            s == Sent(c)
            all == whole \o s
            more == Append(commands, c)
            further == [i \in 1..n + 2 |-> IF i = n + 2 THEN Len(whole) + Len(s)
                                           ELSE start[i]]
<1>1. n \in Nat /\ Len(whole) \in Nat /\ Len(s) \in Nat
  BY LenProperties
<1>2. /\ Len(all) = Len(whole) + Len(s)
      /\ \A i \in 1..Len(whole) + Len(s) :
           all[i] = IF i <= Len(whole) THEN whole[i] ELSE s[i - Len(whole)]
  BY ConcatProperties
<1>3. /\ Len(more) = n + 1
      /\ \A i \in 1..n : more[i] = commands[i]
      /\ more[n + 1] = c
  BY AppendProperties
<1>4. \A i \in 1..n + 1 : start[i] \in Nat
  OBVIOUS
<1>5. /\ start[n + 1] = Len(whole)
      /\ \A i \in 1..n :
           /\ start[i + 1] = start[i] + Len(Sent(commands[i]))
           /\ start[i + 1] <= Len(whole)
           /\ \A j \in 1..Len(Sent(commands[i])) :
                whole[start[i] + j] = Sent(commands[i])[j]
  BY DEF Lays
<1>6. further \in [1..n + 2 -> Nat]
  BY <1>1, <1>4
<1>7. further[n + 2] = Len(whole) + Len(s)
      /\ \A i \in 1..n + 1 : further[i] = start[i]
  BY <1>1
<1>8. \A i \in 1..n : Len(Sent(commands[i])) \in Nat
  <2>1. \A i \in 1..n : commands[i] \in Commands
    OBVIOUS
  <2>2. \A d \in Commands : Len(Sent(d)) \in Nat
    BY Shapes
  <2>. QED
    BY <2>1, <2>2
<1>. HIDE DEF n, s, all, more, further
<1>9. ASSUME NEW i \in 1..n + 1
      PROVE  /\ further[i + 1] = further[i] + Len(Sent(more[i]))
             /\ further[i + 1] <= Len(all)
             /\ \A j \in 1..Len(Sent(more[i])) : all[further[i] + j] = Sent(more[i])[j]
  <2>1. CASE i = n + 1
    <3>1. Sent(more[i]) = s /\ further[i] = Len(whole)
          /\ further[i + 1] = Len(whole) + Len(s)
      BY <1>1, <1>3, <1>5, <1>7, <2>1 DEF s
    <3>2. ASSUME NEW j \in 1..Len(s)
          PROVE  all[Len(whole) + j] = s[j]
      <4>1. Len(whole) + j \in 1..Len(whole) + Len(s)
            /\ ~(Len(whole) + j <= Len(whole))
            /\ (Len(whole) + j) - Len(whole) = j
        BY <1>1
      <4>. QED
        BY <1>2, <4>1
    <3>. QED
      BY <1>1, <1>2, <3>1, <3>2, SMTT(60)
  <2>2. CASE i # n + 1
    <3>1. i \in 1..n /\ i + 1 \in 1..n + 1 /\ i \in 1..n + 1
      BY <1>1, <2>2
    <3>2. more[i] = commands[i] /\ further[i] = start[i]
          /\ further[i + 1] = start[i + 1]
      BY <1>3, <1>7, <3>1
    <3>3. /\ start[i + 1] = start[i] + Len(Sent(commands[i]))
          /\ start[i + 1] <= Len(whole)
          /\ start[i] \in Nat /\ Len(Sent(commands[i])) \in Nat
      BY <1>4, <1>5, <1>8, <3>1
    <3>4. ASSUME NEW j \in 1..Len(Sent(commands[i]))
          PROVE  all[start[i] + j] = Sent(commands[i])[j]
      <4>1. whole[start[i] + j] = Sent(commands[i])[j]
        BY <1>5, <3>1
      <4>2. start[i] + j \in 1..Len(whole) + Len(s)
            /\ start[i] + j <= Len(whole)
        BY <1>1, <3>3, SMTT(60)
      <4>. QED
        BY <1>2, <4>1, <4>2
    <3>. QED
      BY <1>1, <1>2, <3>2, <3>3, <3>4
  <2>. QED
    BY <2>1, <2>2
<1>10. further[Len(more) + 1] = Len(all)
  BY <1>1, <1>2, <1>3, <1>7
<1>11. Lays(all, further, more)
  BY <1>3, <1>9, <1>10 DEF Lays
<1>. QED
  BY <1>6, <1>7, <1>11 DEF n, all, s, more

(* More bytes at the end are more that remain.                             *)
LEMMA RemainsMore ==
  ASSUME NEW stream \in Seq(Bytes), NEW whole \in Seq(Bytes), NEW t \in Nat,
         Remains(stream, whole, t), NEW s \in Seq(Bytes)
  PROVE  Remains(stream \o s, whole \o s, t)
<1>. DEFINE x == stream \o s
            y == whole \o s
<1>1. Len(stream) \in Nat /\ Len(whole) \in Nat /\ Len(s) \in Nat
  BY LenProperties
<1>2. /\ Len(x) = Len(stream) + Len(s)
      /\ \A i \in 1..Len(stream) + Len(s) :
           x[i] = IF i <= Len(stream) THEN stream[i] ELSE s[i - Len(stream)]
  BY ConcatProperties
<1>3. /\ Len(y) = Len(whole) + Len(s)
      /\ \A i \in 1..Len(whole) + Len(s) :
           y[i] = IF i <= Len(whole) THEN whole[i] ELSE s[i - Len(whole)]
  BY ConcatProperties
<1>4. /\ Len(stream) = Len(whole) - t
      /\ \A j \in 1..Len(stream) : stream[j] = whole[t + j]
  BY DEF Remains
<1>. HIDE DEF x, y
<1>5. ASSUME NEW j \in 1..Len(x)
      PROVE  x[j] = y[t + j]
  <2>1. j \in 1..Len(stream) + Len(s) /\ t + j \in 1..Len(whole) + Len(s)
    BY <1>1, <1>2, <1>4
  <2>2. CASE j <= Len(stream)
    <3>1. t + j <= Len(whole) /\ j \in 1..Len(stream)
      BY <1>1, <1>4, <2>1, <2>2
    <3>. QED
      BY <1>2, <1>3, <1>4, <2>1, <2>2, <3>1
  <2>3. CASE ~(j <= Len(stream))
    <3>1. ~(t + j <= Len(whole)) /\ (t + j) - Len(whole) = j - Len(stream)
      BY <1>1, <1>4, <2>1, <2>3
    <3>. QED
      BY <1>2, <1>3, <2>1, <2>3, <3>1
  <2>. QED
    BY <2>2, <2>3
<1>6. Len(x) = Len(y) - t
  BY <1>1, <1>2, <1>3, <1>4
<1>. QED
  BY <1>5, <1>6 DEF Remains, x, y

(* When one byte is taken, one less remains.                               *)
LEMMA RemainsLess ==
  ASSUME NEW stream \in Seq(Bytes), stream # <<>>, NEW whole \in Seq(Bytes),
         NEW t \in Nat, Remains(stream, whole, t)
  PROVE  /\ Remains(Tail(stream), whole, t + 1)
         /\ stream[1] = whole[t + 1]
         /\ t < Len(whole)
<1>1. Len(stream) \in Nat \ {0} /\ Len(whole) \in Nat
  BY EmptySeq, LenProperties
<1>2. /\ Len(Tail(stream)) = Len(stream) - 1
      /\ \A i \in 1..Len(Tail(stream)) : Tail(stream)[i] = stream[i + 1]
  BY HeadTailProperties
<1>3. /\ Len(stream) = Len(whole) - t
      /\ \A j \in 1..Len(stream) : stream[j] = whole[t + j]
  BY DEF Remains
<1>4. ASSUME NEW j \in 1..Len(Tail(stream))
      PROVE  Tail(stream)[j] = whole[(t + 1) + j]
  <2>1. j + 1 \in 1..Len(stream) /\ t + (j + 1) = (t + 1) + j
    BY <1>1, <1>2
  <2>. QED
    BY <1>2, <1>3, <2>1
<1>5. Len(Tail(stream)) = Len(whole) - (t + 1)
  BY <1>1, <1>2, <1>3
<1>6. stream[1] = whole[t + 1] /\ t < Len(whole)
  BY <1>1, <1>3
<1>. QED
  BY <1>4, <1>5, <1>6 DEF Remains

-----------------------------------------------------------------------------
(* THE COMMANDS ARE EXECUTED AS THEY WERE ASKED                            *)

(* The commands that were executed are the first that were asked for; what *)
(* is on its way is what follows, from the byte on that the parser has     *)
(* got to.                                                                 *)
Tracks(whole, start, p) ==
  /\ Lays(whole, start, asked)
  /\ Remains(Stream, whole, start[Len(done) + 1] + p)
  /\ IF Len(done) = Len(asked) THEN p = 0 /\ parseState = "eSearching"
     ELSE InCommand(parseState, newData, asked[Len(done) + 1], p)

(* There are such bytes, and a place in them that the parser has got to.   *)
OnTrack ==
  /\ done \in Seq(Commands)
  /\ Len(done) <= Len(asked)
  /\ \A i \in 1..Len(done) : done[i] = asked[i]
  /\ \E whole \in Seq(Bytes), start \in [1..Len(asked) + 1 -> Nat], p \in Nat :
       Tracks(whole, start, p)

(* Nothing was dropped, and the driver leaves the bytes alone.             *)
Faithful == ~dropped /\ \A i \in DOMAIN asked : Verbatim(asked[i])

(* What the printer keeps to, step by step.                                *)
PrinterInv ==
  /\ RingTypeOK
  /\ LineTypeOK
  /\ asked \in Seq(Commands)
  /\ Faithful => OnTrack

(* A step that takes nothing, parses nothing and asks for nothing.         *)
LEMMA OnTrackStays ==
  ASSUME OnTrack, Stream' = Stream,
         UNCHANGED <<parseState, newData, done, asked>>
  PROVE  OnTrack'
<1>1. ASSUME NEW whole, NEW start, NEW p, Tracks(whole, start, p)
      PROVE  Tracks(whole, start, p)'
  BY <1>1 DEF Tracks
<1>. QED
  BY <1>1, Zenon DEF OnTrack

(* The portal asks for another command.                                    *)
LEMMA AskOnTrack ==
  ASSUME RingTypeOK, LineTypeOK, asked \in Seq(Commands), OnTrack,
         NEW c \in Commands, Verbatim(c), Ask(c)
  PROVE  OnTrack'
<1>. DEFINE n == Len(asked)
            k == Len(done)
<1>1. PICK whole \in Seq(Bytes), start \in [1..n + 1 -> Nat], p \in Nat :
        /\ Lays(whole, start, asked)
        /\ Remains(Stream, whole, start[k + 1] + p)
        /\ IF k = n THEN p = 0 /\ parseState = "eSearching"
           ELSE InCommand(parseState, newData, asked[k + 1], p)
  BY DEF OnTrack, Tracks
<1>2. /\ done \in Seq(Commands) /\ n \in Nat /\ k \in Nat /\ k <= n
      /\ \A i \in 1..k : done[i] = asked[i]
  BY LenProperties DEF OnTrack
<1>3. UNCHANGED <<parseState, newData, done>> /\ asked' = Append(asked, c)
  BY DEF Ask, loopVars
<1>4. Written(c) = Sent(c) /\ Sent(c) \in Seq(Bytes)
  BY WrittenIs
<1>5. PICK further \in [1..n + 2 -> Nat] :
        /\ Lays(whole \o Sent(c), further, asked')
        /\ \A i \in 1..n + 1 : further[i] = start[i]
  BY <1>1, <1>3, <1>4, LaysMore
<1>6. /\ asked' \in Seq(Commands) /\ Len(asked') = n + 1
      /\ \A i \in 1..n : asked'[i] = asked[i]
      /\ asked'[n + 1] = c
  BY <1>3, AppendProperties
<1>7. further[k + 1] = start[k + 1] /\ start[k + 1] \in Nat
  BY <1>1, <1>2, <1>5, SMTT(60)
<1>8. Remains(Stream', whole \o Sent(c), further[k + 1] + p)
  <2>1. Stream' = Stream \o Sent(c) /\ Stream \in Seq(Bytes)
    BY <1>4, AskExtendsStream, ContentType
  <2>2. start[k + 1] + p \in Nat
    BY <1>1, <1>7
  <2>. QED
    BY <1>1, <1>4, <1>7, <2>1, <2>2, RemainsMore
<1>9. whole \o Sent(c) \in Seq(Bytes)
  BY <1>1, <1>4, ConcatProperties
<1>10. InCommand(parseState', newData', asked'[k + 1], p)
  <2>1. CASE k = n
    <3>1. p = 0 /\ parseState = "eSearching"
      BY <1>1, <2>1
    <3>. QED
      BY <1>3, <3>1 DEF InCommand
  <2>2. CASE k # n
    <3>1. k + 1 \in 1..n
      BY <1>2, <2>2
    <3>2. asked'[k + 1] = asked[k + 1]
      BY <1>6, <3>1
    <3>3. InCommand(parseState, newData, asked[k + 1], p)
      BY <1>1, <2>2
    <3>. QED
      BY <1>3, <3>2, <3>3
  <2>. QED
    BY <2>1, <2>2
<1>11. Len(done') = k /\ Len(asked') = n + 1 /\ k # n + 1 /\ k <= n + 1
  BY <1>2, <1>3, <1>6
<1>12. \A i \in 1..k : done'[i] = asked'[i]
  BY <1>2, <1>3, <1>6
<1>13. Tracks(whole \o Sent(c), further, p)'
  <2>1. ~(Len(done') = Len(asked')) /\ Len(done') + 1 = k + 1
    BY <1>11
  <2>2. InCommand(parseState', newData', asked'[Len(done') + 1], p)
    BY <1>10, <1>11
  <2>3. Remains(Stream', whole \o Sent(c), further[Len(done') + 1] + p)
    BY <1>8, <1>11
  <2>. QED
    BY <1>5, <2>1, <2>2, <2>3, Zenon DEF Tracks
<1>14. further \in [1..Len(asked') + 1 -> Nat]
  BY <1>2, <1>5, <1>6
<1>15. done' \in Seq(Commands) /\ Len(done') <= Len(asked')
  BY <1>2, <1>3, <1>11
<1>16. \A i \in 1..Len(done') : done'[i] = asked'[i]
  BY <1>11, <1>12
<1>. QED
  BY <1>1, <1>9, <1>13, <1>14, <1>15, <1>16, Zenon DEF OnTrack

(* processCommand takes a byte: it is the next one of the command it is    *)
(* in, or the delimiter of the one after.                                  *)
LEMMA ProcessOnTrack ==
  ASSUME RingTypeOK, LineTypeOK, asked \in Seq(Commands), OnTrack,
         ProcessCommand
  PROVE  OnTrack'
<1>. DEFINE n == Len(asked)
            k == Len(done)
            c == asked[k + 1]
<1>1. PICK whole \in Seq(Bytes), start \in [1..n + 1 -> Nat], p \in Nat :
        /\ Lays(whole, start, asked)
        /\ Remains(Stream, whole, start[k + 1] + p)
        /\ IF k = n THEN p = 0 /\ parseState = "eSearching"
           ELSE InCommand(parseState, newData, asked[k + 1], p)
  BY DEF OnTrack, Tracks
<1>2. /\ done \in Seq(Commands) /\ n \in Nat /\ k \in Nat /\ k <= n
      /\ \A i \in 1..k : done[i] = asked[i]
  BY LenProperties DEF OnTrack
<1>3. UNCHANGED <<line, asked>> /\ Take
  BY DEF ProcessCommand
<1>4. start[k + 1] \in Nat /\ start[k + 1] + p \in Nat
  BY <1>1, <1>2, SMTT(60)
<1>5. /\ Remains(Stream', whole, (start[k + 1] + p) + 1)
      /\ Oldest = whole[(start[k + 1] + p) + 1]
      /\ start[k + 1] + p < Len(whole)
  BY <1>1, <1>3, <1>4, TakesFirst, RemainsLess
<1>6. k # n
  <2>1. start[n + 1] = Len(whole)
    BY <1>1 DEF Lays
  <2>2. Len(whole) \in Nat
    BY <1>1, LenProperties
  <2>. QED
    BY <1>1, <1>4, <1>5, <2>1, <2>2
<1>7. k + 1 \in 1..n /\ c \in Commands /\ InCommand(parseState, newData, c, p)
  BY <1>1, <1>2, <1>6
<1>8. /\ start[k + 2] = start[k + 1] + Len(Sent(c))
      /\ \A j \in 1..Len(Sent(c)) : whole[start[k + 1] + j] = Sent(c)[j]
  <2>1. (k + 1) + 1 = k + 2
    BY <1>2
  <2>. QED
    BY <1>1, <1>7, <2>1 DEF Lays
<1>9. p + 1 \in 1..Len(Sent(c))
  BY <1>7, InCommandShort
<1>10. (start[k + 1] + p) + 1 = start[k + 1] + (p + 1)
  <2>1. p \in Nat
    BY <1>1
  <2>. QED
    BY <1>4, <2>1, SMTT(60)
<1>11. Oldest = Sent(c)[p + 1]
  BY <1>5, <1>8, <1>9, <1>10
<1>12. Parsed(c, p)
  BY <1>7, <1>11, ParserStep
<1>13. CASE p + 1 < Len(Sent(c))
            /\ InCommand(parseState', newData', c, p + 1) /\ done' = done
  <2>1. Remains(Stream', whole, start[k + 1] + (p + 1))
    BY <1>5, <1>10
  <2>2. p + 1 \in Nat
    BY <1>1
  <2>3. InCommand(parseState', newData', asked'[Len(done') + 1], p + 1)
    BY <1>3, <1>13
  <2>4. Tracks(whole, start, p + 1)'
    BY <1>1, <1>3, <1>6, <1>13, <2>1, <2>3, Zenon DEF Tracks
  <2>. QED
    BY <1>1, <1>2, <1>3, <1>13, <2>2, <2>4, Zenon DEF OnTrack
<1>14. CASE p + 1 = Len(Sent(c)) /\ parseState' = "eSearching"
            /\ done' = Append(done, c)
  <2>1. /\ done' \in Seq(Commands) /\ Len(done') = k + 1
        /\ \A i \in 1..k : done'[i] = done[i]
        /\ done'[k + 1] = c
    BY <1>2, <1>7, <1>14, AppendProperties
  <2>2. \A i \in 1..k + 1 : done'[i] = asked[i]
    <3>1. \A i \in 1..k + 1 : i \in 1..k \/ i = k + 1
      BY <1>2
    <3>2. \A i \in 1..k : done'[i] = asked[i]
      BY <1>2, <2>1
    <3>. QED
      BY <2>1, <3>1, <3>2
  <2>3. start[k + 2] + 0 = (start[k + 1] + p) + 1 /\ (k + 1) + 1 = k + 2
    BY <1>1, <1>2, <1>4, <1>8, <1>10, <1>14, SMTT(60)
  <2>4. Remains(Stream', whole, start[(k + 1) + 1] + 0)
    BY <1>5, <2>3
  <2>5. k + 1 <= n
    BY <1>2, <1>6
  <2>6. InCommand(parseState', newData', asked'[Len(done') + 1], 0)
    BY <1>14 DEF InCommand
  <2>7. Tracks(whole, start, 0)'
    <3>1. Remains(Stream', whole, start[Len(done') + 1] + 0)
      BY <2>1, <2>4
    <3>2. Lays(whole, start, asked')
      BY <1>1, <1>3
    <3>. QED
      BY <1>14, <2>6, <3>1, <3>2, Zenon DEF Tracks
  <2>8. Len(done') <= Len(asked')
        /\ \A i \in 1..Len(done') : done'[i] = asked'[i]
    BY <1>3, <2>1, <2>2, <2>5
  <2>9. 0 \in Nat
    OBVIOUS
  <2>. QED
    BY <1>1, <1>3, <2>1, <2>7, <2>8, <2>9, Zenon DEF OnTrack
<1>. QED
  BY <1>12, <1>13, <1>14 DEF Parsed

(* As long as no byte is dropped and no command has a byte that the driver *)
(* changes, the printer is on track.                                       *)
LEMMA PrinterInvariance == PrinterSpec => []PrinterInv
<1>1. PrinterInit => PrinterInv
  <2> SUFFICES ASSUME PrinterInit
               PROVE  PrinterInv
    OBVIOUS
  <2>1. RingTypeOK
    BY RingAssumption DEF PrinterInit, RingInit, RingTypeOK, Indices
  <2>2. LineTypeOK /\ asked \in Seq(Commands) /\ done \in Seq(Commands)
    BY DEF PrinterInit, LineTypeOK
  <2>3. Len(asked) = 0 /\ Len(done) = 0
    BY DEF PrinterInit
  <2>4. Content = <<>>
    <3>1. Count(pendingHead, pendingTail) = 0
      BY DEF PrinterInit, RingInit, Count
    <3>2. Content \in Seq(Bytes) /\ Len(Content) = 0
      BY <2>1, <3>1, BetweenIsASequence DEF Content, RingTypeOK
    <3>. QED
      BY <3>2, EmptySeq
  <2>5. Stream = <<>>
    BY <2>4 DEF Stream, PrinterInit
  <2>. DEFINE start == [i \in 1..1 |-> 0]
  <2>6. start \in [1..Len(asked) + 1 -> Nat] /\ start[1] = 0
    BY <2>3
  <2>. HIDE DEF start
  <2>7. Lays(<<>>, start, asked)
    BY <2>3, <2>6 DEF Lays
  <2>8. Remains(Stream, <<>>, start[Len(done) + 1] + 0)
    BY <2>3, <2>5, <2>6 DEF Remains
  <2>9. Tracks(<<>>, start, 0)
    BY <2>3, <2>7, <2>8 DEF Tracks, PrinterInit
  <2>10. <<>> \in Seq(Bytes) /\ 0 \in Nat
    OBVIOUS
  <2>11. Len(done) <= Len(asked) /\ \A i \in 1..Len(done) : done[i] = asked[i]
    BY <2>3
  <2>12. OnTrack
    BY <2>2, <2>6, <2>9, <2>10, <2>11, Zenon DEF OnTrack
  <2> QED
    BY <2>1, <2>2, <2>12 DEF PrinterInv
<1>2. PrinterInv /\ LineTypeOK' /\ RingTypeOK'
      /\ [PrinterNext]_printerVars => PrinterInv'
  <2> SUFFICES ASSUME PrinterInv, LineTypeOK', RingTypeOK',
                      [PrinterNext]_printerVars
               PROVE  asked' \in Seq(Commands) /\ (Faithful' => OnTrack')
    BY DEF PrinterInv
  <2>1. RingTypeOK /\ LineTypeOK /\ asked \in Seq(Commands)
        /\ (Faithful => OnTrack)
    BY DEF PrinterInv
  <2>2. ASSUME NEW c \in Commands, Ask(c)
        PROVE  asked' \in Seq(Commands) /\ (Faithful' => OnTrack')
    <3>1. /\ asked' = Append(asked, c) /\ dropped' = dropped
          /\ asked' \in Seq(Commands)
          /\ Len(asked') = Len(asked) + 1
          /\ \A i \in 1..Len(asked) : asked'[i] = asked[i]
          /\ asked'[Len(asked) + 1] = c
      BY <2>1, <2>2, AppendProperties DEF Ask
    <3>2. ASSUME Faithful'
          PROVE  Faithful /\ Verbatim(c)
      <4>1. Len(asked) \in Nat /\ DOMAIN asked = 1..Len(asked)
            /\ DOMAIN asked' = 1..Len(asked')
        BY <2>1, <3>1, LenProperties
      <4>2. \A i \in 1..Len(asked) : i \in 1..Len(asked')
        BY <3>1, <4>1
      <4>3. Len(asked) + 1 \in 1..Len(asked')
        BY <3>1, <4>1
      <4>4. ~dropped' /\ \A i \in 1..Len(asked') : Verbatim(asked'[i])
        BY <3>2, <4>1 DEF Faithful
      <4>5. \A i \in 1..Len(asked) : Verbatim(asked[i])
        BY <3>1, <4>2, <4>4, Zenon
      <4>6. Verbatim(c)
        BY <3>1, <4>3, <4>4, Zenon
      <4>. QED
        BY <3>1, <4>1, <4>4, <4>5, <4>6 DEF Faithful
    <3>. QED
      BY <2>1, <2>2, <3>1, <3>2, AskOnTrack
  <2>3. CASE ProcessCommand
    <3>1. UNCHANGED <<asked, dropped>>
      BY <2>3 DEF ProcessCommand
    <3>2. Faithful' => Faithful
      BY <3>1 DEF Faithful
    <3>. QED
      BY <2>1, <2>3, <3>1, <3>2, ProcessOnTrack
  <2>4. CASE SerialEvent
    <3>1. UNCHANGED <<parseState, newData, done, asked>>
      BY <2>4 DEF SerialEvent, loopVars
    <3>2. ~dropped' => ~dropped
      BY <2>4, Zenon DEF SerialEvent
    <3>3. Faithful' => Faithful /\ ~dropped'
      BY <3>1, <3>2, Zenon DEF Faithful
    <3>. QED
      BY <2>1, <2>4, <3>1, <3>3, StoreKeepsStream, OnTrackStays
  <2>5. CASE PinFalls \/ SecondPasses \/ Due \/ UpdateBuffer \/ UNCHANGED printerVars
    <3>1. UNCHANGED <<parseState, newData, done, asked, dropped, ringVars, line>>
      BY <2>5 DEF PinFalls, SecondPasses, Due, UpdateBuffer, printerVars,
             loopVars
    <3>2. Stream' = Stream
      BY <3>1 DEF ringVars, Stream, Content
    <3>3. Faithful' => Faithful
      BY <3>1 DEF Faithful
    <3>. QED
      BY <2>1, <3>1, <3>2, <3>3, OnTrackStays
  <2> QED
    BY <2>2, <2>3, <2>4, <2>5 DEF PrinterNext
<1> QED
  BY <1>1, <1>2, LineTypeCorrect, PrinterUsesRing, RingTypeCorrect, PTL
     DEF PrinterSpec

(* The commands that the printer executes are those that were asked for,   *)
(* in order and with their numbers, and once nothing is on its way it has  *)
(* executed all of them: unless the driver changes a byte, or the buffer   *)
(* drops one.                                                              *)
THEOREM DoesWhatArrivesHolds == PrinterSpec => []DoesWhatArrives
<1>1. PrinterInv => DoesWhatArrives
  <2> SUFFICES ASSUME PrinterInv, Faithful
               PROVE  IsPrefix(done, asked) /\ (Settled => done = asked)
    BY DEF Faithful, DoesWhatArrives, DoesAsAsked
  <2>. DEFINE n == Len(asked)
              k == Len(done)
  <2>1. OnTrack /\ RingTypeOK /\ LineTypeOK
    BY DEF PrinterInv
  <2>2. /\ done \in Seq(Commands) /\ asked \in Seq(Commands)
        /\ n \in Nat /\ k \in Nat /\ k <= n
        /\ \A i \in 1..k : done[i] = asked[i]
    BY <2>1, LenProperties DEF PrinterInv, OnTrack
  <2>3. IsPrefix(done, asked)
    <3>1. SubSeq(done, 1, k) = done
      BY <2>2, SubSeqFull
    <3>2. \A i \in 1..k : asked[i] \in Commands
      BY <2>2
    <3>. DEFINE s == SubSeq(asked, 1, k)
    <3>3. /\ s \in Seq(Commands) /\ Len(s) = k
          /\ \A i \in 1..k : s[i] = asked[i]
      BY <2>2, <3>2
    <3>. HIDE DEF s
    <3>4. done = s
      BY <2>2, <3>3, SeqEqual
    <3>. QED
      BY <2>2, <3>1, <3>4 DEF IsPrefix, s
  <2>4. ASSUME Settled
        PROVE  done = asked
    <3>1. Len(Stream) = 0
      <4>1. Count(pendingHead, pendingTail) = 0
        BY <2>1, <2>4, FullWhenFull DEF Settled
      <4>2. Len(Content) = 0 /\ Len(line) = 0 /\ Content \in Seq(Bytes)
            /\ line \in Seq(Bytes)
        BY <2>1, <2>4, <4>1, ContentType, BetweenIsASequence DEF Settled,
               Content, RingTypeOK
      <4>. QED
        BY <4>2, ConcatProperties DEF Stream
    <3>2. PICK whole \in Seq(Bytes), start \in [1..n + 1 -> Nat], p \in Nat :
            Tracks(whole, start, p)
      BY <2>1 DEF OnTrack
    <3>3. start[k + 1] \in Nat /\ Len(whole) \in Nat /\ p \in Nat
      BY <2>2, <3>2, LenProperties
    <3>4. start[k + 1] + p = Len(whole)
      BY <3>1, <3>2, <3>3, SMTT(60) DEF Tracks, Remains
    <3>5. ASSUME k # n PROVE FALSE
      <4>1. k + 1 \in 1..n /\ asked[k + 1] \in Commands
        BY <2>2, <3>5
      <4>2. InCommand(parseState, newData, asked[k + 1], p)
        BY <3>2, <3>5 DEF Tracks
      <4>. DEFINE l == Len(Sent(asked[k + 1]))
      <4>3. p + 1 \in 1..l
        BY <4>1, <4>2, InCommandShort
      <4>4. /\ start[(k + 1) + 1] = start[k + 1] + l
            /\ start[(k + 1) + 1] <= Len(whole)
        BY <3>2, <4>1 DEF Tracks, Lays
      <4>5. l \in Nat
        BY <4>1, Shapes
      <4>. HIDE DEF l
      <4>. QED
        BY <3>3, <3>4, <4>3, <4>4, <4>5
    <3>. QED
      BY <2>2, <3>5, SeqEqual
  <2> QED
    BY <2>3, <2>4
<1> QED
  BY <1>1, PrinterInvariance, PTL

-----------------------------------------------------------------------------
(* THE TEXT OF A TIME AND ITS GLYPHS                                       *)

(* A column of a glyph, and a text of the display that fits the ring.      *)
Lit == SUBSET Nat

Width(k) == IF k = 3 THEN 1 ELSE IF k = 6 THEN 3 ELSE 4

Fits(text) ==
  /\ DOMAIN text = 1..6 /\ Len(text) = 6
  /\ \A k \in 1..6 : Glyph(text[k]) \in Seq(Lit) /\ Len(Glyph(text[k])) = Width(k)

(* The first place in a sequence that holds an element, which SelectInSeq  *)
(* looks for; 0 if there is none.                                          *)
First(seq, e) ==
  LET I == {j \in 1..Len(seq) : seq[j] = e}
  IN IF I # {} THEN Min(I) ELSE 0

(* The first is the one that none before it equals.                        *)
LEMMA FirstIs ==
  ASSUME NEW seq, NEW e, NEW n \in 1..Len(seq), Len(seq) \in Nat, seq[n] = e,
         \A k \in 1..n - 1 : seq[k] # e
  PROVE  First(seq, e) = n
<1>. DEFINE I == {j \in 1..Len(seq) : seq[j] = e}
<1>1. n \in I
  OBVIOUS
<1>2. ASSUME NEW x \in I PROVE x \in Nat /\ n <= x
  <2>1. x \in Nat /\ x >= 1 /\ ~(x \in 1..n - 1)
    OBVIOUS
  <2>. QED
    BY <2>1
<1>3. \A x \in I : (\A y \in I : x <= y) <=> x = n
  <2>. HIDE DEF I
  <2>. QED
    BY <1>1, <1>2
<1>4. Min(I) = n
  <2>. HIDE DEF I
  <2>. QED
    BY <1>1, <1>3, Zenon DEF Min
<1>5. First(seq, e) = IF I # {} THEN Min(I) ELSE 0
  BY Zenon DEF First
<1>. HIDE DEF I
<1>. QED
  BY <1>1, <1>4, <1>5, Zenon

(* No key of the font is there twice.                                      *)
LEMMA KeysDiffer ==
  /\ Len(FontKey) = 12
  /\ \A n \in 1..12 : \A k \in 1..n - 1 : FontKey[k] # FontKey[n]
<1>. DEFINE blank == " "
            strange == {"0", "1", "2", "3", "4", "5", "6", "7", "8", "9", ":"}
<1>1. Len(FontKey) = 12
  BY DEF FontKey
<1>2. /\ FontKey[1] = "0" /\ FontKey[2] = "1" /\ FontKey[3] = "2"
      /\ FontKey[4] = "3" /\ FontKey[5] = "4" /\ FontKey[6] = "5"
      /\ FontKey[7] = "6" /\ FontKey[8] = "7" /\ FontKey[9] = "8"
      /\ FontKey[10] = "9" /\ FontKey[11] = blank /\ FontKey[12] = ":"
  BY DEF FontKey
<1>3. ~(blank \in strange)
  BY Zenon
<1>. HIDE DEF blank
<1>4. ASSUME NEW n \in 1..12, NEW k \in 1..n - 1 PROVE FontKey[k] # FontKey[n]
  BY <1>2, <1>3
<1>. QED
  BY <1>1, <1>4

(* So each character has the glyph of its place in the font.               *)
LEMMA GlyphIs ==
  ASSUME NEW n \in 1..12
  PROVE  Glyph(FontKey[n]) = Font[n]
<1>1. First(FontKey, FontKey[n]) = n
  <2>1. Len(FontKey) \in Nat /\ n \in 1..Len(FontKey)
    BY KeysDiffer
  <2>2. \A k \in 1..n - 1 : FontKey[k] # FontKey[n]
    BY KeysDiffer
  <2>. QED
    BY <2>1, <2>2, FirstIs
<1>2. Glyph(FontKey[n]) = Font[First(FontKey, FontKey[n])]
  BY Zenon DEF Glyph, SelectInSeq, First
<1>. QED
  BY <1>1, <1>2

(* A digit is four columns wide, the space three and the colon one.        *)
LEMMA FontIs ==
  /\ \A n \in 1..10 : Font[n] \in Seq(Lit) /\ Len(Font[n]) = 4
  /\ Font[11] \in Seq(Lit) /\ Len(Font[11]) = 3
  /\ Font[12] \in Seq(Lit) /\ Len(Font[12]) = 1
<1>. DEFINE G == Seq(Lit)
            tail == <<Space, Colon>>
<1>1. ASSUME NEW n \in 1..10 PROVE Digits[n] \in G /\ Len(Digits[n]) = 4
  <2>1. Digits[1] \in G /\ Len(Digits[1]) = 4
    BY DEF Digits, Lit
  <2>2. Digits[2] \in G /\ Len(Digits[2]) = 4
    BY DEF Digits, Lit
  <2>3. Digits[3] \in G /\ Len(Digits[3]) = 4
    BY DEF Digits, Lit
  <2>4. Digits[4] \in G /\ Len(Digits[4]) = 4
    BY DEF Digits, Lit
  <2>5. Digits[5] \in G /\ Len(Digits[5]) = 4
    BY DEF Digits, Lit
  <2>6. Digits[6] \in G /\ Len(Digits[6]) = 4
    BY DEF Digits, Lit
  <2>7. Digits[7] \in G /\ Len(Digits[7]) = 4
    BY DEF Digits, Lit
  <2>8. Digits[8] \in G /\ Len(Digits[8]) = 4
    BY DEF Digits, Lit
  <2>9. Digits[9] \in G /\ Len(Digits[9]) = 4
    BY DEF Digits, Lit
  <2>10. Digits[10] \in G /\ Len(Digits[10]) = 4
    BY DEF Digits, Lit
  <2>. HIDE DEF G
  <2>. QED
    BY <2>1, <2>2, <2>3, <2>4, <2>5, <2>6, <2>7, <2>8, <2>9, <2>10
<1>2. Len(Digits) = 10 /\ DOMAIN Digits = 1..10
  BY DEF Digits
<1>3. Digits \in Seq(G)
  <2>1. Digits = [i \in 1..10 |-> Digits[i]]
    BY DEF Digits
  <2>. HIDE DEF G
  <2>. QED
    BY <1>1, <2>1
<1>4. Space \in G /\ Len(Space) = 3 /\ Colon \in G /\ Len(Colon) = 1
  BY DEF Space, Colon, Lit
<1>. HIDE DEF G
<1>5. tail \in Seq(G) /\ Len(tail) = 2 /\ tail[1] = Space /\ tail[2] = Colon
  BY <1>4
<1>. HIDE DEF tail
<1>6. \A i \in 1..12 : Font[i] = IF i <= 10 THEN Digits[i] ELSE tail[i - 10]
  <2>. DEFINE font == Digits \o tail
  <2>1. /\ Len(font) = Len(Digits) + Len(tail)
        /\ \A i \in 1..Len(Digits) + Len(tail) :
             font[i] = IF i <= Len(Digits) THEN Digits[i] ELSE tail[i - Len(Digits)]
    BY <1>3, <1>5, ConcatProperties
  <2>2. Font = font
    BY DEF Font, tail
  <2>. HIDE DEF font
  <2>. QED
    BY <1>2, <1>5, <2>1, <2>2
<1>7. /\ \A n \in 1..10 : Font[n] = Digits[n]
      /\ Font[11] = Space /\ Font[12] = Colon
  BY <1>5, <1>6
<1>. QED
  BY <1>1, <1>4, <1>7 DEF G

(* The text of any time is as wide as any other: map_digit gives a key of  *)
(* the font for each digit.                                                *)
LEMMA TextFits ==
  ASSUME NEW time \in Nat
  PROVE  Fits(Text(time))
<1>. DEFINE s == time % 60
            m == (time % 3600) \div 60
            text == Text(time)
            blank == " "
<1>1. s \in 0..59 /\ m \in 0..59
  OBVIOUS
<1>. HIDE DEF s, m
<1>2. /\ m \div 10 \in 0..9 /\ m % 10 \in 0..9
      /\ s \div 10 \in 0..9 /\ s % 10 \in 0..9
  BY <1>1
<1>3. text = <<MapDigit(m \div 10), MapDigit(m % 10), ":",
               MapDigit(s \div 10), MapDigit(s % 10), blank>>
  BY DEF Text, m, s
<1>. HIDE DEF text, blank
<1>4. ASSUME NEW d \in 0..9
      PROVE  Glyph(MapDigit(d)) \in Seq(Lit) /\ Len(Glyph(MapDigit(d))) = 4
  <2>1. d + 1 \in 1..10 /\ d + 1 \in 1..12
    OBVIOUS
  <2>2. MapDigit(d) = FontKey[d + 1]
    BY DigitsAssumption
  <2>3. Glyph(MapDigit(d)) = Font[d + 1]
    BY <2>1, <2>2, GlyphIs
  <2>. QED
    BY <2>1, <2>3, FontIs
<1>5. Glyph(":") \in Seq(Lit) /\ Len(Glyph(":")) = 1
  <2>1. FontKey[12] = ":"
    BY DEF FontKey
  <2>2. Glyph(":") = Font[12]
    BY <2>1, GlyphIs
  <2>. QED
    BY <2>2, FontIs, Zenon
<1>6. Glyph(blank) \in Seq(Lit) /\ Len(Glyph(blank)) = 3
  <2>1. FontKey[11] = blank
    BY Zenon DEF FontKey, blank
  <2>2. Glyph(FontKey[11]) = Font[11]
    BY GlyphIs
  <2>. QED
    BY <2>1, <2>2, FontIs, Zenon
<1>7. /\ DOMAIN text = 1..6 /\ Len(text) = 6
      /\ text[1] = MapDigit(m \div 10) /\ text[2] = MapDigit(m % 10)
      /\ text[3] = ":" /\ text[6] = blank
      /\ text[4] = MapDigit(s \div 10) /\ text[5] = MapDigit(s % 10)
  BY <1>3
<1>8. ASSUME NEW k \in {1, 2, 4, 5}
      PROVE  Glyph(text[k]) \in Seq(Lit) /\ Len(Glyph(text[k])) = Width(k)
  <2>1. \E d \in 0..9 : text[k] = MapDigit(d)
    BY <1>2, <1>7
  <2>2. Width(k) = 4
    BY DEF Width
  <2>. QED
    BY <1>4, <2>1, <2>2
<1>9. Width(3) = 1 /\ Width(6) = 3
  BY DEF Width
<1>10. ASSUME NEW k \in 1..6
       PROVE  Glyph(text[k]) \in Seq(Lit) /\ Len(Glyph(text[k])) = Width(k)
  <2>1. k \in {1, 2, 4, 5} \/ k = 3 \/ k = 6
    OBVIOUS
  <2>. QED
    BY <1>5, <1>6, <1>7, <1>8, <1>9, <2>1, Zenon
<1>. QED
  BY <1>7, <1>10 DEF Fits, text

-----------------------------------------------------------------------------
(* THE RING OF COLUMNS                                                     *)

(* Where a character begins on the ring, and the place of a cursor.        *)
Start(k) == IF k <= 3 THEN 5 * (k - 1) ELSE 5 * (k - 1) - 3

Cursor == {c \in [char : 1..6, column : Nat] : c.column <= Width(c.char)}

CursorPlace(cursor) == Start(cursor.char) + cursor.column

(* Six characters of these widths, with a gap after each, take up 26       *)
(* columns.                                                                *)
LEMMA PeriodIs == ScrollPeriod = 26
BY DEF ScrollPeriod

(* The places of the cursors are those of the ring.                        *)
LEMMA PlaceInRing ==
  ASSUME NEW c \in Cursor
  PROVE  CursorPlace(c) \in 0..25
BY DEF Cursor, CursorPlace, Start, Width

(* advance moves a cursor on by one place of the ring, also from the last  *)
(* column of the text to the first.                                        *)
LEMMA AdvancePlace ==
  ASSUME NEW text, Fits(text), NEW c \in Cursor
  PROVE  /\ Advance(text, c) \in Cursor
         /\ CursorPlace(Advance(text, c)) = (CursorPlace(c) + 1) % 26
<1>. DEFINE l == Len(Glyph(text[c.char]))
            r == Advance(text, c)
            after == (c.char % Len(text)) + 1
<1>1. /\ c.char \in 1..6 /\ c.column \in Nat /\ c.column <= Width(c.char)
      /\ c = [char |-> c.char, column |-> c.column]
  BY DEF Cursor
<1>2. l = Width(c.char) /\ Len(text) = 6
  BY <1>1 DEF Fits
<1>3. r = IF c.column + 1 > l THEN [char |-> after, column |-> 0]
          ELSE [c EXCEPT !.column = c.column + 1]
  BY DEF Advance
<1>. HIDE DEF l, r
<1>4. CASE c.column + 1 > l
  <2>1. c.column = Width(c.char)
    BY <1>1, <1>2, <1>4 DEF Width
  <2>2. after \in 1..6 /\ after = IF c.char = 6 THEN 1 ELSE c.char + 1
    BY <1>1, <1>2
  <2>. HIDE DEF after
  <2>3. r = [char |-> after, column |-> 0]
    BY <1>3, <1>4
  <2>4. r \in Cursor
    BY <2>2, <2>3 DEF Cursor, Width
  <2>5. CursorPlace(r) = Start(after)
    BY <2>2, <2>3 DEF CursorPlace, Start
  <2>6. Start(after) = (Start(c.char) + Width(c.char) + 1) % 26
    BY <1>1, <2>2 DEF Start, Width
  <2>. QED
    BY <2>1, <2>4, <2>5, <2>6 DEF CursorPlace, r
<1>5. CASE ~(c.column + 1 > l)
  <2>1. r = [char |-> c.char, column |-> c.column + 1]
    BY <1>1, <1>3, <1>5
  <2>2. c.column + 1 <= Width(c.char)
    BY <1>1, <1>2, <1>5 DEF Width
  <2>3. r \in Cursor
    BY <1>1, <2>1, <2>2 DEF Cursor
  <2>4. CursorPlace(r) = CursorPlace(c) + 1
    BY <1>1, <2>1 DEF CursorPlace, Start
  <2>5. CursorPlace(r) \in 0..25
    BY <2>3, PlaceInRing
  <2>6. CursorPlace(c) \in 0..25
    BY PlaceInRing
  <2>7. (CursorPlace(c) + 1) % 26 = CursorPlace(c) + 1
    BY <2>4, <2>5, <2>6
  <2>. QED
    BY <2>3, <2>4, <2>7 DEF r
<1>. QED
  BY <1>4, <1>5

-----------------------------------------------------------------------------
(* THE FOLDS OF updatebuffer, UNFOLDED                                     *)

(* The fold over the columns that updatebuffer passes, one at a time.      *)
LEMMA CursorsUnfold ==
  ASSUME NEW text, NEW number \in Nat, number > 0
  PROVE  \E f : /\ f[0] = <<[char |-> 1, column |-> 0]>>
                /\ \A i \in 1..number - 1 :
                     f[i] = Append(f[i - 1], Advance(text, Last(f[i - 1])))
                /\ Cursors(text, number) = f[number - 1]
<1>. DEFINE
       first == <<[char |-> 1, column |-> 0]>>
       Moves(cursors) == Append(cursors, Advance(text, Last(cursors)))
       items == [i \in 1..number - 1 |-> i]
       Unfold(f, n) ==
         [z \in SUBSET (1..n) |->
            IF z = {} THEN first ELSE Moves(f[z \ {Max(z)}])]
       P == {n \in Nat : \E f : f = Unfold(f, n)}
       n == number - 1
       iter == CHOOSE f :
                 f = [z \in SUBSET (DOMAIN items) |->
                        IF z = {} THEN first
                        ELSE Moves(f[z \ {Max(z)}])]
<1>1. Cursors(text, number) = iter[DOMAIN items]
  BY Zenon DEF Cursors, FoldLeft, MapThenFoldSet
<1>2. 0 \in P
  <2>1. [z \in SUBSET (1..0) |-> first] = Unfold([z \in SUBSET (1..0) |-> first], 0)
    OBVIOUS
  <2>. QED
    BY <2>1
<1>3. ASSUME NEW k \in Nat, k \in P PROVE k + 1 \in P
  <2>1. PICK f : f = Unfold(f, k)
    BY <1>3
  <2>. DEFINE g == [z \in SUBSET (1..k + 1) |->
                      IF k + 1 \in z THEN Moves(f[z \ {k + 1}])
                      ELSE f[z]]
  <2>2. ASSUME NEW z \in SUBSET (1..k)
        PROVE  f[z] = IF z = {} THEN first ELSE Moves(f[z \ {Max(z)}])
    BY <2>1, Zenon
  <2>3. ASSUME NEW z \in SUBSET (1..k + 1), ~(k + 1 \in z)
        PROVE  z \in SUBSET (1..k)
    BY <2>3
  <2>4. ASSUME NEW z \in SUBSET (1..k + 1)
        PROVE  g[z] = IF z = {} THEN first ELSE Moves(g[z \ {Max(z)}])
    <3>1. CASE k + 1 \in z
      <4>1. Max(z) = k + 1
        BY <3>1, MaxIs
      <4>2. z \ {k + 1} \in SUBSET (1..k + 1) /\ ~(k + 1 \in z \ {k + 1})
        OBVIOUS
      <4>3. g[z \ {k + 1}] = f[z \ {k + 1}]
        BY <4>2, Zenon
      <4>4. g[z] = Moves(f[z \ {k + 1}])
        BY <3>1, Zenon
      <4>. HIDE DEF g
      <4>. QED
        BY <3>1, <4>1, <4>3, <4>4, Zenon
    <3>2. CASE ~(k + 1 \in z)
      <4>1. z \ {Max(z)} \in SUBSET (1..k + 1) /\ ~(k + 1 \in z \ {Max(z)})
        BY <3>2
      <4>2. g[z] = f[z] /\ g[z \ {Max(z)}] = f[z \ {Max(z)}]
        BY <3>2, <4>1, Zenon
      <4>3. z \in SUBSET (1..k)
        BY <2>3, <3>2
      <4>. HIDE DEF g
      <4>. QED
        BY <2>2, <4>2, <4>3, Zenon
    <3>. QED
      BY <3>1, <3>2
  <2>5. g = Unfold(g, k + 1)
    <3>1. g = [z \in SUBSET (1..k + 1) |-> g[z]]
      BY Zenon
    <3>. HIDE DEF g
    <3>. QED
      BY <2>4, <3>1, Zenon
  <2>. HIDE DEF g, Unfold
  <2>. QED
    BY <2>5
<1>4. n \in Nat /\ DOMAIN items = 1..n
  OBVIOUS
<1>5. n \in P
  <2>. HIDE DEF P, n
  <2>. QED
    BY <1>2, <1>3, <1>4, NatInductive
<1>6. iter = Unfold(iter, n)
  <2>1. \E f : f = Unfold(f, n)
    BY <1>5, Zenon
  <2>2. iter = CHOOSE f : f = Unfold(f, n)
    BY <1>4, Zenon
  <2>. HIDE DEF Unfold, n, iter
  <2>. QED
    BY <2>1, <2>2, Zenon
<1>. HIDE DEF iter, n
<1>. DEFINE f == [i \in 0..n |-> iter[1..i]]
<1>7. f[0] = first
  <2>1. iter[{}] = first
    BY <1>6, Zenon
  <2>2. 1..0 = {} /\ 0 \in 0..n
    BY <1>4
  <2>. QED
    BY <2>1, <2>2, Zenon
<1>8. ASSUME NEW i \in 1..n PROVE f[i] = Moves(f[i - 1])
  <2>0. i \in Nat /\ 1 <= i /\ i <= n
    BY <1>4
  <2>1. /\ 1..i \in SUBSET (1..n) /\ 1..i # {}
        /\ i \in 0..n /\ i - 1 \in 0..n
        /\ (1..i) \ {i} = 1..i - 1
    <3>1. 1 \in 1..i /\ i \in 0..n /\ i - 1 \in 0..n
      BY <1>4, <2>0
    <3>2. \A j \in 1..i : j \in 1..n
      BY <1>4, <2>0
    <3>3. (1..i) \ {i} = 1..i - 1
      BY <2>0
    <3>. QED
      BY <3>1, <3>2, <3>3, Zenon
  <2>2. Max(1..i) = i
    <3>1. i - 1 \in Nat /\ (i - 1) + 1 = i /\ i \in 1..i
      BY <1>4
    <3>. QED
      BY <3>1, MaxIs
  <2>3. iter[1..i] = Moves(iter[(1..i) \ {Max(1..i)}])
    BY <1>6, <2>1, Zenon
  <2>. QED
    BY <2>1, <2>2, <2>3, Zenon
<1>9. Cursors(text, number) = f[n]
  <2>1. n \in 0..n
    BY <1>4
  <2>. QED
    BY <1>1, <1>4, <2>1, Zenon
<1>. HIDE DEF f
<1>. QED
  BY <1>7, <1>8, <1>9, Zenon DEF n

(* The columns that cursors show.                                          *)
Window(text, cursors) ==
  FoldLeft(LAMBDA columns, cursor : Append(columns, NextBits(text, cursor)), <<>>, cursors)

(* The fold over the columns it shows, one at a time.                      *)
LEMMA WindowUnfolds ==
  ASSUME NEW S, NEW items \in Seq(S), NEW text
  PROVE  \E f : /\ f[0] = <<>>
                /\ \A i \in 1..Len(items) :
                     f[i] = Append(f[i - 1], NextBits(text, items[i]))
                /\ Window(text, items) = f[Len(items)]
<1>. DEFINE
       first == <<>>
       Shows(columns, cursor) == Append(columns, NextBits(text, cursor))
       Unfold(f, n) ==
         [z \in SUBSET (1..n) |->
            IF z = {} THEN first ELSE Shows(f[z \ {Max(z)}], items[Max(z)])]
       P == {n \in Nat : \E f : f = Unfold(f, n)}
       n == Len(items)
       iter == CHOOSE f :
                 f = [z \in SUBSET (DOMAIN items) |->
                        IF z = {} THEN first
                        ELSE Shows(f[z \ {Max(z)}], items[Max(z)])]
<1>1. Window(text, items) = iter[DOMAIN items]
  BY Zenon DEF Window, FoldLeft, MapThenFoldSet
<1>2. 0 \in P
  <2>1. [z \in SUBSET (1..0) |-> first] = Unfold([z \in SUBSET (1..0) |-> first], 0)
    OBVIOUS
  <2>. QED
    BY <2>1
<1>3. ASSUME NEW k \in Nat, k \in P PROVE k + 1 \in P
  <2>1. PICK f : f = Unfold(f, k)
    BY <1>3
  <2>. DEFINE g == [z \in SUBSET (1..k + 1) |->
                      IF k + 1 \in z THEN Shows(f[z \ {k + 1}], items[k + 1])
                      ELSE f[z]]
  <2>2. ASSUME NEW z \in SUBSET (1..k)
        PROVE  f[z] = IF z = {} THEN first ELSE Shows(f[z \ {Max(z)}], items[Max(z)])
    BY <2>1, Zenon
  <2>3. ASSUME NEW z \in SUBSET (1..k + 1), ~(k + 1 \in z)
        PROVE  z \in SUBSET (1..k)
    BY <2>3
  <2>4. ASSUME NEW z \in SUBSET (1..k + 1)
        PROVE  g[z] = IF z = {} THEN first ELSE Shows(g[z \ {Max(z)}], items[Max(z)])
    <3>1. CASE k + 1 \in z
      <4>1. Max(z) = k + 1
        BY <3>1, MaxIs
      <4>2. z \ {k + 1} \in SUBSET (1..k + 1) /\ ~(k + 1 \in z \ {k + 1})
        OBVIOUS
      <4>3. g[z \ {k + 1}] = f[z \ {k + 1}]
        BY <4>2, Zenon
      <4>4. g[z] = Shows(f[z \ {k + 1}], items[k + 1])
        BY <3>1, Zenon
      <4>. HIDE DEF g
      <4>. QED
        BY <3>1, <4>1, <4>3, <4>4, Zenon
    <3>2. CASE ~(k + 1 \in z)
      <4>1. z \ {Max(z)} \in SUBSET (1..k + 1) /\ ~(k + 1 \in z \ {Max(z)})
        BY <3>2
      <4>2. g[z] = f[z] /\ g[z \ {Max(z)}] = f[z \ {Max(z)}]
        BY <3>2, <4>1, Zenon
      <4>3. z \in SUBSET (1..k)
        BY <2>3, <3>2
      <4>. HIDE DEF g
      <4>. QED
        BY <2>2, <4>2, <4>3, Zenon
    <3>. QED
      BY <3>1, <3>2
  <2>5. g = Unfold(g, k + 1)
    <3>1. g = [z \in SUBSET (1..k + 1) |-> g[z]]
      BY Zenon
    <3>. HIDE DEF g
    <3>. QED
      BY <2>4, <3>1, Zenon
  <2>. HIDE DEF g, Unfold
  <2>. QED
    BY <2>5
<1>4. n \in Nat /\ DOMAIN items = 1..n
  BY LenProperties
<1>5. n \in P
  <2>. HIDE DEF P, n
  <2>. QED
    BY <1>2, <1>3, <1>4, NatInductive
<1>6. iter = Unfold(iter, n)
  <2>1. \E f : f = Unfold(f, n)
    BY <1>5, Zenon
  <2>2. iter = CHOOSE f : f = Unfold(f, n)
    BY <1>4, Zenon
  <2>. HIDE DEF Unfold, n, iter
  <2>. QED
    BY <2>1, <2>2, Zenon
<1>. HIDE DEF iter, n
<1>. DEFINE f == [i \in 0..n |-> iter[1..i]]
<1>7. f[0] = first
  <2>1. iter[{}] = first
    BY <1>6, Zenon
  <2>2. 1..0 = {} /\ 0 \in 0..n
    BY <1>4
  <2>. QED
    BY <2>1, <2>2, Zenon
<1>8. ASSUME NEW i \in 1..n PROVE f[i] = Shows(f[i - 1], items[i])
  <2>0. i \in Nat /\ 1 <= i /\ i <= n
    BY <1>4
  <2>1. /\ 1..i \in SUBSET (1..n) /\ 1..i # {}
        /\ i \in 0..n /\ i - 1 \in 0..n
        /\ (1..i) \ {i} = 1..i - 1
    <3>1. 1 \in 1..i /\ i \in 0..n /\ i - 1 \in 0..n
      BY <1>4, <2>0
    <3>2. \A j \in 1..i : j \in 1..n
      BY <1>4, <2>0
    <3>3. (1..i) \ {i} = 1..i - 1
      BY <2>0
    <3>. QED
      BY <3>1, <3>2, <3>3, Zenon
  <2>2. Max(1..i) = i
    <3>1. i - 1 \in Nat /\ (i - 1) + 1 = i /\ i \in 1..i
      BY <1>4
    <3>. QED
      BY <3>1, MaxIs
  <2>3. iter[1..i] = Shows(iter[(1..i) \ {Max(1..i)}], items[Max(1..i)])
    BY <1>6, <2>1, Zenon
  <2>. QED
    BY <2>1, <2>2, <2>3, Zenon
<1>9. Window(text, items) = f[n]
  <2>1. n \in 0..n
    BY <1>4
  <2>. QED
    BY <1>1, <1>4, <2>1, Zenon
<1>. HIDE DEF f
<1>. QED
  BY <1>7, <1>8, <1>9, Zenon DEF n

(* One place further on, in the ring and before the remainder is taken.    *)
LEMMA NextPlace ==
  ASSUME NEW m \in Nat
  PROVE  ((m % 26) + 1) % 26 = (m + 1) % 26
OBVIOUS

(* The cursors that updatebuffer passes walk around the ring, one place at *)
(* a time.                                                                 *)
LEMMA CursorsAre ==
  ASSUME NEW text, Fits(text), NEW number \in Nat, number > 0
  PROVE  /\ Cursors(text, number) \in Seq(Cursor)
         /\ Len(Cursors(text, number)) = number
         /\ \A i \in 1..number : CursorPlace(Cursors(text, number)[i]) = (i - 1) % 26
<1>. DEFINE first == [char |-> 1, column |-> 0]
            Are(f, m) == /\ f[m] \in Seq(Cursor) /\ Len(f[m]) = m + 1
                         /\ \A i \in 1..m + 1 : CursorPlace(f[m][i]) = (i - 1) % 26
<1>1. PICK f : /\ f[0] = <<first>>
               /\ \A i \in 1..number - 1 :
                    f[i] = Append(f[i - 1], Advance(text, Last(f[i - 1])))
               /\ Cursors(text, number) = f[number - 1]
  BY CursorsUnfold
<1>. DEFINE P == {m \in Nat : m <= number - 1 => Are(f, m)}
<1>2. 0 \in P
  <2>1. first \in Cursor /\ CursorPlace(first) = 0
    BY DEF Cursor, Width, CursorPlace, Start
  <2>. HIDE DEF first
  <2>2. <<first>> \in Seq(Cursor) /\ Len(<<first>>) = 1 /\ <<first>>[1] = first
    BY <2>1
  <2>. DEFINE e == f[0]
  <2>3. e \in Seq(Cursor) /\ Len(e) = 0 + 1 /\ e[1] = first
    BY <1>1, <2>2
  <2>. HIDE DEF e
  <2>4. ASSUME NEW i \in 1..0 + 1 PROVE CursorPlace(e[i]) = (i - 1) % 26
    BY <2>1, <2>3
  <2>. QED
    BY <2>3, <2>4 DEF e
<1>3. ASSUME NEW m \in Nat, m \in P PROVE m + 1 \in P
  <2>1. SUFFICES ASSUME m + 1 <= number - 1 PROVE Are(f, m + 1)
    OBVIOUS
  <2>. DEFINE s == f[m]
              c == Last(s)
              d == Advance(text, c)
  <2>2. s \in Seq(Cursor) /\ Len(s) = m + 1 /\ \A i \in 1..m + 1 : CursorPlace(s[i]) = (i - 1) % 26
    BY <1>3, <2>1
  <2>3. m + 1 \in 1..number - 1 /\ (m + 1) - 1 = m
    BY <2>1
  <2>4. f[m + 1] = Append(s, d)
    BY <1>1, <2>3
  <2>. HIDE DEF s
  <2>5. c = s[m + 1] /\ m + 1 \in 1..Len(s)
    BY <2>2 DEF Last
  <2>6. c \in Cursor /\ CursorPlace(c) = m % 26
    BY <2>2, <2>3, <2>5, ElementOfSeq
  <2>. HIDE DEF c
  <2>7. d \in Cursor /\ CursorPlace(d) = (m + 1) % 26
    BY <2>6, AdvancePlace, NextPlace
  <2>. HIDE DEF d
  <2>8. /\ Append(s, d) \in Seq(Cursor) /\ Len(Append(s, d)) = (m + 1) + 1
        /\ \A i \in 1..m + 1 : Append(s, d)[i] = s[i]
        /\ Append(s, d)[(m + 1) + 1] = d
    BY <2>2, <2>7, AppendProperties
  <2>9. ASSUME NEW i \in 1..(m + 1) + 1 PROVE CursorPlace(Append(s, d)[i]) = (i - 1) % 26
    <3>1. i \in 1..m + 1 \/ (i = (m + 1) + 1 /\ i - 1 = m + 1)
      OBVIOUS
    <3>. QED
      BY <2>2, <2>7, <2>8, <3>1
  <2>. QED
    BY <2>4, <2>8, <2>9
<1>4. number - 1 \in Nat /\ (number - 1) + 1 = number
  OBVIOUS
<1>5. number - 1 \in P
  <2>. HIDE DEF P
  <2>. QED
    BY <1>2, <1>3, <1>4, NatInductive
<1>6. Are(f, number - 1)
  BY <1>4, <1>5
<1>. QED
  BY <1>1, <1>4, <1>6

(* Each column of the picture is what next_bits gives for its cursor.      *)
LEMMA WindowIs ==
  ASSUME NEW S, NEW text, NEW items \in Seq(S)
  PROVE  /\ Len(Window(text, items)) = Len(items)
         /\ \A j \in 1..Len(items) : Window(text, items)[j] = NextBits(text, items[j])
<1>. DEFINE T == {NextBits(text, c) : c \in S}
            n == Len(items)
            Are(f, m) == /\ f[m] \in Seq(T) /\ Len(f[m]) = m
                         /\ \A j \in 1..m : f[m][j] = NextBits(text, items[j])
<1>1. PICK f : /\ f[0] = <<>>
               /\ \A i \in 1..n : f[i] = Append(f[i - 1], NextBits(text, items[i]))
               /\ Window(text, items) = f[n]
  BY WindowUnfolds
<1>. DEFINE P == {m \in Nat : m <= n => Are(f, m)}
<1>2. n \in Nat /\ \A i \in 1..n : NextBits(text, items[i]) \in T
  BY LenProperties, ElementOfSeq
<1>. HIDE DEF T, n
<1>3. 0 \in P
  <2>. DEFINE e == f[0]
  <2>1. e \in Seq(T) /\ Len(e) = 0
    BY <1>1
  <2>2. \A j \in 1..0 : e[j] = NextBits(text, items[j])
    OBVIOUS
  <2>. QED
    BY <2>1, <2>2
<1>4. ASSUME NEW m \in Nat, m \in P PROVE m + 1 \in P
  <2>1. SUFFICES ASSUME m + 1 <= n PROVE Are(f, m + 1)
    OBVIOUS
  <2>. DEFINE s == f[m]
              d == NextBits(text, items[m + 1])
  <2>2. s \in Seq(T) /\ Len(s) = m /\ \A j \in 1..m : s[j] = NextBits(text, items[j])
    BY <1>2, <1>4, <2>1
  <2>3. m + 1 \in 1..n /\ (m + 1) - 1 = m
    BY <1>2, <2>1
  <2>4. f[m + 1] = Append(s, d) /\ d \in T
    BY <1>1, <1>2, <2>3
  <2>. HIDE DEF s
  <2>5. /\ Append(s, d) \in Seq(T) /\ Len(Append(s, d)) = m + 1
        /\ \A j \in 1..m : Append(s, d)[j] = s[j]
        /\ Append(s, d)[m + 1] = d
    BY <2>2, <2>4, AppendProperties
  <2>6. ASSUME NEW j \in 1..m + 1 PROVE Append(s, d)[j] = NextBits(text, items[j])
    <3>1. j \in 1..m \/ j = m + 1
      OBVIOUS
    <3>. QED
      BY <2>2, <2>5, <3>1
  <2>. QED
    BY <2>4, <2>5, <2>6
<1>5. n \in P
  <2>. HIDE DEF P
  <2>. QED
    BY <1>2, <1>3, <1>4, NatInductive
<1>. QED
  BY <1>1, <1>2, <1>5 DEF n

(* What a cursor shows of a text: a column of a glyph, or the gap.         *)
Shown(text, c) ==
  IF c.column = Width(c.char) THEN {} ELSE Glyph(text[c.char])[c.column + 1]

(* next_bits gives that column, moved by the row above the text.           *)
LEMMA ShownNext ==
  ASSUME NEW text, Fits(text), NEW c \in Cursor
  PROVE  NextBits(text, c) = {bit + 1 : bit \in Shown(text, c)}
<1>1. Len(Glyph(text[c.char])) = Width(c.char)
  BY DEF Cursor, Fits
<1>2. {bit + 1 : bit \in {}} = {}
  OBVIOUS
<1>. QED
  BY <1>1, <1>2, Zenon DEF NextBits, Shown

(* Characters take up the ring in their order.                             *)
LEMMA Later ==
  ASSUME NEW k \in 1..6, NEW i \in 1..6, k <= i
  PROVE  Start(k) + Width(k) <= Start(i) + Width(i)
BY DEF Start, Width

(* The ring of a text is 26 columns, with at the place of each cursor what *)
(* the cursor shows.                                                       *)
LEMMA RingIs ==
  ASSUME NEW text, Fits(text)
  PROVE  /\ Len(Ring(text)) = 26
         /\ \A c \in Cursor : Ring(text)[CursorPlace(c) + 1] = Shown(text, c)
<1>. DEFINE piece(k) == Append(Glyph(text[k]), {})
            seqs == [k \in DOMAIN text |-> piece(k)]
            Are(r, i) ==
              /\ r \in Seq(Lit)
              /\ Len(r) = Start(i) + Width(i) + 1
              /\ \A c \in Cursor : c.char <= i => r[CursorPlace(c) + 1] = Shown(text, c)
<1>1. ASSUME NEW k \in 1..6
      PROVE  /\ piece(k) \in Seq(Lit) /\ Len(piece(k)) = Width(k) + 1
             /\ \A j \in 1..Width(k) : piece(k)[j] = Glyph(text[k])[j]
             /\ piece(k)[Width(k) + 1] = {}
  <2>1. Glyph(text[k]) \in Seq(Lit) /\ Len(Glyph(text[k])) = Width(k) /\ {} \in Lit
    BY DEF Fits, Lit
  <2>. QED
    BY <2>1, AppendProperties
<1>2. Len(seqs) = 6 /\ \A k \in 1..6 : seqs[k] = piece(k)
  BY DEF Fits
<1>3. Ring(text) = FlattenSeq(seqs)
  BY DEF Ring
<1>. HIDE DEF seqs
<1>4. PICK f : /\ f[1] = seqs[1]
               /\ \A i \in 2..6 : f[i] = f[i - 1] \o seqs[i]
               /\ FlattenSeq(seqs) = f[6]
  <2>1. PICK f : /\ f[1] = seqs[1]
                 /\ \A i \in 2..Len(seqs) : f[i] = f[i - 1] \o seqs[i]
                 /\ FlattenSeq(seqs) = f[Len(seqs)]
    <3>1. Len(seqs) \in Nat /\ Len(seqs) # 0
      BY <1>2
    <3>. QED
      BY <3>1, FlattenUnfolds, Zenon
  <2>. QED
    BY <1>2, <2>1
<1>5. ASSUME NEW c \in Cursor
      PROVE  piece(c.char)[c.column + 1] = Shown(text, c)
  <2>1. c.char \in 1..6 /\ c.column \in Nat /\ c.column <= Width(c.char)
    BY DEF Cursor
  <2>2. c.column # Width(c.char) => c.column + 1 \in 1..Width(c.char)
    BY <2>1 DEF Width
  <2>. HIDE DEF piece
  <2>. QED
    BY <1>1, <2>1, <2>2 DEF Shown
<1>. HIDE DEF piece
<1>6. Are(f[1], 1)
  <2>1. f[1] = piece(1) /\ Start(1) = 0
    BY <1>2, <1>4 DEF Start
  <2>2. f[1] \in Seq(Lit) /\ Len(f[1]) = Start(1) + Width(1) + 1
    <3>1. Width(1) + 1 = Start(1) + Width(1) + 1
      BY <2>1 DEF Width
    <3>2. 1 \in 1..6
      OBVIOUS
    <3>. QED
      BY <1>1, <2>1, <3>1, <3>2
  <2>3. ASSUME NEW c \in Cursor, c.char <= 1 PROVE f[1][CursorPlace(c) + 1] = Shown(text, c)
    <3>1. c.char = 1 /\ CursorPlace(c) = c.column
      BY <2>1, <2>3 DEF Cursor, CursorPlace
    <3>. QED
      BY <1>5, <2>1, <3>1
  <2>. QED
    BY <2>2, <2>3
<1>7. ASSUME NEW i \in 1..5, Are(f[i], i) PROVE Are(f[i + 1], i + 1)
  <2>. DEFINE a == f[i]
              b == piece(i + 1)
              m == Len(a)
  <2>1. f[i + 1] = a \o b
    <3>1. i + 1 \in 2..6 /\ i + 1 \in 1..6 /\ (i + 1) - 1 = i
      OBVIOUS
    <3>. QED
      BY <1>2, <1>4, <3>1
  <2>2. b \in Seq(Lit) /\ Len(b) = Width(i + 1) + 1
    BY <1>1
  <2>3. /\ a \in Seq(Lit) /\ m = Start(i) + Width(i) + 1
        /\ \A c \in Cursor : c.char <= i => a[CursorPlace(c) + 1] = Shown(text, c)
    BY <1>7
  <2>4. m = Start(i + 1) /\ m \in Nat
    BY <2>3 DEF Start, Width
  <2>5. \A c \in Cursor : c.char = i + 1 => b[c.column + 1] = Shown(text, c)
    BY <1>5
  <2>. HIDE DEF a, b, m
  <2>6. /\ a \o b \in Seq(Lit) /\ Len(a \o b) = m + Len(b)
        /\ \A j \in 1..m + Len(b) : (a \o b)[j] = IF j <= m THEN a[j] ELSE b[j - m]
    BY <2>2, <2>3, ConcatProperties DEF m
  <2>7. ASSUME NEW c \in Cursor, c.char <= i + 1
        PROVE  (a \o b)[CursorPlace(c) + 1] = Shown(text, c)
    <3>1. c.char \in 1..6 /\ c.column \in Nat /\ c.column <= Width(c.char)
      BY DEF Cursor
    <3>2. CASE c.char <= i
      <4>1. CursorPlace(c) + 1 \in 1..m
        <5>1. Start(c.char) + Width(c.char) <= Start(i) + Width(i)
          BY <3>1, <3>2, Later
        <5>2. Start(c.char) \in Nat /\ Width(c.char) \in Nat
          BY <3>1 DEF Start, Width
        <5>3. Start(i) \in Nat /\ Width(i) \in Nat
          BY DEF Start, Width
        <5>4. CursorPlace(c) \in Nat /\ CursorPlace(c) <= Start(c.char) + Width(c.char)
          BY <3>1, <5>2 DEF CursorPlace
        <5>. QED
          BY <2>3, <2>4, <5>1, <5>2, <5>3, <5>4
      <4>2. CursorPlace(c) + 1 \in 1..m + Len(b) /\ CursorPlace(c) + 1 <= m
        BY <2>2, <2>4, <4>1 DEF Width
      <4>. QED
        BY <2>3, <2>6, <3>2, <4>2
    <3>3. CASE c.char = i + 1
      <4>1. CursorPlace(c) + 1 = m + (c.column + 1)
        BY <2>4, <3>1, <3>3 DEF CursorPlace, Start
      <4>2. c.column + 1 \in 1..Len(b)
        BY <2>2, <3>1, <3>3 DEF Width
      <4>3. /\ CursorPlace(c) + 1 \in 1..m + Len(b) /\ ~(CursorPlace(c) + 1 <= m)
            /\ (CursorPlace(c) + 1) - m = c.column + 1
        BY <2>2, <2>4, <3>1, <4>1, <4>2 DEF Width
      <4>. QED
        BY <2>5, <2>6, <3>3, <4>3
    <3>4. c.char <= i \/ c.char = i + 1
      BY <2>7, <3>1
    <3>. QED
      BY <3>2, <3>3, <3>4, Zenon
  <2>8. Len(a \o b) = Start(i + 1) + Width(i + 1) + 1
    BY <2>2, <2>4, <2>6 DEF Start, Width
  <2>. QED
    BY <2>1, <2>6, <2>7, <2>8
<1>8. Are(f[6], 6)
  <2>. HIDE DEF Are
  <2>. QED
    BY <1>6, <1>7
<1>9. Start(6) + Width(6) + 1 = 26 /\ \A c \in Cursor : c.char <= 6
  BY DEF Start, Width, Cursor
<1>. QED
  BY <1>3, <1>4, <1>8, <1>9

-----------------------------------------------------------------------------
(* WHAT THE MATRIX SHOWS                                                   *)

(* What a cursor shows is a set of rows.                                   *)
LEMMA ShownIsLit ==
  ASSUME NEW text, Fits(text), NEW c \in Cursor
  PROVE  Shown(text, c) \in Lit
<1>1. c.char \in 1..6 /\ c.column \in Nat /\ c.column <= Width(c.char)
  BY DEF Cursor
<1>2. Glyph(text[c.char]) \in Seq(Lit) /\ Len(Glyph(text[c.char])) = Width(c.char)
  BY <1>1 DEF Fits
<1>3. c.column # Width(c.char) => c.column + 1 \in 1..Width(c.char)
  BY <1>1 DEF Width
<1>4. c.column # Width(c.char) => Glyph(text[c.char])[c.column + 1] \in Lit
  BY <1>2, <1>3, ElementOfSeq
<1>. QED
  BY <1>4 DEF Shown, Lit

(* updatebuffer, which walks over the text from its beginning each time,   *)
(* draws the columns of the ring from the offset on.                       *)
LEMMA DrawsView ==
  ASSUME NEW time \in Nat, NEW start \in Nat
  PROVE  Draw(time, start) = View(time, start)
<1>. DEFINE letters == Text(time)
            passed == Cursors(letters, start + Columns)
            part == SubSeq(passed, start + 1, start + Columns)
            window == Window(letters, part)
            ring == Ring(letters)
            bits(X) == {bit + 1 : bit \in X}
<1>1. Fits(letters)
  BY TextFits
<1>2. /\ Draw(time, start) =
           [i \in 0..Rows - 1 |-> {j \in 0..Columns - 1 : i \in window[j + 1]}]
      /\ View(time, start) =
           [i \in 0..Rows - 1 |->
              {j \in 0..Columns - 1 : i - 1 \in ring[((start + j) % Len(ring)) + 1]}]
  BY Zenon DEF Draw, View, Window
<1>. HIDE DEF letters, ring
<1>3. /\ passed \in Seq(Cursor) /\ Len(passed) = start + 20
      /\ \A i \in 1..start + 20 : CursorPlace(passed[i]) = (i - 1) % 26
  <2>1. start + Columns = start + 20 /\ start + 20 \in Nat /\ start + 20 > 0
    BY DEF Columns
  <2>. QED
    BY <1>1, <2>1, CursorsAre
<1>. HIDE DEF passed
<1>4. /\ part \in Seq(Cursor) /\ Len(part) = 20
      /\ \A j \in 1..20 : part[j] = passed[start + j]
  <2>1. \A i \in start + 1..start + 20 : passed[i] \in Cursor
    BY <1>3, ElementOfSeq
  <2>. DEFINE s == SubSeq(passed, start + 1, start + 20)
  <2>2. /\ s \in Seq(Cursor)
        /\ Len(s) = IF start + 1 <= start + 20 THEN (start + 20) - (start + 1) + 1 ELSE 0
        /\ \A j \in 1..(start + 20) - (start + 1) + 1 : s[j] = passed[(start + 1) + j - 1]
    BY <2>1, SubSeqProperties
  <2>3. /\ start + 1 <= start + 20 /\ (start + 20) - (start + 1) + 1 = 20
        /\ \A j \in 1..20 : (start + 1) + j - 1 = start + j
    OBVIOUS
  <2>4. part = s
    BY DEF Columns
  <2>. HIDE DEF s, part
  <2>. QED
    BY <2>2, <2>3, <2>4
<1>. HIDE DEF part
<1>5. \A j \in 1..20 : window[j] = NextBits(letters, part[j])
  <2>1. \A j \in 1..Len(part) : Window(letters, part)[j] = NextBits(letters, part[j])
    <3>1. part \in Seq(Cursor)
      BY <1>4
    <3>2. \A t : \A p \in Seq(Cursor) : \A j \in 1..Len(p) :
            Window(t, p)[j] = NextBits(t, p[j])
      BY WindowIs
    <3>. QED
      BY <3>1, <3>2, Zenon
  <2>. QED
    BY <1>4, <2>1
<1>. HIDE DEF window
<1>6. ASSUME NEW i \in Int, NEW j \in 0..19
      PROVE  i \in window[j + 1] <=> i - 1 \in ring[((start + j) % Len(ring)) + 1]
  <2>. DEFINE c == part[j + 1]
  <2>1. j + 1 \in 1..20 /\ start + (j + 1) \in 1..start + 20
        /\ (start + (j + 1)) - 1 = start + j
    OBVIOUS
  <2>2. c \in Cursor /\ CursorPlace(c) = (start + j) % 26
    BY <1>3, <1>4, <2>1, ElementOfSeq
  <2>3. window[j + 1] = NextBits(letters, c)
    BY <1>5, <2>1
  <2>. HIDE DEF c
  <2>4. ring[((start + j) % Len(ring)) + 1] = Shown(letters, c)
    BY <1>1, <2>2, RingIs DEF ring
  <2>5. window[j + 1] = bits(Shown(letters, c))
    BY <1>1, <2>2, <2>3, ShownNext
  <2>6. ASSUME NEW X \in Lit PROVE i \in bits(X) <=> i - 1 \in X
    <3>1. \A bit \in X : bit \in Nat
      BY DEF Lit
    <3>2. ASSUME NEW bit \in X, i = bit + 1 PROVE i - 1 = bit
      BY <3>1, <3>2
    <3>3. (i - 1) + 1 = i
      OBVIOUS
    <3>. QED
      BY <3>2, <3>3
  <2>7. Shown(letters, c) \in Lit
    BY <1>1, <2>2, ShownIsLit
  <2>. HIDE DEF bits
  <2>. QED
    BY <2>4, <2>5, <2>6, <2>7
<1>7. Columns - 1 = 19 /\ \A i \in 0..Rows - 1 : i \in Int
  BY DEF Columns, Rows
<1>. QED
  BY <1>2, <1>6, <1>7, Zenon

(* A view begins anew after one turn of the ring.                          *)
LEMMA ViewRound ==
  ASSUME NEW time \in Nat, NEW start \in Nat
  PROVE  View(time, start % 26) = View(time, start)
<1>. DEFINE ring == Ring(Text(time))
<1>1. Len(ring) = 26
  BY TextFits, RingIs
<1>2. \A j \in 0..Columns - 1 : ((start % 26) + j) % 26 = (start + j) % 26
  BY DEF Columns
<1>3. \A o : View(time, o) =
         [i \in 0..Rows - 1 |->
            {j \in 0..Columns - 1 : i - 1 \in ring[((o + j) % Len(ring)) + 1]}]
  BY Zenon DEF View
<1>. HIDE DEF ring
<1>4. ASSUME NEW i
      PROVE  {j \in 0..Columns - 1 : i - 1 \in ring[(((start % 26) + j) % Len(ring)) + 1]}
               = {j \in 0..Columns - 1 : i - 1 \in ring[((start + j) % Len(ring)) + 1]}
  BY <1>1, <1>2
<1>. QED
  BY <1>3, <1>4, Zenon

(* No byte of the picture is all ones.                                     *)
NoDelimiterIn(picture) ==
  \A i \in 0..Rows - 1, k \in 0..3 : ~(8 * k..8 * k + 7 \subseteq picture[i])

(* The gaps between the characters, and their places on the ring.          *)
LEMMA GapsAre ==
  ASSUME NEW time \in Nat, NEW place \in {4, 9, 11, 16, 21, 25}
  PROVE  Ring(Text(time))[place + 1] = {}
<1>. DEFINE k == CASE place = 4 -> 1 [] place = 9 -> 2 [] place = 11 -> 3
                   [] place = 16 -> 4 [] place = 21 -> 5 [] place = 25 -> 6
            c == [char |-> k, column |-> Width(k)]
<1>1. k \in 1..6 /\ Start(k) + Width(k) = place
  BY DEF Start, Width
<1>. HIDE DEF k
<1>2. c \in Cursor /\ CursorPlace(c) = place
  BY <1>1 DEF Cursor, CursorPlace, Width
<1>3. Shown(Text(time), c) = {}
  BY DEF Shown
<1>. HIDE DEF c
<1>. QED
  BY <1>2, <1>3, TextFits, RingIs

(* From every place of the ring a gap is at most four columns ahead.       *)
LEMMA GapAhead ==
  ASSUME NEW place \in 0..25
  PROVE  \E d \in 0..4 : place + d \in {4, 9, 11, 16, 21, 25}
<1>1. CASE place \in 0..4
  BY <1>1
<1>2. CASE place \in 5..9
  BY <1>2
<1>3. CASE place \in 10..11
  BY <1>3
<1>4. CASE place \in 12..16
  BY <1>4
<1>5. CASE place \in 17..21
  BY <1>5
<1>6. CASE place \in 22..25
  BY <1>6
<1>. QED
  BY <1>1, <1>2, <1>3, <1>4, <1>5, <1>6

(* So eight columns that share a byte are never all lit, whatever the time *)
(* and wherever the view begins.                                           *)
LEMMA ViewHasGaps ==
  ASSUME NEW time \in Nat, NEW start \in Nat
  PROVE  NoDelimiterIn(View(time, start))
<1>. DEFINE view == View(time, start)
            ring == Ring(Text(time))
<1>1. SUFFICES ASSUME NEW i \in 0..Rows - 1, NEW k \in 0..3,
                      8 * k..8 * k + 7 \subseteq view[i]
               PROVE  FALSE
  BY DEF NoDelimiterIn
<1>2. view[i] =
        {j \in 0..Columns - 1 : i - 1 \in ring[((start + j) % Len(ring)) + 1]}
  BY Zenon DEF View
<1>3. Len(ring) = 26
  BY TextFits, RingIs
<1>. HIDE DEF view, ring
<1>4. ASSUME NEW j \in 8 * k..8 * k + 7
      PROVE  j \in 0..19 /\ i - 1 \in ring[((start + j) % 26) + 1]
  BY <1>1, <1>2, <1>3 DEF Columns
<1>5. k \in {0, 1}
  <2>1. 8 * k + 7 \in 8 * k..8 * k + 7
    OBVIOUS
  <2>2. 8 * k + 7 <= 19
    BY <1>4, <2>1
  <2>. QED
    BY <2>2
<1>. DEFINE q == (start + 8 * k) % 26
<1>6. q \in 0..25
  OBVIOUS
<1>7. PICK d \in 0..4 : q + d \in {4, 9, 11, 16, 21, 25}
  <2>. HIDE DEF q
  <2>. QED
    BY <1>6, GapAhead
<1>8. 8 * k + d \in 8 * k..8 * k + 7 /\ (start + (8 * k + d)) % 26 = q + d
  <2>1. q + d \in 0..25
    BY <1>6, <1>7
  <2>. QED
    BY <2>1
<1>9. ring[(q + d) + 1] = {}
  BY <1>7, GapsAre DEF ring
<1>. HIDE DEF q
<1>. QED
  BY <1>4, <1>8, <1>9

(* Nor are they in the picture that setup leaves, where every other column *)
(* is lit.                                                                 *)
LEMMA ClearHasGaps == NoDelimiterIn(ClearBuffer)
<1>1. SUFFICES ASSUME NEW i \in 0..Rows - 1, NEW k \in 0..3,
                      8 * k..8 * k + 7 \subseteq ClearBuffer[i]
               PROVE  FALSE
  BY DEF NoDelimiterIn
<1>2. ClearBuffer[i] = {j \in 0..Columns - 1 : j % 2 = 0}
  BY DEF ClearBuffer
<1>3. 8 * k + 1 \in 8 * k..8 * k + 7 /\ (8 * k + 1) % 2 = 1
  OBVIOUS
<1>. QED
  BY <1>1, <1>2, <1>3

(* How many bytes of a time the parser has kept.                           *)
KeptOK ==
  /\ parseState = "eCommandSetTime2" => newData \in Seq(Nat) /\ Len(newData) = 1
  /\ parseState = "eCommandSetTime3" => newData \in Seq(Nat) /\ Len(newData) = 2
  /\ parseState = "eCommandSetTime4" => newData \in Seq(Nat) /\ Len(newData) = 3

(* The offset is one further than the picture shown, or at the beginning.  *)
OffsetFollows ==
  /\ seconds \in Nat
  /\ offset \in Nat
  /\ shownAt \in Nat \cup {-1}
  /\ offset = (IF shownAt = -1 THEN 0 ELSE shownAt + 1) % 26

MatrixInv == KeptOK /\ OffsetFollows /\ NoDelimiterIn(data)

(* The byte the parser takes is a number.                                  *)
LEMMA OldestIsByte ==
  ASSUME RingTypeOK
  PROVE  Oldest \in Nat
<1>1. pending[pendingTail] \in Bytes
  BY DEF RingTypeOK
<1>. DEFINE top == 255
<1>2. top \in Nat
  OBVIOUS
<1>3. Bytes \subseteq 0..top
  BY RingAssumption
<1>. HIDE DEF top
<1>4. pending[pendingTail] \in 0..top
  BY <1>1, <1>3
<1>5. pending[pendingTail] \in Nat
  BY <1>2, <1>4
<1>. QED
  BY <1>5 DEF Oldest

(* The number made of a byte more is one again.                            *)
LEMMA ShiftIsNat ==
  ASSUME NEW a \in Nat, NEW byte \in Nat
  PROVE  Shift(a, byte) \in Nat
BY DEF Shift, Day

(* A sequence with one number more.                                        *)
LEMMA OneMore ==
  ASSUME NEW s \in Seq(Nat), NEW byte \in Nat
  PROVE  Append(s, byte) \in Seq(Nat) /\ Len(Append(s, byte)) = Len(s) + 1
BY AppendProperties

(* The numbers of a sequence of three.                                     *)
LEMMA FirstThree ==
  ASSUME NEW s \in Seq(Nat), Len(s) = 3
  PROVE  s[1] \in Nat /\ s[2] \in Nat /\ s[3] \in Nat
BY ElementOfSeq

(* MatrixInv is an invariant. Only updatebuffer draws, and when it does it *)
(* moves the offset on; the parser sets it back only together with what    *)
(* was shown.                                                              *)
LEMMA MatrixInvariance == PrinterSpec => [](RingTypeOK /\ StandsStill /\ MatrixInv)
<1>1. PrinterInit => MatrixInv
  BY ClearHasGaps DEF PrinterInit, MatrixInv, KeptOK, OffsetFollows
<1>2. RingTypeOK /\ StandsStill /\ MatrixInv /\ [PrinterNext]_printerVars => MatrixInv'
  <2> SUFFICES ASSUME RingTypeOK, StandsStill, MatrixInv, [PrinterNext]_printerVars
               PROVE  MatrixInv'
    OBVIOUS
  <2>1. KeptOK /\ OffsetFollows /\ NoDelimiterIn(data)
    BY DEF MatrixInv
  <2>2. ASSUME UNCHANGED <<parseState, newData>> PROVE KeptOK'
    BY <2>1, <2>2 DEF KeptOK
  <2>3. ASSUME UNCHANGED <<seconds, offset, shownAt>> PROVE OffsetFollows'
    BY <2>1, <2>3 DEF OffsetFollows
  <2>4. ASSUME UNCHANGED data PROVE NoDelimiterIn(data)'
    BY <2>1, <2>4, Zenon
  <2>5. CASE UNCHANGED <<loopVars, data>>
    BY <2>2, <2>3, <2>4, <2>5 DEF MatrixInv, loopVars
  <2>6. ASSUME NEW command \in Commands, Ask(command)
        PROVE  MatrixInv'
    BY <2>5, <2>6 DEF Ask
  <2>7. CASE SerialEvent \/ PinFalls \/ Due \/ UNCHANGED printerVars
    BY <2>5, <2>7 DEF SerialEvent, PinFalls, Due, printerVars
  <2>8. CASE SecondPasses
    <3>1. seconds' = (seconds + 1) % Day
          /\ UNCHANGED <<parseState, newData, offset, shownAt, data>>
      BY <2>8 DEF SecondPasses
    <3>2. seconds' \in Nat
      BY <2>1, <3>1 DEF OffsetFollows, Day
    <3>3. OffsetFollows'
      BY <2>1, <3>1, <3>2 DEF OffsetFollows
    <3>. QED
      BY <2>2, <2>4, <3>1, <3>3 DEF MatrixInv
  <2>9. CASE ProcessCommand
    <3>. DEFINE byte == Oldest
    <3>1. UNCHANGED data
      BY <2>9 DEF ProcessCommand
    <3>2. byte \in Nat
      BY OldestIsByte
    <3>3. CASE Searching
      <4>1. /\ UNCHANGED <<seconds, offset, shownAt>>
            /\ parseState' \in {"eCommandId", "eSearching"}
        BY <3>3 DEF Searching, Goes
      <4>. QED
        BY <2>3, <2>4, <3>1, <4>1 DEF MatrixInv, KeptOK
    <3>4. CASE CommandId
      <4>1. parseState' \in {"eSearching", "eCommandSpeed1", "eCommandSetTime1"}
        BY <3>4 DEF CommandId, Executes, Goes
      <4>2. \/ UNCHANGED <<seconds, offset, shownAt>>
            \/ seconds' = 0 /\ UNCHANGED <<offset, shownAt>>
            \/ offset' = 0 /\ shownAt' = -1 /\ UNCHANGED seconds
        BY <3>4, Zenon DEF CommandId, Goes
      <4>3. OffsetFollows'
        BY <2>1, <4>2 DEF OffsetFollows
      <4>. QED
        BY <2>4, <3>1, <4>1, <4>3 DEF MatrixInv, KeptOK
    <3>5. CASE CommandSpeed1 \/ CommandSpeed2
      <4>1. /\ UNCHANGED <<seconds, offset, shownAt>>
            /\ parseState' \in {"eCommandSpeed2", "eSearching"}
        BY <3>5 DEF CommandSpeed1, CommandSpeed2, Goes, Executes
      <4>. QED
        BY <2>3, <2>4, <3>1, <4>1 DEF MatrixInv, KeptOK
    <3>6. CASE CommandSetTime123
      <4>1. UNCHANGED <<seconds, offset, shownAt>>
        BY <3>6 DEF CommandSetTime123, Goes
      <4>2. \/ parseState' = "eCommandSetTime2" /\ newData' = <<byte>>
            \/ /\ parseState = "eCommandSetTime2" /\ parseState' = "eCommandSetTime3"
               /\ newData' = Append(newData, byte)
            \/ /\ parseState = "eCommandSetTime3" /\ parseState' = "eCommandSetTime4"
               /\ newData' = Append(newData, byte)
        BY <3>6 DEF CommandSetTime123, Goes, Parsing
      <4>3. KeptOK'
        <5>1. CASE parseState' = "eCommandSetTime2" /\ newData' = <<byte>>
          <6>1. <<byte>> \in Seq(Nat) /\ Len(<<byte>>) = 1
            BY <3>2
          <6>. QED
            BY <5>1, <6>1 DEF KeptOK
        <5>2. CASE /\ parseState = "eCommandSetTime2" /\ parseState' = "eCommandSetTime3"
                   /\ newData' = Append(newData, byte)
          <6>1. newData \in Seq(Nat) /\ Len(newData) = 1
            BY <2>1, <5>2 DEF KeptOK
          <6>2. /\ Append(newData, byte) \in Seq(Nat)
                /\ Len(Append(newData, byte)) = 1 + 1
            BY <3>2, <6>1, OneMore
          <6>3. newData' \in Seq(Nat) /\ Len(newData') = 2
            BY <5>2, <6>2
          <6>. QED
            BY <5>2, <6>3 DEF KeptOK
        <5>3. CASE /\ parseState = "eCommandSetTime3" /\ parseState' = "eCommandSetTime4"
                   /\ newData' = Append(newData, byte)
          <6>1. newData \in Seq(Nat) /\ Len(newData) = 2
            BY <2>1, <5>3 DEF KeptOK
          <6>2. /\ Append(newData, byte) \in Seq(Nat)
                /\ Len(Append(newData, byte)) = 2 + 1
            BY <3>2, <6>1, OneMore
          <6>3. newData' \in Seq(Nat) /\ Len(newData') = 3
            BY <5>3, <6>2
          <6>. QED
            BY <5>3, <6>3 DEF KeptOK
        <5>. QED
          BY <4>2, <5>1, <5>2, <5>3
      <4>. QED
        BY <2>3, <2>4, <3>1, <4>1, <4>3 DEF MatrixInv
    <3>7. CASE CommandSetTime4
      <4>1. /\ parseState = "eCommandSetTime4"
            /\ seconds' = Shift(Shift(Shift(newData[1], newData[2]), newData[3]), byte)
            /\ parseState' = "eSearching"
            /\ UNCHANGED <<offset, shownAt>>
        BY <3>7 DEF CommandSetTime4, Executes, Parsing
      <4>2. newData[1] \in Nat /\ newData[2] \in Nat /\ newData[3] \in Nat
        BY <2>1, <4>1, FirstThree DEF KeptOK
      <4>3. seconds' \in Nat
        <5>1. Shift(newData[1], newData[2]) \in Nat
          BY <4>2, ShiftIsNat
        <5>2. Shift(Shift(newData[1], newData[2]), newData[3]) \in Nat
          BY <4>2, <5>1, ShiftIsNat
        <5>. QED
          BY <3>2, <4>1, <5>2, ShiftIsNat
      <4>4. OffsetFollows'
        BY <2>1, <4>1, <4>3 DEF OffsetFollows
      <4>. QED
        BY <2>4, <3>1, <4>1, <4>4 DEF MatrixInv, KeptOK
    <3>. QED
      BY <2>9, <3>3, <3>4, <3>5, <3>6, <3>7 DEF ProcessCommand
  <2>10. CASE UpdateBuffer
    <3>1. /\ data' = Draw(seconds, offset)
          /\ offset' = (IF scroll THEN offset + 1 ELSE offset) % 26
          /\ shownAt' = IF scroll THEN offset ELSE -1
          /\ UNCHANGED <<parseState, newData, seconds>>
      BY <2>10, PeriodIs DEF UpdateBuffer
    <3>2. seconds \in Nat /\ offset \in Nat
      BY <2>1 DEF OffsetFollows
    <3>3. Draw(seconds, offset) = View(seconds, offset)
      BY <3>2, DrawsView
    <3>4. NoDelimiterIn(data)'
      <4>1. NoDelimiterIn(View(seconds, offset))
        BY <3>2, ViewHasGaps
      <4>. QED
        BY <3>1, <3>3, <4>1
    <3>5. OffsetFollows'
      <4>1. scroll \in BOOLEAN /\ (~scroll => offset = 0)
        BY DEF StandsStill
      <4>2. CASE scroll
        <5>1. offset # -1 /\ offset' = (offset + 1) % 26 /\ shownAt' = offset
          BY <3>1, <3>2, <4>2
        <5>. QED
          BY <3>1, <3>2, <5>1 DEF OffsetFollows
      <4>3. CASE ~scroll
        <5>1. offset' = 0 /\ shownAt' = -1
          BY <3>1, <4>1, <4>3
        <5>. QED
          BY <3>1, <3>2, <5>1 DEF OffsetFollows
      <4>. QED
        BY <4>1, <4>2, <4>3
    <3>. QED
      BY <2>2, <3>1, <3>4, <3>5 DEF MatrixInv
  <2> QED
    BY <2>6, <2>7, <2>8, <2>9, <2>10 DEF PrinterNext
<1> QED
  BY <1>1, <1>2, PrinterUsesRing, RingTypeCorrect, StandsStillHolds, PTL DEF PrinterSpec

(* Eight lit columns never go into one byte, so no byte of a picture is    *)
(* the delimiter that the display takes for the start of a frame.          *)
THEOREM NoDelimiterShownHolds == PrinterSpec => []NoDelimiterShown
<1>1. MatrixInv => NoDelimiterShown
  BY Zenon DEF MatrixInv, NoDelimiterIn, NoDelimiterShown
<1>. QED
  BY <1>1, MatrixInvariance, PTL

(* Whatever commands arrive and whenever the clock ticks, each picture     *)
(* drawn is the present time, one column further than the one before, or   *)
(* from its beginning if the text does not scroll or has just begun to.    *)
THEOREM ShowsTheTimeHolds == PrinterSpec => ShowsTheTime
<1>1. MatrixInv /\ [PrinterNext]_printerVars =>
        [Draws /\ phase' = "LOOP" =>
           data' = View(seconds, IF shownAt = -1 THEN 0 ELSE shownAt + 1)]_printerVars
  <2>. DEFINE next == IF shownAt = -1 THEN 0 ELSE shownAt + 1
  <2> SUFFICES ASSUME MatrixInv, PrinterNext, Draws, phase' = "LOOP"
               PROVE  data' = View(seconds, next)
    OBVIOUS
  <2>1. UpdateBuffer
    <3>1. \A command \in Commands : ~Ask(command)
      BY DEF Ask, Draws
    <3>2. ~SerialEvent /\ ~PinFalls /\ ~SecondPasses /\ ~Due
      BY DEF SerialEvent, PinFalls, SecondPasses, Due, Draws
    <3>3. ~ProcessCommand
      BY DEF ProcessCommand, Draws
    <3>. QED
      BY <3>1, <3>2, <3>3, Zenon DEF PrinterNext
  <2>2. data' = Draw(seconds, offset)
    BY <2>1 DEF UpdateBuffer
  <2>3. seconds \in Nat /\ next \in Nat /\ offset = next % 26 /\ offset \in Nat
    BY DEF MatrixInv, OffsetFollows
  <2>. HIDE DEF next
  <2>4. View(seconds, next % 26) = View(seconds, next)
    BY <2>3, ViewRound
  <2>. QED
    BY <2>2, <2>3, <2>4, DrawsView
<1>. QED
  BY <1>1, MatrixInvariance, PTL DEF PrinterSpec, ShowsTheTime
=============================================================================
