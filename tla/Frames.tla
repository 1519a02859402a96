------------------------------- MODULE Frames -------------------------------
(***************************************************************************)
(* How the matrix gets to the web page: the time printer sends each        *)
(* picture it draws as a frame (echobuffer of timeprint/timeprint.ino),    *)
(* and the portal reads the frames from its UART (uart0_rx_intr_handler of *)
(* portal/driver_lib/driver/uart.c, uart_recvTask of portal/portal.c) into *)
(* the picture that state.json serves.  A switch at the time printer        *)
(* disables its serial line: it draws, and sends nothing.                  *)
(*                                                                         *)
(* A word, and a byte, is the set of its one bits.  Bytes may be lost at   *)
(* any time: in a FIFO that overflows, while the portal restarts, on the   *)
(* wire.                                                                   *)
(***************************************************************************)
EXTENDS Integers, SequencesExt

CONSTANTS
  ROWS,       \* rows of the matrix
  Pictures,   \* what the time printer draws
  MaxLost     \* bound: how many bytes are lost

Byte == 0..3
BitsOf(k) == 8 * k..8 * k + 7
FF == 0..7

(* See NoDelimiterShown of module Printer.                                 *)
ASSUME FramesAssumption ==
  /\ ROWS \in Nat \ {0}
  /\ MaxLost \in Nat
  /\ \A p \in Pictures : p \in [1..ROWS -> SUBSET (0..31)]
  /\ \A p \in Pictures : \A i \in 1..ROWS, k \in Byte : ~(BitsOf(k) \subseteq p[i])

VARIABLES
  serialDisable, \* of the time printer
  picture,       \* data of the time printer when it sent it last
  before,        \* history: the picture it sent before
  line,          \* bytes sent and not yet read
  rxEnabled,     \* the receive interrupts of the portal are enabled
  posted,        \* uart_recvTask is in the queue
  receiver,      \* uart_state, uart_sub_state, data_new and data of the portal
  lost,          \* history: how many bytes were lost
  whole          \* history: frames since then, up to ROWS + 2

framesVars ==
  <<serialDisable, picture, before, line, rxEnabled, posted, receiver, lost, whole>>

eSearching == 0
eDelim == 4

Nothing == [i \in 1..ROWS |-> {}]

(* What user_init puts into data: 0xFFFFFFF0 and the number of the row     *)
Pattern == [i \in 1..ROWS |-> 4..31 \cup {bit \in 0..3 : ((i - 1) \div 2^bit) % 2 = 1}]

Unsent == <<>>

FramesInit ==
  /\ serialDisable = FALSE
  /\ picture = Unsent
  /\ before = Unsent
  /\ line = <<>>
  /\ rxEnabled = TRUE
  /\ posted = FALSE
  /\ receiver = [state |-> eSearching, sub |-> 0, new |-> Nothing, data |-> Pattern]
  /\ lost = 0
  /\ whole = 0

-----------------------------------------------------------------------------
(* THE TIME PRINTER                                                        *)

ByteOf(row, k) == {bit - 8 * k : bit \in row \cap BitsOf(k)}

Frame(p) ==
  <<FF>> \o FlattenSeq([i \in 1..ROWS |->
    <<FF, ByteOf(p[i], 3), ByteOf(p[i], 2), ByteOf(p[i], 1), ByteOf(p[i], 0)>>])

(* loop: the pin of the switch falls.                                      *)
Switch ==
  /\ serialDisable' = ~serialDisable
  /\ UNCHANGED <<picture, before, line, rxEnabled, posted, receiver, lost, whole>>

(* echobuffer: the 51 bytes of the frame before took 53 of the 250 ms.     *)
EchoBuffer ==
  /\ ~serialDisable
  /\ line = <<>>
  /\ picture' \in Pictures
  /\ before' = picture
  /\ line' = Frame(picture')
  /\ whole' = IF whole > ROWS + 2 THEN whole ELSE whole + 1
  /\ UNCHANGED <<serialDisable, rxEnabled, posted, receiver, lost>>

Lose ==
  /\ lost < MaxLost
  /\ \E i \in DOMAIN line : line' = RemoveAt(line, i)
  /\ lost' = lost + 1
  /\ whole' = 0
  /\ UNCHANGED <<serialDisable, picture, before, rxEnabled, posted, receiver>>

-----------------------------------------------------------------------------
(* THE PORTAL                                                              *)

(* uart_rx_intr_disable and uart_rx_intr_enable.                           *)
RxIntrDisable == rxEnabled' = FALSE
RxIntrEnable == rxEnabled' = TRUE

(* uart0_rx_intr_handler: the FIFO is full enough, or has waited.          *)
RxInterrupt ==
  /\ rxEnabled
  /\ line # <<>>
  /\ RxIntrDisable
  /\ posted' = TRUE
  /\ UNCHANGED <<serialDisable, picture, before, line, receiver, lost, whole>>

(* A byte of a row, the highest first; the last one moves the row right.   *)
Merged(r, byte) ==
  LET row == (r.new[r.state] \ BitsOf(r.sub)) \cup {bit + 8 * r.sub : bit \in byte}
  IN [r.new EXCEPT ![r.state] = IF r.sub = 0 THEN {bit - 10 : bit \in row \ 0..9} ELSE row]

StoreByteStaysInFrame(r, byte) ==
  LET new == Merged(r, byte)
  IN CASE r.sub # 0 -> [r EXCEPT !.new = new, !.sub = @ - 1]
       [] r.sub = 0 /\ r.state # ROWS ->
            [r EXCEPT !.new = new, !.sub = eDelim, !.state = @ + 1]
       [] r.sub = 0 /\ r.state = ROWS ->
            [r EXCEPT !.new = new, !.sub = eDelim, !.state = 1, !.data = new]

StoreByte(r, byte) ==
  LET new == Merged(r, byte)
  IN CASE r.sub # 0 -> [r EXCEPT !.new = new, !.sub = @ - 1]
       [] r.sub = 0 /\ r.state # ROWS ->
            [r EXCEPT !.new = new, !.sub = eDelim, !.state = @ + 1]
       [] r.sub = 0 /\ r.state = ROWS ->
            [r EXCEPT !.new = new, !.sub = eDelim, !.state = eSearching, !.data = new]

(* One turn of the loop of uart_recvTask.                                  *)
ReceiveTrustsDelim(r, byte) ==
  CASE r.state = eSearching /\ byte = FF -> [r EXCEPT !.state = 1, !.sub = eDelim]
    [] r.state # eSearching /\ r.sub = eDelim -> [r EXCEPT !.sub = 3]
    [] r.state # eSearching /\ r.sub # eDelim -> StoreByte(r, byte)
    [] OTHER -> r

Receive(r, byte) ==
  CASE r.state = eSearching /\ byte = FF -> [r EXCEPT !.state = 1, !.sub = eDelim]
    [] r.state # eSearching /\ r.sub = eDelim /\ byte = FF -> [r EXCEPT !.sub = 3]
    [] r.state # eSearching /\ r.sub # eDelim -> StoreByte(r, byte)
    [] OTHER -> r

(* The task reads what has arrived when it starts: something, unless that  *)
(* was lost after the interrupt.                                           *)
Read ==
  \E n \in 0..Len(line) :
    /\ n = 0 => line = <<>>
    /\ receiver' = FoldLeft(Receive, receiver, SubSeq(line, 1, n))
    /\ line' = SubSeq(line, n + 1, Len(line))

UartRecvTask ==
  /\ posted
  /\ posted' = FALSE
  /\ Read
  /\ RxIntrEnable
  /\ UNCHANGED <<serialDisable, picture, before, lost, whole>>

FramesNext == Switch \/ EchoBuffer \/ Lose \/ RxInterrupt \/ UartRecvTask

FramesSpec == FramesInit /\ [][FramesNext]_framesVars

(* The time printer goes on drawing while its line is enabled, bytes       *)
(* arrive, and the SDK runs the interrupt and the task.                    *)
FramesFairSpec ==
  /\ FramesSpec
  /\ WF_framesVars(EchoBuffer)
  /\ WF_framesVars(RxInterrupt)
  /\ WF_framesVars(UartRecvTask)

-----------------------------------------------------------------------------
(* PROPERTIES                                                              *)

(* What the portal makes of a picture: without its first ten columns.      *)
Seen(p) == [i \in 1..ROWS |-> {bit - 10 : bit \in p[i] \ 0..9}]

(* ... and of none.                                                        *)
Shown(p) == IF p = Unsent THEN Pattern ELSE Seen(p)

(* As long as nothing is lost, and again when two frames more than the     *)
(* rows of a picture have come through, the portal serves whole pictures   *)
(* and never rows of two: the last but one while a frame is on its way,    *)
(* then the last; until the first has come the pattern it starts with, and *)
(* while the line is disabled the picture that was sent before.            *)
ServesWholePictures ==
  lost = 0 \/ whole > ROWS + 2 =>
    receiver.data = IF line = <<>> THEN Shown(picture) ELSE Shown(before)

(* Wherever bytes were lost: if the line stays enabled, in the end every   *)
(* picture is served.                                                      *)
ViewRecovers ==
  <>[]~serialDisable =>
    /\ <>[](line = <<>> => receiver.data = Shown(picture))
    /\ []<>(line = <<>>)
=============================================================================
