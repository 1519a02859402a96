------------------------------ MODULE Printer -------------------------------
(***************************************************************************)
(* The time printer (timeprint/timeprint.ino): an Arduino that counts      *)
(* seconds, shows them on a matrix (module Matrix) and does what the       *)
(* portal tells it (module Command).  Its two threads of control take      *)
(* turns: serialEvent, between two runs of loop, puts what has arrived     *)
(* into the ring buffer, and loop, every 250 ms, works it off and draws.   *)
(* What loop then sends to the portal is in module Frames.                 *)
(***************************************************************************)
EXTENDS Matrix, Command, RingBuffer

CONSTANTS
  Commands,     \* what the portal may be asked to send
  MaxAsked,     \* bound: how many commands
  MaxOthers     \* bound: how many seconds pass, and how often the pin that
                \* disables the serial line falls, together

Day == 86400
Word == 65536
UInt16 == 0..Word - 1
Times == 0..Day - 1

ASSUME PrinterAssumption ==
  \A command \in Commands : Written(command) \in Seq(Bytes)

(* A speed is given as a uint16, a time as the second of a day.            *)
ASSUME CommandsAssumption ==
  \A command \in Commands :
    \/ command \in {Zero, ScrollOn, ScrollOff}
    \/ \E n \in UInt16 : command = <<"speed", n>>
    \/ \E n \in Times : command = <<"settime", n>>

VARIABLES
  line,            \* bytes on the way, the receive buffer of the Arduino included
  phase,           \* LOOP, or COMMANDS inside of processCommand
  parseState,      \* e_parse_state
  newData,         \* ui_new_speed and ui_new_seconds: the bytes they were given
  seconds,         \* ui_seconds, modulo a day
  iSecond,         \* the milliseconds that make a second
  scroll,          \* b_enable_scroll
  offset,          \* uiOffset
  data,            \* what the matrix shows
  serialDisable,
  asked,           \* history: the commands the portal has sent
  done,            \* history: the commands that were executed
  dropped,         \* history: a byte was dropped
  shownAt,         \* history: the offset of data; -1 if it does not scroll
  others           \* history: for the bound

loopVars == <<parseState, newData, seconds, iSecond, scroll, offset, done, shownAt>>
printerVars == <<ringVars, line, phase, loopVars, data, serialDisable, asked,
                 dropped, others>>

PrinterInit ==
  /\ RingInit
  /\ line = <<>>
  /\ phase = "LOOP"
  /\ parseState = "eSearching"
  /\ newData = <<>>
  /\ seconds = 0
  /\ iSecond = 1000
  /\ scroll = TRUE
  /\ offset = 0
  /\ data = ClearBuffer
  /\ serialDisable = FALSE
  /\ asked = <<>>
  /\ done = <<>>
  /\ dropped = FALSE
  /\ shownAt = -1
  /\ others = 0

-----------------------------------------------------------------------------
(* The portal sends a command.                                             *)
Ask(command) ==
  /\ Len(asked) < MaxAsked
  /\ line' = line \o Written(command)
  /\ asked' = Append(asked, command)
  /\ UNCHANGED <<ringVars, phase, loopVars, data, serialDisable, dropped, others>>

(* serialEvent, one byte of it.                                            *)
SerialEvent ==
  /\ phase = "LOOP"
  /\ line # <<>>
  /\ line' = Tail(line)
  /\ IF serialDisable THEN UNCHANGED ringVars ELSE Store(Head(line))
  /\ dropped' = (dropped \/ serialDisable \/ IsFull)
  /\ UNCHANGED <<phase, loopVars, data, serialDisable, asked, others>>

-----------------------------------------------------------------------------
(* loop: its three conditions                                              *)

PinFalls ==
  /\ phase = "LOOP"
  /\ others < MaxOthers
  /\ others' = others + 1
  /\ serialDisable' = ~serialDisable
  /\ UNCHANGED <<ringVars, line, phase, loopVars, data, asked, dropped>>

SecondPasses ==
  /\ phase = "LOOP"
  /\ others < MaxOthers
  /\ others' = others + 1
  /\ seconds' = (seconds + 1) % Day
  /\ UNCHANGED <<ringVars, line, phase, parseState, newData, iSecond, scroll, offset,
                 data, serialDisable, asked, done, dropped, shownAt>>

Due ==
  /\ phase = "LOOP"
  /\ phase' = "COMMANDS"
  /\ UNCHANGED <<ringVars, line, loopVars, data, serialDisable, asked, dropped,
                 others>>

-----------------------------------------------------------------------------
(* processCommand: one action for each case                                *)

Parsing(state) == phase = "COMMANDS" /\ ~IsEmpty /\ parseState = state

(* The byte does not end a command.                                        *)
Goes(state, kept) ==
  /\ parseState' = state
  /\ newData' = kept
  /\ UNCHANGED <<seconds, iSecond, scroll, offset, done, shownAt>>

Executes(command) ==
  /\ parseState' = "eSearching"
  /\ newData' = <<>>
  /\ done' = Append(done, command)

Searching ==
  /\ Parsing("eSearching")
  /\ Goes(IF Oldest = Delimiter THEN "eCommandId" ELSE "eSearching", <<>>)

CommandId ==
  /\ Parsing("eCommandId")
  /\ \/ /\ Oldest = 0
        /\ Executes(Zero)
        /\ seconds' = 0
        /\ UNCHANGED <<iSecond, scroll, offset, shownAt>>
     \/ /\ Oldest = 1
        /\ Executes(ScrollOn)
        /\ scroll' = TRUE
        /\ UNCHANGED <<seconds, iSecond, offset, shownAt>>
     \/ /\ Oldest = 2
        /\ Executes(ScrollOff)
        /\ scroll' = FALSE
        /\ offset' = 0
        /\ shownAt' = -1
        /\ UNCHANGED <<seconds, iSecond>>
     \/ Oldest = 3 /\ Goes("eCommandSpeed1", <<>>)
     \/ Oldest = 4 /\ Goes("eCommandSetTime1", <<>>)
     \/ Oldest \notin 0..4 /\ Goes("eSearching", <<>>)

CommandSpeed1 ==
  /\ Parsing("eCommandSpeed1")
  /\ Goes("eCommandSpeed2", <<Oldest>>)

CommandSpeed2 ==
  /\ Parsing("eCommandSpeed2")
  /\ iSecond' = newData[1] * 256 + Oldest
  /\ Executes(<<"speed", iSecond'>>)
  /\ UNCHANGED <<seconds, scroll, offset, shownAt>>

CommandSetTime123 ==
  \/ Parsing("eCommandSetTime1") /\ Goes("eCommandSetTime2", <<Oldest>>)
  \/ Parsing("eCommandSetTime2") /\ Goes("eCommandSetTime3", Append(newData, Oldest))
  \/ Parsing("eCommandSetTime3") /\ Goes("eCommandSetTime4", Append(newData, Oldest))

(* ui_new_seconds as it grows: << 8, and the next byte; modulo a day.      *)
Shift(s, byte) == (s * 256 + byte) % Day

CommandSetTime4 ==
  /\ Parsing("eCommandSetTime4")
  /\ seconds' = Shift(Shift(Shift(newData[1], newData[2]), newData[3]), Oldest)
  /\ Executes(SetTime(seconds'))
  /\ UNCHANGED <<iSecond, scroll, offset, shownAt>>

ProcessCommand ==
  /\ \/ Searching
     \/ CommandId
     \/ CommandSpeed1
     \/ CommandSpeed2
     \/ CommandSetTime123
     \/ CommandSetTime4
  /\ Take
  /\ UNCHANGED <<line, phase, data, serialDisable, asked, dropped, others>>

-----------------------------------------------------------------------------
(* updatebuffer, after processCommand.                                     *)
Draws ==
  /\ phase = "COMMANDS"
  /\ IsEmpty

UpdateBuffer ==
  /\ Draws
  /\ phase' = "LOOP"
  /\ data' = Draw(seconds, offset)
  /\ offset' = (IF scroll THEN offset + 1 ELSE offset) % ScrollPeriod
  /\ shownAt' = IF scroll THEN offset ELSE -1
  /\ UNCHANGED <<ringVars, line, parseState, newData, seconds, iSecond, scroll, done,
                 serialDisable, asked, dropped, others>>

PrinterNext ==
  \/ \E command \in Commands : Ask(command)
  \/ SerialEvent
  \/ PinFalls \/ SecondPasses \/ Due
  \/ ProcessCommand \/ UpdateBuffer

PrinterSpec == PrinterInit /\ [][PrinterNext]_printerVars

-----------------------------------------------------------------------------
(* PROPERTIES                                                              *)

Settled == line = <<>> /\ IsEmpty

(* As long as no byte was dropped the printer executes what the portal was *)
(* asked to send: the same commands with the same numbers, in order,       *)
(* and all of them once everything has arrived.                            *)
DoesAsAsked ==
  ~dropped => /\ IsPrefix(done, asked)
              /\ Settled => done = asked

(* What holds: the same for commands that the driver of the portal does    *)
(* not change on the way.                                                  *)
DoesWhatArrives ==
  (\A i \in DOMAIN asked : Verbatim(asked[i])) => DoesAsAsked

(* Every picture shows the present time as it stands on the ring: a column *)
(* further than the last picture while the text scrolls, also where the    *)
(* offset starts again, and the beginning when it does not.                *)
ShowsTheTime ==
  [][Draws /\ phase' = "LOOP" =>
       data' = View(seconds, IF shownAt = -1 THEN 0 ELSE shownAt + 1)]_printerVars

(* What is shown never has eight lit columns that go into one byte: the    *)
(* byte would be taken for the delimiter of the frames sent to the portal. *)
NoDelimiterShown ==
  \A i \in 0..Rows - 1, k \in 0..3 : ~(8 * k..8 * k + 7 \subseteq data[i])
=============================================================================
