# A verification project for lerd86

The repository holds three programs that run on two ESP8266 boards and an
Arduino.  A **display** (`src/display/`) logs in to the web site of a gym and
shows the number of people there on eight LEDs; it is configured over HTTP.  A
**time printer** (`src/timeprint/`) shows a clock on an LED matrix.  A **portal**
(`src/portal/`) is its web site: a client sees the matrix, sets the clock and
chooses the wifi network.

No program has threads.  On the ESP8266 the SDK calls back for network events
and timers, and a task runs the events that were posted to it; on the Arduino
`loop` and `serialEvent` take turns.  Everything is shared between these
callbacks, so what is hard here is order: what a callback may find when it runs,
and what was left half done when it was called.

The modules in this directory model the three programs.  TLC checks them on
small instances (the `.cfg` files) and TLAPS proves theorems about them
(`*Proofs.tla`).  `PROJECT.json` maps every definition to the lines it stands
for, and lists the runs, the mutants that show that each property can fail, the
hazards of the code, and the theorems.

## Inventory

| part | source | state | driven by | what makes it correct | modules |
|---|---|---|---|---|---|
| requester | `display/requester.c` | one connection, one context, `e_status`, timeout, event queue | `request()`, DNS, TCP callbacks, timer, task | ends every request, reports once, no two requests share the context | `Requester` |
| response parser | `display/requester.c`, `stringutil.c` | parser state, line, length, cookies, scanner | packets | the body as it was framed, wherever packets are cut | `Response` |
| tracker | `display/display.c` | `ge_state`, request timer, jar, login data, token | timer, the requester's callbacks, wifi events, `set_email`/`set_pin` | talks to the site in the right order, recovers, lends no freed memory | `Tracker`, `Session` |
| HTTP server | `display/http.c` | a context for each connection, event queue | TCP callbacks, task | each client answered and hung up on, each payload freed once | `HttpServer`, `Query` |
| uConf | `display/uconf.c` | variables, actions, the schema's buffer | HTTP handlers | a value is parsed, set and confirmed as it was asked | `Uconf`, `Schema`, `Settings` |
| settings and flash | `display/display.c` | parameters and a sector of flash | setters, button, boot | what was confirmed survives | `Settings` |
| button | `display/display.c` | count, hysteresis, one timer | interrupt, timer | each press counts once, never deaf | `Button` |
| LED driver | `display/led.c` | pattern, mode, brightness, timer | `led_display`, timer | shows what was last asked for | `Led` |
| beacon, wifi, boot | `display/beacon.c`, `display.c` | UDP connection, timers, mode, `gb_ready` | timers, wifi events, uConf | ends up connected or as an access point, keeps announcing | `Beacon`, `Link` |
| time printer | `timeprint/` | ring buffer, command parser, clock, offset, picture | `serialEvent`, `loop` | does what it was sent, shows the time | `Matrix`, `RingBuffer`, `Fifo`, `Printer` |
| commands | `portal/portal.c`, `uart.c` | none | a client's request | reach the printer as they were asked | `Command` |
| frames | `timeprint.ino`, `portal.c`, `uart.c` | two levels of states, the picture | UART interrupt and task | serves whole pictures | `Frames` |
| portal: wifi | `portal/portal.c` | mode, two timers, two servers, lamps | wifi events, timers, a client | stays reachable | `Hotspot` |
| portal: web site | `portal/portal.c` | event queue, connections | TCP callbacks, task | each client gets its own answer | `Portal` |
| portal: SNTP | `portal/sntp.c` | one UDP connection, timer | a client, UDP callback, timer | sets the clock once, and right | `Sntp`, `Portal` |

How they interact.  The tracker calls `request()` and is called back from within
the requester's handlers.  Tracker, button and uConf set variables, which
broadcast through the beacon and show on the LEDs.  Wifi events start and stop
the HTTP server, the beacon and the tracker, and a request to the HTTP server
may set what the tracker logs in with.  The portal sends commands to the time
printer over a UART, the printer sends each picture back over the same line; the
portal's pages are made of the last picture that arrived.

What is hard: callbacks in any order; events that are queued while the state
they speak of changes; timers that race answers, or have two meanings; memory
that one part lends to another; queues that drop; flash that is erased before it
is written; a serial line that loses bytes; servers that answer anything, or
nothing.

## Plan

In order of importance, all of it done:

1. **Core**: `Requester`, `Session`, `Tracker` and their proofs.
2. **Server**: `HttpServer` and the proof of its payloads; `Query` and `Uconf`
   with the registry of handlers and the parsing of a request.
3. **Device**: `Led` with its proofs, `Beacon`, `Link`, `Button`; `Settings`
   with failures of the power between erasing and writing.
4. **Parsers**: `Response` and the scanner over packets, against the body and
   the cookies that the server meant.
5. **Portal and printer**: `Command`, `RingBuffer`, `Printer`, `Frames`,
   `Hotspot`, `Sntp`, `Portal`.
6. **Proofs** of the schema's buffer, the ring buffer, the printer's use of it,
   the portal's server, its answers and its clock, the capacity of the HTTP
   server's queue, the display's way onto a network, its settings and its button,
   the body and the cookies of a response, the frames of the matrix, the tracker
   and what it implements.

Abstract specifications: `Session`, what the web site may see, which `Tracker`
implements; `Requester!Spec`, which is what the tracker assumes and also
implements; `Fifo`, a bounded queue, which `RingBuffer` and with it `Printer`
implement.  Runs are kept few: a part that a larger run exercises gets none of
its own.

## The display's client: Requester, Session, Tracker

`Requester` is one request, from `request()` to the callback that closes it.
`conn` is the SDK's state of the connection, `eStatus` the code's `e_status`,
which is also how a posted event knows what to do, `phase` the parser's state
reduced to headers, body and done, `posted` the number of queued events, and
`report` the last status given to the client.  There is one action for each
callback, each case of `requester_Task` and each outcome of the parser.  `Spec`
is the requester under a client that calls `request()` only when nothing of the
last request is left (`Quiet`).

`Session` is what the web site may see: one page at a time, the login data only
with a token the login page gave, the members page only for a member.  A refused
login is not sent again, with one exception (`RefusalBrokenOff`): if the
connection breaks between the refusal and the end of its response, the requester
reports a failed connection, `ge_state` goes back from `eDoNothing` to `eInit`
(`display.c:277-281`, `336`), and the same login is repeated 20 s later.
`KeepsToSession` says that nothing else leads from a refusal to a request.

`Tracker` EXTENDS `Requester`: each action is a handler of the requester together
with what the tracker's callback does in it, and the tracker's own actions are
the request timer, the wifi events and the setting of credentials.  Time is
reduced to the orders the code relies on: what is queued when the timer is armed
runs before it expires, and a timeout armed before a delay of 500 ms or more
expires before it.  `token` and `dangling` say where lent memory is; `crashed`
is an exception of the processor, after which the watchdog restarts the board.

| property | what it says |
|---|---|
| `CloseNotLost` | a decision to close stays alive in the queue, a timer or the SDK |
| `RequesterUsedOneAtATime` | the tracker is the client that `Requester!Spec` assumes |
| `KeepsToSession` | it implements `Session` |
| `LentMemoryLive` | jar, login data and token live as long as the requester reads them |
| `Recovers` | once nothing goes wrong any more, the number of members is published for ever, unless the tracker has stopped |
| `FreesOnlyHeap` | the scanner's pointer is what the code that frees or extends it expects |
| `NotStranded` | however a connection ends, the timer is armed again, unless the login was refused |

Run `tracker`: a queue of 3 (at most two events are queued in it: the close of
the parser and that of the timeout), 3 packet pieces (headers, part of the body,
its end), answers 200, 302 and 500, every result of a lookup, a link that stays
up.  Run `tracker_disturbed`: one loss of the link or start of the access point
and one change of credentials at any moment.  Most of the table fails there,
which the hazards describe; `FreesOnlyHeap` and `NotStranded` still hold.

Two things were met on the way that have no run.  An error page of the login is
searched for a token that nobody has set (`display.c:373`, `ScanNull`), which is
an exception; `Recovers` counts it as stopped.  A members page that is redirected
is counted although its header decided to log in again (`display.c:427`,
`MembersHeaders`).  A lookup that fails leaves no timer armed, and the tracker
stops; `Stopped` says exactly when.

## The response: Response

`Response` is `receivecb` byte by byte: one action is one turn of its loop.  A
server is a record made by `Sized`, `Chunked` or `Malformed`: its symbols, and
the body and the cookies it meant.  The network cuts it into packets anywhere,
and may stop anywhere.  `scan_token` and `scan_until` run inside of the same
step as in the code.  A line is shorter than `MAX_HEADER_LENGTH`.

| property | what it says |
|---|---|
| `BodyAsFramed` | the application is given the body, all of it and nothing else |
| `FindsValue` | the value after the token is found, in whatever packets; a token in a body is found unless its own beginning runs into it |
| `CookiesAsSet` | the jar has the last value of each name |
| `Closes` | once anything was received the connection is closed |

Run `response`: 15 responses of up to nine characters of body, whole ones and
ones that break off the protocol at each state of the parser, and a length of
bodies counted modulo 8 so that one of them overflows it.  The numbers in a line,
codes and sizes, go up to `MaxNumber` = 310, above the codes 200 and 302 that matter.

## The display's server: HttpServer, Query, Uconf, Schema, Settings, Button

`HttpServer` is `http.c` with the SDK's side of each connection.  The addresses
of connections are a set, `Conns`, because an event names its connection by its
address and the SDK reuses it.  A payload is the number of 512-byte pieces left,
who owns it and whether it was freed.  `Manners` says when clients leave.

| property | what it says |
|---|---|
| `FreedOnce` | what a context owns has not been freed |
| `ReadsLivePayload` | no piece is sent from freed memory |
| `HangsUpWhenDone` | the server hangs up when everything is sent, or a send was refused |
| `NeverForgotten` | a client that asked has an event or a callback to come: the shared queue drops nothing that matters if it has two entries for each connection |
| `Answered` | every client that asks, and whose sends are taken, is answered and hung up on |

Run `http`: three connections and six events, two pieces, sends may be refused and
memory may run out (`Connect` then leaves a connection without callbacks, which the
model calls `DEAF`), clients ask once and wait.  The bound of two entries for each connection is
tight: with one less TLC finds a forgotten client.  The code has ten entries and
the SDK accepts five connections.  `http_stale` answers the question the comment
in `server_Task` asks: a client leaves between `sentcb`'s post and the task, which
then follows a NULL pointer.  A second segment of a client is answered as a
request of its own, and both answers share a context: the first payload is lost,
and the event posted for the first frees the second.  No run has such a client;
`FreedOnce` is proved for any number of segments and clients that leave at any
moment, the other properties of this table are about clients that ask once.

`Query` is the parsing of a request line, with each width and the decoding of
escapes; `Uconf` the variables and actions, and what `set`, `get` and `invoke`
make of the parameters; `Schema` the writing of the schema into a buffer of fixed
size, one entry for each step, where only lengths matter; `Button` the interrupt
with its hysteresis and the row of presses, on one timer.  `Settings` EXTENDS
them: the variables that `user_init` registers, the parameters, and the flash.
A save is two steps, and the power may go before, between or in the middle of
them (`Torn`); reads, erasures and writes may fail, and a write over what was not
erased leaves the bits that are set in both (`Written`).  `promised` is what
clients were told is set, with the values.

| property | what it says |
|---|---|
| `ChangedAsAsked` | a client that is told "ok" has what it asked for, character by character, and a setting changes only for who asked for it |
| `SettingsSurvive` | what a client was told is set is in the flash, with its value and a good magic number, and is what the display uses after any number of boots and saves of other things |
| `SchemaFits` | no write of the schema goes past the end of its buffer |
| `PressesCounted` | every press counts once, also with a contact that bounces and a save in between; at least once after an interrupt that came between an expiry and its callback |
| `NeverDeaf` | the button's interrupts are enabled again |

Run `settings`: short addresses and pins, sizes counted modulo 7 with one value
beyond that, buffers of 220 bytes (too short) and 296 (the code's 2048 is never
short), two presses of the button, one fault.  `SettingsSurvive` excludes what the
code does not secure: everything promised before a save that failed, or was cut off
once its erasure had begun (the whole structure is one sector, and every save
rewrites it), a save whose erasure failed (`display.c:748` does not look), and
what is saved after a boot that could not read the flash; during such a boot the
flash keeps what was promised, but the display does not use it.  `ChangedAsAsked` is about values
within the sizes of the server; what happens to longer ones is in the hazards.

## The display's device: Led, Beacon, Link

`Led` is `led.c`: `value` is the 32-bit word as the set of its bits; `SpiTimer`
shifts out the low byte and plays one step of the animation, one action for each
mode.  Delays are left out: a timer is armed or not.

| property | what it says |
|---|---|
| `RotatesRing` | rotation by shift and or, on a word that is never masked, stays a rotation of eight LEDs |
| `LastRequestShown` | what was last asked for is shown in the end, whatever it interrupts |

Run `led`: the full width, since that is where the bits pile up; three patterns
(symmetric, periodic, at the edge of the byte), brightness up to 4 and a lower
bound of 2, so that targets lie below, at and above it.

`Beacon` has one UDP connection that the timer and the broadcasts of uConf share
and that either may replace.  `bcast` is `gb_bcast`, `remote` the address in the
connection and `sentTo` where the last packet went: to the phone, to everyone, or to
nobody, because a packet that is sent again over a new connection (`beacon.c:79`)
finds the address cleared (`beacon.c:138`).  `Link` EXTENDS it with `wifi_handle_event_cb`, the
error timer, `connect_ap` and `station_connect_timer`.  The SDK reports what
happened to the station in a FIFO, so an event may be handled in another mode
than the one it was reported in.

| property | what it says |
|---|---|
| `ReadyMeansUp` | when everything was handled, `gb_ready` is set exactly if the station has an address |
| `BeaconFollowsMode` | no announcement goes to everyone when the display is the access point, or to the phone when it is on a network, and the connection is set up for the right one (a packet sent again may go to nobody) |
| `HotspotStable` | the error timer never restarts the access point under a phone |
| `NeverSilent` | as long as there is a connection the beacon's timer is armed |
| `HotspotIfUnable` | every attempt to be a station ends with an address or as an access point |

Run `link`: up to three events before the SDK reports another, and a connection
that may fail.  `HotspotIfUnable` excepts what the code does not cover: a base
station that accepts and drops the station for ever (it re-arms the timer), one
that changes its authentication (it disarms it), the report of a phone put off by the
change of the mode that arrives after it (it disarms the timer too), a phone that
keeps setting the network.  The button pressed before there is a network broadcasts through a
connection that was never made (`BroadcastCrashes`): an exception, which the
properties count as a restart.

## The time printer: Matrix, Command, RingBuffer, Fifo, Printer, Frames

`Matrix` draws minutes and seconds in the font of `font.h`, column by column,
through a window that moves over the text.  `Command` is what the portal writes
for a command, a byte at a time through the driver's `uart0_write_char`, and the
`strtol` with which it reads a speed.  `RingBuffer` is `pending` with its head and
tail; `Fifo` is the queue it promises.  `Printer` EXTENDS these: `serialEvent`
between two runs of `loop`, every state of `processCommand`, the counter, the pin
that disables the line, the drawing.

| property | what it says |
|---|---|
| `DoesWhatArrives` | as long as nothing was dropped, the printer executes what the portal was asked to send, in order and with the same numbers, if the driver leaves the bytes alone |
| `IsFifo` | through wrapping and overflow the ring buffer is a queue of one byte less than its size |
| `ShowsTheTime` | each picture is the present time, one column further than the last, also where the offset starts again |
| `NoDelimiterShown` | no eight lit columns go into one byte, which would be a delimiter of the frames |

Run `printer`: a ring of 8 bytes that two commands overflow, commands of every
kind, one second or fall of the pin.  `commands_newline` drops the condition of
`DoesWhatArrives`: a time or a speed with a byte 10 or 13 in it arrives as another
number, or swallows what follows.  The baud rates of the two programs differ in
the source (9600 in the sketch, 57600 in the portal); the model is of a line that
works.

`Frames` is the way back: `echobuffer` sends each picture, `uart0_rx_intr_handler`
posts the task, and `uart_recvTask` assembles rows.  Bytes are lost anywhere, as
in a FIFO that overflows or a portal that restarts.  A switch at the printer
disables and enables the line (`serialDisable`), and until the first picture has
arrived the portal serves the pattern that `user_init` put there.

| property | what it says |
|---|---|
| `ServesWholePictures` | until a byte is lost, and again after two frames more than a picture has rows, the portal serves pictures (or its first pattern) and never rows of two |
| `ViewRecovers` | if the line stays enabled, in the end every picture is served |

Run `frames`: 3 rows instead of 10 (a row is sent like any other), two pictures
with bits at both ends of each byte, two lost bytes, the switch at any time.  The portal moves each row
right by ten bits, so that it serves columns 10 to 19 only; the properties are
about those.

## The portal: Hotspot, Sntp, Portal

`Hotspot` is how the portal gets onto a network: the boot, two timers,
`wifi_handle_event_cb`, the two servers, of which one serves port 80, and the
lamps.  A change of the mode may be reported or not (`ModeReports`): `display.c:152`,
`704` and `731` rely on such a report, the list of events at `portal.c:699-708` has
none.  If it comes, it disarms the timer that the change of the mode has just armed
(`portal.c:29`, `57`, `695`).

`Sntp` is the arithmetic on timestamps with its carries by hand, from the two times
that the code reads its own clock (`sntp.c:75`, `136`).  `Portal` EXTENDS it with the
web site: the routing of a path, the queue of `tcp_connTask`, the callbacks, and the
one UDP connection on which the time is asked for and asked for again every 250 ms.
It knows of the wifi only by which `network` clients come, which changes in any way.

A client of `Portal` may leave, be timed out or lose its network at any moment, and may
go on asking on its connection (`MaxSegments`).  The code takes nothing back when it
goes: the queue and the request for the time keep the address of its connection.  A
client that comes while its address is still in use is an **heir** (`heirs`).  What the
code owes to nobody is visible in `client`: *forgotten* is one whose signal found the
queue full, or whose answer goes to another, *shut* one that was hung up on before it
was answered.

| property | what it says |
|---|---|
| `Reachable` | when all events were handled, a portal that is on a network or has opened its hotspot serves port 80 |
| `Settles` | a portal that tries a network ends on it or opens its hotspot, whatever disarms its timer meanwhile |
| `AnsweredAsAsked` | a client gets the answer to what it asked, however others come and go, unless it is an heir |
| `RepliesToAll` | a client that waits is answered before it is hung up on, however many packets are lost, unless it leaves or its network does, is an heir, is forgotten, or asks for the time over the hotspot |
| `SetsTimeOnce` | the clock is set at most once for each time that a client made the portal ask |
| `ClockRight` | it is set to the right time: at most three seconds behind, or 232 microseconds / 2 ahead (`Slack`), each beyond half the time on the way |

The exceptions are what the code does.  An heir is given what was meant for the client
before it (`sntp.c:154`, `portal.c:444`, `515`), and so is hung up on.  Another network
is tried before the answer to `setwifi.html` is posted (`portal.c:507`, `509`), so that
the client which asked for it is gone when the task answers: nobody counts as answered
there.  Two clients that ask for the time at once share one connection, of which the
first one's answer is lost.  Ten entries of a queue that nobody checks serve any number
of segments.

`Settles` relies on the SDK, which reports in the end how each try went; one of which
nothing was ever reported, while the timer is disarmed, would leave the portal without a
network, and the code as it is does not exclude that.  `portal/README.md:5` says what is
meant: "if can not connect to base station will start its own access point".

Run `portal` asks four questions, by a variable that never changes (`watched`), since
their product would answer nothing more:

- `WIFI`: the hotspot, three events under way;
- `PAGES`: two clients that come, ask once and leave as they like, one of them for a
  page and either for the time or another network;
- `SEGMENTS`: one client with three requests on a connection, a queue of two, so that
  it overflows (the code has ten entries);
- `TIME`: one client, two requests for the time under way, nine exchanges with the time
  server: quick, slow, slow on one way only, at the start, in the middle and at the end
  of a second on both clocks, a new second between the two times that the clock is read,
  and the moment it starts again.

The clock is scaled: 8 microseconds make a second, 17 parts of a second a word,
32 microseconds a turn of `system_get_time`, 60 seconds a day.  Each carry and
each borrow occurs in the exchanges, and so does the borrow that the code misses:
the fraction of a second is compared after a division that loses up to `Second`
parts of it, which shows when a word is less than the square of a second.  With
2^32 parts and a million microseconds it is.

## Assumptions about the SDK

As the code makes them: `wifi_set_opmode` always reports the mode on the display
(`display.c:152`), and on either board a network that was lost or left is reported;
events of the station arrive in order; `espconn_accept` refuses a second server on a
port, and `espconn_delete` a server with connections; of two timers, the one that was
armed first with the shorter delay expires first.  Clients owe nothing: they may leave,
fall silent or be timed out at any moment.

## Fairness

The SDK runs posted events and expired timers, answers lookups and connection
attempts, hands over packets it has accepted, reports what was sent and completes
a disconnect: weak fairness on each.  A web server that has accepted a request
answers or hangs up; it owes nothing more once it has started, because the
requester's own timeout covers the rest (`Tracker`, `Response`).  No client of the
HTTP server or the portal has to do anything.  The LED timer, the beacon's timer
and the timers that start a connection expire when armed.  The error timer of the
display is armed anew and disarmed by events: it expires unless this happens again and
again.

For the portal's wifi (`HotspotFairness`): timers expire, events are handed over, and the
SDK reports how each try to join a network went (`TryEnds`), in whatever way; that a
network ever takes the portal is not assumed.  For its web site (`PortalFairness`): the
task runs, what was sent is reported, and the timer repeats a request of which nothing
is left under way.  Strong fairness on `NtpconnRecv` says that a time server that is
asked again and again, by a portal on a network, is heard in the end: without it every
packet could be lost for ever, and no retry can help against that.

In `Frames` the printer goes on sending while its line is enabled, and the interrupt and
the task run; that bytes are lost is never fair, and bounded.  Nothing is assumed about
which way a choice goes: lookups may fail for ever.

## Proofs

`TrackerProofs` begins with the requester under a client of good manners, for
every queue length and number of packets: the type invariant,
`OpensOnlyResolved`, `CloseNotLost`, `SendsBeforeReceiving` and the action property
`PhaseOnlyAdvances`, from one inductive invariant `Inv`.  The properties are not
inductive by themselves because they speak of `eStatus` and the queue, and what
the queue holds depends on which callback set `eStatus` last; `Inv` adds what is
true while a name is looked up (`LookingUp`), while the connection opens
(`Opening`, `Opened`) and while the request is sent (`Sending`).

It then proves about the tracker, in two parts.  Whatever disturbs it, however
often the link is lost and credentials are set: `CloseNotLost`, `FreesOnlyHeap` and
`NotStranded`, from `AnyInv`.  The scanner's pointer needs `TokenInv`, which says
where the token is when the tracker is about to log in, in the login's response
and while the scanner collects; the timer needs `Rearmed`, that after
a connection has ended it runs unless a login was refused, which every callback
that ends one and every expiry has to keep.  When the link stays up
and nobody sets credentials (`Undisturbed`): `LentMemoryLive`,
`RequesterUsedOneAtATime`, which makes every step of the tracker one of
`Requester!Spec`, and `KeepsToSession`, which makes it one of `Session` or a
stutter; a refusal is left only by the step in which its connection breaks.  `CalmInv` adds the reason, which is about time: while the request timer
runs after a connection has ended, whatever that connection left comes first
(`ClosedWaits`), no timer runs before a request has got as far as a connection
(`FreshWaits`) or while lent memory is going to be read (`Reads`).  The hypothesis
is needed: with one loss of the link, or one change of credentials, TLC finds each
of the three violated.

`HttpServerProofs`, for any number of connections and segments, clients that leave
at any moment, refused sends and a queue of any length: the type invariant
and `FreedOnce`, which is inductive with it (`HttpInv`), because what a context
owns is written together with what it points to.

Its second part asks when `server_TaskQueue` is large enough.  Nothing checks
whether a post succeeded, so this is a property of the whole: for any number of
connections, clients that ask once and wait for the answer (`AsksOnce`) and two
entries for each connection (`TwoEach`; ten entries for the five connections the
SDK serves), no event is lost that somebody waits for (`NeverForgotten`), the
server hangs up only when all is sent (`HangsUpWhenDone`), sends no freed
payload (`ReadsLivePayload`) and meets no event without a context
(`NeverCrashes`).  The invariant has two parts.  `OneAtATime` says that at most one
thing is under way for a connection, a send or one signal in the queue.
`Assigned` assigns each event of the queue to the connection that posted it, also
the events that a connection has gone, which do not say which; no connection
has two of a kind, so a pigeonhole (`HasRoom`) gives room for the next.  Both
assumptions are needed: without the first two answers of one connection meet
(`http_stale` shows what a client that leaves early does), and with five entries for
three connections TLC finds an event dropped.

`ResponseProofs`, for every token, every set of responses, whole or broken, and
however the network cuts and stops them: `FindsValue`.  `Scans` says of the scanner
and of all that the application was given so far that it seeks (`Seeking`: the bytes
of the token behind it are the end of the text, and an occurrence that has begun
began with them), copies, or has copied (`Copies`); a byte keeps that (`SeekByte`,
`CopyByte`, `ByteScans`), and so do the bytes of a call wherever the text was cut
(`DataScans`), which needs the fold unfolded (`ScanUnfolds`).  `ScanInv` says when
the parser is before the body, in it and behind it, so that nothing else reaches the
scanner.

Its second part is about sound responses, any cookies and any body with a length or
in any chunks: `BodyAsFramed` and `CookiesAsSet`.  A response is laid out: each
line, size, chunk and end of a line has its place in it (`Laid`, `HeadIsHeaded`,
`SizedIs`, `ChunkedIs`).  `StreamInv` says that what is yet to be parsed is the rest of the
response, from the place `Behind` on, however it is cut (`StreamKept`).  `TrackInv` says for
each state of the parser where that place is, that the line buffer holds the line up to
it, what was stored of the lines before, and that what the application was given is the
body up to it.  It has one lemma for each case of `receivecb` (`StatusLineTracks` to
`InBodyTracks`); a line ends where its bytes say because none of them is a carriage
return (`LineByte`), and a number that was written is read back (`NumberReads`).

`LinkProofs` begins with the LED driver, for every word of at least eight bits and
every set of patterns: the type invariant, which includes that the brightness never
leaves its range, and `RotatesRing`.  The rotations are exact only because the bits
that were shifted out of the byte repeat it; `LedInv` says so (`Periodic`),
`ShiftsKeepPeriodic` that the shifts keep it, `ShiftsRotate` that with it a shift of
the word rotates the ring.

For the wifi connection in the same module, any number of events under way and
whatever the timers do between an event and its handling, it proves `ReadyMeansUp`,
`BeaconFollowsMode`, `HotspotStable` and `NeverSilent`.  The first three speak of a
moment when all events are handled, so the invariant has to say before that what the
queue will have done by then: that one event that sets a flag is in it with none that
clears it behind (`EndsIn`), or that the flag is set and none is in it that clears it
(`Free`).  `Reported` and `Handled` say how both change at the two ends of the queue.
`SentInv` says that the last packet went where the connection is meant to lead, or to
nobody: the address is set before each first attempt, and a new connection has none.

`SettingsProofs`, for every registry and every size of buffer: `SchemaFits`.  Each
check of the handler has to leave room for what follows it without a check of
its own; `SchemaInv` says how much that is in each loop, and
`VariableTextBound` and `ActionTextBound` that an entry is never longer than its
check assumed.  For the device around it, any number of presses, faults and
requests: `PressesCounted`, `NeverDeaf` and `SettingsSurvive`, from `SettingsInv`.
What makes the button count is that a contact that bounces meets disabled
interrupts or the hysteresis (`Debounces`); what keeps the settings is that
between two saves the sector holds what was promised, value by value, behind a good
magic number, and that the parameters in memory, from which the next save is made,
have the same values (`FlashKeeps`).

`PrinterProofs` begins with the ring buffer, for every size: the indices stay
inside of the array, the one comparison of `serialEvent` says exactly that it is full
(`FullWhenFull`), and the ring implements `Fifo`: a store appends to the queue that the
ring stands for (`StoreAppends`), a take returns its head (`TakeIsTail`).  It then carries
this over to the printer, whose every step is a step of the ring or leaves it
alone (`PrinterUsesRing`, with `LineTypeOK` for the bytes on the way), and proves
that a text that does not scroll stands still.  `DoesWhatArrives` speaks of whole
commands, of which the parser knows a byte at a time; it follows from `OnTrack`:
with the bytes of all the commands laid one after another (`Lays`), what is in the
ring and on the line is what remains of them from the place that the parser has got
to (`Remains`), and its state and the bytes it has kept are those of that place
(`InCommand`).  Asking for a command lays more bytes at the end (`LaysMore`), a
store moves a byte from the line to the ring and leaves the rest as it is
(`StoreKeepsStream`), and a byte taken is the next one of its command
(`ProcessOnTrack`), with which the parser goes on or executes the command
(`ParserStep`).  That a number comes back together is `TimeArrives`; that the driver
writes a command byte for byte unless it has a 10 or a 13 in it, `WrittenIs`.

What the matrix shows is `ShowsTheTime` and `NoDelimiterShown`.  `updatebuffer` walks
over the text from its beginning for every picture, with folds that the proofs unfold
(`CursorsUnfold`, `WindowUnfolds`, `FlattenUnfolds`); the text of any time has the same
widths (`TextFits`), so its glyphs and gaps are a ring of 26 columns (`RingIs`), a cursor
is a place of it (`CursorPlace`) that `advance` moves on by one (`AdvancePlace`,
`CursorsAre`), and the picture is the ring from the offset on (`DrawsView`).
`OffsetFollows` says that the offset is one further than the picture shown, modulo the
ring, and with `StandsStill` that it is 0 when nothing scrolls.  From every place of the
ring a gap is at most four columns ahead (`GapAhead`), so no eight columns in a row are
lit, whatever the digits (`ViewHasGaps`).

`PortalProofs`, for any clients, requests, segments, exchanges and length of the queue:
`Reachable`, from `WifiInv`, which says who will bring a server up, an event or a timer,
for each mode and state of the station, whether the change of a mode is reported or not;
`SetsTimeOnce`, with the state of the connection and of its timer; `AnsweredAsAsked`,
from `AnswerInv`; and `ClockRight`.

`AnswerInv` holds for clients that come and go at any moment, are timed out, lose their
network, ask again and again, and find the queue full.  It says of each client that is
no heir that whatever is queued under its address is for something it asked for on this
connection, and that a request for the time which keeps its address is its own
(`Expected`).  When a client goes, its address may stay in the queue: who gets it then
is an heir by definition, and who gets a clean one starts with nothing to come
(`Connect`).  That is why heirs must be excluded, and why nothing else need be.

`ClockRight` is proved for every length of a second, a word and a day and every turn of
the portal's clock, if only a word has more parts than `SntpAssumption` asks for.
The clock is plain arithmetic, but with four divisions in a row: `Division`
and `Quotient` say what each one loses, `FracIs` and `Borrowed` what the carries
make of that, `Error` adds it up.  The proof corrected the property.  It used to say
that the clock is never ahead by more than half the time on the way, which TLC
agreed to on a scale where a word was longer than the square of a second; the real
one is shorter, and the clock may be ahead by half of `Slack` more.

It ends with the matrix: `ServesWholePictures`, for every number of rows and any
pictures without a delimiter in them.  `FrameIs` says which byte is at which place of a
frame, `ReceiveIs` what each does to the receiver.  A receiver that is out of step takes
one row for another, but it goes on one state with every row all the same: either it
finds the row's delimiter, or it takes that for a byte and then skips some
(`TurnKept`).  As a frame has one delimiter more than rows, and the states go around in
as many as that, each frame that comes through takes one state off the distance
(`InStepKept`), and after one frame more than there are rows nothing is left of it
(`Behind`).  The next frame is then read byte by byte (`ReadsKept`).  `FramesInv` has
both, and that the line holds the rest of the frame of the picture, or that nothing
was sent yet; the switch changes none of it, since a disabled line only sends later.

No installed prover can instantiate an induction theorem.  Where a proof needs
induction over the numbers (`LeastExists`, `NatInductive`) it takes the least element
of a set instead, which the theory of well-founded relations gives for sets.
`SequenceLemmas` has that, and what the proofs share about sequences: where sequences
begin that are laid one after another (`StartsExist`), and that each is there
(`FlattenLays`).

The assumptions are those of the modules, checked by TLC on the instances: a queue
has at least one entry, words at least eight bits, a ring at least two bytes and
these are at most 255, a digit prints as the font's key for it, the commands of the
portal carry a uint16 or a second of the day, a buffer holds at least an empty
schema, no request is the absence of one, the units of the clock are positive, the
token is a text that is not empty and responses consist of texts, numbers are written
so that they can be read back and without a carriage return, a sound response has one of
the two forms with nothing in its cookies that ends their lines, and the exchanges
are ones that can happen (`Possible`: the answer is sent after the question came,
and both clocks run alike).
`Undisturbed` and `AsksOnce` with `TwoEach` are hypotheses of the theorems that say
so; the runs `tracker` and `http` meet them.  `ServesWholePictures` takes from
`FramesAssumption` that no picture has a delimiter in it, which is `NoDelimiterShown`
of the printer.

Model-checked only: liveness (`Recovers`, `Closes`, `Answered`,
`LastRequestShown`, `HotspotIfUnable`, `ViewRecovers`, `Settles`, `RepliesToAll`),
which is beyond the prover; and `ChangedAsAsked`, which rests on what the recursive
functions of `Query` make of the characters of a request.

## What is not modelled

The drivers in `driver_lib/`, copied from the vendor's examples, but for the
functions named above: they write to registers.  The wording of pages and
requests, the hours of the clock (computed, and never shown), and `refresh`, which
shifts the picture out to the matrix over and over.  How fast anything goes: speeds of
animations, delays beyond their order.  Memory that runs out, but where the code
handles it in a way that a property could see (`HttpServer`, `Requester`,
`Schema`).  Models of the case, schematics and build files have no state.
