------------------------------ MODULE Response ------------------------------
(***************************************************************************)
(* How the requester reads the response of a server (display/requester.c)  *)
(* and how the display finds a value in its body (display/stringutil.c,    *)
(* login_response_cb and members_response_cb of display/display.c).        *)
(*                                                                         *)
(* A response is a sequence of symbols: "CR", "LF", the characters of its  *)
(* body, and in its lines whatever the parser tells apart.  The network    *)
(* cuts it into packets anywhere, and may stop at any point.  Each action  *)
(* of the parser is one turn of the loop of receivecb.                     *)
(***************************************************************************)
EXTENDS Integers, SequencesExt

CONSTANTS
  Responses,    \* what servers send, see Sized and Chunked
  Token,        \* the text that is searched for
  EndChar,      \* what ends the value that follows it
  LengthSize,   \* 2^16: a Content-Length is taken modulo this
  MaxNumber     \* bound: the largest number in a line of a response

ASSUME ResponseAssumption ==
  /\ Token # <<>>
  /\ LengthSize \in Nat \ {0}
  /\ MaxNumber \in Nat

ASSUME TokenAssumption == Token \in Seq(STRING)
ASSUME WireAssumption == \A r \in Responses : r.wire \in Seq(STRING)

VARIABLES
  response,   \* what this server sends
  wire,       \* the part that has not arrived
  packet,     \* pdata and len: the part of a packet still to be parsed
  ctx,        \* requester_context_t: state, line buffer, code, length, chunked
  jar,        \* the cookies
  scan,       \* gui_match_state, and position and text of gs_scan_ctx
  scanned,    \* the data f_response was called with
  posted,     \* CLOSE_CONNECTION tasks in the queue
  timer,      \* timeout_timer_t is armed
  open        \* the connection is open

responseVars ==
  <<response, wire, packet, ctx, jar, scan, scanned, posted, timer, open>>

-----------------------------------------------------------------------------
(* THE SERVER                                                              *)

CRLF == <<"CR", "LF">>

HeadLines(code, cookies) ==
  <<"HTTP/1.1 ", ToString(code), " ", "OK">> \o CRLF
    \o FlattenSeq([i \in DOMAIN cookies |->
          <<"Set-Cookie: ", cookies[i][1], "=", cookies[i][2], ";", "path">> \o CRLF])

(* A body whose length is announced.                                       *)
Sized(code, cookies, body) ==
  [wire |-> HeadLines(code, cookies)
              \o <<"Content-Length: ", ToString(Len(body))>> \o CRLF \o CRLF \o body,
   code |-> code, cookies |-> cookies, chunked |-> FALSE, chunks |-> <<>>,
   body |-> body, sound |-> Len(body) < LengthSize]

(* A body in chunks.                                                       *)
Chunked(code, cookies, chunks) ==
  [wire |-> HeadLines(code, cookies)
              \o <<"Transfer-Encoding: ", "chunked">> \o CRLF \o CRLF
              \o FlattenSeq([i \in DOMAIN chunks |->
                   <<ToString(Len(chunks[i]))>> \o CRLF \o chunks[i] \o CRLF])
              \o <<"0">> \o CRLF \o CRLF,
   code |-> code, cookies |-> cookies, chunked |-> TRUE, chunks |-> chunks,
   body |-> FlattenSeq(chunks), sound |-> TRUE]

(* A response that does not follow the protocol.                           *)
Malformed(symbols) ==
  [wire |-> symbols, code |-> 0, cookies |-> <<>>, chunked |-> FALSE,
   chunks |-> <<>>, body |-> <<>>, sound |-> FALSE]

(* Numbers are written so that they can be read back.                      *)
ASSUME NumberAssumption ==
  /\ ToString(0) = "0"
  /\ \A k \in 0..MaxNumber :
       /\ ToString(k) \in STRING \ {"CR"}
       /\ \A l \in 0..MaxNumber : (ToString(k) = ToString(l) => k = l)

(* A sound response is one of the two, its numbers are in range, its       *)
(* cookies are within their lines, and only the last chunk is empty.       *)
ASSUME SoundAssumption ==
  \A r \in Responses : r.sound =>
    /\ r.code \in 0..MaxNumber
    /\ r.cookies \in Seq(STRING \X STRING)
    /\ \A i \in DOMAIN r.cookies : "CR" \notin {r.cookies[i][1], r.cookies[i][2]}
    /\ ~r.chunked => /\ r = Sized(r.code, r.cookies, r.body)
                     /\ r.body \in Seq(STRING)
                     /\ Len(r.body) <= MaxNumber
    /\ r.chunked => /\ r = Chunked(r.code, r.cookies, r.chunks)
                    /\ r.chunks \in Seq(Seq(STRING))
                    /\ \A i \in DOMAIN r.chunks : Len(r.chunks[i]) \in 1..MaxNumber

-----------------------------------------------------------------------------
ResponseInit ==
  /\ response \in Responses
  /\ wire = response.wire
  /\ packet = <<>>
  /\ ctx = [state |-> "STATUS_LINE", line |-> <<>>, code |-> 0, length |-> 0,
            chunked |-> FALSE]
  /\ jar = <<>>
  /\ scan = [match |-> 2, position |-> 0, text |-> <<>>]
  /\ scanned = <<>>
  /\ posted = 0
  /\ timer = FALSE
  /\ open = TRUE

PacketArrivesUntimed ==
  /\ open
  /\ packet = <<>>
  /\ ctx.state # "IN_ERROR"
  /\ \E n \in 1..Len(wire) :
       /\ packet' = SubSeq(wire, 1, n)
       /\ wire' = SubSeq(wire, n + 1, Len(wire))
  /\ timer' = FALSE
  /\ UNCHANGED <<response, ctx, jar, scan, scanned, posted, open>>

(* A packet arrives; the timeout starts anew.                              *)
PacketArrives ==
  /\ open
  /\ packet = <<>>
  /\ ctx.state # "IN_ERROR"
  /\ \E n \in 1..Len(wire) :
       /\ packet' = SubSeq(wire, 1, n)
       /\ wire' = SubSeq(wire, n + 1, Len(wire))
  /\ timer' = TRUE
  /\ UNCHANGED <<response, ctx, jar, scan, scanned, posted, open>>

-----------------------------------------------------------------------------
(* LINES                                                                   *)

IsNumber(text) == \E n \in 0..MaxNumber : ToString(n) = text
Number(text) == CHOOSE n \in 0..MaxNumber : ToString(n) = text

(* process_status_line.                                                    *)
IsStatusLine(line) ==
  /\ Len(line) >= 3
  /\ line[1] = "HTTP/1.1 "
  /\ IsNumber(line[2])
  /\ line[3] = " "

(* process_header_line: what it accepts, and what it stores.               *)
Headers == {"Set-Cookie: ", "Content-Length: ", "Transfer-Encoding: ", "Server: "}

IsHeaderLine(line) ==
  /\ line # <<>>
  /\ line[1] \in Headers
  /\ line[1] = "Set-Cookie: " => Contains(line, "=")
  /\ line[1] = "Content-Length: " /\ Len(line) > 1 => IsNumber(line[2])
  /\ line[1] = "Transfer-Encoding: " => Len(line) > 1 /\ line[2] = "chunked"

LengthAfter(line) ==
  IF line[1] = "Content-Length: " /\ Len(line) > 1
  THEN Number(line[2]) % LengthSize ELSE ctx.length

(* requester_cookie_add: a cookie of that name is replaced.                *)
CookieAddKeepsFirst(cookies, name, value) ==
  [n \in DOMAIN cookies \cup {name} |->
     IF n \in DOMAIN cookies THEN cookies[n] ELSE value]

CookieAdd(cookies, name, value) ==
  [n \in DOMAIN cookies \cup {name} |-> IF n = name THEN value ELSE cookies[n]]

JarAfter(line) ==
  IF line[1] = "Set-Cookie: " THEN CookieAdd(jar, line[2], line[4]) ELSE jar

-----------------------------------------------------------------------------
(* THE APPLICATION                                                         *)

(* scan_token, scan_until and login_response_cb on one byte.               *)
ScanByteKeepsPosition(s, c) ==
  CASE s.match = 0 /\ c = Token[s.position + 1] ->
         IF s.position + 1 = Len(Token)
         THEN [match |-> 1, position |-> 0, text |-> <<>>]
         ELSE [s EXCEPT !.position = @ + 1]
    [] s.match = 1 /\ c # EndChar -> [s EXCEPT !.text = Append(@, c)]
    [] s.match = 1 /\ c = EndChar -> [s EXCEPT !.match = 2]
    [] OTHER -> s

ScanByte(s, c) ==
  CASE s.match = 0 /\ c = Token[s.position + 1] ->
         IF s.position + 1 = Len(Token)
         THEN [match |-> 1, position |-> 0, text |-> <<>>]
         ELSE [s EXCEPT !.position = @ + 1]
    [] s.match = 0 /\ c # Token[s.position + 1] -> [s EXCEPT !.position = 0]
    [] s.match = 1 /\ c # EndChar -> [s EXCEPT !.text = Append(@, c)]
    [] s.match = 1 /\ c = EndChar -> [s EXCEPT !.match = 2]
    [] OTHER -> s

(* f_response.                                                             *)
Application(data) ==
  /\ scan' = FoldLeft(ScanByte, scan, data)
  /\ scanned' = scanned \o data

-----------------------------------------------------------------------------
(* THE PARSER: the cases of receivecb                                      *)

In(state) == packet # <<>> /\ ctx.state = state

(* The case takes one byte and goes on to a state.                         *)
Next(state) ==
  /\ ctx' = [ctx EXCEPT !.state = state]
  /\ packet' = Tail(packet)

Collect == /\ ctx' = [ctx EXCEPT !.line = Append(@, Head(packet))]
           /\ packet' = Tail(packet)

connectionVars == <<response, wire, timer, open>>
bodyVars == <<scan, scanned>>

StatusLine ==
  /\ In("STATUS_LINE")
  /\ \/ Head(packet) # "CR" /\ Collect
     \/ /\ Head(packet) = "CR"
        /\ packet' = Tail(packet)
        /\ ctx' = IF IsStatusLine(ctx.line)
                  THEN [ctx EXCEPT !.state = "LINE_CR", !.code = Number(ctx.line[2])]
                  ELSE [ctx EXCEPT !.state = "IN_ERROR"]
  /\ UNCHANGED <<connectionVars, bodyVars, jar, posted>>

LineCr ==
  /\ In("LINE_CR")
  /\ packet' = Tail(packet)
  /\ ctx' = IF Head(packet) = "LF"
            THEN [ctx EXCEPT !.state = "LINE_LF", !.line = <<>>]
            ELSE [ctx EXCEPT !.state = "IN_ERROR"]
  /\ UNCHANGED <<connectionVars, bodyVars, jar, posted>>

EndOfHeaders ==
  /\ In("LINE_LF")
  /\ Head(packet) = "CR"
  /\ Next("END_HEADER_CR")
  /\ UNCHANGED <<connectionVars, bodyVars, jar, posted>>

(* LINE_LF falls through to HEADER_LINE.                                   *)
HeaderLine ==
  /\ packet # <<>>
  /\ ctx.state = "HEADER_LINE" \/ (ctx.state = "LINE_LF" /\ Head(packet) # "CR")
  /\ packet' = Tail(packet)
  /\ \/ /\ Head(packet) # "CR"
        /\ ctx' = [ctx EXCEPT !.state = "HEADER_LINE", !.line = Append(@, Head(packet))]
        /\ UNCHANGED jar
     \/ /\ Head(packet) = "CR"
        /\ IsHeaderLine(ctx.line)
        /\ ctx' = [ctx EXCEPT !.state = "LINE_CR",
                              !.length = LengthAfter(ctx.line),
                              !.chunked = @ \/ ctx.line[1] = "Transfer-Encoding: "]
        /\ jar' = JarAfter(ctx.line)
     \/ /\ Head(packet) = "CR"
        /\ ~IsHeaderLine(ctx.line)
        /\ ctx' = [ctx EXCEPT !.state = "IN_ERROR"]
        /\ UNCHANGED jar
  /\ UNCHANGED <<connectionVars, bodyVars, posted>>

(* f_header is called, and starts the search if the code is 200.           *)
EndHeaderCr ==
  /\ In("END_HEADER_CR")
  /\ packet' = Tail(packet)
  /\ \/ /\ Head(packet) = "LF"
        /\ ctx' = [ctx EXCEPT !.state = IF ctx.chunked THEN "LENGTH" ELSE "IN_BODY",
                              !.line = <<>>]
        /\ scan' = IF ctx.code = 200 THEN [scan EXCEPT !.match = 0, !.position = 0]
                   ELSE scan
     \/ /\ Head(packet) # "LF"
        /\ ctx' = [ctx EXCEPT !.state = "IN_ERROR"]
        /\ UNCHANGED scan
  /\ UNCHANGED <<connectionVars, jar, scanned, posted>>

Length ==
  /\ In("LENGTH")
  /\ IF Head(packet) = "CR" THEN Next("LENGTH_CR") ELSE Collect
  /\ UNCHANGED <<connectionVars, bodyVars, jar, posted>>

(* A chunk of length 0 is the last: what follows it is not read.           *)
LengthCr ==
  /\ In("LENGTH_CR")
  /\ LET sound == Head(packet) = "LF" /\ ctx.line # <<>> /\ IsNumber(ctx.line[1])
     IN \/ /\ ~sound
           /\ Next("IN_ERROR")
           /\ UNCHANGED posted
        \/ /\ sound
           /\ Number(ctx.line[1]) # 0
           /\ ctx' = [ctx EXCEPT !.state = "IN_CHUNK", !.length = Number(ctx.line[1])]
           /\ packet' = Tail(packet)
           /\ UNCHANGED posted
        \/ /\ sound
           /\ Number(ctx.line[1]) = 0
           /\ ctx' = [ctx EXCEPT !.state = "NOOP"]
           /\ packet' = <<>>
           /\ posted' = posted + 1
  /\ UNCHANGED <<connectionVars, bodyVars, jar>>

(* The chunk ends in this packet, or goes on in the next.                  *)
InChunkKeepsLength ==
  /\ In("IN_CHUNK")
  /\ \/ /\ Len(packet) >= ctx.length
        /\ Application(SubSeq(packet, 1, ctx.length))
        /\ packet' = SubSeq(packet, ctx.length + 1, Len(packet))
        /\ ctx' = [ctx EXCEPT !.state = "CHUNK_CR", !.length = 0]
     \/ /\ Len(packet) < ctx.length
        /\ Application(packet)
        /\ packet' = <<>>
        /\ UNCHANGED ctx
  /\ UNCHANGED <<connectionVars, jar, posted>>

InChunk ==
  /\ In("IN_CHUNK")
  /\ \/ /\ Len(packet) >= ctx.length
        /\ Application(SubSeq(packet, 1, ctx.length))
        /\ packet' = SubSeq(packet, ctx.length + 1, Len(packet))
        /\ ctx' = [ctx EXCEPT !.state = "CHUNK_CR", !.length = 0]
     \/ /\ Len(packet) < ctx.length
        /\ Application(packet)
        /\ packet' = <<>>
        /\ ctx' = [ctx EXCEPT !.length = @ - Len(packet)]
  /\ UNCHANGED <<connectionVars, jar, posted>>

ChunkCr ==
  /\ In("CHUNK_CR")
  /\ Next(IF Head(packet) = "CR" THEN "CHUNK_LF" ELSE "IN_ERROR")
  /\ UNCHANGED <<connectionVars, bodyVars, jar, posted>>

ChunkLf ==
  /\ In("CHUNK_LF")
  /\ packet' = Tail(packet)
  /\ ctx' = IF Head(packet) = "LF" THEN [ctx EXCEPT !.state = "LENGTH", !.line = <<>>]
            ELSE [ctx EXCEPT !.state = "IN_ERROR"]
  /\ UNCHANGED <<connectionVars, bodyVars, jar, posted>>

(* All of the packet is handed on.                                         *)
InBody ==
  /\ In("IN_BODY")
  /\ Application(packet)
  /\ packet' = <<>>
  /\ LET length == ctx.length - Len(packet)
     IN /\ ctx' = [ctx EXCEPT !.length = length,
                              !.state = IF length <= 0 THEN "NOOP" ELSE "IN_BODY"]
        /\ posted' = IF length <= 0 THEN posted + 1 ELSE posted
  /\ UNCHANGED <<connectionVars, jar>>

InError ==
  /\ ctx.state = "IN_ERROR"
  /\ ctx' = [ctx EXCEPT !.state = "NOOP"]
  /\ packet' = <<>>
  /\ posted' = posted + 1
  /\ UNCHANGED <<connectionVars, bodyVars, jar>>

Noop ==
  /\ In("NOOP")
  /\ packet' = <<>>
  /\ UNCHANGED <<connectionVars, bodyVars, ctx, jar, posted>>

Receive ==
  StatusLine \/ LineCr \/ EndOfHeaders \/ HeaderLine \/ EndHeaderCr \/ Length
    \/ LengthCr \/ InChunk \/ ChunkCr \/ ChunkLf \/ InBody \/ InError \/ Noop

-----------------------------------------------------------------------------
(* timeout_timer, set by the last packet.                                  *)
Timeout ==
  /\ timer
  /\ packet = <<>>
  /\ timer' = FALSE
  /\ posted' = posted + 1
  /\ UNCHANGED <<response, wire, packet, ctx, jar, bodyVars, open>>

(* CLOSE_CONNECTION in requester_Task.                                     *)
CloseConnection ==
  /\ posted > 0
  /\ packet = <<>>
  /\ posted' = posted - 1
  /\ timer' = FALSE
  /\ open' = FALSE
  /\ UNCHANGED <<response, wire, packet, ctx, jar, bodyVars>>

(* The server, or the network, ends it.                                    *)
ServerCloses ==
  /\ open
  /\ packet = <<>>
  /\ open' = FALSE
  /\ UNCHANGED <<response, wire, packet, ctx, jar, bodyVars, posted, timer>>

ResponseNext ==
  PacketArrives \/ Receive \/ Timeout \/ CloseConnection \/ ServerCloses

ResponseSpec == ResponseInit /\ [][ResponseNext]_responseVars

(* The processor goes on and the SDK runs timers and tasks; the server and *)
(* the network owe nothing.                                                *)
ResponseFairSpec ==
  /\ ResponseSpec
  /\ WF_responseVars(Receive)
  /\ WF_responseVars(Timeout)
  /\ WF_responseVars(CloseConnection)

-----------------------------------------------------------------------------
(* PROPERTIES                                                              *)

(* The parser has come to an end of its own, without an error.             *)
Read == ctx.state = "NOOP" /\ response.sound

(* The application is given the body, the whole body and nothing but the   *)
(* body: without the lengths of the chunks, however the packets are cut,   *)
(* and in order; when the parser closes the connection it has had all of   *)
(* it.                                                                     *)
BodyAsFramed ==
  /\ response.sound => IsPrefix(scanned, response.body)
  /\ Read => scanned = response.body

(* Where the token is in a text, and where no earlier start of it runs     *)
(* into it, which scan_token does not see.                                 *)
Occurs(text, i) == IsPrefix(Token, SubSeq(text, i, Len(text)))

Clean(text, i) ==
  \A n \in 1..Len(Token) - 1 :
    i > n => SubSeq(text, i - n, i - 1) # SubSeq(Token, 1, n)

ValueAt(text, i) ==
  LET rest == SubSeq(text, i + Len(Token), Len(text))
      end  == SelectInSeq(rest, LAMBDA c : c = EndChar)
  IN IF end = 0 THEN rest ELSE SubSeq(rest, 1, end - 1)

(* A value that the display has found, or begun to find, follows a token   *)
(* in the body, whatever packets both were cut into; and a token in a body *)
(* that answered 200 is found.                                             *)
FindsValue ==
  ctx.code = 200 /\ scanned # <<>> =>
    /\ scan.match # 0 =>
         \E i \in DOMAIN scanned :
           Occurs(scanned, i) /\ scan.text = ValueAt(scanned, i)
    /\ (\E i \in DOMAIN scanned : Occurs(scanned, i) /\ Clean(scanned, i))
         => scan.match # 0

(* When the parser is done the jar has, for each name, the value the       *)
(* server gave it last.                                                    *)
CookiesAsSet ==
  Read => \A i \in DOMAIN response.cookies :
            (\A j \in i + 1..Len(response.cookies) :
               response.cookies[j][1] # response.cookies[i][1])
              => jar[response.cookies[i][1]] = response.cookies[i][2]

(* Once anything was received the connection is closed, whatever it was    *)
(* and wherever it stopped, so that the next request can be made.          *)
Closes == (wire # response.wire) ~> ~open
=============================================================================
