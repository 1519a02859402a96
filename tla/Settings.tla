------------------------------ MODULE Settings ------------------------------
(***************************************************************************)
(* The settings of the display (display/display.c): what clients set over  *)
(* /uconf, what the button does to the brightness, and what is left of it  *)
(* after the power was off.  The handlers of the HTTP server, the button   *)
(* timer and user_init run to completion; an interrupt or the end of the   *)
(* power may come at any point of a save or of the writing of the schema.  *)
(***************************************************************************)
EXTENDS Uconf, Button, Schema

CONSTANTS
  PARAMS_EMAIL_LEN,
  PARAMS_PIN_LEN,
  MinLen,       \* the length that an address and a pin have to exceed: 5
  KeyLen,       \* the characters of a wifi password that are kept: 31
  Requests,     \* what clients ask for: a resource, and names with values
  MaxFaults     \* bound: reads, erasures and writes that fail, saves cut off

VARIABLES
  params,    \* gs_params
  flash,     \* the sector it is saved in
  station,   \* gs_station_conf, when the last step has set it
  stage,     \* "OFF", "IDLE", or how far save_params has come
  asked,     \* the call being served, or confirmed by the last step
  answer,    \* its response code, 0 before it is sent
  promised,  \* what clients were told is set and must survive, with its values
  unsaved,   \* the last save failed
  faults     \* reads, erasures and writes that failed, saves that were cut off

settingsVars == <<buttonVars, params, flash, station, stage, asked, answer,
                  promised, unsaved, faults, schemaVars>>

-----------------------------------------------------------------------------
(* user_init registers variables, actions and handlers.                    *)
UconfVariables ==
  LET readers == FoldLeft(LAMBDA list, e : RegisterRead(list, e[1], e[2]), <<>>,
        << <<<<"brightness">>, "UINT8">>, <<<<"email">>, "STRING">>,
           <<<<"pin">>, "STRING">>, <<<<"active">>, "INT">> >>)
  IN FoldLeft(LAMBDA list, e : RegisterWrite(list, e[1], e[2], e[3], e[4]), readers,
        << <<<<"brightness">>, "UINT8", TRUE, TRUE>>,
           <<<<"email">>, "STRING", TRUE, FALSE>>,
           <<<<"pin">>, "STRING", TRUE, FALSE>>,
           <<<<"active">>, "INT", FALSE, TRUE>> >>)

WifiParams == <<[name |-> <<"ssid">>, type |-> "STRING"],
                [name |-> <<"password">>, type |-> "STRING"]>>

UconfActions ==
  RegisterAction(RegisterAction(<<>>, <<"setwifi">>, WifiParams),
                 <<"savebrightness">>, <<>>)

SchemaHandler == <<"/", "uconf", "/", "schema">>
GetHandler == <<"/", "uconf", "/", "get">>
SetHandler == <<"/", "uconf", "/", "set">>
InvokeHandler == <<"/", "uconf", "/", "invoke">>
FailHandler == <<"/", "favicon.ico">>
InfoHandler == <<"/", "info">>
RootHandler == <<"/">>

Handlers ==
  FoldLeft(RegisterHandler, <<>>,
    <<SchemaHandler, GetHandler, SetHandler, InvokeHandler, FailHandler,
      InfoHandler, RootHandler>>)

(* The lengths schema_handler adds up.                                     *)
Characters == [brightness |-> 10, email |-> 5, pin |-> 3, active |-> 6,
               setwifi |-> 7, savebrightness |-> 14, ssid |-> 4, password |-> 8,
               UINT8 |-> 5, INT |-> 3, STRING |-> 6]

TrueOrFalse(b) == IF b THEN 4 ELSE 5

VariableEntry(v) ==
  [name |-> Characters[v.name[1]], type |-> Characters[v.type],
   read |-> TrueOrFalse(v.reader), write |-> TrueOrFalse(v.writer /\ v.remoteWrite)]

ActionEntry(a) ==
  [name |-> Characters[a.name[1]], count |-> Len(a.args),
   args |-> FoldLeft(LAMBDA n, p : n + Characters[p.name[1]] + Characters[p.type],
                     0, a.args)]

VariableEntries == [i \in DOMAIN UconfVariables |-> VariableEntry(UconfVariables[i])]
ActionEntries == [i \in DOMAIN UconfActions |-> ActionEntry(UconfActions[i])]

ASSUME SettingsAssumption ==
  /\ Variables = VariableEntries
  /\ Actions = ActionEntries

-----------------------------------------------------------------------------
(* A client escapes what means something in a request line.                *)
Encode(value) ==
  FlattenSeq([i \in DOMAIN value |->
    IF \E e \in DOMAIN Escaped : Escaped[e] = value[i]
    THEN <<"%">> \o Escapes[CHOOSE e \in DOMAIN Escaped : Escaped[e] = value[i]]
    ELSE <<value[i]>>])

(* The part of a request line after the "?", and what the server makes of  *)
(* it: as many parameters as there is memory for.                          *)
WrittenQuery(request) ==
  FlattenSeq([i \in DOMAIN request.fields |->
    (IF i = 1 THEN <<>> ELSE <<"&">>)
      \o request.fields[i].name \o <<"=">> \o Encode(request.fields[i].value)])

QueriesOf(request) ==
  LET all == Parameters(WrittenQuery(request))
  IN {SubSeq(all, 1, n) : n \in 0..Len(all)}

-----------------------------------------------------------------------------
(* What a request ends in: a function of display.c and its arguments, or   *)
(* an answer, with its code.                                               *)

(* set_handler.                                                            *)
SetCall(query) ==
  LET var == Named(UconfVariables, query, <<"var">>)
      val == Lookup(query, <<"val">>)
  IN IF ~Settable(UconfVariables, query) THEN <<"answer", 404>>
     ELSE IF ~Parses(var.type, val) THEN <<"answer", 400>>
     ELSE <<var.name[1], Parsed(var.type, val)>>

(* invoke_handler.                                                         *)
InvokeCall(query) ==
  LET action == Named(UconfActions, query, <<"method">>)
  IN IF ~Names(UconfActions, query, <<"method">>) THEN <<"answer", 404>>
     ELSE IF ~ArgsGiven(action, query) THEN <<"answer", 400>>
     ELSE <<action.name[1], Args(action, query)>>

(* get_handler.                                                            *)
GetCall(query) ==
  <<"answer", IF Gettable(UconfVariables, query) THEN 200 ELSE 404>>

Call(request, query) ==
  LET handler == HandlerFor(Handlers, request.resource)
  IN CASE handler = SetHandler -> SetCall(query)
       [] handler = InvokeHandler -> InvokeCall(query)
       [] handler = GetHandler -> GetCall(query)
       [] handler = SchemaHandler -> <<"schema", query>>
       [] handler = FailHandler -> <<"answer", 404>>
       [] handler \in {InfoHandler, RootHandler} -> <<"answer", 200>>

Calls ==
  UNION {{[request |-> r, call |-> Call(r, query)] : query \in QueriesOf(r)}
           : r \in Requests}

-----------------------------------------------------------------------------
(* flash_params_t: as an erased sector has it, as memset leaves it when it *)
(* cannot be read, and as user_init fills it in.                           *)
Blank == [magic |-> "BLANK", email |-> <<"erased">>, pin |-> <<"erased">>,
          brightness |-> ByteSize - 1]
Zero == [magic |-> "ZERO", email |-> <<>>, pin |-> <<>>, brightness |-> 0]
Defaults == [magic |-> "GOOD", email |-> <<"you", "@", "company.com">>,
             pin |-> <<"12345678">>, brightness |-> 128]

NoRequest == [resource |-> <<>>, fields |-> <<>>]
NoCall == [request |-> NoRequest, call |-> <<"answer", 0>>]
NoStation == [ssid |-> <<>>, password |-> <<>>]

ASSUME RequestsAssumption == NoRequest \notin Requests

SettingsInit ==
  /\ ButtonInit
  /\ params = Zero
  /\ flash = Blank
  /\ station = NoStation
  /\ stage = "OFF"
  /\ asked = NoCall
  /\ answer = 0
  /\ promised = <<>>
  /\ unsaved = FALSE
  /\ faults = 0
  /\ SchemaInit

savedVars == <<params, flash, stage, promised, unsaved, faults>>
pressVars == <<interrupts, hyst, count, buttonTimer, due, bouncing, newPress,
               inRow, late>>

(* A handler or a save runs; only an interrupt can come in between.        *)
Busy == stage \in {"ERASE", "WRITE"} \/ part # "IDLE"

(* A call and what it did to the station are remembered until the step     *)
(* after its answer; what becomes of the station is in module Link.        *)
Forget ==
  /\ station' = NoStation
  /\ asked' = IF Busy THEN asked ELSE NoCall
  /\ answer' = IF Busy THEN answer ELSE 0

-----------------------------------------------------------------------------
(* save_params has been called; it erases, then writes.                    *)
SaveParams == stage' = "ERASE"

(* What spi_flash_erase_sector returns is not looked at.                   *)
Erase ==
  /\ stage = "ERASE"
  /\ \/ flash' = Blank /\ UNCHANGED faults
     \/ /\ faults < MaxFaults
        /\ faults' = faults + 1
        /\ UNCHANGED flash
  /\ stage' = "WRITE"
  /\ Forget
  /\ UNCHANGED <<buttonVars, params, promised, unsaved, schemaVars>>

(* A write can only clear bits: over what was not erased it leaves the     *)
(* bits that are set in both.                                              *)
BothText(old, new) ==
  CASE old \in {new, Blank.email} -> new
    [] old # new /\ <<>> \in {old, new} -> <<>>
    [] OTHER -> <<"garbled">>

BothByte(old, new) ==
  LET Bits(n) == {i \in 0..7 : (n \div 2^i) % 2 = 1}
  IN MapThenSumSet(LAMBDA i : 2^i, Bits(old) \cap Bits(new))

Written ==
  IF flash = Blank THEN params
  ELSE [magic |-> IF flash.magic \in {params.magic, "BLANK"} THEN params.magic
                  ELSE "ZERO",
        email |-> BothText(flash.email, params.email),
        pin |-> BothText(flash.pin, params.pin),
        brightness |-> BothByte(flash.brightness, params.brightness)]

(* What the answer "ok" says will be found at the next boot.               *)
Promise(call) ==
  CASE call[1] = "email" -> [email |-> call[2]]
    [] call[1] = "pin" -> [pin |-> call[2]]
    [] call[1] = "savebrightness" -> [brightness |-> brightness]
    [] OTHER -> <<>>

(* What is promised with it; a new promise takes the place of an old one.  *)
With(new) ==
  [f \in DOMAIN new \cup DOMAIN promised |->
     IF f \in DOMAIN new THEN new[f] ELSE promised[f]]

(* What a write that is cut off leaves: a prefix of the structure.         *)
Torn ==
  {flash,
   [flash EXCEPT !.magic = Written.magic],
   [flash EXCEPT !.magic = Written.magic, !.email = Written.email],
   [Written EXCEPT !.brightness = flash.brightness]}

(* The handler goes on and answers, user_init goes on and enables the      *)
(* button, whether or not the write succeeded.                             *)
Saved ==
  /\ stage' = "IDLE"
  /\ IF asked = NoCall
     THEN /\ brightness' = params.brightness
          /\ interrupts' = TRUE
          /\ answer' = 0
     ELSE /\ answer' = 200
          /\ UNCHANGED <<brightness, interrupts>>
  /\ UNCHANGED <<hyst, count, buttonTimer, due, bouncing, newPress, inRow, late,
                 params, station, asked, schemaVars>>

(* After a boot that could not read the flash the magic number is not the  *)
(* one that the next boot looks for.                                       *)
WriteSucceeds ==
  /\ stage = "WRITE"
  /\ flash' = Written
  /\ unsaved' = (flash # Blank)
  /\ promised' = IF flash = Blank /\ params.magic = "GOOD"
                 THEN With(Promise(asked.call))
                 ELSE <<>>
  /\ UNCHANGED faults
  /\ Saved

WriteFails ==
  /\ stage = "WRITE"
  /\ flash' \in Torn
  /\ faults < MaxFaults
  /\ faults' = faults + 1
  /\ unsaved' = TRUE
  /\ promised' = <<>>
  /\ Saved

-----------------------------------------------------------------------------
(* user_init.                                                              *)
PowerOnTakesDefaults ==
  /\ stage = "OFF"
  /\ params' = Defaults
  /\ SaveParams
  /\ UNCHANGED <<buttonVars, flash, station, asked, answer, promised, unsaved, faults,
                 schemaVars>>

PowerOn ==
  /\ stage = "OFF"
  /\ \/ /\ flash.magic = "GOOD"
        /\ params' = flash
        /\ brightness' = flash.brightness
        /\ stage' = "IDLE"
        /\ interrupts' = TRUE
     \/ /\ flash.magic # "GOOD"
        /\ params' = Defaults
        /\ SaveParams
        /\ UNCHANGED <<brightness, interrupts>>
  /\ UNCHANGED <<hyst, count, buttonTimer, due, bouncing, newPress, inRow, late,
                 flash, station, asked, answer, promised, unsaved, faults, schemaVars>>

(* user_init, when spi_flash_read fails: what was saved is not seen, and   *)
(* the next save replaces it.                                              *)
PowerOnBlind ==
  /\ stage = "OFF"
  /\ faults < MaxFaults
  /\ faults' = faults + 1
  /\ params' = Zero
  /\ stage' = "IDLE"
  /\ interrupts' = TRUE
  /\ UNCHANGED <<hyst, count, buttonTimer, due, brightness, bouncing, newPress,
                 inRow, late, flash, station, asked, answer, promised, unsaved,
                 schemaVars>>

(* The power goes at any time.  Cut off while it saves, the display may    *)
(* lose every setting.                                                     *)
PowerOff ==
  /\ stage # "OFF"
  /\ stage' = "OFF"
  /\ \/ stage \in {"IDLE", "ERASE"} /\ UNCHANGED <<flash, promised, faults>>
     \/ /\ stage \in {"ERASE", "WRITE"}
        /\ faults < MaxFaults
        /\ faults' = faults + 1
        /\ flash' \in IF stage = "WRITE" THEN Torn ELSE {Blank}
        /\ promised' = <<>>
  /\ ButtonOff
  /\ params' = Zero
  /\ station' = NoStation
  /\ asked' = NoCall
  /\ answer' = 0
  /\ unsaved' = FALSE
  /\ part' = "IDLE"
  /\ next' = 1
  /\ written' = 0
  /\ UNCHANGED room

-----------------------------------------------------------------------------
(* A handler that has answered and changed nothing.                        *)
Answer(code) ==
  /\ answer' = code
  /\ UNCHANGED <<buttonVars, savedVars, schemaVars>>

(* set_email and set_pin accept the value.                                 *)
EmailAccepted(email) ==
  /\ Len(email) > MinLen
  /\ Len(email) < PARAMS_EMAIL_LEN
  /\ Contains(email, "@")

PinAccepted(pin) == Len(pin) > MinLen /\ Len(pin) < PARAMS_PIN_LEN

(* set_brightness, set_email and set_pin, called by uconf_set_data.        *)
SetBrightness(value) ==
  /\ brightness' = value
  /\ answer' = 200
  /\ UNCHANGED <<pressVars, savedVars, schemaVars>>

SetEmail(value) ==
  \/ /\ EmailAccepted(value)
     /\ params' = [params EXCEPT !.email = value]
     /\ SaveParams
     /\ answer' = 0
     /\ UNCHANGED <<buttonVars, flash, promised, unsaved, faults, schemaVars>>
  \/ ~EmailAccepted(value) /\ Answer(400)

SetPinNotSaved(value) ==
  \/ /\ PinAccepted(value)
     /\ params' = [params EXCEPT !.pin = value]
     /\ promised' = IF params.magic = "GOOD" THEN With([pin |-> value])
                    ELSE promised
     /\ answer' = 200
     /\ UNCHANGED <<buttonVars, flash, stage, unsaved, faults, schemaVars>>
  \/ ~PinAccepted(value) /\ Answer(400)

SetPin(value) ==
  \/ /\ PinAccepted(value)
     /\ params' = [params EXCEPT !.pin = value]
     /\ SaveParams
     /\ answer' = 0
     /\ UNCHANGED <<buttonVars, flash, promised, unsaved, faults, schemaVars>>
  \/ ~PinAccepted(value) /\ Answer(400)

(* connect_station, called by setwifi_action.                              *)
StationConf(args) ==
  [ssid |-> args[1],
   password |-> SubSeq(args[2], 1, IF Len(args[2]) > KeyLen THEN KeyLen ELSE Len(args[2]))]

SaveBrightness ==
  \/ /\ params.brightness # brightness
     /\ params' = [params EXCEPT !.brightness = brightness]
     /\ SaveParams
     /\ answer' = 0
     /\ UNCHANGED <<buttonVars, flash, promised, unsaved, faults, schemaVars>>
  \/ /\ params.brightness = brightness
     /\ promised' = IF unsaved \/ params.magic # "GOOD" THEN promised
                    ELSE With([brightness |-> brightness])
     /\ answer' = 200
     /\ UNCHANGED <<buttonVars, params, flash, stage, unsaved, faults, schemaVars>>

(* schema_handler has its buffer, or is given none.                        *)
ServeSchema ==
  \/ /\ SchemaStart
     /\ answer' = 0
     /\ UNCHANGED <<buttonVars, savedVars>>
  \/ Answer(404)

(* receivecb, with a whole request line.                                   *)
Serve(c) ==
  /\ stage = "IDLE"
  /\ ~Busy
  /\ LET name == c.call[1]
         argument == c.call[2]
     IN /\ station' = IF name = "setwifi" THEN StationConf(argument) ELSE NoStation
        /\ \/ name = "answer" /\ Answer(argument)
           \/ name = "brightness" /\ SetBrightness(argument)
           \/ name = "email" /\ SetEmail(argument)
           \/ name = "pin" /\ SetPin(argument)
           \/ name = "active" /\ Answer(200)
           \/ name = "setwifi" /\ Answer(200)
           \/ name = "savebrightness" /\ SaveBrightness
           \/ name = "schema" /\ ServeSchema
  /\ asked' = IF answer' \in {0, 200} THEN c ELSE NoCall

(* schema_handler goes on, up to its answer.                               *)
WriteSchema ==
  /\ SchemaStep \/ SchemaDone
  /\ asked' = IF part' = "IDLE" THEN NoRequest ELSE asked
  /\ answer' = CASE part' = "SENT" -> 200
                 [] part' = "REFUSED" -> 404
                 [] OTHER -> 0
  /\ UNCHANGED <<buttonVars, savedVars, station>>

-----------------------------------------------------------------------------
(* The button, of which the timer's callback waits for a handler to end.   *)
ButtonInterrupts ==
  /\ Press \/ Bounce \/ Settle \/ Expire
  /\ Forget
  /\ UNCHANGED <<savedVars, schemaVars>>

ButtonCounts ==
  /\ ~Busy
  /\ ButtonTimer
  /\ Forget
  /\ UNCHANGED <<savedVars, schemaVars>>

SettingsNext ==
  \/ PowerOn \/ PowerOnBlind \/ PowerOff
  \/ Erase \/ WriteSucceeds \/ WriteFails
  \/ \E c \in Calls : Serve(c)
  \/ WriteSchema
  \/ ButtonInterrupts \/ ButtonCounts

SettingsSpec == SettingsInit /\ [][SettingsNext]_settingsVars

-----------------------------------------------------------------------------
(* PROPERTIES                                                              *)

(* The request is within the sizes of the server and of what it sets.      *)
Plain(request) ==
  /\ \A i \in DOMAIN request.fields :
       /\ Len(Encode(request.fields[i].value)) < SizeLimit
       /\ request.fields[i].value \in DOMAIN Numbers
            => Numbers[request.fields[i].value] < ByteSize
       /\ request.fields[i].name = <<"password">>
            => Len(request.fields[i].value) <= KeyLen

Value(request, name) ==
  request.fields[SelectInSeq(request.fields, LAMBDA f : f.name = name)].value

Sets(request, name) ==
  request.resource = SetHandler /\ Value(request, <<"var">>) = <<name>>

Invokes(request, name) ==
  request.resource = InvokeHandler /\ Value(request, <<"method">>) = <<name>>

(* What the client of a request wants to be so.                            *)
IsSo(request) ==
  /\ Sets(request, "email") => params.email = Value(request, <<"val">>)
  /\ Sets(request, "pin") => params.pin = Value(request, <<"val">>)
  /\ Sets(request, "brightness") => brightness = Numbers[Value(request, <<"val">>)]
  /\ Sets(request, "active") => FALSE
  /\ Invokes(request, "savebrightness") => params.brightness = brightness
  /\ Invokes(request, "setwifi") =>
       station = [ssid |-> Value(request, <<"ssid">>),
                  password |-> Value(request, <<"password">>)]

Confirmed == answer = 200 /\ Plain(asked.request) => IsSo(asked.request)

(* A client that is told "ok" has what it asked for, character by          *)
(* character, after the request line was cut into parameters, decoded and  *)
(* parsed; a setting changes only for a client that asked for that, with   *)
(* the button, or at boot.                                                 *)
ChangedAsAsked ==
  [][/\ Confirmed'
     /\ stage # "OFF" /\ stage' # "OFF" =>
          /\ params'.email # params.email => Sets(asked'.request, "email")
          /\ params'.pin # params.pin => Sets(asked'.request, "pin")
          /\ station' # NoStation => Invokes(asked'.request, "setwifi")
          /\ brightness' # brightness =>
               \/ Sets(asked'.request, "brightness")
               \/ asked = NoCall /\ stage = "WRITE"
               \/ count' # count /\ (late \/ brightness' = BrightnessFor(Counted'))
    ]_settingsVars

(* What a client was told is set is what the flash holds, and what the     *)
(* next boot and every later one gives back, value by value, whatever is   *)
(* saved besides and however often the power goes.  Excluded is what was   *)
(* promised before a save that failed, was cut off after its erasure had   *)
(* begun, or came after a boot that could not read the flash; and such a   *)
(* boot itself, which does not see what is kept.                           *)
SettingsSurvive ==
  \A f \in DOMAIN promised :
    /\ stage \in {"OFF", "IDLE"} => flash.magic = "GOOD" /\ flash[f] = promised[f]
    /\ stage = "IDLE" /\ params.magic = "GOOD" => params[f] = promised[f]

(* Interrupts are disabled only for a while: the button of a display that  *)
(* is on and done with user_init never goes dead, whatever interrupts,     *)
(* saves and power cuts come together.                                     *)
NeverDeaf ==
  \/ stage = "OFF"
  \/ stage \in {"ERASE", "WRITE"} /\ asked = NoCall
  \/ WakesUp
=============================================================================
