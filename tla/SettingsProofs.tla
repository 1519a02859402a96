--------------------------- MODULE SettingsProofs ---------------------------
(***************************************************************************)
(* The schema fits its buffer, for every build and every registry; and     *)
(* what TLC checks of the button and of the settings on a small instance,  *)
(* proved for any requests, any number of presses and of faults.           *)
(***************************************************************************)
EXTENDS Settings, SequenceTheorems, TLAPS

-----------------------------------------------------------------------------
(* THE SCHEMA                                                              *)

(* What a variable adds is at most its name and 48 characters.             *)
LEMMA VariableTextBound ==
  ASSUME NEW i \in 1..Len(Variables)
  PROVE  /\ VariableText(Variables[i]) \in Nat
         /\ VariableText(Variables[i]) <= Variables[i].name + 48
         /\ Variables[i].name \in Nat
<1>1. Variables[i] \in VariableLengths
  BY SchemaAssumption, ElementOfSeq
<1>2. Comma \in 0..1
  BY DEF Comma
<1> DEFINE n == Variables[i].name
           t == Variables[i].type
           r == Variables[i].read
           w == Variables[i].write
<1>3. n \in Nat /\ t \in 0..6 /\ r \in 4..5 /\ w \in 4..5
  BY <1>1 DEF VariableLengths
<1>4. VariableText(Variables[i]) = Comma + 31 + n + r + w + t
  BY DEF VariableText
<1> HIDE DEF n, t, r, w
<1>5. /\ VariableText(Variables[i]) \in Nat
      /\ VariableText(Variables[i]) <= n + 48
      /\ n \in Nat
  BY <1>2, <1>3, <1>4
<1> QED BY <1>5 DEF n

(* What an action adds is at least three characters less than what its     *)
(* check asks for.                                                         *)
LEMMA ActionTextBound ==
  ASSUME NEW i \in 1..Len(Actions)
  PROVE  /\ ActionText(Actions[i]) \in Nat
         /\ ActionNeeds(Actions[i]) \in Nat
         /\ ActionText(Actions[i]) + 3 <= ActionNeeds(Actions[i])
<1>1. Actions[i] \in ActionLengths
  BY SchemaAssumption, ElementOfSeq
<1>2. Comma \in 0..1
  BY DEF Comma
<1> DEFINE n == Actions[i].name
           c == Actions[i].count
           a == Actions[i].args
<1>3. n \in Nat /\ c \in Nat /\ a \in Nat
  BY <1>1 DEF ActionLengths
<1>4. ActionText(Actions[i]) = Comma + 5 + n + a + 5 * c + (IF c = 0 THEN 0 ELSE c - 1)
  BY DEF ActionText
<1>5. ActionNeeds(Actions[i]) = n + 9 + 6 * c + a
  BY DEF ActionNeeds
<1> HIDE DEF n, c, a
<1> QED BY <1>2, <1>3, <1>4, <1>5

(* The handler starts with nothing written.                                *)
LEMMA SchemaInitInv == SchemaInit => SchemaInv
<1> SUFFICES ASSUME SchemaInit
             PROVE  SchemaInv
  OBVIOUS
<1>1. room \in Nat /\ room >= 24
  BY SchemaAssumption DEF SchemaInit
<1> QED BY <1>1 DEF SchemaInit, SchemaInv, SchemaTypeOK, Parts, SchemaFits

(* No step of it uses up what has to follow.                               *)
LEMMA SchemaStepInv == SchemaInv /\ [SchemaNext]_schemaVars => SchemaInv'
<1> SUFFICES ASSUME SchemaInv, [SchemaNext]_schemaVars
             PROVE  SchemaInv'
  OBVIOUS
<1> USE DEF SchemaInv, SchemaTypeOK, Parts, SchemaFits
<1>0. room \in Nat /\ room >= 24
  BY SchemaAssumption
<1>1. CASE SchemaStart
  BY <1>0, <1>1 DEF SchemaStart
<1>2. CASE SchemaVariable
  <2>1. next \in 1..Len(Variables)
    BY <1>2 DEF SchemaVariable
  <2>2. written' = written + VariableText(Variables[next])
    BY <1>2 DEF SchemaVariable
  <2>3. written + Variables[next].name + 63 <= room
    BY <1>2 DEF SchemaVariable, VariableFits
  <2>4. /\ VariableText(Variables[next]) \in Nat
        /\ VariableText(Variables[next]) <= Variables[next].name + 48
        /\ Variables[next].name \in Nat
    BY <2>1, VariableTextBound
  <2>5. written' \in Nat /\ written' + 15 <= room
    BY <1>0, <2>2, <2>3, <2>4
  <2> QED BY <1>0, <1>2, <2>5 DEF SchemaVariable
<1>3. CASE SchemaActions
  BY <1>0, <1>3 DEF SchemaActions
<1>4. CASE SchemaAction
  <2>1. next \in 1..Len(Actions)
    BY <1>4 DEF SchemaAction
  <2>2. written' = written + ActionText(Actions[next])
    BY <1>4 DEF SchemaAction
  <2>3. written + ActionNeeds(Actions[next]) <= room
    BY <1>4 DEF SchemaAction, ActionFits
  <2>4. /\ ActionText(Actions[next]) \in Nat
        /\ ActionNeeds(Actions[next]) \in Nat
        /\ ActionText(Actions[next]) + 3 <= ActionNeeds(Actions[next])
    BY <2>1, ActionTextBound
  <2>5. written' \in Nat /\ written' + 3 <= room
    BY <1>0, <2>2, <2>3, <2>4
  <2> QED BY <1>0, <1>4, <2>5 DEF SchemaAction
<1>5. CASE SchemaEnd
  BY <1>0, <1>5 DEF SchemaEnd
<1>6. CASE SchemaRefuse
  BY <1>0, <1>6 DEF SchemaRefuse
<1>7. CASE SchemaDone
  BY <1>0, <1>7 DEF SchemaDone
<1>8. CASE UNCHANGED schemaVars
  BY <1>0, <1>8 DEF schemaVars
<1> QED BY <1>1, <1>2, <1>3, <1>4, <1>5, <1>6, <1>7, <1>8
           DEF SchemaNext, SchemaStep

(* The room left in each part of the schema is an invariant.               *)
THEOREM SchemaInvariant == SchemaSpec => []SchemaInv
  BY SchemaInitInv, SchemaStepInv, PTL DEF SchemaSpec

(* No write of the schema handler goes past the end of its buffer.         *)
THEOREM SchemaFitsHolds == SchemaSpec => []SchemaFits
<1>1. SchemaInv => SchemaFits
  BY DEF SchemaInv
<1> QED BY <1>1, SchemaInvariant, PTL

-----------------------------------------------------------------------------
(* THE BUTTON                                                              *)

(* SMT takes a variable for a value it knows nothing of: it has to be told *)
(* that TRUE and FALSE, assigned, are Booleans.                            *)
LEMMA BooleanValues == \A x : x = TRUE \/ x = FALSE => x \in BOOLEAN
  OBVIOUS

ButtonTypeOK ==
  /\ interrupts \in BOOLEAN
  /\ hyst \in BOOLEAN
  /\ count \in Nat
  /\ buttonTimer \in {0, 150, 250}
  /\ due \in BOOLEAN
  /\ bouncing \in BOOLEAN
  /\ newPress \in BOOLEAN
  /\ inRow \in Nat
  /\ late \in BOOLEAN

(* What hyst says of the press that set it.  While the contact bounces no  *)
(* edge interrupts, unless a callback that was late has enabled that, and  *)
(* the timer is not due before the contact has settled, with the same      *)
(* exception.                                                              *)
Debounces ==
  /\ hyst => ~interrupts
  /\ newPress => hyst
  /\ due /\ bouncing => hyst /\ late
  /\ ~late /\ hyst => newPress
  /\ ~late /\ bouncing => ~interrupts

ButtonInv == ButtonTypeOK /\ Debounces /\ PressesCounted

(* Each edge, each expiry and the callback keep count.                     *)
LEMMA ButtonStep ==
  ASSUME ButtonInv, Press \/ Bounce \/ Settle \/ Expire \/ ButtonTimer
  PROVE  ButtonInv'
<1> USE BooleanValues
    DEF ButtonInv, ButtonTypeOK, Debounces, PressesCounted, Counted
<1>1. CASE Press
  BY <1>1 DEF Press, GpioIsr
<1>2. CASE Bounce
  BY <1>2 DEF Bounce, GpioIsr
<1>3. CASE Settle
  BY <1>3 DEF Settle
<1>4. CASE Expire
  BY <1>4 DEF Expire
<1>5. CASE ButtonTimer
  <2>1. CASE CountPress
    BY <1>5, <2>1 DEF ButtonTimer, CountPress
  <2>2. CASE EndRow
    BY <1>5, <2>2 DEF ButtonTimer, EndRow
  <2> QED
    BY <1>5, <2>1, <2>2 DEF ButtonTimer
<1> QED
  BY <1>1, <1>2, <1>3, <1>4, <1>5

(* Only hyst and the delay that was armed with it keep the interrupts off. *)
LEMMA ButtonWakes ==
  ASSUME ButtonInv, WakesUp, Press \/ Bounce \/ Settle \/ Expire \/ ButtonTimer
  PROVE  WakesUp'
<1>1. CASE Press \/ Bounce
  BY <1>1 DEF Press, Bounce, GpioIsr, WakesUp
<1>2. CASE Settle
  BY <1>2 DEF Settle, WakesUp
<1>3. CASE Expire
  BY <1>3 DEF Expire, WakesUp
<1>4. CASE ButtonTimer
  BY <1>4 DEF ButtonTimer, CountPress, EndRow, WakesUp
<1> QED
  BY <1>1, <1>2, <1>3, <1>4

-----------------------------------------------------------------------------
(* THE SETTINGS                                                            *)

(* Until user_init is done nothing of the button has begun.                *)
Booting == stage = "OFF" \/ (stage \in {"ERASE", "WRITE"} /\ asked = NoCall)

ButtonIsOff ==
  /\ ~interrupts
  /\ ~hyst
  /\ count = 0
  /\ buttonTimer = 0
  /\ ~due
  /\ ~bouncing
  /\ ~newPress
  /\ inRow = 0
  /\ ~late

OffUntilBooted == Booting => ButtonIsOff

(* One request at a time: none is being served when the display is off, and *)
(* none saves while another's schema is written.                           *)
OneRequest ==
  /\ stage \in {"OFF", "IDLE", "ERASE", "WRITE"}
  /\ stage = "OFF" => asked = NoCall
  /\ part # "IDLE" => stage = "IDLE"

(* A structure as flash_params_t.                                          *)
IsParams(p) ==
  p = [magic |-> p.magic, email |-> p.email, pin |-> p.pin, brightness |-> p.brightness]

(* It holds what was promised.                                             *)
Holds(p, promises) ==
  /\ DOMAIN promises \subseteq {"email", "pin", "brightness"}
  /\ \A f \in DOMAIN promises : p[f] = promises[f]

(* The flash holds it until an erasure begins, the RAM of a display that   *)
(* has read the flash does, and what is about to be saved holds what the   *)
(* answer to its request will add.                                         *)
FlashKeeps ==
  /\ IsParams(params)
  /\ IsParams(flash)
  /\ stage \in {"OFF", "IDLE", "ERASE"} => Holds(flash, promised)
  /\ stage \in {"OFF", "IDLE", "ERASE"} /\ DOMAIN promised # {} => flash.magic = "GOOD"
  /\ stage = "IDLE" /\ params.magic = "GOOD" => Holds(params, promised)
  /\ stage \in {"ERASE", "WRITE"} /\ params.magic = "GOOD"
       => Holds(params, With(Promise(asked.call)))
  /\ stage = "IDLE" /\ params.magic = "GOOD" /\ ~unsaved => flash = params

SettingsInv ==
  /\ ButtonInv
  /\ OneRequest
  /\ OffUntilBooted
  /\ NeverDeaf
  /\ FlashKeeps
  /\ SchemaInv

(* What was promised last comes before what was promised earlier.          *)
LEMMA Merged ==
  ASSUME NEW p, NEW f, Holds(p, f),
         \A x \in DOMAIN promised \ DOMAIN f : p[x] = promised[x],
         DOMAIN promised \subseteq {"email", "pin", "brightness"}
  PROVE  Holds(p, With(f))
BY DEF With, Holds

(* Nothing was promised.                                                   *)
LEMMA NoPromise == DOMAIN <<>> = {} /\ \A p : Holds(p, <<>>)
BY DEF Holds

(* Setting one field leaves the others.                                    *)
LEMMA SetFields ==
  ASSUME NEW p, IsParams(p), NEW v
  PROVE  /\ IsParams([p EXCEPT !.magic = v])
         /\ IsParams([p EXCEPT !.email = v])
         /\ IsParams([p EXCEPT !.pin = v])
         /\ IsParams([p EXCEPT !.brightness = v])
<1>1. PICK m, e, n, b : p = [magic |-> m, email |-> e, pin |-> n, brightness |-> b]
  BY DEF IsParams
<1>2. /\ [p EXCEPT !.magic = v] = [magic |-> v, email |-> e, pin |-> n, brightness |-> b]
      /\ [p EXCEPT !.email = v] = [magic |-> m, email |-> v, pin |-> n, brightness |-> b]
      /\ [p EXCEPT !.pin = v] = [magic |-> m, email |-> e, pin |-> v, brightness |-> b]
      /\ [p EXCEPT !.brightness = v] = [magic |-> m, email |-> e, pin |-> n, brightness |-> v]
  BY <1>1
<1> QED
  BY <1>2 DEF IsParams

(* What a handler may do apart from its answer: nothing but save one       *)
(* setting and promise that, start to write the schema, or promise what    *)
(* the flash holds already.                                                *)
SavesField(f, v) ==
  /\ SaveParams
  /\ params' = [params EXCEPT ![f] = v]
  /\ Promise(asked.call)' = [x \in {f} |-> v]
  /\ asked' \in Calls
  /\ UNCHANGED <<flash, promised, unsaved, schemaVars>>

HandlerDoes ==
  /\ UNCHANGED pressVars
  /\ \/ UNCHANGED <<params, flash, stage, promised, unsaved, schemaVars>>
     \/ \E f \in {"email", "pin", "brightness"} : \E v : SavesField(f, v)
     \/ SchemaStart /\ UNCHANGED <<params, flash, stage, promised, unsaved>>
     \/ /\ params.magic = "GOOD"
        /\ ~unsaved
        /\ promised' = With([brightness |-> params.brightness])
        /\ UNCHANGED <<params, flash, stage, unsaved, schemaVars>>

LEMMA ServeDoes ==
  ASSUME NEW c \in Calls, Serve(c)
  PROVE  HandlerDoes
<1> DEFINE argument == c.call[2]
<1>1. \/ \E code : Answer(code)
      \/ SetBrightness(argument)
      \/ c.call[1] = "email" /\ SetEmail(argument)
      \/ c.call[1] = "pin" /\ SetPin(argument)
      \/ c.call[1] = "savebrightness" /\ SaveBrightness
      \/ ServeSchema
  BY Zenon DEF Serve
<1>2. ASSUME NEW code, Answer(code)
      PROVE  HandlerDoes
  BY <1>2 DEF Answer, HandlerDoes, buttonVars, pressVars, savedVars
<1>3. CASE SetBrightness(argument)
  BY <1>3 DEF SetBrightness, HandlerDoes, savedVars
<1>4. answer' = 0 => asked' = c
  BY DEF Serve
<1>5. CASE c.call[1] = "email" /\ SetEmail(argument)
  <2>1. CASE ~EmailAccepted(argument)
    BY <1>2, <1>5, <2>1 DEF SetEmail
  <2>2. CASE EmailAccepted(argument)
    <3>1. /\ params' = [params EXCEPT !["email"] = argument]
          /\ SaveParams
          /\ asked' = c
          /\ UNCHANGED <<buttonVars, flash, promised, unsaved, schemaVars>>
      BY <1>4, <1>5, <2>2 DEF SetEmail
    <3>2. Promise(asked.call)' = [email |-> argument]
      BY <1>5, <3>1 DEF Promise
    <3>3. SavesField("email", argument)
      BY <3>1, <3>2 DEF SavesField
    <3> QED
      BY <3>1, <3>3 DEF HandlerDoes, buttonVars, pressVars
  <2> QED
    BY <2>1, <2>2
<1>6. CASE c.call[1] = "pin" /\ SetPin(argument)
  <2>1. CASE ~PinAccepted(argument)
    BY <1>2, <1>6, <2>1 DEF SetPin
  <2>2. CASE PinAccepted(argument)
    <3>1. /\ params' = [params EXCEPT !["pin"] = argument]
          /\ SaveParams
          /\ asked' = c
          /\ UNCHANGED <<buttonVars, flash, promised, unsaved, schemaVars>>
      BY <1>4, <1>6, <2>2 DEF SetPin
    <3>2. Promise(asked.call)' = [pin |-> argument]
      BY <1>6, <3>1 DEF Promise
    <3>3. SavesField("pin", argument)
      BY <3>1, <3>2 DEF SavesField
    <3> QED
      BY <3>1, <3>3 DEF HandlerDoes, buttonVars, pressVars
  <2> QED
    BY <2>1, <2>2
<1>7. CASE c.call[1] = "savebrightness" /\ SaveBrightness
  <2>1. CASE params.brightness = brightness
    BY <1>7, <2>1 DEF SaveBrightness, HandlerDoes, buttonVars, pressVars
  <2>2. CASE params.brightness # brightness
    <3>1. /\ params' = [params EXCEPT !["brightness"] = brightness]
          /\ SaveParams
          /\ asked' = c
          /\ UNCHANGED <<buttonVars, flash, promised, unsaved, schemaVars>>
      BY <1>4, <1>7, <2>2 DEF SaveBrightness
    <3>2. brightness' = brightness
      BY <3>1 DEF buttonVars
    <3>3. Promise(asked.call)' = [brightness |-> brightness]
      BY <1>7, <3>1, <3>2 DEF Promise
    <3>4. SavesField("brightness", brightness)
      BY <3>1, <3>3 DEF SavesField
    <3> QED
      BY <3>1, <3>4 DEF HandlerDoes, buttonVars, pressVars
  <2> QED
    BY <2>1, <2>2
<1>8. CASE ServeSchema
  BY <1>2, <1>8 DEF ServeSchema, HandlerDoes, buttonVars, pressVars, savedVars
<1> QED
  BY <1>1, <1>2, <1>3, <1>5, <1>6, <1>7, <1>8

(* Before a save one setting is changed, and its client is promised that.  *)
LEMMA SaveBegins ==
  ASSUME FlashKeeps, stage = "IDLE", NEW f \in {"email", "pin", "brightness"}, NEW v,
         SavesField(f, v)
  PROVE  FlashKeeps'
<1> DEFINE p == params
<1>1. params' = [params EXCEPT ![f] = v] /\ IsParams(params)
  BY DEF SavesField, FlashKeeps
<1>2. IsParams(params')
  BY <1>1, SetFields
<1>3. /\ params'[f] = v
      /\ \A x \in {"email", "pin", "brightness"} \ {f} : params'[x] = params[x]
      /\ params'.magic = params.magic
  <2>1. PICK m, e, n, b : params = [magic |-> m, email |-> e, pin |-> n, brightness |-> b]
    BY <1>1 DEF IsParams
  <2> QED
    BY <1>1, <2>1
<1>4. /\ stage' = "ERASE" /\ flash' = flash /\ promised' = promised
      /\ Promise(asked.call)' = [x \in {f} |-> v]
  BY DEF SavesField, SaveParams
<1>5. Holds(flash, promised) /\ (DOMAIN promised # {} => flash.magic = "GOOD")
  BY DEF FlashKeeps
<1>6. ASSUME params.magic = "GOOD"
      PROVE  Holds(params', With([x \in {f} |-> v]))
  <2>1. Holds(params, promised)
    BY <1>6 DEF FlashKeeps
  <2>2. Holds(params', [x \in {f} |-> v])
    BY <1>3 DEF Holds
  <2>3. /\ \A x \in DOMAIN promised \ DOMAIN [y \in {f} |-> v] : params'[x] = promised[x]
        /\ DOMAIN promised \subseteq {"email", "pin", "brightness"}
    BY <2>1, <1>3 DEF Holds
  <2> QED
    BY <2>2, <2>3, Merged
<1>7. With(Promise(asked.call))' = With([x \in {f} |-> v])
  BY <1>4 DEF With
<1>8. Holds(params, With(Promise(asked.call)))' <=> Holds(params', With([x \in {f} |-> v]))
  BY <1>7 DEF Holds
<1>9. params'.magic = "GOOD" => Holds(params, With(Promise(asked.call)))'
  BY <1>3, <1>6, <1>8
<1>10. Holds(flash, promised)' <=> Holds(flash, promised)
  BY <1>4 DEF Holds
<1>11. IsParams(params)' /\ IsParams(flash)'
  BY <1>2, <1>4 DEF FlashKeeps, IsParams
<1> HIDE DEF p
<1> QED
  BY <1>4, <1>5, <1>9, <1>10, <1>11 DEF FlashKeeps

(* Nothing happens to the flash, to what it is to hold and to the save     *)
(* under way.                                                              *)
LEMMA FlashStays ==
  ASSUME FlashKeeps, UNCHANGED <<params, flash, stage, promised, unsaved>>,
         stage \in {"ERASE", "WRITE"} => UNCHANGED <<asked, brightness>>
  PROVE  FlashKeeps'
<1>1. stage \in {"ERASE", "WRITE"} => With(Promise(asked.call))' = With(Promise(asked.call))
  BY DEF With, Promise
<1> QED
  BY <1>1 DEF FlashKeeps, Holds, IsParams

(* What is written has the shape of what is to be written, all of it or    *)
(* not.                                                                    *)
LEMMA WrittenShape ==
  ASSUME IsParams(params), IsParams(flash)
  PROVE  /\ IsParams(Written)
         /\ \A torn \in Torn : IsParams(torn)
         /\ IsParams(Blank) /\ IsParams(Zero) /\ IsParams(Defaults)
<1>1. IsParams(Written)
  BY DEF Written, IsParams
<1>2. IsParams(Blank) /\ IsParams(Zero) /\ IsParams(Defaults)
  BY DEF Blank, Zero, Defaults, IsParams
<1>3. IsParams([flash EXCEPT !.magic = Written.magic])
  BY SetFields
<1>4. IsParams([flash EXCEPT !.magic = Written.magic, !.email = Written.email])
  BY <1>3, SetFields
<1>5. IsParams([Written EXCEPT !.brightness = flash.brightness])
  BY <1>1, SetFields
<1> QED
  BY <1>1, <1>2, <1>3, <1>4, <1>5 DEF Torn

(* The power, the save and user_init.                                      *)
LEMMA FlashStep ==
  ASSUME FlashKeeps, OneRequest,
         PowerOn \/ PowerOnBlind \/ PowerOff \/ Erase \/ WriteSucceeds \/ WriteFails
  PROVE  FlashKeeps'
<1> USE NoPromise
<1>1. CASE PowerOn /\ flash.magic = "GOOD"
  <2>1. /\ stage = "OFF" /\ stage' = "IDLE" /\ params' = flash
        /\ flash' = flash /\ promised' = promised
    BY <1>1 DEF PowerOn
  <2> QED
    BY <2>1 DEF FlashKeeps, Holds, IsParams
<1>2. CASE PowerOn /\ flash.magic # "GOOD"
  <2>1. /\ stage = "OFF" /\ stage' = "ERASE" /\ params' = Defaults
        /\ flash' = flash /\ promised' = promised /\ asked' = asked
    BY <1>2 DEF PowerOn, SaveParams
  <2>2. asked' = NoCall
    BY <2>1 DEF OneRequest
  <2>3. Promise(asked.call)' = <<>>
    BY <2>2 DEF Promise, NoCall
  <2>4. DOMAIN promised = {}
    BY <1>2, <2>1 DEF FlashKeeps
  <2>5. DOMAIN With(Promise(asked.call))' = {}
    BY <2>1, <2>3, <2>4 DEF With
  <2>6. Holds(params, With(Promise(asked.call)))'
    BY <2>5 DEF Holds
  <2>7. IsParams(params)' /\ IsParams(flash)'
    BY <2>1, WrittenShape DEF FlashKeeps, IsParams
  <2>8. Holds(flash, promised)' /\ DOMAIN promised' = {}
    BY <2>1, <2>4 DEF FlashKeeps, Holds
  <2> QED
    BY <2>1, <2>6, <2>7, <2>8 DEF FlashKeeps
<1>3. CASE PowerOnBlind
  <2>1. /\ stage = "OFF" /\ stage' = "IDLE" /\ params' = Zero
        /\ flash' = flash /\ promised' = promised
    BY <1>3 DEF PowerOnBlind
  <2>2. params'.magic # "GOOD" /\ IsParams(params)'
    BY <2>1 DEF Zero, IsParams
  <2> QED
    BY <2>1, <2>2 DEF FlashKeeps, Holds, IsParams
<1>4. CASE PowerOff
  <2>1. stage' = "OFF" /\ params' = Zero
    BY <1>4 DEF PowerOff
  <2>2. IsParams(params)'
    BY <2>1 DEF Zero, IsParams
  <2>3. CASE stage \in {"IDLE", "ERASE"} /\ UNCHANGED <<flash, promised>>
    BY <2>1, <2>2, <2>3 DEF FlashKeeps, Holds, IsParams
  <2>4. CASE promised' = <<>> /\ flash' \in Torn \cup {Blank}
    <3>1. IsParams(flash)'
      BY <2>4, WrittenShape DEF FlashKeeps, IsParams
    <3> QED
      BY <2>1, <2>2, <2>4, <3>1 DEF FlashKeeps, Holds
  <2> QED
    BY <1>4, <2>3, <2>4 DEF PowerOff
<1>5. CASE Erase
  <2>1. /\ stage = "ERASE" /\ stage' = "WRITE" /\ flash' \in {Blank, flash}
        /\ params' = params /\ promised' = promised /\ asked' = asked
        /\ brightness' = brightness
    BY <1>5 DEF Erase, Forget, Busy, buttonVars
  <2>2. With(Promise(asked.call))' = With(Promise(asked.call))
    BY <2>1 DEF With, Promise
  <2>3. IsParams(params)' /\ IsParams(flash)'
    BY <2>1, WrittenShape DEF FlashKeeps, IsParams
  <2>4. params'.magic = "GOOD" => Holds(params, With(Promise(asked.call)))'
    BY <2>1, <2>2 DEF FlashKeeps, Holds
  <2> QED
    BY <2>1, <2>3, <2>4 DEF FlashKeeps
<1>6. CASE WriteSucceeds
  <2>1. /\ stage = "WRITE" /\ stage' = "IDLE" /\ flash' = Written /\ params' = params
        /\ unsaved' = (flash # Blank)
        /\ promised' = IF flash = Blank /\ params.magic = "GOOD"
                       THEN With(Promise(asked.call)) ELSE <<>>
    BY <1>6 DEF WriteSucceeds, Saved
  <2>2. IsParams(params)' /\ IsParams(flash)'
    BY <2>1, WrittenShape DEF FlashKeeps, IsParams
  <2>3. CASE flash = Blank /\ params.magic = "GOOD"
    <3>1. flash' = params
      BY <2>1, <2>3 DEF Written
    <3>2. promised' = With(Promise(asked.call))
      BY <2>1, <2>3
    <3>3. Holds(params, With(Promise(asked.call)))
      BY <2>1, <2>3 DEF FlashKeeps
    <3>4. Holds(params, promised)' /\ Holds(flash, promised)'
      BY <2>1, <3>1, <3>2, <3>3 DEF Holds
    <3> QED
      BY <2>1, <2>2, <2>3, <3>1, <3>4 DEF FlashKeeps
  <2>4. CASE flash = Blank /\ params.magic # "GOOD"
    <3>1. promised' = <<>>
      BY <2>1, <2>4
    <3>2. Holds(flash, promised)'
      BY <3>1 DEF Holds
    <3> QED
      BY <2>1, <2>2, <2>4, <3>1, <3>2 DEF FlashKeeps
  <2>5. CASE flash # Blank
    <3>1. promised' = <<>> /\ unsaved' = TRUE
      BY <2>1, <2>5
    <3>2. Holds(flash, promised)' /\ Holds(params, promised)'
      BY <3>1 DEF Holds
    <3> QED
      BY <2>1, <2>2, <3>1, <3>2 DEF FlashKeeps
  <2> QED
    BY <2>3, <2>4, <2>5
<1>7. CASE WriteFails
  <2>1. /\ stage' = "IDLE" /\ flash' \in Torn /\ params' = params /\ unsaved' = TRUE
        /\ promised' = <<>>
    BY <1>7 DEF WriteFails, Saved
  <2>2. IsParams(params)' /\ IsParams(flash)'
    BY <2>1, WrittenShape DEF FlashKeeps, IsParams
  <2>3. Holds(flash, promised)' /\ Holds(params, promised)'
    BY <2>1 DEF Holds
  <2> QED
    BY <2>1, <2>2, <2>3 DEF FlashKeeps
<1> QED
  BY <1>1, <1>2, <1>3, <1>4, <1>5, <1>6, <1>7

(* user_init enables the button.                                           *)
LEMMA ButtonStarts ==
  ASSUME ButtonIsOff, interrupts' = TRUE,
         UNCHANGED <<hyst, count, buttonTimer, due, bouncing, newPress, inRow, late>>
  PROVE  ButtonInv' /\ WakesUp'
BY BooleanValues
DEF ButtonIsOff, ButtonInv, ButtonTypeOK, Debounces, PressesCounted, Counted, WakesUp

LEMMA ButtonStays ==
  ASSUME UNCHANGED pressVars
  PROVE  /\ ButtonInv => ButtonInv'
         /\ WakesUp => WakesUp'
         /\ ButtonIsOff => ButtonIsOff'
BY DEF pressVars, ButtonInv, ButtonTypeOK, Debounces, PressesCounted, Counted,
       WakesUp, ButtonIsOff

LEMMA SchemaStays ==
  ASSUME SchemaInv, UNCHANGED schemaVars \/ SchemaStart \/ SchemaStep \/ SchemaDone
  PROVE  SchemaInv'
BY SchemaStepInv DEF SchemaNext

(* Nothing of the button happens before user_init is done.                 *)
LEMMA OffMeansNoButton ==
  ButtonIsOff => ~(Press \/ Bounce \/ Settle \/ Expire \/ ButtonTimer)
BY DEF ButtonIsOff, Press, Bounce, Settle, Expire, ButtonTimer

(* A save that ends, well or not.                                          *)
LEMMA SavedStep ==
  ASSUME SettingsInv, stage = "WRITE", Saved
  PROVE  ButtonInv' /\ OneRequest' /\ OffUntilBooted' /\ NeverDeaf' /\ SchemaInv'
<1>1. stage' = "IDLE" /\ UNCHANGED <<asked, part>>
  BY DEF Saved, schemaVars
<1>2. SchemaInv'
  BY SchemaStays DEF SettingsInv, Saved
<1>3. OneRequest' /\ OffUntilBooted'
  BY <1>1 DEF OneRequest, OffUntilBooted, Booting
<1>4. CASE asked = NoCall
  <2>1. ButtonIsOff
    BY <1>4 DEF SettingsInv, OffUntilBooted, Booting
  <2>2. interrupts' = TRUE
    BY <1>4 DEF Saved
  <2>3. ButtonInv' /\ WakesUp'
    BY <2>1, <2>2, ButtonStarts DEF Saved
  <2> QED
    BY <1>2, <1>3, <2>3 DEF NeverDeaf
<1>5. CASE asked # NoCall
  <2>1. WakesUp
    BY <1>5 DEF SettingsInv, NeverDeaf
  <2>2. UNCHANGED pressVars
    BY <1>5 DEF Saved, pressVars
  <2>3. ButtonInv' /\ WakesUp'
    BY <2>1, <2>2, ButtonStays DEF SettingsInv
  <2> QED
    BY <1>2, <1>3, <2>3 DEF NeverDeaf
<1> QED
  BY <1>4, <1>5

(* Power, saves, requests and the button keep the parts together.          *)
LEMMA SettingsStep ==
  ASSUME SettingsInv, [SettingsNext]_settingsVars
  PROVE  SettingsInv'
<1>1. CASE PowerOn
  <2>1. ButtonIsOff /\ asked = NoCall /\ part = "IDLE"
    BY <1>1 DEF PowerOn, SettingsInv, OffUntilBooted, Booting, OneRequest
  <2>2. SchemaInv' /\ UNCHANGED <<asked, part, promised, flash, unsaved>>
    BY <1>1, SchemaStays DEF PowerOn, SettingsInv, schemaVars
  <2>3. CASE flash.magic = "GOOD"
    <3>1. params' = flash /\ stage' = "IDLE" /\ interrupts' = TRUE
      BY <1>1, <2>3 DEF PowerOn
    <3>2. ButtonInv' /\ WakesUp'
      BY <1>1, <2>1, <3>1, ButtonStarts DEF PowerOn
    <3>3. OneRequest' /\ OffUntilBooted' /\ NeverDeaf'
      BY <2>1, <2>2, <3>1, <3>2 DEF OneRequest, OffUntilBooted, Booting, NeverDeaf
    <3> QED
      BY <1>1, <2>2, <3>2, <3>3, FlashStep DEF SettingsInv
  <2>4. CASE flash.magic # "GOOD"
    <3>1. stage' = "ERASE" /\ UNCHANGED pressVars
      BY <1>1, <2>4 DEF PowerOn, SaveParams, pressVars
    <3>2. ButtonInv' /\ ButtonIsOff'
      BY <2>1, <3>1, ButtonStays DEF SettingsInv
    <3>3. OneRequest' /\ OffUntilBooted' /\ NeverDeaf'
      BY <2>1, <2>2, <3>1, <3>2 DEF OneRequest, OffUntilBooted, NeverDeaf
    <3> QED
      BY <1>1, <2>2, <3>2, <3>3, FlashStep DEF SettingsInv
  <2> QED
    BY <2>3, <2>4
<1>2. CASE PowerOnBlind
  <2>1. ButtonIsOff /\ asked = NoCall /\ part = "IDLE" /\ stage = "OFF"
    BY <1>2 DEF PowerOnBlind, SettingsInv, OffUntilBooted, Booting, OneRequest
  <2>2. SchemaInv' /\ UNCHANGED <<asked, part, promised, flash, unsaved>>
    BY <1>2, SchemaStays DEF PowerOnBlind, SettingsInv, schemaVars
  <2>3. params'.magic = "ZERO" /\ stage' = "IDLE" /\ interrupts' = TRUE
    BY <1>2 DEF PowerOnBlind, Zero
  <2>4. ButtonInv' /\ WakesUp'
    BY <1>2, <2>1, <2>3, ButtonStarts DEF PowerOnBlind
  <2>5. OneRequest' /\ OffUntilBooted' /\ NeverDeaf'
    BY <2>1, <2>2, <2>3, <2>4 DEF OneRequest, OffUntilBooted, Booting, NeverDeaf
  <2> QED
    BY <1>2, <2>2, <2>4, <2>5, FlashStep DEF SettingsInv
<1>3. CASE PowerOff
  <2>1. stage' = "OFF" /\ asked' = NoCall /\ part' = "IDLE"
    BY <1>3 DEF PowerOff
  <2>2. ButtonIsOff'
    BY <1>3 DEF PowerOff, ButtonOff, ButtonIsOff
  <2>3. ButtonInv'
    BY <1>3, BooleanValues
    DEF PowerOff, ButtonOff, ButtonInv, ButtonTypeOK, Debounces, PressesCounted,
        Counted
  <2>4. OneRequest' /\ OffUntilBooted' /\ NeverDeaf'
    BY <2>1, <2>2 DEF OneRequest, OffUntilBooted, NeverDeaf
  <2>5. SchemaInv'
    BY <1>3, SchemaAssumption
    DEF PowerOff, SettingsInv, SchemaInv, SchemaTypeOK, Parts, SchemaFits
  <2> QED
    BY <1>3, <2>3, <2>4, <2>5, FlashStep DEF SettingsInv
<1>4. CASE Erase
  <2>1. stage = "ERASE" /\ stage' = "WRITE" /\ asked' = asked /\ part' = part
    BY <1>4 DEF Erase, Forget, Busy, schemaVars
  <2>2. UNCHANGED pressVars
    BY <1>4 DEF Erase, buttonVars, pressVars
  <2>3. ButtonInv' /\ SchemaInv'
    BY <1>4, <2>2, ButtonStays, SchemaStays DEF Erase, SettingsInv
  <2>4. OneRequest' /\ OffUntilBooted' /\ NeverDeaf'
    BY <2>1, <2>2, ButtonStays
    DEF SettingsInv, OneRequest, OffUntilBooted, Booting, NeverDeaf
  <2> QED
    BY <1>4, <2>3, <2>4, FlashStep DEF SettingsInv
<1>5. CASE WriteSucceeds
  BY <1>5, SavedStep, FlashStep DEF WriteSucceeds, SettingsInv
<1>6. CASE WriteFails
  BY <1>6, SavedStep, FlashStep DEF WriteFails, SettingsInv
<1>7. CASE \E c \in Calls : Serve(c)
  <2>1. PICK c \in Calls : Serve(c)
    BY <1>7
  <2>2. stage = "IDLE" /\ part = "IDLE"
    BY <2>1 DEF Serve, Busy
  <2>3. NoCall \notin Calls
    BY RequestsAssumption DEF Calls, NoCall
  <2>4. HandlerDoes
    BY <2>1, ServeDoes
  <2>5. /\ stage' \in {"IDLE", "ERASE"}
        /\ stage' = "ERASE" => part' = "IDLE" /\ asked' \in Calls
    BY <2>2, <2>4 DEF HandlerDoes, SavesField, SaveParams, SchemaStart, schemaVars
  <2>6. WakesUp
    BY <2>2 DEF SettingsInv, NeverDeaf
  <2>7. ButtonInv' /\ WakesUp'
    BY <2>4, <2>6, ButtonStays DEF HandlerDoes, SettingsInv
  <2>8. OneRequest' /\ OffUntilBooted' /\ NeverDeaf'
    BY <2>3, <2>5, <2>7 DEF OneRequest, OffUntilBooted, Booting, NeverDeaf
  <2>9. SchemaInv'
    BY <2>4, SchemaStays DEF HandlerDoes, SavesField, SettingsInv
  <2>10. FlashKeeps'
    <3>1. CASE UNCHANGED <<params, flash, stage, promised, unsaved>>
      BY <2>2, <3>1, FlashStays DEF SettingsInv
    <3>2. CASE \E f \in {"email", "pin", "brightness"} : \E v : SavesField(f, v)
      BY <2>2, <3>2, SaveBegins DEF SettingsInv
    <3>3. CASE /\ params.magic = "GOOD"
               /\ ~unsaved
               /\ promised' = With([brightness |-> params.brightness])
               /\ UNCHANGED <<params, flash, stage, unsaved>>
      <4>1. Holds(params, promised) /\ flash = params /\ FlashKeeps
        BY <2>2, <3>3 DEF SettingsInv, FlashKeeps
      <4>2. Holds(params, [brightness |-> params.brightness])
        BY DEF Holds
      <4>3. /\ DOMAIN promised \subseteq {"email", "pin", "brightness"}
            /\ \A x \in DOMAIN promised : params[x] = promised[x]
        BY <4>1 DEF Holds
      <4>4. Holds(params, With([brightness |-> params.brightness]))
        BY <4>2, <4>3, Merged
      <4>5. Holds(params, promised)' /\ Holds(flash, promised)'
        BY <3>3, <4>1, <4>4 DEF Holds
      <4>6. IsParams(params)' /\ IsParams(flash)' /\ flash' = params'
        BY <3>3, <4>1 DEF FlashKeeps, IsParams
      <4>7. stage' = "IDLE" /\ flash'.magic = "GOOD"
        BY <2>2, <3>3, <4>1
      <4> QED
        BY <4>5, <4>6, <4>7 DEF FlashKeeps
    <3> QED
      BY <2>4, <3>1, <3>2, <3>3 DEF HandlerDoes
  <2> QED
    BY <2>7, <2>8, <2>9, <2>10 DEF SettingsInv
<1>8. CASE WriteSchema
  <2>1. part # "IDLE"
    BY <1>8
    DEF WriteSchema, SchemaStep, SchemaVariable, SchemaActions, SchemaAction,
        SchemaEnd, SchemaRefuse, SchemaDone
  <2>2. stage = "IDLE"
    BY <2>1 DEF SettingsInv, OneRequest
  <2>3. UNCHANGED <<pressVars, params, flash, stage, promised, unsaved>>
    BY <1>8 DEF WriteSchema, buttonVars, pressVars, savedVars
  <2>4. ButtonInv' /\ WakesUp'
    BY <2>2, <2>3, ButtonStays DEF SettingsInv, NeverDeaf
  <2>5. OneRequest' /\ OffUntilBooted' /\ NeverDeaf'
    BY <2>2, <2>3, <2>4 DEF OneRequest, OffUntilBooted, Booting, NeverDeaf
  <2>6. SchemaInv'
    BY <1>8, SchemaStays DEF WriteSchema, SettingsInv
  <2>7. FlashKeeps'
    BY <2>2, <2>3, FlashStays DEF SettingsInv
  <2> QED
    BY <2>4, <2>5, <2>6, <2>7 DEF SettingsInv
<1>9. CASE ButtonInterrupts \/ ButtonCounts
  <2>1. Press \/ Bounce \/ Settle \/ Expire \/ ButtonTimer
    BY <1>9 DEF ButtonInterrupts, ButtonCounts
  <2>2. ~Booting
    BY <2>1, OffMeansNoButton DEF SettingsInv, OffUntilBooted
  <2>3. ButtonInv' /\ WakesUp'
    BY <2>1, <2>2, ButtonStep, ButtonWakes DEF SettingsInv, NeverDeaf, Booting
  <2>4. UNCHANGED <<params, flash, stage, promised, unsaved, schemaVars>>
    BY <1>9 DEF ButtonInterrupts, ButtonCounts, savedVars
  <2>5. stage \in {"ERASE", "WRITE"} => asked' = asked
    BY <1>9 DEF ButtonInterrupts, ButtonCounts, Forget, Busy
  <2>6. OneRequest' /\ OffUntilBooted' /\ NeverDeaf'
    BY <2>2, <2>3, <2>4, <2>5
    DEF SettingsInv, OneRequest, OffUntilBooted, Booting, NeverDeaf, schemaVars
  <2>7. stage \in {"ERASE", "WRITE"} => brightness' = brightness
    BY <1>9
    DEF ButtonInterrupts, ButtonCounts, Busy, Press, Bounce, Settle, Expire, GpioIsr
  <2>8. SchemaInv' /\ FlashKeeps'
    BY <2>4, <2>5, <2>7, SchemaStays, FlashStays DEF SettingsInv
  <2> QED
    BY <2>3, <2>6, <2>8 DEF SettingsInv
<1>10. CASE UNCHANGED settingsVars
  <2>1. UNCHANGED <<pressVars, brightness, params, flash, stage, asked, promised,
                    unsaved, schemaVars>>
    BY <1>10 DEF settingsVars, buttonVars, pressVars
  <2>2. ButtonInv' /\ SchemaInv'
    BY <2>1, ButtonStays, SchemaStays DEF SettingsInv
  <2>3. OneRequest' /\ OffUntilBooted' /\ NeverDeaf'
    BY <2>1, ButtonStays
    DEF SettingsInv, OneRequest, OffUntilBooted, Booting, NeverDeaf, schemaVars
  <2>4. FlashKeeps'
    BY <2>1, FlashStays DEF SettingsInv
  <2> QED
    BY <2>2, <2>3, <2>4 DEF SettingsInv
<1> QED
  BY <1>1, <1>2, <1>3, <1>4, <1>5, <1>6, <1>7, <1>8, <1>9, <1>10
  DEF SettingsNext

LEMMA SettingsInvariance == SettingsSpec => []SettingsInv
<1>1. SettingsInit => SettingsInv
  <2> SUFFICES ASSUME SettingsInit
               PROVE  SettingsInv
    OBVIOUS
  <2>1. ButtonInv
    BY BooleanValues
    DEF SettingsInit, ButtonInit, ButtonInv, ButtonTypeOK, Debounces,
        PressesCounted, Counted
  <2>2. OneRequest /\ OffUntilBooted /\ NeverDeaf
    BY DEF SettingsInit, ButtonInit, SchemaInit, OneRequest, OffUntilBooted,
           ButtonIsOff, NeverDeaf
  <2>3. FlashKeeps
    BY NoPromise DEF SettingsInit, FlashKeeps, IsParams, Zero, Blank
  <2>4. SchemaInv
    BY SchemaInitInv DEF SettingsInit
  <2> QED
    BY <2>1, <2>2, <2>3, <2>4 DEF SettingsInv
<1>2. SettingsInv /\ [SettingsNext]_settingsVars => SettingsInv'
  BY SettingsStep
<1> QED
  BY <1>1, <1>2, PTL DEF SettingsSpec

(* No press is lost, and each counts once unless a callback was late, for  *)
(* any number of presses, and whatever clients, saves and the power do     *)
(* meanwhile.                                                              *)
THEOREM PressesCountedHolds == SettingsSpec => []PressesCounted
<1>1. SettingsInv => PressesCounted
  BY DEF SettingsInv, ButtonInv
<1> QED
  BY <1>1, SettingsInvariance, PTL

(* The button of a display that has booted never goes dead.                *)
THEOREM NeverDeafHolds == SettingsSpec => []NeverDeaf
<1>1. SettingsInv => NeverDeaf
  BY DEF SettingsInv
<1> QED
  BY <1>1, SettingsInvariance, PTL

(* What a client was told is set is what the flash holds and what the next *)
(* boot that can read it gives back, value by value, for any requests and  *)
(* any number of power cuts and faults.                                    *)
THEOREM SettingsSurviveHolds == SettingsSpec => []SettingsSurvive
<1>1. SettingsInv => SettingsSurvive
  BY DEF SettingsInv, FlashKeeps, Holds, SettingsSurvive
<1> QED
  BY <1>1, SettingsInvariance, PTL

(* The schema fits its buffer also when the power goes while it is written *)
(* and when it is written again and again.                                 *)
THEOREM SettingsSchemaFits == SettingsSpec => []SchemaFits
<1>1. SettingsInv => SchemaFits
  BY DEF SettingsInv, SchemaInv
<1> QED
  BY <1>1, SettingsInvariance, PTL
=============================================================================
