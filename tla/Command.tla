------------------------------ MODULE Command -------------------------------
(***************************************************************************)
(* How the portal tells the time printer what to do (portal/portal.c,      *)
(* portal/sntp.c, portal/driver_lib/driver/uart.c): a delimiter, a command *)
(* and its data, a byte at a time through the driver's uart0_write_char.   *)
(***************************************************************************)
EXTENDS Integers, SequencesExt

CONSTANT LongMax   \* LONG_MAX, 2^31 - 1

ASSUME LongAssumption == LongMax \in Nat /\ LongMax >= 65535

Delimiter == 255
CR == 13
LF == 10

-----------------------------------------------------------------------------
(* strtol with base 10, on a sequence of characters.                       *)

Numerals == {ToString(d) : d \in 0..9}
Digit(c) == CHOOSE d \in 0..9 : ToString(d) = c

(* The longest run of these characters at the start of a text.             *)
Leading(text, characters) ==
  LET other == SelectInSeq(text, LAMBDA c : c \notin characters)
  IN IF other = 0 THEN text ELSE SubSeq(text, 1, other - 1)

StrToL(text) ==
  LET blanks == Leading(text, {" ", "\t"})
      signed == SubSeq(text, Len(blanks) + 1, Len(text))
      sign   == IF signed = <<>> THEN "" ELSE Head(signed)
      number == IF sign \in {"-", "+"} THEN Tail(signed) ELSE signed
      limit  == IF sign = "-" THEN LongMax + 1 ELSE LongMax
      acc    == FoldLeft(LAMBDA a, c :
                  IF a > (limit - Digit(c)) \div 10 THEN limit ELSE a * 10 + Digit(c),
                  0, Leading(number, Numerals))
  IN IF sign = "-" THEN -acc ELSE acc

-----------------------------------------------------------------------------
(* THE COMMANDS: what is asked for, and a number                           *)

Zero == <<"zero", 0>>
ScrollOn == <<"scroll", 1>>
ScrollOff == <<"scroll", 0>>

(* speed is a uint16.                                                      *)
Speed(text) == <<"speed", StrToL(text) % 65536>>

(* ardtime, below 86400.                                                   *)
SetTime(ardtime) == <<"settime", ardtime>>

(* What follows the delimiter.                                             *)
EncodedLowByteFirst(command) ==
  LET n == command[2]
  IN CASE command[1] = "zero" -> <<0>>
       [] command[1] = "scroll" -> <<IF n = 1 THEN 1 ELSE 2>>
       [] command[1] = "speed" -> <<3, n % 256, n \div 256>>
       [] command[1] = "settime" ->
            <<4, 0, n \div 65536, (n \div 256) % 256, n % 256>>

Encoded(command) ==
  LET n == command[2]
  IN CASE command[1] = "zero" -> <<0>>
       [] command[1] = "scroll" -> <<IF n = 1 THEN 1 ELSE 2>>
       [] command[1] = "speed" -> <<3, n \div 256, n % 256>>
       [] command[1] = "settime" ->
            <<4, 0, n \div 65536, (n \div 256) % 256, n % 256>>

(* uart0_write_char is made for text: it puts a CR before every LF, and    *)
(* leaves out every CR.                                                    *)
Uart0WriteChar(byte) ==
  CASE byte = LF -> <<CR, LF>>
    [] byte = CR -> <<>>
    [] OTHER -> <<byte>>

(* What the portal writes for a command.                                   *)
Written(command) ==
  LET bytes == <<Delimiter>> \o Encoded(command)
  IN FlattenSeq([i \in DOMAIN bytes |-> Uart0WriteChar(bytes[i])])

(* Commands that uart0_write_char leaves as they are.                      *)
Verbatim(command) == Range(Encoded(command)) \cap {CR, LF} = {}
=============================================================================
