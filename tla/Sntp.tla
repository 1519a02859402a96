-------------------------------- MODULE Sntp --------------------------------
(***************************************************************************)
(* How the portal learns the time (portal/sntp.c): it sends the time since *)
(* its boot to a server, and puts the answer, which carries that time back *)
(* and two times of the server, together with the time the answer came and *)
(* the time when all that is done.                                         *)
(*                                                                         *)
(* A timestamp is <<seconds, fraction>>, the fraction in parts of Word.    *)
(* The seconds of the code, and its 64 bits of plus, hold every sum here.  *)
(* ntoh and the byte order of the packet undo each other.                  *)
(***************************************************************************)
EXTENDS Integers

CONSTANTS
  Word,     \* 2^32
  Second,   \* microseconds of a second, 10^6
  Wrap,     \* microseconds after which system_get_time starts again, 2^32
  Day       \* seconds of a day, 86400

ASSUME SntpAssumption ==
  /\ {Word, Second, Wrap, Day} \subseteq Nat \ {0}
  /\ 2 * Second < Word

(* The code multiplies microseconds by 2^32 - 1 in a word.                 *)
Frac(us) == ((us % Second) * (Word - 1)) % Word

(* system_get_time at a time since the boot, and its timestamp             *)
SystemGetTime(us) == us % Wrap
Stamp(us) == <<SystemGetTime(us) \div Second, Frac(SystemGetTime(us))>>

(* One too much on a carry, and one too little on a borrow                 *)
Plus(a, b) ==
  LET f == a[2] + b[2]
  IN IF f >= Word THEN <<a[1] + b[1] + 1, f - (Word - 1)>> ELSE <<a[1] + b[1], f>>

SubForgetsBorrow(a, b) ==
  IF a[2] < b[2] THEN <<a[1] - b[1], (a[2] + Word - 1 - b[2]) % Word>>
                 ELSE <<a[1] - b[1], a[2] - b[2]>>

Sub(a, b) ==
  IF a[2] < b[2] THEN <<a[1] - b[1] - 1, (a[2] + Word - 1 - b[2]) % Word>>
                 ELSE <<a[1] - b[1], a[2] - b[2]>>

(* An exchange: when the request was sent, its answer received and the     *)
(* clock read again, since the boot, and what the server's clock showed    *)
(* when the request came and when the answer went, in microseconds.        *)
ServerStamp(us) == <<us \div Second, ((us % Second) * Word) \div Second>>

(* Packets take their time, and both clocks run alike: late is how long     *)
(* the answer was under way.                                               *)
Possible(x) ==
  /\ x \in [sent : Nat, receive : Nat, transmit : Nat, received : Nat, late : Nat,
            read : Nat]
  /\ x.receive <= x.transmit
  /\ x.received <= x.read
  /\ x.transmit - x.receive + x.late <= x.received - x.sent

(* ardtime: the seconds of the day that the portal passes on.  The years   *)
(* from 1900 to 1970, which the code subtracts, are whole days.            *)
ArdTime(x) ==
  LET t1 == Sub(ServerStamp(x.receive), Stamp(x.sent))
      t2 == Sub(ServerStamp(x.transmit), Stamp(x.received))
      offset == Plus(t1, t2)[1] \div 2 + SystemGetTime(x.read) \div Second
  IN offset % Day

(* What the server's clock shows when the portal reads its own again       *)
TrueTime(x) == x.transmit + x.late + (x.read - x.received)

(* The portal's clock did not start again meanwhile.                       *)
Steady(x) == x.sent \div Wrap = x.read \div Wrap
=============================================================================
