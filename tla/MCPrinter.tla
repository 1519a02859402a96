----------------------------- MODULE MCPrinter ------------------------------
(***************************************************************************)
(* Commands of every kind, among them 23:55:55, whose digits have the      *)
(* longest lit rows, in a ring that two long ones overflow.                *)
(***************************************************************************)
EXTENDS Printer

MCCommands ==
  {Zero, ScrollOn, ScrollOff, Speed(<<"5", "1", "1", " ">>), SetTime(86155)}

(* The times and the speed that text conversions would change.             *)
MCTextCommands ==
  {Zero, SetTime(10), SetTime(3341), Speed(<<"\t", "-", "2", "4", "3", " ">>)}

(* The bytes that occur.                                                   *)
MCBytes ==
  {0, Delimiter} \cup UNION {Range(Written(command)) :
                               command \in MCCommands \cup MCTextCommands}
=============================================================================
