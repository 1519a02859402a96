------------------------------- MODULE Schema -------------------------------
(***************************************************************************)
(* schema_handler (display/uconf.c) writes the registered variables and    *)
(* actions into a buffer of fixed size and checks before each whether what *)
(* it adds, and all that has to follow, will fit.  Only lengths matter:    *)
(* the fixed parts of the format are counted once, here.                   *)
(***************************************************************************)
EXTENDS Integers, Sequences

CONSTANTS
  Builds,           \* the values of SCHEMA_BUFF_LEN, which a build may define
  Variables,        \* lengths of the name, type, READ and WRITE of each variable
  Actions           \* length of the name of each action, the number of its
                    \* arguments, and the length of their names and types

VariableLengths == [name : Nat, type : 0..6, read : 4..5, write : 4..5]
ActionLengths == [name : Nat, count : Nat, args : Nat]

(* 24 is the schema of a model without variables and actions.              *)
ASSUME SchemaAssumption ==
  /\ \A length \in Builds : length \in Nat /\ length >= 24
  /\ Variables \in Seq(VariableLengths)
  /\ Actions \in Seq(ActionLengths)

VARIABLES
  room,     \* SCHEMA_BUFF_LEN, the same for ever
  part,     \* the loop schema_handler is in, "IDLE" while it does not run
  next,     \* the entry it is at
  written   \* i: characters written, without the null byte

schemaVars == <<room, part, next, written>>

Parts == {"IDLE", "DATA", "ACTION", "SENT", "REFUSED"}

SchemaTypeOK ==
  /\ room \in Builds
  /\ part \in Parts
  /\ next \in Nat \ {0}
  /\ written \in Nat

SchemaInit ==
  /\ room \in Builds
  /\ part = "IDLE"
  /\ next = 1
  /\ written = 0

-----------------------------------------------------------------------------
Comma == IF next = 1 THEN 0 ELSE 1

(* "NAME":{"READ":R,"WRITE":W,"TYPE":"T"}                                  *)
VariableText(v) == Comma + 31 + v.name + v.read + v.write + v.type

(* "NAME":{"ARG":"T","ARG":"T"}                                            *)
ActionText(a) ==
  Comma + 5 + a.name + a.args + 5 * a.count + (IF a.count = 0 THEN 0 ELSE a.count - 1)

(* What each loop wants to have left before it writes an entry.            *)
VariableFitsAlone(v) == written + v.name + 49 <= room
VariableFits(v) == written + v.name + 63 <= room
ActionNeeds(a) == a.name + 9 + 6 * a.count + a.args
ActionFits(a) == written + ActionNeeds(a) <= room

-----------------------------------------------------------------------------
(* {"DATA":{                                                               *)
SchemaStart ==
  /\ part = "IDLE"
  /\ part' = "DATA"
  /\ next' = 1
  /\ written' = 9
  /\ UNCHANGED room

SchemaVariable ==
  /\ part = "DATA"
  /\ next <= Len(Variables)
  /\ VariableFits(Variables[next])
  /\ written' = written + VariableText(Variables[next])
  /\ next' = next + 1
  /\ UNCHANGED <<room, part>>

(* },"ACTION":{                                                            *)
SchemaActions ==
  /\ part = "DATA"
  /\ next > Len(Variables)
  /\ part' = "ACTION"
  /\ next' = 1
  /\ written' = written + 12
  /\ UNCHANGED room

SchemaAction ==
  /\ part = "ACTION"
  /\ next <= Len(Actions)
  /\ ActionFits(Actions[next])
  /\ written' = written + ActionText(Actions[next])
  /\ next' = next + 1
  /\ UNCHANGED <<room, part>>

(* }} and the response.                                                    *)
SchemaEnd ==
  /\ part = "ACTION"
  /\ next > Len(Actions)
  /\ part' = "SENT"
  /\ written' = written + 2
  /\ UNCHANGED <<room, next>>

(* The buffer is freed and the client gets a 404.                          *)
SchemaRefuse ==
  /\ \/ /\ part = "DATA"
        /\ next <= Len(Variables)
        /\ ~VariableFits(Variables[next])
     \/ /\ part = "ACTION"
        /\ next <= Len(Actions)
        /\ ~ActionFits(Actions[next])
  /\ part' = "REFUSED"
  /\ UNCHANGED <<room, next, written>>

SchemaDone ==
  /\ part \in {"SENT", "REFUSED"}
  /\ part' = "IDLE"
  /\ next' = 1
  /\ written' = 0
  /\ UNCHANGED room

SchemaStep ==
  SchemaVariable \/ SchemaActions \/ SchemaAction \/ SchemaEnd \/ SchemaRefuse

SchemaNext == SchemaStart \/ SchemaStep \/ SchemaDone

SchemaSpec == SchemaInit /\ [][SchemaNext]_schemaVars

-----------------------------------------------------------------------------
(* PROPERTIES                                                              *)

(* Whatever is registered, in whatever build: no sprintf of the schema     *)
(* handler writes past the end of the buffer, its null byte included.  The *)
(* checks before an entry have to leave room for all that follows it       *)
(* without another check.                                                  *)
SchemaFits == written + 1 <= room

-----------------------------------------------------------------------------
(* THE INDUCTIVE INVARIANT                                                 *)

(* Room for what is still to come: the start of the actions, and the end.  *)
SchemaInv ==
  /\ SchemaTypeOK
  /\ part = "IDLE" => written = 0
  /\ part = "DATA" => written + 15 <= room
  /\ part = "ACTION" => written + 3 <= room
  /\ SchemaFits
=============================================================================
