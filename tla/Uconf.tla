------------------------------- MODULE Uconf -------------------------------
(***************************************************************************)
(* The data model of the display (display/uconf.c): variables with readers *)
(* and writers, actions with typed arguments, and what the handlers of     *)
(* /uconf/set, /uconf/get and /uconf/invoke make of a request.  Both lists *)
(* grow at their front.                                                    *)
(***************************************************************************)
EXTENDS Query

CONSTANTS
  Numbers,    \* what strtol reads: the values that are numbers, and the number
  ByteSize    \* 2^8: a uint8_t takes the number modulo this

ASSUME UconfAssumption == ByteSize \in Nat \ {0}

-----------------------------------------------------------------------------
(* uconf_find_by_name: 0 if there is none.                                 *)
FindByName(list, name) == SelectInSeq(list, LAMBDA e : e.name = name)

(* uconf_register_var: the variable is entered, or a reader or a writer is *)
(* added to the one there is.                                              *)
RegisterVar(variables, name, type, reader, writer, remote, broadcast) ==
  LET known   == FindByName(variables, name)
      entered == IF known # 0 THEN variables
                 ELSE <<[name |-> name, type |-> type, reader |-> FALSE,
                         writer |-> FALSE, remoteWrite |-> FALSE,
                         broadcast |-> FALSE]>> \o variables
      v == IF known # 0 THEN known ELSE 1
  IN IF (~reader /\ ~writer) \/ entered[v].type # type THEN variables
     ELSE [entered EXCEPT
             ![v].reader = @ \/ reader,
             ![v].writer = @ \/ writer,
             ![v].remoteWrite = IF writer THEN remote ELSE @,
             ![v].broadcast = IF writer THEN broadcast ELSE @]

RegisterRead(variables, name, type) ==
  RegisterVar(variables, name, type, TRUE, FALSE, FALSE, FALSE)

RegisterWrite(variables, name, type, remote, broadcast) ==
  RegisterVar(variables, name, type, FALSE, TRUE, remote, broadcast)

(* uconf_register_action.                                                  *)
RegisterAction(actions, name, args) ==
  IF FindByName(actions, name) # 0 THEN actions
  ELSE <<[name |-> name, args |-> args]>> \o actions

-----------------------------------------------------------------------------
(* uconf_parse_parameter: the value as its type holds it, if it is one.    *)
Parses(type, value) == type = "STRING" \/ value \in DOMAIN Numbers

Parsed(type, value) ==
  CASE type = "STRING" -> value
    [] type = "UINT8" -> Numbers[value] % ByteSize
    [] type = "INT" -> Numbers[value]

(* The parameter names a variable, and the one it names.                   *)
Names(list, params, name) ==
  Given(params, name) /\ FindByName(list, Lookup(params, name)) # 0
Named(list, params, name) == list[FindByName(list, Lookup(params, name))]

(* set_handler finds nothing to write to: 404.                             *)
Settable(variables, params) ==
  /\ Names(variables, params, <<"var">>)
  /\ Given(params, <<"val">>)
  /\ LET v == Named(variables, params, <<"var">>) IN v.writer /\ v.remoteWrite

(* get_handler finds something to read.                                    *)
Gettable(variables, params) ==
  /\ Names(variables, params, <<"var">>)
  /\ Named(variables, params, <<"var">>).reader

(* invoke_handler has an argument for every parameter, each of its type.   *)
ArgsGiven(action, params) ==
  \A i \in DOMAIN action.args :
    /\ Given(params, action.args[i].name)
    /\ Parses(action.args[i].type, Lookup(params, action.args[i].name))

Args(action, params) ==
  [i \in DOMAIN action.args |->
     Parsed(action.args[i].type, Lookup(params, action.args[i].name))]
=============================================================================
