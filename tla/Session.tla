------------------------------ MODULE Session ------------------------------
(***************************************************************************)
(* What the web site sees of a display (display/display.c), and all it may *)
(* see: a conversation of one page at a time, in an order that the answers *)
(* allow.  The login data is sent only with a token the login page gave,   *)
(* the members page is asked for only by a member, and a visitor whose     *)
(* login was refused asks for nothing more.  One way out is left: when the *)
(* connection of the refusal breaks before it is closed, the visitor takes *)
(* that for a failure and starts again.                                    *)
(*                                                                         *)
(* The session is that of one e-mail address and PIN: a visitor who is     *)
(* given others is a new one.                                              *)
(***************************************************************************)

VARIABLES
  stage,  \* what the last answers made of the visitor
  asking, \* the page that is being asked for, or "NONE"
  broken  \* in the step just taken a connection failed

sessionVars == <<stage, asking>>

(* The stage at which each page may be asked for.                          *)
AllowedAt == [LOGIN    |-> "VISITOR",
              LOGINAPI |-> "HAS_TOKEN",
              MEMBERS  |-> "MEMBER"]

Pages == DOMAIN AllowedAt

(* What an answer to each page may make of the visitor, who keeps the      *)
(* stage as long as nothing of interest has arrived.                       *)
Outcomes == [LOGIN    |-> {"HAS_TOKEN"},
             LOGINAPI |-> {"MEMBER", "REFUSED"},
             MEMBERS  |-> {"MEMBER"}]

SessionInit ==
  /\ stage = "VISITOR"
  /\ asking = "NONE"

Ask(p) ==
  /\ asking = "NONE"
  /\ stage = AllowedAt[p]
  /\ asking' = p
  /\ UNCHANGED stage

Answer ==
  /\ asking # "NONE"
  /\ stage # "REFUSED"
  /\ stage' \in Outcomes[asking]
  /\ UNCHANGED asking

(* The answer is not what was hoped for, or there is none, or the result   *)
(* of an earlier page is given up: start again.                            *)
StartAgain ==
  /\ stage # "REFUSED"
  /\ stage' = "VISITOR"
  /\ asking' \in {asking, "NONE"}

(* The refusal has been read, and the connection breaks under the rest of  *)
(* the response: the refusal is forgotten.  A connection that closes       *)
(* does not have that effect.                                              *)
RefusalBrokenOff ==
  /\ stage = "REFUSED"
  /\ asking = "LOGINAPI"
  /\ broken'
  /\ stage' = "VISITOR"
  /\ asking' = "NONE"

(* The page is finished, and the conversation goes on.                     *)
Finish ==
  /\ asking # "NONE"
  /\ asking' = "NONE"
  /\ UNCHANGED stage

SessionNext ==
  \/ \E p \in Pages : Ask(p)
  \/ Answer
  \/ StartAgain
  \/ RefusalBrokenOff
  \/ Finish

SessionSpec == SessionInit /\ [][SessionNext]_sessionVars
=============================================================================
