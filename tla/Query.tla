------------------------------- MODULE Query -------------------------------
(***************************************************************************)
(* How the HTTP server of the display reads a request line (receivecb, the *)
(* registry and the request context of display/http.c).                    *)
(*                                                                         *)
(* Text is a sequence of tokens: the characters that mean something to the *)
(* parser, and runs of any others.  Two spellings of a name that differ in *)
(* case are one token, as for strncasecmp.                                 *)
(***************************************************************************)
EXTENDS SequencesExt

CONSTANTS
  SizeLimit,    \* sizes are passed as uint8_t: 256
  MaxHandlers   \* MAX_HANDLERS

ASSUME QueryAssumption ==
  /\ SizeLimit \in Nat \ {0}
  /\ MaxHandlers \in Nat

-----------------------------------------------------------------------------
(* The first len characters, len cut to its width on the way into the      *)
(* request context.                                                        *)
Cut(text) == SubSeq(text, 1, Len(text) % SizeLimit)

(* The bytes written as an escape, and how.                                *)
Escapes == [at |-> <<"4", "0">>, and |-> <<"2", "6">>, equal |-> <<"3", "D">>,
            percent |-> <<"2", "5">>]
Escaped == [at |-> "@", and |-> "&", equal |-> "=", percent |-> "%"]

(* http_urldecode: the value up to the first escape that makes no sense.   *)
DecodeDropsEscape(text) ==
  LET decoded[i \in 1..Len(text) + 3] ==
        IF i > Len(text) THEN <<>>
        ELSE IF text[i] = "%" THEN decoded[i + 3]
        ELSE <<text[i]>> \o decoded[i + 1]
  IN decoded[1]

Decode(text) ==
  LET meant(i) == {e \in DOMAIN Escapes :
                     IsPrefix(Escapes[e], SubSeq(text, i + 1, Len(text)))}
      decoded[i \in 1..Len(text) + 1] ==
        IF i > Len(text) THEN <<>>
        ELSE IF text[i] # "%" THEN <<text[i]>> \o decoded[i + 1]
        ELSE IF meant(i) = {} THEN <<>>
        ELSE <<Escaped[CHOOSE e \in meant(i) : TRUE]>> \o decoded[i + 3]
  IN decoded[1]

(* strnchr: the first place of a character, 0 if there is none.            *)
Find(text, char) == SelectInSeq(text, LAMBDA c : c = char)

(* The loop of receivecb and http_request_context_add_parameter: a name    *)
(* runs to the next "=", wherever it is, a value to the next "&".          *)
Parameters(query) ==
  LET parsed[i \in 1..Len(query) + 1] ==
        LET line  == SubSeq(query, i, Len(query))
            equal == Find(line, "=")
            rest  == SubSeq(line, equal + 1, Len(line))
            value == SubSeq(rest, 1, IF Find(rest, "&") = 0 THEN Len(rest)
                                     ELSE Find(rest, "&") - 1)
        IN IF equal = 0 THEN <<>>
           ELSE <<[param |-> Cut(SubSeq(line, 1, equal - 1)),
                   value |-> Decode(Cut(value))]>>
                  \o (IF Find(rest, "&") = 0 THEN <<>>
                      ELSE parsed[i + equal + Find(rest, "&")])
  IN parsed[1]

(* http_request_context_lookup: the first parameter of that name.          *)
Position(params, name) == SelectInSeq(params, LAMBDA p : p.param = name)
Given(params, name) == Position(params, name) # 0
Lookup(params, name) == params[Position(params, name)].value

-----------------------------------------------------------------------------
(* http_register_handler: the first free slot, if there is one.            *)
RegisterHandler(handlers, namespace) ==
  IF Len(handlers) < MaxHandlers THEN Append(handlers, namespace) ELSE handlers

(* receivecb: the first handler whose namespace the resource begins with.  *)
(* A resource that no namespace begins goes on to the empty slots, whose   *)
(* NULL is followed; all resources of a client begin with "/".             *)
HandlerFor(handlers, resource) ==
  handlers[SelectInSeq(handlers, LAMBDA h : IsPrefix(h, Cut(resource)))]
=============================================================================
