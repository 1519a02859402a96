----------------------------- MODULE MCResponse -----------------------------
(***************************************************************************)
(* Short responses, whole and broken ones, and a token that starts with    *)
(* what may run into it.                                                   *)
(***************************************************************************)
EXTENDS Response

MCToken == <<"a", "b">>

(* x ab 1 2 quote y, in one piece and in chunks; a token that its own start    *)
(* hides; two tokens; a token with a stranger in it; a token without an    *)
(* end; a body too long for the width of its length; no body; a            *)
(* redirection with a body; and responses that break off the protocol.     *)
MCResponses ==
  {Sized(200, <<>>, <<"x", "a", "b", "1", "quote", "y">>),
   Chunked(200, <<<<"s", "1">>, <<"t", "2">>, <<"s", "3">>>>,
           <<<<"x", "a">>, <<"b", "1", "2">>, <<"quote", "y">>>>),
   Chunked(200, <<>>, <<<<"a", "a", "b", "1">>, <<"a">>, <<"b", "2", "quote">>>>),
   Sized(200, <<>>, <<"a", "b", "1", "a", "b", "quote">>),
   Sized(200, <<>>, <<"a", "x", "b", "quote">>),
   Sized(200, <<>>, <<"x", "a", "b", "1", "quote", "y", "x", "y", "x">>),
   Sized(200, <<<<"s", "1">>>>, <<>>),
   Sized(302, <<<<"s", "1">>, <<"s", "2">>>>, <<"a", "b", "1", "quote">>),
   Malformed(<<"HTTP/1.1 ", "OK">> \o CRLF),
   Malformed(<<"HTTP/1.1 ", "200", " ", "OK", "CR", "x">>),
   Malformed(<<"HTTP/1.1 ", "200", " ", "OK">> \o CRLF \o <<"junk">> \o CRLF),
   Malformed(<<"HTTP/1.1 ", "200", " ", "OK">> \o CRLF \o <<"CR", "x">>),
   Malformed(<<"HTTP/1.1 ", "200", " ", "OK">> \o CRLF
               \o <<"Transfer-Encoding: ", "chunked">> \o CRLF \o CRLF
               \o <<"x">> \o CRLF),
   Malformed(<<"HTTP/1.1 ", "200", " ", "OK">> \o CRLF
               \o <<"Transfer-Encoding: ", "chunked">> \o CRLF \o CRLF
               \o <<"1">> \o CRLF \o <<"x", "y", "CR", "x">>),
   Malformed(<<"HTTP/1.1 ", "200", " ", "OK">> \o CRLF
               \o <<"Transfer-Encoding: ", "chunked">> \o CRLF \o CRLF
               \o <<"1">> \o CRLF \o <<"x", "CR", "x">>)}
=============================================================================
