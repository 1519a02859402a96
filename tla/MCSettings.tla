----------------------------- MODULE MCSettings -----------------------------
(***************************************************************************)
(* The settings of a display with short addresses and pins.                *)
(***************************************************************************)
EXTENDS Settings

Field(name, value) == [name |-> <<name>>, value |-> value]

Set(var, val) ==
  [resource |-> SetHandler,
   fields |-> <<Field("var", <<var>>), Field("val", val)>>]

Get(var) == [resource |-> GetHandler, fields |-> <<Field("var", <<var>>)>>]

Invoke(fields) == [resource |-> InvokeHandler, fields |-> fields]

Page(resource) == [resource |-> resource, fields |-> <<>>]

(* Good and bad values of each variable: an address that is one too long,  *)
(* and one that the width of a size cuts to a good one; a pin that is one  *)
(* too short; a number beyond a byte, and none at all; a name with what    *)
(* means something in a request line; a key that is one too long.          *)
MCRequests ==
  {Set("email", <<"you", "@", "co">>), Set("email", <<"a", "@", "b", "c">>),
   Set("email", <<"you", "@", "co", "&", "x", "&", "y">>),
   Set("pin", <<"12", "34">>), Set("pin", <<"1">>),
   Set("brightness", <<"7">>),
   Set("brightness", <<"x">>), Set("active", <<"7">>),
   Invoke(<<Field("method", <<"savebrightness">>)>>),
   Invoke(<<Field("method", <<"setwifi">>), Field("ssid", <<"a", "&">>),
            Field("password", <<"=", "%">>)>>),
   Invoke(<<Field("method", <<"setwifi">>), Field("ssid", <<"b">>),
            Field("password", <<"x", "y", "z">>)>>),
   Invoke(<<Field("method", <<"setwifi">>), Field("ssid", <<"b">>)>>),
   Get("pin"), Page(SchemaHandler), Page(FailHandler), Page(RootHandler)}

MCNumbers ==
  [text \in {<<"7">>, <<"300">>, <<"1">>} |->
     CASE text = <<"7">> -> 7 [] text = <<"300">> -> 300 [] text = <<"1">> -> 1]
=============================================================================
