--------------------------------- MODULE Codec ---------------------------------
(***************************************************************************)
(* The stock codecs (src/codec.rs) as operators.  A message, a typed value *)
(* and an error are items [type, format, n]: the type is the Message       *)
(* variant, "value" or the Error variant; the format says how the bytes of *)
(* a body are written; n is what they say.                                 *)
(***************************************************************************)
Item(type, format, n) == [type |-> type, format |-> format, n |-> n]

Error(variant) == Item(variant, "none", 0)
ErrorVariants == {"Codec", "UnexpectedMessageType", "WebsocketClosed", "WebsocketError"}

\* A value of Tx or Rx; serde may refuse to serialize one.
Value(n) == Item("value", "serializable", n)
Unserializable(n) == Item("value", "unserializable", n)

CodecNames == {"Json", "MsgPack", "Raw"}

\* serde_json and rmp_serde.  No body is valid in both formats for the user's type, as
\* is so for structs and enums (a JSON digit, say, is a MessagePack integer too).
Format(codec) == IF codec = "Json" THEN "json" ELSE "msgpack"

\* Slip: both codecs send text.
EncodesAsText(codec) == "Text"

EncodesAs(codec) == IF codec = "Json" THEN "Text" ELSE "Binary"

\* JSON may come in a binary frame too.
DecodesFrom(codec) == IF codec = "Json" THEN {"Text", "Binary"} ELSE {"Binary"}

encode(codec, v) ==
    IF codec = "Raw" THEN v
    ELSE IF v.format = "unserializable" THEN Error("Codec")
    ELSE Item(EncodesAs(codec), Format(codec), v.n)

decode(codec, m) ==
    IF codec = "Raw" THEN m
    ELSE IF m.type \notin DecodesFrom(codec) THEN Error("UnexpectedMessageType")
    ELSE IF m.format # Format(codec) THEN Error("Codec")
    ELSE Value(m.n)
================================================================================
