------------------------------ MODULE MCFraming ------------------------------
(***************************************************************************)
(* FramingTamper instantiated for TLC: every packet type the code sends, a zero  *)
(* and a multi-byte session id, an empty and a two-byte data payload, two  *)
(* timestamps, and one adversary edit per frame (spec 8.2 is about single  *)
(* edits; the edit is any bit of any byte, a cut, or an appended byte).   *)
(***************************************************************************)
EXTENDS FramingTamper

MCTypes == {PacketTypeHandshakeInit, PacketTypeHandshakeResponse,
            PacketTypeData, PacketTypeKeepAlive, PacketTypeDisconnect}
MCSids == {<<0, 0, 0, 0>>, <<0, 0, 1, 258>>}
MCPayloads == {<<>>, <<69, 0>>}
MCStamps == {<<0, 0, 0, 0>>, <<0, 0, 25939, 61696>>}   \* 0 and 1700000000
MCBytes == {0, 255}
MCMaxEdits == 1
=============================================================================
