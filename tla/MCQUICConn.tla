------------------------------ MODULE MCQUICConn ------------------------------
(***************************************************************************)
(* QUICConn for TLC: a KeepAlive frame (header only, 14 bytes) and a Data  *)
(* frame with a two-byte payload, two writes, and the code's 4096-byte     *)
(* read buffer.                                                            *)
(***************************************************************************)
EXTENDS QUICConn

MCFrames == {NewPacket(PacketTypeKeepAlive, <<0, 0, 0, 7>>, <<>>),
             NewPacket(PacketTypeData, <<0, 0, 0, 7>>, <<69, 0>>)}
MCBufSize == 4096
MCMaxWrites == 2
=============================================================================
