------------------------------- MODULE Framing -------------------------------
(***************************************************************************)
(* The wire format of pkg/protocol/protocol.go as operators on byte        *)
(* sequences (a byte is an integer in 0..255): the 14-byte packet header,  *)
(* Marshal and UnmarshalPacket, and the bodies of HandshakeInit and        *)
(* HandshakeResponse.                                                      *)
(*                                                                         *)
(* Fixed-width integers are written and read big-endian as the code's     *)
(* binary.BigEndian does.  TLC's integers are 32-bit, so a 64-bit field   *)
(* (session id, timestamp) is a tuple of four 16-bit digits, most         *)
(* significant first: every 64-bit value, including any bit flip of one,  *)
(* has exactly one such tuple.                                            *)
(***************************************************************************)
EXTENDS Integers, Sequences, SequencesExt, Bitwise

MagicByte1 == 72        \* 0x48 'H'
MagicByte2 == 86        \* 0x56 'V'
ProtocolVersion == 1
HeaderSize == 14

PacketTypeHandshakeInit == 1
PacketTypeHandshakeResponse == 2
PacketTypeData == 3
PacketTypeKeepAlive == 4
PacketTypeDisconnect == 5

\* A little-endian writer, for mutation analysis.
RECURSIVE PutUintLE(_, _)
PutUintLE(n, w) ==
  IF w = 0 THEN <<>> ELSE <<n % 256>> \o PutUintLE(n \div 256, w - 1)

\* binary.BigEndian.PutUintW: n as w bytes, most significant first.
RECURSIVE PutUint(_, _)
PutUint(n, w) ==
  IF w = 0 THEN <<>> ELSE PutUint(n \div 256, w - 1) \o <<n % 256>>

\* binary.BigEndian.Uint16 (and any width below 4) of a slice.
RECURSIVE Uint(_)
Uint(bs) == IF bs = <<>> THEN 0 ELSE Uint(Front(bs)) * 256 + Last(bs)

\* data[from:to] in Go's zero-based, half-open slice notation.
Slice(data, from, to) == SubSeq(data, from + 1, to)

\* binary.BigEndian.PutUint64 of a value given as four 16-bit digits.
PutUint64(n) == FlattenSeq([i \in 1..4 |-> PutUint(n[i], 2)])

\* binary.BigEndian.Uint64 of an 8-byte slice, as four 16-bit digits.
Uint64(bs) == [i \in 1..4 |-> Uint(Slice(bs, 2 * (i - 1), 2 * i))]

\* NewPacket: the header's Length is uint16(len(payload)).
NewPacket(type, sid, payload) ==
  [magic |-> <<MagicByte1, MagicByte2>>, version |-> ProtocolVersion,
   type |-> type, sid |-> sid, length |-> Len(payload) % 2^16,
   payload |-> payload]

\* Packet.Marshal: header fields in order, then the payload.
Marshal(p) ==
  p.magic \o <<p.version, p.type>> \o PutUint64(p.sid)
    \o PutUint(p.length, 2) \o p.payload

\* UnmarshalPacket without the length check, for mutation analysis.
UnmarshalNoLengthCheck(data) ==
  IF Len(data) < HeaderSize THEN [err |-> "packet too short"]
  ELSE IF data[1] # MagicByte1 \/ data[2] # MagicByte2
    THEN [err |-> "invalid magic bytes"]
  ELSE IF data[3] # ProtocolVersion
    THEN [err |-> "unsupported protocol version"]
  ELSE [err |-> "none",
        pkt |-> [magic |-> Slice(data, 0, 2), version |-> data[3],
                 type |-> data[4], sid |-> Uint64(Slice(data, 4, 12)),
                 length |-> Uint(Slice(data, 12, 14)),
                 payload |-> Slice(data, HeaderSize, Len(data))]]

\* UnmarshalPacket checking only the low byte of Length, with the payload
\* built as the code builds it (make([]byte, Length), then copy of
\* data[14:]), for mutation analysis.
UnmarshalLowByteLength(data) ==
  IF Len(data) < HeaderSize THEN [err |-> "packet too short"]
  ELSE IF data[1] # MagicByte1 \/ data[2] # MagicByte2
    THEN [err |-> "invalid magic bytes"]
  ELSE IF data[3] # ProtocolVersion
    THEN [err |-> "unsupported protocol version"]
  ELSE IF data[14] # Len(data) - HeaderSize
    THEN [err |-> "payload length mismatch"]
  ELSE LET n == Uint(Slice(data, 12, 14)) IN
       [err |-> "none",
        pkt |-> [magic |-> Slice(data, 0, 2), version |-> data[3],
                 type |-> data[4], sid |-> Uint64(Slice(data, 4, 12)),
                 length |-> n,
                 payload |-> [i \in 1..n |->
                               IF HeaderSize + i <= Len(data)
                                 THEN data[HeaderSize + i] ELSE 0]]]

(***************************************************************************)
(* UnmarshalPacket: the checks in the code's order, each an early return   *)
(* of an error; on success the packet.  The payload is data[14:], whose    *)
(* length the length check has made equal to the header's Length.         *)
(***************************************************************************)
UnmarshalPacket(data) ==
  IF Len(data) < HeaderSize THEN [err |-> "packet too short"]
  ELSE IF data[1] # MagicByte1 \/ data[2] # MagicByte2
    THEN [err |-> "invalid magic bytes"]
  ELSE IF data[3] # ProtocolVersion
    THEN [err |-> "unsupported protocol version"]
  ELSE IF Uint(Slice(data, 12, 14)) # Len(data) - HeaderSize
    THEN [err |-> "payload length mismatch"]
  ELSE [err |-> "none",
        pkt |-> [magic |-> Slice(data, 0, 2), version |-> data[3],
                 type |-> data[4], sid |-> Uint64(Slice(data, 4, 12)),
                 length |-> Uint(Slice(data, 12, 14)),
                 payload |-> Slice(data, HeaderSize, Len(data))]]

\* MarshalHandshakeInit: public key (32) | timestamp (8) | padding (32).
MarshalHandshakeInit(h) ==
  h.pub \o PutUint64(h.ts) \o h.pad

\* UnmarshalHandshakeInit: at least 72 bytes; anything after is ignored.
UnmarshalHandshakeInit(data) ==
  IF Len(data) < 72 THEN [err |-> "handshake init too short"]
  ELSE [err |-> "none",
        msg |-> [pub |-> Slice(data, 0, 32), ts |-> Uint64(Slice(data, 32, 40)),
                 pad |-> Slice(data, 40, 72)]]

\* MarshalHandshakeResponse: key (32) | session id (8) | assigned IP (4) |
\* server IP (4) | subnet bits (1) | padding (32).
MarshalHandshakeResponse(h) ==
  h.pub \o PutUint64(h.sid) \o h.ip \o h.srv \o <<h.subnet>> \o h.pad

\* UnmarshalHandshakeResponse: at least 81 bytes; anything after is ignored.
UnmarshalHandshakeResponse(data) ==
  IF Len(data) < 81 THEN [err |-> "handshake response too short"]
  ELSE [err |-> "none",
        msg |-> [pub |-> Slice(data, 0, 32), sid |-> Uint64(Slice(data, 32, 40)),
                 ip |-> Slice(data, 40, 44), srv |-> Slice(data, 44, 48),
                 subnet |-> data[49], pad |-> Slice(data, 49, 81)]]

=============================================================================
