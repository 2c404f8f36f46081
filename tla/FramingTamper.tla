---------------------------- MODULE FramingTamper ----------------------------
(***************************************************************************)
(* A harness for Framing: a marshalled frame on the wire and an adversary  *)
(* that flips bits, cuts or extends it, with properties 8.1 and 8.2 of the *)
(* spec checked against the receiver's UnmarshalPacket.                    *)
(***************************************************************************)
EXTENDS Framing

(***************************************************************************)
(* Harness.  A sender marshals NewPacket(type, sid, payload) and puts it   *)
(* on the wire; before the receiver runs UnmarshalPacket on the bytes, an *)
(* adversary may edit them up to MaxEdits times: flip one bit of a byte,   *)
(* cut the last byte, or append a byte.  The raw-TCP and QUIC transports  *)
(* carry the bytes unauthenticated, and the obfuscated transport's XOR is *)
(* malleable bit by bit, so these are the edits an attacker can make.     *)
(***************************************************************************)
CONSTANTS
  Types,      \* packet types the sender uses
  Sids,       \* session ids, as four 16-bit digits
  Payloads,   \* payloads of data and keepalive packets: sequences of bytes
  Stamps,     \* handshake timestamps, as four 16-bit digits
  Bytes,      \* byte values the adversary appends
  MaxEdits    \* bound on the adversary's edits of one frame

VARIABLES
  sent,       \* the packet the sender built
  body,       \* the handshake message it carries, or <<>> for other types
  wire,       \* the bytes the receiver will read
  edits       \* number of edits made so far

vars == <<sent, body, wire, edits>>

\* A 32-byte key and padding, distinct bytes so that a misplaced field shows.
Key == [i \in 1..32 |-> i]
Pad == [i \in 1..32 |-> 255 - i]

\* The handshake bodies the client (performHandshake) and the server
\* (handleConnection) build for session id s.
Inits == {[pub |-> Key, ts |-> t, pad |-> Pad] : t \in Stamps}
Responses(s) ==
  {[pub |-> Key, sid |-> s, ip |-> <<10, 8, 0, 2>>, srv |-> <<10, 8, 0, 1>>,
    subnet |-> 24, pad |-> Pad]}

\* (body, payload) pairs the sender may put in a packet of type t.
Contents(t, s) ==
  CASE t = PacketTypeHandshakeInit ->
         {<<h, MarshalHandshakeInit(h)>> : h \in Inits}
    [] t = PacketTypeHandshakeResponse ->
         {<<h, MarshalHandshakeResponse(h)>> : h \in Responses(s)}
    [] OTHER -> {<<<<>>, pl>> : pl \in Payloads}

Init ==
  \E t \in Types, s \in Sids : \E c \in Contents(t, s) :
    /\ sent = NewPacket(t, s, c[2])
    /\ body = c[1]
    /\ wire = Marshal(sent)
    /\ edits = 0

FlipBit(i, k) ==
  /\ edits < MaxEdits
  /\ wire' = [wire EXCEPT ![i] = @ ^^ (2^k)]
  /\ edits' = edits + 1
  /\ UNCHANGED <<sent, body>>

Truncate ==
  /\ edits < MaxEdits
  /\ wire # <<>>
  /\ wire' = Front(wire)
  /\ edits' = edits + 1
  /\ UNCHANGED <<sent, body>>

Extend(b) ==
  /\ edits < MaxEdits
  /\ wire' = Append(wire, b)
  /\ edits' = edits + 1
  /\ UNCHANGED <<sent, body>>

Next ==
  \/ \E i \in 1..Len(wire), k \in 0..7 : FlipBit(i, k)
  \/ Truncate
  \/ \E b \in Bytes : Extend(b)

Spec == Init /\ [][Next]_vars

\* What the receiver makes of the wire.
Received == UnmarshalPacket(wire)

-----------------------------------------------------------------------------
(* Properties *)

\* What the receiver makes of the handshake body of an accepted packet.
ReceivedBody ==
  CASE Received.pkt.type = PacketTypeHandshakeInit ->
         UnmarshalHandshakeInit(Received.pkt.payload)
    [] Received.pkt.type = PacketTypeHandshakeResponse ->
         UnmarshalHandshakeResponse(Received.pkt.payload)

\* Spec 8.1: UnmarshalPacket(Marshal(NewPacket(t, s, p))) gives back the
\* packet the sender built, field for field, and the handshake bodies the
\* client and server marshal into it parse back to the same message.
RoundTrip ==
  edits = 0 =>
    /\ Received = [err |-> "none", pkt |-> sent]
    /\ body # <<>> => ReceivedBody = [err |-> "none", msg |-> body]

(***************************************************************************)
(* Spec 8.1, second half: whatever bytes reach the receiver, either       *)
(* UnmarshalPacket rejects them or Packet.Marshal of what it returns is    *)
(* those bytes again, up to trailing padding.  A parse that accepts a     *)
(* frame must neither lose nor invent a header field or payload byte, for *)
(* flipped session-id and type bytes and for cut or extended frames too.  *)
(***************************************************************************)
ParseMarshalsBack ==
  Received.err = "none" =>
    LET m == Marshal(Received.pkt)
    IN  Len(m) <= Len(wire) /\ m = SubSeq(wire, 1, Len(m))

\* Spec 8.2: a frame in which one edit changed the magic, version or
\* length bytes, or the frame's length, is rejected by UnmarshalPacket.
HeaderTamperRejected ==
  (/\ edits = 1
   /\ \/ Len(wire) # Len(Marshal(sent))
      \/ \E i \in {1, 2, 3, 13, 14} : wire[i] # Marshal(sent)[i])
    => Received.err # "none"

=============================================================================
