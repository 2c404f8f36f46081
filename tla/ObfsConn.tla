------------------------------ MODULE ObfsConn ------------------------------
(***************************************************************************)
(* One direction of an ObfuscatedConnection (package transport, carried in *)
(* pkg/server/server.go): the writing side's Write, called by possibly     *)
(* several goroutines, the TLS byte stream, and the reading side's Read.   *)
(*                                                                         *)
(* Write builds len(b) as 4 big-endian bytes followed by b, XORs it with   *)
(* the key from a copy of c.keyPos, stores the advanced cursor back, and   *)
(* writes the packet to the TLS connection.  Nothing locks c.keyPos, so    *)
(* the three are separate steps.  tls.Conn.Write holds the connection's    *)
(* write lock, so one packet enters the stream whole.  Read reads the 4    *)
(* prefix bytes, de-XORs them from a copy of c.keyPos, rejects a length    *)
(* above 65535, reads the body and de-XORs it with c.keyPos itself.       *)
(*                                                                         *)
(* Each side's key is its transport's key: NewObfuscatedTransport draws it *)
(* at random and SetKey may replace it.  The bytes of a key are small      *)
(* integers; KeyLen is 32 in the code.                                     *)
(***************************************************************************)
EXTENDS Naturals, Sequences, SequencesExt, Bitwise, Framing

CONSTANTS
  Keys,       \* keys a transport may hold, each of the same length
  Msgs,       \* messages written (framed packets, as byte sequences)
  Writers,    \* goroutines that call Write on the connection
  MaxWrites   \* bound on the number of Write calls

VARIABLES
  wkey, rkey, \* the key of the writing and of the reading side
  wPos,       \* the writing side's c.keyPos
  rPos,       \* the reading side's c.keyPos
  wpc,        \* per writer: "idle", "store" (before c.keyPos = temp), "send"
  wtmp,       \* per writer: its tempKeyPos after obfuscating
  wpkt,       \* per writer: the obfuscated packet
  wmsg,       \* per writer: the message b of its Write
  stream,     \* bytes on the TLS connection, not yet read
  written,    \* messages in the order their packets entered the stream
  rpc,        \* reader: "len" (reading the prefix), "body", or "failed"
  rlen,       \* reader: the decoded body length
  delivered   \* messages Read has returned, in order

vars == <<wkey, rkey, wPos, rPos, wpc, wtmp, wpkt, wmsg, stream, written,
          rpc, rlen, delivered>>

KeyLen == Len(CHOOSE k \in Keys : TRUE)

\* obfuscate(data, key, &pos): data[i] ^= key[pos]; pos = (pos+1) % len(key).
Obfuscate(data, key, pos) ==
  [i \in 1..Len(data) |-> data[i] ^^ key[((pos + i - 1) % Len(key)) + 1]]

\* The cursor after obfuscate has consumed n bytes from pos.
Advance(pos, n, key) == (pos + n) % Len(key)

\* length > 65535 for a big-endian uint32: a high byte is not zero.
LengthTooLarge(lenBuf) == lenBuf[1] # 0 \/ lenBuf[2] # 0

\* binary.BigEndian.Uint32 of a prefix that is at most 65535.
PrefixLength(lenBuf) == Uint(Slice(lenBuf, 2, 4))

Init ==
  /\ wkey \in Keys
  /\ rkey \in Keys
  /\ wPos = 0
  /\ rPos = 0
  /\ wpc = [w \in Writers |-> "idle"]
  /\ wtmp = [w \in Writers |-> 0]
  /\ wpkt = [w \in Writers |-> <<>>]
  /\ wmsg = [w \in Writers |-> <<>>]
  /\ stream = <<>>
  /\ written = <<>>
  /\ rpc = "len"
  /\ rlen = 0
  /\ delivered = <<>>

\* The Write calls made so far, finished or not.
Calls == Len(written) + Cardinality({w \in Writers : wpc[w] # "idle"})

\* Write, lines 577-584: packet = len(b) | b, obfuscated from a copy of
\* c.keyPos.
WriteObfuscate(w, m) ==
  /\ wpc[w] = "idle"
  /\ Calls < MaxWrites
  /\ LET packet == PutUint(Len(m), 4) \o m
     IN  /\ wpkt' = [wpkt EXCEPT ![w] = Obfuscate(packet, wkey, wPos)]
         /\ wtmp' = [wtmp EXCEPT ![w] = Advance(wPos, Len(packet), wkey)]
  /\ wmsg' = [wmsg EXCEPT ![w] = m]
  /\ wpc' = [wpc EXCEPT ![w] = "store"]
  /\ UNCHANGED <<wkey, rkey, wPos, rPos, stream, written, rpc, rlen, delivered>>

\* Write, line 585: c.keyPos = tempKeyPos.
WriteStore(w) ==
  /\ wpc[w] = "store"
  /\ wPos' = wtmp[w]
  /\ wpc' = [wpc EXCEPT ![w] = "send"]
  /\ UNCHANGED <<wkey, rkey, rPos, wtmp, wpkt, wmsg, stream, written, rpc,
                 rlen, delivered>>

\* Write, lines 588-593: c.conn.Write(packet), under the TLS write lock.
WriteSend(w) ==
  /\ wpc[w] = "send"
  /\ stream' = stream \o wpkt[w]
  /\ written' = Append(written, wmsg[w])
  /\ wpc' = [wpc EXCEPT ![w] = "idle"]
  /\ UNCHANGED <<wkey, rkey, wPos, rPos, wtmp, wpkt, wmsg, rpc, rlen,
                 delivered>>

(***************************************************************************)
(* Read, lines 547-560: io.ReadFull of the 4-byte prefix, de-XORed from a  *)
(* copy of c.keyPos (which stays where it was); a length above 65535 is    *)
(* returned as an error, which ends the caller's read loop.               *)
(***************************************************************************)
ReadPrefix ==
  /\ rpc = "len"
  /\ Len(stream) >= 4
  /\ LET lenBuf == Obfuscate(SubSeq(stream, 1, 4), rkey, rPos)
     IN  IF LengthTooLarge(lenBuf)
           THEN /\ rpc' = "failed"
                /\ UNCHANGED rlen
           ELSE /\ rpc' = "body"
                /\ rlen' = PrefixLength(lenBuf)
  /\ stream' = SubSeq(stream, 5, Len(stream))
  /\ UNCHANGED <<wkey, rkey, wPos, rPos, wpc, wtmp, wpkt, wmsg, written,
                 delivered>>

\* Read, lines 562-572: io.ReadFull of the body, de-XORed with c.keyPos
\* itself, which advances by the body's length; n = copy(b, data).
ReadBody ==
  /\ rpc = "body"
  /\ Len(stream) >= rlen
  /\ delivered' = Append(delivered, Obfuscate(SubSeq(stream, 1, rlen), rkey, rPos))
  /\ rPos' = Advance(rPos, rlen, rkey)
  /\ stream' = SubSeq(stream, rlen + 1, Len(stream))
  /\ rpc' = "len"
  /\ UNCHANGED <<wkey, rkey, wPos, wpc, wtmp, wpkt, wmsg, written, rlen>>

Next ==
  \/ \E w \in Writers, m \in Msgs : WriteObfuscate(w, m)
  \/ \E w \in Writers : WriteStore(w) \/ WriteSend(w)
  \/ ReadPrefix
  \/ ReadBody

Spec == Init /\ [][Next]_vars

-----------------------------------------------------------------------------
(* Properties *)

ObfsTypeOK ==
  /\ wPos \in 0 .. (KeyLen - 1)
  /\ rPos \in 0 .. (KeyLen - 1)
  /\ wpc \in [Writers -> {"idle", "store", "send"}]
  /\ rpc \in {"len", "body", "failed"}
  /\ stream \in Seq(0..255)

\* Spec 4.3: every write(buf) is delivered to one read on the peer with the
\* same bytes, and the rolling key position of the two sides stays in step
\* across messages.  So what Read has returned is the sequence of messages
\* whose packets entered the stream first, byte for byte.
MessageContract == IsPrefix(delivered, written)

=============================================================================
