------------------------------ MODULE QUICConn ------------------------------
(***************************************************************************)
(* One direction of a QUICConnection (pkg/transport/quic.go) and the read  *)
(* loop on the other end.                                                  *)
(*                                                                         *)
(* Write is stream.Write: the frame's bytes join the stream in order.      *)
(* Read is stream.Read(buf): it returns as soon as some bytes have         *)
(* arrived, at most len(buf) of them, so a read can end inside a frame or  *)
(* run into the next one; where it ends depends on how the peer's writes  *)
(* were packetised and when the packets arrived, so the model lets it end *)
(* anywhere.  The receiver is the loop of receiveLoop (client.go) and of  *)
(* handleConnection (server.go): n := conn.Read(buf); UnmarshalPacket(     *)
(* buf[:n]); on an error, continue with the next read.                     *)
(***************************************************************************)
EXTENDS Naturals, Sequences, FiniteSetsExt, Framing

CONSTANTS
  Frames,     \* packets the writer sends (NewPacket results)
  BufSize,    \* len(buf) of the reader: 4096 in the code
  MaxWrites   \* bound on the number of writes

VARIABLES
  stream,     \* bytes written and not yet read, in order
  written,    \* the packets the writer has written, in order
  delivered,  \* the packets UnmarshalPacket accepted, in order
  dropped     \* reads whose bytes UnmarshalPacket rejected

vars == <<stream, written, delivered, dropped>>

Init ==
  /\ stream = <<>>
  /\ written = <<>>
  /\ delivered = <<>>
  /\ dropped = 0

\* QUICConnection.Write(p.Marshal()) = stream.Write: appends to the stream.
Write(p) ==
  /\ Len(written) < MaxWrites
  /\ stream' = stream \o Marshal(p)
  /\ written' = Append(written, p)
  /\ UNCHANGED <<delivered, dropped>>

(***************************************************************************)
(* One turn of the read loop: QUICConnection.Read returns the first n     *)
(* bytes of the stream, 1 <= n <= len(buf); the loop parses buf[:n] and    *)
(* either handles the packet or logs the error and continues.             *)
(***************************************************************************)
Read(n) ==
  /\ stream # <<>>
  /\ n \in 1 .. Min({Len(stream), BufSize})
  /\ LET r == UnmarshalPacket(SubSeq(stream, 1, n))
     IN  IF r.err = "none"
           THEN /\ delivered' = Append(delivered, r.pkt)
                /\ UNCHANGED dropped
           ELSE /\ dropped' = dropped + 1
                /\ UNCHANGED delivered
  /\ stream' = SubSeq(stream, n + 1, Len(stream))
  /\ UNCHANGED written

Next ==
  \/ \E p \in Frames : Write(p)
  \/ \E n \in 1 .. BufSize : Read(n)

Spec == Init /\ [][Next]_vars

-----------------------------------------------------------------------------
(* Properties *)

QUICTypeOK ==
  /\ stream \in Seq(0..255)
  /\ written \in Seq(Frames)
  /\ dropped \in Nat

\* Spec 4.3: the connection is message-oriented: every write(buf) reaches
\* one read on the peer with the same bytes.  So once the reader has
\* consumed everything written, UnmarshalPacket has accepted every frame,
\* in order, and dropped none.
EveryFrameDelivered == stream = <<>> => delivered = written

=============================================================================
