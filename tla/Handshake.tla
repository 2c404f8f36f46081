------------------------------ MODULE Handshake ------------------------------
(***************************************************************************)
(* Key agreement and the encrypted data path between one client and the   *)
(* server: performHandshake (client.go), the handshake part and the Data  *)
(* case of handleConnection and tunReadLoop (server.go), tunReadLoop and  *)
(* receiveLoop's Data case (client.go), and the key schedule and AEAD     *)
(* session of pkg/crypto/crypto.go.                                        *)
(*                                                                         *)
(* The primitives are ideal.  A key pair is named by its public key; X25519 *)
(* of one side's private key and the other's public key is the unordered   *)
(* pair of the two public keys (so both sides get the same secret), and   *)
(* the zero point when the peer's key is a low-order point.  HKDF output   *)
(* is a record of its inputs, so two outputs are equal exactly when the   *)
(* secret, the salt and the block are.  A sealed frame records the key it *)
(* was sealed under; Open succeeds exactly when the opener's key is that  *)
(* key.  The frames travel over a reliable message transport (spec 4.3).  *)
(***************************************************************************)
EXTENDS Naturals, Sequences

CONSTANTS
  ClientPub,  \* the client's key pair (GenerateKeyPair in client.New)
  ServerPub,  \* the server's key pair (GenerateKeyPair in server.New)
  LowOrder,   \* low-order points a peer may present as its public key
  Salts,      \* values GenerateRandomBytes(32) may return
  ZeroSalt,   \* make([]byte, 32)
  Datagrams,  \* tunnel packets
  MaxSeals    \* bound on the Data frames each side sends

\* The all-zero point, as a secret no pair of key pairs yields.
ZeroPoint == {}

VARIABLES
  cpc,        \* client: "start", "awaitResp", "up", "failed"
  spc,        \* server handler: "awaitInit", "up", "closed"
  csess,      \* the client's crypto.Session (or <<>> before it exists)
  ssess,      \* the server's crypto.Session for this client
  toServer,   \* frames from client to server, in order
  toClient,   \* frames from server to client, in order
  cseals,     \* Data frames the client has sealed
  sseals,     \* Data frames the server has sealed
  srvTun,     \* datagrams the server wrote to its TUN
  cliTun      \* datagrams the client wrote to its TUN

vars == <<cpc, spc, csess, ssess, toServer, toClient, cseals, sseals,
          srvTun, cliTun>>

\* ComputeSharedSecret: X25519, and the rejection of the all-zero result.
SharedSecret(myPub, peerPub) ==
  IF peerPub \in LowOrder THEN ZeroPoint ELSE {myPub, peerPub}

\* HKDF-SHA256(secret, salt, "hydravpn-session-keys"): blocks 1 and 2.
HKDF(secret, salt, block) == [ikm |-> secret, salt |-> salt, block |-> block]

\* DeriveSessionKeys: the initiator sends with key1 and receives with
\* key2, the responder the other way round; both nonce counters start at 0.
DeriveSessionKeys(secret, isInitiator, salt) ==
  LET key1 == HKDF(secret, salt, 1)
      key2 == HKDF(secret, salt, 2)
  IN  [send |-> IF isInitiator THEN key1 ELSE key2,
       recv |-> IF isInitiator THEN key2 ELSE key1,
       sendNonce |-> 0, recvNonce |-> 0]

\* Session.Encrypt: seal under SendKey with the counter as the nonce's
\* first 8 bytes (the 16 random bytes are left out), then SendNonce++.
Seal(sess, pt) == [key |-> sess.send, nonce |-> sess.sendNonce, pt |-> pt]
Sealed(sess) == [sess EXCEPT !.sendNonce = @ + 1]

\* Session.Decrypt: the AEAD opens only under the key it was sealed with;
\* RecvNonce++ only on success.
Opens(sess, ct) == ct.key = sess.recv
Opened(sess) == [sess EXCEPT !.recvNonce = @ + 1]

Init ==
  /\ cpc = "start"
  /\ spc = "awaitInit"
  /\ csess = <<>>
  /\ ssess = <<>>
  /\ toServer = <<>>
  /\ toClient = <<>>
  /\ cseals = 0
  /\ sseals = 0
  /\ srvTun = <<>>
  /\ cliTun = <<>>

\* performHandshake, lines 156-170: write the HandshakeInit frame.
SendInit ==
  /\ cpc = "start"
  /\ toServer' = Append(toServer, [type |-> "init", pub |-> ClientPub])
  /\ cpc' = "awaitResp"
  /\ UNCHANGED <<spc, csess, ssess, toClient, cseals, sseals, srvTun, cliTun>>

(***************************************************************************)
(* handleConnection, lines 229-322: read the HandshakeInit, compute the    *)
(* shared secret (return on a low-order key), derive keys as responder     *)
(* with a fresh random salt, and write the HandshakeResponse.  Session id, *)
(* pool and table are the Server module's; here they always succeed.      *)
(***************************************************************************)
RecvInit ==
  /\ spc = "awaitInit"
  /\ toServer # <<>>
  /\ Head(toServer).type = "init"
  /\ toServer' = Tail(toServer)
  /\ LET secret == SharedSecret(ServerPub, Head(toServer).pub)
     IN  IF secret = ZeroPoint
           THEN /\ spc' = "closed"
                /\ UNCHANGED <<ssess, toClient>>
           ELSE \E salt \in Salts :
                  /\ ssess' = DeriveSessionKeys(secret, FALSE, salt)
                  /\ toClient' = Append(toClient, [type |-> "resp", pub |-> ServerPub])
                  /\ spc' = "up"
  /\ UNCHANGED <<cpc, csess, cseals, sseals, srvTun, cliTun>>

\* performHandshake, lines 172-213: read the HandshakeResponse, compute the
\* shared secret, derive keys as initiator with an all-zero salt.
RecvResp ==
  /\ cpc = "awaitResp"
  /\ toClient # <<>>
  /\ Head(toClient).type = "resp"
  /\ toClient' = Tail(toClient)
  /\ LET secret == SharedSecret(ClientPub, Head(toClient).pub)
     IN  IF secret = ZeroPoint
           THEN /\ cpc' = "failed"
                /\ UNCHANGED csess
           ELSE /\ csess' = DeriveSessionKeys(secret, TRUE, ZeroSalt)
                /\ cpc' = "up"
  /\ UNCHANGED <<spc, ssess, toServer, cseals, sseals, srvTun, cliTun>>

\* Client tunReadLoop, lines 229-252: Encrypt a datagram and send it.
ClientSeal(d) ==
  /\ cpc = "up"
  /\ cseals < MaxSeals
  /\ toServer' = Append(toServer, [type |-> "data", ct |-> Seal(csess, d)])
  /\ csess' = Sealed(csess)
  /\ cseals' = cseals + 1
  /\ UNCHANGED <<cpc, spc, ssess, toClient, sseals, srvTun, cliTun>>

\* Server data loop, lines 346-360: Decrypt; on failure continue.
ServerOpen ==
  /\ spc = "up"
  /\ toServer # <<>>
  /\ Head(toServer).type = "data"
  /\ toServer' = Tail(toServer)
  /\ LET ct == Head(toServer).ct
     IN  IF Opens(ssess, ct)
           THEN /\ ssess' = Opened(ssess)
                /\ srvTun' = Append(srvTun, ct.pt)
           ELSE UNCHANGED <<ssess, srvTun>>
  /\ UNCHANGED <<cpc, spc, csess, toClient, cseals, sseals, cliTun>>

\* Server tunReadLoop, lines 395-418: Encrypt for the session, write.
ServerSeal(d) ==
  /\ spc = "up"
  /\ sseals < MaxSeals
  /\ toClient' = Append(toClient, [type |-> "data", ct |-> Seal(ssess, d)])
  /\ ssess' = Sealed(ssess)
  /\ sseals' = sseals + 1
  /\ UNCHANGED <<cpc, spc, csess, toServer, cseals, srvTun, cliTun>>

\* Client receiveLoop, lines 285-300: Decrypt; on failure continue.
ClientOpen ==
  /\ cpc = "up"
  /\ toClient # <<>>
  /\ Head(toClient).type = "data"
  /\ toClient' = Tail(toClient)
  /\ LET ct == Head(toClient).ct
     IN  IF Opens(csess, ct)
           THEN /\ csess' = Opened(csess)
                /\ cliTun' = Append(cliTun, ct.pt)
           ELSE UNCHANGED <<csess, cliTun>>
  /\ UNCHANGED <<cpc, spc, ssess, toServer, cseals, sseals, srvTun>>

Next ==
  \/ SendInit
  \/ RecvInit
  \/ RecvResp
  \/ \E d \in Datagrams : ClientSeal(d) \/ ServerSeal(d)
  \/ ServerOpen
  \/ ClientOpen

Spec == Init /\ [][Next]_vars

-----------------------------------------------------------------------------
(* Properties *)

\* Spec 8.4 and scenario S1: once both sides have derived their session,
\* the client's send key is the server's receive key and the other way
\* round, so every Data frame either side seals opens on the other.
KeysAgree ==
  (cpc = "up" /\ spc = "up") =>
    /\ csess.send = ssess.recv
    /\ csess.recv = ssess.send

=============================================================================
