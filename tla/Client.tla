------------------------------- MODULE Client -------------------------------
(***************************************************************************)
(* The HydraVPN client core, pkg/client/client.go, together with the way   *)
(* cmd/hydra/main.go drives it: Connect once, wait for a signal, then      *)
(* Disconnect.                                                             *)
(*                                                                         *)
(* Every goroutine is a process with a program counter.  A Connect spawns  *)
(* tunReadLoop (if the TUN device opens), receiveLoop and keepaliveLoop    *)
(* of its generation g, the number of the connection it dialled.          *)
(* handleDisconnect spawns a reconnectLoop, keyed by the connection that   *)
(* was current when it ran.  The goroutines do not own a connection: each  *)
(* read or write fetches the field c.conn at the call, so a loop started   *)
(* for one connection reads and writes whatever connection is current.     *)
(* The connection a blocking call was made on is kept in on[p].            *)
(*                                                                         *)
(* The server and the network are the environment: a read on a healthy    *)
(* connection returns whatever frame the peer sends (or blocks), and a     *)
(* healthy connection may break at any time.  Keys, session ids and       *)
(* addresses are not represented: no step of the client branches on them. *)
(***************************************************************************)
EXTENDS Naturals, FiniteSets, TLC

CONSTANTS
  AutoReconnectValues,  \* configurations: false in main.go, true by default
  MaxConns              \* bound on the number of connections dialled

ASSUME AutoReconnectValues \subseteq BOOLEAN /\ MaxConns \in Nat \ {0}

Gens == 1 .. MaxConns

\* The main goroutine and the goroutines the client starts.
Main == <<"main", 0>>
Procs == {Main} \cup ({"tun", "recv", "ka", "rc"} \X Gens)

\* Goroutines c.wg counts: the three loops (reconnectLoop is not added).
WgProcs == {"tun", "recv", "ka"} \X Gens

VARIABLES
  pc,          \* pc[p]: where goroutine p is; "none": not started
  on,          \* on[p]: connection of p's pending read or write; 0 if none
  conn,        \* c.conn: number of the connection last dialled; 0 = nil
  connSt,      \* connSt[g]: "none", "up", "broken" (network), "closed" (by us)
  connected,   \* c.connected
  ctxDone,     \* c.ctx cancelled
  dialed,      \* connections dialled so far
  tunDev,      \* c.tunDevice: generation whose Connect opened it; 0 = nil
  tunOpen,     \* generations whose TUN device is open
  autoReconnect \* c.config.AutoReconnect, fixed when the client is built

vars == <<pc, on, conn, connSt, connected, ctxDone, dialed, tunDev, tunOpen,
          autoReconnect>>

(***************************************************************************)
(* With AutoReconnect off the client is driven by runClient, whose return  *)
(* (or log.Fatalf) ends the process.  With it on the client is used as a   *)
(* library: Connect and Disconnect return to a caller that goes on, and    *)
(* the client's goroutines keep running.                                   *)
(***************************************************************************)
Exited == ~autoReconnect /\ pc[Main] \in {"done", "fatal"}

Init ==
  /\ pc = [p \in Procs |-> IF p = Main THEN "dial" ELSE "none"]
  /\ on = [p \in Procs |-> 0]
  /\ conn = 0
  /\ connSt = [g \in Gens |-> "none"]
  /\ connected = FALSE
  /\ ctxDone = FALSE
  /\ dialed = 0
  /\ tunDev = 0
  /\ tunOpen = {}
  /\ autoReconnect \in AutoReconnectValues

\* Only p moves; conn, flags and devices are left alone.
Move(p, to) == pc' = (p :> to) @@ pc

Healthy(g) == connSt[g] = "up"

-----------------------------------------------------------------------------
(* handleDisconnect, run by goroutine p which then continues at next: *)
(* under connMu, if still connected clear the flag and, with           *)
(* AutoReconnect, start a reconnectLoop.                               *)

\* A variant that does not test c.connected first, for mutation analysis.
HandleDisconnectUnchecked(p, next) ==
  /\ connected' = FALSE
  /\ IF autoReconnect /\ pc[<<"rc", conn>>] = "none"
       THEN pc' = (p :> next @@ <<"rc", conn>> :> "top") @@ pc
       ELSE Move(p, next)

HandleDisconnect(p, next) ==
  IF ~connected
    THEN Move(p, next) /\ UNCHANGED connected
    ELSE /\ connected' = FALSE
         /\ Assert(pc[<<"rc", conn>>] = "none", "reconnectLoop key in use")
         /\ IF autoReconnect
              THEN pc' = (p :> next @@ <<"rc", conn>> :> "top") @@ pc
              ELSE Move(p, next)

\* Where a Connect returns to: runClient (log.Fatalf on error) or the
\* reconnect loop (return on success, next attempt on error).
ConnectOk(p) == IF p = Main THEN "running" ELSE "done"

ConnectErr(p) == IF p = Main THEN "fatal" ELSE "top"

-----------------------------------------------------------------------------
(* Connect, run by main or by a reconnectLoop p. *)

\* transport.Dial(c.ctx, ...); on success c.conn = conn and performHandshake
\* starts writing the HandshakeInit on it.  A dial under a cancelled
\* context fails.
Dial(p) ==
  /\ pc[p] = "dial"
  /\ \/ /\ ~ctxDone
        /\ dialed < MaxConns
        /\ dialed' = dialed + 1
        /\ conn' = dialed + 1
        /\ connSt' = [connSt EXCEPT ![dialed + 1] = "up"]
        /\ on' = [on EXCEPT ![p] = dialed + 1]
        /\ Move(p, "hsWrite")
     \/ /\ Move(p, ConnectErr(p))
        /\ UNCHANGED <<dialed, conn, connSt, on>>
  /\ UNCHANGED <<connected, ctxDone, tunDev, tunOpen, autoReconnect>>

\* Connect's error path after dialling: conn.Close() on its own connection.
HandshakeFails(p) ==
  /\ connSt' = [connSt EXCEPT ![on[p]] = "closed"]
  /\ on' = [on EXCEPT ![p] = 0]
  /\ Move(p, ConnectErr(p))

\* The HandshakeInit write returns; an error fails the handshake.
HsWriteDone(p) ==
  /\ pc[p] = "hsWrite"
  /\ IF Healthy(on[p]) THEN Move(p, "hsRead") /\ UNCHANGED <<connSt, on>>
                       ELSE HandshakeFails(p)
  /\ UNCHANGED <<conn, connected, ctxDone, dialed, tunDev, tunOpen,
                 autoReconnect>>

(***************************************************************************)
(* The response read returns.  On a dead connection it fails; on a live   *)
(* one the server's answer either parses as a HandshakeResponse and the   *)
(* session fields are set, or it does not (wrong type, short body, the     *)
(* server closed after a failed allocation) and Connect fails.             *)
(***************************************************************************)
HsRead(p) ==
  /\ pc[p] = "hsRead"
  /\ \/ /\ Healthy(on[p])
        /\ Move(p, "tunNew")
        /\ UNCHANGED <<connSt, on>>
     \/ HandshakeFails(p)
  /\ UNCHANGED <<conn, connected, ctxDone, dialed, tunDev, tunOpen,
                 autoReconnect>>

\* tun.New (tun.go): water.New creates the interface and configure sets
\* its addresses, MTU and routes; if configuring fails the interface is
\* closed before the error returns.  So New either opens device g or
\* leaves none open.
TunDeviceNew(g) == tunOpen' = tunOpen \cup {g}

\* TUNDevice.Close of device g: a Read blocked on it returns an error.
TunDeviceClose(g) == tunOpen' = tunOpen \ {g}

\* tun.New: on success c.tunDevice is the new device and tunReadLoop starts;
\* on failure the client runs tunnel-only and c.tunDevice is left as it was.
TunNew(p) ==
  /\ pc[p] = "tunNew"
  /\ \/ /\ tunDev' = on[p]
        /\ TunDeviceNew(on[p])
        /\ pc' = (p :> "mark" @@ <<"tun", on[p]>> :> "top") @@ pc
     \/ /\ Move(p, "mark")
        /\ UNCHANGED <<tunDev, tunOpen, autoReconnect>>
  /\ UNCHANGED <<on, conn, connSt, connected, ctxDone, dialed, autoReconnect>>

\* c.connected = true under connMu; receiveLoop and keepaliveLoop start.
Mark(p) ==
  /\ pc[p] = "mark"
  /\ connected' = TRUE
  /\ pc' = (p :> ConnectOk(p) @@ <<"recv", on[p]>> :> "top"
                              @@ <<"ka", on[p]>> :> "wait") @@ pc
  /\ on' = [on EXCEPT ![p] = 0]
  /\ UNCHANGED <<conn, connSt, ctxDone, dialed, tunDev, tunOpen, autoReconnect>>

-----------------------------------------------------------------------------
(* tunReadLoop *)

\* Loop top: return if c.ctx is done, else block in c.tunDevice.Read.
TunTop(t) ==
  /\ pc[t] = "top"
  /\ Move(t, IF ctxDone THEN "done" ELSE "read")
  /\ UNCHANGED <<on, conn, connSt, connected, ctxDone, dialed, tunDev, tunOpen,
                 autoReconnect>>

\* A datagram is read; it is sealed with c.cryptoSession and c.conn.Write
\* of the Data frame begins on the current connection.
TunReadPacket(t) ==
  /\ pc[t] = "read"
  /\ tunDev \in tunOpen
  /\ on' = [on EXCEPT ![t] = conn]
  /\ Move(t, "write")
  /\ UNCHANGED <<conn, connSt, connected, ctxDone, dialed, tunDev, tunOpen,
                 autoReconnect>>

\* The read fails because the device was closed: return if c.ctx is done,
\* else log and continue.
TunReadFail(t) ==
  /\ pc[t] = "read"
  /\ tunDev \notin tunOpen
  /\ Move(t, IF ctxDone THEN "done" ELSE "top")
  /\ UNCHANGED <<on, conn, connSt, connected, ctxDone, dialed, tunDev, tunOpen,
                 autoReconnect>>

\* The write returns: on error handleDisconnect and return.
TunWriteDone(t) ==
  /\ pc[t] = "write"
  /\ on' = [on EXCEPT ![t] = 0]
  /\ IF Healthy(on[t]) THEN Move(t, "top") /\ UNCHANGED connected
                       ELSE HandleDisconnect(t, "done")
  /\ UNCHANGED <<conn, connSt, ctxDone, dialed, tunDev, tunOpen, autoReconnect>>

-----------------------------------------------------------------------------
(* receiveLoop *)

\* Loop top: return if c.ctx is done, else block in c.conn.Read.
RecvTop(r) ==
  /\ pc[r] = "top"
  /\ IF ctxDone THEN Move(r, "done") /\ UNCHANGED on
                ELSE Move(r, "read") /\ on' = [on EXCEPT ![r] = conn]
  /\ UNCHANGED <<conn, connSt, connected, ctxDone, dialed, tunDev, tunOpen,
                 autoReconnect>>

\* The read fails: return if c.ctx is done, else handleDisconnect, return.
RecvError(r) ==
  /\ pc[r] = "read"
  /\ ~Healthy(on[r])
  /\ on' = [on EXCEPT ![r] = 0]
  /\ IF ctxDone THEN Move(r, "done") /\ UNCHANGED connected
                ELSE HandleDisconnect(r, "done")
  /\ UNCHANGED <<conn, connSt, ctxDone, dialed, tunDev, tunOpen, autoReconnect>>

\* A Data frame (decrypted or dropped, written to the TUN), a KeepAlive, or
\* a frame that does not parse: the loop continues.
RecvFrame(r) ==
  /\ pc[r] = "read"
  /\ Healthy(on[r])
  /\ on' = [on EXCEPT ![r] = 0]
  /\ Move(r, "top")
  /\ UNCHANGED <<conn, connSt, connected, ctxDone, dialed, tunDev, tunOpen,
                 autoReconnect>>

\* A Disconnect frame: handleDisconnect and return.
RecvDisconnect(r) ==
  /\ pc[r] = "read"
  /\ Healthy(on[r])
  /\ on' = [on EXCEPT ![r] = 0]
  /\ HandleDisconnect(r, "done")
  /\ UNCHANGED <<conn, connSt, ctxDone, dialed, tunDev, tunOpen, autoReconnect>>

-----------------------------------------------------------------------------
(* keepaliveLoop *)

\* select picks <-c.ctx.Done(): return.
KaStop(k) ==
  /\ pc[k] = "wait"
  /\ ctxDone
  /\ Move(k, "done")
  /\ UNCHANGED <<on, conn, connSt, connected, ctxDone, dialed, tunDev, tunOpen,
                 autoReconnect>>

\* select picks the ticker: under RLock, return if not connected.
KaTick(k) ==
  /\ pc[k] = "wait"
  /\ Move(k, IF connected THEN "send" ELSE "done")
  /\ UNCHANGED <<on, conn, connSt, connected, ctxDone, dialed, tunDev, tunOpen,
                 autoReconnect>>

\* After RUnlock: c.conn.Write of a KeepAlive begins.
KaSend(k) ==
  /\ pc[k] = "send"
  /\ on' = [on EXCEPT ![k] = conn]
  /\ Move(k, "write")
  /\ UNCHANGED <<conn, connSt, connected, ctxDone, dialed, tunDev, tunOpen,
                 autoReconnect>>

\* The write returns; an error is only logged.
KaWriteDone(k) ==
  /\ pc[k] = "write"
  /\ on' = [on EXCEPT ![k] = 0]
  /\ Move(k, "wait")
  /\ UNCHANGED <<conn, connSt, connected, ctxDone, dialed, tunDev, tunOpen,
                 autoReconnect>>

-----------------------------------------------------------------------------
(* reconnectLoop *)

\* Loop top: return if c.ctx is done, else time.Sleep(ReconnectDelay).
RcTop(q) ==
  /\ pc[q] = "top"
  /\ Move(q, IF ctxDone THEN "done" ELSE "sleep")
  /\ UNCHANGED <<on, conn, connSt, connected, ctxDone, dialed, tunDev, tunOpen,
                 autoReconnect>>

\* The sleep ends and c.Connect() is called.
RcWake(q) ==
  /\ pc[q] = "sleep"
  /\ Move(q, "dial")
  /\ UNCHANGED <<on, conn, connSt, connected, ctxDone, dialed, tunDev, tunOpen,
                 autoReconnect>>

-----------------------------------------------------------------------------
(* runClient's deferred Disconnect, after SIGINT/SIGTERM. *)

\* The signal arrives; Disconnect clears c.connected under connMu.
DisconnectStart ==
  /\ pc[Main] = "running"
  /\ connected' = FALSE
  /\ Move(Main, "dSend")
  /\ UNCHANGED <<on, conn, connSt, ctxDone, dialed, tunDev, tunOpen,
                 autoReconnect>>

\* c.conn != nil: c.conn.Write of a Disconnect frame begins.
DisconnectSend ==
  /\ pc[Main] = "dSend"
  /\ on' = [on EXCEPT ![Main] = conn]
  /\ Move(Main, "dWrite")
  /\ UNCHANGED <<conn, connSt, connected, ctxDone, dialed, tunDev, tunOpen,
                 autoReconnect>>

\* The write returns (its error is ignored).
DisconnectWriteDone ==
  /\ pc[Main] = "dWrite"
  /\ on' = [on EXCEPT ![Main] = 0]
  /\ Move(Main, "dClose")
  /\ UNCHANGED <<conn, connSt, connected, ctxDone, dialed, tunDev, tunOpen,
                 autoReconnect>>

\* A Disconnect that leaves the connection open, for mutation analysis.
DisconnectCloseSkipped ==
  /\ pc[Main] = "dClose"
  /\ Move(Main, "dCancel")
  /\ UNCHANGED <<on, conn, connSt, connected, ctxDone, dialed, tunDev, tunOpen,
                 autoReconnect>>

\* c.conn.Close(): the field is read again.
DisconnectClose ==
  /\ pc[Main] = "dClose"
  /\ connSt' = [connSt EXCEPT ![conn] = "closed"]
  /\ Move(Main, "dCancel")
  /\ UNCHANGED <<on, conn, connected, ctxDone, dialed, tunDev, tunOpen,
                 autoReconnect>>

\* c.cancel()
DisconnectCancel ==
  /\ pc[Main] = "dCancel"
  /\ ctxDone' = TRUE
  /\ Move(Main, "dTun")
  /\ UNCHANGED <<on, conn, connSt, connected, dialed, tunDev, tunOpen,
                 autoReconnect>>

\* A Disconnect that leaves the TUN device open, for mutation analysis.
DisconnectTunSkipped ==
  /\ pc[Main] = "dTun"
  /\ Move(Main, "dWait")
  /\ UNCHANGED <<on, conn, connSt, connected, ctxDone, dialed, tunDev, tunOpen,
                 autoReconnect>>

\* c.tunDevice.Close() if c.tunDevice != nil.
DisconnectTun ==
  /\ pc[Main] = "dTun"
  /\ TunDeviceClose(tunDev)
  /\ Move(Main, "dWait")
  /\ UNCHANGED <<on, conn, connSt, connected, ctxDone, dialed, tunDev,
                 autoReconnect>>

\* c.wg.Wait() returns once every loop it counts has returned; runClient
\* then returns and the process exits.
DisconnectReturns ==
  /\ pc[Main] = "dWait"
  /\ \A w \in WgProcs : pc[w] \in {"none", "done"}
  /\ Move(Main, "done")
  /\ UNCHANGED <<on, conn, connSt, connected, ctxDone, dialed, tunDev, tunOpen,
                 autoReconnect>>

-----------------------------------------------------------------------------
(* The network *)

\* A live connection fails (peer gone, reset): later reads and writes error.
ConnBreaks(g) ==
  /\ Healthy(g)
  /\ connSt' = [connSt EXCEPT ![g] = "broken"]
  /\ UNCHANGED <<pc, on, conn, connected, ctxDone, dialed, tunDev, tunOpen,
                 autoReconnect>>

\* After runClient or the library caller has finished, time may pass.
Terminated ==
  /\ pc[Main] \in {"done", "fatal"}
  /\ UNCHANGED vars

-----------------------------------------------------------------------------

Kind(p) == p[1]

\* Steps of goroutine p that it takes by itself once scheduled: everything
\* except waiting for a datagram, a frame or the signal.
Internal(p) ==
  \/ Dial(p) \/ HsWriteDone(p) \/ TunNew(p) \/ Mark(p)
  \/ Kind(p) = "tun"  /\ (TunTop(p) \/ TunReadFail(p) \/ TunWriteDone(p))
  \/ Kind(p) = "recv" /\ (RecvTop(p) \/ RecvError(p))
  \/ Kind(p) = "ka"   /\ (KaTick(p) \/ KaSend(p) \/ KaWriteDone(p))
  \/ Kind(p) = "rc"   /\ (RcTop(p) \/ RcWake(p))

\* Steps that wait for the peer, the TUN or the network.
External(p) ==
  \/ HsRead(p)
  \/ Kind(p) = "tun"  /\ TunReadPacket(p)
  \/ Kind(p) = "recv" /\ (RecvFrame(p) \/ RecvDisconnect(p))
  \/ Kind(p) = "ka"   /\ KaStop(p)

DisconnectSteps ==
  \/ DisconnectSend \/ DisconnectWriteDone \/ DisconnectClose
  \/ DisconnectCancel \/ DisconnectTun \/ DisconnectReturns

Next ==
  \/ /\ ~Exited
     /\ \/ \E p \in Procs : Internal(p) \/ External(p)
        \/ DisconnectStart \/ DisconnectSteps
        \/ \E g \in Gens : ConnBreaks(g)
  \/ Terminated

Spec == Init /\ [][Next]_vars

(***************************************************************************)
(* Fairness.  Goroutines that can run are eventually scheduled (weak       *)
(* fairness on their own steps and on Disconnect's).  A handshake read    *)
(* that fails on a dead connection returns; one on a live connection may  *)
(* wait for the server forever, so HsRead is not fair, nor are datagrams,  *)
(* frames, breaks or the signal.  keepaliveLoop's select chooses at random *)
(* among ready cases, so a loop whose context is cancelled eventually     *)
(* takes that case even if its ticker keeps firing: strong fairness.      *)
(***************************************************************************)
Fairness ==
  /\ \A p \in Procs : WF_vars(~Exited /\ Internal(p))
  /\ \A p \in Procs :
       WF_vars(~Exited /\ pc[p] = "hsRead" /\ ~Healthy(on[p]) /\ HsRead(p))
  /\ \A p \in Procs :
       WF_vars(~Exited /\ Kind(p) = "tun" /\ tunDev \notin tunOpen /\ TunReadFail(p))
  /\ \A p \in Procs : SF_vars(~Exited /\ Kind(p) = "ka" /\ KaStop(p))
  /\ WF_vars(~Exited /\ DisconnectSteps)

FairSpec == Spec /\ Fairness

-----------------------------------------------------------------------------
(* Properties *)

ConnectStates == {"dial", "hsWrite", "hsRead", "tunNew", "mark"}

\* Goroutines inside a conn.Write on connection g.
Writers(g) ==
  {p \in Procs : pc[p] \in {"hsWrite", "write", "dWrite"} /\ on[p] = g}

\* gorilla/websocket supports one concurrent writer per connection, and
\* WebSocketConnection.Write takes no lock: at most one goroutine may be in
\* conn.Write on a connection (tunReadLoop, keepaliveLoop, the handshake
\* and Disconnect all write c.conn).
SingleWriter == \A g \in Gens : Cardinality(Writers(g)) <= 1

\* Spec 4.8: the old transport connection is closed before a reconnect
\* dials a new one (reconnectLoop calling Connect).
RedialClosesOld ==
  [][dialed' > dialed => \A g \in 1 .. dialed : connSt[g] = "closed"]_vars

\* At most one Connect runs at a time, so its writes of c.conn,
\* c.cryptoSession, c.sessionID and c.tunDevice are never interleaved with
\* another's: handleDisconnect starts a reconnectLoop only when it is the
\* one to clear c.connected, and only a completed Connect sets it again.
SingleConnectInFlight ==
  Cardinality({p \in Procs : pc[p] \in ConnectStates}) <= 1

\* When Disconnect has returned the client is disconnected: c.connected is
\* false and no connection it dialled is still live (a live one would keep
\* its server session and address).
DisconnectReleases ==
  pc[Main] = "done" => ~connected /\ \A g \in Gens : ~Healthy(g)

\* Disconnect returns: c.wg.Wait() does not block forever once it is called.
DisconnectCompletes == pc[Main] = "dSend" ~> pc[Main] = "done"

\* The two above for the client as runClient configures it (AutoReconnect
\* off): Disconnect returns, and returns with nothing left connected.
RunClientDisconnectReleases == ~autoReconnect => DisconnectReleases

RunClientDisconnectCompletes == ~autoReconnect => DisconnectCompletes

\* Connection g is the client's tunnel: established, and the client is in
\* use (main is between Connect and Disconnect).
InUse(g) == conn = g /\ connected /\ pc[Main] = "running"

\* A Connect (main's or a reconnectLoop's) is working on g: it has dialled
\* g and not yet returned.
Connecting(g) ==
  \E p \in Procs : pc[p] \in ConnectStates \ {"dial"} /\ on[p] = g

\* Nothing of g is held: the connection is no longer live and its TUN
\* device (routes included) is closed.
Released(g) == ~Healthy(g) /\ g \notin tunOpen

(***************************************************************************)
(* The client state machine of spec 4.8 (Established -> error or           *)
(* Disconnect -> Closing -> Idle, and in Closing the tunnel and transport *)
(* are released; the old connection is closed before a retry): a          *)
(* connection the client dialled that no Connect is working on and that is *)
(* not its tunnel is eventually released, or becomes the tunnel again, or *)
(* the process exits.  It is about handleDisconnect (which releases       *)
(* nothing), reconnectLoop's redial, and Disconnect racing a reconnect.   *)
(***************************************************************************)
ReleasedWhenUnused ==
  \A g \in Gens :
    (connSt[g] # "none" /\ ~Connecting(g) /\ ~InUse(g))
      ~> (InUse(g) \/ Released(g) \/ Exited)

=============================================================================
