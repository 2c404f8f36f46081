------------------------------- MODULE Server -------------------------------
(***************************************************************************)
(* The HydraVPN server core, pkg/server/server.go: the accept loop, one   *)
(* handleConnection goroutine per connection, the session table, the IP    *)
(* pool, the TUN reader that demultiplexes by destination address, and     *)
(* Stop.                                                                   *)
(*                                                                         *)
(* Connections are a fixed set of slots.  A slot whose handler has         *)
(* finished is free and may be taken by the next accepted connection, so   *)
(* a handful of slots sees arbitrarily many connections and the pool's     *)
(* cursor wraps.  A session's random 64-bit id is not represented: the     *)
(* table is keyed by slot, i.e. ids are assumed distinct (see README).     *)
(*                                                                         *)
(* What a client sends is the environment: each read of a handler returns *)
(* whatever a client, or a broken network, can produce.  Writes to a       *)
(* connection are atomic steps here; the concurrency inside Write is the  *)
(* subject of ObfsConn.                                                    *)
(***************************************************************************)
EXTENDS Integers, FiniteSets

CONSTANTS
  Conns,      \* connection slots (model values)
  MaxHosts,   \* host numbers of the pool's subnet, see IPPool
  NoIP        \* model value: no address assigned

VARIABLES
  pc,         \* pc[c]: where the handler of slot c is
  addr,       \* addr[c]: clientIP allocated by the handler of c
  sessions,   \* the keys of s.sessions (slots whose session is registered)
  connOpen,   \* connOpen[c]: the server has not closed c's connection
  firstOut,   \* kind of the first frame the server wrote on c
  used,       \* IPPool.used
  nextHost,   \* IPPool.nextHost
  ctxDone,    \* s.ctx cancelled
  listening,  \* the WebSocketListener is open (closeChan not closed)
  tunOpen,    \* s.tunDevice open (FALSE from the start in tunnel-only mode)
  acceptPc,   \* acceptLoop: "top", "accepting" (in Accept) or "exited"
  tunRun,     \* tunReadLoop goroutine running
  stopPhase,  \* "running", "waiting" (Stop is in wg.Wait), "stopped"
  tunWriting  \* {c}: tunReadLoop is in c's conn.Write, holding the read
              \* lock of s.sessionsMu; {} otherwise

vars == <<pc, addr, sessions, connOpen, firstOut, used, nextHost, ctxDone,
          listening, tunOpen, acceptPc, tunRun, stopPhase, tunWriting>>

Pool == INSTANCE IPPool

ASSUME NoIP \notin Pool!Hosts

(***************************************************************************)
(* Stages of the connection in a slot.  "free": no connection (or its      *)
(* handler is done).  "upgraded": the HTTP handler of /hydra has upgraded *)
(* it and is in its select; "buffered": it waits in connChan.  From       *)
(* "readInit" on, a handleConnection goroutine (counted by s.wg) runs.    *)
(***************************************************************************)
Handling ==
  {"readInit", "allocate", "register", "respond", "loopTop", "reading",
   "unregister", "release", "close"}

HandlerStates == Handling \cup {"free", "upgraded", "buffered"}

\* Locations at which a handler holds an allocated address.
HoldsAddress ==
  {"register", "respond", "loopTop", "reading", "unregister", "release"}

FrameKinds == {"none", "resp", "data", "keepalive"}

\* conn.Write of a frame of kind k: only the first one is remembered.
Wrote(c, k) ==
  firstOut' = [firstOut EXCEPT ![c] = IF @ = "none" THEN k ELSE @]

Goto(c, from, to) ==
  /\ pc[c] = from
  /\ pc' = [pc EXCEPT ![c] = to]

(***************************************************************************)
(* New and Start: the pool is fresh, the listener is open, acceptLoop     *)
(* runs; tun.New may fail, in which case the server runs without a TUN     *)
(* and without tunReadLoop.                                                *)
(***************************************************************************)
Init ==
  /\ pc = [c \in Conns |-> "free"]
  /\ addr = [c \in Conns |-> NoIP]
  /\ sessions = {}
  /\ connOpen = [c \in Conns |-> FALSE]
  /\ firstOut = [c \in Conns |-> "none"]
  /\ Pool!InitPool
  /\ ctxDone = FALSE
  /\ listening = TRUE
  /\ tunOpen \in BOOLEAN
  /\ acceptPc = "top"
  /\ tunRun = tunOpen
  /\ stopPhase = "running"
  /\ tunWriting = {}

-----------------------------------------------------------------------------
(* WebSocketListener (transport.go): the /hydra handler and Accept *)

\* net/http serves a request on /hydra and the upgrade succeeds: a new
\* connection in a free slot.  (A failed upgrade changes nothing.)
Upgrade(c) ==
  /\ listening
  /\ Goto(c, "free", "upgraded")
  /\ addr' = [addr EXCEPT ![c] = NoIP]
  /\ connOpen' = [connOpen EXCEPT ![c] = TRUE]
  /\ firstOut' = [firstOut EXCEPT ![c] = "none"]
  /\ UNCHANGED <<sessions, used, nextHost, ctxDone, listening, tunOpen,
                 acceptPc, tunRun, stopPhase, tunWriting>>

\* The handler's select sends it on connChan (capacity 100: never full
\* with a few slots).  After Close this case is still ready, and Go's
\* select picks at random between it and closeChan.
Enqueue(c) ==
  /\ Goto(c, "upgraded", "buffered")
  /\ UNCHANGED <<addr, sessions, connOpen, firstOut, used, nextHost, ctxDone,
                 listening, tunOpen, acceptPc, tunRun, stopPhase, tunWriting>>

\* The select takes the closed closeChan: conn.Close().
UpgradeRefused(c) ==
  /\ ~listening
  /\ Goto(c, "upgraded", "free")
  /\ connOpen' = [connOpen EXCEPT ![c] = FALSE]
  /\ UNCHANGED <<addr, sessions, firstOut, used, nextHost, ctxDone,
                 listening, tunOpen, acceptPc, tunRun, stopPhase, tunWriting>>

-----------------------------------------------------------------------------
(* acceptLoop *)

\* Loop top: return if s.ctx is done, else call s.listener.Accept().
AcceptTop ==
  /\ acceptPc = "top"
  /\ acceptPc' = IF ctxDone THEN "exited" ELSE "accepting"
  /\ UNCHANGED <<pc, addr, sessions, connOpen, firstOut, used, nextHost,
                 ctxDone, listening, tunOpen, tunRun, stopPhase, tunWriting>>

\* Accept's select takes a buffered connection (also after Close, which
\* leaves connChan as it is); s.wg.Add(1) and its handler starts.
Accept(c) ==
  /\ acceptPc = "accepting"
  /\ Goto(c, "buffered", "readInit")
  /\ acceptPc' = "top"
  /\ UNCHANGED <<addr, sessions, connOpen, firstOut, used, nextHost, ctxDone,
                 listening, tunOpen, tunRun, stopPhase, tunWriting>>

\* Accept's select takes closeChan: "listener closed".  Stop cancels s.ctx
\* before it closes the listener, so ctx.Err() != nil: return.
AcceptLoopExit ==
  /\ acceptPc = "accepting"
  /\ ~listening
  /\ acceptPc' = "exited"
  /\ UNCHANGED <<pc, addr, sessions, connOpen, firstOut, used, nextHost,
                 ctxDone, listening, tunOpen, tunRun, stopPhase, tunWriting>>

-----------------------------------------------------------------------------
(* handleConnection *)

(***************************************************************************)
(* Read the first message; it must parse, be a HandshakeInit with a long  *)
(* enough body and give a non-zero shared secret.  Key derivation and the *)
(* session id draw touch no shared state.  Any failure returns, which     *)
(* runs the deferred conn.Close.                                           *)
(***************************************************************************)
ReadInit(c) ==
  /\ pc[c] = "readInit"
  /\ \E ok \in BOOLEAN :
       pc' = [pc EXCEPT ![c] = IF ok THEN "allocate" ELSE "close"]
  /\ UNCHANGED <<addr, sessions, connOpen, firstOut, used, nextHost, ctxDone,
                 listening, tunOpen, acceptPc, tunRun, stopPhase, tunWriting>>

\* s.ipPool.Allocate(): on success keep clientIP, on exhaustion return.
AllocateAddr(c) ==
  /\ pc[c] = "allocate"
  /\ \/ /\ Pool!Allocate(Pool!Allocated)
        /\ addr' = [addr EXCEPT ![c] = Pool!Allocated]
        /\ pc' = [pc EXCEPT ![c] = "register"]
     \/ /\ Pool!Exhausted
        /\ pc' = [pc EXCEPT ![c] = "close"]
        /\ UNCHANGED <<addr, used, nextHost>>
  /\ UNCHANGED <<sessions, connOpen, firstOut, ctxDone, listening, tunOpen,
                 acceptPc, tunRun, stopPhase, tunWriting>>

\* s.sessionsMu.Lock() waits while tunReadLoop holds the read lock.
ReadLockFree == tunWriting = {}

\* s.sessions[sessionID] = session under the write lock; from here on the
\* deferred cleanup (delete, Release) is armed.
Register(c) ==
  /\ ReadLockFree
  /\ Goto(c, "register", "respond")
  /\ sessions' = sessions \cup {c}
  /\ UNCHANGED <<addr, connOpen, firstOut, used, nextHost, ctxDone,
                 listening, tunOpen, acceptPc, tunRun, stopPhase, tunWriting>>

(***************************************************************************)
(* A handler variant that returns without the deferred cleanup when the   *)
(* response cannot be written (cleanup armed only after the write), for   *)
(* mutation analysis.                                                      *)
(***************************************************************************)
RespondNoCleanup(c) ==
  /\ pc[c] = "respond"
  /\ \/ /\ pc' = [pc EXCEPT ![c] = "loopTop"]
        /\ Wrote(c, "resp")
     \/ /\ pc' = [pc EXCEPT ![c] = "close"]
        /\ UNCHANGED firstOut
  /\ UNCHANGED <<addr, sessions, connOpen, used, nextHost, ctxDone,
                 listening, tunOpen, acceptPc, tunRun, stopPhase, tunWriting>>

\* conn.Write(HandshakeResponse): on error return (cleanup runs).
Respond(c) ==
  /\ pc[c] = "respond"
  /\ \/ /\ pc' = [pc EXCEPT ![c] = "loopTop"]
        /\ Wrote(c, "resp")
     \/ /\ pc' = [pc EXCEPT ![c] = "unregister"]
        /\ UNCHANGED firstOut
  /\ UNCHANGED <<addr, sessions, connOpen, used, nextHost, ctxDone,
                 listening, tunOpen, acceptPc, tunRun, stopPhase, tunWriting>>

\* Top of the data loop: return if s.ctx is done, else block in conn.Read.
LoopTop(c) ==
  /\ pc[c] = "loopTop"
  /\ pc' = [pc EXCEPT ![c] = IF ctxDone THEN "unregister" ELSE "reading"]
  /\ UNCHANGED <<addr, sessions, connOpen, firstOut, used, nextHost, ctxDone,
                 listening, tunOpen, acceptPc, tunRun, stopPhase, tunWriting>>

(***************************************************************************)
(* conn.Read returns.  A read error or a Disconnect frame returns from the *)
(* handler.  A KeepAlive is answered with a KeepAlive.  Anything else      *)
(* (a malformed frame, a Data frame whether or not it decrypts, an        *)
(* unknown type) changes no shared state and the loop continues.           *)
(***************************************************************************)
ReadError(c) ==
  /\ Goto(c, "reading", "unregister")
  /\ UNCHANGED <<addr, sessions, connOpen, firstOut, used, nextHost, ctxDone,
                 listening, tunOpen, acceptPc, tunRun, stopPhase, tunWriting>>

ReadDisconnect(c) ==
  /\ Goto(c, "reading", "unregister")
  /\ UNCHANGED <<addr, sessions, connOpen, firstOut, used, nextHost, ctxDone,
                 listening, tunOpen, acceptPc, tunRun, stopPhase, tunWriting>>

ReadKeepAlive(c) ==
  /\ Goto(c, "reading", "loopTop")
  /\ Wrote(c, "keepalive")
  /\ UNCHANGED <<addr, sessions, connOpen, used, nextHost, ctxDone,
                 listening, tunOpen, acceptPc, tunRun, stopPhase, tunWriting>>

ReadOther(c) ==
  /\ Goto(c, "reading", "loopTop")
  /\ UNCHANGED <<addr, sessions, connOpen, firstOut, used, nextHost, ctxDone,
                 listening, tunOpen, acceptPc, tunRun, stopPhase, tunWriting>>

\* A deferred delete that forgets the table entry, for mutation analysis.
UnregisterForgotten(c) ==
  /\ ReadLockFree
  /\ Goto(c, "unregister", "release")
  /\ UNCHANGED <<addr, sessions, connOpen, firstOut, used, nextHost, ctxDone,
                 listening, tunOpen, acceptPc, tunRun, stopPhase, tunWriting>>

\* A delete that does not wait for the read lock, for mutation analysis.
UnregisterUnlocked(c) ==
  /\ Goto(c, "unregister", "release")
  /\ sessions' = sessions \ {c}
  /\ UNCHANGED <<addr, connOpen, firstOut, used, nextHost, ctxDone,
                 listening, tunOpen, acceptPc, tunRun, stopPhase, tunWriting>>

\* Deferred cleanup, first half: delete(s.sessions, sessionID) under Lock.
Unregister(c) ==
  /\ ReadLockFree
  /\ Goto(c, "unregister", "release")
  /\ sessions' = sessions \ {c}
  /\ UNCHANGED <<addr, connOpen, firstOut, used, nextHost, ctxDone,
                 listening, tunOpen, acceptPc, tunRun, stopPhase, tunWriting>>

\* A cleanup that never returns the address, for mutation analysis.
ReleaseForgotten(c) ==
  /\ Goto(c, "release", "close")
  /\ UNCHANGED <<addr, sessions, connOpen, firstOut, used, nextHost, ctxDone,
                 listening, tunOpen, acceptPc, tunRun, stopPhase, tunWriting>>

\* Deferred cleanup, second half: s.ipPool.Release(clientIP).
ReleaseAddr(c) ==
  /\ Goto(c, "release", "close")
  /\ Pool!Release(addr[c])
  /\ UNCHANGED <<addr, sessions, connOpen, firstOut, ctxDone, listening,
                 tunOpen, acceptPc, tunRun, stopPhase, tunWriting>>

\* The outer defers: conn.Close(), then wg.Done(); the slot is free again.
CloseConn(c) ==
  /\ Goto(c, "close", "free")
  /\ connOpen' = [connOpen EXCEPT ![c] = FALSE]
  /\ UNCHANGED <<addr, sessions, firstOut, used, nextHost, ctxDone,
                 listening, tunOpen, acceptPc, tunRun, stopPhase, tunWriting>>

-----------------------------------------------------------------------------
(* tunReadLoop *)

(***************************************************************************)
(* A datagram for client address dst is read from the TUN.  The loop takes *)
(* the table's read lock and scans it; the first session (in Go's random  *)
(* map order) whose AssignedIP equals dst gets the datagram sealed and a   *)
(* Data frame written on its connection, and the read lock is held until  *)
(* that Write returns.  With no match the lock is released at once and    *)
(* the datagram dropped.                                                   *)
(***************************************************************************)
TunRead(dst) ==
  /\ tunRun
  /\ tunOpen
  /\ tunWriting = {}
  /\ \E c \in sessions :
       /\ addr[c] = dst
       /\ Wrote(c, "data")
       /\ tunWriting' = {c}
  /\ UNCHANGED <<pc, addr, sessions, connOpen, used, nextHost, ctxDone,
                 listening, tunOpen, acceptPc, tunRun, stopPhase>>

(***************************************************************************)
(* session.Conn.Write returns (its error is ignored), then RUnlock.  It     *)
(* returns when the peer has taken the bytes or the connection fails: a    *)
(* client that stops reading keeps it blocked, so this step is the        *)
(* client's, not the server's.                                             *)
(***************************************************************************)
TunWriteDone ==
  /\ tunWriting # {}
  /\ tunWriting' = {}
  /\ UNCHANGED <<pc, addr, sessions, connOpen, firstOut, used, nextHost,
                 ctxDone, listening, tunOpen, acceptPc, tunRun, stopPhase>>

\* The TUN read fails after Stop closed the device: ctx.Err() != nil, return.
TunLoopExit ==
  /\ tunRun
  /\ tunWriting = {}
  /\ ~tunOpen
  /\ ctxDone
  /\ tunRun' = FALSE
  /\ UNCHANGED <<pc, addr, sessions, connOpen, firstOut, used, nextHost,
                 ctxDone, listening, tunOpen, acceptPc, stopPhase, tunWriting>>

-----------------------------------------------------------------------------
(* Stop *)

\* WebSocketListener.Close: close(closeChan) once, then the HTTP server and
\* the TCP listener.  Accept's select and the handler's select see
\* closeChan closed; connections buffered in connChan stay there.
ListenerClose == listening' = FALSE

\* TUNDevice.Close: the interface is closed, so tunReadLoop's blocked Read
\* returns an error.
TunDeviceClose == tunOpen' = FALSE

Stop ==
  /\ stopPhase = "running"
  /\ stopPhase' = "waiting"
  /\ ctxDone' = TRUE
  /\ ListenerClose
  /\ TunDeviceClose
  /\ UNCHANGED <<pc, addr, sessions, connOpen, firstOut, used, nextHost,
                 acceptPc, tunRun, tunWriting>>

\* A Stop that does not wait for acceptLoop (as if it were not counted by
\* s.wg), for mutation analysis.
StopReturnsEarly ==
  /\ stopPhase = "waiting"
  /\ \A c \in Conns : pc[c] \notin Handling
  /\ ~tunRun
  /\ stopPhase' = "stopped"
  /\ UNCHANGED <<pc, addr, sessions, connOpen, firstOut, used, nextHost,
                 ctxDone, listening, tunOpen, acceptPc, tunRun, tunWriting>>

\* wg.Wait() returns once every goroutine it counts has called Done: the
\* handlers, acceptLoop and tunReadLoop (not the HTTP handlers).
StopReturns ==
  /\ stopPhase = "waiting"
  /\ \A c \in Conns : pc[c] \notin Handling
  /\ acceptPc = "exited"
  /\ ~tunRun
  /\ stopPhase' = "stopped"
  /\ UNCHANGED <<pc, addr, sessions, connOpen, firstOut, used, nextHost,
                 ctxDone, listening, tunOpen, acceptPc, tunRun, tunWriting>>

\* The process has exited.
Exited ==
  /\ stopPhase = "stopped"
  /\ UNCHANGED vars

-----------------------------------------------------------------------------

\* Steps the server takes by itself (its goroutines), as opposed to steps
\* that wait for a client or for the operator.
ServerStep(c) ==
  \/ Enqueue(c) \/ UpgradeRefused(c) \/ Accept(c)
  \/ AllocateAddr(c) \/ Register(c) \/ Respond(c) \/ LoopTop(c)
  \/ Unregister(c) \/ ReleaseAddr(c) \/ CloseConn(c)

\* Steps taken when a client sends, closes, or a read fails.
ClientDriven(c) ==
  \/ Upgrade(c) \/ ReadInit(c)
  \/ ReadError(c) \/ ReadDisconnect(c) \/ ReadKeepAlive(c) \/ ReadOther(c)

Next ==
  \/ \E c \in Conns : ServerStep(c) \/ ClientDriven(c)
  \/ \E dst \in Pool!Hosts : TunRead(dst)
  \/ TunWriteDone
  \/ AcceptTop \/ AcceptLoopExit \/ TunLoopExit
  \/ Stop \/ StopReturns \/ Exited

Spec == Init /\ [][Next]_vars

(***************************************************************************)
(* Fairness: the server's own goroutines are scheduled (WF on each step    *)
(* and on the loop exits and on wg.Wait returning).  Reads wait for a      *)
(* client, tunReadLoop's Write waits for its client to read, and the      *)
(* operator may never call Stop: no fairness for those.  sync.RWMutex     *)
(* blocks new readers while a Lock call waits, so a handler waiting in     *)
(* Lock gets it once the current reader leaves, even if tunReadLoop keeps  *)
(* reading datagrams: strong fairness on the two steps that take it.       *)
(***************************************************************************)
Fairness ==
  /\ \A c \in Conns : WF_vars(ServerStep(c))
  /\ \A c \in Conns : SF_vars(Register(c)) /\ SF_vars(Unregister(c))
  /\ WF_vars(AcceptTop)
  /\ WF_vars(AcceptLoopExit)
  /\ WF_vars(TunLoopExit)
  /\ WF_vars(StopReturns)

FairSpec == Spec /\ Fairness

-----------------------------------------------------------------------------
(* Properties *)

ServerTypeOK ==
  /\ pc \in [Conns -> HandlerStates]
  /\ addr \in [Conns -> Pool!Hosts \cup {NoIP}]
  /\ sessions \subseteq Conns
  /\ connOpen \in [Conns -> BOOLEAN]
  /\ firstOut \in [Conns -> FrameKinds]
  /\ Pool!PoolTypeOK
  /\ acceptPc \in {"top", "accepting", "exited"}
  /\ stopPhase \in {"running", "waiting", "stopped"}
  /\ tunWriting \subseteq Conns /\ Cardinality(tunWriting) <= 1

\* Every session tunReadLoop can find has a connection the server has not
\* closed: the deferred delete runs before the deferred conn.Close, on
\* every path out of the handler, including a failed response write.
RegisteredConnOpen ==
  \A c \in sessions : connOpen[c] /\ pc[c] \in HoldsAddress

\* tunReadLoop writes a Data frame only on a connection whose session is
\* still in the table and which the server has not closed: it holds the
\* read lock from the lookup until Write returns, so the handler's deferred
\* delete (and the conn.Close after it) cannot come in between.
TunWritesLiveSession ==
  \A c \in tunWriting : c \in sessions /\ connOpen[c]

(***************************************************************************)
(* When Stop has returned, no session is left in the table and no address *)
(* in the pool.  acceptLoop can still take a connection from connChan     *)
(* after Stop has closed the listener and start a handler for it; that    *)
(* handler must be one wg.Wait waits for, and it must clean up.           *)
(***************************************************************************)
StoppedClean == stopPhase = "stopped" => sessions = {} /\ used = {}

\* The pool holds exactly the addresses of handlers between Allocate and
\* Release: no address leaks when a handler exits by any path, and none is
\* held by two handlers.
PoolMatchesHandlers ==
  /\ used = {addr[c] : c \in {d \in Conns : pc[d] \in HoldsAddress}}
  /\ \A c, d \in Conns :
       (c # d /\ pc[c] \in HoldsAddress /\ pc[d] \in HoldsAddress)
         => addr[c] # addr[d]

\* The client's performHandshake treats the first frame it reads as the
\* HandshakeResponse; the server's first frame on a connection must be it.
FirstFrameIsResponse ==
  \A c \in Conns : firstOut[c] \in {"none", "resp"}

(***************************************************************************)
(* The server implements SessionAbstract: read the session table, with    *)
(* each registered session's clientIP, as the abstract set of live         *)
(* sessions.  Register is Open, the deferred delete is Close, and every    *)
(* other step leaves the table as it is.  So a session is registered only  *)
(* with an address no registered session holds, and keeps its address     *)
(* until the delete: the pool, the allocation cursor and the cleanup      *)
(* order together must never let Register reuse a live session's address. *)
(***************************************************************************)
Abstract == INSTANCE SessionAbstract
              WITH Sessions <- Conns,
                   Addrs <- Pool!Hosts,
                   assigned <- [c \in sessions |-> addr[c]]

ImplementsSessionAbstract == Abstract!Spec

\* Spec 4.5 as the server drives the pool: each Allocate of a handshake
\* returns the first free host in cyclic order from the cursor, with the
\* releases of exiting handlers interleaved between allocations.
AllocatesFirstFreeInCycle == Pool!AllocatesFirstFreeInCycle

\* Spec 5 (blocked reads do not starve other tasks; the table takes a
\* shared lock for the demux and an exclusive one for inserts): a handler
\* that has its address goes on to register its session, whatever any
\* one client does.
RegistrationCompletes ==
  \A c \in Conns : pc[c] = "register" ~> pc[c] # "register"

\* Stop returns: once called, wg.Wait eventually sees every goroutine done.
StopCompletes == stopPhase = "waiting" ~> stopPhase = "stopped"

\* A goroutine wg counts is waiting for a peer: a handler blocked in a
\* read of its connection, or tunReadLoop blocked in a write to one.
WaitingOnPeer ==
  \/ \E c \in Conns : pc[c] \in {"readInit", "reading"}
  \/ tunWriting # {}

=============================================================================
