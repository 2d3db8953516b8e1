------------------------------ MODULE PeerSet ------------------------------
(***************************************************************************)
(* The eth protocol's peers and peer set (src/unnamed/part_000): the      *)
(* status handshake with its two goroutines and timeout, Register and      *)
(* Unregister of the peer set, the broadcast goroutines that drain a       *)
(* peer's transaction and transaction-hash queues until p.term is closed, *)
(* the Async* senders that fill those queues, and peerSet.Close.  The      *)
(* knownTxs sets only filter later broadcasts and are left out.  A        *)
(* connection is a peer object; two connections of the same remote node   *)
(* share an id.  The protocol handler that calls all this (Handshake,     *)
(* Register, the read loop, removePeer) is not under src/ and is modelled *)
(* from the go-ethereum handler it follows.                                *)
(***************************************************************************)
EXTENDS Naturals, Sequences, FiniteSets, Functions

CONSTANTS
    Conns,      \* peer objects, one per connection (newPeer)
    IdOf,       \* IdOf[c]: p.id, the remote node of connection c
    NoConn,     \* no peer registered under an id
    Txs,        \* transaction hashes
    NoTx,       \* no announcement waiting
    QueueCap    \* maxQueuedTxs = maxQueuedTxHashes (128 in the code)

Ids == {IdOf[c] : c \in Conns}

\* The two broadcast goroutines modelled, by the queue each drains; the
\* block goroutine serves queuedProps, queuedAnns and queuedPreBlock the
\* same way as these serve theirs.
Queues == {"txs", "hashes"}

\* Handshake's goroutines: the one sending our status, the one reading theirs.
HsGoroutines == {"status", "read"}

VARIABLES
    conn,       \* conn[c]: the handler: "idle", "handshake", "active", "closed"
    up,         \* up[c]: the transport of c still works
    hsG,        \* hsG[c][g]: "idle", "run", or the error it sent, "nil"/"err"
    errc,       \* errc[c]: Handshake's buffered error channel
    hsRecv,     \* hsRecv[c]: the values Handshake's loop has taken from errc
    peers,      \* ps.peers: id -> registered peer, or NoConn
    closed,     \* ps.closed
    term,       \* term[c]: p.term is closed
    bg,         \* bg[c][q]: broadcast goroutine: "none", "run", "send", "exit"
    queued,     \* queued[c][q]: p.queuedTxs / p.queuedHashes
    ann         \* ann[c]: the hash a caller of AsyncSendPooledTransactionHashes
                \* is blocked queueing, or NoTx

vars == <<conn, up, hsG, errc, hsRecv, peers, closed, term, bg, queued, ann>>

\* A one-slot errc.
ErrcCapOne == 1

\* errc := make(chan error, 2)
ErrcCap == 2

\* A loop that stops at the first value.
HandshakeLoopsOne == 1

\* for i := 0; i < 2; i++ { select { case err := <-errc: ... } }
HandshakeLoops == 2

Init ==
    /\ conn = [c \in Conns |-> "idle"]
    /\ up = [c \in Conns |-> FALSE]
    /\ hsG = [c \in Conns |-> [g \in HsGoroutines |-> "idle"]]
    /\ errc = [c \in Conns |-> <<>>]
    /\ hsRecv = [c \in Conns |-> 0]
    /\ peers = [i \in Ids |-> NoConn]
    /\ closed = FALSE
    /\ term = [c \in Conns |-> FALSE]
    /\ bg = [c \in Conns |-> [q \in Queues |-> "none"]]
    /\ queued = [c \in Conns |-> [q \in Queues |-> <<>>]]
    /\ ann = [c \in Conns |-> NoTx]

-----------------------------------------------------------------------------
(* The peer set                                                            *)

\* Unregister deleting the peer without p.close().
UnregisterNoClose(id) ==
    IF peers[id] = NoConn THEN UNCHANGED <<peers, term>>
    ELSE /\ peers' = [peers EXCEPT ![id] = NoConn]
         /\ UNCHANGED term

\* Unregister(id): delete the peer and close its term channel
\* (p.close()); errNotRegistered when the id has no peer.
Unregister(id) ==
    IF peers[id] = NoConn THEN UNCHANGED <<peers, term>>
    ELSE /\ peers' = [peers EXCEPT ![id] = NoConn]
         /\ term' = [term EXCEPT ![peers[id]] = TRUE]

\* The handler's removePeer(id): the peer registered under id, whichever
\* connection it is, is unregistered and disconnected.
RemovePeer(id) ==
    /\ Unregister(id)
    /\ up' = IF peers[id] = NoConn THEN up ELSE [up EXCEPT ![peers[id]] = FALSE]

\* The handler returns an error: p2p drops the connection.
HandlerFails(c) ==
    /\ conn' = [conn EXCEPT ![c] = "closed"]
    /\ up' = [up EXCEPT ![c] = FALSE]

\* Register(p): errClosed after Close, errAlreadyRegistered for a known
\* id (the handler then returns the error); otherwise store the peer and
\* start its broadcast goroutines.
Register(c) ==
    IF closed \/ peers[IdOf[c]] # NoConn
    THEN /\ HandlerFails(c)
         /\ UNCHANGED <<peers, bg>>
    ELSE /\ peers' = [peers EXCEPT ![IdOf[c]] = c]
         /\ bg' = [bg EXCEPT ![c] = [q \in Queues |-> "run"]]
         /\ conn' = [conn EXCEPT ![c] = "active"]
         /\ UNCHANGED up

\* Close marking the set closed without disconnecting the peers.
CloseNoDisconnect ==
    /\ closed' = TRUE
    /\ UNCHANGED up

\* Close: disconnect every registered peer, refuse later registrations.
Close ==
    /\ closed' = TRUE
    /\ up' = [c \in Conns |-> IF c \in Range(peers) THEN FALSE ELSE up[c]]

PeerSetClose ==
    /\ Close
    /\ UNCHANGED <<conn, hsG, errc, hsRecv, peers, term, bg, queued, ann>>

-----------------------------------------------------------------------------
(* Handshake                                                               *)

\* A connection comes up and the handler calls Handshake: make errc, start
\* the status writer and the status reader, start the timer.  p2p admits
\* one connection per remote node at a time.
Connect(c) ==
    /\ conn[c] = "idle"
    /\ \A d \in Conns : IdOf[d] = IdOf[c] => conn[d] \notin {"handshake", "active"}
    /\ conn' = [conn EXCEPT ![c] = "handshake"]
    /\ up' = [up EXCEPT ![c] = TRUE]
    /\ hsG' = [hsG EXCEPT ![c] = [g \in HsGoroutines |-> "run"]]
    /\ UNCHANGED <<errc, hsRecv, peers, closed, term, bg, queued, ann>>

\* A handshake goroutine sends its outcome on errc: json.Marshal or
\* p2p.Send for the writer, readStatus's checks for the reader; over a
\* dead transport both fail.  It blocks while errc is full.
HsSend(c, g) ==
    /\ hsG[c][g] = "run"
    /\ Len(errc[c]) < ErrcCap
    /\ \E r \in IF up[c] THEN {"nil", "err"} ELSE {"err"} :
          /\ errc' = [errc EXCEPT ![c] = Append(@, r)]
          /\ hsG' = [hsG EXCEPT ![c][g] = r]
    /\ UNCHANGED <<conn, up, hsRecv, peers, closed, term, bg, queued, ann>>

\* The loop takes a value from errc: an error ends Handshake; the last nil
\* lets it read the status, whose ReplayOldSysContracts json.Unmarshal may
\* fail, and the handler then calls Register.
HsReceive(c) ==
    /\ conn[c] = "handshake"
    /\ errc[c] # <<>>
    /\ errc' = [errc EXCEPT ![c] = Tail(@)]
    /\ hsRecv' = [hsRecv EXCEPT ![c] = @ + 1]
    /\ \/ /\ Head(errc[c]) = "err"
          /\ HandlerFails(c)
          /\ UNCHANGED <<peers, bg>>
       \/ /\ Head(errc[c]) = "nil" /\ hsRecv[c] + 1 < HandshakeLoops
          /\ UNCHANGED <<conn, up, peers, bg>>
       \/ /\ Head(errc[c]) = "nil" /\ hsRecv[c] + 1 = HandshakeLoops
          /\ \/ HandlerFails(c) /\ UNCHANGED <<peers, bg>>
             \/ Register(c)
    /\ UNCHANGED <<hsG, closed, term, queued, ann>>

\* case <-timeout.C: return p2p.DiscReadTimeout
HsTimeout(c) ==
    /\ conn[c] = "handshake"
    /\ HandlerFails(c)
    /\ UNCHANGED <<hsG, errc, hsRecv, peers, closed, term, bg, queued, ann>>

-----------------------------------------------------------------------------
(* The broadcast goroutines and the handler's read loop                    *)

\* The goroutine takes a batch and calls SendTransactions /
\* sendPooledTransactionHashes, which mark it known and p2p.Send it.
BcastTake(c, q) ==
    /\ bg[c][q] = "run"
    /\ queued[c][q] # <<>>
    /\ queued' = [queued EXCEPT ![c][q] = Tail(@)]
    /\ bg' = [bg EXCEPT ![c][q] = "send"]
    /\ UNCHANGED <<conn, up, hsG, errc, hsRecv, peers, closed, term, ann>>

\* p2p.Send returns: on success the loop goes on; an error (the transport
\* is gone) calls removePeer(p.id) and returns.
BcastSent(c, q) ==
    /\ bg[c][q] = "send"
    /\ \/ /\ up[c]
          /\ bg' = [bg EXCEPT ![c][q] = "run"]
          /\ UNCHANGED <<up, peers, term>>
       \/ /\ ~up[c]
          /\ RemovePeer(IdOf[c])
          /\ bg' = [bg EXCEPT ![c][q] = "exit"]
    /\ UNCHANGED <<conn, hsG, errc, hsRecv, closed, queued, ann>>

\* case <-p.term: return
BcastTerm(c, q) ==
    /\ bg[c][q] = "run"
    /\ term[c]
    /\ bg' = [bg EXCEPT ![c][q] = "exit"]
    /\ UNCHANGED <<conn, up, hsG, errc, hsRecv, peers, closed, term, queued, ann>>

Broadcast(c, q) == BcastTake(c, q) \/ BcastSent(c, q) \/ BcastTerm(c, q)

\* The handler's read fails once the transport is gone; its deferred
\* removePeer(p.id) runs and it returns.
HandlerExit(c) ==
    /\ conn[c] = "active"
    /\ ~up[c]
    /\ RemovePeer(IdOf[c])
    /\ conn' = [conn EXCEPT ![c] = "closed"]
    /\ UNCHANGED <<hsG, errc, hsRecv, closed, bg, queued, ann>>

\* The remote end or the network drops the connection.
LinkFails(c) ==
    /\ up[c]
    /\ up' = [up EXCEPT ![c] = FALSE]
    /\ UNCHANGED <<conn, hsG, errc, hsRecv, peers, closed, term, bg, queued, ann>>

-----------------------------------------------------------------------------
(* The callers: the protocol manager's broadcast loops and message handler *)
(* hold a peer taken from the set, which may have been unregistered since. *)

WasRegistered(c) == bg[c]["txs"] # "none"

\* AsyncSendTransactions: queue the batch (and mark it known), or drop
\* it when the queue is full.
AsyncSendTransactions(c, t) ==
    /\ WasRegistered(c)
    /\ IF Len(queued[c]["txs"]) < QueueCap
       THEN queued' = [queued EXCEPT ![c]["txs"] = Append(@, t)]
       ELSE UNCHANGED queued
    /\ UNCHANGED <<conn, up, hsG, errc, hsRecv, peers, closed, term, bg, ann>>

\* AsyncSendPooledTransactionHashes enters its select, which has no default.
AnnounceHashes(c, t) ==
    /\ WasRegistered(c)
    /\ ann[c] = NoTx
    /\ ann' = [ann EXCEPT ![c] = t]
    /\ UNCHANGED <<conn, up, hsG, errc, hsRecv, peers, closed, term, bg, queued>>

\* case p.queuedHashes <- hashes: mark them known.
AnnounceQueued(c) ==
    /\ ann[c] # NoTx
    /\ Len(queued[c]["hashes"]) < QueueCap
    /\ queued' = [queued EXCEPT ![c]["hashes"] = Append(@, ann[c])]
    /\ ann' = [ann EXCEPT ![c] = NoTx]
    /\ UNCHANGED <<conn, up, hsG, errc, hsRecv, peers, closed, term, bg>>

\* case <-p.term: drop the hashes.
AnnounceDropped(c) ==
    /\ ann[c] # NoTx
    /\ term[c]
    /\ ann' = [ann EXCEPT ![c] = NoTx]
    /\ UNCHANGED <<conn, up, hsG, errc, hsRecv, peers, closed, term, bg, queued>>

-----------------------------------------------------------------------------
Next ==
    \/ \E c \in Conns :
          \/ Connect(c) \/ HsReceive(c) \/ HsTimeout(c)
          \/ HandlerExit(c) \/ LinkFails(c)
          \/ AnnounceQueued(c) \/ AnnounceDropped(c)
          \/ \E g \in HsGoroutines : HsSend(c, g)
          \/ \E q \in Queues : Broadcast(c, q)
          \/ \E t \in Txs : \/ AsyncSendTransactions(c, t) \/ AnnounceHashes(c, t)
    \/ PeerSetClose

\* Goroutines run when they can; a blocked select proceeds once a case is
\* ready; p2p.Send and the handler's read return (the transport has write
\* and read deadlines); the handshake timer fires.  Connections, failures,
\* callers and Close are free.
Fairness ==
    \A c \in Conns :
        /\ WF_vars(HsReceive(c) \/ HsTimeout(c))
        /\ WF_vars(HandlerExit(c))
        /\ WF_vars(AnnounceQueued(c) \/ AnnounceDropped(c))
        /\ \A g \in HsGoroutines : WF_vars(HsSend(c, g))
        /\ \A q \in Queues : WF_vars(Broadcast(c, q))

Spec == Init /\ [][Next]_vars /\ Fairness

-----------------------------------------------------------------------------
(* Handshake returns nil, and the handler registers the peer, only after  *)
(* both goroutines have reported nil: the loop must take two values from  *)
(* errc, whichever order they arrive in, before it reads the status that  *)
(* the reader fills in ("safe to read after two values have been received *)
(* from errc").                                                            *)
HandshakeOkAfterBothResults ==
    \A c \in Conns : conn[c] = "active" => \A g \in HsGoroutines : hsG[c][g] = "nil"

(* No handshake goroutine is left blocked: after a timeout or an early     *)
(* error Handshake stops reading errc, and the goroutines still running   *)
(* must find room in it for their late results.                            *)
HandshakeGoroutinesExit ==
    \A c \in Conns, g \in HsGoroutines : hsG[c][g] = "run" ~> hsG[c][g] # "run"

(* A caller blocked in AsyncSendPooledTransactionHashes always returns:    *)
(* either the hash goroutine makes room in the queue, or the peer's term  *)
(* channel gets closed; the goroutine may have quit on a send error, and  *)
(* removePeer must then close term, also when the peer's id now belongs   *)
(* to a later connection.                                                  *)
AnnouncerReturns == \A c \in Conns : ann[c] # NoTx ~> ann[c] = NoTx

(* After peerSet.Close, every handler returns and every broadcast         *)
(* goroutine exits: Close disconnects the registered peers, their read    *)
(* loops fail and removePeer closes their term channels, and handshakes   *)
(* in progress end in errClosed or a timeout.                              *)
CloseStopsPeers ==
    closed ~> \A c \in Conns : conn[c] # "active" /\ \A q \in Queues : bg[c][q] \in {"none", "exit"}

(* removePeer(p.id) takes a peer out of the set only when that peer's own *)
(* connection has failed, or the set is being closed: the broadcast       *)
(* goroutines and the read loop call it after their own transport broke.  *)
(* It is keyed by id, and a goroutine of an earlier connection of the same *)
(* node can still be sending after its handler returned and the node      *)
(* reconnected.                                                            *)
OwnRemovalOnly ==
    [][\A i \in Ids : peers[i] # NoConn /\ peers'[i] # peers[i] => ~up[peers[i]] \/ closed]_vars
====
