----------------------------- MODULE StompSink -----------------------------
(***************************************************************************)
(* The STOMP output stream (src/output_stream_stomp.cpp) and the broker it *)
(* talks to.  Threads:                                                     *)
(*                                                                         *)
(*   - the writer: whichever thread calls do_write (the delivery worker or *)
(*     the stream's retry thread; one at a time).  It retries the oldest   *)
(*     event that has not been acknowledged, as the retry thread does;     *)
(*   - the connect thread started by connect();                            *)
(*   - reader threads: connect_thread starts one per connection and no one *)
(*     joins them.  A reader reads tcp_client_socket::m_socket, i.e. the   *)
(*     socket current when it calls select, not the one it was started for.*)
(*                                                                         *)
(* Connections are numbered 1, 2, ...; sock = 0 is INVALID_SOCKET.  The    *)
(* broker answers CONNECT with CONNECTED and SEND with RECEIPT, in order,  *)
(* on the connection the request came in on, and may drop a connection.   *)
(* Frames are whole: their text, parsing and heartbeats are abstracted.    *)
(***************************************************************************)
EXTENDS Naturals, Sequences, SequencesExt

CONSTANTS
  NEvents,      \* events the stream has to deliver
  MaxCalls,     \* bound: do_write calls
  MaxConnects,  \* bound: TCP connections opened
  MaxDrops,     \* bound: connections the broker (or the network) drops
  UseSSL        \* the URL's protocol is stomp+ssl (lines 43-47)

ASSUME {NEvents, MaxCalls, MaxConnects, MaxDrops} \subseteq Nat

Conns == 1..MaxConnects
Events == 1..NEvents
Readers == Conns   \* reader k is the one started on connection k

Request == [cmd : {"CONNECT"}] \cup
           [cmd : {"SEND"}, ev : Events, id : Nat]
Reply == [cmd : {"CONNECTED", "RECEIPT"}, conn : Conns, id : Nat]

VARIABLES
  sock,        \* tcp_client_socket m_socket: a connection, or 0
  fds,         \* descriptors the process has open (TcpSocket)
  nconn,       \* connections opened so far
  open,        \* connections the broker still serves
  toServer,    \* [Conns -> Seq(Request)]: frames written, not yet handled
  wire,        \* [Conns -> Seq(Reply)]: frames sent back, not yet read
  drops,       \* connections dropped so far
  connected,   \* m_connected
  connecting,  \* m_connecting
  ctDone,      \* m_connect_thread_done
  cpc,         \* control point of the connect thread
  receipt,     \* m_receipt
  replyQ,      \* m_reply_queue
  rpc,         \* [Readers -> pc] of each reader thread
  rconn,       \* [Readers -> Conns \cup {0}]: socket its select is on
  rframe,      \* [Readers -> Reply]: frame read, not yet queued
  lastWasData, \* m_last_was_data (AMQ_4710_workaround), shared by readers
  wpc,         \* control point of the writer
  calls,       \* do_write calls so far
  acked,       \* events for which do_write returned true (history)
  published,   \* events the broker published, in order (history)
  alive        \* the output_stream_stomp object has not been deleted

netVars == <<sock, fds, nconn, open, toServer, wire, drops>>
connVars == <<connected, connecting, ctDone, cpc>>
readVars == <<rpc, rconn, rframe, lastWasData>>
vars == <<netVars, connVars, readVars, receipt, replyQ, wpc, calls, acked,
          published, alive>>

(* The socket, as the sink sets it up: SSL for stomp+ssl, never SOCKS     *)
(* (the sink does not call use_SOCKS).                                      *)
TS == INSTANCE TcpSocket WITH UseSOCKS <- FALSE

NoFrame == [cmd |-> "CONNECTED", conn |-> 1, id |-> 0]

(* The event do_write is called with: the oldest one not yet written.      *)
Current == CHOOSE e \in Events : e \notin acked /\ \A f \in Events : f < e => f \in acked

-----------------------------------------------------------------------------
(* output_stream_stomp::disconnect (lines 171-174) with                    *)
(* tcp_client_socket::disconnect, whichever thread calls it.  Its first    *)
(* step closes the current socket; the calling thread then stands at the   *)
(* control point "reset" while the others run on ...                      *)
Disconnect ==
  /\ TS!close_socket
  /\ UNCHANGED connected

(* ... and its second step sets m_socket to INVALID_SOCKET, whichever     *)
(* socket another thread has put there meanwhile, and clears m_connected   *)
(* (a plain bool written by several threads; the two stores are one step  *)
(* here).                                                                   *)
DisconnectReset ==
  /\ TS!reset_socket
  /\ connected' = FALSE

-----------------------------------------------------------------------------
(* The broker: handle the next frame of a live connection.                *)
ServerHandle(c) ==
  LET req == Head(toServer[c]) IN
  /\ c \in open
  /\ toServer[c] # <<>>
  /\ toServer' = [toServer EXCEPT ![c] = Tail(@)]
  /\ IF req.cmd = "CONNECT"
     THEN /\ wire' = [wire EXCEPT ![c] = Append(@, [cmd |-> "CONNECTED", conn |-> c, id |-> 0])]
          /\ UNCHANGED published
     ELSE /\ wire' = [wire EXCEPT ![c] = Append(@, [cmd |-> "RECEIPT", conn |-> c, id |-> req.id])]
          /\ published' = Append(published, req.ev)
  /\ UNCHANGED <<sock, fds, nconn, open, drops, connVars, readVars, receipt,
                 replyQ, wpc, calls, acked>>

(* The broker or the network drops a connection: frames not yet handled   *)
(* are lost; replies already sent can still be read.                       *)
ServerDrop(c) ==
  /\ c \in open
  /\ drops < MaxDrops
  /\ open' = open \ {c}
  /\ drops' = drops + 1
  /\ toServer' = [toServer EXCEPT ![c] = <<>>]
  /\ UNCHANGED <<sock, fds, nconn, wire, connVars, readVars, receipt, replyQ,
                 wpc, calls, acked, published>>

-----------------------------------------------------------------------------
(* The writer: output_stream_stomp::do_write (lines 213-302).              *)

(* do_write returns false: the caller will call again later.               *)
WriteFails == wpc' = "idle"

(* do_write calls connect() (lines 187-188, 214): when m_connected is     *)
(* set it returns true at once.                                            *)
WriterConnect ==
  /\ wpc = "idle"
  /\ acked # Events
  /\ calls < MaxCalls
  /\ calls' = calls + 1
  /\ wpc' = IF connected THEN "send" ELSE "connecting"
  /\ UNCHANGED <<netVars, connVars, readVars, receipt, replyQ, acked,
                 published>>

(* The rest of connect() (lines 189-208).  m_connecting is exchanged to    *)
(* true.  If it was true and the connect thread is done, the thread is     *)
(* joined and m_connected read again; if it is not done, or if it was      *)
(* false and a connect thread is started now, connect() returns false and  *)
(* so does do_write.                                                        *)
WriterJoinOrStart ==
  /\ wpc = "connecting"
  /\ \/ /\ connecting /\ ctDone
        /\ cpc = "ended"
        /\ connecting' = FALSE
        /\ cpc' = "none"
        /\ wpc' = IF connected THEN "send" ELSE "idle"
        /\ UNCHANGED ctDone
     \/ /\ connecting /\ ~ctDone
        /\ WriteFails
        /\ UNCHANGED <<connecting, ctDone, cpc>>
     \/ /\ ~connecting
        /\ connecting' = TRUE
        /\ ctDone' = FALSE
        /\ cpc' = "socket"
        /\ WriteFails
  /\ UNCHANGED <<netVars, connected, readVars, receipt, replyQ, calls, acked,
                 published>>

(* ++m_receipt and write the SEND frame (lines 242-271); a write on a     *)
(* closed socket throws: disconnect and return false.                      *)
WriterSend ==
  /\ wpc = "send"
  /\ receipt' = receipt + 1
  /\ IF TS!io_throws
     THEN /\ Disconnect /\ wpc' = "reset"
          /\ UNCHANGED toServer
     ELSE /\ toServer' = [toServer EXCEPT ![sock] =
                 Append(@, [cmd |-> "SEND", ev |-> Current, id |-> receipt + 1])]
          /\ wpc' = "wait"
          /\ UNCHANGED <<sock, fds, connected>>
  /\ UNCHANGED <<nconn, open, wire, drops, connecting, ctDone, cpc, readVars,
                 replyQ, calls, acked, published>>

(* No reply within 6 s (lines 273-283): disconnect and return false.       *)
WriterTimeout ==
  /\ wpc = "wait"
  /\ replyQ = <<>>
  /\ Disconnect
  /\ wpc' = "reset"
  /\ UNCHANGED <<nconn, open, toServer, wire, drops, connecting, ctDone, cpc,
                 readVars, receipt, replyQ, calls, acked, published>>

(* Mutant of WriterTake: any RECEIPT is taken as the answer, whatever its *)
(* receipt-id.                                                             *)
WriterTakeAnyReceipt ==
  LET r == Head(replyQ) IN
  /\ wpc = "wait"
  /\ replyQ # <<>>
  /\ replyQ' = Tail(replyQ)
  /\ \/ /\ r.cmd # "RECEIPT"
        /\ Disconnect
        /\ wpc' = "reset"
        /\ UNCHANGED acked
     \/ /\ r.cmd = "RECEIPT"
        /\ wpc' = "idle"
        /\ acked' = acked \cup {Current}
        /\ UNCHANGED <<sock, fds, connected>>
  /\ UNCHANGED <<nconn, open, toServer, wire, drops, connecting, ctDone, cpc,
                 readVars, receipt, calls, published>>

(* Pop the front reply (lines 285-301): anything but a RECEIPT disconnects *)
(* and fails; a RECEIPT succeeds iff its receipt-id is m_receipt, and a    *)
(* mismatch fails without disconnecting.                                   *)
WriterTake ==
  LET r == Head(replyQ) IN
  /\ wpc = "wait"
  /\ replyQ # <<>>
  /\ replyQ' = Tail(replyQ)
  /\ \/ /\ r.cmd # "RECEIPT"
        /\ Disconnect
        /\ wpc' = "reset"
        /\ UNCHANGED acked
     \/ /\ r.cmd = "RECEIPT"
        /\ wpc' = "idle"
        /\ acked' = IF r.id = receipt THEN acked \cup {Current} ELSE acked
        /\ UNCHANGED <<sock, fds, connected>>
  /\ UNCHANGED <<nconn, open, toServer, wire, drops, connecting, ctDone, cpc,
                 readVars, receipt, calls, published>>

(* The writer's disconnect resets m_socket; do_write returns false.       *)
WriterReset ==
  /\ wpc = "reset"
  /\ DisconnectReset
  /\ WriteFails
  /\ UNCHANGED <<fds, nconn, open, toServer, wire, drops, connecting, ctDone,
                 cpc, readVars, receipt, replyQ, calls, acked, published>>

-----------------------------------------------------------------------------
(* The connect thread: output_stream_stomp::connect_thread (lines 111-169) *)

(* m_socket->connect() (lines 112-118): on success go on; on an          *)
(* exception log a warning, set m_connect_thread_done and return, leaving  *)
(* m_socket as connect() left it.                                          *)
CtSocket ==
  /\ cpc = "socket"
  /\ \E o \in TS!ConnectOutcomes :
       /\ TS!Opens(o) => nconn < MaxConnects
       /\ TS!connect(nconn + 1, o)
       /\ nconn' = IF TS!Opens(o) THEN nconn + 1 ELSE nconn
       /\ open' = IF TS!Opens(o) THEN open \cup {nconn + 1} ELSE open
       /\ \/ /\ ~TS!Throws(o)
             /\ cpc' = "send"
             /\ UNCHANGED ctDone
          \/ /\ TS!Throws(o)
             /\ ctDone' = TRUE
             /\ cpc' = "ended"
  /\ UNCHANGED <<toServer, wire, drops, connected, connecting, readVars,
                 receipt, replyQ, wpc, calls, acked, published>>

(* Write the CONNECT frame (lines 120-141); on a closed socket the write   *)
(* throws: disconnect and end.                                             *)
CtSend ==
  /\ cpc = "send"
  /\ IF TS!io_throws
     THEN /\ Disconnect
          /\ cpc' = "reset"
          /\ UNCHANGED <<toServer, ctDone>>
     ELSE /\ toServer' = [toServer EXCEPT ![sock] = Append(@, [cmd |-> "CONNECT"])]
          /\ cpc' = "spawn"
          /\ UNCHANGED <<sock, fds, connected, ctDone>>
  /\ UNCHANGED <<nconn, open, wire, drops, connecting, readVars, receipt,
                 replyQ, wpc, calls, acked, published>>

(* new std::thread{reader_thread} (lines 143-144), never joined.           *)
CtSpawn ==
  /\ cpc = "spawn"
  /\ rpc' = [rpc EXCEPT ![nconn] = "select"]
  /\ cpc' = "wait"
  /\ UNCHANGED <<netVars, connected, connecting, ctDone, rconn, rframe,
                 lastWasData, receipt, replyQ, wpc, calls, acked, published>>

(* Mutant of CtTimeout: m_reply_cv.wait without a deadline, so the thread *)
(* never gives up on a reply.                                              *)
CtWaitWithoutTimeout ==
  /\ cpc = "wait"
  /\ replyQ = <<>>
  /\ UNCHANGED vars

(* No reply within 5 s (lines 146-157): warn, disconnect, end.             *)
CtTimeout ==
  /\ cpc = "wait"
  /\ replyQ = <<>>
  /\ Disconnect
  /\ cpc' = "reset"
  /\ UNCHANGED <<nconn, open, toServer, wire, drops, connecting, ctDone, readVars,
                 receipt, replyQ, wpc, calls, acked, published>>

(* Pop the front reply (lines 158-168): a CONNECTED frame (version 1.1 and *)
(* an acceptable heart-beat) sets m_connected; anything else disconnects.  *)
CtTake ==
  /\ cpc = "wait"
  /\ replyQ # <<>>
  /\ replyQ' = Tail(replyQ)
  /\ IF Head(replyQ).cmd = "CONNECTED"
     THEN /\ connected' = TRUE
          /\ ctDone' = TRUE
          /\ cpc' = "ended"
          /\ UNCHANGED <<sock, fds>>
     ELSE /\ Disconnect
          /\ cpc' = "reset"
          /\ UNCHANGED ctDone
  /\ UNCHANGED <<nconn, open, toServer, wire, drops, connecting, readVars,
                 receipt, wpc, calls, acked, published>>

(* The connect thread's disconnect resets m_socket; then it sets          *)
(* m_connect_thread_done and returns.                                       *)
CtReset ==
  /\ cpc = "reset"
  /\ DisconnectReset
  /\ ctDone' = TRUE
  /\ cpc' = "ended"
  /\ UNCHANGED <<fds, nconn, open, toServer, wire, drops, connecting, readVars,
                 receipt, replyQ, wpc, calls, acked, published>>

-----------------------------------------------------------------------------
(* Reader threads: output_stream_stomp::reader_thread (lines 304-366) and  *)
(* read_with_timeout (lines 504-529).                                      *)

(* select_read on the current m_socket.  With no socket it throws, which   *)
(* read_with_timeout turns into -1: the reader disconnects and ends.       *)
ReaderSelect(r) ==
  /\ rpc[r] = "select"
  /\ IF TS!io_throws
     THEN /\ Disconnect
          /\ rpc' = [rpc EXCEPT ![r] = "reset"]
          /\ UNCHANGED rconn
     ELSE /\ rconn' = [rconn EXCEPT ![r] = sock]
          /\ rpc' = [rpc EXCEPT ![r] = "blocked"]
          /\ UNCHANGED <<sock, fds, connected>>
  /\ UNCHANGED <<nconn, open, toServer, wire, drops, connecting, ctDone, cpc,
                 rframe, lastWasData, receipt, replyQ, wpc, calls, acked,
                 published>>

(* The select returns.  On the socket that is still current: a frame is    *)
(* read (m_last_was_data set), or the broker closed it and read returns 0. *)
(* On a socket closed under it the select sees nothing and times out after *)
(* 1.5 heart-beat intervals: with m_last_was_data set, read_with_timeout   *)
(* clears it and selects again (on the then current m_socket); otherwise   *)
(* it returns -1 and the reader calls disconnect(), which closes whatever  *)
(* socket is current.                                                      *)
ReaderRead(r) ==
  LET c == rconn[r] IN
  /\ rpc[r] = "blocked"
  /\ \/ /\ c = sock /\ wire[c] # <<>>
        /\ rframe' = [rframe EXCEPT ![r] = Head(wire[c])]
        /\ wire' = [wire EXCEPT ![c] = Tail(@)]
        /\ lastWasData' = TRUE
        /\ rpc' = [rpc EXCEPT ![r] = "push"]
        /\ UNCHANGED <<sock, fds, connected>>
     \/ /\ c = sock /\ wire[c] = <<>> /\ c \notin open
        /\ Disconnect
        /\ rpc' = [rpc EXCEPT ![r] = "reset"]
        /\ UNCHANGED <<wire, rframe, lastWasData>>
     \/ /\ c # sock /\ lastWasData
        /\ lastWasData' = FALSE
        /\ rpc' = [rpc EXCEPT ![r] = "select"]
        /\ UNCHANGED <<sock, fds, connected, wire, rframe>>
     \/ /\ c # sock /\ ~lastWasData
        /\ Disconnect
        /\ rpc' = [rpc EXCEPT ![r] = "reset"]
        /\ UNCHANGED <<wire, rframe, lastWasData>>
  /\ UNCHANGED <<nconn, open, toServer, drops, connecting, ctDone, cpc, rconn,
                 receipt, replyQ, wpc, calls, acked, published>>

(* handle_reply (lines 432-437): the parsed frame is appended to           *)
(* m_reply_queue under m_reply_mutex and m_reply_cv notified; the reader   *)
(* goes back to select.                                                    *)
ReaderPush(r) ==
  /\ rpc[r] = "push"
  /\ replyQ' = Append(replyQ, rframe[r])
  /\ rpc' = [rpc EXCEPT ![r] = "select"]
  /\ UNCHANGED <<netVars, connVars, rconn, rframe, lastWasData, receipt, wpc,
                 calls, acked, published>>

(* The reader's disconnect resets m_socket; the reader ends.              *)
ReaderReset(r) ==
  /\ rpc[r] = "reset"
  /\ DisconnectReset
  /\ rpc' = [rpc EXCEPT ![r] = "exited"]
  /\ UNCHANGED <<fds, nconn, open, toServer, wire, drops, connecting, ctDone,
                 cpc, rconn, rframe, lastWasData, receipt, replyQ, wpc, calls,
                 acked, published>>

-----------------------------------------------------------------------------
(* ~log_thread (log_thread.cpp lines 26-38) deletes the stream once       *)
(* terminate() has joined the delivery worker, i.e. when no do_write is    *)
(* running.  ~output_stream_stomp (lines 105-109) only frees the level     *)
(* strings: m_connect_thread is destroyed as it is, and the reader threads *)
(* run on.  No do_write is called after it.                                *)
Destroy ==
  /\ alive
  /\ wpc = "idle"
  /\ alive' = FALSE
  /\ UNCHANGED <<netVars, connVars, readVars, receipt, replyQ, wpc, calls,
                 acked, published>>

-----------------------------------------------------------------------------
(* The state the constructor (lines 15-103) leaves: its last statement,    *)
(* connect(), found m_connecting false and started the connect thread.     *)
Init ==
  /\ TS!Init
  /\ nconn = 0
  /\ open = {}
  /\ toServer = [c \in Conns |-> <<>>]
  /\ wire = [c \in Conns |-> <<>>]
  /\ drops = 0
  /\ connected = FALSE
  /\ connecting = TRUE
  /\ ctDone = FALSE
  /\ cpc = "socket"
  /\ receipt = 0
  /\ replyQ = <<>>
  /\ rpc = [r \in Readers |-> "none"]
  /\ rconn = [r \in Readers |-> 0]
  /\ rframe = [r \in Readers |-> NoFrame]
  /\ lastWasData = FALSE
  /\ wpc = "idle"
  /\ calls = 0
  /\ acked = {}
  /\ published = <<>>
  /\ alive = TRUE

(* The threads of the sink and the broker never delete it: alive changes  *)
(* only by Destroy.  The model ends at Destroy: what the threads still     *)
(* running do to the freed object is undefined, and NoThreadOutlivesSink   *)
(* judges the state it is deleted in.                                      *)
Writer ==
  /\ alive
  /\ WriterConnect \/ WriterJoinOrStart \/ WriterSend \/ WriterTimeout \/ WriterTake
     \/ WriterReset
  /\ UNCHANGED alive

ConnectThread ==
  /\ alive
  /\ CtSocket \/ CtSend \/ CtSpawn \/ CtTimeout \/ CtTake \/ CtReset
  /\ UNCHANGED alive

Reader(r) ==
  /\ alive
  /\ ReaderSelect(r) \/ ReaderRead(r) \/ ReaderPush(r) \/ ReaderReset(r)
  /\ UNCHANGED alive

Broker ==
  /\ alive
  /\ \E c \in Conns : ServerHandle(c) \/ ServerDrop(c)
  /\ UNCHANGED alive

Next == Writer \/ ConnectThread \/ (\E r \in Readers : Reader(r)) \/ Broker
        \/ Destroy

Spec == Init /\ [][Next]_vars

-----------------------------------------------------------------------------
(* Properties.                                                             *)

(* do_write returns true only for an event the broker has published: a     *)
(* RECEIPT accepted by do_write answers the SEND frame it wrote for that   *)
(* event, across reconnections, timeouts, late replies and old readers.    *)
SuccessMeansPublished == \A e \in acked : e \in ToSet(published)

(* The reply the connect thread or do_write pops from m_reply_queue came  *)
(* in on the current connection: neither takes a CONNECTED or RECEIPT left *)
(* over from an earlier connection (the queue is never cleared when a     *)
(* connection is closed or opened) as the answer to its own request.       *)
TakenReplyIsCurrent ==
  [][Len(replyQ') < Len(replyQ) => Head(replyQ).conn = sock]_vars

(* The sink holds no descriptor but m_socket: every path that gives up a  *)
(* connection closes it before connect() opens the next one, whichever     *)
(* thread (writer, connect thread, old reader) gives it up.  Violated: an  *)
(* old reader's disconnect resets m_socket after the new connection's      *)
(* ::socket(), and a failed SSL handshake leaves its descriptor open.      *)
NoLeakedDescriptor == fds \subseteq {sock}

(* When ~output_stream_stomp runs, no thread of the sink is left: the      *)
(* std::thread m_connect_thread is not joinable (a joinable std::thread    *)
(* being destroyed calls std::terminate) and no reader thread still runs   *)
(* on the freed object.  connect() joins the connect thread only when it   *)
(* is called again without m_connected, and nothing joins a reader.        *)
NoThreadOutlivesSink ==
  ~alive => /\ cpc = "none"
            /\ \A r \in Readers : rpc[r] \in {"none", "exited"}

(* Weak fairness of the threads of the sink: each is an OS thread.  The    *)
(* broker is not assumed to answer.                                        *)
Fairness ==
  /\ WF_vars(Writer) /\ WF_vars(ConnectThread)
  /\ \A r \in Readers : WF_vars(Reader(r))

FairSpec == Spec /\ Fairness

(* A started connect thread always finishes while the sink exists, so the *)
(* join in connect() (line 192) never blocks the delivery worker or a     *)
(* retry thread: every wait of connect_thread has a timeout.               *)
ConnectThreadEnds == (cpc \in {"socket", "send", "spawn", "wait", "reset"}) ~> (ctDone \/ ~alive)

=============================================================================
