------------------------------ MODULE TcpSocket ------------------------------
(***************************************************************************)
(* tcp_client_socket (src/tcp_client_socket.cpp) at the level of the       *)
(* process's descriptors.  m_socket is `sock`, INVALID_SOCKET is 0; `fds`  *)
(* is the set of descriptors the process has open.  A descriptor is named  *)
(* by the connection it carries: the caller passes a fresh name.          *)
(*                                                                         *)
(* connect() resolves the host, then calls connect_to_ip on each address   *)
(* until one connects, then runs the SOCKS and the SSL handshakes when     *)
(* they are enabled.  Name resolution, the addresses and the handshakes   *)
(* are I/O: what the model keeps is which of them failed, and what that    *)
(* leaves in m_socket and in the descriptor table.                         *)
(***************************************************************************)
EXTENDS Naturals

CONSTANTS
  Conns,     \* descriptor names
  UseSOCKS,  \* m_use_socks (use_SOCKS with a host)
  UseSSL     \* m_use_ssl (use_SSL)

INVALID_SOCKET == 0

VARIABLES
  sock,  \* m_d->m_socket
  fds    \* descriptors open in the process

sockVars == <<sock, fds>>

(* connected() (lines 254-256).                                            *)
connected == sock # INVALID_SOCKET

(* disconnect() (lines 244-252) is two statements with no lock: first     *)
(* ::close(m_socket), errors ignored (on INVALID_SOCKET it fails with      *)
(* EBADF), ...                                                             *)
close_socket ==
  /\ fds' = fds \ {sock}
  /\ UNCHANGED sock

(* ... then m_socket = INVALID_SOCKET, whatever m_socket holds by then.    *)
reset_socket ==
  /\ sock' = INVALID_SOCKET
  /\ UNCHANGED fds

(* What one connect() call can end in (lines 118-177):                     *)
(*  "resolve_failed"   getaddrinfo fails: throw, m_socket untouched;       *)
(*  "no_address"       every connect_to_ip fails: each closed the socket   *)
(*                     it made and set m_socket = INVALID_SOCKET (lines    *)
(*                     202-239), so connect() throws "Could not connect.";*)
(*  "connected"        an address connects and the handshakes succeed;     *)
(*  "handshake_failed" an address connects and start_SOCKS (lines          *)
(*                     258-300) or start_SSL (lines 426-472) throws: the   *)
(*                     connected socket stays in m_socket.                 *)
(* start_SOCKS (lines 258-300) throws on a refused handshake, a host name  *)
(* too long or an error reply; start_SSL (lines 426-472) on a failed      *)
(* context, SSL_connect or certificate check.  Neither closes the socket.  *)
start_SOCKS_may_throw == UseSOCKS
start_SSL_may_throw == UseSSL

ConnectOutcomes ==
  {"resolve_failed", "no_address", "connected"}
  \cup (IF start_SOCKS_may_throw \/ start_SSL_may_throw
        THEN {"handshake_failed"} ELSE {})

Throws(o) == o # "connected"

Opens(o) == o \in {"connected", "handshake_failed"}

(* connect() with outcome o; c names the socket ::socket() returns.        *)
(* connect_to_ip overwrites m_socket without closing what it held.         *)
connect(c, o) ==
  CASE o = "resolve_failed" -> UNCHANGED sockVars
    [] o = "no_address"     -> sock' = INVALID_SOCKET /\ UNCHANGED fds
    [] Opens(o)             -> sock' = c /\ fds' = fds \cup {c}

(* read(), select_read() and write() throw "Not connected" on              *)
(* INVALID_SOCKET (lines 303-305, 331-333, 388-390); otherwise they work   *)
(* on whatever descriptor m_socket holds when they are called.             *)
io_throws == ~connected

-----------------------------------------------------------------------------
(* The state the constructor leaves (tcs_private: m_socket INVALID_SOCKET, *)
(* no descriptor).  The callers, with their threads, are StompSink's.      *)
Init ==
  /\ sock = INVALID_SOCKET
  /\ fds = {}

=============================================================================
