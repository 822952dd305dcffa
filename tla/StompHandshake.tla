---------------------------- MODULE StompHandshake ----------------------------
(***************************************************************************)
(* The end of the STOMP connect handshake (src/output_stream_stomp.cpp):   *)
(* connect_thread takes the first reply and accepts the connection only    *)
(* for a CONNECTED frame that passes check_server_version and              *)
(* parse_heartbeat, which sets m_heartbeat_interval; the reader thread     *)
(* turns that interval into the timeout of every select it makes.  The    *)
(* reader is started before the reply is taken, and m_heartbeat_interval  *)
(* lives as long as the sink, across connections.  Header values are      *)
(* sequences of one-character strings.                                     *)
(***************************************************************************)
EXTENDS Integers, Sequences, SequencesExt

CONSTANTS
  Replies,      \* the CONNECTED-or-not replies a server may send first
  ReplyDelay,   \* microseconds from the reader's first select to the reply
  MaxConnects   \* connection attempts in a behaviour

VARIABLES
  interval,  \* m_heartbeat_interval (long, initially 0)
  stage,     \* "waiting" for the reply, "connected" or "failed"
  reply,     \* the first reply of the current connection
  armed,     \* the timeout of the reader's latest select on this connection
  conns      \* connections made so far

vars == <<interval, stage, reply, armed, conns>>

NotArmed == [us |-> -1, afterHandshake |-> FALSE]
NoTimeout == 0   \* select_read gets a null timeval for 0 (tcp line 348)
Wrapped == -2    \* a timeout of about 2^64 microseconds

Has(r, k) == k \in DOMAIN r.headers

DigitVal == "0" :> 0 @@ "1" :> 1 @@ "5" :> 5
IsSpace(c) == c \in {" ", "\t", "\n"}

RECURSIVE SkipSpaces(_, _)
SkipSpaces(s, i) == IF i <= Len(s) /\ IsSpace(s[i]) THEN SkipSpaces(s, i + 1) ELSE i

RECURSIVE Digits(_, _, _)
Digits(s, i, v) ==
  IF i <= Len(s) /\ s[i] \in DOMAIN DigitVal THEN Digits(s, i + 1, 10 * v + DigitVal[s[i]])
  ELSE [v |-> v, end |-> i]

(* ::strtol(s, &endptr, 10): white space, an optional sign, the longest   *)
(* run of digits; with no digit the value is 0 and endptr is s itself.     *)
(* `end` is the position endptr points to, Len(s) + 1 for the '\0'.       *)
strtol(s) ==
  LET i   == SkipSpaces(s, 1)
      neg == i <= Len(s) /\ s[i] = "-"
      j   == IF i <= Len(s) /\ s[i] \in {"+", "-"} THEN i + 1 ELSE i
      d   == Digits(s, j, 0)
  IN IF d.end = j THEN [v |-> 0, end |-> 1]
     ELSE [v |-> IF neg THEN -d.v ELSE d.v, end |-> d.end]

(* check_server_version (lines 440-457): a version header equal to "1.1". *)
check_server_version(r) == Has(r, "version") /\ r.headers["version"] = <<"1", ".", "1">>

(* parse_heartbeat (lines 459-502): [ok, interval].  No header: interval *)
(* 0.  Otherwise the value must have a ',', the text after the first one  *)
(* must be exactly "0", and the text before it is given to strtol, whose   *)
(* value is stored in m_heartbeat_interval before endptr is checked.       *)
parse_heartbeat(r, old) ==
  IF ~Has(r, "heart-beat") THEN [ok |-> TRUE, interval |-> 0]
  ELSE LET hb    == r.headers["heart-beat"]
           comma == {i \in 1..Len(hb) : hb[i] = ","}
           c     == Min(comma)
           n     == strtol(SubSeq(hb, 1, c - 1))
       IN CASE comma = {}                          -> [ok |-> FALSE, interval |-> old]
            [] SubSeq(hb, c + 1, Len(hb)) # <<"0">> -> [ok |-> FALSE, interval |-> old]
            [] OTHER -> [ok |-> n.end = c, interval |-> n.v]

(* connect_thread takes the front reply (lines 158-168): the command must *)
(* be CONNECTED, then the version and then the heart-beat are checked,     *)
(* each only when the one before passed.                                   *)
(* The reply is read only by a reader in select whose timeout has not     *)
(* expired first; the AMQ_4710_workaround may wait a second period when  *)
(* m_last_was_data is set, so a reply within twice the timeout may come.  *)
ReplyInTime == armed.us \in {NoTimeout, Wrapped} \/ ReplyDelay <= 2 * armed.us

CtTake ==
  /\ stage = "waiting"
  /\ armed # NotArmed /\ ReplyInTime
  /\ LET hb == parse_heartbeat(reply, interval)
         ok == reply.command = "CONNECTED" /\ check_server_version(reply) /\ hb.ok
     IN /\ stage' = IF ok THEN "connected" ELSE "failed"
        /\ interval' = IF reply.command = "CONNECTED" /\ check_server_version(reply)
                       THEN hb.interval ELSE interval
  /\ UNCHANGED <<reply, armed, conns>>

(* The reader's select (lines 309-310): m_heartbeat_interval * 1000 (a    *)
(* long) * 1.5 (a double) is passed as an unsigned long number of          *)
(* microseconds.  For a negative interval that conversion is undefined:    *)
(* x86-64 builds wrap it to 2^64 - |t| (a wait of centuries), AArch64      *)
(* builds saturate it to 0 (no timeout); the model takes either.          *)
ReaderSelect ==
  /\ stage # "failed"
  /\ LET t == interval * 1500 IN
     \E us \in IF t >= 0 THEN {t} ELSE {Wrapped, NoTimeout} :
       armed' = [us |-> us, afterHandshake |-> stage = "connected"]
  /\ UNCHANGED <<interval, stage, reply, conns>>

(* The reader's select times out before the reply comes (lines 313-318): *)
(* it disconnects and ends, so the reply is never queued and the connect   *)
(* thread's wait for it times out (lines 150-156): the connection fails.   *)
ReaderTimesOut ==
  /\ stage = "waiting"
  /\ armed # NotArmed /\ armed.us \notin {NoTimeout, Wrapped}
  /\ armed.us < ReplyDelay
  /\ stage' = "failed"
  /\ UNCHANGED <<interval, reply, armed, conns>>

(* The connection is lost or failed, and a later write starts a new       *)
(* connect thread (connect(), lines 176-211): a new socket, a new reader,  *)
(* a new first reply; m_heartbeat_interval keeps its value.                *)
Reconnect ==
  /\ stage # "waiting"
  /\ conns < MaxConnects
  /\ \E r \in Replies : reply' = r
  /\ stage' = "waiting"
  /\ armed' = NotArmed
  /\ conns' = conns + 1
  /\ UNCHANGED interval

Init ==
  /\ interval = 0
  /\ stage = "waiting"
  /\ reply \in Replies
  /\ armed = NotArmed
  /\ conns = 1

Next == CtTake \/ ReaderSelect \/ ReaderTimesOut \/ Reconnect

Spec == Init /\ [][Next]_vars

-----------------------------------------------------------------------------
(* Reference: step 4 of the spec's connect handshake (section 4.7).  The  *)
(* reply is accepted when its command is CONNECTED, its version is 1.1    *)
(* and a heart-beat header, when there is one, is well formed (two         *)
(* non-negative decimal numbers sx,sy) with sy zero; the reader then waits *)
(* at most 1.5 * sx ms (no limit for sx = 0 or no header).                 *)
ASSUME ReplyDelay < 5000000
IsNumber(s) == s # <<>> /\ \A i \in 1..Len(s) : s[i] \in DOMAIN DigitVal
NumberVal(s) == FoldLeft(LAMBDA v, c : 10 * v + DigitVal[c], 0, s)

HeartBeatFields(r) ==
  {<<sx, sy>> \in Prefixes(r.headers["heart-beat"]) \X Suffixes(r.headers["heart-beat"]) :
     /\ sx \o <<",">> \o sy = r.headers["heart-beat"]
     /\ IsNumber(sx) /\ IsNumber(sy)}

SpecAccepts(r) ==
  /\ r.command = "CONNECTED"
  /\ Has(r, "version") /\ r.headers["version"] = <<"1", ".", "1">>
  /\ ~Has(r, "heart-beat") \/ \E f \in HeartBeatFields(r) : NumberVal(f[2]) = 0

SpecTimeout(r) ==
  IF ~Has(r, "heart-beat") THEN NoTimeout
  ELSE 1500 * NumberVal((CHOOSE f \in HeartBeatFields(r) : TRUE)[1])

(* A first reply that comes within the handshake's 5 s wait is accepted   *)
(* exactly when the spec accepts it, on every connection, and once         *)
(* connected every select the reader makes waits the time the server's     *)
(* heart-beat header asks for (connect_thread with check_server_version    *)
(* and parse_heartbeat, and the timeout reader_thread computes from        *)
(* m_heartbeat_interval, which outlives the connection that set it).       *)
HandshakeAsSpecified ==
  /\ stage # "waiting" => (stage = "connected" <=> SpecAccepts(reply))
  /\ stage = "connected" /\ armed.afterHandshake => armed.us = SpecTimeout(reply)

=============================================================================
