---------------------------- MODULE MCComponents ----------------------------
(***************************************************************************)
(* The components of the library, each checked on its own bounds in one  *)
(* model: the first state of a behaviour picks one component, and  *)
(* only that component moves, so the state spaces add up.  Each component *)
(* is instantiated with the bounds given below.  The STOMP sink's safety  *)
(* is checked here, its progress in MCLiveness, under fairness and on      *)
(* smaller bounds.                                                          *)
(*                                                                         *)
(* Variable names of different components that clash are prefixed here   *)
(* (fs_ for the file sink, lg_ for the logger facade, lp_ for the delivery *)
(* pipeline, sf_ for the STOMP reader's bytes, ql_ for the Qt viewer).    *)
(***************************************************************************)
EXTENDS Naturals, Sequences, TLC, LogLevels

CONSTANT Parts   \* the components to exercise

VARIABLE part

VARIABLES disk, sopen, fs_sgood, isopen, fs_alive, now, fs_acked, fs_faults,
          starts
VARIABLES active, forwarded, input, reads, destroyed
VARIABLES case, parts, outcome
VARIABLES env, colors, minLevel, sgood, lines, results, faults
VARIABLES inst, created, owner, lt, mthread, subs, regs, streams, slevel,
          nobj, freed, pending, doTerm, lg_wpc, todo, wobj, apc, op, lg_calls,
          xpc, fault
VARIABLES submitted, lp_now, events, doTerminate, local, lp_wpc, wsink,
          stillActive, rmap, lp_rpc, rq, fails, delivered, expired, dropped
VARIABLES partial, sf_replyQ, sf_lastWasData, ended, sf_input
VARIABLES interval, stage, reply, armed, conns
VARIABLES list, written, clock, qt, gui, ql_now, it, row, firstRow, firstIt, ub
VARIABLES format, result
VARIABLES sock, fds, nconn, open, toServer, wire, drops, connected,
          connecting, ctDone, cpc, receipt, replyQ, rpc, rconn, rframe,
          lastWasData, wpc, calls, acked, published, alive

fsVars == <<disk, sopen, fs_sgood, isopen, fs_alive, now, fs_acked, fs_faults,
            starts>>
lsVars == <<active, forwarded, input, reads, destroyed>>
puVars == <<case, parts, outcome>>
soVars == <<env, colors, minLevel, sgood, lines, results, faults>>
lgVars == <<inst, created, owner, lt, mthread, subs, regs, streams, slevel,
            nobj, freed, pending, doTerm, lg_wpc, todo, wobj, apc, op, lg_calls,
            xpc, fault>>
lpVars == <<submitted, lp_now, events, doTerminate, local, lp_wpc, wsink,
            stillActive, rmap, lp_rpc, rq, fails, delivered, expired, dropped>>
sfVars == <<partial, sf_replyQ, sf_lastWasData, ended, sf_input>>
hsVars == <<interval, stage, reply, armed, conns>>
qlVars == <<list, written, clock, qt, gui, ql_now, it, row, firstRow, firstIt, ub>>
fmVars == <<format, result>>
ssVars == <<sock, fds, nconn, open, toServer, wire, drops, connected,
            connecting, ctDone, cpc, receipt, replyQ, rpc, rconn, rframe,
            lastWasData, wpc, calls, acked, published, alive>>
vars == <<part, fsVars, lsVars, puVars, soVars, lgVars, lpVars, sfVars, hsVars, qlVars,
          fmVars, ssVars>>

-----------------------------------------------------------------------------
(* The file sink: lines of 20, 20 and 30 characters with m_maxsize = 80,   *)
(* so the first two fit in one file (10 + 20 + 20 + 12 <= 80) and the      *)
(* third rotates it; three milliseconds, two faults, a restart.            *)
FS == INSTANCE FileSink WITH
        NEvents <- 3, LineLen <- [e \in 1..3 |-> IF e = 3 THEN 30 ELSE 20],
        MaxSize <- 80, MaxTime <- 2, MaxFaults <- 2, MaxStarts <- 2,
        sgood <- fs_sgood, alive <- fs_alive, acked <- fs_acked,
        faults <- fs_faults

(* The line splitter: three buffers of up to two bytes.                    *)
LS == INSTANCE LineSplitter WITH Chars <- {"a", "\n"}, MaxBufLen <- 2,
                                 MaxReads <- 3

(* parse_URL on URLs built from encoded components: [on, enc, dec], enc   *)
(* as written in the URL, dec what it denotes.                             *)
Off(d) == [on |-> FALSE, enc |-> <<>>, dec |-> d]
On(e, d) == [on |-> TRUE, enc |-> e, dec |-> d]

ProtoOpts == {Off(<<>>), On(<<"s">>, <<"s">>)}
UserOpts  == {Off(<<>>), On(<<"u">>, <<"u">>),
              On(<<"u", "%", "4", "0">>, <<"u", "@">>),
              On(<<"u", "+">>, <<"u", " ">>)}
PassOpts  == {Off(<<>>), On(<<>>, <<>>),
              On(<<"p", "%", "3", "A">>, <<"p", ":">>)}
HostOpts  == {On(<<"h">>, <<"h">>)}
PortOpts  == {Off(0), On(<<"1">>, 1), On(<<"6", "5", "5", "3", "5">>, 65535),
              On(<<"0">>, 0), On(<<"6", "5", "5", "3", "6">>, 65536),
              On(<<>>, 0)}
PathOpts  == {Off(<<>>), On(<<>>, <<>>), On(<<"q">>, <<"q">>),
              On(<<"q", "@", "x">>, <<"q", "@", "x">>)}

(* The URLs within the grammar parse_URL's checks admit: a login always   *)
(* comes with a ':' (parse_url.cpp line 65), and a path has no raw '@'.   *)
URLCases ==
  {c \in [proto : ProtoOpts, user : UserOpts, pass : PassOpts, host : HostOpts,
          port : PortOpts, path : PathOpts] :
     /\ c.user.on <=> c.pass.on
     /\ ~(c.path.on /\ "@" \in {c.path.enc[i] : i \in DOMAIN c.path.enc})}

PU == INSTANCE ParseURL WITH Cases <- URLCases

(* The stdout sink, constructed under TERM values around the "-256color"  *)
(* test (unset, too short, a 256-colour terminal, the bare suffix) and     *)
(* COLORFGBG values "fg", "fg;bg" and "fg:bg" from decimal, negative,      *)
(* empty, trailing-garbage and int-boundary parts; then three writes at    *)
(* finest or severe, one of which may fail.                                *)
Unset == <<"nullptr">>   \* StdoutSink's unset variable

TermOpts == {Unset, <<"x", "t">>,
             <<"x", "-", "2", "5", "6", "c", "o", "l", "o", "r">>,
             <<"-", "2", "5", "6", "c", "o", "l", "o", "r">>}
FgOpts == {<<>>, <<"1", "5">>, <<"0">>, <<"-", "1">>,
           <<"-", "2", "1", "4", "7", "4", "8", "3", "6", "4", "8">>}
SepOpts == {<<";">>, <<":">>}
BgOpts == {<<>>, <<"0">>, <<"7">>, <<"9">>, <<"1", "0">>, <<"0", "7">>,
           <<"-", "1">>, <<"7", "x">>, <<"0", ";", "1">>,
           <<"2", "1", "4", "7", "4", "8", "3", "6", "4", "7">>}
FgBgOpts == {Unset} \cup FgOpts
            \cup {f \o s \o b : f \in FgOpts, s \in SepOpts, b \in BgOpts}

StdoutEnvs == [term : TermOpts, fgbg : FgBgOpts]

SO == INSTANCE StdoutSink WITH
        Envs <- StdoutEnvs, Levels <- {Finest, Severe},
        MaxWrites <- 3, MaxFaults <- 1

(* The logger facade: two threads, one subsystem, the stdout stream and   *)
(* one more stream name, three facade calls; main may return and a SIGSEGV *)
(* may arrive while the threads run.                                       *)
LG == INSTANCE Logger WITH
        Apps <- {"t1", "t2"}, NoThread <- "none", Names <- {"main"},
        StreamNames <- {"stdout", "file"}, Levels <- {Finest, Severe},
        MaxCalls <- 3, MaxObjects <- 2, Exits <- TRUE, Crashes <- TRUE,
        wpc <- lg_wpc, calls <- lg_calls

(* The delivery pipeline: two streams, stream 1 taking every level and    *)
(* stream 2 info and above, each failing up to twice (so a retry thread's  *)
(* own write fails, in both streams at once); two events, finest or       *)
(* severe; the clock passes the finest ceiling once; starting a retry      *)
(* thread may fail, and threads may log during shutdown.                    *)
LP == INSTANCE LogPipeline WITH
        NSinks <- 2, SinkMinLevel <- [s \in 1..2 |-> IF s = 1 THEN Finest ELSE Info],
        EventLevels <- {Finest, Severe}, MaxEvents <- 2,
        MaxFails <- [s \in 1..2 |-> 2],
        TickSeconds <- 1000, MaxTime <- 1000, SpawnMayFail <- TRUE,
        LogDuringShutdown <- TRUE, now <- lp_now, wpc <- lp_wpc, rpc <- lp_rpc

(* The STOMP reader's bytes: ordinary bytes are all "x"; reads of up to 3  *)
(* bytes, 9 bytes in all, enough for a frame with a repeated header key    *)
(* (x \n : \n :: \n \n NUL) or two short frames with heartbeats.          *)
SF == INSTANCE StompFrames WITH Chars <- {"x", ":", "\n", "NUL"},
        MaxBufLen <- 3, MaxBytes <- 9, replyQ <- sf_replyQ,
        lastWasData <- sf_lastWasData, input <- sf_input

(* First replies of a STOMP server: the command, the version header and   *)
(* the heart-beat header (absent when not in DOMAIN), with heart-beat      *)
(* values well formed and not.                                             *)
HBValues == {<<"0", ",", "0">>, <<"5", ",", "0">>, <<"5", ",", "5">>, <<"5">>,
             <<"-", "5", ",", "0">>, <<",", "0">>, <<" ", "5", ",", "0">>,
             <<"0", ",", "0", "0">>, <<"5", ".", ",", "0">>,
             <<"5", "0", "0", "0", ",", "0">>}
HandshakeReplies ==
  {[command |-> c, headers |-> h] :
     c \in {"CONNECTED", "ERROR"},
     h \in {<<>>, "version" :> <<"1", ".", "0">>}
            \cup {"version" :> <<"1", ".", "1">> @@ hb : hb \in {<<>>}
                     \cup {"heart-beat" :> v : v \in HBValues}}}

(* Heart-beat values a conforming server may send (sx at least the 5000 ms *)
(* the client asks for) and ones parse_heartbeat rightly rejects.          *)
StaleHBValues == {<<"5", "0", "0", "0", ",", "0">>, <<"5", ".", ",", "0">>, <<"5", ",", "5">>}

(* The server answers 20 ms after the reader's first select.               *)
HS == INSTANCE StompHandshake WITH Replies <- HandshakeReplies,
        ReplyDelay <- 20000, MaxConnects <- 3

(* The Qt viewer's list: four events at fine or config (the boundary of    *)
(* the levels expire removes), a clock that may be set back by more than  *)
(* the hour of the age test, either Qt version.                           *)
QL == INSTANCE QLogList WITH Levels <- {Fine, Config}, Times <- {0, 4000},
        MaxWrites <- 4, now <- ql_now

(* string_format: texts empty, around the 100-char first guess, and longer *)
(* than twice it; a 32-bit int, so a failing format doubles size 24 times  *)
(* before it overflows (MaxCalls is above that).                           *)
FM == INSTANCE StringFormat WITH Lengths <- {0, 99, 100, 101, 250},
        IntBits <- 32, MaxCalls <- 32

(* The STOMP sink over plain TCP: two events, four do_write calls (enough *)
(* for a receipt that timed out on one connection to be taken by the next  *)
(* send on another), two connections, one dropped by the broker.           *)
SS == INSTANCE StompSink WITH NEvents <- 2, MaxCalls <- 4, MaxConnects <- 2,
                              MaxDrops <- 1, UseSSL <- FALSE

-----------------------------------------------------------------------------
(* Every component starts in an initial state of its own; the ones that    *)
(* are not exercised start in a fixed one.                                  *)
Init ==
  /\ part \in Parts
  /\ part = "file" \/ disk = <<>>
  /\ part = "url" \/ case = CHOOSE c \in URLCases : TRUE
  /\ part = "stdout" \/ env = CHOOSE e \in StdoutEnvs : TRUE
  /\ part = "handshake" \/ reply = CHOOSE r \in HandshakeReplies : TRUE
  /\ part = "qloglist" \/ (clock = 0 /\ qt = 5)
  /\ part = "format" \/ format = CHOOSE f \in FM!Formats : TRUE
  /\ FS!Init /\ LS!Init /\ PU!Init /\ SO!Init /\ LG!Init /\ LP!Init
  /\ SF!Init /\ HS!Init /\ QL!Init /\ FM!Init /\ SS!Init

(* A step of one component, the others standing still.                     *)
FileStep == part = "file" /\ FS!Next /\ UNCHANGED <<part, fmVars, lsVars, puVars, soVars, lgVars, lpVars, sfVars, hsVars, qlVars, ssVars>>
LinesStep == part = "lines" /\ LS!Next /\ UNCHANGED <<part, fmVars, fsVars, puVars, soVars, lgVars, lpVars, sfVars, hsVars, qlVars, ssVars>>
URLStep == part = "url" /\ PU!Call /\ UNCHANGED <<part, fmVars, fsVars, lsVars, soVars, lgVars, lpVars, sfVars, hsVars, qlVars, ssVars>>
StdoutStep == part = "stdout" /\ SO!Next /\ UNCHANGED <<part, fmVars, fsVars, lsVars, puVars, lgVars, lpVars, sfVars, hsVars, qlVars, ssVars>>
LoggerStep == part = "logger" /\ LG!Next /\ UNCHANGED <<part, fmVars, fsVars, lsVars, puVars, soVars, lpVars, sfVars, hsVars, qlVars, ssVars>>

PipelineStep == part = "pipeline" /\ LP!Next /\ UNCHANGED <<part, fmVars, fsVars, lsVars, puVars, soVars, lgVars, sfVars, hsVars, qlVars, ssVars>>

FramesStep == part = "frames" /\ SF!Next /\ UNCHANGED <<part, fmVars, fsVars, lsVars, puVars, soVars, lgVars, lpVars, hsVars, qlVars, ssVars>>
QLogListStep == part = "qloglist" /\ QL!Next /\ UNCHANGED <<part, fmVars, fsVars, lsVars, puVars, soVars, lgVars, lpVars, sfVars, hsVars, ssVars>>
StompStep == part = "stomp" /\ SS!Next /\ UNCHANGED <<part, fmVars, fsVars, lsVars, puVars, soVars, lgVars, lpVars, sfVars, hsVars, qlVars>>
FormatStep == part = "format" /\ FM!Call /\ UNCHANGED <<part, fsVars, lsVars, puVars, soVars, lgVars, lpVars, sfVars, hsVars, qlVars, ssVars>>
HandshakeStep == part = "handshake" /\ HS!Next /\ UNCHANGED <<part, fmVars, fsVars, lsVars, puVars, soVars, lgVars, lpVars, sfVars, qlVars, ssVars>>

Next == FileStep \/ LinesStep \/ URLStep \/ StdoutStep
        \/ LoggerStep \/ PipelineStep \/ FramesStep \/ HandshakeStep
        \/ QLogListStep \/ FormatStep \/ StompStep

(* Safety only: the liveness properties are checked in MCLiveness.      *)
Spec == Init /\ [][Next]_vars

-----------------------------------------------------------------------------
(* The properties of each component (stated in its module).                *)

SplitterForwardsLines == part = "lines" => LS!SplitterForwardsLines

(* parse_URL gives each URL the meaning of the spec's grammar.             *)
URLParsedAsSpecified == part = "url" => PU!URLParsedAsSpecified

(* The stdout sink's constructor picks the palette the spec gives the      *)
(* environment.                                                            *)
PaletteAsSpecified == part = "stdout" => SO!PaletteAsSpecified

(* The STOMP reader queues exactly the frames the spec's grammar finds in  *)
(* the bytes it received, and stops at the first malformed one.            *)
FramesParsedAsSpecified == part = "frames" => SF!FramesParsedAsSpecified

(* connect_thread accepts the first replies the spec accepts, and the      *)
(* reader then waits as long as the accepted heart-beat header asks.       *)
HandshakeAsSpecified == part = "handshake" => HS!HandshakeAsSpecified

(* The Qt viewer's expire never erases an entry of level config or above  *)
(* nor reorders the list, until its iterator runs past the end.            *)
KeepsVisibleEntries == part = "qloglist" => QL!KeepsVisibleEntries

(* string_format returns the whole text in at most two vsnprintf calls.  *)
StringFormatReturnsText == part = "format" => FM!StringFormatReturnsText

(* do_write of the STOMP sink returns true only for an event the broker    *)
(* published, through reconnections, timeouts, late replies, a dropped     *)
(* connection and old reader threads (the receipt-id check of do_write,    *)
(* lines 285-301).                                                          *)
SuccessMeansPublished == part = "stomp" => SS!SuccessMeansPublished

(* The pipeline's variables have their types.                              *)
TypeOK == part = "pipeline" => LP!TypeOK

(* Each stream writes its events in submission order, through retry mode.  *)
FifoPerSink == part = "pipeline" => LP!FifoPerSink

(* The worker writes a stream directly only when it has no retry thread.   *)
SinkWrittenByOneThread == part = "pipeline" => LP!SinkWrittenByOneThread

(* Every event is, for every stream, written, queued, filtered, expired,  *)
(* dropped by a failed retry-thread start, or still on its way.            *)
NoSilentLoss == part = "pipeline" => LP!NoSilentLoss

(* instance() constructs one logger, however many threads call it first.   *)
OneLogger == part = "logger" => LG!OneLogger

=============================================================================
