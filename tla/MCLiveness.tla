----------------------------- MODULE MCLiveness -----------------------------
(***************************************************************************)
(* The progress and refinement properties, which need the fairness of the *)
(* library's threads, checked in one model as in MCComponents: the first  *)
(* state picks the delivery pipeline or the STOMP sink, and only that one *)
(* moves.  Each component's threads are weakly fair (OS threads, see the  *)
(* Fairness of LogPipeline and StompSink); the application, the clock and *)
(* the broker are not.                                                    *)
(***************************************************************************)
EXTENDS Naturals, Sequences, LogLevels

CONSTANT Parts   \* the components to exercise

VARIABLE part

VARIABLES sock, fds, nconn, open, toServer, wire, drops, connected,
          connecting, ctDone, cpc, receipt, replyQ, rpc, rconn, rframe,
          lastWasData, wpc, calls, acked, published, alive
VARIABLES submitted, now, events, doTerminate, local, lp_wpc, wsink,
          stillActive, rmap, lp_rpc, rq, fails, delivered, expired, dropped

ssVars == <<sock, fds, nconn, open, toServer, wire, drops, connected,
            connecting, ctDone, cpc, receipt, replyQ, rpc, rconn, rframe,
            lastWasData, wpc, calls, acked, published, alive>>
lpVars == <<submitted, now, events, doTerminate, local, lp_wpc, wsink,
            stillActive, rmap, lp_rpc, rq, fails, delivered, expired, dropped>>
vars == <<part, ssVars, lpVars>>

(* The STOMP sink: a broker that may never answer, a dropped connection,  *)
(* two connections, three do_write calls (MCComponents checks its safety   *)
(* with four).                                                               *)
SS == INSTANCE StompSink WITH NEvents <- 2, MaxCalls <- 3, MaxConnects <- 2,
                              MaxDrops <- 1, UseSSL <- FALSE

(* The delivery pipeline: two streams (the second filters below info),   *)
(* two events, each stream failing once; no logging once terminate()    *)
(* began, which would leave events in m_events for ever (log_after_drain). *)
LP == INSTANCE LogPipeline WITH
        NSinks <- 2, SinkMinLevel <- [s \in 1..2 |-> IF s = 1 THEN Finest ELSE Info],
        EventLevels <- {Finest, Severe}, MaxEvents <- 2,
        MaxFails <- [s \in 1..2 |-> 1],
        TickSeconds <- 1000, MaxTime <- 1000, SpawnMayFail <- TRUE,
        LogDuringShutdown <- FALSE, wpc <- lp_wpc, rpc <- lp_rpc

Init == part \in Parts /\ SS!Init /\ LP!Init

StompStep(A) == part = "stomp" /\ A /\ UNCHANGED <<part, lpVars>>
PipelineStep(A) == part = "pipeline" /\ A /\ UNCHANGED <<part, ssVars>>

Next == StompStep(SS!Next) \/ PipelineStep(LP!Next)

Fairness ==
  /\ WF_vars(StompStep(SS!Writer)) /\ WF_vars(StompStep(SS!ConnectThread))
  /\ \A r \in SS!Readers : WF_vars(StompStep(SS!Reader(r)))
  /\ WF_vars(PipelineStep(LP!Worker))
  /\ \A s \in 1..2 : WF_vars(PipelineStep(LP!Retry(s)))

Spec == Init /\ [][Next]_vars /\ Fairness

-----------------------------------------------------------------------------
(* A started connect thread of the STOMP sink finishes while the sink     *)
(* exists: every wait in connect_thread has a timeout, so the join in      *)
(* connect() cannot block the writer.                                      *)
ConnectThreadEnds == part = "stomp" => SS!ConnectThreadEnds

(* The STOMP sink holds no descriptor but m_socket: every path that gives  *)
(* up a connection (writer, connect thread, old reader) closes it before   *)
(* connect() opens the next one (disconnect in tcp_client_socket).         *)
NoLeakedDescriptor == part = "stomp" => SS!NoLeakedDescriptor

(* Every event put in m_events is eventually taken by the delivery worker: *)
(* the m_cond.wait in do_run never misses an enqueue's notify.             *)
EveryEventTaken == LP!EveryEventTaken

(* The delivery pipeline implements the per-stream FIFO channels of        *)
(* StreamChannels.  This and EveryEventTaken hold trivially in the         *)
(* behaviours of the STOMP sink, in which the pipeline does not move.      *)
ImplementsStreamChannels == LP!ImplementsStreamChannels

=============================================================================
