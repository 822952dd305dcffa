---------------------------- MODULE LogPipeline ----------------------------
(***************************************************************************)
(* The asynchronous delivery pipeline of the logging library:              *)
(*                                                                         *)
(*   - log_thread (src/log_thread.cpp): the delivery worker.  It swaps the *)
(*     shared queue m_events into a local batch, fans every event out to   *)
(*     the output streams in m_streams, forwards events of a stream that   *)
(*     is in retry mode to that stream's retry_thread, and on terminate()  *)
(*     waits until every retry thread has drained;                         *)
(*   - retry_thread (src/retry_thread.cpp): one per failed stream; sleeps, *)
(*     rewrites the head of its queue until a write fails, expires old     *)
(*     events by level and exits when its queue is empty;                  *)
(*   - the application threads, which enqueue events and call terminate.  *)
(*                                                                         *)
(* A stream (sink) is abstract: its write succeeds or fails.  An event is  *)
(* its submission number, an index into `submitted`.                       *)
(***************************************************************************)
EXTENDS Naturals, Sequences, SequencesExt, LogLevels

CONSTANTS
  NSinks,            \* number of output streams in log_thread::m_streams
  SinkMinLevel,      \* [Sinks -> Level]: output_stream_private::m_minLogLevel
  EventLevels,       \* the levels the application logs with
  MaxEvents,         \* bound: number of events the application submits
  MaxFails,          \* [Sinks -> Nat] bound: failed writes of each stream
  TickSeconds,       \* the clock advances in steps of this many seconds
  MaxTime,           \* bound: last clock value
  SpawnMayFail,      \* TRUE: constructing a retry_thread may throw
  LogDuringShutdown  \* TRUE: threads may still log once terminate() began

Sinks == 1..NSinks

ASSUME /\ NSinks \in Nat \ {0}
       /\ SinkMinLevel \in [Sinks -> Level]
       /\ EventLevels \subseteq Level
       /\ MaxFails \in [Sinks -> Nat]
       /\ {MaxEvents, TickSeconds, MaxTime} \subseteq Nat
       /\ SpawnMayFail \in BOOLEAN /\ LogDuringShutdown \in BOOLEAN

VARIABLES
  submitted,    \* every event logged so far: [level, time] (history)
  now,          \* std::chrono::system_clock::now(), in seconds
  events,       \* log_thread::m_events, the queue shared with the application
  doTerminate,  \* log_thread::m_do_terminate
  local,        \* the batch swapped out of m_events in do_run
  wpc,          \* control point of the delivery worker
  wsink,        \* the stream the worker is at (fan-out and terminate loops)
  stillActive,  \* do_run's still_active
  rmap,         \* log_thread::m_retry_map entry of each stream
  rpc,          \* control point of each stream's retry_thread
  rq,           \* retry_thread::m_event_queue of each stream
  fails,        \* failed writes of each stream so far (environment)
  delivered,    \* the events each stream has written, in order (history)
  expired,      \* events each retry thread expired (history)
  dropped       \* events lost for a stream because no retry thread started

(* The delivery worker's state (log_thread's members and do_run's        *)
(* locals), and each stream's retry state (its m_retry_map entry and the  *)
(* retry_thread's thread and queue).                                       *)
pipeVars == <<events, doTerminate, local, wpc, wsink, stillActive>>
retryVars == <<rmap, rpc, rq>>
envVars == <<submitted, now, fails, delivered, expired, dropped>>
vars == <<pipeVars, retryVars, envVars>>

EventId == 1..MaxEvents
WorkerPc == {"swap", "lookup", "enqueue", "join", "write", "spawned",
             "idle", "wait", "tcheck", "tjoin", "done", "crashed"}
FanoutPc == {"lookup", "enqueue", "join", "write", "spawned"}
RetryPc == {"none", "sleep", "take", "writing", "expire", "final", "exited"}

-----------------------------------------------------------------------------
(* retry_thread.cpp:25-35, expiry_time.  A severe event never expires:   *)
(* its ceiling is time_t's maximum, stood for by TLC's largest integer,    *)
(* which no age in the model approaches.                                   *)
ExpirySeconds(l) ==
  CASE l \in {Finest, Finer}  -> 900
    [] l \in {Fine, Config}   -> 1800
    [] l = Info               -> 3600
    [] l = Warning            -> 10 * 3600
    [] l = Severe             -> 2147483647

(* retry_thread.cpp:82-83: the age in whole seconds exceeds the ceiling. *)
IsExpired(i) ==
  now - submitted[i].time > ExpirySeconds(submitted[i].level)

(* retry_thread::active(): the retry queue is not empty.                   *)
Active(s) == rq[s] # <<>>

(* output_stream::write: an event below the stream's minimum level is      *)
(* reported as written without reaching do_write.                          *)
Filtered(s, i) == submitted[i].level < SinkMinLevel[s]

(* do_write succeeds: the stream has the event.                            *)
DeliverTo(s, i) ==
  delivered' = [delivered EXCEPT ![s] = Append(@, i)]

(* do_write fails: possible while the stream has not used up its failures. *)
CanFail(s, i) == ~Filtered(s, i) /\ fails[s] < MaxFails[s]

CountFailure(s) == fails' = [fails EXCEPT ![s] = @ + 1]

-----------------------------------------------------------------------------
(* Application side: logger::log -> log_thread::enqueue, terminate.        *)

(* log_thread::enqueue (log_thread.cpp:40-46): append under the mutex and  *)
(* notify; a worker blocked in m_cond.wait wakes up.                       *)
Enqueue(l) ==
  /\ Len(submitted) < MaxEvents
  /\ LogDuringShutdown \/ ~doTerminate
  /\ submitted' = Append(submitted, [level |-> l, time |-> now])
  /\ events' = Append(events, Len(submitted) + 1)
  /\ wpc' = IF wpc = "wait" THEN "swap" ELSE wpc
  /\ UNCHANGED <<doTerminate, local, wsink, stillActive, retryVars,
                 now, fails, delivered, expired, dropped>>

(* log_thread::terminate (log_thread.cpp:72-78): set the flag, notify.     *)
Terminate ==
  /\ ~doTerminate
  /\ doTerminate' = TRUE
  /\ wpc' = IF wpc = "wait" THEN "swap" ELSE wpc
  /\ UNCHANGED <<events, local, wsink, stillActive, retryVars, envVars>>

Tick ==
  /\ now + TickSeconds <= MaxTime
  /\ now' = now + TickSeconds
  /\ UNCHANGED <<pipeVars, retryVars, submitted, fails, delivered,
                 expired, dropped>>

-----------------------------------------------------------------------------
(* Delivery worker: log_thread::do_run and log_thread::log.                *)

(* Mutant of NextSink: the stream loop runs one past the last stream.     *)
NextSinkPastEnd ==
  IF wsink <= NSinks
  THEN /\ wsink' = wsink + 1
       /\ wpc' = "lookup"
       /\ UNCHANGED local
  ELSE /\ local' = Tail(local)
       /\ wsink' = 1
       /\ wpc' = IF Tail(local) = <<>> THEN "idle" ELSE "lookup"

(* The fan-out moves to the next stream, or to the next event of the       *)
(* batch once every stream had the current one (log_thread.cpp:83, 126).   *)
NextSink ==
  IF wsink < NSinks
  THEN /\ wsink' = wsink + 1
       /\ wpc' = "lookup"
       /\ UNCHANGED local
  ELSE /\ local' = Tail(local)
       /\ wsink' = 1
       /\ wpc' = IF Tail(local) = <<>> THEN "idle" ELSE "lookup"

(* do_run top of loop (log_thread.cpp:120-123): swap m_events with an      *)
(* empty queue under the mutex.                                            *)
Swap ==
  /\ wpc = "swap"
  /\ local' = events
  /\ events' = <<>>
  /\ wsink' = 1
  /\ wpc' = IF events = <<>> THEN "idle" ELSE "lookup"
  /\ UNCHANGED <<doTerminate, stillActive, retryVars, envVars>>

(* Mutant of Lookup: a stream with a busy retry thread is written          *)
(* directly instead of through the retry thread.                           *)
LookupBypassesRetry ==
  /\ wpc = "lookup"
  /\ \/ /\ rmap[wsink] \in {"absent", "thread"}
        /\ wpc' = IF rmap[wsink] = "thread" /\ ~Active(wsink) THEN "join"
                  ELSE "write"
        /\ UNCHANGED rmap
     \/ /\ rmap[wsink] = "null"
        /\ rmap' = [rmap EXCEPT ![wsink] = "absent"]
        /\ wpc' = "write"
  /\ UNCHANGED <<events, doTerminate, local, wsink, stillActive, rpc, rq,
                 envVars>>

(* log(): look the stream up in m_retry_map (log_thread.cpp:84-97).  A     *)
(* null entry is erased; a thread whose queue is empty is joined; else the *)
(* event goes to the thread.  active() takes the retry thread's mutex and  *)
(* releases it before the enqueue or join that acts on its answer.         *)
Lookup ==
  /\ wpc = "lookup"
  /\ \/ /\ rmap[wsink] = "absent"
        /\ wpc' = "write"
        /\ UNCHANGED rmap
     \/ /\ rmap[wsink] = "null"
        /\ rmap' = [rmap EXCEPT ![wsink] = "absent"]
        /\ wpc' = "write"
     \/ /\ rmap[wsink] = "thread"
        /\ wpc' = IF Active(wsink) THEN "enqueue" ELSE "join"
        /\ UNCHANGED rmap
  /\ UNCHANGED <<events, doTerminate, local, wsink, stillActive, rpc, rq,
                 envVars>>

(* Mutant of ForwardToRetry: the `continue` is missing, so the event is    *)
(* also written directly.                                                  *)
ForwardToRetryNoContinue ==
  /\ wpc = "enqueue"
  /\ rq' = [rq EXCEPT ![wsink] = Append(@, Head(local))]
  /\ wpc' = "write"
  /\ UNCHANGED <<events, doTerminate, local, wsink, stillActive, rmap, rpc,
                 envVars>>

(* retry_thread::enqueue of the current event, then `continue` with the    *)
(* next stream (log_thread.cpp:94-95).                                     *)
ForwardToRetry ==
  /\ wpc = "enqueue"
  /\ rq' = [rq EXCEPT ![wsink] = Append(@, Head(local))]
  /\ NextSink
  /\ UNCHANGED <<events, doTerminate, stillActive, rmap, rpc, envVars>>

(* The retry thread's queue was empty: join it, delete it, erase the       *)
(* entry, and write directly (log_thread.cpp:88-92).                       *)
JoinRetry ==
  /\ wpc = "join"
  /\ rpc[wsink] = "exited"
  /\ rpc' = [rpc EXCEPT ![wsink] = "none"]
  /\ rq' = [rq EXCEPT ![wsink] = <<>>]
  /\ rmap' = [rmap EXCEPT ![wsink] = "absent"]
  /\ wpc' = "write"
  /\ UNCHANGED <<events, doTerminate, local, wsink, stillActive, envVars>>

(* stream->write(event) (log_thread.cpp:99-112).  On failure a retry_thread*)
(* is constructed, which starts its thread at once; when the construction  *)
(* throws, the event is lost for this stream.                              *)
WorkerWrite ==
  LET i == Head(local) IN
  /\ wpc = "write"
  /\ \/ /\ IF Filtered(wsink, i) THEN UNCHANGED delivered
                                 ELSE DeliverTo(wsink, i)
        /\ NextSink
        /\ UNCHANGED <<retryVars, fails, dropped>>
     \/ /\ CanFail(wsink, i)
        /\ CountFailure(wsink)
        /\ rmap' = [rmap EXCEPT ![wsink] = "thread"]
        /\ rpc' = [rpc EXCEPT ![wsink] = "sleep"]
        /\ rq' = [rq EXCEPT ![wsink] = <<>>]
        /\ wpc' = "spawned"
        /\ UNCHANGED <<local, wsink, delivered, dropped>>
     \/ /\ SpawnMayFail
        /\ CanFail(wsink, i)
        /\ CountFailure(wsink)
        /\ dropped' = [dropped EXCEPT ![wsink] = @ \cup {i}]
        /\ NextSink
        /\ UNCHANGED <<retryVars, delivered>>
  /\ UNCHANGED <<events, doTerminate, stillActive, submitted, now, expired>>

(* thread->enqueue(event) and emplace into m_retry_map, after the retry    *)
(* thread is already running (log_thread.cpp:108-111).                     *)
HandToNewRetry ==
  /\ wpc = "spawned"
  /\ rq' = [rq EXCEPT ![wsink] = Append(@, Head(local))]
  /\ NextSink
  /\ UNCHANGED <<events, doTerminate, stillActive, rmap, rpc, envVars>>

(* Mutant of IdleCheck: m_cond.wait without re-checking m_events.         *)
IdleCheckAlwaysWaits ==
  /\ wpc = "idle"
  /\ wpc' = IF doTerminate /\ events = <<>> THEN "tcheck" ELSE "wait"
  /\ wsink' = 1
  /\ stillActive' = FALSE
  /\ UNCHANGED <<events, doTerminate, local, retryVars, envVars>>

(* After the batch, under the mutex (log_thread.cpp:132-133, 166-170):     *)
(* terminate requested and nothing queued -> the retry check; nothing      *)
(* queued -> m_cond.wait; otherwise the next swap.                         *)
IdleCheck ==
  /\ wpc = "idle"
  /\ wpc' = CASE doTerminate /\ events = <<>> -> "tcheck"
              [] events = <<>>                -> "wait"
              [] OTHER                        -> "swap"
  /\ wsink' = 1
  /\ stillActive' = FALSE
  /\ UNCHANGED <<events, doTerminate, local, retryVars, envVars>>

(* The loop over m_retry_map (log_thread.cpp:134-144): an active thread    *)
(* sets still_active; an idle one is joined, deleted and its entry set to  *)
(* nullptr without being erased.  A nullptr entry left by an earlier pass  *)
(* is dereferenced by i.second->active(): the worker crashes.              *)
TerminateCheck ==
  /\ wpc = "tcheck"
  /\ wsink <= NSinks
  /\ \/ /\ rmap[wsink] = "absent"
        /\ wsink' = wsink + 1
        /\ UNCHANGED <<wpc, stillActive>>
     \/ /\ rmap[wsink] = "null"
        /\ wpc' = "crashed"
        /\ UNCHANGED <<wsink, stillActive>>
     \/ /\ rmap[wsink] = "thread"
        /\ Active(wsink)
        /\ stillActive' = TRUE
        /\ wsink' = wsink + 1
        /\ UNCHANGED wpc
     \/ /\ rmap[wsink] = "thread"
        /\ ~Active(wsink)
        /\ wpc' = "tjoin"
        /\ UNCHANGED <<wsink, stillActive>>
  /\ UNCHANGED <<events, doTerminate, local, retryVars, envVars>>

TerminateJoin ==
  /\ wpc = "tjoin"
  /\ rpc[wsink] = "exited"
  /\ rpc' = [rpc EXCEPT ![wsink] = "none"]
  /\ rq' = [rq EXCEPT ![wsink] = <<>>]
  /\ rmap' = [rmap EXCEPT ![wsink] = "null"]
  /\ wsink' = wsink + 1
  /\ wpc' = "tcheck"
  /\ UNCHANGED <<events, doTerminate, local, stillActive, envVars>>

(* End of the pass (log_thread.cpp:145-162): sleep and loop while a retry  *)
(* thread is active; otherwise return if m_events is still empty.          *)
TerminateDecide ==
  /\ wpc = "tcheck"
  /\ wsink = NSinks + 1
  /\ wpc' = IF ~stillActive /\ events = <<>> THEN "done" ELSE "swap"
  /\ UNCHANGED <<events, doTerminate, local, wsink, stillActive, retryVars,
                 envVars>>

-----------------------------------------------------------------------------
(* Retry thread of stream s: retry_thread::run (retry_thread.cpp:53-100).  *)

(* sleep_for(m_stream->retry_time()) ends.                                 *)
RetryWake(s) ==
  /\ rpc[s] = "sleep"
  /\ rpc' = [rpc EXCEPT ![s] = "take"]
  /\ UNCHANGED <<pipeVars, rmap, rq, envVars>>

(* Under the mutex: an empty queue ends the write loop; otherwise the head *)
(* is taken by reference and the mutex released (lines 58-66).            *)
RetryTake(s) ==
  /\ rpc[s] = "take"
  /\ rpc' = [rpc EXCEPT ![s] = IF Active(s) THEN "writing" ELSE "expire"]
  /\ UNCHANGED <<pipeVars, rmap, rq, envVars>>

(* Mutant of RetryWrite: the head is popped whatever write returned.      *)
RetryWritePopsOnFailure(s) ==
  LET i == Head(rq[s]) IN
  /\ rpc[s] = "writing"
  /\ rq' = [rq EXCEPT ![s] = Tail(@)]
  /\ \/ /\ IF Filtered(s, i) THEN UNCHANGED delivered ELSE DeliverTo(s, i)
        /\ rpc' = [rpc EXCEPT ![s] = "take"]
        /\ UNCHANGED fails
     \/ /\ CanFail(s, i)
        /\ CountFailure(s)
        /\ rpc' = [rpc EXCEPT ![s] = "expire"]
        /\ UNCHANGED delivered
  /\ UNCHANGED <<pipeVars, rmap, submitted, now, expired, dropped>>

(* m_stream->write(first_event): on success pop it and take the next, on   *)
(* failure leave it at the front and go on to expiry (lines 67-73).        *)
RetryWrite(s) ==
  LET i == Head(rq[s]) IN
  /\ rpc[s] = "writing"
  /\ \/ /\ IF Filtered(s, i) THEN UNCHANGED delivered ELSE DeliverTo(s, i)
        /\ rq' = [rq EXCEPT ![s] = Tail(@)]
        /\ rpc' = [rpc EXCEPT ![s] = "take"]
        /\ UNCHANGED fails
     \/ /\ CanFail(s, i)
        /\ CountFailure(s)
        /\ rpc' = [rpc EXCEPT ![s] = "expire"]
        /\ UNCHANGED <<rq, delivered>>
  /\ UNCHANGED <<pipeVars, rmap, submitted, now, expired, dropped>>

(* Mutant of RetryExpire: every event gets the ceiling of the lowest      *)
(* level, whatever its own level.                                          *)
RetryExpireIgnoresLevel(s) ==
  LET old(i) == now - submitted[i].time > ExpirySeconds(Finest) IN
  /\ rpc[s] = "expire"
  /\ rq' = [rq EXCEPT ![s] = SelectSeq(@, LAMBDA i : ~old(i))]
  /\ expired' = [expired EXCEPT ![s] = @ \cup {i \in ToSet(rq[s]) : old(i)}]
  /\ rpc' = [rpc EXCEPT ![s] = "final"]
  /\ UNCHANGED <<pipeVars, rmap, submitted, now, fails, delivered, dropped>>

(* Under the mutex, erase every event older than its level's ceiling      *)
(* (lines 76-89).                                                          *)
RetryExpire(s) ==
  /\ rpc[s] = "expire"
  /\ rq' = [rq EXCEPT ![s] = SelectSeq(@, LAMBDA i : ~IsExpired(i))]
  /\ expired' = [expired EXCEPT ![s] = @ \cup {i \in ToSet(rq[s]) : IsExpired(i)}]
  /\ rpc' = [rpc EXCEPT ![s] = "final"]
  /\ UNCHANGED <<pipeVars, rmap, submitted, now, fails, delivered, dropped>>

(* `if (!active()) break;` (lines 96-97): the thread function returns.   *)
RetryFinal(s) ==
  /\ rpc[s] = "final"
  /\ rpc' = [rpc EXCEPT ![s] = IF Active(s) THEN "sleep" ELSE "exited"]
  /\ UNCHANGED <<pipeVars, rmap, rq, envVars>>

-----------------------------------------------------------------------------
Init ==
  /\ submitted = <<>>
  /\ now = 0
  /\ events = <<>>
  /\ doTerminate = FALSE
  /\ local = <<>>
  /\ wpc = "swap"
  /\ wsink = 1
  /\ stillActive = FALSE
  /\ rmap = [s \in Sinks |-> "absent"]
  /\ rpc = [s \in Sinks |-> "none"]
  /\ rq = [s \in Sinks |-> <<>>]
  /\ fails = [s \in Sinks |-> 0]
  /\ delivered = [s \in Sinks |-> <<>>]
  /\ expired = [s \in Sinks |-> {}]
  /\ dropped = [s \in Sinks |-> {}]

Worker ==
  \/ Swap \/ Lookup \/ ForwardToRetry \/ JoinRetry \/ WorkerWrite
  \/ HandToNewRetry \/ IdleCheck \/ TerminateCheck \/ TerminateJoin
  \/ TerminateDecide

Retry(s) ==
  \/ RetryWake(s) \/ RetryTake(s) \/ RetryWrite(s) \/ RetryExpire(s)
  \/ RetryFinal(s)

Application ==
  \/ \E l \in EventLevels : Enqueue(l)
  \/ Terminate

Next == Worker \/ (\E s \in Sinks : Retry(s)) \/ Application \/ Tick

(* The worker and the retry threads are OS threads that run whenever they  *)
(* are runnable; the application and the clock are not obliged to act.    *)
Fairness == WF_vars(Worker) /\ \A s \in Sinks : WF_vars(Retry(s))

Spec == Init /\ [][Next]_vars
FairSpec == Spec /\ Fairness

-----------------------------------------------------------------------------
(* Properties.                                                             *)

TypeOK ==
  /\ submitted \in Seq([level : Level, time : 0..MaxTime])
  /\ Len(submitted) <= MaxEvents
  /\ now \in 0..MaxTime
  /\ events \in Seq(EventId) /\ local \in Seq(EventId)
  /\ doTerminate \in BOOLEAN /\ stillActive \in BOOLEAN
  /\ wpc \in WorkerPc
  /\ wsink \in IF wpc \in FanoutPc THEN Sinks ELSE 1..(NSinks + 1)
  /\ rmap \in [Sinks -> {"absent", "null", "thread"}]
  /\ rpc \in [Sinks -> RetryPc]
  /\ rq \in [Sinks -> Seq(EventId)]
  /\ fails \in [Sinks -> Nat] /\ \A s \in Sinks : fails[s] <= MaxFails[s]
  /\ delivered \in [Sinks -> Seq(EventId)]
  /\ expired \in [Sinks -> SUBSET EventId]
  /\ dropped \in [Sinks -> SUBSET EventId]

(* Events of stream s that the worker has not yet handed to it: those in   *)
(* m_events, the rest of the batch, and the current event while the        *)
(* fan-out has not passed s.                                               *)
NotYetFannedOut(s) ==
  ToSet(events) \cup
    IF local = <<>> THEN {}
    ELSE ToSet(Tail(local)) \cup (IF s >= wsink THEN {Head(local)} ELSE {})

(* Per-stream order across retry mode (log_thread.h:17-26): what a stream  *)
(* has written, followed by the backlog of its retry thread, is in         *)
(* submission order without repetition, whether events went through        *)
(* log_thread::log directly or through a retry_thread, and however often   *)
(* the stream entered and left retry mode.                                 *)
FifoPerSink ==
  \A s \in Sinks : IsSorted(delivered[s] \o rq[s], LAMBDA a, b : a < b)

(* A stream is written by one thread at a time (spec 4.2): when the worker *)
(* calls stream->write directly, the stream has no retry thread, so the    *)
(* retry thread cannot be inside its own write of the same stream.         *)
SinkWrittenByOneThread ==
  wpc = "write" => rpc[wsink] = "none"

(* No event is lost silently: every logged event is, for every stream,     *)
(* below the stream's level, written to it, in its retry queue, expired by *)
(* the retry thread, lost because the retry thread could not start, or not *)
(* yet handed to the stream by the worker.                                 *)
NoSilentLoss ==
  \A s \in Sinks, i \in 1..Len(submitted) :
    \/ Filtered(s, i)
    \/ i \in ToSet(delivered[s]) \cup ToSet(rq[s]) \cup expired[s] \cup dropped[s]
    \/ i \in NotYetFannedOut(s)

(* Every event put in m_events is eventually taken by the worker: the      *)
(* worker never blocks in m_cond.wait while events wait for it (a missed   *)
(* notify of log_thread::enqueue would leave them there).                  *)
EveryEventTaken ==
  \A i \in EventId : (i \in ToSet(events)) ~> (i \notin ToSet(events))

(* log_thread::terminate (log_thread.cpp 131-156) returns once asked:     *)
(* after m_do_terminate is set, do_run eventually leaves its loop, or the  *)
(* program dies in the terminate loop (finding 2).  An event a retry       *)
(* thread received after returning from run() keeps its active() true for *)
(* ever, and the loop at lines 145-154 then never ends.                    *)
TerminateReturns == doTerminate ~> wpc \in {"done", "crashed"}

(* Once do_run has returned, so log_thread::terminate's join returns, the  *)
(* delivery queue m_events is empty and no retry thread holds an event.    *)
DrainedAtExit ==
  wpc = "done" => events = <<>> /\ \A s \in Sinks : ~Active(s)

(* The terminate loop never calls active() through a null m_retry_map      *)
(* entry left by an earlier pass.                                          *)
NoNullRetryDeref == wpc # "crashed"

-----------------------------------------------------------------------------
(* Refinement: the events of each stream that are still pending, oldest    *)
(* first, are its retry backlog, then the event in the worker's hand while *)
(* the fan-out has not passed the stream, then the rest of the batch, then *)
(* m_events; events below the stream's level are not part of it.          *)
PendingFor(s) ==
  LET inHand == IF local # <<>> /\ s >= wsink THEN <<Head(local)>> ELSE <<>>
      later  == IF local = <<>> THEN events ELSE Tail(local) \o events
  IN  SelectSeq(rq[s] \o inHand \o later, LAMBDA i : ~Filtered(s, i))

Channels == INSTANCE StreamChannels WITH chan <- [s \in Sinks |-> PendingFor(s)]

(* The pipeline implements the per-stream channels: each write of a stream *)
(* (by the worker or by a retry thread) is of its oldest pending event,    *)
(* and an event leaves without being written only by retry_thread's       *)
(* expiry after its level's ceiling, or when no retry thread could start.  *)
ImplementsStreamChannels == Channels!Spec

=============================================================================
