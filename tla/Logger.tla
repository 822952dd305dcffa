------------------------------- MODULE Logger -------------------------------
(***************************************************************************)
(* The logger facade (src/logger.cpp) and the lifetime of the objects it  *)
(* owns: the singleton s_instance, its log_thread m_d->m_thread, and the   *)
(* output streams in m_thread->m_streams.  Threads:                        *)
(*                                                                         *)
(*   - application threads calling the facade: each call starts with       *)
(*     instance(), which takes s_instance_mutex and constructs the logger  *)
(*     on first use.  The library's own threads that log (the STOMP        *)
(*     sink's reader and connect threads) call it the same way;            *)
(*   - the delivery worker (log_thread::do_run), which writes each event   *)
(*     to every stream of m_streams;                                       *)
(*   - the thread that ends the process: returning from main runs          *)
(*     atexit_handler; a SIGSEGV runs signal_handler, which terminates the *)
(*     worker, nulls m_thread, then calls exit(1).                         *)
(*                                                                         *)
(* An access through a deleted or null pointer is recorded in `fault` and *)
(* ends the behaviour: what follows it is undefined.  The events           *)
(* themselves are counted, not kept: LogPipeline models their delivery.   *)
(***************************************************************************)
EXTENDS Naturals, FiniteSets, Functions, TLC, LogLevels

CONSTANTS
  Apps,        \* application threads
  NoThread,    \* the owner of a free mutex, not in Apps
  Names,       \* subsystem names
  StreamNames, \* names output streams are added and removed under
  Levels,      \* levels used for events and minimum levels
  MaxCalls,    \* bound: facade calls of all application threads
  MaxObjects,  \* bound: output stream objects constructed
  Exits,       \* TRUE: main returns while other threads still run
  Crashes      \* TRUE: a SIGSEGV may arrive

ASSUME "stdout" \in StreamNames

Objects == 0..MaxObjects   \* stream objects; 0 is log_thread's stdout stream

Ops ==
  [kind : {"log"}, name : Names, level : Levels] \cup
  [kind : {"register"}, name : Names] \cup
  [kind : {"set_subsystem_min_log_level"}, name : Names, level : Levels] \cup
  [kind : {"add_output_stream", "remove_output_stream"}, stream : StreamNames] \cup
  [kind : {"set_min_log_level"}, stream : StreamNames, level : Levels]

VARIABLES
  inst,      \* s_instance: "null", "live", or "freed" (deleted, not reset)
  created,   \* loggers constructed (history)
  owner,     \* holder of s_instance_mutex
  lt,        \* the log_thread object: "none", "live" or "deleted"
  mthread,   \* m_d->m_thread is not nullptr
  subs,      \* m_subsystems: id -> [name, min_level]
  regs,      \* <<name, id>> pairs register_subsystem returned (history)
  streams,   \* m_thread->m_streams: name -> stream object
  slevel,    \* m_minLogLevel of each stream object
  nobj,      \* stream objects constructed so far
  freed,     \* stream objects deleted
  pending,   \* events in m_events
  doTerm,    \* m_do_terminate
  wpc,       \* the worker: "wait", "pick", "write" or "done"
  todo,      \* names of m_streams the worker has still to write the event to
  wobj,      \* the stream object the worker is writing to
  apc,       \* [Apps -> pc] of each application thread
  op,        \* [Apps -> Ops]: the call each thread is in
  calls,     \* facade calls so far
  xpc,       \* the thread ending the process
  fault      \* the first invalid access, or "none"

vars == <<inst, created, owner, lt, mthread, subs, regs, streams, slevel,
          nobj, freed, pending, doTerm, wpc, todo, wobj, apc, op, calls, xpc,
          fault>>

(* Variables of one kind of step, for UNCHANGED.                           *)
objVars == <<lt, mthread, streams, slevel, nobj, freed>>
workVars == <<pending, doTerm, wpc, todo, wobj>>

Live == fault = "none"

(* Record an invalid access.                                               *)
Fault(kind) == fault' = kind

-----------------------------------------------------------------------------
(* logger::logger (lines 46-61): signal handler and atexit registration,   *)
(* then new log_thread, whose constructor (log_thread.cpp lines 22-24)     *)
(* adds the stdout stream, and start().                                    *)
ConstructLogger ==
  /\ inst' = "live"
  /\ created' = created + 1
  /\ lt' = "live" /\ mthread' = TRUE
  /\ streams' = ("stdout" :> 0)
  /\ slevel' = [o \in Objects |-> Finest]
  /\ nobj' = 1
  /\ wpc' = "wait"
  /\ UNCHANGED freed

(* An application thread calls the facade: op is the call.                *)
Call(a, o) ==
  /\ Live
  /\ apc[a] = "idle"
  /\ calls < MaxCalls
  /\ o.kind = "log" => \E i \in DOMAIN subs : subs[i].name = o.name
  /\ calls' = calls + 1
  /\ op' = [op EXCEPT ![a] = o]
  /\ apc' = [apc EXCEPT ![a] = "lock"]
  /\ UNCHANGED <<inst, created, owner, subs, regs, objVars, workVars, xpc,
                 fault>>

(* Mutant of InstanceLock: s_instance_mutex not taken (the _MSC_BUILD      *)
(* path of instance()).                                                    *)
InstanceLockless(a) ==
  /\ Live
  /\ apc[a] = "lock"
  /\ apc' = [apc EXCEPT ![a] = "check"]
  /\ UNCHANGED <<inst, created, owner, subs, regs, objVars, workVars, op,
                 calls, xpc, fault>>

(* instance() (lines 70-83): lock_guard on s_instance_mutex.              *)
InstanceLock(a) ==
  /\ Live
  /\ apc[a] = "lock"
  /\ owner = NoThread
  /\ owner' = a
  /\ apc' = [apc EXCEPT ![a] = "check"]
  /\ UNCHANGED <<inst, created, subs, regs, objVars, workVars, op, calls, xpc,
                 fault>>

(* `if (!s_instance)`: a null s_instance is constructed next, still under *)
(* the lock; otherwise the guard unlocks.  A deleted s_instance is not    *)
(* null: instance() returns it.                                           *)
InstanceCheck(a) ==
  /\ Live
  /\ apc[a] = "check"
  /\ IF inst = "null"
     THEN /\ apc' = [apc EXCEPT ![a] = "construct"]
          /\ UNCHANGED owner
     ELSE /\ apc' = [apc EXCEPT ![a] = "body"]
          /\ owner' = IF owner = a THEN NoThread ELSE owner
  /\ UNCHANGED <<inst, created, subs, regs, objVars, workVars, op, calls, xpc,
                 fault>>

(* `s_instance = new logger{}`, then the guard unlocks.                   *)
InstanceConstruct(a) ==
  /\ Live
  /\ apc[a] = "construct"
  /\ ConstructLogger
  /\ owner' = IF owner = a THEN NoThread ELSE owner
  /\ apc' = [apc EXCEPT ![a] = "body"]
  /\ UNCHANGED <<pending, doTerm, todo, wobj, subs, regs, op, calls, xpc, fault>>

(* The body of the call, on the object instance() returned.               *)
Done(a) == apc' = [apc EXCEPT ![a] = "idle"]

(* logger::log (lines 85-96): look the subsystem up; below its level       *)
(* return; else read m_d->m_thread to enqueue the event on it.            *)
LogBody(a) ==
  LET o == op[a]
      i == CHOOSE i \in DOMAIN subs : subs[i].name = o.name
  IN \/ o.level < subs[i].min_level /\ Done(a) /\ UNCHANGED fault
     \/ o.level >= subs[i].min_level /\ ~mthread /\ Fault("null_thread")
        /\ UNCHANGED apc
     \/ o.level >= subs[i].min_level /\ mthread
        /\ apc' = [apc EXCEPT ![a] = "enqueue"] /\ UNCHANGED fault

(* register_subsystem (lines 98-114), first step: find_subsystem (lines  *)
(* 116-125) looks the name up in m_subsystems; a name already registered   *)
(* returns its id.  No lock is held: another thread may insert the same    *)
(* name before this one goes on to insert.                                  *)
RegisterFind(a) ==
  LET n     == op[a].name
      known == {i \in DOMAIN subs : subs[i].name = n}
  IN \/ /\ known # {}
        /\ regs' = regs \cup {<<n, CHOOSE i \in known : TRUE>>}
        /\ Done(a)
     \/ /\ known = {}
        /\ apc' = [apc EXCEPT ![a] = "insert"]
        /\ UNCHANGED regs

(* Second step, on a name not found: new_id = m_next_free_subsystem_id++   *)
(* and emplace(new_id, {name, SuS_LOG_MINLEVEL}) (lines 110-113).  Ids are *)
(* never removed, so the counter is the number of entries.  Both are data  *)
(* races on the counter and the std::map when two threads register at once; *)
(* the model keeps the two statements as one step, the outcome in which    *)
(* neither is torn.                                                          *)
RegisterInsert(a) ==
  LET n  == op[a].name
      id == Cardinality(DOMAIN subs)
  IN /\ Live
     /\ apc[a] = "insert"
     /\ \/ /\ inst = "freed"
           /\ Fault("freed_logger")
           /\ UNCHANGED <<apc, subs, regs>>
        \/ /\ inst = "live"
           /\ subs' = subs @@ (id :> [name |-> n, min_level |-> Finest])
           /\ regs' = regs \cup {<<n, id>>}
           /\ Done(a)
           /\ UNCHANGED fault
     /\ UNCHANGED <<inst, created, owner, objVars, workVars, op, calls, xpc>>

(* LogfileSetSubsystemMinLevel (EPICSLog.cpp lines 42-52): find_subsystem, *)
(* whose invalid_argument is caught, then set_subsystem_min_log_level      *)
(* (lines 127-132).                                                         *)
SetSubsystemBody(a) ==
  LET o == op[a] IN
  subs' = [i \in DOMAIN subs |->
             IF subs[i].name = o.name THEN [subs[i] EXCEPT !.min_level = o.level]
             ELSE subs[i]]

(* add_output_stream (lines 134-139) of a stream constructed by the caller *)
(* (EPICSLog.cpp lines 10-18): emplace into m_thread->m_streams; under a   *)
(* name already taken it inserts nothing and the new stream is never       *)
(* deleted.                                                                 *)
AddBody(a) ==
  LET s == op[a].stream IN
  /\ nobj <= MaxObjects
  /\ nobj' = nobj + 1
  /\ streams' = IF s \in DOMAIN streams THEN streams ELSE streams @@ (s :> nobj)
  /\ UNCHANGED <<slevel, freed>>

(* remove_output_stream (lines 141-149): delete the stream and erase it;   *)
(* no lock is held against the worker or a retry thread.                   *)
RemoveBody(a) ==
  LET s == op[a].stream IN
  /\ freed' = IF s \in DOMAIN streams THEN freed \cup {streams[s]} ELSE freed
  /\ streams' = [n \in DOMAIN streams \ {s} |-> streams[n]]
  /\ UNCHANGED <<nobj, slevel>>

(* set_min_log_level (lines 167-174) on the stream of that name.          *)
SetLevelBody(a) ==
  LET o == op[a] IN
  /\ slevel' = IF o.stream \in DOMAIN streams
                THEN [slevel EXCEPT ![streams[o.stream]] = o.level] ELSE slevel
  /\ UNCHANGED <<nobj, streams, freed>>

(* Every body reads the logger object; the stream calls also m_thread.     *)
Body(a) ==
  LET k == op[a].kind IN
  /\ Live
  /\ apc[a] = "body"
  /\ \/ /\ inst = "freed"
        /\ Fault("freed_logger")
        /\ UNCHANGED <<apc, subs, regs, objVars>>
     \/ /\ inst = "live" /\ k = "log"
        /\ LogBody(a)
        /\ UNCHANGED <<subs, regs, objVars>>
     \/ /\ inst = "live" /\ k \in {"register", "set_subsystem_min_log_level"}
        /\ IF k = "register" THEN RegisterFind(a) /\ UNCHANGED subs
           ELSE SetSubsystemBody(a) /\ Done(a) /\ UNCHANGED regs
        /\ UNCHANGED <<objVars, fault>>
     \/ /\ inst = "live" /\ k \in {"add_output_stream", "remove_output_stream",
                                    "set_min_log_level"}
        /\ ~mthread
        /\ Fault("null_thread")
        /\ UNCHANGED <<apc, subs, regs, objVars>>
     \/ /\ inst = "live" /\ k \in {"add_output_stream", "remove_output_stream",
                                    "set_min_log_level"}
        /\ mthread
        /\ CASE k = "add_output_stream"    -> AddBody(a)
             [] k = "remove_output_stream" -> RemoveBody(a)
             [] OTHER                      -> SetLevelBody(a)
        /\ Done(a)
        /\ UNCHANGED <<lt, mthread, subs, regs, fault>>
  /\ UNCHANGED <<inst, created, owner, workVars, op, calls, xpc>>

(* log_thread::enqueue (log_thread.cpp lines 40-46) on the log_thread     *)
(* whose address logger::log read.                                         *)
Enqueue(a) ==
  /\ Live
  /\ apc[a] = "enqueue"
  /\ \/ lt = "deleted" /\ Fault("freed_thread") /\ UNCHANGED <<apc, pending>>
     \/ lt = "live" /\ pending' = pending + 1 /\ Done(a) /\ UNCHANGED fault
  /\ UNCHANGED <<inst, created, owner, subs, regs, objVars, doTerm, wpc, todo,
                 wobj, op, calls, xpc>>

-----------------------------------------------------------------------------
(* The delivery worker: do_run (log_thread.cpp lines 124-170) takes the    *)
(* events, and log() (lines 80-122) hands each one to the streams of       *)
(* m_streams in turn, through the pointer stored in the map.  The worker   *)
(* takes no lock that the facade's stream calls take.                      *)
WorkerTake ==
  /\ Live
  /\ lt = "live" /\ wpc = "wait"
  /\ pending > 0
  /\ pending' = pending - 1
  /\ todo' = DOMAIN streams
  /\ wpc' = "pick"
  /\ UNCHANGED <<doTerm, wobj, fault>>

(* The next stream of the map: read its pointer.                           *)
WorkerPick(n) ==
  /\ Live
  /\ wpc = "pick"
  /\ n \in todo
  /\ todo' = todo \ {n}
  /\ IF n \in DOMAIN streams
     THEN wobj' = streams[n] /\ wpc' = "write"
     ELSE UNCHANGED <<wobj, wpc>>
  /\ UNCHANGED <<pending, doTerm, fault>>

(* stream->write(event) on that pointer.                                  *)
WorkerWrite ==
  /\ Live
  /\ wpc = "write"
  /\ \/ wobj \in freed /\ Fault("freed_stream") /\ UNCHANGED wpc
     \/ wobj \notin freed /\ wpc' = "pick" /\ UNCHANGED fault
  /\ UNCHANGED <<pending, doTerm, todo, wobj>>

(* The event has been handed to every stream.                              *)
WorkerNext ==
  /\ Live
  /\ wpc = "pick" /\ todo = {}
  /\ wpc' = "wait"
  /\ UNCHANGED <<pending, doTerm, todo, wobj, fault>>

(* do_run returns once m_do_terminate is set and m_events is empty.        *)
WorkerExit ==
  /\ Live
  /\ lt = "live" /\ wpc = "wait"
  /\ doTerm /\ pending = 0
  /\ wpc' = "done"
  /\ UNCHANGED <<pending, doTerm, todo, wobj, fault>>

Worker ==
  /\ WorkerTake \/ (\E n \in StreamNames : WorkerPick(n)) \/ WorkerWrite
     \/ WorkerNext \/ WorkerExit
  /\ UNCHANGED <<inst, created, owner, subs, regs, objVars, apc, op, calls, xpc>>

-----------------------------------------------------------------------------
(* Ending the process.                                                     *)

(* Deleting the log_thread (~log_thread, log_thread.cpp lines 26-38)      *)
(* deletes every stream still in m_streams.                                *)
DeleteLogThread ==
  /\ lt' = "deleted"
  /\ freed' = freed \cup Range(streams)
  /\ UNCHANGED <<streams, slevel, nobj>>

(* atexit_handler (lines 294-299), run by exit() when main returns or from *)
(* signal_handler: delete s_instance, which stays non-null.  ~logger       *)
(* (lines 63-68): with m_thread set, terminate the worker and wait.        *)
AtExit ==
  /\ Live
  /\ \/ xpc = "run" /\ Exits
     \/ xpc = "exit"
  /\ \/ /\ inst = "live" /\ mthread
        /\ doTerm' = TRUE
        /\ xpc' = "join"
        /\ UNCHANGED <<inst, objVars>>
     \/ /\ inst = "live" /\ ~mthread
        /\ inst' = "freed"
        /\ xpc' = "exited"
        /\ UNCHANGED <<objVars, doTerm>>
     \/ /\ inst = "null"
        /\ xpc' = "exited"
        /\ UNCHANGED <<inst, objVars, doTerm>>
  /\ UNCHANGED <<created, owner, subs, regs, pending, wpc, todo, wobj, apc, op,
                 calls, fault>>

(* ~logger, after log_thread::terminate's join: delete m_thread, and the   *)
(* logger is gone.                                                         *)
AtExitJoin ==
  /\ Live
  /\ xpc = "join" /\ wpc = "done"
  /\ DeleteLogThread
  /\ inst' = "freed"
  /\ xpc' = "exited"
  /\ UNCHANGED <<created, owner, mthread, subs, regs, workVars, apc, op, calls,
                 fault>>

(* signal_handler (lines 247-292), installed by the logger's constructor:  *)
(* log the signal through instance() (the backtrace lines likewise), then  *)
(* logger::terminate (lines 301-310): with m_thread set, terminate the     *)
(* worker and wait.  m_thread is set: only terminate() clears it, and the *)
(* process is then already exiting.                                        *)
Signal ==
  /\ Live
  /\ Crashes /\ xpc = "run" /\ inst = "live"
  /\ pending' = pending + 1
  /\ doTerm' = TRUE
  /\ xpc' = "sig_join"
  /\ UNCHANGED <<inst, created, owner, subs, regs, objVars, wpc, todo, wobj, apc,
                 op, calls, fault>>

(* terminate() deletes m_thread and sets it to nullptr; then, with no      *)
(* earlier handler, exit(1).                                                *)
SignalJoin ==
  /\ Live
  /\ xpc = "sig_join" /\ wpc = "done"
  /\ DeleteLogThread
  /\ mthread' = FALSE
  /\ xpc' = "exit"
  /\ UNCHANGED <<inst, created, owner, subs, regs, workVars, apc, op, calls,
                 fault>>

Process == AtExit \/ AtExitJoin \/ Signal \/ SignalJoin

-----------------------------------------------------------------------------
Init ==
  /\ inst = "null" /\ created = 0 /\ owner = NoThread
  /\ lt = "none" /\ mthread = FALSE
  /\ subs = <<>> /\ regs = {}
  /\ streams = <<>> /\ slevel = [o \in Objects |-> Finest]
  /\ nobj = 0 /\ freed = {}
  /\ pending = 0 /\ doTerm = FALSE /\ wpc = "wait" /\ todo = {} /\ wobj = 0
  /\ apc = [a \in Apps |-> "idle"]
  /\ op = [a \in Apps |-> [kind |-> "register", name |-> CHOOSE n \in Names : TRUE]]
  /\ calls = 0
  /\ xpc = "run"
  /\ fault = "none"

Application(a) ==
  \/ \E o \in Ops : Call(a, o)
  \/ InstanceLock(a) \/ InstanceCheck(a) \/ InstanceConstruct(a)
  \/ Body(a) \/ RegisterInsert(a) \/ Enqueue(a)

Next == (\E a \in Apps : Application(a)) \/ Worker \/ Process

Spec == Init /\ [][Next]_vars

-----------------------------------------------------------------------------
(* Properties.                                                             *)

(* instance() constructs the logger once, however many threads make their *)
(* first call at the same time: the check of s_instance and the           *)
(* construction happen under s_instance_mutex.                             *)
OneLogger == created <= 1

(* register_subsystem merges registrations of a name into one id          *)
(* (logger.h, subsystem_registrator.h): every id it returned still names   *)
(* that subsystem, and no two ids name the same one.  Violated: two threads *)
(* that register one name at once both miss it in find_subsystem and both  *)
(* insert it (README.md, section 3).                                        *)
SubsystemsMerged ==
  /\ \A r \in regs : r[2] \in DOMAIN subs /\ subs[r[2]].name = r[1]
  /\ \A i, j \in DOMAIN subs : i # j => subs[i].name # subs[j].name

(* No thread reads or writes through a pointer to an object the facade    *)
(* deleted or set to nullptr: the logger after atexit_handler, m_thread    *)
(* after terminate(), a stream after remove_output_stream or ~log_thread. *)
NoInvalidAccess == fault = "none"

====
