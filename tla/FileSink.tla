------------------------------ MODULE FileSink ------------------------------
(***************************************************************************)
(* The rotating XML file sink, output_stream_file (src/output_stream_file  *)
(* .cpp), over a file system that persists across a crash of the process.  *)
(*                                                                         *)
(* A file is its sequence of items: the "<logfile>" header, one line per   *)
(* event, the "</logfile>" trailer; its size is the sum of their lengths.  *)
(* The live file is `Live`; an archive is named by the millisecond stamp   *)
(* that archive() appends (format_timestamp, src/log_event.cpp 30-39).     *)
(* The std::ofstream m_stream is two flags: is_open and good.  Every file  *)
(* system call the code makes (a rename, the creation of the live file,   *)
(* the write of a line) may fail, at most MaxFaults times.                 *)
(*                                                                         *)
(* One thread writes a stream at a time (LogPipeline checks it), so each   *)
(* member function is one action; a crash of the process falls between    *)
(* two calls.  Time is in milliseconds, the resolution of the stamps.      *)
(***************************************************************************)
EXTENDS Integers, Sequences, SequencesExt, FiniteSets, TLC

CONSTANTS
  NEvents,     \* events the application logs to this sink
  LineLen,     \* LineLen[e]: length of the <message> line of event e
  MaxSize,     \* m_maxsize
  MaxTime,     \* last millisecond of the clock
  MaxFaults,   \* failed file system calls in a behaviour
  MaxStarts    \* constructions of the sink (the first and restarts)

Events == 1..NEvents

ASSUME LineLen \in [Events -> Nat] /\ MaxSize \in Nat

(* File names: the archives are their stamps, the live file is -1.       *)
Live    == -1
Stamps  == 0..MaxTime
Names   == {Live} \cup Stamps

(* Items of a file: the events, and the header and trailer lines.         *)
HeadItem == 0
TailItem == -1
HeaderLen  == 10   \* "<logfile>" << std::endl
TrailerLen == 11   \* "</logfile>" << std::endl

VARIABLES
  disk,      \* disk[n]: [body, mtime] of each existing file n
  sopen,     \* m_stream.is_open()
  sgood,     \* m_stream.good()
  isopen,    \* m_isopen
  alive,     \* the output_stream_file object exists
  now,       \* the clock, in ms
  acked,     \* events do_write returned true for
  faults,    \* failed file system calls so far
  starts     \* constructions so far

vars == <<disk, sopen, sgood, isopen, alive, now, acked, faults, starts>>

ItemLen(i) ==
  CASE i = HeadItem -> HeaderLen [] i = TailItem -> TrailerLen [] OTHER -> LineLen[i]

FileSize(body) == FoldLeft(LAMBDA acc, i : acc + ItemLen(i), 0, body)

-----------------------------------------------------------------------------
(* The sink's state as one record k, so that a member function that calls  *)
(* others is a chain of operators from record to record.  An operator that *)
(* returns bool gives [k |-> <state after>, ok |-> <result>].              *)

Sink == [disk |-> disk, sopen |-> sopen, sgood |-> sgood, isopen |-> isopen]

Store(k) ==
  /\ disk' = k.disk /\ sopen' = k.sopen /\ sgood' = k.sgood
  /\ isopen' = k.isopen

(* m_stream << item; m_stream.flush(): appends to the file it has open,    *)
(* which is always Live (the code renames Live only while m_stream is      *)
(* closed); `w` is whether the write reaches the disk.  On a stream that   *)
(* is not open, or already failed, nothing is written and it is bad.       *)
Put(k, item, w) ==
  IF k.sopen /\ k.sgood /\ w
  THEN [k EXCEPT !.disk[Live] = [body |-> Append(@.body, item), mtime |-> now]]
  ELSE [k EXCEPT !.sgood = FALSE]

(* m_stream.open(m_filename): creates or truncates Live and clears the     *)
(* state flags; on a stream already open, or when creation fails, it only  *)
(* sets failbit.                                                           *)
StreamOpen(k, c) ==
  IF ~k.sopen /\ c
  THEN [k EXCEPT !.disk = (Live :> [body |-> <<>>, mtime |-> now]) @@ @,
                 !.sopen = TRUE, !.sgood = TRUE]
  ELSE [k EXCEPT !.sgood = FALSE]

(* m_stream.close(): failbit when the stream was not open.                 *)
StreamClose(k) ==
  IF k.sopen THEN [k EXCEPT !.sopen = FALSE] ELSE [k EXCEPT !.sgood = FALSE]

(* m_stream.tellp(): -1 once the stream has failed or when it is closed.   *)
TellP(k) == IF k.sopen /\ k.sgood THEN FileSize(k.disk[Live].body) ELSE -1

(* archive(t): ::rename(m_filename, m_filename + "-" + stamp(t)).  POSIX   *)
(* rename replaces an existing file of the target name.                    *)
archive(k, t, r) ==
  IF r /\ Live \in DOMAIN k.disk
  THEN [k |-> [k EXCEPT !.disk = [n \in (DOMAIN @ \ {Live}) \cup {t} |->
                                    IF n = t THEN @[Live] ELSE @[n]]],
        ok |-> TRUE]
  ELSE [k |-> k, ok |-> FALSE]

(* open() (lines 59-76): archive an existing Live, stamped with its        *)
(* modification time (ms), and give up when that fails, leaving m_isopen   *)
(* as it was; otherwise open the stream, write the header, and set         *)
(* m_isopen to the stream's state.  r: the rename, c: the creation.        *)
OpenStream(k, c) ==
  LET k1 == Put(StreamOpen(k, c), HeadItem, TRUE) IN
  [k |-> [k1 EXCEPT !.isopen = k1.sgood], ok |-> k1.sgood]

open(k, r, c) ==
  IF Live \notin DOMAIN k.disk
  THEN OpenStream(k, c)
  ELSE LET a == archive(k, k.disk[Live].mtime, r) IN
       IF a.ok THEN OpenStream(a.k, c) ELSE [k |-> k, ok |-> FALSE]

(* close() (lines 78-83): trailer, flush, close, archive(now).  m_isopen   *)
(* is left as it is.                                                       *)
close(k, r) == archive(StreamClose(Put(k, TailItem, TRUE)), now, r)

(* rotate() (lines 94-97): the result of close() is ignored.               *)
rotate(k, r1, r2, c) == open(close(k, r1).k, r2, c)

do_write(k, e, f) ==
  LET o == IF k.isopen THEN [k |-> k, ok |-> TRUE] ELSE open(k, f[1], f[2]) IN
  IF ~o.ok THEN o
  ELSE LET newSize == TellP(o.k) + LineLen[e] + 12
           k2 == IF newSize > MaxSize THEN rotate(o.k, f[3], f[4], f[5]).k
                 ELSE o.k
           k3 == Put(k2, e, f[6])
       IN [k |-> k3, ok |-> k3.sgood]

-----------------------------------------------------------------------------
(* Outcomes of n file system calls within the fault budget.                *)
Fails(f) == {i \in DOMAIN f : ~f[i]}

Outcomes(n) ==
  {f \in [1..n -> BOOLEAN] : faults + Cardinality(Fails(f)) <= MaxFaults}

(* The writer (the delivery worker, or the stream's retry thread) writes   *)
(* the oldest event not yet written, as retry_thread::run retries the head *)
(* of its queue (src/retry_thread.cpp 58-67).                              *)
Current == CHOOSE e \in Events : e \notin acked /\ \A d \in Events : d < e => d \in acked

(* output_stream::write -> do_write for the current event.                 *)
Write ==
  /\ alive /\ acked # Events
  /\ \E f \in Outcomes(6) :
       LET r == do_write(Sink, Current, f) IN
       /\ Store(r.k)
       /\ acked' = IF r.ok THEN acked \cup {Current} ELSE acked
       /\ faults' = faults + Cardinality(Fails(f))
  /\ UNCHANGED <<alive, now, starts>>

(* The constructor (lines 15-19) calls open() on a fresh, closed stream.   *)
(* m_isopen has no initializer (output_stream_file.h line 27): when open() *)
(* returns early it holds whatever the memory held.                        *)
Construct ==
  /\ ~alive /\ starts < MaxStarts
  /\ \E garbage \in BOOLEAN, f \in Outcomes(2) :
       LET r == open([disk |-> disk, sopen |-> FALSE, sgood |-> TRUE,
                      isopen |-> garbage], f[1], f[2])
       IN /\ Store(r.k)
          /\ faults' = faults + Cardinality(Fails(f))
  /\ alive' = TRUE
  /\ starts' = starts + 1
  /\ UNCHANGED <<now, acked>>

(* The destructor (lines 21-23) calls close().                             *)
Destroy ==
  /\ alive
  /\ \E f \in Outcomes(1) :
       /\ Store(close(Sink, f[1]).k)
       /\ faults' = faults + Cardinality(Fails(f))
  /\ alive' = FALSE
  /\ UNCHANGED <<now, acked, starts>>

(* The process dies: the files stay as they are on disk.                   *)
Crash ==
  /\ alive
  /\ alive' = FALSE
  /\ sopen' = FALSE
  /\ UNCHANGED <<disk, sgood, isopen, now, acked, faults, starts>>

Tick ==
  /\ now < MaxTime
  /\ now' = now + 1
  /\ UNCHANGED <<disk, sopen, sgood, isopen, alive, acked, faults, starts>>

(* Before the first construction Live may be left over from an earlier    *)
(* run of the program.                                                     *)
Init ==
  /\ disk \in {<<>>, Live :> [body |-> <<HeadItem>>, mtime |-> 0]}
  /\ sopen = FALSE /\ sgood = TRUE /\ isopen = FALSE
  /\ alive = FALSE
  /\ now = 0
  /\ acked = {}
  /\ faults = 0
  /\ starts = 0

Next == Write \/ Construct \/ Destroy \/ Crash \/ Tick

Spec == Init /\ [][Next]_vars

(* The writer is a thread that runs while it has an event to write.        *)
FairSpec == Spec /\ WF_vars(Write)

-----------------------------------------------------------------------------
(* Properties.                                                             *)

Lines(body) == {i \in ToSet(body) : i \in Events}

AckedLineStored ==
  \A e \in acked : \E n \in DOMAIN disk : e \in Lines(disk[n].body)

(* While the sink object lives, the writer's retries eventually write     *)
(* every event: once the file system works again, do_write recovers from  *)
(* a failed rotation, a failed write or a failed open.                    *)
EventuallyAllWritten == (alive /\ acked # Events) ~> (acked = Events \/ ~alive)

=============================================================================
