------------------------------ MODULE QLogList ------------------------------
(***************************************************************************)
(* The Qt viewer's sink (src/Qt/QLogList.cpp): a QAbstractListModel over a  *)
(* QList of log events.  The delivery worker appends with do_write; every   *)
(* 30 s the GUI thread's QTimer runs expire(), which walks the list with an *)
(* iterator and erases runs of finest/finer/fine entries.  expire is one    *)
(* action per loop iteration, so do_write interleaves with it as it does    *)
(* in the program, where nothing locks m_log_events.                        *)
(*                                                                         *)
(* QList::erase(first, last) invalidates iterators; which element the loop *)
(* variable `i` then denotes depends on which side of the array Qt moves:  *)
(* the elements before the range (`i` still denotes the same element, now *)
(* n places earlier) or the ones after it (`i` keeps its index and denotes *)
(* the element n places later, or lies past the end).  Iterators are       *)
(* modelled as indices into the sequence, Len + 1 being end().             *)
(***************************************************************************)
EXTENDS Integers, Sequences, SequencesExt, LogLevels

CONSTANTS
  Levels,     \* levels of the events logged
  Times,      \* values of std::chrono::system_clock, in seconds
  MaxWrites   \* do_write calls in a behaviour

VARIABLES
  list,      \* m_log_events: records [id, level, time]
  written,   \* every event do_write appended (history)
  clock,     \* system_clock::now(), which the administrator may set back
  qt,        \* the Qt major version the program is built with
  gui,       \* "idle", or "loop" while expire() runs
  now,       \* expire's `now`
  it,        \* expire's iterator `i`
  row,       \* expire's `row`
  firstRow,  \* expire's `first_row`
  firstIt,   \* expire's `first_it`
  ub         \* an iterator was used outside the list: undefined behaviour

vars == <<list, written, clock, qt, gui, now, it, row, firstRow, firstIt, ub>>

(* The levels expire removes (lines 53-55).                                *)
IsDebug(e) == e.level \in {Finest, Finer, Fine}

(* QList::erase(first, last) of the sequence positions first..last-1.      *)
EraseRangeThrough(l, first, last) == SubSeq(l, 1, first - 1) \o SubSeq(l, last + 1, Len(l))
EraseRange(l, first, last) == SubSeq(l, 1, first - 1) \o SubSeq(l, last, Len(l))

(* Whether erasing n elements from 0-based index f of a list of L moves    *)
(* the front part: Qt 5's QListData::remove moves the shorter side as seen *)
(* from the middle of the range; Qt 6's QArrayDataPointer moves the front  *)
(* only for a range at the beginning that does not reach the end.          *)
FrontMoves(f, n, L) ==
  IF qt = 5 THEN f + n \div 2 < L - (f + n \div 2)
  ELSE f = 0 /\ f + n # L

(* The QTimer fires (lines 16-17, 33-38): expire starts at begin().        *)
Expire ==
  /\ gui = "idle" /\ ~ub
  /\ gui' = "loop"
  /\ now' = clock
  /\ it' = 1
  /\ row' = 0
  /\ firstRow' = -1
  /\ UNCHANGED <<list, written, clock, qt, firstIt, ub>>

(* An entry time-stamped more than an hour after `now` (lines 43-51):     *)
(* the pending run is erased and expire returns.                           *)
ExpireNewEntry ==
  /\ gui = "loop" /\ ~ub /\ it <= Len(list)
  /\ list[it].time - now > 3600
  /\ list' = IF firstRow # -1 THEN EraseRange(list, firstIt, it) ELSE list
  /\ gui' = "idle"
  /\ UNCHANGED <<written, clock, qt, now, it, row, firstRow, firstIt, ub>>

(* A debug entry (lines 53-60, 70): it starts a run if none is pending.    *)
ExpireDebug ==
  /\ gui = "loop" /\ ~ub /\ it <= Len(list)
  /\ ~(list[it].time - now > 3600)
  /\ IsDebug(list[it])
  /\ IF firstRow = -1 THEN firstRow' = row /\ firstIt' = it
     ELSE UNCHANGED <<firstRow, firstIt>>
  /\ it' = it + 1
  /\ row' = row + 1
  /\ UNCHANGED <<list, written, clock, qt, gui, now, ub>>

(* Any other entry (lines 61-70): a pending run first_it..i-1 is erased   *)
(* and `i`, now invalid, is incremented.  Past end() the loop reads        *)
(* beyond the list.                                                        *)
ExpireOther ==
  /\ gui = "loop" /\ ~ub /\ it <= Len(list)
  /\ ~(list[it].time - now > 3600)
  /\ ~IsDebug(list[it])
  /\ IF firstRow # -1
     THEN LET n  == it - firstIt
              i2 == IF FrontMoves(firstIt - 1, n, Len(list)) THEN it - n ELSE it
          IN /\ list' = EraseRange(list, firstIt, it)
             /\ it' = i2 + 1
             /\ ub' = (i2 + 1 > Len(list') + 1)
     ELSE /\ it' = it + 1
          /\ UNCHANGED <<list, ub>>
  /\ firstRow' = -1
  /\ row' = row + 1
  /\ UNCHANGED <<written, clock, qt, gui, now, firstIt>>

(* The loop reaches end() (lines 73-77): a pending run up to the end is   *)
(* erased.                                                                 *)
ExpireEnd ==
  /\ gui = "loop" /\ ~ub /\ it = Len(list) + 1
  /\ list' = IF firstRow # -1 THEN EraseRange(list, firstIt, Len(list) + 1) ELSE list
  /\ gui' = "idle"
  /\ UNCHANGED <<written, clock, qt, now, it, row, firstRow, firstIt, ub>>

(* do_write on the delivery worker (lines 26-31) appends the event.  While *)
(* expire runs this is a data race on the QList: the append either writes  *)
(* in place, the loop seeing the new end, or reallocates the array under   *)
(* expire's iterators.                                                      *)
do_write(lv) ==
  /\ ~ub /\ Len(written) < MaxWrites
  /\ LET e == [id |-> Len(written) + 1, level |-> lv, time |-> clock] IN
       /\ list' = Append(list, e)
       /\ written' = Append(written, e)
  /\ \E realloc \in IF gui = "loop" THEN BOOLEAN ELSE {FALSE} : ub' = realloc
  /\ UNCHANGED <<clock, qt, gui, now, it, row, firstRow, firstIt>>

(* system_clock is wall time: it may be set to any value.                   *)
SetClock ==
  /\ ~ub
  /\ \E t \in Times \ {clock} : clock' = t
  /\ UNCHANGED <<list, written, qt, gui, now, it, row, firstRow, firstIt, ub>>

Init ==
  /\ list = <<>>
  /\ written = <<>>
  /\ clock \in Times
  /\ qt \in {5, 6}
  /\ gui = "idle"
  /\ now = clock
  /\ it = 1
  /\ row = 0
  /\ firstRow = -1
  /\ firstIt = 1
  /\ ub = FALSE

Next ==
  \/ Expire \/ ExpireNewEntry \/ ExpireDebug \/ ExpireOther \/ ExpireEnd
  \/ \E lv \in Levels : do_write(lv)
  \/ SetClock

Spec == Init /\ [][Next]_vars

-----------------------------------------------------------------------------
(* Until an iterator leaves the list, expire never erases an entry of      *)
(* level config or above, and never reorders the list: every entry         *)
(* do_write appended that expire must keep is still there, in write order  *)
(* (the run bookkeeping of first_row/first_it across erase's iterator      *)
(* invalidation, under both Qt versions and concurrent appends).           *)
KeepsVisibleEntries ==
  ~ub =>
    /\ \A k \in 1..Len(list) - 1 : list[k].id < list[k + 1].id
    /\ {e \in Range(written) : ~IsDebug(e)} \subseteq Range(list)

=============================================================================
