--------------------------- MODULE StreamChannels ---------------------------
(***************************************************************************)
(* What the delivery pipeline promises (spec sections 3, 4.3, 4.4), with   *)
(* no threads: every logged event at or above a stream's minimum level     *)
(* joins that stream's channel; a stream receives the head of its channel; *)
(* an event leaves a channel without being received only when it is older  *)
(* than the expiry ceiling of its level, or, where starting a retry worker *)
(* can fail, as the oldest pending event of that stream.                   *)
(***************************************************************************)
EXTENDS Naturals, Sequences, SequencesExt, LogLevels

CONSTANTS NSinks, SinkMinLevel, EventLevels, MaxEvents, TickSeconds,
          MaxTime, SpawnMayFail

VARIABLES submitted, now, chan, delivered

Sinks == 1..NSinks

ExpiryCeiling(l) ==
  CASE l \in {Finest, Finer}  -> 900
    [] l \in {Fine, Config}   -> 1800
    [] l = Info               -> 3600
    [] l = Warning            -> 36000
    [] l = Severe             -> 2147483647

Old(i) == now - submitted[i].time > ExpiryCeiling(submitted[i].level)

Submit(l) ==
  LET i == Len(submitted) + 1 IN
  /\ Len(submitted) < MaxEvents
  /\ submitted' = Append(submitted, [level |-> l, time |-> now])
  /\ chan' = [s \in Sinks |-> IF l < SinkMinLevel[s] THEN chan[s]
                              ELSE Append(chan[s], i)]
  /\ UNCHANGED <<now, delivered>>

Receive(s) ==
  /\ chan[s] # <<>>
  /\ delivered' = [delivered EXCEPT ![s] = Append(@, Head(chan[s]))]
  /\ chan' = [chan EXCEPT ![s] = Tail(@)]
  /\ UNCHANGED <<submitted, now>>

(* Some of the old events of a channel are discarded.                      *)
Expire(s) ==
  \E gone \in SUBSET {i \in ToSet(chan[s]) : Old(i)} :
    /\ gone # {}
    /\ chan' = [chan EXCEPT ![s] = SelectSeq(@, LAMBDA i : i \notin gone)]
    /\ UNCHANGED <<submitted, now, delivered>>

LoseOldest(s) ==
  /\ SpawnMayFail
  /\ chan[s] # <<>>
  /\ chan' = [chan EXCEPT ![s] = Tail(@)]
  /\ UNCHANGED <<submitted, now, delivered>>

Advance ==
  /\ now + TickSeconds <= MaxTime
  /\ now' = now + TickSeconds
  /\ UNCHANGED <<submitted, chan, delivered>>

Init ==
  /\ submitted = <<>>
  /\ now = 0
  /\ chan = [s \in Sinks |-> <<>>]
  /\ delivered = [s \in Sinks |-> <<>>]

Next ==
  \/ \E l \in EventLevels : Submit(l)
  \/ \E s \in Sinks : Receive(s) \/ Expire(s) \/ LoseOldest(s)
  \/ Advance

Spec == Init /\ [][Next]_<<submitted, now, chan, delivered>>

=============================================================================
