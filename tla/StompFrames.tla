----------------------------- MODULE StompFrames -----------------------------
(***************************************************************************)
(* The byte level of the STOMP sink's reader thread                        *)
(* (src/output_stream_stomp.cpp): reader_thread cuts the bytes that        *)
(* read_with_timeout returns into NUL-terminated frames, keeping an        *)
(* unfinished one in m_partial_reply, skipping '\n' heartbeats between     *)
(* frames; handle_reply parses a frame into command, headers and body and  *)
(* appends it to m_reply_queue; a malformed frame makes the reader         *)
(* disconnect and end.  Strings are sequences of one-character strings;    *)
(* "NUL" stands for the byte '\0'.  StompSink models the same thread one   *)
(* whole frame at a time.                                                  *)
(***************************************************************************)
EXTENDS Naturals, Sequences, SequencesExt

CONSTANTS
  Chars,      \* the bytes the server sends; contains LF, NUL and ":"
  MaxBufLen,  \* most bytes one read returns (sizeof buf - 1 in the code)
  MaxBytes    \* bytes received in a behaviour

LF  == "\n"
NUL == "NUL"

ASSUME {LF, NUL, ":"} \subseteq Chars

VARIABLES
  partial,     \* m_partial_reply
  replyQ,      \* m_reply_queue: the parsed frames, in order
  lastWasData, \* m_last_was_data (AMQ_4710_workaround)
  ended,       \* the reader has called disconnect() and returned
  input        \* every byte received so far (history)

vars == <<partial, replyQ, lastWasData, ended, input>>

NPos == 0

(* std::string::find / strchr: the first position at or after `from`    *)
(* holding c, NPos when there is none.                                     *)
Find(s, c, from) ==
  LET is == {i \in from..Len(s) : s[i] = c} IN IF is = {} THEN NPos ELSE Min(is)

Bad == [ok |-> FALSE]

(* The header loop of handle_reply (lines 378-408); i is the position of *)
(* the '\n' that ends the previous line.  A line up to the next '\n' is    *)
(* key ':' value, split at the first ':'; a key already present is         *)
(* ignored; an empty line ends the headers.  No next '\n', or a line       *)
(* without ':', makes the frame malformed.                                 *)
RECURSIVE ParseHeaders(_, _, _)
ParseHeaders(f, i, hdrs) ==
  LET j == Find(f, LF, i + 1) IN
  CASE i + 1 > Len(f) \/ j = NPos -> Bad
    [] j = i + 1 -> [ok |-> TRUE, hdrs |-> hdrs, end |-> j]
    [] OTHER ->
         LET line  == SubSeq(f, i + 1, j - 1)
             colon == Find(line, ":", 1)
             key   == SubSeq(line, 1, colon - 1)
         IN IF colon = NPos THEN Bad
            ELSE ParseHeaders(f, j,
                   IF key \in DOMAIN hdrs THEN hdrs
                   ELSE hdrs @@ (key :> SubSeq(line, colon + 1, Len(line))))

(* Mutant of handle_reply: the body is taken from the '\n' that ends the   *)
(* headers instead of the byte after it.                                   *)
handle_replyBodyFromEnd(f) ==
  LET c == Find(f, LF, 1) IN
  IF c = NPos THEN Bad
  ELSE LET h == ParseHeaders(f, c, <<>>) IN
       IF ~h.ok \/ h.end > Len(f) THEN Bad
       ELSE [ok |-> TRUE,
             reply |-> [command |-> SubSeq(f, 1, c - 1), headers |-> h.hdrs,
                        body |-> SubSeq(f, h.end, Len(f))]]

(* handle_reply (lines 368-438): the command is everything before the    *)
(* first '\n' (none: malformed), then the headers, then the body is the    *)
(* rest.  An ERROR frame is only logged; every frame parsed is queued.     *)
handle_reply(f) ==
  LET c == Find(f, LF, 1) IN
  IF c = NPos THEN Bad
  ELSE LET h == ParseHeaders(f, c, <<>>) IN
       IF ~h.ok \/ h.end > Len(f) THEN Bad
       ELSE [ok |-> TRUE,
             reply |-> [command |-> SubSeq(f, 1, c - 1), headers |-> h.hdrs,
                        body |-> SubSeq(f, h.end + 1, Len(f))]]

(* The inner loop of reader_thread (lines 327-364) from the position sod *)
(* of the buffer: while no frame is under way, '\n' bytes are heartbeats   *)
(* and skipped; otherwise the bytes up to the next NUL (strchr) are        *)
(* appended to m_partial_reply, and when there is one the frame is         *)
(* complete: handle_reply, m_partial_reply cleared, and on a malformed     *)
(* frame the loop ends with disconnect().  `data` is whether a non-        *)
(* heartbeat byte was seen (m_last_was_data = true).                       *)
RECURSIVE Assemble(_, _, _, _, _)
Assemble(part, out, data, buf, sod) ==
  IF sod > Len(buf)
  THEN [partial |-> part, out |-> out, data |-> data, ok |-> TRUE]
  ELSE IF part = <<>> /\ buf[sod] = LF
  THEN Assemble(part, out, data, buf, sod + 1)
  ELSE LET i == Find(buf, NUL, sod)
           p == part \o SubSeq(buf, sod, IF i = NPos THEN Len(buf) ELSE i - 1)
       IN IF i = NPos
          THEN [partial |-> p, out |-> out, data |-> TRUE, ok |-> TRUE]
          ELSE LET r == handle_reply(p) IN
               IF ~r.ok
               THEN [partial |-> <<>>, out |-> out, data |-> TRUE, ok |-> FALSE]
               ELSE Assemble(<<>>, Append(out, r.reply), TRUE, buf, i + 1)

(* read_with_timeout returns bytes (lines 308-309 and 523): they go        *)
(* through the loop above, the parsed frames are pushed onto               *)
(* m_reply_queue, and a malformed one ends the thread.                     *)
ReaderRead(buf) ==
  /\ ~ended
  /\ Len(input) + Len(buf) <= MaxBytes
  /\ LET r == Assemble(partial, <<>>, lastWasData, buf, 1) IN
     /\ partial' = r.partial
     /\ replyQ' = replyQ \o r.out
     /\ lastWasData' = r.data
     /\ ended' = ~r.ok
  /\ input' = input \o buf

(* select_read times out (lines 507-521): right after data the            *)
(* AMQ_4710_workaround clears m_last_was_data and waits once more;         *)
(* otherwise read_with_timeout returns -1 and the reader disconnects and   *)
(* ends (lines 313-318).                                                   *)
ReaderTimeout ==
  /\ ~ended
  /\ IF lastWasData
     THEN /\ lastWasData' = FALSE
          /\ UNCHANGED ended
     ELSE /\ ended' = TRUE
          /\ UNCHANGED lastWasData
  /\ UNCHANGED <<partial, replyQ, input>>

(* The socket is closed or a read fails (lines 523-527): -1, the reader   *)
(* disconnects and ends.                                                   *)
ReaderFails ==
  /\ ~ended
  /\ ended' = TRUE
  /\ UNCHANGED <<partial, replyQ, lastWasData, input>>

Init ==
  /\ partial = <<>>
  /\ replyQ = <<>>
  /\ lastWasData = FALSE
  /\ ended = FALSE
  /\ input = <<>>

Next ==
  \/ \E buf \in BoundedSeq(Chars, MaxBufLen) \ {<<>>} : ReaderRead(buf)
  \/ ReaderTimeout
  \/ ReaderFails

Spec == Init /\ [][Next]_vars

-----------------------------------------------------------------------------
(* Reference: the frame grammar of the spec's reader thread (section 4.7) *)
(* over everything received.  The NULs cut the stream into frames; '\n'   *)
(* bytes before a frame are heartbeats.  A frame is a command line (up to *)
(* the first '\n'), header lines key:value up to the first empty line     *)
(* (the first line of a repeated key wins) and the body after it.          *)
Positions(s, c) == SetToSortSeq({i \in 1..Len(s) : s[i] = c}, <)

RECURSIVE DropHeartbeats(_)
DropHeartbeats(s) == IF s # <<>> /\ Head(s) = LF THEN DropHeartbeats(Tail(s)) ELSE s

(* The complete frames of a stream, heartbeats dropped, and what follows  *)
(* the last NUL.                                                           *)
SpecFrames(s) ==
  LET p == Positions(s, NUL)
      from(k) == IF k = 1 THEN 1 ELSE p[k - 1] + 1
  IN [k \in 1..Len(p) |-> DropHeartbeats(SubSeq(s, from(k), p[k] - 1))]

SpecRest(s) ==
  LET p == Positions(s, NUL) IN
  DropHeartbeats(IF p = <<>> THEN s ELSE SubSeq(s, p[Len(p)] + 1, Len(s)))

SpecParse(f) ==
  LET lf   == Positions(f, LF)
      ends == {k \in 1..Len(lf) - 1 : lf[k + 1] = lf[k] + 1}
  IN IF ends = {} THEN Bad
     ELSE LET e     == Min(ends)   \* lf[e] ends the last header line
              line(k) == SubSeq(f, lf[k - 1] + 1, lf[k] - 1)
              lines == [k \in 1..e - 1 |-> line(k + 1)]
              cut(l) == Min({i \in 1..Len(l) : l[i] = ":"})
              key(l) == SubSeq(l, 1, cut(l) - 1)
              first(x) == Min({k \in DOMAIN lines : key(lines[k]) = x})
          IN IF \E k \in DOMAIN lines : ":" \notin Range(lines[k]) THEN Bad
             ELSE [ok |-> TRUE,
                   reply |-> [command |-> SubSeq(f, 1, lf[1] - 1),
                              headers |-> [x \in {key(lines[k]) : k \in DOMAIN lines} |->
                                             LET l == lines[first(x)] IN
                                             SubSeq(l, cut(l) + 1, Len(l))],
                              body |-> SubSeq(f, lf[e + 1] + 1, Len(f))]]

(* However the server's bytes are cut into reads, the reader has queued   *)
(* exactly the frames the spec's grammar finds in everything received, in *)
(* order, parsed as the grammar says; it keeps the unfinished frame; and   *)
(* at the first malformed frame it has ended without queueing it or       *)
(* anything after it (reader_thread and handle_reply).                     *)
FramesParsedAsSpecified ==
  LET fs  == SpecFrames(input)
      bad == {k \in DOMAIN fs : ~SpecParse(fs[k]).ok}
      good(n) == [k \in 1..n |-> SpecParse(fs[k]).reply]
  IN IF bad = {}
     THEN /\ replyQ = good(Len(fs))
          /\ ended \/ partial = SpecRest(input)
     ELSE /\ ended
          /\ replyQ = good(Min(bad) - 1)

=============================================================================
