------------------------------ MODULE ParseURL ------------------------------
(***************************************************************************)
(* parse_URL (src/parse_url.cpp), called by the STOMP sink's constructor   *)
(* on a URL_info holding the defaults stomp / 61613 / "LOG".  A string is  *)
(* a sequence of one-character strings; positions are 1-based, and NPos    *)
(* (0) stands for std::string::npos, which the code only compares for      *)
(* equality before it compares a position with `>`.                       *)
(*                                                                         *)
(* The URLs are built from components of the spec's grammar               *)
(* protocol://[user[:pass]@]host[:port][/path], each given encoded (as it *)
(* appears in the URL) and decoded (what the spec says it means).         *)
(***************************************************************************)
EXTENDS Integers, Sequences, SequencesExt

CONSTANT Cases   \* the URLs to parse, as records of components (below)

NPos == 0

HexVal ==
  ("0" :> 0) @@ ("1" :> 1) @@ ("2" :> 2) @@ ("3" :> 3) @@ ("4" :> 4)
  @@ ("5" :> 5) @@ ("6" :> 6) @@ ("A" :> 10)
Decimal == {"0", "1", "2", "3", "4", "5", "6"}

(* The byte with code n; codes that no component uses are one byte "?".   *)
ByteChar(n) ==
  CASE n = 32 -> " " [] n = 58 -> ":" [] n = 64 -> "@" [] n = 47 -> "/"
    [] OTHER -> "?"

Find(s, c, from) ==
  LET is == {i \in from..Len(s) : s[i] = c} IN IF is = {} THEN NPos ELSE Min(is)

FindSub(s, t) ==
  LET is == {i \in 1..Len(s) - Len(t) + 1 : SubSeq(s, i, i + Len(t) - 1) = t} IN
  IF is = {} THEN NPos ELSE Min(is)

(* decode_hex_byte (lines 10-40): "%" and two hex digits is that byte, a   *)
(* "%" without them throws, "+" is a space.  [ok, s]: ok is FALSE when it  *)
(* throws.                                                                 *)
RECURSIVE Decode(_, _, _)
Decode(in, i, out) ==
  IF i > Len(in) THEN [ok |-> TRUE, s |-> out]
  ELSE IF in[i] = "%"
  THEN LET esc == SubSeq(in, i + 1, IF i + 2 <= Len(in) THEN i + 2 ELSE Len(in)) IN
       IF Len(esc) # 2 \/ \E k \in 1..Len(esc) : esc[k] \notin DOMAIN HexVal
       THEN [ok |-> FALSE, s |-> out]
       ELSE Decode(in, i + 3, Append(out, ByteChar(16 * HexVal[esc[1]] + HexVal[esc[2]])))
  ELSE Decode(in, i + 1, Append(out, IF in[i] = "+" THEN " " ELSE in[i]))

decode_hex_byte(in) == Decode(in, 1, <<>>)

(* ::atoi: the value of the leading decimal digits.                       *)
RECURSIVE Atoi(_, _)
Atoi(s, acc) ==
  IF s = <<>> \/ Head(s) \notin Decimal THEN acc
  ELSE Atoi(Tail(s), 10 * acc + HexVal[Head(s)])

(* The port check (lines 89-104): at most five characters, all decimal   *)
(* digits (no sign), and a value in 1..65535.                              *)
ValidPortWithoutUpperBound(port) ==
  /\ Len(port) <= 5
  /\ \A k \in 1..Len(port) : port[k] \in Decimal
  /\ Atoi(port, 0) >= 1

ValidPort(port) ==
  /\ Len(port) <= 5
  /\ \A k \in 1..Len(port) : port[k] \in Decimal
  /\ Atoi(port, 0) >= 1 /\ Atoi(port, 0) <= 65535

(* parse_URL (lines 43-109): the fields of _parts change only when every  *)
(* check passed; a failed check throws std::invalid_argument.  [ok, parts] *)
parse_URL(url, parts) ==
  LET pe      == FindSub(url, <<":", "/", "/">>)
      start   == IF pe # NPos THEN pe + 3 ELSE 1
      at      == Find(url, "@", start)
      colon1  == Find(url, ":", start)
      loginOk == colon1 # start /\ colon1 # NPos /\ ~(colon1 > at)
      login   == decode_hex_byte(SubSeq(url, start, colon1 - 1))
      passwd  == decode_hex_byte(SubSeq(url, colon1 + 1, at - 1))
      hp      == IF at = NPos THEN start ELSE at + 1
      slashF  == Find(url, "/", hp)
      path    == decode_hex_byte(SubSeq(url, slashF + 1, Len(url)))
      slash   == IF slashF # NPos THEN slashF ELSE Len(url) + 1
      colon   == Find(url, ":", hp)
      noPort  == colon = NPos \/ colon > slash
      portStr == SubSeq(url, colon + 1, slash - 1)
      p       == Atoi(portStr, 0)
      host    == IF noPort THEN SubSeq(url, hp, slash - 1)
                 ELSE SubSeq(url, hp, colon - 1)
      ok == /\ at # NPos => loginOk /\ login.ok /\ passwd.ok
            /\ slashF # NPos => path.ok
            /\ noPort \/ ValidPort(portStr)
            /\ host # <<>>
      ret == [parts EXCEPT
                !.protocol = IF pe # NPos THEN SubSeq(url, 1, pe - 1) ELSE @,
                !.login    = IF at # NPos THEN login.s ELSE @,
                !.password = IF at # NPos THEN passwd.s ELSE @,
                !.path     = IF slashF # NPos THEN path.s ELSE @,
                !.host     = host,
                !.port     = IF noPort THEN @ ELSE p]
  IN [ok |-> ok, parts |-> IF ok THEN ret ELSE parts]

-----------------------------------------------------------------------------
(* The defaults the STOMP sink sets before the call                        *)
(* (output_stream_stomp.cpp lines 37-40).                                   *)
Defaults ==
  [protocol |-> <<"s", "t", "o", "m", "p">>, login |-> <<>>, password |-> <<>>,
   host |-> <<>>, port |-> 61613, path |-> <<"L", "O", "G">>]

VARIABLES
  case,      \* the URL's components
  parts,     \* *m_stomp_URL
  outcome    \* "none" before the call, then "ok" or "thrown"

vars == <<case, parts, outcome>>

(* A component: present or not, its text in the URL, what it denotes.     *)
Url(c) ==
  (IF c.proto.on THEN c.proto.enc \o <<":", "/", "/">> ELSE <<>>)
  \o (IF c.user.on
      THEN c.user.enc \o (IF c.pass.on THEN <<":">> \o c.pass.enc ELSE <<>>) \o <<"@">>
      ELSE <<>>)
  \o c.host.enc
  \o (IF c.port.on THEN <<":">> \o c.port.enc ELSE <<>>)
  \o (IF c.path.on THEN <<"/">> \o c.path.enc ELSE <<>>)

Init ==
  /\ case \in Cases
  /\ parts = Defaults
  /\ outcome = "none"

Call ==
  /\ outcome = "none"
  /\ LET r == parse_URL(Url(case), parts) IN
     /\ parts' = r.parts
     /\ outcome' = IF r.ok THEN "ok" ELSE "thrown"
  /\ UNCHANGED case

Spec == Init /\ [][Call]_vars

-----------------------------------------------------------------------------
(* Reference: what the spec's grammar says the URL means.  The call        *)
(* succeeds iff a given port is in 1..65535; each component present sets  *)
(* its field to its decoded text, the others keep their defaults.          *)
Expected(c, d) ==
  LET ok == c.port.on => c.port.dec \in 1..65535 IN
  [ok |-> ok,
   parts |-> IF ~ok THEN d
             ELSE [d EXCEPT
                     !.protocol = IF c.proto.on THEN c.proto.dec ELSE @,
                     !.login    = IF c.user.on THEN c.user.dec ELSE @,
                     !.password = IF c.pass.on THEN c.pass.dec ELSE @,
                     !.host     = c.host.dec,
                     !.port     = IF c.port.on THEN c.port.dec ELSE @,
                     !.path     = IF c.path.on THEN c.path.dec ELSE @]]

(* parse_URL accepts exactly the URLs of the grammar with a valid port and *)
(* fills in the decoded components, keeping the defaults of the others.    *)
URLParsedAsSpecified ==
  outcome # "none" =>
    LET e == Expected(case, Defaults) IN
    /\ e.ok <=> outcome = "ok"
    /\ parts = e.parts

=============================================================================
