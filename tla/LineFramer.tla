----------------------------- MODULE LineFramer -----------------------------
(***************************************************************************)
(* The Line Framer of the action-control channel (spec 4.1, 4.2): it cuts  *)
(* the byte stream a client writes into input units as the bytes arrive,  *)
(* in chunks of any size.  A unit is a legacy line, or a JSON value that   *)
(* may span lines: a string, or an object whose braces balance (braces in  *)
(* strings do not count).  Several JSON values may share a line            *)
(* (test_b3270_json_multiple); after a value only blanks, a newline or     *)
(* another value may follow ("trailing garbage" is a syntax error).  A     *)
(* character JSON forbids where it occurs is a syntax error, reported at   *)
(* once and fatal: nothing after it is framed (test_b3270_json_syntax_     *)
(* error).  At the end of the stream a partial unit is discarded.          *)
(*                                                                         *)
(* Characters are abstracted to their role: "ob" and "cb" an opening and  *)
(* a closing brace, "dq" a double quote, "nl" a newline, "sp" a blank, "x" *)
(* any character with no structural role, "?" a character JSON forbids   *)
(* outside a string.  A unit is its kind and the positions of its first   *)
(* and last character.                                                     *)
(* The framing is checked against RefFrom, a definition of the units of a  *)
(* whole stream by positions written independently of the state machine,  *)
(* in module FramerReference.                                              *)
(***************************************************************************)
EXTENDS Naturals, Sequences

CONSTANTS
  MaxLen,   \* bound on the length of the arbitrary streams explored
  MaxChunk  \* bound on the bytes one read returns

ASSUME MaxLenAssumption == MaxLen \in Nat /\ MaxChunk \in Nat \ {0}

Chars == {"ob", "cb", "dq", "nl", "sp", "x", "?"}
Blank == {"nl", "sp"}
Kinds == {"legacy", "json", "error"}
Modes == {"idle", "legacy", "object", "member", "string", "after", "dead"}

Unit(kind, from, to) == [kind |-> kind, from |-> from, to |-> to]

(***************************************************************************)
(* The streams written by the tests, character by character.              *)
(***************************************************************************)
\* json.dumps({'action':'Set','args':['startTls']})
Cmd ==
  <<"ob", "dq", "x", "dq", "x", "sp", "dq", "x", "dq", "x", "sp",
    "dq", "x", "dq", "x", "sp", "x", "dq", "x", "dq", "x", "cb">>

\* The same with its blanks replaced by newlines.
MultilineCmd == [k \in DOMAIN Cmd |-> IF Cmd[k] = "sp" THEN "nl" ELSE Cmd[k]]

\* test_s3270_stdin_multiline_json
MultilineStream == MultilineCmd \o <<"nl">>

\* test_s3270_stdin_mode_switch: legacy and multi-line JSON units alternate
ModeSwitchStream ==
  <<"x", "nl">> \o MultilineCmd \o <<"nl", "x", "nl">> \o MultilineCmd \o <<"nl">>

\* test_s3270_stdin_json_syntax: {"foo"} is framed, and fails to parse
JsonSyntaxStream == <<"ob", "dq", "x", "dq", "cb", "nl">>

S3270Streams == {MultilineStream, ModeSwitchStream, JsonSyntaxStream}

\* The run object of test_b3270_json_split, up to its closing braces.
Run ==
  <<"ob", "nl", "dq", "x", "dq", "nl", "x", "ob", "dq", "x", "dq", "nl",
    "x", "ob", "dq", "x", "dq", "x", "dq", "x", "dq", "nl",
    "x", "dq", "x", "dq", "x", "dq", "x", "dq", "x", "nl">>

\* test_b3270_json_split
SplitStream == Run \o <<"cb", "cb", "cb", "nl">>

\* test_b3270_json_multiple: two JSON strings on one line
MultipleStream ==
  <<"dq", "x", "sp", "x", "sp", "x", "dq", "sp", "dq", "x", "dq", "nl">>

\* test_b3270_json_syntax_error: '?' where '}' is due
SyntaxErrorStream == Run \o <<"cb", "cb", "?", "nl">>

B3270Streams == {SplitStream, MultipleStream, SyntaxErrorStream}

TestStreams == S3270Streams \cup B3270Streams

\* The tests' streams and every stream of at most MaxLen characters.
Streams == TestStreams \cup UNION {[1..n -> Chars] : n \in 0..MaxLen}

-----------------------------------------------------------------------------
(***************************************************************************)
(* The framer: a state machine fed one character at a time.               *)
(***************************************************************************)
Idle  == [mode |-> "idle", depth |-> 0, start |-> 0]
After == [mode |-> "after", depth |-> 0, start |-> 0]
Dead  == [mode |-> "dead", depth |-> 0, start |-> 0]

\* The next state, and the units completed by the character.
Res(st, out) == [st |-> st, out |-> out]

\* Between units: the first non-blank character decides the format.
InIdle(c, i) ==
  CASE c \in Blank -> Res(Idle, <<>>)
    [] c = "ob"     -> Res([mode |-> "object", depth |-> 1, start |-> i], <<>>)
    [] c = "dq"    -> Res([mode |-> "string", depth |-> 0, start |-> i], <<>>)
    [] OTHER       -> Res([mode |-> "legacy", depth |-> 0, start |-> i], <<>>)

\* A legacy unit is the rest of its line.
InLegacy(st, c, i) ==
  IF c = "nl" THEN Res(Idle, <<Unit("legacy", st.start, i - 1)>>)
              ELSE Res(st, <<>>)

\* Fault variant: the brace closing the object is not recognised.
InObjectNoClose(st, c, i) ==
  CASE c = "ob"  -> Res([st EXCEPT !.depth = @ + 1], <<>>)
    [] c = "cb"  -> Res([st EXCEPT !.depth = @ - 1], <<>>)
    [] c = "dq" -> Res([st EXCEPT !.mode = "member"], <<>>)
    [] c = "?"  -> Res(Dead, <<Unit("error", st.start, i)>>)
    [] OTHER    -> Res(st, <<>>)

\* Fault variant: quotes are not tracked, so braces in strings count.
InObjectNoStrings(st, c, i) ==
  CASE c = "ob"                  -> Res([st EXCEPT !.depth = @ + 1], <<>>)
    [] c = "cb" /\ st.depth = 1  -> Res(After, <<Unit("json", st.start, i)>>)
    [] c = "cb" /\ st.depth > 1  -> Res([st EXCEPT !.depth = @ - 1], <<>>)
    [] c = "?"                  -> Res(Dead, <<Unit("error", st.start, i)>>)
    [] OTHER                    -> Res(st, <<>>)

\* Inside an object, outside its strings.
InObject(st, c, i) ==
  CASE c = "ob"                  -> Res([st EXCEPT !.depth = @ + 1], <<>>)
    [] c = "cb" /\ st.depth = 1  -> Res(After, <<Unit("json", st.start, i)>>)
    [] c = "cb" /\ st.depth > 1  -> Res([st EXCEPT !.depth = @ - 1], <<>>)
    [] c = "dq"                 -> Res([st EXCEPT !.mode = "member"], <<>>)
    [] c = "?"                  -> Res(Dead, <<Unit("error", st.start, i)>>)
    [] OTHER                    -> Res(st, <<>>)

\* Inside a string: one of an object, or a top-level JSON string unit.
InQuoted(st, c, i) ==
  CASE c # "dq"                         -> Res(st, <<>>)
    [] c = "dq" /\ st.mode = "member"    -> Res([st EXCEPT !.mode = "object"], <<>>)
    [] OTHER                             -> Res(After, <<Unit("json", st.start, i)>>)

\* After a JSON value: blanks, a newline or another value; else an error.
InAfter(c, i) ==
  CASE c = "sp"          -> Res(After, <<>>)
    [] c = "nl"          -> Res(Idle, <<>>)
    [] c \in {"ob", "dq"} -> InIdle(c, i)
    [] OTHER             -> Res(Dead, <<Unit("error", i, i)>>)

Feed(st, c, i) ==
  CASE st.mode = "idle"                -> InIdle(c, i)
    [] st.mode = "legacy"              -> InLegacy(st, c, i)
    [] st.mode = "object"              -> InObject(st, c, i)
    [] st.mode \in {"member", "string"} -> InQuoted(st, c, i)
    [] st.mode = "after"               -> InAfter(c, i)
    [] st.mode = "dead"                -> Res(st, <<>>)

\* Feed character i of s to the state of acc, appending the units it completes.
Step(acc, s, i) ==
  LET x == Feed(acc.st, s[i], i) IN Res(x.st, acc.out \o x.out)

\* The state and units after each of the first k of n characters from position from.
Trace(r, s, from, n) ==
  LET f[k \in 0..n] == IF k = 0 THEN r ELSE Step(f[k - 1], s, from + k - 1)
  IN  f

\* Feed the characters from..to of s, starting from the state and units of r.
Scan(r, s, from, to) == Trace(r, s, from, to - from + 1)[to - from + 1]

-----------------------------------------------------------------------------
VARIABLES
  input,  \* the bytes the client writes, in order
  got,    \* how many of them the framer has received
  state,  \* the framer's state
  units,  \* the units it has delivered to the parser
  eof     \* whether the stream has been closed

vars == <<input, got, state, units, eof>>

Init ==
  /\ input \in Streams
  /\ got = 0
  /\ state = Idle
  /\ units = <<>>
  /\ eof = FALSE

\* A read returns the next n bytes, however the writes were split; the
\* framer consumes all of them.
Recv ==
  /\ ~eof
  /\ \E n \in 1..MaxChunk :
       LET r == Scan(Res(state, units), input, got + 1, got + n)
       IN  /\ got + n <= Len(input)
           /\ got' = got + n
           /\ state' = r.st
           /\ units' = r.out
  /\ UNCHANGED <<input, eof>>

\* Fault variant: an unterminated last unit is delivered at end of stream.
EofFlush ==
  /\ ~eof
  /\ got = Len(input)
  /\ eof' = TRUE
  /\ units' = IF state.mode = "legacy" THEN Append(units, Unit("legacy", state.start, got))
                                    ELSE units
  /\ state' = Idle
  /\ UNCHANGED <<input, got>>

\* End of stream: a partial unit is discarded.
Eof ==
  /\ ~eof
  /\ got = Len(input)
  /\ eof' = TRUE
  /\ state' = Idle
  /\ UNCHANGED <<input, got, units>>

Next == Recv \/ Eof

Spec == Init /\ [][Next]_vars

-----------------------------------------------------------------------------
(* Type invariant: the stream, the bytes received, the framer state and the
   units delivered keep their shapes through every read and the EOF. *)
TypeOK ==
  /\ input \in Seq(Chars)
  /\ got \in 0..Len(input)
  /\ state \in [mode : Modes, depth : Nat, start : 0..Len(input)]
  /\ units \in Seq([kind : Kinds, from : 1..Len(input), to : 0..Len(input)])
  /\ eof \in BOOLEAN

(***************************************************************************)
(* A unit reaches the parser only once it is complete, however the reads  *)
(* cut the stream: a legacy unit once the newline ending its line has     *)
(* arrived, a JSON unit once the brace or quote closing it has; a JSON    *)
(* unit opens with a brace or a quote.  So a partial last unit is never   *)
(* delivered, at end of stream included (spec 4.1).                       *)
(***************************************************************************)
UnitsDelimited ==
  \A k \in 1..Len(units) :
    /\ units[k].kind = "legacy" =>
         units[k].to < got /\ input[units[k].to + 1] = "nl"
    /\ units[k].kind = "json" =>
         \/ input[units[k].from] = "ob" /\ input[units[k].to] = "cb"
         \/ /\ input[units[k].from] = "dq" /\ input[units[k].to] = "dq"
            /\ units[k].from < units[k].to

(***************************************************************************)
(* Spec 4.1: units are delimited by a newline, so no two requests come     *)
(* from one line (a syntax error, which ends the framing, aside).          *)
(***************************************************************************)
UnitPerLine ==
  \A k \in 1..(Len(units) - 1) :
    units[k + 1].kind # "error"
      => \E r \in (units[k].to + 1)..(units[k + 1].from - 1) : input[r] = "nl"

=============================================================================
