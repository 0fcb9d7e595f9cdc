--------------------------- MODULE FramerReference ---------------------------
(***************************************************************************)
(* A reference for the Line Framer, written by positions over a whole     *)
(* stream rather than as a state machine: where each unit starts and ends. *)
(* It is recursive, so it lives apart from LineFramer, whose state machine *)
(* the proofs reason about; TLC compares the two on every run.            *)
(***************************************************************************)
EXTENDS LineFramer, FiniteSets, FiniteSetsExt

(***************************************************************************)
(* Reference: the complete units of a whole stream s, by positions.        *)
(***************************************************************************)
\* The least position in from..to satisfying P, or 0.
FirstWhere(from, to, P(_)) ==
  LET I == {r \in from..to : P(r)} IN IF I = {} THEN 0 ELSE Min(I)

\* Position q of s lies inside a string of the object opened at p.
InStr(s, p, q) == Cardinality({r \in (p + 1)..(q - 1) : s[r] = "dq"}) % 2 = 1

\* Nesting depth of the object opened at p, after position q.
Depth(s, p, q) ==
  Cardinality({r \in p..q : s[r] = "ob" /\ ~InStr(s, p, r)})
    - Cardinality({r \in p..q : s[r] = "cb" /\ ~InStr(s, p, r)})

RECURSIVE RefFrom(_, _), RefAfter(_, _), RefObject(_, _), RefString(_, _)

\* Units from position i on, between units.
RefFrom(s, i) ==
  LET p == FirstWhere(i, Len(s), LAMBDA r : s[r] \notin Blank)
      e == FirstWhere(p + 1, Len(s), LAMBDA r : s[r] = "nl")
  IN  CASE p = 0         -> <<>>
        [] s[p] = "ob"    -> RefObject(s, p)
        [] s[p] = "dq"   -> RefString(s, p)
        [] e = 0         -> <<>>
        [] OTHER         -> <<Unit("legacy", p, e - 1)>> \o RefFrom(s, e + 1)

\* The object opened at p ends at the first '}' out of strings that brings
\* the depth back to 0, unless a forbidden character comes first.
RefObject(s, p) ==
  LET e == FirstWhere(p + 1, Len(s),
                      LAMBDA r : s[r] = "cb" /\ ~InStr(s, p, r) /\ Depth(s, p, r) = 0)
      b == FirstWhere(p + 1, Len(s), LAMBDA r : s[r] = "?" /\ ~InStr(s, p, r))
  IN  CASE b # 0 /\ (e = 0 \/ b < e) -> <<Unit("error", p, b)>>
        [] e = 0                     -> <<>>
        [] OTHER                     -> <<Unit("json", p, e)>> \o RefAfter(s, e + 1)

RefString(s, p) ==
  LET e == FirstWhere(p + 1, Len(s), LAMBDA r : s[r] = "dq")
  IN  IF e = 0 THEN <<>> ELSE <<Unit("json", p, e)>> \o RefAfter(s, e + 1)

\* Units after a JSON value that ended before position i.
RefAfter(s, i) ==
  LET p == FirstWhere(i, Len(s), LAMBDA r : s[r] # "sp")
  IN  CASE p = 0                  -> <<>>
        [] s[p] = "nl"            -> RefFrom(s, p + 1)
        [] s[p] \in {"ob", "dq"}   -> RefFrom(s, p)
        [] OTHER                  -> <<Unit("error", p, p)>>

\* Each test's stream frames into the units its test expects replies for.
ASSUME TestsFramed ==
  {[k \in DOMAIN RefFrom(t, 1) |-> RefFrom(t, 1)[k].kind] : t \in TestStreams}
    = {<<"json">>, <<"json", "json">>, <<"error">>,
       <<"legacy", "json", "legacy", "json">>}

-----------------------------------------------------------------------------
(***************************************************************************)
(* However the writes were cut into reads, the units delivered are exactly *)
(* the complete units of the bytes received so far: a JSON value split     *)
(* over lines or reads is delivered once and whole, two values on a line  *)
(* are two units, braces inside strings do not close an object, nothing    *)
(* is framed after a syntax error, and a partial last unit is never        *)
(* delivered (spec 4.1; test_b3270_json_split, test_b3270_json_multiple,   *)
(* test_b3270_json_syntax_error).                                          *)
(***************************************************************************)
FramedAsReference == units = RefFrom(SubSeq(input, 1, got), 1)

=============================================================================
