-------------------------- MODULE LineFramerProofs --------------------------
(***************************************************************************)
(* The framer's type invariant, and that every unit it delivers is        *)
(* delimited in the bytes received, for every MaxLen and MaxChunk.        *)
(*                                                                         *)
(* A read feeds up to MaxChunk characters through Trace, a function        *)
(* defined by recursion on the number of characters, so the proof first   *)
(* shows that Trace satisfies its defining equation and then that every   *)
(* prefix of a read leaves a well-formed state.  Both are inductions on a *)
(* natural number, argued by a least counterexample: the naturals are     *)
(* well-founded (WellFoundedInduction), so a nonempty set of bad indices  *)
(* has a least one, whose predecessor is good.                            *)
(*                                                                         *)
(* TypeOK is not inductive: it allows the depth of an open object to be 0 *)
(* (where the next "cb" would make it negative) and units and starts past  *)
(* the bytes received.  FramerOK adds what the framer keeps: an open      *)
(* object has depth at least 1, and every position in the state and in    *)
(* the units is one already received.                                     *)
(***************************************************************************)
EXTENDS LineFramer, SequenceTheorems, WellFoundedInduction, TLAPS

(* Every nonempty set of naturals has a least element. *)
LEMMA LeastElement ==
  ASSUME NEW T \in SUBSET Nat, T # {}
  PROVE  \E m \in T : \A k \in T : m <= k
<1>1. \E m \in T : \A k \in T : ~(<<k, m>> \in OpToRel(<, Nat))
  BY NatLessThanWellFounded, WFMin
<1>2. \A k, m \in Nat : k < m => <<k, m>> \in OpToRel(<, Nat)
  BY Zenon DEF OpToRel
<1>3. PICK m \in T : \A k \in T : ~(<<k, m>> \in OpToRel(<, Nat))
  BY <1>1, Zenon
<1>4. \A k \in T : ~(k < m)
  BY <1>2, <1>3, Zenon
<1> QED
  BY <1>4

-----------------------------------------------------------------------------
(***************************************************************************)
(* Well-formed framer states and units, once i characters are received.    *)
(***************************************************************************)
UnitT(i) == [kind : Kinds, from : 1..i, to : 0..i]

StateOK(st, i) ==
  /\ st \in [mode : Modes, depth : Nat, start : 0..i]
  /\ st.mode \in {"object", "member"} => st.depth # 0
  /\ st.mode \in {"legacy", "object", "member", "string"} => st.start # 0

Good(acc, i) == StateOK(acc.st, i) /\ acc.out \in Seq(UnitT(i))

(* A state or units well-formed after i characters stay so after more. *)
LEMMA Widen ==
  ASSUME NEW i \in Nat, NEW j \in Nat, i <= j
  PROVE  /\ \A st : StateOK(st, i) => StateOK(st, j)
         /\ Seq(UnitT(i)) \subseteq Seq(UnitT(j))
<1>1. UnitT(i) \subseteq UnitT(j)
  BY DEF UnitT
<1> QED
  BY <1>1 DEF StateOK

(* Feeding the i-th character keeps the state well-formed, and the units  *)
(* it completes lie within the first i characters.                         *)
LEMMA FeedOK ==
  ASSUME NEW st, NEW c \in Chars, NEW i \in Nat \ {0}, StateOK(st, i - 1)
  PROVE  /\ StateOK(Feed(st, c, i).st, i)
         /\ Feed(st, c, i).out \in Seq(UnitT(i))
<1>a. st.depth \in Nat /\ (st.mode \in {"object", "member"} => st.depth # 0)
  BY DEF StateOK
<1>0. /\ StateOK(st, i)
      /\ <<>> \in Seq(UnitT(i))
      /\ \A u \in UnitT(i) : <<u>> \in Seq(UnitT(i))
      /\ StateOK(Idle, i) /\ StateOK(After, i) /\ StateOK(Dead, i)
  <2>1. i - 1 \in Nat /\ i - 1 <= i
    OBVIOUS
  <2>2. StateOK(st, i)
    BY <2>1, Widen
  <2>3. <<>> \in Seq(UnitT(i))
    BY EmptySeq
  <2>4. \A u \in UnitT(i) : <<u>> \in Seq(UnitT(i))
    BY EmptySeq, AppendProperties
  <2> QED
    BY <2>2, <2>3, <2>4 DEF StateOK, Idle, After, Dead, Modes
<1>1. /\ StateOK(InIdle(c, i).st, i)
      /\ InIdle(c, i).out \in Seq(UnitT(i))
  <2>1. StateOK([mode |-> "object", depth |-> 1, start |-> i], i)
        /\ StateOK([mode |-> "string", depth |-> 0, start |-> i], i)
        /\ StateOK([mode |-> "legacy", depth |-> 0, start |-> i], i)
    BY DEF StateOK, Modes
  <2> QED
    BY <1>0, <2>1 DEF InIdle, Res
<1>2. CASE st.mode = "idle"
  BY <1>1, <1>2 DEF Feed
<1>3. CASE st.mode = "legacy"
  <2>1. Unit("legacy", st.start, i - 1) \in UnitT(i)
    BY <1>3 DEF StateOK, Unit, UnitT, Kinds
  <2> QED
    BY <1>0, <1>3, <2>1 DEF Feed, InLegacy, Res
<1>4. CASE st.mode = "object"
  <2>1. /\ Unit("json", st.start, i) \in UnitT(i)
        /\ Unit("error", st.start, i) \in UnitT(i)
    BY <1>4 DEF StateOK, Unit, UnitT, Kinds
  <2>2. st \in [mode : Modes, depth : Nat, start : 0..i] /\ st.start # 0
    BY <1>0, <1>4 DEF StateOK
  <2>3. Feed(st, c, i) = InObject(st, c, i)
    BY <1>4 DEF Feed
  <2>4. CASE c = "cb" /\ st.depth = 1
    <3>1. InObject(st, c, i) = Res(After, <<Unit("json", st.start, i)>>)
      BY <2>4 DEF InObject
    <3> QED
      BY <1>0, <2>1, <2>3, <3>1 DEF Res
  <2>5. CASE c = "cb" /\ st.depth # 1
    <3>1. st.depth > 1
      BY <1>a, <1>4, <2>5
    <3>2. InObject(st, c, i) = Res([st EXCEPT !.depth = @ - 1], <<>>)
      BY <2>5, <3>1 DEF InObject
    <3>3. /\ Feed(st, c, i).st = [st EXCEPT !.depth = @ - 1]
          /\ Feed(st, c, i).out = <<>>
      BY <2>3, <3>2 DEF Res
    <3>5. /\ [st EXCEPT !.depth = @ - 1] \in [mode : Modes, depth : Nat, start : 0..i]
          /\ [st EXCEPT !.depth = @ - 1].mode = "object"
          /\ [st EXCEPT !.depth = @ - 1].depth # 0
          /\ [st EXCEPT !.depth = @ - 1].start # 0
      BY <1>4, <2>2, <3>1
    <3>6. StateOK([st EXCEPT !.depth = @ - 1], i)
      BY <3>5 DEF StateOK
    <3> QED
      BY <1>0, <3>3, <3>6
  <2>6. CASE c = "ob"
    <3>1. /\ Feed(st, c, i).st = [st EXCEPT !.depth = @ + 1]
          /\ Feed(st, c, i).out = <<>>
      BY <2>3, <2>6 DEF InObject, Res
    <3>2. /\ [st EXCEPT !.depth = @ + 1] \in [mode : Modes, depth : Nat, start : 0..i]
          /\ [st EXCEPT !.depth = @ + 1].mode = "object"
          /\ [st EXCEPT !.depth = @ + 1].depth # 0
          /\ [st EXCEPT !.depth = @ + 1].start # 0
      BY <1>4, <2>2
    <3>3. StateOK([st EXCEPT !.depth = @ + 1], i)
      BY <3>2 DEF StateOK
    <3> QED
      BY <1>0, <3>1, <3>3
  <2>7. CASE c = "dq"
    <3>1. /\ Feed(st, c, i).st = [st EXCEPT !.mode = "member"]
          /\ Feed(st, c, i).out = <<>>
      BY <2>3, <2>7 DEF InObject, Res
    <3>2. /\ [st EXCEPT !.mode = "member"] \in [mode : Modes, depth : Nat, start : 0..i]
          /\ [st EXCEPT !.mode = "member"].mode = "member"
          /\ [st EXCEPT !.mode = "member"].depth # 0
          /\ [st EXCEPT !.mode = "member"].start # 0
      BY <1>a, <1>4, <2>2 DEF Modes
    <3>3. StateOK([st EXCEPT !.mode = "member"], i)
      BY <3>2 DEF StateOK
    <3> QED
      BY <1>0, <3>1, <3>3
  <2>8. CASE c = "?"
    <3>1. Feed(st, c, i) = Res(Dead, <<Unit("error", st.start, i)>>)
      BY <2>3, <2>8 DEF InObject
    <3> QED
      BY <1>0, <2>1, <3>1 DEF Res
  <2>9. CASE c \notin {"ob", "cb", "dq", "?"}
    <3>1. Feed(st, c, i) = Res(st, <<>>)
      BY <2>3, <2>9 DEF InObject
    <3> QED
      BY <1>0, <3>1 DEF Res
  <2> QED
    BY <2>4, <2>5, <2>6, <2>7, <2>8, <2>9
<1>5. CASE st.mode \in {"member", "string"}
  <2>1. Unit("json", st.start, i) \in UnitT(i)
    BY <1>5 DEF StateOK, Unit, UnitT, Kinds
  <2>2. st.mode = "member" => StateOK([st EXCEPT !.mode = "object"], i)
    BY <1>0 DEF StateOK, Modes
  <2> QED
    BY <1>0, <1>5, <2>1, <2>2 DEF Feed, InQuoted, Res
<1>6. CASE st.mode = "after"
  <2>1. Unit("error", i, i) \in UnitT(i)
    BY DEF Unit, UnitT, Kinds
  <2> QED
    BY <1>0, <1>1, <1>6, <2>1 DEF Feed, InAfter, Res
<1>7. CASE st.mode = "dead"
  BY <1>0, <1>7 DEF Feed, Res
<1> QED
  BY <1>0, <1>2, <1>3, <1>4, <1>5, <1>6, <1>7 DEF StateOK, Modes

(* One step of a read keeps the state and the units well-formed. *)
LEMMA StepOK ==
  ASSUME NEW acc, NEW s, NEW i \in Nat \ {0}, s[i] \in Chars, Good(acc, i - 1)
  PROVE  Good(Step(acc, s, i), i)
<1>1. /\ StateOK(Feed(acc.st, s[i], i).st, i)
      /\ Feed(acc.st, s[i], i).out \in Seq(UnitT(i))
  BY FeedOK DEF Good
<1>2. acc.out \in Seq(UnitT(i))
  BY Widen DEF Good
<1>3. acc.out \o Feed(acc.st, s[i], i).out \in Seq(UnitT(i))
  BY <1>1, <1>2, ConcatProperties
<1> QED
  BY <1>1, <1>3 DEF Step, Good, Res

-----------------------------------------------------------------------------
(***************************************************************************)
(* Trace, defined by recursion on the number of characters, satisfies its *)
(* defining equation: for every n some function on 0..n does.              *)
(***************************************************************************)
TraceEq(g, r, s, from, m) ==
  g = [k \in 0..m |-> IF k = 0 THEN r ELSE Step(g[k - 1], s, from + k - 1)]

LEMMA TraceDef ==
  ASSUME NEW r, NEW s, NEW from, NEW n \in Nat
  PROVE  TraceEq(Trace(r, s, from, n), r, s, from, n)
<1>1. \A m \in Nat : \E g : TraceEq(g, r, s, from, m)
  <2> DEFINE Bad == {m \in Nat : ~\E g : TraceEq(g, r, s, from, m)}
  <2> SUFFICES Bad = {}
    OBVIOUS
  <2>1. ASSUME Bad # {} PROVE FALSE
    <3>1. PICK m \in Bad : \A k \in Bad : m <= k
      BY <2>1, LeastElement
    <3>2. m # 0
      <4>1. TraceEq([k \in 0..0 |-> r], r, s, from, 0)
        BY DEF TraceEq
      <4> QED
        BY <3>1, <4>1
    <3>3. PICK g : TraceEq(g, r, s, from, m - 1)
      BY <3>1, <3>2
    <3> DEFINE h == [k \in 0..m |-> IF k = m THEN Step(g[m - 1], s, from + m - 1)
                                             ELSE g[k]]
    <3>4. TraceEq(h, r, s, from, m)
      BY <3>1, <3>2, <3>3 DEF TraceEq
    <3> QED
      BY <3>1, <3>4
  <2> QED
    BY <2>1
<1>2. \E g : TraceEq(g, r, s, from, n)
  BY <1>1
<1> QED
  BY <1>2, Zenon DEF Trace, TraceEq

(***************************************************************************)
(* Every prefix of a read of well-formed characters leaves the state and   *)
(* units well-formed: after k of the characters b+1..b+n, they are so for  *)
(* b+k characters.                                                         *)
(***************************************************************************)
LEMMA TraceOK ==
  ASSUME NEW r, NEW s, NEW b \in Nat, NEW n \in Nat, Good(r, b),
         \A j \in (b + 1)..(b + n) : s[j] \in Chars
  PROVE  \A k \in 0..n : Good(Trace(r, s, b + 1, n)[k], b + k)
<1> DEFINE T == Trace(r, s, b + 1, n)
<1>1. TraceEq(T, r, s, b + 1, n)
  BY TraceDef
<1> DEFINE Bad == {k \in 0..n : ~Good(T[k], b + k)}
<1> SUFFICES Bad = {}
  OBVIOUS
<1>2. ASSUME Bad # {} PROVE FALSE
  <2>0. Bad \in SUBSET Nat
    OBVIOUS
  <2>1. PICK k \in Bad : \A j \in Bad : k <= j
    BY <1>2, <2>0, LeastElement DEF Bad
  <2>2. k # 0
    BY <1>1, <2>1 DEF TraceEq
  <2>3. Good(T[k - 1], (b + k) - 1)
    BY <2>1, <2>2
  <2>4. T[k] = Step(T[k - 1], s, b + k)
    BY <1>1, <2>1, <2>2 DEF TraceEq
  <2>5. Good(Step(T[k - 1], s, b + k), b + k)
    BY <2>1, <2>2, <2>3, StepOK
  <2> QED
    BY <2>1, <2>4, <2>5
<1> QED
  BY <1>2

(* A read of the characters b+1..b+n leaves them well-formed for b+n. *)
LEMMA ScanOK ==
  ASSUME NEW r, NEW s, NEW b \in Nat, NEW n \in Nat, Good(r, b),
         \A j \in (b + 1)..(b + n) : s[j] \in Chars
  PROVE  Good(Scan(r, s, b + 1, b + n), b + n)
<1>1. Scan(r, s, b + 1, b + n) = Trace(r, s, b + 1, n)[n]
  BY DEF Scan
<1>2. \A k \in 0..n : Good(Trace(r, s, b + 1, n)[k], b + k)
  BY TraceOK
<1> QED
  BY <1>1, <1>2

-----------------------------------------------------------------------------
(***************************************************************************)
(* Where units begin and end: an open object or string starts at the brace *)
(* or quote that opened it, and every unit completed is delimited.         *)
(***************************************************************************)
StateDelim(st, s) ==
  /\ st.mode \in {"object", "member"} => s[st.start] = "ob"
  /\ st.mode = "string" => s[st.start] = "dq"

UnitDelim(u, s, i) ==
  /\ u.kind = "legacy" => u.to < i /\ s[u.to + 1] = "nl"
  /\ u.kind = "json" =>
       \/ s[u.from] = "ob" /\ s[u.to] = "cb"
       \/ s[u.from] = "dq" /\ s[u.to] = "dq" /\ u.from < u.to

Delim(acc, s, i) ==
  /\ StateDelim(acc.st, s)
  /\ \A k \in DOMAIN acc.out : UnitDelim(acc.out[k], s, i)

(* The one-unit outputs of Feed, and the empty one, as sets of units. *)
LEMMA OneUnit ==
  ASSUME NEW u, NEW s, NEW i
  PROVE  /\ (\A k \in DOMAIN <<u>> : UnitDelim(<<u>>[k], s, i)) <=> UnitDelim(u, s, i)
         /\ \A k \in DOMAIN <<>> : UnitDelim(<<>>[k], s, i)
OBVIOUS

(* Feeding the i-th character keeps open units anchored at their opening  *)
(* character, and completes only delimited units.                          *)
LEMMA FeedDelim ==
  ASSUME NEW st, NEW s, NEW i \in Nat \ {0}, s[i] \in Chars,
         StateOK(st, i - 1), StateDelim(st, s)
  PROVE  /\ StateDelim(Feed(st, s[i], i).st, s)
         /\ \A k \in DOMAIN Feed(st, s[i], i).out :
              UnitDelim(Feed(st, s[i], i).out[k], s, i)
<1> DEFINE c == s[i]
<1>0. /\ st \in [mode : Modes, depth : Nat, start : 0..(i - 1)]
      /\ st.mode \in {"object", "member"} => st.depth # 0
      /\ st.mode \in {"legacy", "object", "member", "string"} => st.start # 0
  BY DEF StateOK
<1>1. /\ StateDelim(Idle, s) /\ StateDelim(After, s) /\ StateDelim(Dead, s)
      /\ StateDelim(InIdle(c, i).st, s)
      /\ InIdle(c, i).out = <<>>
  BY DEF StateDelim, Idle, After, Dead, InIdle, Res, Blank
<1>2. CASE st.mode = "idle"
  BY <1>1, <1>2, OneUnit DEF Feed
<1>3. CASE st.mode = "legacy"
  <2>1. c = "nl" => UnitDelim(Unit("legacy", st.start, i - 1), s, i)
    BY DEF UnitDelim, Unit
  <2>2. CASE c = "nl"
    BY <1>1, <1>3, <2>1, <2>2, OneUnit DEF Feed, InLegacy, Res
  <2>3. CASE c # "nl"
    BY <1>3, <2>3, OneUnit DEF Feed, InLegacy, Res, StateDelim
  <2> QED
    BY <2>2, <2>3
<1>4. CASE st.mode = "object"
  <2>1. Feed(st, c, i) = InObject(st, c, i)
    BY <1>4 DEF Feed
  <2>2. CASE c = "cb" /\ st.depth = 1
    <3>1. InObject(st, c, i) = Res(After, <<Unit("json", st.start, i)>>)
      BY <2>2 DEF InObject
    <3>2. UnitDelim(Unit("json", st.start, i), s, i)
      BY <1>4, <2>2 DEF UnitDelim, Unit, StateDelim
    <3> QED
      BY <1>1, <2>1, <3>1, <3>2, OneUnit DEF Res
  <2>3. CASE c = "?"
    <3>1. InObject(st, c, i) = Res(Dead, <<Unit("error", st.start, i)>>)
      BY <2>3 DEF InObject
    <3>2. UnitDelim(Unit("error", st.start, i), s, i)
      BY DEF UnitDelim, Unit
    <3> QED
      BY <1>1, <2>1, <3>1, <3>2, OneUnit DEF Res
  <2>4. CASE c = "cb" /\ st.depth # 1
    <3>1. st.depth > 1
      BY <1>0, <1>4, <2>4
    <3>2. InObject(st, c, i) = Res([st EXCEPT !.depth = @ - 1], <<>>)
      BY <2>4, <3>1 DEF InObject
    <3> QED
      BY <1>0, <1>4, <2>1, <3>2, OneUnit DEF Res, StateDelim
  <2>5. CASE c \in {"ob", "dq"}
    <3>1. InObject(st, c, i) \in {Res([st EXCEPT !.depth = @ + 1], <<>>),
                                  Res([st EXCEPT !.mode = "member"], <<>>)}
      BY <2>5 DEF InObject
    <3> QED
      BY <1>0, <1>4, <2>1, <3>1, OneUnit DEF Res, StateDelim
  <2>6. CASE c \notin {"ob", "cb", "dq", "?"}
    <3>1. InObject(st, c, i) = Res(st, <<>>)
      BY <2>6 DEF InObject
    <3> QED
      BY <1>4, <2>1, <3>1, OneUnit DEF Res, StateDelim
  <2> QED
    BY <2>2, <2>3, <2>4, <2>5, <2>6
<1>5. CASE st.mode \in {"member", "string"}
  <2>1. Feed(st, c, i) = InQuoted(st, c, i)
    BY <1>5 DEF Feed
  <2>2. CASE c # "dq"
    BY <2>1, <2>2, OneUnit DEF InQuoted, Res
  <2>3. CASE c = "dq" /\ st.mode = "member"
    <3>1. InQuoted(st, c, i) = Res([st EXCEPT !.mode = "object"], <<>>)
      BY <2>3 DEF InQuoted
    <3> QED
      BY <1>0, <2>1, <2>3, <3>1, OneUnit DEF Res, StateDelim
  <2>4. CASE c = "dq" /\ st.mode = "string"
    <3>1. InQuoted(st, c, i) = Res(After, <<Unit("json", st.start, i)>>)
      BY <2>4 DEF InQuoted
    <3>2. UnitDelim(Unit("json", st.start, i), s, i)
      BY <1>0, <2>4 DEF UnitDelim, Unit, StateDelim
    <3> QED
      BY <1>1, <2>1, <3>1, <3>2, OneUnit DEF Res
  <2> QED
    BY <1>5, <2>2, <2>3, <2>4
<1>6. CASE st.mode = "after"
  <2>1. UnitDelim(Unit("error", i, i), s, i)
    BY DEF UnitDelim, Unit
  <2> QED
    BY <1>1, <1>6, <2>1, OneUnit DEF Feed, InAfter, Res
<1>7. CASE st.mode = "dead"
  BY <1>7, OneUnit DEF Feed, Res, StateDelim
<1> QED
  BY <1>2, <1>3, <1>4, <1>5, <1>6, <1>7 DEF StateOK, Modes

(* Appending delimited units to delimited units gives delimited units. *)
LEMMA ConcatDelim ==
  ASSUME NEW i \in Nat, NEW s, NEW s1 \in Seq(UnitT(i)), NEW s2 \in Seq(UnitT(i)),
         \A k \in DOMAIN s1 : UnitDelim(s1[k], s, i),
         \A k \in DOMAIN s2 : UnitDelim(s2[k], s, i)
  PROVE  \A k \in DOMAIN (s1 \o s2) : UnitDelim((s1 \o s2)[k], s, i)
<1>1. /\ DOMAIN (s1 \o s2) = 1..(Len(s1) + Len(s2))
      /\ \A k \in 1..(Len(s1) + Len(s2)) :
           (s1 \o s2)[k] = IF k <= Len(s1) THEN s1[k] ELSE s2[k - Len(s1)]
  BY ConcatProperties
<1>2. DOMAIN s1 = 1..Len(s1) /\ DOMAIN s2 = 1..Len(s2)
      /\ Len(s1) \in Nat /\ Len(s2) \in Nat
  BY LenProperties
<1> QED
  BY <1>1, <1>2

(* One step of a read keeps open units anchored and the units delimited. *)
LEMMA StepDelim ==
  ASSUME NEW acc, NEW s, NEW i \in Nat \ {0}, s[i] \in Chars,
         Good(acc, i - 1), Delim(acc, s, i - 1)
  PROVE  Delim(Step(acc, s, i), s, i)
<1> DEFINE fx == Feed(acc.st, s[i], i)
           old == acc.out
<1>1. /\ StateDelim(fx.st, s)
      /\ \A k \in DOMAIN fx.out : UnitDelim(fx.out[k], s, i)
  BY FeedDelim DEF Good, Delim
<1>2. /\ fx.out \in Seq(UnitT(i))
      /\ old \in Seq(UnitT(i))
      /\ i - 1 \in Nat /\ i - 1 <= i
  BY FeedOK, Widen DEF Good
<1>3. \A k \in DOMAIN old : UnitDelim(old[k], s, i)
  <2>1. \A k \in DOMAIN old : old[k].to \in Nat
    <3>1. \A k \in 1..Len(old) : old[k] \in UnitT(i)
      BY <1>2, ElementOfSeq
    <3>2. DOMAIN old = 1..Len(old)
      BY <1>2, LenProperties
    <3> QED
      BY <3>1, <3>2 DEF UnitT
  <2> QED
    BY <2>1 DEF Delim, UnitDelim
<1>6. \A k \in DOMAIN (old \o fx.out) : UnitDelim((old \o fx.out)[k], s, i)
  BY <1>1, <1>2, <1>3, ConcatDelim
<1> QED
  BY <1>1, <1>6 DEF Step, Delim, Res

(* Every prefix of a read keeps open units anchored and units delimited. *)
LEMMA TraceDelim ==
  ASSUME NEW r, NEW s, NEW b \in Nat, NEW n \in Nat, Good(r, b), Delim(r, s, b),
         \A j \in (b + 1)..(b + n) : s[j] \in Chars
  PROVE  \A k \in 0..n : Delim(Trace(r, s, b + 1, n)[k], s, b + k)
<1> DEFINE T == Trace(r, s, b + 1, n)
<1>1. TraceEq(T, r, s, b + 1, n)
  BY TraceDef
<1>2. \A k \in 0..n : Good(T[k], b + k)
  BY TraceOK
<1> DEFINE Bad == {k \in 0..n : ~Delim(T[k], s, b + k)}
<1> SUFFICES Bad = {}
  OBVIOUS
<1>3. ASSUME Bad # {} PROVE FALSE
  <2>0. Bad \in SUBSET Nat
    OBVIOUS
  <2>1. PICK k \in Bad : \A j \in Bad : k <= j
    BY <1>3, <2>0, LeastElement DEF Bad
  <2>2. k # 0
    BY <1>1, <2>1 DEF TraceEq
  <2>3. /\ Delim(T[k - 1], s, (b + k) - 1)
        /\ Good(T[k - 1], (b + k) - 1)
    BY <1>2, <2>1, <2>2
  <2>4. T[k] = Step(T[k - 1], s, b + k)
    BY <1>1, <2>1, <2>2 DEF TraceEq
  <2>5. Delim(Step(T[k - 1], s, b + k), s, b + k)
    BY <2>1, <2>2, <2>3, StepDelim
  <2> QED
    BY <2>1, <2>4, <2>5
<1> QED
  BY <1>3

LEMMA ScanDelim ==
  ASSUME NEW r, NEW s, NEW b \in Nat, NEW n \in Nat, Good(r, b), Delim(r, s, b),
         \A j \in (b + 1)..(b + n) : s[j] \in Chars
  PROVE  Delim(Scan(r, s, b + 1, b + n), s, b + n)
<1>1. Scan(r, s, b + 1, b + n) = Trace(r, s, b + 1, n)[n]
  BY DEF Scan
<1>2. \A k \in 0..n : Delim(Trace(r, s, b + 1, n)[k], s, b + k)
  BY TraceDelim
<1> QED
  BY <1>1, <1>2

-----------------------------------------------------------------------------
(***************************************************************************)
(* The inductive invariant: the input is a stream of characters, and the  *)
(* state and units are well-formed for the bytes received so far.          *)
(***************************************************************************)
FramerOK ==
  /\ input \in Seq(Chars)
  /\ got \in 0..Len(input)
  /\ eof \in BOOLEAN
  /\ StateOK(state, got)
  /\ units \in Seq(UnitT(got))

LEMMA FramerTyped == FramerOK => TypeOK
<1> SUFFICES ASSUME FramerOK PROVE TypeOK
  OBVIOUS
<1>1. got \in Nat /\ Len(input) \in Nat /\ got <= Len(input)
  BY LenProperties DEF FramerOK
<1>2. /\ StateOK(state, Len(input))
      /\ units \in Seq(UnitT(Len(input)))
  BY <1>1, Widen DEF FramerOK
<1> QED
  BY <1>2 DEF FramerOK, TypeOK, StateOK, UnitT

(* Every stream the client may write is a sequence of characters. *)
LEMMA StreamsChars == Streams \subseteq Seq(Chars)
<1>1. \A n \in 0..MaxLen : [1..n -> Chars] \subseteq Seq(Chars)
  BY MaxLenAssumption, SeqDef
<1>2. /\ Cmd \in Seq(Chars) /\ MultilineCmd \in Seq(Chars)
      /\ Run \in Seq(Chars)
  BY DEF Cmd, MultilineCmd, Run, Chars
<1>3. TestStreams \subseteq Seq(Chars)
  BY <1>2, ConcatProperties
     DEF TestStreams, S3270Streams, B3270Streams, MultilineStream,
         ModeSwitchStream, JsonSyntaxStream, SplitStream, MultipleStream,
         SyntaxErrorStream, Chars
<1> QED
  BY <1>1, <1>3 DEF Streams

LEMMA InitFramer == Init => FramerOK
<1> SUFFICES ASSUME Init PROVE FramerOK
  OBVIOUS
<1>0. got = 0 /\ state = Idle /\ units = <<>> /\ eof \in BOOLEAN
  BY DEF Init
<1>1. input \in Seq(Chars) /\ Len(input) \in Nat
  BY StreamsChars, LenProperties DEF Init
<1>2. <<>> \in Seq(UnitT(0))
  BY EmptySeq
<1>3. StateOK(state, got)
  BY <1>0 DEF StateOK, Idle, Modes
<1>4. got \in 0..Len(input)
  BY <1>0, <1>1
<1> QED
  BY <1>0, <1>1, <1>2, <1>3, <1>4, Zenon DEF FramerOK

LEMMA NextFramer == FramerOK /\ [Next]_vars => FramerOK'
<1> SUFFICES ASSUME FramerOK, [Next]_vars PROVE FramerOK'
  OBVIOUS
<1>0. Len(input) \in Nat /\ \A j \in 1..Len(input) : input[j] \in Chars
  BY LenProperties DEF FramerOK
<1>1. CASE Recv
  <2>1. PICK n \in 1..MaxChunk :
          /\ got + n <= Len(input)
          /\ got' = got + n
          /\ state' = Scan(Res(state, units), input, got + 1, got + n).st
          /\ units' = Scan(Res(state, units), input, got + 1, got + n).out
    BY <1>1 DEF Recv
  <2>2. Good(Res(state, units), got)
    BY DEF FramerOK, Good, Res
  <2>3. got \in Nat /\ n \in Nat /\ \A j \in (got + 1)..(got + n) : input[j] \in Chars
    BY <1>0, <2>1, MaxLenAssumption DEF FramerOK
  <2>4. Good(Scan(Res(state, units), input, got + 1, got + n), got + n)
    BY <2>2, <2>3, ScanOK
  <2>5. StateOK(state', got') /\ units' \in Seq(UnitT(got'))
    BY <2>1, <2>4 DEF Good
  <2> QED
    BY <1>0, <1>1, <2>1, <2>3, <2>5 DEF Recv, FramerOK
<1>2. CASE Eof
  BY <1>2 DEF Eof, FramerOK, StateOK, Idle, Modes
<1>3. CASE UNCHANGED vars
  BY <1>3 DEF vars, FramerOK
<1> QED
  BY <1>1, <1>2, <1>3 DEF Next

-----------------------------------------------------------------------------
(***************************************************************************)
(* The framer's type invariant holds for every MaxLen and MaxChunk: the    *)
(* depth of an open object never goes negative (a closing brace at depth  *)
(* 1 ends the unit), and every unit and unit start the framer records     *)
(* lies within the bytes received, however the reads cut the stream.      *)
(***************************************************************************)
THEOREM TypeOKHolds == Spec => []TypeOK
<1>1. Init => FramerOK
  BY InitFramer
<1>2. FramerOK /\ [Next]_vars => FramerOK'
  BY NextFramer
<1>3. FramerOK => TypeOK
  BY FramerTyped
<1> QED
  BY <1>1, <1>2, <1>3, PTL DEF Spec

-----------------------------------------------------------------------------
(***************************************************************************)
(* UnitsDelimited is not inductive either: whether the brace or quote a   *)
(* completed JSON unit starts with is the one that opened it depends on    *)
(* the open unit's start.  FramerDelim adds that an open object or string *)
(* starts at its opening character.                                        *)
(***************************************************************************)
FramerDelim == Delim(Res(state, units), input, got)

LEMMA InitDelim == Init => FramerDelim
BY DEF Init, FramerDelim, Delim, StateDelim, Idle, Res

LEMMA NextDelim == FramerOK /\ FramerDelim /\ [Next]_vars => FramerDelim'
<1> SUFFICES ASSUME FramerOK, FramerDelim, [Next]_vars PROVE FramerDelim'
  OBVIOUS
<1>0. Len(input) \in Nat /\ \A j \in 1..Len(input) : input[j] \in Chars
  BY LenProperties DEF FramerOK
<1>1. CASE Recv
  <2>1. PICK n \in 1..MaxChunk :
          /\ got + n <= Len(input)
          /\ got' = got + n
          /\ state' = Scan(Res(state, units), input, got + 1, got + n).st
          /\ units' = Scan(Res(state, units), input, got + 1, got + n).out
    BY <1>1 DEF Recv
  <2>2. Good(Res(state, units), got)
    BY DEF FramerOK, Good, Res
  <2>3. got \in Nat /\ n \in Nat /\ \A j \in (got + 1)..(got + n) : input[j] \in Chars
    BY <1>0, <2>1, MaxLenAssumption DEF FramerOK
  <2>4. Delim(Scan(Res(state, units), input, got + 1, got + n), input, got + n)
    BY <2>2, <2>3, ScanDelim DEF FramerDelim
  <2> QED
    BY <1>1, <2>1, <2>4 DEF Recv, FramerDelim, Delim, Res
<1>2. CASE Eof
  BY <1>2 DEF Eof, FramerDelim, Delim, StateDelim, Idle, Res
<1>3. CASE UNCHANGED vars
  BY <1>3 DEF vars, FramerDelim
<1> QED
  BY <1>1, <1>2, <1>3 DEF Next

(***************************************************************************)
(* For every MaxLen and MaxChunk, the framer hands the parser only         *)
(* complete units: a legacy unit once its newline has arrived, a JSON unit *)
(* once the brace or quote closing the one it opened with has; no partial *)
(* last unit is delivered, however the reads cut the stream.               *)
(***************************************************************************)
THEOREM UnitsDelimitedHolds == Spec => []UnitsDelimited
<1>1. Init => FramerOK /\ FramerDelim
  BY InitFramer, InitDelim
<1>2. FramerOK /\ FramerDelim /\ [Next]_vars => (FramerOK /\ FramerDelim)'
  BY NextFramer, NextDelim
<1>3. FramerOK /\ FramerDelim => UnitsDelimited
  <2> SUFFICES ASSUME FramerOK, FramerDelim PROVE UnitsDelimited
    OBVIOUS
  <2>1. DOMAIN units = 1..Len(units)
    BY DEF FramerOK
  <2> QED
    BY <2>1 DEF FramerDelim, Delim, UnitDelim, Res, UnitsDelimited
<1> QED
  BY <1>1, <1>2, <1>3, PTL DEF Spec
=============================================================================
