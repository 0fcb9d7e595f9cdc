------------------------ MODULE ScriptChannelProofs ------------------------
(***************************************************************************)
(* Proofs about ScriptChannel, for every dialect and every MaxUnits.       *)
(*                                                                         *)
(* TypeOK and AnsweredOnce are not inductive by themselves: the bound on   *)
(* rcvd needs Len(out) <= MaxUnits, which follows from the conservation    *)
(* law Len(out) + Cardinality(running) = nread, and AnsweredOnce needs the *)
(* in-flight set to lie below nread, so that a freshly read unit is        *)
(* neither answered nor running.  IInv collects these facts.               *)
(***************************************************************************)
EXTENDS ScriptChannel, FiniteSetTheorems, SequenceTheorems, TLAPS

IInv ==
  /\ TypeOK
  /\ nread <= Len(sent)
  /\ running \subseteq 1..nread
  /\ AnsweredOnce
  /\ ReplyConservation
  /\ rcvd <= Len(out)

-----------------------------------------------------------------------------
(* The reply constructors build well-typed replies to the given request.  *)
LEMMA ReplyTyping ==
  ASSUME NEW k \in 1..MaxUnits, NEW u, NEW ok \in BOOLEAN
  PROVE  /\ ResultReply(k, u, ok) \in Replies /\ ResultReply(k, u, ok).req = k
         /\ SemanticReply(k) \in Replies /\ SemanticReply(k).req = k
         /\ SyntaxReply(k) \in Replies /\ SyntaxReply(k).req = k
BY DEF ResultReply, SemanticReply, SyntaxReply, Reply, Replies, Shapes

(* The in-flight set is a finite set of request numbers. *)
LEMMA RunningFinite ==
  ASSUME NEW R \in SUBSET (1..MaxUnits)
  PROVE  IsFiniteSet(R) /\ Cardinality(R) \in Nat
<1>1. IsFiniteSet(1..MaxUnits)
  BY MaxUnitsAssumption, FS_Interval
<1>2. IsFiniteSet(R)
  BY <1>1, FS_Subset
<1> QED
  BY <1>2, FS_CardinalityType

(* Every unit a client of either dialect may send is a unit. *)
LEMMA InputsTyped == Inputs \subseteq Units
<1>1. S3270Inputs \subseteq Units
  <2>1. [lead |-> "other", verdict |-> "ok", quit |-> FALSE] \in Units
    BY DEF Units, Leads, Verdicts
  <2>2. \A v \in Verdicts : [lead |-> "brace", verdict |-> v, quit |-> FALSE] \in Units
    BY DEF Units, Leads
  <2>3. \A v \in {"ok", "malformed"} :
          [lead |-> "quote", verdict |-> v, quit |-> FALSE] \in Units
    BY DEF Units, Leads, Verdicts
  <2> QED
    BY <2>1, <2>2, <2>3 DEF S3270Inputs
<1>2. B3270Inputs \subseteq Units
  <2>1. \A l \in {"brace", "quote"}, q \in BOOLEAN :
          [lead |-> l, verdict |-> "ok", quit |-> q] \in Units
    BY DEF Units, Leads, Verdicts
  <2>2. \A v \in {"missing", "malformed"} :
          [lead |-> "brace", verdict |-> v, quit |-> FALSE] \in Units
    BY DEF Units, Leads, Verdicts
  <2> SUFFICES ASSUME NEW x \in B3270Inputs PROVE x \in Units
    OBVIOUS
  <2>3. CASE \E l \in {"brace", "quote"}, q \in BOOLEAN :
               x = [lead |-> l, verdict |-> "ok", quit |-> q]
    BY <2>1, <2>3
  <2>4. CASE \E v \in {"missing", "malformed"} :
               x = [lead |-> "brace", verdict |-> v, quit |-> FALSE]
    BY <2>2, <2>4
  <2> QED
    BY <2>3, <2>4 DEF B3270Inputs
<1> QED
  BY <1>1, <1>2 DEF Inputs

-----------------------------------------------------------------------------
LEMMA InitIInv == Init => IInv
<1> SUFFICES ASSUME Init PROVE IInv
  OBVIOUS
<1>1. Cardinality(running) = 0
  BY FS_EmptySet DEF Init
<1>2. TypeOK
  <2>1. <<>> \in Seq(Units) /\ <<>> \in Seq(Replies) /\ Len(<<>>) = 0
    BY EmptySeq
  <2>2. 0 \in 0..MaxUnits /\ 0 <= MaxUnits /\ {} \in SUBSET (1..MaxUnits)
    BY MaxUnitsAssumption
  <2> QED
    BY <2>1, <2>2 DEF Init, TypeOK
<1> QED
  BY <1>1, <1>2 DEF Init, IInv, AnsweredOnce, ReplyConservation

(* Appending a reply to request k, which is neither answered nor running   *)
(* afterwards, keeps AnsweredOnce.                                         *)
LEMMA AppendAnswer ==
  ASSUME NEW o \in Seq(Replies), NEW r \in Replies, NEW n \in Nat,
         NEW R, NEW R2 \in SUBSET R,
         \A i \in DOMAIN o : o[i].req \in (1..n) \ R,
         \A i, j \in DOMAIN o : i # j => o[i].req # o[j].req,
         \A i \in DOMAIN o : o[i].req # r.req,
         r.req \in (1..n) \ R2
  PROVE  LET o2 == Append(o, r) IN
         /\ \A i \in DOMAIN o2 : o2[i].req \in (1..n) \ R2
         /\ \A i, j \in DOMAIN o2 : i # j => o2[i].req # o2[j].req
BY AppendProperties, LenProperties

(* Reading a unit that is answered at once (a parse error) keeps IInv.   *)
LEMMA AnswerNext ==
  ASSUME IInv, NEW r \in Replies, r.req = nread + 1, nread < Len(sent),
         nread' = nread + 1, out' = Append(out, r), running' = running,
         UNCHANGED <<sent, clientEof, rcvd>>,
         chan' \in {"open", "closing", "closed"}
  PROVE  IInv'
<1> USE MaxUnitsAssumption DEF IInv
<1>0. /\ IsFiniteSet(running) /\ Cardinality(running) \in Nat
      /\ Len(out) \in Nat /\ DOMAIN out = 1..Len(out)
      /\ Len(sent) \in Nat /\ Len(sent) <= MaxUnits
  BY RunningFinite, LenProperties DEF TypeOK
<1>1. /\ out' \in Seq(Replies) /\ Len(out') = Len(out) + 1
  BY AppendProperties DEF TypeOK
<1>2. nread' \in 0..MaxUnits
  BY <1>0 DEF TypeOK
<1>3. AnsweredOnce'
  <2>1. r.req \in (1..nread') \ running
    BY DEF TypeOK
  <2>2. \A i \in DOMAIN out : out[i].req \in (1..nread') \ running
    BY DEF AnsweredOnce, TypeOK
  <2>3. \A i \in DOMAIN out : out[i].req # r.req
    BY DEF AnsweredOnce, TypeOK
  <2>4. /\ out \in Seq(Replies) /\ nread' \in Nat /\ running \in SUBSET running
        /\ \A i, j \in DOMAIN out : i # j => out[i].req # out[j].req
    BY <1>2 DEF TypeOK, AnsweredOnce
  <2> QED
    BY <2>1, <2>2, <2>3, <2>4, AppendProperties DEF AnsweredOnce
<1>4. TypeOK'
  BY <1>0, <1>1, <1>2 DEF TypeOK
<1>5. ReplyConservation' /\ rcvd' <= Len(out')
  BY <1>0, <1>1 DEF ReplyConservation, TypeOK
<1> QED
  BY <1>0, <1>1, <1>2, <1>3, <1>4, <1>5 DEF TypeOK

LEMMA NextIInv == IInv /\ [Next]_vars => IInv'
<1> SUFFICES ASSUME IInv, [Next]_vars PROVE IInv'
  OBVIOUS
<1> USE MaxUnitsAssumption, DialectAssumption DEF IInv
<1>0. /\ IsFiniteSet(running) /\ Cardinality(running) \in Nat
      /\ Len(out) \in Nat /\ DOMAIN out = 1..Len(out)
      /\ Len(sent) \in Nat /\ Len(sent) <= MaxUnits
  BY RunningFinite, LenProperties DEF TypeOK
<1>1. ASSUME NEW u \in Inputs, Send(u) PROVE IInv'
  <2>1. u \in Units
    BY InputsTyped
  <2>2. sent' \in Seq(Units) /\ Len(sent') = Len(sent) + 1
    BY <1>1, <2>1, AppendProperties DEF Send, TypeOK
  <2> QED
    BY <1>1, <2>2, <1>0 DEF Send, TypeOK, AnsweredOnce, ReplyConservation
<1>2. CASE Shutdown
  BY <1>2 DEF Shutdown, TypeOK, AnsweredOnce, ReplyConservation
<1>3. CASE Recv
  BY <1>3, <1>0, MaxUnitsAssumption DEF Recv, TypeOK, AnsweredOnce, ReplyConservation
<1>4. CASE ReadUnit
  <2> DEFINE nxt == nread + 1
  <2>1. /\ nread < Len(sent) /\ nread' = nxt
        /\ sent' = sent /\ rcvd' = rcvd /\ clientEof' = clientEof
    BY <1>4 DEF ReadUnit
  <2>2. /\ nxt \in 1..MaxUnits /\ nxt <= Len(sent) /\ nxt \notin running
    BY <2>1, <1>0 DEF TypeOK, nxt
  <2>3. \A i \in DOMAIN out : out[i].req # nxt
    BY DEF AnsweredOnce, TypeOK, nxt
  <2>4. CASE OnParsed(nxt)
    <3>1. Cardinality(running') = Cardinality(running) + 1
      BY <2>2, <2>4, <1>0, FS_AddElement DEF OnParsed
    <3>2. running' \in SUBSET (1..MaxUnits) /\ running' \subseteq 1..nread'
      BY <2>1, <2>2, <2>4 DEF OnParsed, TypeOK, nxt
    <3>3. AnsweredOnce'
      BY <2>1, <2>3, <2>4 DEF OnParsed, AnsweredOnce, TypeOK, nxt
    <3> QED
      BY <2>1, <2>2, <2>4, <3>1, <3>2, <3>3, <1>0
      DEF OnParsed, TypeOK, ReplyConservation, nxt
  <2>5. /\ nxt \in 1..MaxUnits /\ nread < Len(sent) /\ nread' = nread + 1
        /\ UNCHANGED <<sent, clientEof, rcvd>>
    BY <2>1, <2>2 DEF nxt
  <2>6. CASE OnSemanticError(nxt)
    <3>1. /\ SemanticReply(nxt) \in Replies /\ SemanticReply(nxt).req = nread + 1
      BY <2>5, ReplyTyping DEF nxt
    <3>2. /\ out' = Append(out, SemanticReply(nxt)) /\ running' = running
          /\ chan' \in {"open", "closing", "closed"}
      BY <2>6 DEF OnSemanticError, TypeOK
    <3> QED
      BY <2>5, <3>1, <3>2, AnswerNext
  <2>7. CASE OnSyntaxError(nxt)
    <3>1. /\ SyntaxReply(nxt) \in Replies /\ SyntaxReply(nxt).req = nread + 1
      BY <2>5, ReplyTyping DEF nxt
    <3>2. /\ out' = Append(out, SyntaxReply(nxt)) /\ running' = running
          /\ chan' \in {"open", "closing", "closed"}
      BY <2>7 DEF OnSyntaxError
    <3> QED
      BY <2>5, <3>1, <3>2, AnswerNext
  <2> QED
    BY <1>4, <2>4, <2>6, <2>7 DEF ReadUnit, nxt
<1>5. ASSUME NEW k \in 1..MaxUnits, Complete(k) PROVE IInv'
  <2>1. PICK ok \in BOOLEAN : out' = Append(out, ResultReply(k, sent[k], ok))
    BY <1>5 DEF Complete
  <2> DEFINE r == ResultReply(k, sent[k], ok)
  <2>2. r \in Replies /\ r.req = k
    BY ReplyTyping
  <2>3. /\ k \in running /\ running' = running \ {k}
        /\ UNCHANGED <<sent, clientEof, nread, rcvd>>
        /\ chan' \in {"open", "closing", "closed"}
    BY <1>5 DEF Complete, TypeOK
  <2>4. Cardinality(running') = Cardinality(running) - 1
    BY <2>3, <1>0, FS_RemoveElement
  <2>5. /\ out' \in Seq(Replies) /\ Len(out') = Len(out) + 1
    BY <2>1, <2>2, AppendProperties DEF TypeOK
  <2>6. AnsweredOnce'
    <3>1. \A i \in DOMAIN out : out[i].req # k
      BY <2>3 DEF AnsweredOnce
    <3>2. running' \in SUBSET running /\ k \in (1..nread) \ running'
      BY <2>3
    <3> QED
      BY <2>1, <2>2, <2>3, <3>1, <3>2, AppendAnswer, <1>0 DEF AnsweredOnce, TypeOK
  <2> QED
    BY <2>3, <2>4, <2>5, <2>6, <1>0 DEF TypeOK, ReplyConservation
<1>6. CASE ReadEof
  BY <1>6 DEF ReadEof, TypeOK, AnsweredOnce, ReplyConservation
<1>7. CASE Close
  BY <1>7 DEF Close, TypeOK, AnsweredOnce, ReplyConservation
<1>8. CASE UNCHANGED vars
  BY <1>8 DEF vars, TypeOK, AnsweredOnce, ReplyConservation
<1> QED
  BY <1>1, <1>2, <1>3, <1>4, <1>5, <1>6, <1>7, <1>8 DEF Next

-----------------------------------------------------------------------------
(***************************************************************************)
(* s3270 answers in order.  InOrder is not inductive: it needs that at      *)
(* most the last unit read is executing (s3270 reads nothing while a unit   *)
(* runs), so that the reply written next, by a parse error or by the       *)
(* completion, is to unit Len(out) + 1.                                     *)
(***************************************************************************)
SerialInv ==
  /\ running \subseteq {nread}
  /\ InOrder

LEMMA InitSerial == Init => SerialInv
BY DEF Init, SerialInv, InOrder

LEMMA NextSerial ==
  ASSUME Dialect = "s3270", IInv, SerialInv, [Next]_vars
  PROVE  SerialInv'
<1> USE MaxUnitsAssumption DEF IInv
<1>0. /\ IsFiniteSet(running) /\ Cardinality(running) \in Nat
      /\ Len(out) \in Nat /\ DOMAIN out = 1..Len(out)
      /\ nread \in Nat /\ out \in Seq(Replies)
  BY RunningFinite, LenProperties DEF TypeOK
<1>1. ASSUME NEW u \in Inputs, Send(u) PROVE SerialInv'
  BY <1>1 DEF Send, SerialInv, InOrder
<1>2. CASE Shutdown \/ Recv \/ ReadEof \/ Close \/ UNCHANGED vars
  BY <1>2 DEF Shutdown, Recv, ReadEof, Close, vars, SerialInv, InOrder
<1>3. CASE ReadUnit
  <2> DEFINE nxt == nread + 1
  <2>1. /\ running = {} /\ nread' = nxt
    BY <1>3 DEF ReadUnit, CanRead, nxt
  <2>0. nxt \in 1..MaxUnits
    BY <1>3, <1>0, LenProperties DEF ReadUnit, TypeOK, nxt
  <2>2. Len(out) = nread
    BY <2>1, FS_EmptySet DEF ReplyConservation
  <2>3. CASE OnParsed(nxt)
    BY <2>1, <2>3 DEF OnParsed, SerialInv, InOrder, nxt
  <2>4. ASSUME NEW r \in Replies, r.req = nxt, out' = Append(out, r),
               running' = running
        PROVE  SerialInv'
    BY <2>1, <2>2, <2>4, <1>0, AppendProperties DEF SerialInv, InOrder, nxt
  <2>5. CASE OnSemanticError(nxt)
    <3>1. SemanticReply(nxt) \in Replies /\ SemanticReply(nxt).req = nxt
      BY <2>0, ReplyTyping
    <3> QED
      BY <2>5, <3>1, <2>4 DEF OnSemanticError
  <2>6. CASE OnSyntaxError(nxt)
    <3>1. SyntaxReply(nxt) \in Replies /\ SyntaxReply(nxt).req = nxt
      BY <2>0, ReplyTyping
    <3> QED
      BY <2>6, <3>1, <2>4 DEF OnSyntaxError
  <2> QED
    BY <1>3, <2>3, <2>5, <2>6 DEF ReadUnit, nxt
<1>4. ASSUME NEW k \in 1..MaxUnits, Complete(k) PROVE SerialInv'
  <2>1. PICK ok \in BOOLEAN : out' = Append(out, ResultReply(k, sent[k], ok))
    BY <1>4 DEF Complete
  <2> DEFINE r == ResultReply(k, sent[k], ok)
  <2>2. r \in Replies /\ r.req = k
    BY ReplyTyping
  <2>3. /\ k = nread /\ running = {k} /\ running' = {} /\ nread' = nread
    BY <1>4 DEF Complete, SerialInv
  <2>4. Len(out) + 1 = k
    BY <2>3, <1>0, FS_Singleton DEF ReplyConservation
  <2> QED
    BY <2>1, <2>2, <2>3, <2>4, <1>0, AppendProperties DEF SerialInv, InOrder
<1> QED
  BY <1>1, <1>2, <1>3, <1>4 DEF Next

-----------------------------------------------------------------------------
(* The type invariant holds in every reachable state. *)
THEOREM TypeCorrect == Spec => []TypeOK
BY InitIInv, NextIInv, PTL DEF Spec, IInv

(* Each reply answers a unit read and no longer running, and no unit is     *)
(* answered twice: one result per request, whatever the interleaving of    *)
(* reads and completions.                                                   *)
THEOREM AnsweredOnceHolds == Spec => []AnsweredOnce
BY InitIInv, NextIInv, PTL DEF Spec, IInv

(* Replies written plus requests in flight always count the units read. *)
THEOREM ConservationHolds == Spec => []ReplyConservation
BY InitIInv, NextIInv, PTL DEF Spec, IInv


(* s3270 replies in the order the units were written, so a client mixing   *)
(* legacy and JSON lines matches replies by position (the mode-switch      *)
(* tests): the i-th reply answers the i-th unit, for every MaxUnits.       *)
THEOREM InOrderHolds ==
  ASSUME Dialect = "s3270"
  PROVE  Spec => []InOrder
<1>1. Init => IInv /\ SerialInv
  BY InitIInv, InitSerial
<1>2. IInv /\ SerialInv /\ [Next]_vars => (IInv /\ SerialInv)'
  BY NextIInv, NextSerial
<1> QED
  BY <1>1, <1>2, PTL DEF Spec, SerialInv

=============================================================================
