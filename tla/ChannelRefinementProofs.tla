----------------------- MODULE ChannelRefinementProofs ----------------------
(***************************************************************************)
(* ScriptChannel implements ChannelSpec under the mapping Channel of       *)
(* ScriptChannel: units read are requests accepted, the replies written    *)
(* are the answers, and a closed output is a closed channel.               *)
(*                                                                         *)
(* A step of the emulator maps to an abstract step only because of facts   *)
(* about the states it starts from: a completed request was read and is    *)
(* not yet answered (AnsweredOnce, running \subseteq 1..nread), and in     *)
(* s3270 the reply written is to request Len(out) + 1 (InOrder of the      *)
(* state after the step).  RInv carries IInv, and SerialInv for s3270.     *)
(***************************************************************************)
EXTENDS ScriptChannelProofs

RInv == IInv /\ (Dialect = "s3270" => SerialInv)

\* The request each reply of o answers: the image of o under the mapping.
AnsOf(o) == [i \in DOMAIN o |-> o[i].req]

-----------------------------------------------------------------------------
LEMMA InitRInv == Init => RInv
BY InitIInv, InitSerial DEF RInv

LEMMA NextRInv == RInv /\ [Next]_vars => RInv'
<1> SUFFICES ASSUME RInv, [Next]_vars PROVE RInv'
  OBVIOUS
<1>1. IInv'
  BY NextIInv DEF RInv
<1>2. Dialect = "s3270" => SerialInv'
  BY NextSerial DEF RInv
<1> QED
  BY <1>1, <1>2 DEF RInv

(* The image of a sequence of replies, and of one with a reply appended. *)
LEMMA AnsOfAppend ==
  ASSUME NEW o \in Seq(Replies), NEW r \in Replies
  PROVE  /\ Len(AnsOf(o)) = Len(o)
         /\ AnsOf(Append(o, r)) = Append(AnsOf(o), r.req)
<1>0. Len(o) \in Nat /\ DOMAIN o = 1..Len(o) /\ \A i \in 1..Len(o) : o[i] \in Replies
  BY LenProperties
<1>1. AnsOf(o) \in Seq(1..MaxUnits) /\ DOMAIN AnsOf(o) = 1..Len(o)
  <2>1. AnsOf(o) \in [1..Len(o) -> 1..MaxUnits]
    BY <1>0 DEF AnsOf, Replies
  <2> QED
    BY <1>0, <2>1, SeqDef DEF AnsOf
<1>2. Len(AnsOf(o)) = Len(o)
  BY <1>1
<1>3. AnsOf(Append(o, r)) = Append(AnsOf(o), r.req)
  BY <1>0, <1>1, AppendProperties DEF AnsOf, Replies
<1> QED
  BY <1>2, <1>3

(* Writing a reply r to a request nobody answered before is an abstract   *)
(* Reply(r.req): the request order holds in s3270 by InOrder of the next  *)
(* state.                                                                  *)
LEMMA ReplyRefines ==
  ASSUME RInv, RInv', NEW r \in Replies, out' = Append(out, r)
  PROVE  Channel!Reply(r.req)
<1> USE DEF RInv, IInv
<1>0. out \in Seq(Replies) /\ Len(out) \in Nat
  BY DEF TypeOK
<1>1. AnsOf(out') = Append(AnsOf(out), r.req) /\ Len(AnsOf(out)) = Len(out)
  BY <1>0, AnsOfAppend
<1>2. Dialect = "s3270" => r.req = Len(out) + 1
  <2> SUFFICES ASSUME Dialect = "s3270" PROVE r.req = Len(out) + 1
    OBVIOUS
  <2>1. out'[Len(out) + 1].req = Len(out) + 1
    BY <1>0, AppendProperties DEF SerialInv, InOrder
  <2> QED
    BY <2>1, <1>0, AppendProperties
<1> QED
  BY <1>1, <1>2 DEF Channel!Reply, AnsOf
(* Reading a unit answered at once (a parse error) is an abstract Accept *)
(* that writes its answer; the channel is not closed by it.              *)
LEMMA AcceptAnswered ==
  ASSUME RInv, RInv', chan = "open", nread' = nread + 1,
         nread + 1 \in 1..MaxUnits,
         NEW r \in Replies, r.req = nread + 1, out' = Append(out, r),
         chan' # "closed"
  PROVE  Channel!Accept
<1>1. Channel!Reply(r.req)
  BY ReplyRefines
<1>2. Channel!Reply(nread + 1)
  BY <1>1 DEF Channel!Reply
<1>3. nread < MaxUnits
  BY MaxUnitsAssumption DEF RInv, IInv, TypeOK
<1>4. UNCHANGED (chan = "closed")
  OBVIOUS
<1> QED
  BY <1>2, <1>3, <1>4 DEF Channel!Accept

(* Every step of the emulator or of the client is a step of ChannelSpec   *)
(* or leaves the mapped state alone.                                       *)
LEMMA StepRefines ==
  ASSUME RInv, RInv', [Next]_vars
  PROVE  [Channel!Next]_Channel!vars
<1> USE MaxUnitsAssumption, DialectAssumption DEF RInv, IInv
<1>1. CASE (\E u \in Inputs : Send(u)) \/ Shutdown \/ Recv \/ UNCHANGED vars
  BY <1>1 DEF Send, Shutdown, Recv, vars, Channel!vars
<1>5. CASE ReadEof
  BY <1>5 DEF ReadEof, CanRead, Channel!vars
<1>2. CASE ReadUnit
  <2> DEFINE nxt == nread + 1
  <2>1. /\ chan = "open" /\ nread' = nxt /\ nxt \in 1..MaxUnits
    <3>1. Len(sent) \in Nat /\ Len(sent) <= MaxUnits
      BY LenProperties DEF TypeOK
    <3> QED
      BY <1>2, <3>1 DEF ReadUnit, CanRead, TypeOK
  <2>2. CASE OnParsed(nxt)
    BY <2>1, <2>2 DEF OnParsed, Channel!Next, Channel!Accept, TypeOK
  <2>3. /\ RInv /\ RInv' /\ chan = "open" /\ nread' = nread + 1
        /\ nread + 1 \in 1..MaxUnits
    BY <2>1
  <2>4. CASE OnSemanticError(nxt)
    BY <2>3, <2>4, ReplyTyping, AcceptAnswered DEF OnSemanticError, Channel!Next
  <2>5. CASE OnSyntaxError(nxt)
    BY <2>3, <2>5, ReplyTyping, AcceptAnswered DEF OnSyntaxError, Channel!Next
  <2> QED
    BY <1>2, <2>2, <2>4, <2>5 DEF ReadUnit
<1>3. ASSUME NEW k \in 1..MaxUnits, Complete(k) PROVE [Channel!Next]_Channel!vars
  <2>1. PICK ok \in BOOLEAN : out' = Append(out, ResultReply(k, sent[k], ok))
    BY <1>3 DEF Complete
  <2> DEFINE r == ResultReply(k, sent[k], ok)
  <2>2. r \in Replies /\ r.req = k
    BY ReplyTyping
  <2>3. k \in Channel!Unanswered
    <3>1. k \in running /\ k \in 1..nread
      BY <1>3 DEF Complete
    <3>2. \A i \in DOMAIN out : out[i].req # k
      BY <3>1 DEF AnsweredOnce
    <3> QED
      BY <3>1, <3>2 DEF Channel!Unanswered, Channel!AnsweredSet
  <2>4. Channel!Reply(k)
    BY <2>1, <2>2, ReplyRefines
  <2>5. chan # "closed" /\ nread' = nread
    BY <1>3 DEF Complete
  <2> QED
    BY <2>3, <2>4, <2>5 DEF Channel!Next, Channel!Answer
<1>4. CASE Close
  BY <1>4 DEF Close, Channel!Next, Channel!Close
<1> QED
  BY <1>1, <1>2, <1>3, <1>4, <1>5 DEF Next

(***************************************************************************)
(* Both dialects of the channel implement what the client is promised:     *)
(* answers only to requests read, each once, in request order in s3270,    *)
(* and nothing read or answered after the output closed.                   *)
(***************************************************************************)
THEOREM Refinement == Spec => ChannelRefined
<1>1. Init => Channel!Init
  BY DEF Init, Channel!Init
<1>2. RInv /\ RInv' /\ [Next]_vars => [Channel!Next]_Channel!vars
  BY StepRefines
<1> QED
  BY <1>1, <1>2, InitRInv, NextRInv, PTL DEF Spec, ChannelRefined, Channel!Spec
=============================================================================
