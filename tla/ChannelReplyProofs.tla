-------------------------- MODULE ChannelReplyProofs --------------------------
(***************************************************************************)
(* The reply to a unit the parser rejected is the one its error handler    *)
(* builds, for both dialects and every MaxUnits; in s3270 that reply has   *)
(* the legacy shape (SyntaxErrorIsLegacy).                                 *)
(*                                                                         *)
(* SyntaxErrorIsLegacy is not inductive: a completion writes a reply whose *)
(* shape follows the format of its unit, which is harmless only because a *)
(* running unit was parsed.  And the units a reply or a run refers to must *)
(* stay as they were while the client appends more.  ReplyInv records     *)
(* both facts: only parsed units run, and each reply to a rejected unit is *)
(* the error reply built for it.                                           *)
(***************************************************************************)
EXTENDS ChannelSafetyProofs

ParsedRunning == \A k \in running : Parse(sent[k]) = "ok"

ErrorReplies ==
  \A i \in DOMAIN out :
    /\ Parse(sent[out[i].req]) = "malformed" => out[i] = SyntaxReply(out[i].req)
    /\ Parse(sent[out[i].req]) = "missing" => out[i] = SemanticReply(out[i].req)

ReplyInv == ParsedRunning /\ ErrorReplies

-----------------------------------------------------------------------------
(* A unit the client sends leaves the units read, hence those running or  *)
(* answered, as they were.                                                 *)
LEMMA SendKeepsRead ==
  ASSUME IInv, NEW u \in Inputs, Send(u)
  PROVE  \A j \in 1..nread : sent'[j] = sent[j]
<1>1. sent \in Seq(Units) /\ Len(sent) \in Nat /\ DOMAIN sent = 1..Len(sent)
  BY LenProperties DEF IInv, TypeOK
<1>2. \A j \in 1..Len(sent) : sent'[j] = sent[j]
  BY <1>1, AppendProperties DEF Send
<1>3. nread <= Len(sent) /\ nread \in Nat
  BY DEF IInv, TypeOK
<1> QED
  BY <1>1, <1>2, <1>3

(* Appending the reply a handler builds for its unit keeps ErrorReplies. *)
LEMMA AppendReply ==
  ASSUME IInv, ErrorReplies, NEW r \in Replies, out' = Append(out, r),
         sent' = sent,
         Parse(sent[r.req]) = "malformed" => r = SyntaxReply(r.req),
         Parse(sent[r.req]) = "missing" => r = SemanticReply(r.req)
  PROVE  ErrorReplies'
<1>1. /\ \A i \in DOMAIN out' : i \notin DOMAIN out => out'[i] = r
      /\ \A i \in DOMAIN out : out'[i] = out[i]
  BY AppendKeeps
<1> QED
  BY <1>1 DEF ErrorReplies

LEMMA InitReply == Init => ReplyInv
BY DEF Init, ReplyInv, ParsedRunning, ErrorReplies

LEMMA NextReply == IInv /\ ReplyInv /\ [Next]_vars => ReplyInv'
<1> SUFFICES ASSUME IInv, ReplyInv, [Next]_vars PROVE ReplyInv'
  OBVIOUS
<1> USE MaxUnitsAssumption, DialectAssumption
<1>1. ASSUME NEW u \in Inputs, Send(u) PROVE ReplyInv'
  <2>1. \A j \in 1..nread : sent'[j] = sent[j]
    BY <1>1, SendKeepsRead
  <2>2. /\ \A k \in running : k \in 1..nread
        /\ \A i \in DOMAIN out : out[i].req \in 1..nread
    BY DEF IInv, AnsweredOnce
  <2>3. UNCHANGED <<running, out>>
    BY <1>1 DEF Send
  <2> QED
    BY <2>1, <2>2, <2>3 DEF ReplyInv, ParsedRunning, ErrorReplies
<1>2. CASE Shutdown \/ Recv \/ ReadEof \/ Close \/ UNCHANGED vars
  BY <1>2 DEF Shutdown, Recv, ReadEof, Close, vars, ReplyInv, ParsedRunning, ErrorReplies
<1>3. CASE ReadUnit
  <2> DEFINE nxt == nread + 1
  <2>1. UNCHANGED sent
    BY <1>3 DEF ReadUnit
  <2>2. nxt \in 1..MaxUnits
    <3>1. Len(sent) \in Nat /\ Len(sent) <= MaxUnits
      BY LenProperties DEF IInv, TypeOK
    <3> QED
      BY <1>3, <3>1 DEF ReadUnit, IInv, TypeOK
  <2>3. CASE Parse(sent[nxt]) = "ok" /\ OnParsed(nxt)
    BY <2>1, <2>3 DEF OnParsed, ReplyInv, ParsedRunning, ErrorReplies
  <2>4. CASE Parse(sent[nxt]) = "missing" /\ OnSemanticError(nxt)
    <3>1. SemanticReply(nxt) \in Replies /\ SemanticReply(nxt).req = nxt
      BY <2>2, ReplyTyping
    <3>2. ErrorReplies'
      BY <2>1, <2>4, <3>1, AppendReply DEF OnSemanticError, ReplyInv
    <3> QED
      BY <2>1, <2>4, <3>2 DEF OnSemanticError, ReplyInv, ParsedRunning
  <2>5. CASE Parse(sent[nxt]) = "malformed" /\ OnSyntaxError(nxt)
    <3>1. SyntaxReply(nxt) \in Replies /\ SyntaxReply(nxt).req = nxt
      BY <2>2, ReplyTyping
    <3>2. ErrorReplies'
      BY <2>1, <2>5, <3>1, AppendReply DEF OnSyntaxError, ReplyInv
    <3> QED
      BY <2>1, <2>5, <3>2 DEF OnSyntaxError, ReplyInv, ParsedRunning
  <2> QED
    BY <1>3, <2>3, <2>4, <2>5 DEF ReadUnit
<1>4. ASSUME NEW k \in 1..MaxUnits, Complete(k) PROVE ReplyInv'
  <2>1. PICK ok \in BOOLEAN : out' = Append(out, ResultReply(k, sent[k], ok))
    BY <1>4 DEF Complete
  <2> DEFINE r == ResultReply(k, sent[k], ok)
  <2>2. r \in Replies /\ r.req = k
    BY ReplyTyping
  <2>3. /\ k \in running /\ running' = running \ {k} /\ UNCHANGED sent
    BY <1>4 DEF Complete
  <2>4. Parse(sent[r.req]) = "ok"
    BY <2>2, <2>3 DEF ReplyInv, ParsedRunning
  <2>5. ErrorReplies'
    BY <2>1, <2>2, <2>3, <2>4, AppendReply DEF ReplyInv
  <2> QED
    BY <2>3, <2>5 DEF ReplyInv, ParsedRunning
<1> QED
  BY <1>1, <1>2, <1>3, <1>4 DEF Next

LEMMA ReplyAlways == Spec => [](IInv /\ ReplyInv)
<1>1. Init => IInv /\ ReplyInv
  BY InitIInv, InitReply
<1>2. IInv /\ ReplyInv /\ [Next]_vars => (IInv /\ ReplyInv)'
  BY NextIInv, NextReply
<1> QED
  BY <1>1, <1>2, PTL DEF Spec

-----------------------------------------------------------------------------
(***************************************************************************)
(* s3270 renders every JSON syntax error in the legacy shape (data: JSON   *)
(* parse error, status, error), whatever format the unit claimed, for      *)
(* every MaxUnits and however the client's writes and the reads interleave.*)
(***************************************************************************)
THEOREM SyntaxErrorIsLegacyHolds ==
  ASSUME Dialect = "s3270"
  PROVE  Spec => []SyntaxErrorIsLegacy
<1>1. ReplyInv => SyntaxErrorIsLegacy
  BY DEF ReplyInv, ErrorReplies, SyntaxErrorIsLegacy, SyntaxReply, Reply
<1> QED
  BY <1>1, ReplyAlways, PTL

-----------------------------------------------------------------------------
(***************************************************************************)
(* The result of a run ending in Quit() is the last reply.  QuitIsLast is  *)
(* not inductive: a later completion is excluded only because the output   *)
(* is closed once that result is out, and a parse error written for a      *)
(* unit is excluded only because no unit the clients write both ends in   *)
(* Quit() and fails to parse.  QuitInv records both.                       *)
(***************************************************************************)
SentInputs == \A j \in 1..Len(sent) : sent[j] \in Inputs

QuitClosed ==
  \A i \in DOMAIN out : sent[out[i].req].quit => i = Len(out) /\ chan = "closed"

QuitInv == SentInputs /\ QuitClosed

(* Only b3270 clients end a run with Quit(), and such a run always parses. *)
LEMMA QuitInputs ==
  ASSUME NEW u \in Inputs, u.quit
  PROVE  Dialect = "b3270" /\ Parse(u) = "ok"
<1>1. CASE Dialect = "s3270"
  BY <1>1 DEF Inputs, S3270Inputs
<1>2. CASE Dialect # "s3270"
  <2>1. u \in B3270Inputs /\ Dialect = "b3270"
    BY <1>2, DialectAssumption DEF Inputs
  <2>2. u.lead \in {"brace", "quote"} /\ u.verdict = "ok"
    BY <2>1 DEF B3270Inputs
  <2> QED
    BY <2>1, <2>2 DEF Parse, Detect
<1> QED
  BY <1>1, <1>2

(* While the output is open no reply answers a run ending in Quit(). *)
LEMMA OpenNoQuit ==
  ASSUME QuitInv, chan # "closed"
  PROVE  \A i \in DOMAIN out : ~sent[out[i].req].quit
BY DEF QuitInv, QuitClosed

(* A reply appended while the output is open, to a unit that does not end *)
(* in Quit() or that closes the output, keeps QuitClosed.                 *)
LEMMA AppendQuit ==
  ASSUME IInv, QuitInv, chan # "closed", NEW r \in Replies,
         out' = Append(out, r), sent' = sent,
         sent[r.req].quit => chan' = "closed"
  PROVE  QuitClosed'
<1>1. /\ \A i \in DOMAIN out' : i \notin DOMAIN out => out'[i] = r
      /\ \A i \in DOMAIN out : out'[i] = out[i]
  BY AppendKeeps
<1>2. Len(out) \in Nat /\ DOMAIN out = 1..Len(out)
      /\ DOMAIN out' = 1..Len(out) + 1 /\ Len(out') = Len(out) + 1
  BY AppendProperties DEF IInv, TypeOK
<1>3. \A i \in DOMAIN out : ~sent[out[i].req].quit
  BY OpenNoQuit
<1> QED
  BY <1>1, <1>2, <1>3 DEF QuitClosed

LEMMA InitQuit == Init => QuitInv
BY EmptySeq DEF Init, QuitInv, SentInputs, QuitClosed


LEMMA NextQuit == IInv /\ QuitInv /\ [Next]_vars => QuitInv'
<1> SUFFICES ASSUME IInv, QuitInv, [Next]_vars PROVE QuitInv'
  OBVIOUS
<1> USE MaxUnitsAssumption, DialectAssumption
<1>0. Len(sent) \in Nat /\ Len(sent) <= MaxUnits /\ sent \in Seq(Units)
  BY LenProperties DEF IInv, TypeOK
<1>1. ASSUME NEW u \in Inputs, Send(u) PROVE QuitInv'
  <2>1. SentInputs'
    BY <1>1, <1>0, AppendProperties DEF Send, QuitInv, SentInputs
  <2>2. \A j \in 1..nread : sent'[j] = sent[j]
    BY <1>1, SendKeepsRead
  <2>3. \A i \in DOMAIN out : out[i].req \in 1..nread
    BY DEF IInv, AnsweredOnce
  <2>4. QuitClosed'
    BY <1>1, <2>2, <2>3 DEF Send, QuitInv, QuitClosed
  <2> QED
    BY <2>1, <2>4 DEF QuitInv
<1>2. CASE Shutdown \/ Recv \/ Close \/ UNCHANGED vars
  BY <1>2 DEF Shutdown, Recv, Close, vars, QuitInv, SentInputs, QuitClosed
<1>3. CASE ReadEof
  <2>1. \A i \in DOMAIN out : ~sent[out[i].req].quit
    BY <1>3, OpenNoQuit DEF ReadEof, CanRead
  <2> QED
    BY <1>3, <2>1 DEF ReadEof, QuitInv, SentInputs, QuitClosed
<1>4. CASE ReadUnit
  <2> DEFINE nxt == nread + 1
  <2>1. /\ chan = "open" /\ UNCHANGED sent /\ nxt \in 1..Len(sent)
        /\ nxt \in 1..MaxUnits
    BY <1>4, <1>0 DEF ReadUnit, CanRead, IInv, TypeOK
  <2>2. SentInputs'
    BY <2>1 DEF QuitInv, SentInputs
  <2>3. sent[nxt] \in Inputs
    BY <2>1 DEF QuitInv, SentInputs
  <2>4. CASE OnParsed(nxt)
    <3>1. \A i \in DOMAIN out : ~sent[out[i].req].quit
      BY <2>1, OpenNoQuit
    <3> QED
      BY <2>1, <2>2, <2>4, <3>1 DEF OnParsed, QuitInv, QuitClosed
  <2>5. ASSUME NEW r \in Replies, r.req = nxt, out' = Append(out, r),
               Parse(sent[nxt]) # "ok"
        PROVE  QuitInv'
    <3>1. ~sent[r.req].quit
      BY <2>3, <2>5, QuitInputs
    <3>2. QuitClosed'
      BY <2>1, <2>5, <3>1, AppendQuit
    <3> QED
      BY <2>2, <3>2 DEF QuitInv
  <2>6. CASE Parse(sent[nxt]) = "missing" /\ OnSemanticError(nxt)
    <3>1. SemanticReply(nxt) \in Replies /\ SemanticReply(nxt).req = nxt
      BY <2>1, ReplyTyping
    <3> QED
      BY <2>6, <3>1, <2>5 DEF OnSemanticError
  <2>7. CASE Parse(sent[nxt]) = "malformed" /\ OnSyntaxError(nxt)
    <3>1. SyntaxReply(nxt) \in Replies /\ SyntaxReply(nxt).req = nxt
      BY <2>1, ReplyTyping
    <3> QED
      BY <2>7, <3>1, <2>5 DEF OnSyntaxError
  <2> QED
    BY <1>4, <2>4, <2>6, <2>7 DEF ReadUnit
<1>5. ASSUME NEW k \in 1..MaxUnits, Complete(k) PROVE QuitInv'
  <2>1. PICK ok \in BOOLEAN : out' = Append(out, ResultReply(k, sent[k], ok))
    BY <1>5 DEF Complete
  <2> DEFINE r == ResultReply(k, sent[k], ok)
  <2>2. r \in Replies /\ r.req = k
    BY ReplyTyping
  <2>3. /\ chan # "closed" /\ UNCHANGED sent /\ k \in 1..Len(sent)
        /\ chan' = IF Dialect = "b3270" /\ sent[k].quit THEN "closed" ELSE chan
    <3>1. k \in 1..nread /\ nread <= Len(sent)
      BY <1>5 DEF Complete, IInv
    <3> QED
      BY <1>5, <3>1, <1>0 DEF Complete, IInv, TypeOK
  <2>4. sent[k].quit => chan' = "closed"
    <3>1. sent[k] \in Inputs
      BY <2>3 DEF QuitInv, SentInputs
    <3> QED
      BY <2>3, <3>1, QuitInputs
  <2>5. QuitClosed'
    BY <2>1, <2>2, <2>3, <2>4, AppendQuit
  <2> QED
    BY <2>3, <2>5 DEF QuitInv, SentInputs
<1> QED
  BY <1>1, <1>2, <1>3, <1>4, <1>5 DEF Next

(***************************************************************************)
(* In both dialects and for every MaxUnits, the result of a run ending in  *)
(* Quit() is the last reply written: b3270 exits as soon as it is out,     *)
(* abandoning the runs still executing, and s3270 clients send no Quit().  *)
(***************************************************************************)
THEOREM QuitIsLastHolds == Spec => []QuitIsLast
<1>1. Init => IInv /\ QuitInv
  BY InitIInv, InitQuit
<1>2. IInv /\ QuitInv /\ [Next]_vars => (IInv /\ QuitInv)'
  BY NextIInv, NextQuit
<1>3. QuitInv => QuitIsLast
  BY DEF QuitInv, QuitClosed, QuitIsLast
<1> QED
  BY <1>1, <1>2, <1>3, PTL DEF Spec

=============================================================================
