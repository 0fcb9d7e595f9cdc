------------------------- MODULE ChannelSafetyProofs -------------------------
(***************************************************************************)
(* Proofs of the channel's closing and error-handling invariants, for both *)
(* dialects and every MaxUnits.                                            *)
(*                                                                         *)
(* None is inductive: each speaks of the state the channel reached, not of *)
(* how.  SafeInv records the history that justifies them:                  *)
(*  S1  a fatal reply answers the last unit read, and the channel has      *)
(*      stopped reading since it was written;                              *)
(*  S2  every unit read is running or answered;                            *)
(*  S3  the channel stops reading only after Quit(), a fatal error, or     *)
(*      the end of the input once every unit was read;                     *)
(*  S4  the output closes with nothing running, unless Quit() closed it.   *)
(***************************************************************************)
EXTENDS ScriptChannelProofs

\* Some reply is a fatal syntax error.
Fatal == \E i \in DOMAIN out : out[i].fatal

S1 == \A i \in DOMAIN out : out[i].fatal => (out[i].req = nread /\ chan # "open")
S2 == \A k \in 1..nread : k \in running \/ k \in Answered
S3 == chan # "open" => (QuitDone \/ Fatal \/ (clientEof /\ nread = Len(sent)))
S4 == chan = "closed" => (running = {} \/ QuitDone)

SafeInv == S1 /\ S2 /\ S3 /\ S4

-----------------------------------------------------------------------------
LEMMA InitSafe == Init => SafeInv
BY DEF Init, SafeInv, S1, S2, S3, S4

(* Writing a reply keeps every earlier reply, and answers its request.    *)
LEMMA AppendKeeps ==
  ASSUME IInv, NEW r \in Replies, out' = Append(out, r), sent' = sent
  PROVE  /\ QuitDone => QuitDone'
         /\ Fatal => Fatal'
         /\ Answered' = Answered \cup {r.req}
         /\ \A i \in DOMAIN out' : i \notin DOMAIN out => out'[i] = r
         /\ \A i \in DOMAIN out : out'[i] = out[i]
<1>1. out \in Seq(Replies) /\ Len(out) \in Nat /\ DOMAIN out = 1..Len(out)
  BY LenProperties DEF IInv, TypeOK
<1>2. DOMAIN out' = 1..(Len(out) + 1) /\ out'[Len(out) + 1] = r
      /\ \A i \in DOMAIN out : out'[i] = out[i]
  BY <1>1, AppendProperties
<1> QED
  BY <1>1, <1>2 DEF QuitDone, Fatal, Answered

(* A unit sent by the client leaves the units already read as they were. *)
LEMMA SendKeeps ==
  ASSUME IInv, NEW u \in Inputs, Send(u)
  PROVE  QuitDone => QuitDone'
<1>1. sent \in Seq(Units) /\ Len(sent) \in Nat /\ DOMAIN sent = 1..Len(sent)
  BY LenProperties DEF IInv, TypeOK
<1>2. \A j \in 1..Len(sent) : sent'[j] = sent[j]
  BY <1>1, AppendProperties DEF Send
<1>3. \A i \in DOMAIN out : out[i].req \in 1..Len(sent)
  BY <1>1 DEF IInv, AnsweredOnce, TypeOK
<1> QED
  BY <1>2, <1>3 DEF Send, QuitDone
(* A unit read and answered at once (a parse error) keeps SafeInv.  The  *)
(* channel was open, so no earlier reply is fatal.                        *)
LEMMA ReadAnswered ==
  ASSUME IInv, SafeInv, CanRead, NEW r \in Replies, r.req = nread + 1,
         nread' = nread + 1, out' = Append(out, r), running' = running,
         UNCHANGED <<sent, clientEof>>,
         \/ chan' = chan /\ ~r.fatal
         \/ chan' = "closing" /\ r.fatal
  PROVE  SafeInv'
<1>0. chan = "open" /\ ~Fatal
  BY DEF CanRead, SafeInv, S1, Fatal
<1>1. /\ Answered' = Answered \cup {r.req}
      /\ \A i \in DOMAIN out' : i \notin DOMAIN out => out'[i] = r
      /\ \A i \in DOMAIN out : out'[i] = out[i]
  BY AppendKeeps
<1>2. S1'
  BY <1>0, <1>1 DEF S1, Fatal
<1>3. S2'
  BY <1>1 DEF SafeInv, S2, IInv, TypeOK
<1>4. S3'
  <2>1. r.fatal => Fatal'
    BY <1>1 DEF Fatal, IInv, TypeOK
  <2> QED
    BY <1>0, <2>1 DEF S3
<1>5. S4'
  BY <1>0 DEF S4
<1> QED
  BY <1>2, <1>3, <1>4, <1>5 DEF SafeInv

LEMMA NextSafe == IInv /\ SafeInv /\ [Next]_vars => SafeInv'
<1> SUFFICES ASSUME IInv, SafeInv, [Next]_vars PROVE SafeInv'
  OBVIOUS
<1> USE MaxUnitsAssumption, DialectAssumption
<1>1. ASSUME NEW u \in Inputs, Send(u) PROVE SafeInv'
  <2>1. QuitDone => QuitDone'
    BY <1>1, SendKeeps
  <2>2. ~clientEof /\ UNCHANGED <<clientEof, nread, running, out, chan>>
    BY <1>1 DEF Send
  <2> QED
    BY <2>1, <2>2 DEF SafeInv, S1, S2, S3, S4, Fatal, Answered
<1>2. CASE Shutdown \/ Recv \/ UNCHANGED vars
  BY <1>2 DEF Shutdown, Recv, vars, SafeInv, S1, S2, S3, S4, Fatal, Answered, QuitDone
<1>3. CASE ReadUnit
  <2> DEFINE nxt == nread + 1
  <2>1. /\ CanRead /\ nread' = nxt /\ UNCHANGED <<sent, clientEof>>
    BY <1>3 DEF ReadUnit
  <2>2. nxt \in 1..MaxUnits
    <3>1. Len(sent) \in Nat /\ Len(sent) <= MaxUnits
      BY LenProperties DEF IInv, TypeOK
    <3> QED
      BY <1>3, <3>1 DEF ReadUnit, IInv, TypeOK
  <2>3. CASE OnParsed(nxt)
    <3>1. chan = "open" /\ chan' = chan /\ out' = out /\ running' = running \cup {nxt}
      BY <2>1, <2>3 DEF CanRead, OnParsed
    <3>2. S1'
      BY <2>1, <3>1 DEF SafeInv, S1
    <3>3. S2'
      BY <2>1, <3>1 DEF SafeInv, S2, Answered, IInv, TypeOK
    <3>4. S3' /\ S4'
      BY <3>1 DEF S3, S4
    <3> QED
      BY <3>2, <3>3, <3>4 DEF SafeInv
  <2>4. CASE OnSemanticError(nxt)
    <3>1. SemanticReply(nxt) \in Replies /\ SemanticReply(nxt).req = nxt
          /\ ~SemanticReply(nxt).fatal
      BY <2>2, ReplyTyping DEF SemanticReply, Reply
    <3> QED
      BY <2>1, <2>4, <3>1, ReadAnswered DEF OnSemanticError
  <2>5. CASE OnSyntaxError(nxt)
    <3>1. SyntaxReply(nxt) \in Replies /\ SyntaxReply(nxt).req = nxt
          /\ SyntaxReply(nxt).fatal
      BY <2>2, ReplyTyping DEF SyntaxReply, Reply
    <3> QED
      BY <2>1, <2>5, <3>1, ReadAnswered DEF OnSyntaxError
  <2> QED
    BY <1>3, <2>3, <2>4, <2>5 DEF ReadUnit
<1>4. ASSUME NEW k \in 1..MaxUnits, Complete(k) PROVE SafeInv'
  <2>1. PICK ok \in BOOLEAN : out' = Append(out, ResultReply(k, sent[k], ok))
    BY <1>4 DEF Complete
  <2> DEFINE r == ResultReply(k, sent[k], ok)
  <2>2. r \in Replies /\ r.req = k /\ ~r.fatal
    BY ReplyTyping DEF ResultReply, Reply
  <2>3. /\ k \in running /\ running' = running \ {k} /\ chan # "closed"
        /\ chan' = IF Dialect = "b3270" /\ sent[k].quit THEN "closed" ELSE chan
        /\ UNCHANGED <<sent, clientEof, nread>>
    BY <1>4 DEF Complete
  <2>4. /\ QuitDone => QuitDone'
        /\ Fatal => Fatal'
        /\ Answered' = Answered \cup {k}
        /\ \A i \in DOMAIN out' : i \notin DOMAIN out => out'[i] = r
        /\ \A i \in DOMAIN out : out'[i] = out[i]
    BY <2>1, <2>2, <2>3, AppendKeeps
  <2>5. chan' = "closed" /\ chan # "closed" => QuitDone'
    <3>1. Len(out) \in Nat /\ out'[Len(out) + 1] = r
      BY <2>1, AppendProperties DEF IInv, TypeOK
    <3>2. Len(out) + 1 \in DOMAIN out'
      BY <2>1, <3>1, AppendProperties DEF IInv, TypeOK
    <3> QED
      BY <2>2, <2>3, <3>1, <3>2 DEF QuitDone
  <2>6. S1'
    BY <2>2, <2>3, <2>4 DEF SafeInv, S1
  <2>7. S2'
    BY <2>3, <2>4 DEF SafeInv, S2
  <2>8. chan' = "closed" => S3' /\ S4'
    BY <2>3, <2>5 DEF S3, S4
  <2>9. chan' = chan => S3' /\ S4'
    <3>1. /\ sent' = sent /\ clientEof' = clientEof /\ nread' = nread
      BY <2>3
    <3>2. chan' = chan => S3'
      BY <2>4, <3>1 DEF SafeInv, S3
    <3>3. chan' = chan => S4'
      BY <2>3 DEF S4
    <3> QED
      BY <3>2, <3>3
  <2>10. S3' /\ S4'
    BY <2>3, <2>8, <2>9
  <2> QED
    BY <2>6, <2>7, <2>10 DEF SafeInv
<1>5. CASE ReadEof
  BY <1>5 DEF ReadEof, CanRead, SafeInv, S1, S2, S3, S4, Fatal, Answered, QuitDone
<1>6. CASE Close
  BY <1>6 DEF Close, SafeInv, S1, S2, S3, S4, Fatal, Answered, QuitDone
<1> QED
  BY <1>1, <1>2, <1>3, <1>4, <1>5, <1>6 DEF Next
LEMMA SafeAlways == Spec => [](IInv /\ SafeInv)
<1>1. Init => IInv /\ SafeInv
  BY InitIInv, InitSafe
<1>2. IInv /\ SafeInv /\ [Next]_vars => (IInv /\ SafeInv)'
  BY NextIInv, NextSafe
<1> QED
  BY <1>1, <1>2, PTL DEF Spec

-----------------------------------------------------------------------------
(***************************************************************************)
(* A syntax error is fatal in both dialects: once a malformed JSON unit is *)
(* answered, the emulator reads no unit written after it.                  *)
(***************************************************************************)
THEOREM NothingReadAfterFatalHolds == Spec => []NothingReadAfterFatal
<1>1. SafeInv => NothingReadAfterFatal
  BY DEF SafeInv, S1, NothingReadAfterFatal
<1> QED
  BY <1>1, SafeAlways, PTL

(***************************************************************************)
(* Units are left unread when the emulator exits only behind a fatal error *)
(* or a Quit(): a semantic error never stops the reading.                  *)
(***************************************************************************)
THEOREM UnreadOnlyAfterFatalHolds == Spec => []UnreadOnlyAfterFatal
<1>1. SafeInv => UnreadOnlyAfterFatal
  BY DEF SafeInv, S3, Fatal, UnreadOnlyAfterFatal
<1> QED
  BY <1>1, SafeAlways, PTL

(***************************************************************************)
(* EOF does not cancel running actions: the output closes only when every  *)
(* unit read has been answered, unless a Quit() ended the emulator.        *)
(***************************************************************************)
THEOREM DrainBeforeCloseHolds == Spec => []DrainBeforeClose
<1>1. IInv /\ SafeInv => DrainBeforeClose
  <2> SUFFICES ASSUME IInv, SafeInv, chan = "closed", ~QuitDone
               PROVE  Answered = 1..nread
    BY DEF DrainBeforeClose
  <2>1. running = {}
    BY DEF SafeInv, S4
  <2>2. 1..nread \subseteq Answered
    BY <2>1 DEF SafeInv, S2
  <2>3. Answered \subseteq 1..nread
    BY DEF IInv, AnsweredOnce, Answered
  <2> QED
    BY <2>2, <2>3
<1> QED
  BY <1>1, SafeAlways, PTL

=============================================================================
