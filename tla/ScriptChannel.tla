--------------------------- MODULE ScriptChannel ---------------------------
(***************************************************************************)
(* One action-control connection of an x3270-family emulator: a client     *)
(* (the test's socket or the stdin pipe) writes input units, the emulator  *)
(* reads each one, sniffs its format from the first non-blank character,   *)
(* runs the actions it names and writes one reply per unit, in the wire    *)
(* shape of the dialect:                                                   *)
(*   - "s3270": the script dialect of s3270 (stdin, -scriptport).  A unit  *)
(*     is read only when the previous one has finished, so replies come    *)
(*     back in request order (s3270/Test/Json.py, mode-switch tests).      *)
(*   - "b3270": the -json dialect of b3270.  Every unit starts a run at    *)
(*     once; runs complete independently and each run-result is written    *)
(*     when it completes (b3270/Test/Json.py, test_b3270_json_multiple).   *)
(* A unit is an abstract record: the class of its first non-blank          *)
(* character, the verdict of the JSON parser on it, and whether the run it *)
(* names ends with Quit().  Action names, arguments and text lines are     *)
(* abstracted away: they do not influence control.                         *)
(***************************************************************************)
EXTENDS Naturals, Sequences, FiniteSets

CONSTANTS
  Dialect,    \* "s3270" or "b3270"
  MaxUnits    \* bound on the number of units the client writes

ASSUME DialectAssumption == Dialect \in {"s3270", "b3270"}
ASSUME MaxUnitsAssumption == MaxUnits \in Nat \ {0}

(***************************************************************************)
(* Input units.  lead: first non-blank character ("brace" for {, "quote"   *)
(* for ", "other" for anything else); verdict: what the JSON parser makes  *)
(* of the unit (only meaningful when the lead announces JSON); quit: the   *)
(* run contains Quit().                                                    *)
(***************************************************************************)
Leads    == {"brace", "quote", "other"}
Verdicts == {"ok", "missing", "malformed"}
Units    == [lead : Leads, verdict : Verdicts, quit : BOOLEAN]

\* The units each dialect's tests write: s3270 takes legacy lines, flat JSON
\* objects and JSON strings; b3270 -json takes JSON strings and "run" objects,
\* and a run may end with Quit().
S3270Inputs ==
  {[lead |-> "other", verdict |-> "ok", quit |-> FALSE]}
  \cup {[lead |-> "brace", verdict |-> v, quit |-> FALSE] : v \in Verdicts}
  \cup {[lead |-> "quote", verdict |-> v, quit |-> FALSE] : v \in {"ok", "malformed"}}
B3270Inputs ==
  {[lead |-> l, verdict |-> "ok", quit |-> q] : l \in {"brace", "quote"}, q \in BOOLEAN}
  \cup {[lead |-> "brace", verdict |-> v, quit |-> FALSE] : v \in {"missing", "malformed"}}
Inputs == IF Dialect = "s3270" THEN S3270Inputs ELSE B3270Inputs

\* Format detection: inferred from the first non-whitespace character.
Detect(u) == CASE u.lead = "brace" -> "jsonObject"
               [] u.lead = "quote" -> "jsonString"
               [] OTHER            -> "legacy"

\* Outcome of parsing a unit: legacy lines always reach the executor.
Parse(u) == IF Detect(u) = "legacy" THEN "ok" ELSE u.verdict

(***************************************************************************)
(* Replies.  req is the index of the unit answered (a ghost: the wire      *)
(* carries no correlation token, the client matches by position).          *)
(*   "legacy"    data: lines, status line, ok/error                        *)
(*   "jsonFlat"  {"result":[...], "success":b, "status":"..."}             *)
(*   "runResult" {"run-result":{"success":b, "text":[...]}}                *)
(*   "uiError"   {"ui-error":{"fatal":b, ...}}                             *)
(***************************************************************************)
Shapes  == {"legacy", "jsonFlat", "runResult", "uiError"}
Replies == [req : 1..MaxUnits, shape : Shapes, success : BOOLEAN, fatal : BOOLEAN]

Reply(k, shape, ok, fatal) == [req |-> k, shape |-> shape, success |-> ok, fatal |-> fatal]

\* Result of an action that ran: s3270 answers in the format of the request,
\* b3270 always with a run-result.
ResultReply(k, u, ok) ==
  Reply(k, IF Dialect = "b3270" THEN "runResult"
           ELSE IF Detect(u) = "legacy" THEN "legacy" ELSE "jsonFlat",
        ok, FALSE)

\* Structurally valid JSON lacking the 'action' member: s3270 answers with a
\* failed flat JSON result, b3270 with a non-fatal ui-error.
SemanticReply(k) ==
  IF Dialect = "s3270" THEN Reply(k, "jsonFlat", FALSE, FALSE)
                       ELSE Reply(k, "uiError", FALSE, FALSE)

\* Malformed JSON: s3270 answers "data: JSON parse error", status, "error";
\* b3270 answers with a fatal ui-error.
\* Fault variant: the parse error is rendered in the format the unit claimed.
SyntaxReplyAsDetected(k) ==
  IF Dialect = "s3270" THEN Reply(k, "jsonFlat", FALSE, TRUE)
                       ELSE Reply(k, "uiError", FALSE, TRUE)

SyntaxReply(k) ==
  IF Dialect = "s3270" THEN Reply(k, "legacy", FALSE, TRUE)
                       ELSE Reply(k, "uiError", FALSE, TRUE)

-----------------------------------------------------------------------------
VARIABLES
  sent,       \* units written by the client, in order (append-only)
  clientEof,  \* the client has shut down its write side
  nread,      \* number of units the emulator has read
  running,    \* indices of units whose actions are executing
  out,        \* replies written by the emulator, in order (append-only)
  chan,       \* "open", "closing" (no more input read) or "closed"
  rcvd        \* number of replies the client has read

vars == <<sent, clientEof, nread, running, out, chan, rcvd>>

\* Requests answered so far.
Answered == {out[i].req : i \in DOMAIN out}

\* Fault variant: the next unit is read while another is still executing.
CanReadPipelined == chan = "open"

\* s3270 does not read the next unit while one is executing.
CanRead == chan = "open" /\ (Dialect = "b3270" \/ running = {})

Init ==
  /\ sent = <<>>
  /\ clientEof = FALSE
  /\ nread = 0
  /\ running = {}
  /\ out = <<>>
  /\ chan = "open"
  /\ rcvd = 0

(***************************************************************************)
(* Client (test) actions.                                                  *)
(***************************************************************************)
\* s.sendall(command) / s3270.stdin.write(command)
Send(u) ==
  /\ ~clientEof
  /\ Len(sent) < MaxUnits
  /\ sent' = Append(sent, u)
  /\ UNCHANGED <<clientEof, nread, running, out, chan, rcvd>>

\* s.shutdown(socket.SHUT_WR) / communicate() closing stdin
Shutdown ==
  /\ ~clientEof
  /\ clientEof' = TRUE
  /\ UNCHANGED <<sent, nread, running, out, chan, rcvd>>

\* Fault variant: the reader does not stop at the end of the data.
RecvPastEof ==
  /\ rcvd' = rcvd + 1
  /\ UNCHANGED <<sent, clientEof, nread, running, out, chan>>

\* One iteration of recv_to_eof: read the next reply.
Recv ==
  /\ rcvd < Len(out)
  /\ rcvd' = rcvd + 1
  /\ UNCHANGED <<sent, clientEof, nread, running, out, chan>>

(***************************************************************************)
(* Emulator actions.                                                       *)
(***************************************************************************)
\* A parsed request is handed to the executor.
OnParsed(k) ==
  /\ running' = running \cup {k}
  /\ UNCHANGED <<out, chan>>

\* Fault variant: a semantic error is treated as fatal.
OnSemanticErrorFatal(k) ==
  /\ out' = Append(out, SemanticReply(k))
  /\ chan' = "closing"
  /\ UNCHANGED running

\* Fault variant: a semantic error is swallowed without a reply.
OnSemanticErrorSilent(k) == UNCHANGED <<out, running, chan>>

\* A semantic error is answered and the channel stays open.
OnSemanticError(k) ==
  /\ out' = Append(out, SemanticReply(k))
  /\ UNCHANGED <<running, chan>>

\* Fault variant: the channel keeps reading after a syntax error.
OnSyntaxErrorNonFatal(k) ==
  /\ out' = Append(out, SyntaxReply(k))
  /\ UNCHANGED <<running, chan>>

\* A syntax error is answered and the channel stops reading.
OnSyntaxError(k) ==
  /\ out' = Append(out, SyntaxReply(k))
  /\ chan' = "closing"
  /\ UNCHANGED running

\* Read the next unit, detect its format and parse it.
ReadUnit ==
  /\ CanRead
  /\ nread < Len(sent)
  /\ LET k == nread + 1
     IN  /\ nread' = k
         /\ \/ Parse(sent[k]) = "ok" /\ OnParsed(k)
            \/ Parse(sent[k]) = "missing" /\ OnSemanticError(k)
            \/ Parse(sent[k]) = "malformed" /\ OnSyntaxError(k)
  /\ UNCHANGED <<sent, clientEof, rcvd>>

\* Fault variant: the handle of a completed request stays in the in-flight set.
CompleteKeepsHandle(k) ==
  /\ k \in running
  /\ chan # "closed"
  /\ \E ok \in BOOLEAN : out' = Append(out, ResultReply(k, sent[k], ok))
  /\ chan' = IF Dialect = "b3270" /\ sent[k].quit THEN "closed" ELSE chan
  /\ UNCHANGED <<sent, clientEof, nread, running, rcvd>>

\* Fault variant: Quit() does not end the emulator once its result is out.
CompleteNoExit(k) ==
  /\ k \in running
  /\ chan # "closed"
  /\ \E ok \in BOOLEAN : out' = Append(out, ResultReply(k, sent[k], ok))
  /\ running' = running \ {k}
  /\ UNCHANGED <<sent, clientEof, nread, chan, rcvd>>

\* The executor finishes the actions of request k with some outcome; the
\* result is written at once.  A b3270 run ending in Quit() exits after its
\* result is written, abandoning runs still executing.
Complete(k) ==
  /\ k \in running
  /\ chan # "closed"
  /\ \E ok \in BOOLEAN : out' = Append(out, ResultReply(k, sent[k], ok))
  /\ running' = running \ {k}
  /\ chan' = IF Dialect = "b3270" /\ sent[k].quit THEN "closed" ELSE chan
  /\ UNCHANGED <<sent, clientEof, nread, rcvd>>

\* End of input seen: stop reading, keep draining running requests.
ReadEof ==
  /\ CanRead
  /\ nread = Len(sent)
  /\ clientEof
  /\ chan' = "closing"
  /\ UNCHANGED <<sent, clientEof, nread, running, out, rcvd>>

\* Fault variant: the output is closed with requests still executing.
CloseNoDrain ==
  /\ chan = "closing"
  /\ chan' = "closed"
  /\ UNCHANGED <<sent, clientEof, nread, running, out, rcvd>>

\* Fault variant: closing waits until all input has been consumed.
CloseAfterInput ==
  /\ chan = "closing"
  /\ running = {}
  /\ nread = Len(sent)
  /\ chan' = "closed"
  /\ UNCHANGED <<sent, clientEof, nread, running, out, rcvd>>

\* Nothing left to run: close the output and exit.
Close ==
  /\ chan = "closing"
  /\ running = {}
  /\ chan' = "closed"
  /\ UNCHANGED <<sent, clientEof, nread, running, out, rcvd>>

Next ==
  \/ \E u \in Inputs : Send(u)
  \/ Shutdown
  \/ Recv
  \/ ReadUnit
  \/ \E k \in 1..MaxUnits : Complete(k)
  \/ ReadEof
  \/ Close

\* The emulator's event loop and the executor are fair (every action the
\* tests run completes: waits are bounded), and the test keeps calling recv.
\* The client is not obliged to send or to shut down.
Fairness ==
  /\ WF_vars(ReadUnit)
  /\ \A k \in 1..MaxUnits : WF_vars(Complete(k))
  /\ WF_vars(ReadEof)
  /\ WF_vars(Close)
  /\ WF_vars(Recv)

Spec == Init /\ [][Next]_vars /\ Fairness

-----------------------------------------------------------------------------
TypeOK ==
  /\ sent \in Seq(Units) /\ Len(sent) <= MaxUnits
  /\ clientEof \in BOOLEAN
  /\ nread \in 0..MaxUnits
  /\ running \in SUBSET (1..MaxUnits)
  /\ out \in Seq(Replies)
  /\ chan \in {"open", "closing", "closed"}
  /\ rcvd \in 0..MaxUnits

\* A run ending in Quit() has been answered (the emulator exits after it).
QuitDone == \E i \in DOMAIN out : sent[out[i].req].quit

(***************************************************************************)
(* Every reply answers a unit the emulator has read and is no longer       *)
(* running, and no unit is answered twice: the completion of a request and *)
(* the removal of its handle from the in-flight set happen together, so a  *)
(* completion can never be reported again, whatever the interleaving of    *)
(* reads and completions (spec: one ActionResult per ActionRequest).       *)
(***************************************************************************)
AnsweredOnce ==
  /\ \A i \in DOMAIN out : out[i].req \in (1..nread) \ running
  /\ \A i, j \in DOMAIN out : i # j => out[i].req # out[j].req

(***************************************************************************)
(* Conservation of requests: every unit read is either still executing or *)
(* has exactly one reply, so the replies written plus the requests in      *)
(* flight always count the units read.  A lost completion, a duplicated    *)
(* one, or an error answered without being counted breaks the balance.     *)
(***************************************************************************)
ReplyConservation == Len(out) + Cardinality(running) = nread

(***************************************************************************)
(* s3270: the i-th reply on a connection answers the i-th unit written, so *)
(* a client interleaving legacy and JSON lines can match replies by        *)
(* position (test_s3270_stdin_mode_switch, test_s3270_socket_json_mode_    *)
(* switch).  This rests on s3270 not reading a unit while another runs.    *)
(***************************************************************************)
InOrder == \A i \in DOMAIN out : out[i].req = i

(***************************************************************************)
(* A syntax error is fatal: no unit written after a malformed JSON unit is *)
(* ever read, so nothing behind it is executed on a framing that can no    *)
(* longer be trusted (spec 4.2, 4.5).                                      *)
(***************************************************************************)
NothingReadAfterFatal == \A i \in DOMAIN out : out[i].fatal => nread = out[i].req

(***************************************************************************)
(* Units are left unread at exit only behind a fatal error or a Quit():    *)
(* a semantic error (valid JSON missing 'action') keeps the channel open   *)
(* for the units after it (spec 4.5, 8: "the channel accepts a subsequent  *)
(* valid request").                                                        *)
(***************************************************************************)
UnreadOnlyAfterFatal ==
  (chan = "closed" /\ nread < Len(sent))
    => (QuitDone \/ \E i \in DOMAIN out : out[i].fatal)

(***************************************************************************)
(* Closing the input does not cancel running actions: when the emulator    *)
(* closes its output every unit it read has been answered, unless a        *)
(* Quit() ended it (spec 5, "drains pending results").                     *)
(***************************************************************************)
DrainBeforeClose == chan = "closed" => (Answered = 1..nread \/ QuitDone)

(***************************************************************************)
(* Spec 4.2 and 7: a syntax error is always rendered in the legacy shape   *)
(* (data: JSON parse error / status / error), whatever format the unit     *)
(* claimed, because the format could not be confirmed.                     *)
(***************************************************************************)
SyntaxErrorIsLegacy ==
  \A i \in DOMAIN out : Parse(sent[out[i].req]) = "malformed" => out[i].shape = "legacy"

(***************************************************************************)
(* b3270 exits right after writing the result of a run ending in Quit():   *)
(* that result is the last reply on the output, even when another run      *)
(* would complete later (test_b3270_json_multiple reads it as the last     *)
(* line, after the result of the run it overtook).                         *)
(***************************************************************************)
QuitIsLast == \A i \in DOMAIN out : sent[out[i].req].quit => i = Len(out)

(***************************************************************************)
(* Once the client shuts down its write side, the emulator eventually      *)
(* closes the connection and the client's recv_to_eof returns having read  *)
(* every reply (every test ends with the process exiting with status 0).   *)
(***************************************************************************)
Termination == clientEof ~> (chan = "closed" /\ rcvd = Len(out))

(***************************************************************************)
(* The channel as its client sees it (module ChannelSpec): requests are    *)
(* accepted in the order they were written, each answered request was      *)
(* accepted and answered once, s3270 answers in request order, and once    *)
(* the emulator has closed its output nothing more is read or answered.    *)
(* The refinement maps the units read to the requests accepted, the        *)
(* replies to the requests they answer, and a closed output to closed;     *)
(* sending, EOF handling and the client's reads are stutters.              *)
(***************************************************************************)
Channel == INSTANCE ChannelSpec
             WITH accepted <- nread,
                  answers <- [i \in DOMAIN out |-> out[i].req],
                  closed <- (chan = "closed"),
                  Ordered <- (Dialect = "s3270")

ChannelRefined == Channel!Spec

=============================================================================
