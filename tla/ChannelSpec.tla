---------------------------- MODULE ChannelSpec ----------------------------
(***************************************************************************)
(* What the action-control channel promises its client, with the wire     *)
(* formats, the executor and the client's reading left out (spec 4.3, 5,  *)
(* 7).  Requests are numbered in the order the channel accepts them.      *)
(*                                                                         *)
(*  - every answer is to a request already accepted and not yet answered; *)
(*  - an error is answered as its unit is accepted, a request later;      *)
(*  - when Ordered (the s3270 dialect) the answers come in request order; *)
(*  - once closed, nothing more is accepted or answered.                  *)
(***************************************************************************)
EXTENDS Naturals, Sequences

CONSTANTS
  MaxUnits, \* bound on the requests a client sends
  Ordered   \* whether answers must follow request order

VARIABLES
  accepted, \* number of requests accepted so far
  answers,  \* the requests answered, in the order of their answers
  closed    \* whether the channel has closed its output

vars == <<accepted, answers, closed>>

AnsweredSet == {answers[i] : i \in DOMAIN answers}
Unanswered == (1..accepted) \ AnsweredSet

Init ==
  /\ accepted = 0
  /\ answers = <<>>
  /\ closed = FALSE

\* Write the answer to request k.
Reply(k) ==
  /\ answers' = Append(answers, k)
  /\ Ordered => k = Len(answers) + 1

\* Accept the next request; a unit that cannot run is answered at once.
Accept ==
  /\ ~closed
  /\ accepted < MaxUnits
  /\ accepted' = accepted + 1
  /\ answers' = answers \/ Reply(accepted + 1)
  /\ UNCHANGED closed

\* Answer a request that was running; the answer to a Quit() also closes.
Answer ==
  /\ ~closed
  /\ \E k \in Unanswered : Reply(k)
  /\ closed' \in BOOLEAN
  /\ UNCHANGED accepted

Close ==
  /\ ~closed
  /\ closed' = TRUE
  /\ UNCHANGED <<accepted, answers>>

Next == Accept \/ Answer \/ Close

Spec == Init /\ [][Next]_vars

=============================================================================
