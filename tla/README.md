# Formal models of the x3270 scripting channel and the upload helper

This directory holds TLA+ models of the parts of this repository that have
state worth exploring, the TLC configurations that check them, and TLAPS
proofs of their main invariants. `PROJECT.json` lists every component, run,
mutant, mapped definition, finding, hazard and theorem. `map` in it gives the
source lines each definition translates.

## The system

The repository holds two things.

* The test suites of the x3270 family (`src/s3270`, `src/b3270`,
  `src/c3270`, `src/tcl3270`). They drive the emulators through their
  action-control channel. A controller writes *units* (a legacy line such
  as `Set(startTls)`, a JSON object or a JSON string) on stdin or on a
  script socket. The emulator guesses each unit's format from its first
  non-whitespace character, parses it, runs the actions and writes one
  reply per request. s3270 reads the next unit only when the current one
  has finished. b3270 runs requests concurrently and writes results in
  completion order. `Quit()` ends b3270 after its result. EOF on the input
  stops reading but does not cancel running actions. A semantic error
  (valid JSON missing `action`) is answered and reading goes on. A syntax
  error is fatal: reading stops. `spec.md` states this contract.
* `src/VISUAL_ESTUDIO_CODE`, an upload helper. `send.py` checks its
  arguments, maps the parent folder to a host data set, copies the file
  into the current directory, and calls `makes.crear_script` to write
  `.script/script.s3270`. After `sleep(5)` it runs
  `s3270 -script HOST < .script/script.s3270`. It reports success if a
  line of the output contains `Transfer complete`, then removes the copy.
  Each run of the script is a session on the channel above, fed from
  stdin.

## Modules

| Module | Models | State | Actions |
|---|---|---|---|
| `ScriptChannel` | both dialects of the channel, as the tests in `src/s3270/Test/Json.py` and `src/b3270/Test/Json.py` drive them (constant `Dialect`) | `sent` units written by the client, `clientEof`, `nread` units read, `running` requests executing, `out` replies written, `chan` open/closing/closed, `rcvd` replies the client has read | `Send`, `Shutdown` (client), `Recv` (`recv_to_eof`), `ReadUnit` (detect + parse; then `OnParsed`, `OnSemanticError` or `OnSyntaxError`), `Complete(k)`, `ReadEof`, `Close` |
| `ChannelSpec` | what the channel promises its client (spec 4.3-4.5, 5): requests accepted in order, each answered request accepted and answered once, answers in request order when `Ordered`, nothing after close | `accepted`, `answers` (requests in answer order), `closed` | `Accept` (optionally answered at once), `Answer`, `Close` |
| `ScriptChannelProofs` | TLAPS proofs about `ScriptChannel` | | |
| `ChannelSafetyProofs` | TLAPS proofs of the closing and error invariants of `ScriptChannel` | | |
| `ChannelRefinementProofs` | TLAPS proof that `ScriptChannel` implements `ChannelSpec` | | |
| `ChannelReplyProofs` | TLAPS proofs about the replies of `ScriptChannel`: error replies, and the result of `Quit()` coming last | | |
| `LineFramer` | the Line Framer (spec 4.1-4.2) fed the tests' streams and every short stream, in reads of any size | `input`, `got` (bytes received), `state` (mode, brace depth, start of the current unit), `units` delivered, `eof` | `Recv` (one read, all its characters fed through `Feed`), `Eof` |
| `FramerReference` | the framer's position-based reference `RefFrom` (quote parity, brace depth; `RECURSIVE`), the assumption `TestsFramed` and the property `FramedAsReference`, kept apart so that the proofs never reach a `RECURSIVE` operator | | |
| `LineFramerProofs` | TLAPS proofs about `LineFramer`: type correctness and the delimitation of every unit | | |
| `SendScriptProofs` | TLAPS proofs about `SendScript` | | |
| `SendScript` | `send.py main()` and `makes.py crear_script()`, for a set `Procs` of concurrent invocations | `pc`, `arg` per invocation; `cwd` (origin of the file of each name in the current directory); `scriptDir`; `script` (who last wrote the script file); `ran` (whose script each s3270 child read); `pwd` (where the password was typed); `xfer` (what the Transfer line sent where); `host` (origin of each data set); `report` | `Start` (argument count and folder lookup), `Copy`, `CrearScript`, `Launch` (sleep + Popen), `Logon`, `Transfer`, `Scan`, `Remove` |
| `MC_S3270`, `MC_B3270`, `MC_Send`, `MC_Framer` | TLC instances | | |

### Abstractions

* A unit is a record: its first character (`lead`), the verdict of its
  parse (ok, missing `action`, malformed) and whether it ends in `Quit()`.
  Each dialect's inputs are the kinds its tests send. Reply text and the
  status line are dropped. A reply keeps its request, its shape (legacy,
  flat JSON, `run-result`, `ui-error`), its success flag and `fatal`.
* In `ScriptChannel` a unit arrives whole; how the bytes are cut into
  units is `LineFramer`'s concern. There a character is reduced to its
  role (brace, quote, newline, blank, a character with no structural role,
  a character JSON forbids outside a string), and a unit to its kind and
  its first and last position. The emulator's framer is not in this
  repository: `LineFramer` follows spec 4.1-4.2 and what the tests expect
  of their streams (`test_b3270_json_multiple` gets two results from one
  line, `test_b3270_json_syntax_error` a fatal error at the `?`). String
  escapes are not modelled.
* In `SendScript`, a file's content is its origin: `"user"` for a file that
  was there before, or the invocation that copied it. The s3270 session is
  reduced to the Wait for the logon prompt, the Transfer line and the
  script's end. Per the channel contract, an action that fails (a Wait
  that times out) produces an error result and the script continues.
  s3270 reads the whole script once at launch: the shell redirects the
  file to its standard input and the 40-line file fits one read. A rewrite
  by another invocation while s3270 reads it is reduced to s3270 getting
  the old or the new file.
* `argv[1].upper()` is not modelled: components are model values.

## Runs

| Run | What it checks |
|---|---|
| `s3270_channel` (`MC_S3270.cfg`, MaxUnits 3) | `TypeOK`; `AnsweredOnce` (each reply answers a read, finished unit, none twice); `ReplyConservation` (replies + running = read); `InOrder` (i-th reply answers i-th unit); `NothingReadAfterFatal`; `UnreadOnlyAfterFatal` (semantic errors do not stop reading); `SyntaxErrorIsLegacy`; `Termination` (after shutdown the channel closes and the client has read every reply) |
| `b3270_channel` (`MC_B3270.cfg`, MaxUnits 3) | the same minus `InOrder` and `SyntaxErrorIsLegacy`, plus `DrainBeforeClose` (output closed only when every read unit is answered, unless `Quit()`) and `QuitIsLast` (the result of a run ending in `Quit()` is the last reply, as `test_b3270_json_multiple` reads it) |
| both channel runs | also `ChannelRefined`: the run is a behaviour of `ChannelSpec` under the mapping `Channel` (units read = requests accepted, the requests of the replies = answers, output closed = closed; `Ordered` for s3270) |
| `framer` (`MC_Framer.cfg`) | `TypeOK`; `UnitsDelimited` (a legacy unit is followed by a newline already received; a JSON unit starts and ends with matching braces or with two distinct quotes); `FramedAsReference`: whatever the reads, the units delivered are exactly those `RefFrom` finds in the bytes received. `RefFrom` is a position-based definition (quote parity, brace depth), written apart from the state machine. The assumption `TestsFramed` checks that it cuts each test's stream into the units the test expects results for |
| `framer_one_line` (violation) | `UnitPerLine` (spec 4.1: units are delimited by a newline). TLC finds `{}{}`: two values on a line are two units, which `test_b3270_json_multiple` relies on and the spec does not allow for |
| `b3270_syntax_shape` (violation) | `SyntaxErrorIsLegacy` on b3270. TLC finds it violated: b3270 answers a malformed unit with a JSON `ui-error`, which its test expects, and spec §4.2/§7 forbid |
| `send_one` (`MC_Send.cfg`, 1 invocation) | `SuccessMeansUploaded` (success is printed only when the invocation's own copy reached its own target) |
| `send_two` (`MC_Send2.cfg`, 2 invocations) | `TypeOK`, `NoLeftover` (when every invocation ended normally no copy is left), `HostOnlyCopies` (a host data set only ever receives a temporary copy, never a file that was in the directory before) |
| `send_race` (violation, 2 invocations) | `SuccessMeansUploaded`. Two files with one base name: the second copy replaces the first before its Transfer, and the first invocation reports success for the second's file |
| `send_user_file` (violation) | `UserFileKept`. A user's file of the same name is overwritten by the copy and then deleted |
| `send_password` (violation) | `PasswordOnlyAtPrompt`. When the `Enter LOGON` Wait times out, `String(PASSWORD)` is typed on whatever screen is showing |
| `send_no_script_dir` (violation) | `CopyRemovedAtExit` (the temporary copy is gone however an invocation ends). Without `.script/`, `open(..., "w")` in `crear_script` (makes.py:84) raises after the copy was made; nothing catches it and the copy stays |

Every property of a passing run has a mutant in `PROJECT.json`. A mutant is
a plausible bug in a mapped definition, and TLC shows it breaks that
property. Examples: a completion that keeps its handle, s3270 reading
while a unit runs, the copy removed only on success, a failed transfer
retried forever.

### Bounds

* MaxUnits = 3 covers the interesting cases. Two units can be in flight
  while a third is read. An error can come between two requests. A Quit
  can come while another request runs. EOF can come with requests still
  running. The runs reach 14,752 (s3270) and 36,948 (b3270) distinct
  states.
* `MC_Framer` explores every stream of up to 5 characters over the 7
  roles (all pairs of an object and a string, a nested object, a value
  followed by garbage, a line left unterminated), in reads of 1 to 6
  bytes, plus the tests' streams of up to 50 characters, 134,164 distinct
  states. `MaxChunk` bounds a read because folding a long read through
  TLC's worker stack overflows; the short streams are still cut every
  possible way.
* `MC_Send` has two file names (one without a dot), one component, and
  three folders: a library, the sequential data set and an invalid one.
  One or two invocations are used. With two invocations, both may pick the
  same name: that is the race.

### Fairness

* `ScriptChannel`: weak fairness on the emulator's steps (read, each
  completion, EOF handling, close) and on the client's `Recv`. The
  emulator's event loop keeps serving a ready input or a finished action.
  The tests read until EOF. The client is not obliged to send or to shut
  down, so `Termination` is stated from `clientEof`.
* `SendScript`: no fairness, and no liveness property. The Waits of the
  script have timeouts, but its `Transfer()` line has none, and
  `communicate()` (send.py:88) waits for s3270 without one. The executor
  contract says an action may run for unbounded time. So nothing in the
  code makes an invocation end, and a hung transfer leaves its temporary
  copy in the directory; a termination property would hold only by
  assuming that away.

`CHECK_DEADLOCK FALSE` is used because the processes exit: the final
states are the closed channel and the ended invocations.

## Proofs (TLAPS)

`ScriptChannelProofs` proves the following for every `Dialect` and every
`MaxUnits` in `Nat \ {0}` (the assumptions `DialectAssumption` and
`MaxUnitsAssumption`):

* `TypeCorrect`: `Spec => []TypeOK`;
* `AnsweredOnceHolds`: `Spec => []AnsweredOnce`;
* `ConservationHolds`: `Spec => []ReplyConservation`;
* `InOrderHolds`: when `Dialect = "s3270"`, `Spec => []InOrder`.

None of these is inductive by itself. The inductive invariant `IInv`
combines `TypeOK`, `AnsweredOnce`, `ReplyConservation`,
`nread <= Len(sent)`, `running \subseteq 1..nread` and
`rcvd <= Len(out)`:

* the bound on `rcvd` needs `Len(out) <= MaxUnits`, which comes from the
  conservation law;
* `AnsweredOnce` needs running requests to lie below `nread`, so that a
  freshly read unit is neither answered nor running.

For `InOrder`, `SerialInv` adds `running \subseteq {nread}`: s3270 runs at
most the last unit it read. So the next reply, whether a parse error or a
completion, answers unit `Len(out) + 1`.

Each proof shows `Init => IInv` and `IInv /\ [Next]_vars => IInv'`, with
one step per action. The lemmas `ReplyTyping`, `RunningFinite`,
`InputsTyped`, `AppendAnswer` and `AnswerNext` carry the facts shared by
the steps.

`SendScriptProofs` proves, for any sets of invocations, names, components
and folders (assumptions `NoExtAssumption`, `ProcsAssumption`):

* `TypeCorrect`: `Spec => []TypeOK`;
* `NoLeftoverHolds`: `Spec => []NoLeftover`.

`NoLeftover` speaks only of final states, so it is not inductive. The
inductive invariant `IInv` says where a copy in the directory comes from.
It belongs to an invocation that has copied it and has not yet removed it
(or has crashed), and it sits under that invocation's own file name.
`TypeOK` needs more for the Transfer step: whoever wrote the script an
s3270 child read has arguments that passed the folder check
(`ValidArgs`), so the hostfile is a known data set (lemma
`HostFileTyped`). TLC checked `IInv` on the two-invocation instance
before it was proved.

`ChannelSafetyProofs` proves, for both dialects and every `MaxUnits`,
`NothingReadAfterFatalHolds`, `UnreadOnlyAfterFatalHolds` and
`DrainBeforeCloseHolds`. The invariant `SafeInv` adds four facts about
history to `IInv`:

* S1: a fatal reply answers the last unit read, and the channel has not
  been open since;
* S2: every unit read is running or answered;
* S3: the channel stops reading only after `Quit()`, a fatal error, or
  EOF once every unit was read;
* S4: the output closes with nothing running, unless `Quit()` closed it.

`DrainBeforeClose` follows from S2, S4 and `AnsweredOnce`.

`ChannelRefinementProofs` proves `Refinement`: `Spec => ChannelRefined`
for both dialects and every `MaxUnits`. Initial states map to the
abstract initial state. Each step, given `RInv` (`IInv`, plus `SerialInv`
for s3270) before and after, is an abstract step or a stutter:

* a read that parses is `Accept`;
* a read answered at once (an error) is `Accept` with its answer
  (lemmas `AcceptAnswered`, `ReplyRefines`);
* a completion is `Answer`, because the request is read and unanswered
  (`AnsweredOnce`);
* `Close` is `Close`;
* sending, `Shutdown`, `Recv` and `ReadEof` change nothing the client sees.

For s3270 the answer is to request `Len(out) + 1` because `InOrder`
holds after the step. The lemma `AnsOfAppend` relates the mapped answers
to `Append`.

`ChannelReplyProofs` proves two more channel theorems, for every `MaxUnits`.

* `SyntaxErrorIsLegacyHolds`: when `Dialect = "s3270"`,
  `Spec => []SyntaxErrorIsLegacy`. A completion writes a reply in the
  format its unit claimed. That is harmless only because a running unit
  was parsed. `ReplyInv` records that only parsed units run
  (`ParsedRunning`), and that each reply to a rejected unit is the reply its
  handler built (`ErrorReplies`, which holds in both dialects). The lemma
  `SendKeepsRead` shows that the client's appends leave the units read
  unchanged.
* `QuitIsLastHolds`, for both dialects: `Spec => []QuitIsLast`. `QuitInv`
  says the units sent are inputs of the dialect (`SentInputs`). It also
  says a reply to a `Quit()` run comes last, with the output closed
  (`QuitClosed`). No reply can follow, because nothing is written once the
  output is closed. A parse error is never written for a `Quit()` unit,
  because such units parse (lemma `QuitInputs`). s3270 clients send no
  `Quit()`.

`SendScriptProofs` also proves two upload theorems.

* `SuccessMeansUploadedAlone`: when `Procs = {p}`,
  `Spec => []SuccessMeansUploaded`. `UOf(p)` says that, from the copy to
  the scan, the file of the invocation's name is its own copy. It also
  says a completed Transfer went to `HostFile(arg[p])`, and a report of
  success rests on a completed Transfer. With `IInv`, the script s3270 read
  is the invocation's own. With two invocations the theorem is false, and
  run `send_race` shows how. Its hypothesis is the case of one invocation
  at a time.
* `HostOnlyCopiesHolds`, for any number of invocations:
  `Spec => []HostOnlyCopies`. `CopiedNotUser` says a name an invocation
  has copied to holds a copy or nothing from then on, never the user's
  file. The script s3270 runs was written by such an invocation.

`LineFramerProofs` proves two framer theorems for every `MaxLen` and
`MaxChunk` (the assumptions of `LineFramer`).

* `TypeOKHolds`: `Spec => []TypeOK`. `TypeOK` is not inductive: it allows
  an open object of depth 0 (the next closing brace would make it
  negative) and positions past the bytes received. `FramerOK` adds what
  the framer keeps: an object or member mode has depth at least 1, a unit
  under way has a start, and every position in the state and in the units
  is at most `got`.
* `UnitsDelimitedHolds`: `Spec => []UnitsDelimited`. `FramerDelim` says
  the same of every unit, and also that the start of an object or string
  under way holds its opening brace or quote.

A read feeds its bytes through `Trace`, a function defined by recursion on
the number of bytes. The provers cannot instantiate the library's
induction theorems, whose predicate is an operator parameter. So each
induction on a natural number is argued by a least counterexample: the set
of bad indices, if nonempty, has a least element (`LeastElement`, from
`WFMin` and `NatLessThanWellFounded`), and its predecessor is good. This
shows `Trace` meets its defining equation (`TraceDef`), and that each
prefix of a read keeps `FramerOK` (`TraceOK`) and `FramerDelim`
(`TraceDelim`). The per-byte facts are `FeedOK` and `FeedDelim`.

Two changes to the model came from the proofs. The `CASE` arms of
`InObject` and `InQuoted` overlapped: TLC takes the first true arm, but
the value of such a `CASE` is unspecified, so no proof can settle it. The
guards are now disjoint, with the same behaviour and state count. The
brace characters are named `"ob"` and `"cb"`, because the SMT backend
fails on the one-character strings of the braces.

Left to TLC:

* liveness: `Termination` of `ScriptChannel`, and anything with `ENABLED`;
* the violation runs;
* the framer's `FramedAsReference`. It compares the state machine with
  `RefFrom`, which is `RECURSIVE`; a module that reaches a `RECURSIVE`
  operator loses the SMT backend, and what a recursive definition computes
  for every input would need induction with an operator parameter, which
  the installed provers cannot instantiate.

## Not modelled (yet)

* The composition of `LineFramer` with `ScriptChannel` (each unit framed is
  a unit read): the two are checked apart.
* The terminal-model / extended-data-stream table
  (`testExtendedDataStream.py`) and the HTTP REST transport.
* The tcl3270/s3270 parent and child lifecycle (`Linger.py`).
* Screen and XML smoke tests (`c3270/testSmoke.py`, `tcl3270/Smoke.py`,
  `b3270/testSmoke.py`, `testSuffix.py`): saved-output comparisons with no
  state to explore.
