----------------------------- MODULE SendScript -----------------------------
(***************************************************************************)
(* The upload helper of VISUAL_ESTUDIO_CODE: send.py main() and makes.py  *)
(* crear_script().  Each invocation copies the local file into the         *)
(* current directory, writes .script/script.s3270, runs                    *)
(* "s3270 -script HOST < .script/script.s3270", scans the output for       *)
(* "Transfer complete" and removes the temporary copy.                     *)
(*                                                                         *)
(* Several invocations may run at once (two editor tasks, two terminals): *)
(* they share the current directory, the fixed script path and the host   *)
(* data sets.  File contents are abstracted to their origin: "user" for a *)
(* file that was in the directory before, or the invocation that copied   *)
(* it.  The s3270 session is modelled from the channel's contract: an     *)
(* action that fails (a Wait that times out) is reported and the script   *)
(* goes on with the next line.                                             *)
(***************************************************************************)
EXTENDS Naturals, FiniteSets

CONSTANTS
  Procs,    \* concurrent invocations of send.py
  Names,    \* base names of local files (os.path.basename(ruta_local))
  NoExt,    \* the names that contain no dot
  Comps,    \* component names given as argv[1]
  Folders   \* parent folder names of ruta_local, valid or not

ASSUME NoExtAssumption == NoExt \subseteq Names

\* Invocations are told apart from the "none" and "user" file origins.
ASSUME ProcsAssumption == Procs \cap {"none", "user"} = {}

\* send.py mapping: valid parent folders and their host data sets.
DataSet == [src |-> "IBMUSER.PO.SRC", prc |-> "IBMUSER.PO.PRC",
            ctc |-> "IBMUSER.PO.CTC", rus |-> "IBMUSER.PO.RUS",
            jcl |-> "IBMUSER.PO.JCL", copys |-> "IBMUSER.COBOL.COPYS",
            archivo |-> "IBMUSER.PS.ARCHIVO"]

\* '.'.join(nombre_cpt.split('.')[:-1]): a name without a dot loses
\* everything; a name with one keeps its stem (the name stands for it).
Stem(n) == IF n \in NoExt THEN "" ELSE n

\* Fault variant: the library member is named after the file, not argv[1].
HostFileByName(a) ==
  IF DataSet[a.folder] = "IBMUSER.PS.ARCHIVO"
  THEN <<DataSet[a.folder], Stem(a.name)>>
  ELSE <<DataSet[a.folder], a.name>>

\* crear_script: the hostfile of the Transfer line, as <<data set, last
\* qualifier or member>>.  "IBMUSER.PS.ARCHIVO.<stem>" for the sequential
\* data set, "<data set>(<COMPONENT>)" for the libraries.
HostFile(a) ==
  IF DataSet[a.folder] = "IBMUSER.PS.ARCHIVO"
  THEN <<DataSet[a.folder], Stem(a.name)>>
  ELSE <<DataSet[a.folder], a.comp>>

Args == [name : Names, folder : Folders, comp : Comps]
NoArgs == [name |-> "none", folder |-> "none", comp |-> "none"]
Targets == {<<DataSet[f], q>> : f \in DOMAIN DataSet,
                                q \in Comps \cup {Stem(n) : n \in Names}}
Contents == {"none", "user"} \cup Procs
Terminal == {"exited", "crashed", "done"}
NoTarget == <<"none", "none">>
\* The Transfer() line's outcome: what went where.
Xfer(st, t, d) == [st |-> st, to |-> t, data |-> d]

VARIABLES
  pc,        \* where each invocation is in main()
  arg,       \* its command-line arguments
  cwd,       \* origin of the file of each name in the current directory
  scriptDir, \* whether .script/ exists (nothing in the code creates it)
  script,    \* who last wrote .script/script.s3270
  ran,       \* whose script the s3270 child of each invocation read
  pwd,       \* where the s3270 child typed the password
  xfer,      \* outcome of the Transfer() line: what went where, or error
  host,      \* origin of the contents of each host data set
  report     \* what each invocation printed: ENVIADOS CORRECTAMENTE or ERROR

vars == <<pc, arg, cwd, scriptDir, script, ran, pwd, xfer, host, report>>

Init ==
  /\ pc = [p \in Procs |-> "idle"]
  /\ arg = [p \in Procs |-> NoArgs]
  /\ cwd \in [Names -> {"none", "user"}]
  /\ scriptDir \in BOOLEAN
  /\ script = "none"
  /\ ran = [p \in Procs |-> "none"]
  /\ pwd = [p \in Procs |-> "none"]
  /\ xfer = [p \in Procs |-> Xfer("none", NoTarget, "none")]
  /\ host = [t \in Targets |-> "none"]
  /\ report = [p \in Procs |-> "none"]

-----------------------------------------------------------------------------
\* Argument count check and folder lookup; both early exits are sys.exit(1).
Start(p) ==
  /\ pc[p] = "idle"
  /\ \/ pc' = [pc EXCEPT ![p] = "exited"] /\ UNCHANGED arg
     \/ \E a \in Args :
          /\ arg' = [arg EXCEPT ![p] = a]
          /\ pc' = [pc EXCEPT ![p] = IF a.folder \in DOMAIN DataSet
                                     THEN "checked" ELSE "exited"]
  /\ UNCHANGED <<cwd, scriptDir, script, ran, pwd, xfer, host, report>>

\* Fault variant: a failed copy is reported and main() goes on.
CopyIgnoreError(p) ==
  /\ pc[p] = "checked"
  /\ \/ cwd' = [cwd EXCEPT ![arg[p].name] = p]
     \/ UNCHANGED cwd
  /\ pc' = [pc EXCEPT ![p] = "copied"]
  /\ UNCHANGED <<arg, scriptDir, script, ran, pwd, xfer, host, report>>

\* shutil.copy(ruta_local, ruta_actual) replaces any file of that name; a
\* failure (missing source, source already in the directory) exits.
Copy(p) ==
  /\ pc[p] = "checked"
  /\ \/ cwd' = [cwd EXCEPT ![arg[p].name] = p]
        /\ pc' = [pc EXCEPT ![p] = "copied"]
     \/ pc' = [pc EXCEPT ![p] = "exited"] /\ UNCHANGED cwd
  /\ UNCHANGED <<arg, scriptDir, script, ran, pwd, xfer, host, report>>

\* crear_script: open(".script/script.s3270", "w") raises when .script/ is
\* missing; nothing catches it and the temporary copy stays behind.  (Its
\* ValueError branch is unreachable: every mapped data set matches.)
CrearScript(p) ==
  /\ pc[p] = "copied"
  /\ \/ scriptDir /\ script' = p /\ pc' = [pc EXCEPT ![p] = "scripted"]
     \/ ~scriptDir /\ pc' = [pc EXCEPT ![p] = "crashed"] /\ UNCHANGED script
  /\ UNCHANGED <<arg, cwd, scriptDir, ran, pwd, xfer, host, report>>

\* After time.sleep(5), Popen: the shell opens the script file and s3270
\* reads it (it fits one read), whoever wrote it last.
Launch(p) ==
  /\ pc[p] = "scripted"
  /\ ran' = [ran EXCEPT ![p] = script]
  /\ pc' = [pc EXCEPT ![p] = "launched"]
  /\ UNCHANGED <<arg, cwd, scriptDir, script, pwd, xfer, host, report>>

\* Lines 1-7 of the script: the Wait for "Enter LOGON" may time out, and
\* s3270 goes on with MoveCursor1(8,20) and String(PASSWORD) regardless.
Logon(p) ==
  /\ pc[p] = "launched"
  /\ \E prompt \in BOOLEAN :
       pwd' = [pwd EXCEPT ![p] = IF prompt THEN "prompt" ELSE "screen"]
  /\ pc' = [pc EXCEPT ![p] = "loggedOn"]
  /\ UNCHANGED <<arg, cwd, scriptDir, script, ran, xfer, host, report>>

\* Transfer(direction=send, localfile=<name>, hostfile=<target>, exist=
\* replace): uploads the file of that name in the directory of s3270, as it
\* is now.  It needs a session, the file, and a target with a qualifier;
\* the ISPF navigation before it may still fail.
Transfer(p) ==
  /\ pc[p] = "loggedOn"
  /\ LET q == ran[p]
         n == arg[q].name
         t == HostFile(arg[q])
     IN  \/ /\ pwd[p] = "prompt" /\ cwd[n] # "none" /\ t[2] # ""
            /\ host' = [host EXCEPT ![t] = cwd[n]]
            /\ xfer' = [xfer EXCEPT ![p] = Xfer("complete", t, cwd[n])]
         \/ /\ xfer' = [xfer EXCEPT ![p] = Xfer("error", NoTarget, "none")]
            /\ UNCHANGED host
  /\ pc' = [pc EXCEPT ![p] = "transferred"]
  /\ UNCHANGED <<arg, cwd, scriptDir, script, ran, pwd, report>>

\* Fault variant: any Transfer output line counts as success.
ScanLoose(p) ==
  /\ pc[p] = "transferred"
  /\ report' = [report EXCEPT ![p] = IF xfer[p].st # "none" THEN "ok" ELSE "error"]
  /\ pc' = [pc EXCEPT ![p] = "scanned"]
  /\ UNCHANGED <<arg, cwd, scriptDir, script, ran, pwd, xfer, host>>

\* communicate() returns when s3270 exits; success iff a line contains
\* "Transfer complete".
Scan(p) ==
  /\ pc[p] = "transferred"
  /\ report' = [report EXCEPT ![p] = IF xfer[p].st = "complete" THEN "ok" ELSE "error"]
  /\ pc' = [pc EXCEPT ![p] = "scanned"]
  /\ UNCHANGED <<arg, cwd, scriptDir, script, ran, pwd, xfer, host>>

\* Fault variant: the copy is removed only after a successful upload.
RemoveOnSuccess(p) ==
  /\ pc[p] = "scanned"
  /\ cwd' = IF report[p] = "ok" THEN [cwd EXCEPT ![arg[p].name] = "none"] ELSE cwd
  /\ pc' = [pc EXCEPT ![p] = "done"]
  /\ UNCHANGED <<arg, scriptDir, script, ran, pwd, xfer, host, report>>

\* os.remove(ruta_actual/nombre_archivo): removes whatever file has that
\* name now; a missing file is only printed.
Remove(p) ==
  /\ pc[p] = "scanned"
  /\ cwd' = [cwd EXCEPT ![arg[p].name] = "none"]
  /\ pc' = [pc EXCEPT ![p] = "done"]
  /\ UNCHANGED <<arg, scriptDir, script, ran, pwd, xfer, host, report>>

Step(p) ==
  \/ Start(p) \/ Copy(p) \/ CrearScript(p) \/ Launch(p)
  \/ Logon(p) \/ Transfer(p) \/ Scan(p) \/ Remove(p)

Next == \E p \in Procs : Step(p)

\* No fairness: the Transfer() line has no timeout and communicate() waits
\* for s3270 without one (send.py:88), so an invocation may stay in its
\* Transfer forever; only safety is stated of SendScript.
Spec == Init /\ [][Next]_vars

-----------------------------------------------------------------------------
Xfers == [st : {"none", "error", "complete"}, to : Targets \cup {NoTarget},
          data : Contents]

TypeOK ==
  /\ pc \in [Procs -> {"idle", "checked", "copied", "scripted", "launched",
                       "loggedOn", "transferred", "scanned"} \cup Terminal]
  /\ arg \in [Procs -> Args \cup {NoArgs}]
  /\ cwd \in [Names -> Contents]
  /\ scriptDir \in BOOLEAN
  /\ script \in {"none"} \cup Procs
  /\ ran \in [Procs -> {"none"} \cup Procs]
  /\ pwd \in [Procs -> {"none", "prompt", "screen"}]
  /\ xfer \in [Procs -> Xfers]
  /\ host \in [Targets -> Contents]
  /\ report \in [Procs -> {"none", "ok", "error"}]

(***************************************************************************)
(* send.py prints ARCHIVOS ENVIADOS CORRECTAMENTE only when its own file   *)
(* reached its own target: the Transfer its s3270 child ran uploaded the   *)
(* copy this invocation made to the hostfile built from its arguments.    *)
(* Between crear_script and Popen lie five seconds in which another        *)
(* invocation may rewrite the shared script, and between the copy and the  *)
(* Transfer another may replace the copy.                                  *)
(***************************************************************************)
SuccessMeansUploaded ==
  \A p \in Procs :
    report[p] = "ok" => xfer[p] = Xfer("complete", HostFile(arg[p]), p)

(***************************************************************************)
(* What reaches a host data set is always a temporary copy an invocation   *)
(* made of its local file, never a file that was in the directory before:  *)
(* the Transfer line names the file by its base name in the current        *)
(* directory, and only the sys.exit(1) after a failed shutil.copy keeps an *)
(* older file of that name from being uploaded.                            *)
(***************************************************************************)
HostOnlyCopies == \A t \in Targets : host[t] \in {"none"} \cup Procs

(***************************************************************************)
(* Once every invocation has ended normally (no crash in crear_script), no *)
(* temporary copy is left in the directory, however the copies and         *)
(* removals of invocations sharing a file name interleave.                 *)
(***************************************************************************)
NoLeftover ==
  (\A p \in Procs : pc[p] \in {"exited", "done"}) =>
    \A n \in Names : cwd[n] \in {"none", "user"}

(***************************************************************************)
(* "Eliminar el archivo temporal": whatever way an invocation ends, the    *)
(* temporary copy it made is gone.  crear_script raises when .script/ does *)
(* not exist, before send.py reaches its os.remove.                        *)
(***************************************************************************)
CopyRemovedAtExit ==
  \A p \in Procs : pc[p] \in Terminal => \A n \in Names : cwd[n] # p

(***************************************************************************)
(* A file the user had in the current directory is never replaced or       *)
(* deleted by an upload (shutil.copy into the directory, then os.remove of *)
(* the same path).                                                         *)
(***************************************************************************)
UserFileKept ==
  [][\A n \in Names : cwd[n] = "user" => cwd'[n] = "user"]_vars

(***************************************************************************)
(* The script waits for the "Enter LOGON" prompt before it types the       *)
(* password: the password is never typed on another screen.                *)
(***************************************************************************)
PasswordOnlyAtPrompt == \A p \in Procs : pwd[p] # "screen"

=============================================================================
