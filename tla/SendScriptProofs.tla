-------------------------- MODULE SendScriptProofs --------------------------
(***************************************************************************)
(* Proofs about SendScript, for any number of concurrent invocations.     *)
(*                                                                         *)
(* NoLeftover is not inductive: it speaks only of final states.  IInv says *)
(* where a temporary copy can come from: a copy in the directory belongs   *)
(* to an invocation that has copied and not yet removed (or crashed), and  *)
(* it sits under that invocation's own file name.  TypeOK needs, for the   *)
(* Transfer step, that the script an s3270 child read was written by an    *)
(* invocation whose arguments passed the folder check.                     *)
(***************************************************************************)
EXTENDS SendScript, TLAPS

Active == {"checked", "copied", "scripted", "launched", "loggedOn",
           "transferred", "scanned", "crashed", "done"}
PostScript == {"scripted", "launched", "loggedOn", "transferred", "scanned", "done"}
PostLaunch == {"launched", "loggedOn", "transferred", "scanned", "done"}
Holding == {"copied", "scripted", "launched", "loggedOn", "transferred",
            "scanned", "crashed"}

ValidArgs(q) == arg[q] \in Args /\ arg[q].folder \in DOMAIN DataSet

IInv ==
  /\ TypeOK
  /\ \A q \in Procs : pc[q] \in Active => ValidArgs(q)
  /\ script \in Procs => pc[script] \in PostScript
  /\ \A p \in Procs : pc[p] \in PostScript => script \in Procs
  /\ \A p \in Procs : pc[p] \in PostLaunch => ran[p] \in Procs /\ pc[ran[p]] \in PostScript
  /\ \A n \in Names : cwd[n] \in Procs => pc[cwd[n]] \in Holding /\ arg[cwd[n]].name = n


PcValues == {"idle", "checked", "copied", "scripted", "launched", "loggedOn",
             "transferred", "scanned"} \cup Terminal

-----------------------------------------------------------------------------
(* The hostfile built from arguments that passed the folder check is one   *)
(* of the host data sets.                                                  *)
LEMMA HostFileTyped ==
  ASSUME NEW a \in Args, a.folder \in DOMAIN DataSet
  PROVE  HostFile(a) \in Targets
<1>1. Stem(a.name) \in {Stem(n) : n \in Names}
  BY DEF Args
<1>2. a.comp \in Comps
  BY DEF Args
<1> QED
  BY <1>1, <1>2 DEF HostFile, Targets

LEMMA InitIInv == Init => IInv
<1> SUFFICES ASSUME Init PROVE IInv
  OBVIOUS
<1>1. TypeOK
  <2>1. \A t \in Targets : "none" \in Contents
    BY DEF Contents
  <2>2. Xfer("none", NoTarget, "none") \in Xfers
    BY DEF Xfer, Xfers, Contents
  <2> QED
    BY <2>1, <2>2 DEF Init, TypeOK, Contents, Terminal, NoArgs
<1>2. \A n \in Names : cwd[n] \notin Procs
  BY ProcsAssumption DEF Init
<1> QED
  BY <1>1, <1>2, ProcsAssumption DEF Init, IInv, Active, PostScript, PostLaunch

LEMMA NextIInv == IInv /\ [Next]_vars => IInv'
<1> SUFFICES ASSUME IInv, [Next]_vars PROVE IInv'
  OBVIOUS
<1> USE DEF IInv
<1>0. /\ pc \in [Procs -> PcValues] /\ cwd \in [Names -> Contents]
      /\ arg \in [Procs -> Args \cup {NoArgs}]
  BY DEF TypeOK, PcValues, Terminal
<1>1. ASSUME NEW p \in Procs, Start(p) PROVE IInv'
  <2>1. /\ p \notin {script} /\ \A r \in Procs : pc[r] \in PostLaunch => ran[r] # p
        /\ \A n \in Names : cwd[n] # p
    BY <1>1 DEF Start, PostScript, PostLaunch, Holding
  <2>2. CASE pc' = [pc EXCEPT ![p] = "exited"] /\ UNCHANGED arg
    BY <1>1, <2>1, <2>2, <1>0 DEF Start, TypeOK, Active, PostScript, PostLaunch, Holding, ValidArgs, Terminal
  <2>3. CASE \E a \in Args :
               /\ arg' = [arg EXCEPT ![p] = a]
               /\ pc' = [pc EXCEPT ![p] = IF a.folder \in DOMAIN DataSet
                                          THEN "checked" ELSE "exited"]
    <3>1. PICK a \in Args :
               /\ arg' = [arg EXCEPT ![p] = a]
               /\ pc' = [pc EXCEPT ![p] = IF a.folder \in DOMAIN DataSet
                                          THEN "checked" ELSE "exited"]
      BY <2>3
    <3>2. TypeOK'
      BY <1>1, <3>1, <1>0 DEF Start, TypeOK, Terminal
    <3>3. \A q \in Procs : pc'[q] \in Active => ValidArgs(q)'
      BY <1>1, <3>1, <1>0 DEF Start, Active, ValidArgs
    <3>4. \A r \in Procs : pc'[r] \in PostScript => pc[r] \in PostScript /\ pc'[r] = pc[r]
      BY <3>1, <1>0 DEF PostScript
    <3>5. \A n \in Names : cwd'[n] \in Procs => pc'[cwd'[n]] = pc[cwd'[n]] /\ arg'[cwd'[n]] = arg[cwd'[n]]
      BY <1>1, <2>1, <3>1, <1>0 DEF Start
    <3> QED
      BY <1>1, <2>1, <3>1, <3>2, <3>3, <3>4, <3>5, <1>0
      DEF Start, PostScript, PostLaunch
  <2> QED
    BY <1>1, <2>2, <2>3 DEF Start
<1>2. ASSUME NEW p \in Procs, Copy(p) PROVE IInv'
  <2>1. /\ ValidArgs(p) /\ p \notin {script}
        /\ \A r \in Procs : pc[r] \in PostLaunch => ran[r] # p
        /\ \A n \in Names : cwd[n] # p
    BY <1>2 DEF Copy, Active, PostScript, PostLaunch, Holding
  <2>2. arg[p].name \in Names
    BY <2>1 DEF ValidArgs, Args
  <2>3. CASE cwd' = [cwd EXCEPT ![arg[p].name] = p] /\ pc' = [pc EXCEPT ![p] = "copied"]
    <3>1. TypeOK'
      BY <1>2, <2>2, <2>3, <1>0 DEF Copy, TypeOK, Contents, Terminal
    <3> QED
      BY <1>2, <2>1, <2>2, <2>3, <3>1, <1>0
      DEF Copy, Active, PostScript, PostLaunch, Holding, ValidArgs
  <2>4. CASE pc' = [pc EXCEPT ![p] = "exited"] /\ UNCHANGED cwd
    BY <1>2, <2>1, <2>4, <1>0
    DEF Copy, TypeOK, Terminal, Active, PostScript, PostLaunch, Holding, ValidArgs
  <2> QED
    BY <1>2, <2>3, <2>4 DEF Copy
<1>3. ASSUME NEW p \in Procs, CrearScript(p) PROVE IInv'
  <2>1. CASE scriptDir /\ script' = p /\ pc' = [pc EXCEPT ![p] = "scripted"]
    <3>1. TypeOK'
      BY <1>3, <2>1, <1>0 DEF CrearScript, TypeOK, Terminal
    <3> QED
      BY <1>3, <2>1, <3>1, <1>0
      DEF CrearScript, Active, PostScript, PostLaunch, Holding, ValidArgs
  <2>2. CASE ~scriptDir /\ pc' = [pc EXCEPT ![p] = "crashed"] /\ UNCHANGED script
    BY <1>3, <2>2, <1>0
    DEF CrearScript, TypeOK, Terminal, Active, PostScript, PostLaunch, Holding, ValidArgs
  <2> QED
    BY <1>3, <2>1, <2>2 DEF CrearScript
<1>4. ASSUME NEW p \in Procs, Launch(p) PROVE IInv'
  <2>1. script \in Procs /\ pc[script] \in PostScript
    BY <1>4 DEF Launch, PostScript
  <2>2. TypeOK'
    BY <1>4, <2>1, <1>0 DEF Launch, TypeOK, Terminal
  <2>3. /\ \A r \in Procs : pc'[r] \in PostScript <=> pc[r] \in PostScript
        /\ \A r \in Procs : pc'[r] \in Holding <=> pc[r] \in Holding
        /\ \A r \in Procs : pc'[r] \in Active <=> pc[r] \in Active
    BY <1>4, <1>0 DEF Launch, PostScript, Holding, Active
  <2>4. \A r \in Procs : pc'[r] \in PostLaunch => ran'[r] \in Procs /\ pc'[ran'[r]] \in PostScript
    BY <1>4, <2>1, <2>3, <1>0 DEF Launch, PostLaunch, TypeOK
  <2> QED
    BY <1>4, <2>2, <2>3, <2>4 DEF Launch, ValidArgs
<1>5. ASSUME NEW p \in Procs, Logon(p) PROVE IInv'
  <2>1. TypeOK'
    BY <1>5, <1>0 DEF Logon, TypeOK, Terminal
  <2> QED
    BY <1>5, <2>1, <1>0
    DEF Logon, Active, PostScript, PostLaunch, Holding, ValidArgs
<1>6. ASSUME NEW p \in Procs, Transfer(p) PROVE IInv'
  <2> DEFINE q == ran[p]
  <2> DEFINE n == arg[q].name
  <2> DEFINE t == HostFile(arg[q])
  <2>1. q \in Procs /\ ValidArgs(q)
    BY <1>6 DEF Transfer, PostLaunch, PostScript, Active
  <2>2. n \in Names /\ t \in Targets /\ cwd[n] \in Contents
    BY <2>1, HostFileTyped, <1>0 DEF ValidArgs, Args
  <2>3. /\ pc' = [pc EXCEPT ![p] = "transferred"]
        /\ UNCHANGED <<arg, cwd, scriptDir, script, ran, pwd, report>>
        /\ \/ host' = [host EXCEPT ![t] = cwd[n]] /\ xfer' = [xfer EXCEPT ![p] = Xfer("complete", t, cwd[n])]
           \/ xfer' = [xfer EXCEPT ![p] = Xfer("error", NoTarget, "none")] /\ UNCHANGED host
    BY <1>6 DEF Transfer
  <2>4. /\ Xfer("complete", t, cwd[n]) \in Xfers
        /\ Xfer("error", NoTarget, "none") \in Xfers
    BY <2>2 DEF Xfer, Xfers, Contents
  <2>5. TypeOK'
    BY <2>2, <2>3, <2>4, <1>0 DEF TypeOK, Terminal
  <2>6. /\ \A r \in Procs : pc'[r] \in PostScript <=> pc[r] \in PostScript
        /\ \A r \in Procs : pc'[r] \in PostLaunch <=> pc[r] \in PostLaunch
        /\ \A r \in Procs : pc'[r] \in Holding <=> pc[r] \in Holding
        /\ \A r \in Procs : pc'[r] \in Active <=> pc[r] \in Active
    <3>1. pc[p] = "loggedOn"
      BY <1>6 DEF Transfer
    <3> QED
      BY <3>1, <2>3, <1>0 DEF PostScript, PostLaunch, Holding, Active
  <2> QED
    BY <2>3, <2>5, <2>6 DEF ValidArgs
<1>7. ASSUME NEW p \in Procs, Scan(p) PROVE IInv'
  <2>1. TypeOK'
    BY <1>7, <1>0 DEF Scan, TypeOK, Terminal
  <2> QED
    BY <1>7, <2>1, <1>0
    DEF Scan, Active, PostScript, PostLaunch, Holding, ValidArgs
<1>8. ASSUME NEW p \in Procs, Remove(p) PROVE IInv'
  <2>1. arg[p].name \in Names
    BY <1>8 DEF Remove, Active, ValidArgs, Args
  <2>2. TypeOK'
    BY <1>8, <2>1, <1>0 DEF Remove, TypeOK, Terminal, Contents
  <2>3. \A m \in Names : cwd'[m] \in Procs => cwd'[m] = cwd[m] /\ cwd[m] # p
    BY <1>8, <2>1, <1>0, ProcsAssumption DEF Remove, Holding
  <2> QED
    BY <1>8, <2>2, <2>3, <1>0
    DEF Remove, Active, PostScript, PostLaunch, Holding, ValidArgs
<1>9. CASE UNCHANGED vars
  BY <1>9 DEF vars, TypeOK, Active, PostScript, PostLaunch, Holding, ValidArgs
<1> QED
  BY <1>1, <1>2, <1>3, <1>4, <1>5, <1>6, <1>7, <1>8, <1>9 DEF Next, Step

-----------------------------------------------------------------------------
(* The upload's type invariant holds for any number of invocations. *)
THEOREM TypeCorrect == Spec => []TypeOK
BY InitIInv, NextIInv, PTL DEF Spec, IInv

(* Once every invocation has ended normally, no temporary copy is left in  *)
(* the directory, for any number of concurrent invocations and however     *)
(* their copies (shutil.copy) and removals (os.remove) interleave.         *)
THEOREM NoLeftoverHolds == Spec => []NoLeftover
<1>1. IInv => NoLeftover
  BY ProcsAssumption DEF IInv, TypeOK, NoLeftover, Holding, Contents
<1> QED
  BY <1>1, InitIInv, NextIInv, PTL DEF Spec

-----------------------------------------------------------------------------
(***************************************************************************)
(* An invocation running alone reports success only for its own upload.   *)
(* SuccessMeansUploaded is not inductive: a report of success rests on the *)
(* Transfer that came before it, and that Transfer uploaded the right file *)
(* only because, from the copy to the scan, the file of the invocation's   *)
(* name was its own copy and the script s3270 read was its own.  With     *)
(* another invocation around, both facts fail (run send_race).             *)
(***************************************************************************)
Own == {"copied", "scripted", "launched", "loggedOn", "transferred", "scanned"}
Before == {"idle", "checked", "copied", "scripted", "launched", "loggedOn"}

\* What one invocation q keeps true from its copy to its report.
UOf(q) ==
  /\ pc[q] \in Own => cwd[arg[q].name] = q
  /\ pc[q] \in Before => xfer[q].st = "none" /\ report[q] = "none"
  /\ xfer[q].st = "complete" => xfer[q] = Xfer("complete", HostFile(arg[q]), q)
  /\ report[q] = "ok" => xfer[q].st = "complete"

UInv == \A q \in Procs : UOf(q)

LEMMA InitU == Init => UInv
BY DEF Init, UInv, UOf, Own, Before, Xfer

LEMMA NextU ==
  ASSUME NEW p \in Procs, Procs = {p}, IInv, UInv, [Next]_vars
  PROVE  UInv'
<1> USE DEF IInv
<1> SUFFICES UOf(p)'
  BY DEF UInv
<1>0. /\ UOf(p) /\ pc \in [Procs -> PcValues] /\ xfer \in [Procs -> Xfers]
      /\ report \in [Procs -> {"none", "ok", "error"}] /\ cwd \in [Names -> Contents]
  BY DEF UInv, TypeOK, PcValues, Terminal
<1>1. CASE Start(p)
  <2>1. pc[p] = "idle" /\ pc'[p] \in {"checked", "exited"} /\ UNCHANGED <<xfer, report>>
    BY <1>1, <1>0 DEF Start
  <2> QED
    BY <1>0, <2>1 DEF UOf, Own, Before
<1>2. CASE Copy(p)
  <2>1. arg[p].name \in Names
    BY <1>2 DEF Copy, Active, ValidArgs, Args
  <2> QED
    BY <1>2, <1>0, <2>1 DEF Copy, UOf, Own, Before
<1>3. CASE CrearScript(p) \/ Launch(p) \/ Logon(p)
  BY <1>3, <1>0 DEF CrearScript, Launch, Logon, UOf, Own, Before
<1>4. CASE Transfer(p)
  <2> DEFINE nm == arg[p].name
  <2> DEFINE tg == HostFile(arg[p])
  <2>1. ran[p] = p /\ pc[p] = "loggedOn"
    BY <1>4 DEF Transfer, PostLaunch
  <2>2. cwd[nm] = p /\ report[p] = "none"
    BY <2>1, <1>0 DEF UOf, Own, Before
  <2>3. /\ pc'[p] = "transferred"
        /\ UNCHANGED <<arg, cwd, report>>
        /\ \/ xfer'[p] = Xfer("complete", tg, p)
           \/ xfer'[p] = Xfer("error", NoTarget, "none")
    <3>1. /\ pc' = [pc EXCEPT ![p] = "transferred"]
          /\ UNCHANGED <<arg, cwd, report>>
          /\ \/ xfer' = [xfer EXCEPT ![p] = Xfer("complete", HostFile(arg[ran[p]]),
                                                 cwd[arg[ran[p]].name])]
             \/ xfer' = [xfer EXCEPT ![p] = Xfer("error", NoTarget, "none")]
      BY <1>4 DEF Transfer
    <3>2. HostFile(arg[ran[p]]) = tg /\ cwd[arg[ran[p]].name] = p
      BY <2>1, <2>2
    <3> QED
      BY <3>1, <3>2, <1>0
  <2>4. HostFile(arg[p])' = tg /\ cwd'[arg'[p].name] = p /\ report'[p] = "none"
    BY <2>2, <2>3
  <2>5. xfer'[p].st = "complete" => xfer'[p] = Xfer("complete", tg, p)
    BY <2>3 DEF Xfer
  <2> QED
    BY <2>3, <2>4, <2>5 DEF UOf, Own, Before
<1>5. CASE Scan(p)
  BY <1>5, <1>0 DEF Scan, UOf, Own, Before
<1>6. CASE Remove(p)
  BY <1>6, <1>0 DEF Remove, UOf, Own, Before
<1>7. CASE UNCHANGED vars
  BY <1>7, <1>0 DEF vars, UOf
<1> QED
  BY <1>1, <1>2, <1>3, <1>4, <1>5, <1>6, <1>7 DEF Next, Step

(***************************************************************************)
(* send.py run alone prints ARCHIVOS ENVIADOS CORRECTAMENTE only when the  *)
(* Transfer of its s3270 child uploaded the copy it made to the hostfile   *)
(* built from its own arguments (crear_script's Transfer line).            *)
(***************************************************************************)
THEOREM SuccessMeansUploadedAlone ==
  ASSUME NEW p \in Procs, Procs = {p}
  PROVE  Spec => []SuccessMeansUploaded
<1>1. Init => IInv /\ UInv
  BY InitIInv, InitU
<1>2. IInv /\ UInv /\ [Next]_vars => (IInv /\ UInv)'
  BY NextIInv, NextU
<1>3. UInv => SuccessMeansUploaded
  BY DEF UInv, UOf, SuccessMeansUploaded
<1> QED
  BY <1>1, <1>2, <1>3, PTL DEF Spec


-----------------------------------------------------------------------------
(***************************************************************************)
(* Only temporary copies reach the host, for any number of invocations.    *)
(* HostOnlyCopies is not inductive: a Transfer uploads whatever file has   *)
(* the script's name in the directory, and that is never the user's only   *)
(* because the invocation that wrote the script copied a file of that      *)
(* name first, and since then the name has held a copy or nothing.         *)
(***************************************************************************)
PostCopy == Holding \cup {"done"}

CopiedNotUser == \A q \in Procs : pc[q] \in PostCopy => cwd[arg[q].name] # "user"

LEMMA InitCopies == Init => HostOnlyCopies /\ CopiedNotUser
BY DEF Init, HostOnlyCopies, CopiedNotUser, PostCopy, Holding

LEMMA NextCopies ==
  ASSUME IInv, HostOnlyCopies, CopiedNotUser, [Next]_vars
  PROVE  HostOnlyCopies' /\ CopiedNotUser'
<1> USE DEF IInv
<1>0. /\ pc \in [Procs -> PcValues] /\ cwd \in [Names -> Contents]
      /\ arg \in [Procs -> Args \cup {NoArgs}] /\ host \in [Targets -> Contents]
  BY DEF TypeOK, PcValues, Terminal
<1>1. ASSUME NEW p \in Procs, Start(p) PROVE HostOnlyCopies' /\ CopiedNotUser'
  <2>1. pc[p] = "idle" /\ pc'[p] \notin PostCopy
    BY <1>1, <1>0 DEF Start, PostCopy, Holding
  <2>2. \A q \in Procs \ {p} : pc'[q] = pc[q] /\ arg'[q] = arg[q]
    BY <1>1, <1>0 DEF Start
  <2> QED
    BY <1>1, <2>1, <2>2 DEF Start, HostOnlyCopies, CopiedNotUser
<1>2. ASSUME NEW p \in Procs, Copy(p) PROVE HostOnlyCopies' /\ CopiedNotUser'
  <2>1. arg[p].name \in Names
    BY <1>2 DEF Copy, Active, ValidArgs, Args
  <2>2. CASE cwd' = [cwd EXCEPT ![arg[p].name] = p] /\ pc' = [pc EXCEPT ![p] = "copied"]
    <3>1. \A m \in Names : cwd'[m] # "user" \/ cwd'[m] = cwd[m]
      BY <2>1, <2>2, <1>0, ProcsAssumption
    <3>2. cwd'[arg[p].name] = p /\ p # "user"
      BY <2>1, <2>2, <1>0, ProcsAssumption
    <3> QED
      BY <1>2, <2>2, <3>1, <3>2, <1>0 DEF Copy, HostOnlyCopies, CopiedNotUser
  <2>3. CASE pc' = [pc EXCEPT ![p] = "exited"] /\ UNCHANGED cwd
    BY <1>2, <2>3, <1>0 DEF Copy, HostOnlyCopies, CopiedNotUser, PostCopy, Holding
  <2> QED
    BY <1>2, <2>2, <2>3 DEF Copy
<1>3. ASSUME NEW p \in Procs, CrearScript(p) \/ Launch(p) \/ Logon(p) \/ Scan(p)
      PROVE  HostOnlyCopies' /\ CopiedNotUser'
  <2>1. \A q \in Procs : pc[q] \in PostCopy => pc'[q] \in PostCopy
    BY <1>3, <1>0 DEF CrearScript, Launch, Logon, Scan, PostCopy, Holding
  <2>2. \A q \in Procs : pc'[q] \in PostCopy => pc[q] \in PostCopy
    BY <1>3, <1>0 DEF CrearScript, Launch, Logon, Scan, PostCopy, Holding
  <2> QED
    BY <1>3, <2>2 DEF CrearScript, Launch, Logon, Scan, HostOnlyCopies, CopiedNotUser
<1>4. ASSUME NEW p \in Procs, Transfer(p) PROVE HostOnlyCopies' /\ CopiedNotUser'
  <2> DEFINE q == ran[p]
  <2> DEFINE nm == arg[q].name
  <2> DEFINE tg == HostFile(arg[q])
  <2>1. q \in Procs /\ pc[q] \in PostCopy /\ ValidArgs(q)
    BY <1>4 DEF Transfer, PostLaunch, PostScript, PostCopy, Holding, Active
  <2>2. nm \in Names /\ tg \in Targets
    BY <2>1, HostFileTyped DEF ValidArgs, Args
  <2>3. cwd[nm] # "none" => cwd[nm] \in Procs
    BY <2>1, <2>2, <1>0 DEF CopiedNotUser, Contents
  <2>4. \/ host' = [host EXCEPT ![tg] = cwd[nm]] /\ cwd[nm] # "none"
        \/ UNCHANGED host
    BY <1>4 DEF Transfer
  <2>5. HostOnlyCopies'
    BY <2>2, <2>3, <2>4, <1>0 DEF HostOnlyCopies
  <2>6. pc'[p] \in PostCopy /\ pc[p] \in PostCopy
        /\ \A r \in Procs \ {p} : pc'[r] = pc[r]
    BY <1>4, <1>0 DEF Transfer, PostCopy, Holding
  <2> QED
    BY <1>4, <2>5, <2>6 DEF Transfer, CopiedNotUser
<1>5. ASSUME NEW p \in Procs, Remove(p) PROVE HostOnlyCopies' /\ CopiedNotUser'
  <2>1. arg[p].name \in Names
    BY <1>5 DEF Remove, Active, ValidArgs, Args
  <2>2. \A m \in Names : cwd'[m] = cwd[m] \/ cwd'[m] = "none"
    BY <1>5, <2>1, <1>0 DEF Remove
  <2>3. \A r \in Procs : pc'[r] \in PostCopy => pc[r] \in PostCopy
    BY <1>5, <1>0 DEF Remove, PostCopy, Holding
  <2> QED
    BY <1>5, <2>2, <2>3 DEF Remove, HostOnlyCopies, CopiedNotUser
<1>6. CASE UNCHANGED vars
  BY <1>6 DEF vars, HostOnlyCopies, CopiedNotUser
<1> QED
  BY <1>1, <1>2, <1>3, <1>4, <1>5, <1>6 DEF Next, Step

(***************************************************************************)
(* For any number of concurrent invocations, a host data set only ever     *)
(* receives a temporary copy one of them made (shutil.copy), never a file  *)
(* the user had in the directory: a failed copy ends main() before         *)
(* crear_script writes the Transfer line.                                  *)
(***************************************************************************)
THEOREM HostOnlyCopiesHolds == Spec => []HostOnlyCopies
<1>1. Init => IInv /\ HostOnlyCopies /\ CopiedNotUser
  BY InitIInv, InitCopies
<1>2. IInv /\ HostOnlyCopies /\ CopiedNotUser /\ [Next]_vars
        => (IInv /\ HostOnlyCopies /\ CopiedNotUser)'
  BY NextIInv, NextCopies
<1> QED
  BY <1>1, <1>2, PTL DEF Spec

=============================================================================
