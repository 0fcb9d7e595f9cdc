------------------------------ MODULE MC_Send ------------------------------
(* One or two invocations; two file names, one without a dot; one component; a    *)
(* library folder, the sequential data set folder and an invalid folder.   *)
EXTENDS SendScript

CONSTANTS p1, p2, n1, n2, c1

MCOneProc == {p1}
MCTwoProcs == {p1, p2}
MCNames == {n1, n2}
MCNoExt == {n2}
MCComps == {c1}
MCFolders == {"src", "archivo", "docs"}
=============================================================================
