---------------------------- MODULE MCFilesLive -----------------------------
(* The file system above the log: commits end, calls on inodes end, and the *)
(* inode layer keeps what files and directories hold.  One part per         *)
(* behaviour, chosen at the start.                                          *)
EXTENDS Log, InodeTree, FileData

VARIABLE part

filesLiveVars == <<part, vars, itVars, fdVars>>

FilesLiveInit ==
    /\ part \in {"log", "inodes", "data", "dir"}
    /\ Init /\ InodeTreeInit /\ FileDataInit

\* Calls are bounded: this part may stop.
Stopped == part = "inodes" /\ UNCHANGED filesLiveVars

FilesLiveNext ==
    \/ part = "log" /\ Running /\ UNCHANGED <<part, itVars, fdVars>>
    \/ part = "inodes" /\ InodeTreeNext /\ UNCHANGED <<part, vars, fdVars>>
    \/ part = "data" /\ FileDataNext /\ UNCHANGED <<part, vars, itVars>>
    \/ part = "dir" /\ DirNext /\ UNCHANGED <<part, vars, itVars>>
    \/ Stopped

FilesLiveSpec ==
    /\ FilesLiveInit /\ [][FilesLiveNext]_filesLiveVars
    /\ \A p \in Procs : /\ WF_vars(part = "log" /\ Release(p))
                        /\ WF_vars(part = "log" /\ Checkpoint(p))
                        /\ WF_vars(part = "log" /\ BeginSleep(p))
                        /\ SF_vars(part = "log" /\ BeginOp(p))
                        /\ SF_vars(part = "log" /\ EndOp(p))
    /\ \A p \in ItProcs : WF_itVars(part = "inodes" /\ ItStep(p))
=============================================================================
