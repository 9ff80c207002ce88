------------------------------ MODULE MCSources ------------------------------
(***************************************************************************)
(* The three sources, each of which must keep what it promises.  They share*)
(* nothing, so that one of them is chosen at the start.                    *)
(***************************************************************************)
EXTENDS GoogleSource, FileSource, PBAPDownload

VARIABLE plugin   \* the source of this run

MCDirectories == {<<>>, <<<<>>, <<Good>>>>, <<<<Good, Bad, Good>>, <<>>, <<Good>>, <<Bad>>, <<Good, Good>>>>}

sourcesVars == <<plugin, googleVars, fileVars, pbapVars>>

Init ==
  /\ plugin \in {"Google", "File", "PBAP"}
  /\ GoogleInit /\ FileInit /\ PBAPInit
  /\ plugin # "Google" => contacts = 0
  /\ plugin # "File" => disk = <<>>
  /\ plugin # "PBAP" => ~batched

Next ==
  \/ plugin = "Google" /\ GoogleNext /\ UNCHANGED <<plugin, fileVars, pbapVars>>
  \/ plugin = "File" /\ FileNext /\ UNCHANGED <<plugin, googleVars, pbapVars>>
  \/ plugin = "PBAP" /\ PBAPNext /\ UNCHANGED <<plugin, googleVars, fileVars>>

\* D-Bus calls return, the thread and its caller are scheduled, and BlueZ reports
\* the end of a transfer it has finished.  Nothing makes a suspended transfer go
\* on.  Of the Google source the same is assumed.
PBAPFairness ==
  /\ WF_pbapVars(plugin = "PBAP" /\ InitSource)
  /\ WF_pbapVars(plugin = "PBAP" /\ DownloadThread)
  /\ WF_pbapVars(plugin = "PBAP" /\ PBAPGetItem)
  /\ WF_pbapVars(plugin = "PBAP" /\ TransferCompletes)

Spec == Init /\ [][Next]_sourcesVars /\ GoogleFairness /\ PBAPFairness

TypeOK == GoogleTypeOK /\ FileTypeOK /\ PBAPTypeOK

\* getItem() of the PBAP source comes to an end, and so does the destructor,
\* but for the cases DownloadEnds names (PBAP.cpp:557, :713, :725).
PBAPDownloadEnds == plugin = "PBAP" => DownloadEnds
================================================================================
