---------------------------- MODULE SteamCloudSync ----------------------------
(* The settings of a profile on several computers, kept in step through Steam Cloud  *)
(* (gui/src/steamworks/steamworks_cloud_sync.cpp, qmlbackend.cpp): at its start the   *)
(* client downloads what is newer, at its end it syncs both ways; an older file is     *)
(* backed up before it is replaced.                                              *)
EXTENDS Naturals, FiniteSets, Sequences

CONSTANTS
  Devices,
  TimeMax,   \* bound: seconds
  EditsMax,  \* bound: changes of settings
  Tolerance, \* of compareTimestamps
  Retention  \* BACKUP_RETENTION_DAYS; TimeMax or more keeps every backup

VARIABLES
  now,
  made,    \* history: the edits of the profile in their order, each as the one it was made upon, 0 for none
  local,   \* the file of each device and its time
  cloud,   \* the file in the cloud and the time it came there
  backups, \* profile_backups of each device
  running,
  dropped, \* history: edits in copies the user deleted or that grew too old
  spoiled  \* history: a backup or the writing of a download failed

syncVars == <<now, made, local, cloud, backups, running, dropped, spoiled>>

Missing == [edit |-> 0, time |-> 0]
File(edit) == [edit |-> edit, time |-> now]
Init ==
  /\ now = 1 /\ made = <<>> /\ local = [d \in Devices |-> Missing] /\ cloud = Missing
  /\ backups = [d \in Devices |-> {}] /\ running = {} /\ dropped = {} /\ spoiled = FALSE

Tick == now < TimeMax /\ now' = now + 1 /\ UNCHANGED <<made, local, cloud, backups, running, dropped, spoiled>>

(* A change of the settings of the profile, or its creation.                            *)
Edit(d) ==
  /\ d \in running /\ Len(made) < EditsMax /\ made' = Append(made, local[d].edit)
  /\ local' = [local EXCEPT ![d] = File(Len(made) + 1)] /\ UNCHANGED <<now, cloud, backups, running, dropped, spoiled>>

(* DeleteProfile, and deleteProfileFromCloud or clearAllCloudData.                        *)
DeleteLocal(d) == local' = [local EXCEPT ![d] = Missing]
Delete(d) ==
  /\ d \in running /\ local[d] # Missing /\ DeleteLocal(d) /\ cloud' \in {cloud, Missing}
  /\ dropped' = dropped \cup {local[d].edit} \cup (IF cloud' = cloud THEN {} ELSE {cloud.edit})
  /\ UNCHANGED <<now, made, backups, running, spoiled>>
Clear(d) ==
  /\ d \in running /\ cloud # Missing /\ cloud' = Missing /\ dropped' = dropped \cup {cloud.edit}
  /\ UNCHANGED <<now, made, local, backups, running, spoiled>>

------------------------------------------------------------------------------
(* createBackup copies the file under a name with the second; its failure is ignored.       *)
(* Mutant: a file that is not newer than the cloud's is not worth a copy.                 *)
Backup_Never(d) == backups' = backups
Backup(d) == backups' = [backups EXCEPT ![d] = @ \cup {File(local[d].edit)}]

(* downloadFile: a file read short changes nothing; one that cannot be written in full is      *)
(* left in pieces. What is downloaded bears the time of the download.                   *)
Downloads(d) == \/ local' = [local EXCEPT ![d] = File(cloud.edit)] /\ spoiled' = spoiled
                \/ local' = local /\ spoiled' = spoiled
                \/ local' = [local EXCEPT ![d] = File(0)] /\ spoiled' = TRUE
Replaces(d) ==
  /\ \/ Backup(d) /\ Downloads(d)
     \/ backups' = backups /\ spoiled' = TRUE /\ local' = [local EXCEPT ![d] = File(cloud.edit)]
  /\ UNCHANGED cloud
Fetches(d) == Downloads(d) /\ UNCHANGED <<cloud, backups>>
(* uploadFile: a copy of the wrong size is deleted at once.                               *)
Uploads(d) == cloud' \in {File(local[d].edit), cloud, Missing} /\ UNCHANGED <<local, backups, spoiled>>
Skips == UNCHANGED <<local, cloud, backups, spoiled>>

(* compareTimestamps: the time of the file against that of the upload.                     *)
LocalIsNewer(d) == local[d].time > cloud.time + Tolerance
CloudIsNewer(d) == cloud.time > local[d].time + Tolerance

(* One file of syncAllProfilesFromCloud, after the backups that are too old were removed.     *)
CleanOldBackups(d) == {b \in backups[d] : b.time + Retention < now}
DownloadsNewer(d) ==
  IF cloud = Missing THEN Skips
  ELSE IF local[d] = Missing THEN Fetches(d)
  ELSE IF cloud.time > local[d].time THEN Replaces(d)
  ELSE Skips
Initialize(d) ==
  /\ CleanOldBackups(d) # {} /\ d \notin running
  /\ dropped' = dropped \cup {b.edit : b \in CleanOldBackups(d)} /\ backups' = [backups EXCEPT ![d] = @ \ CleanOldBackups(d)]
  /\ UNCHANGED <<now, made, local, cloud, running, spoiled>>
Launch(d) ==
  /\ d \notin running /\ CleanOldBackups(d) = {} /\ running' = running \cup {d} /\ (DownloadsNewer(d) \/ Skips)
  /\ UNCHANGED <<now, made, dropped>>

(* One file of syncBidirectional, by hand or at the end; after five seconds the rest is left.  *)
SyncBidirectional(d) ==
  \/ local[d] # Missing /\ cloud = Missing /\ Uploads(d)
  \/ local[d] = Missing /\ cloud # Missing /\ Fetches(d)
  \/ /\ local[d] # Missing /\ cloud # Missing
     /\ IF LocalIsNewer(d) THEN Uploads(d) ELSE IF CloudIsNewer(d) THEN Replaces(d) ELSE Skips
  \/ Skips
SyncByHand(d) == d \in running /\ SyncBidirectional(d) /\ UNCHANGED <<now, made, running, dropped>>
Exit(d) == d \in running /\ running' = running \ {d} /\ SyncBidirectional(d) /\ UNCHANGED <<now, made, dropped>>

(* Bound: nothing more happens after such a failure.                                     *)
SyncNext == ~spoiled /\ (Tick \/ \E d \in Devices : Edit(d) \/ Delete(d) \/ Clear(d) \/ Initialize(d) \/ Launch(d) \/ SyncByHand(d) \/ Exit(d))
Spec == Init /\ [][SyncNext]_syncVars

------------------------------------------------------------------------------
Edits == 1 .. Len(made)
TypeOK ==
  /\ now \in 1 .. TimeMax /\ running \subseteq Devices /\ dropped \subseteq 0 .. EditsMax
  /\ \A d \in Devices : local[d].edit \in 0 .. Len(made) /\ \A b \in backups[d] : b.time <= now

(* An edit and those it was made upon, directly or not: they are in every set that holds it and,  *)
(* with an edit, the one that was made upon.                                                *)
Upon(e) == {f \in Edits : \A S \in SUBSET (0 .. Len(made)) : e \in S /\ (\A g \in S \ {0} : made[g] \in S) => f \in S}
Kept == {local[d].edit : d \in Devices} \cup {cloud.edit} \cup UNION {{b.edit : b \in backups[d]} : d \in Devices}

(* However edits on several computers and syncs fall together, each edit is still in some file,  *)
(* in the cloud or in a backup, or one made upon it is, unless its copies were deleted or a      *)
(* backup or a write failed (steamworks_cloud_sync.cpp:190-216, 323-327).                    *)
NoEditIsLost == ~spoiled => \A e \in Edits : \E k \in Kept \cup dropped : e \in Upon(k)

(* "Bidirectional sync - intelligently sync newer files in both directions"                     *)
(* (steamworks_cloud_sync.h:33): a sync does not replace an edit by one made before it.        *)
NewestWins ==
  [][\A d \in Devices : LET e == local[d].edit  f == local'[d].edit
                        IN d \in running /\ d \notin running' /\ e # 0 /\ f # 0 /\ f # e => f > e]_syncVars
=============================================================================
