--------------------------- MODULE Clients_proofs ---------------------------
(* The desktop client, for every value of its constants: the sync with Steam Cloud, the    *)
(* cloud services, the sessions of the backend and the consoles it lists.                  *)
EXTENDS MCClients, FiniteSetTheorems, SequenceTheorems, WellFoundedInduction, TLAPS

-----------------------------------------------------------------------------
(* Steam Cloud: no edit of the settings is lost.                                   *)

(* Every copy there is holds an edit that was made, and so did those dropped; each   *)
(* edit was made upon an earlier one or upon none.                                *)
MadeInv ==
  /\ made \in Seq(Nat) /\ \A i \in 1 .. Len(made) : made[i] \in 0 .. Len(made)
  /\ now \in Nat /\ spoiled \in BOOLEAN
SyncFile == [edit : 0 .. Len(made), time : Nat]
FilesInv ==
  /\ local \in [SyncDevices -> SyncFile] /\ cloud \in SyncFile
  /\ backups \in [SyncDevices -> SUBSET SyncFile] /\ dropped \subseteq 0 .. Len(made)
(* The copies of the devices alone hold all: the one in the cloud is not needed,     *)
(* for a download keeps what it replaces, and an upload takes nothing away.          *)
InFile(k) == \E d \in SyncDevices : k = local[d].edit
InBackup(k) == \E d \in SyncDevices : \E b \in backups[d] : k = b.edit
Held(k) == InFile(k) \/ InBackup(k) \/ k \in dropped
EditsHeld == ~spoiled => \A e \in 1 .. Len(made) : \E k \in 0 .. Len(made) : Held(k) /\ e \in Sync!Upon(k)
SyncInv == MadeInv /\ FilesInv /\ EditsHeld

(* An edit is among those it was made upon; nothing is upon the lack of a file.       *)
LEMMA UponItself == ASSUME NEW e \in 1 .. Len(made) PROVE e \in Sync!Upon(e)
BY DEF Sync!Upon, Sync!Edits

LEMMA UponNothing == ASSUME MadeInv, NEW e \in Sync!Upon(0) PROVE FALSE
<1>1. e \in 1 .. Len(made)
  BY DEF Sync!Upon, Sync!Edits
<1>2. {0} \in SUBSET (0 .. Len(made)) /\ 0 \in {0} /\ \A g \in {0} \ {0} : made[g] \in {0}
  BY DEF MadeInv
<1>3. e \in {0}
  BY <1>2 DEF Sync!Upon
<1> QED BY <1>1, <1>3

(* A new edit takes nothing from what another was made upon, and has with it all of    *)
(* the one it was made upon.                                                   *)
LEMMA UponStays ==
  ASSUME MadeInv, NEW k \in 0 .. Len(made), NEW e \in Sync!Upon(k), NEW base \in 0 .. Len(made),
         made' = Append(made, base), NEW S \in SUBSET (0 .. Len(made) + 1),
         k \in S, \A g \in S \ {0} : made'[g] \in S
  PROVE  e \in S
<1> DEFINE old == S \cap (0 .. Len(made))
<1>1. Len(made) \in Nat /\ \A g \in 1 .. Len(made) : made'[g] = made[g] /\ made[g] \in 0 .. Len(made)
  BY DEF MadeInv
<1>2. \A g \in old \ {0} : made[g] \in old
  BY <1>1
<1>3. old \in SUBSET (0 .. Len(made)) /\ k \in old
  OBVIOUS
<1>4. e \in old
  BY <1>2, <1>3 DEF Sync!Upon
<1> QED BY <1>4

LEMMA NewEdit ==
  ASSUME MadeInv, NEW base \in 0 .. Len(made), made' = Append(made, base), NEW new, new = Len(made) + 1
  PROVE  /\ \A k \in 0 .. Len(made) : \A e \in Sync!Upon(k) : e \in Sync!Upon(k)'
         /\ \A e \in Sync!Upon(base) : e \in Sync!Upon(new)'
         /\ new \in Sync!Upon(new)'
<1>1. /\ Len(made) \in Nat /\ made' \in Seq(Nat) /\ Len(made') = Len(made) + 1 /\ made'[new] = base
  BY DEF MadeInv
<1>2. ASSUME NEW k \in 0 .. Len(made), NEW e \in Sync!Upon(k) PROVE e \in Sync!Upon(k)'
  <2>1. e \in 1 .. Len(made')
    BY <1>1, <1>2 DEF Sync!Upon, Sync!Edits
  <2>2. ASSUME NEW S \in SUBSET (0 .. Len(made) + 1), k \in S, \A g \in S \ {0} : made'[g] \in S PROVE e \in S
    BY <1>2, <2>2, UponStays
  <2> QED BY <1>1, <2>1, <2>2 DEF Sync!Upon, Sync!Edits
<1>3. ASSUME NEW e \in Sync!Upon(base) PROVE e \in Sync!Upon(new)'
  <2>1. e \in 1 .. Len(made')
    BY <1>1, <1>3 DEF Sync!Upon, Sync!Edits
  <2>2. ASSUME NEW S \in SUBSET (0 .. Len(made) + 1), new \in S, \A g \in S \ {0} : made'[g] \in S
        PROVE  e \in S
    <3>1. base \in S
      BY <1>1, <2>2
    <3> QED BY <1>3, <2>2, <3>1, UponStays
  <2> QED BY <1>1, <2>1, <2>2 DEF Sync!Upon, Sync!Edits
<1>4. new \in Sync!Upon(new)'
  BY <1>1 DEF Sync!Upon, Sync!Edits
<1> QED BY <1>2, <1>3, <1>4

(* Where no edit is made, it is enough that what was held is held.                   *)
LEMMA StillHeld ==
  ASSUME MadeInv, EditsHeld, made' = made, spoiled' = FALSE => spoiled = FALSE,
         spoiled \in BOOLEAN, spoiled' \in BOOLEAN,
         ~spoiled' => \A k \in 1 .. Len(made) : Held(k) => Held(k)'
  PROVE  EditsHeld'
<1> SUFFICES ASSUME ~spoiled', NEW e \in 1 .. Len(made) PROVE \E k \in 0 .. Len(made) : Held(k)' /\ e \in Sync!Upon(k)'
  BY DEF EditsHeld
<1>1. PICK k \in 0 .. Len(made) : Held(k) /\ e \in Sync!Upon(k)
  BY DEF EditsHeld
<1>2. k # 0
  BY <1>1, UponNothing
<1>3. k \in 1 .. Len(made)
  BY <1>1, <1>2 DEF MadeInv
<1>4. Held(k)'
  BY <1>1, <1>3
<1>5. e \in Sync!Upon(k)'
  BY <1>1 DEF Sync!Upon, Sync!Edits
<1> QED BY <1>1, <1>4, <1>5

(* The types of the files.                                                      *)
LEMMA FilesHave ==
  ASSUME MadeInv, NEW edit \in 0 .. Len(made)
  PROVE  Sync!File(edit) \in SyncFile /\ Sync!Missing \in SyncFile /\ Sync!File(edit).edit = edit /\ Sync!Missing.edit = 0
BY DEF MadeInv, Sync!File, Sync!Missing, SyncFile

LEMMA SyncStarts == Sync!Init => SyncInv /\ spoiled = FALSE
<1> SUFFICES ASSUME Sync!Init PROVE SyncInv /\ spoiled = FALSE
  OBVIOUS
<1>0. made = <<>> /\ now = 1 /\ spoiled = FALSE
  BY DEF Sync!Init
<1>1. MadeInv /\ Len(made) = 0 /\ spoiled = FALSE
  <2>1. made \in Seq(Nat) /\ Len(made) = 0
    BY <1>0
  <2>2. spoiled \in BOOLEAN
    BY <1>0
  <2>3. 1 .. Len(made) = {}
    BY <2>1
  <2>4. now \in Nat
    BY <1>0
  <2> QED BY <1>0, <2>1, <2>2, <2>3, <2>4 DEF MadeInv
<1>2. Sync!Missing \in SyncFile
  BY <1>1 DEF Sync!Missing, SyncFile
<1>3. FilesInv
  BY <1>2 DEF Sync!Init, FilesInv
<1>4. EditsHeld
  BY <1>1 DEF EditsHeld
<1> QED BY <1>1, <1>3, <1>4 DEF SyncInv

(* A change of the settings: the new edit is in the file and holds what the file held. *)
LEMMA EditKeeps ==
  ASSUME SyncInv, spoiled = FALSE, NEW d \in SyncDevices, Sync!Edit(d)
  PROVE  SyncInv' /\ spoiled' = FALSE
<1> DEFINE base == local[d].edit
<1>1. MadeInv /\ FilesInv /\ EditsHeld
  BY DEF SyncInv
<1>0. PICK new : new = Len(made) + 1
  OBVIOUS
<1>2. /\ base \in 0 .. Len(made) /\ made' = Append(made, base) /\ local' = [local EXCEPT ![d] = Sync!File(new)]
      /\ UNCHANGED <<now, cloud, backups, dropped, spoiled>>
  BY <1>0, <1>1 DEF Sync!Edit, FilesInv, SyncFile
<1>3. /\ Len(made) \in Nat /\ Len(made') = new /\ made'[new] = base /\ made' \in Seq(Nat)
      /\ \A j \in 1 .. Len(made) : made'[j] = made[j]
  BY <1>0, <1>1, <1>2 DEF MadeInv
<1>4. MadeInv'
  BY <1>0, <1>1, <1>2, <1>3 DEF MadeInv
<1>5. SyncFile \subseteq SyncFile' /\ Sync!File(new) \in SyncFile' /\ Sync!File(new).edit = new
  BY <1>0, <1>1, <1>2, <1>3 DEF SyncFile, Sync!File, MadeInv
<1>6. FilesInv'
  <2>1. local' \in [SyncDevices -> SyncFile'] /\ cloud' \in SyncFile'
    BY <1>1, <1>2, <1>5 DEF FilesInv
  <2>2. backups' \in [SyncDevices -> SUBSET SyncFile']
    BY <1>1, <1>2, <1>5 DEF FilesInv
  <2>3. dropped' \subseteq 0 .. Len(made')
    BY <1>0, <1>1, <1>2, <1>3 DEF FilesInv
  <2> QED BY <2>1, <2>2, <2>3 DEF FilesInv
<1>7. Held(new)'
  <2>1. local'[d] = Sync!File(new)
    BY <1>1, <1>2 DEF FilesInv
  <2> QED BY <1>5, <2>1 DEF Held, InFile
<1>8. \A k \in 0 .. Len(made) : Held(k) => Held(k)' \/ k = base
  <2> SUFFICES ASSUME NEW k \in 0 .. Len(made), Held(k), k # base PROVE Held(k)'
    OBVIOUS
  <2>1. CASE InFile(k)
    <3>1. PICK c \in SyncDevices : k = local[c].edit
      BY <2>1 DEF InFile
    <3>2. c # d /\ local'[c] = local[c]
      BY <1>1, <1>2, <3>1 DEF FilesInv
    <3> QED BY <3>1, <3>2 DEF Held, InFile
  <2>2. CASE InBackup(k) \/ k \in dropped
    BY <1>2, <2>2 DEF Held, InBackup
  <2> QED BY <2>1, <2>2 DEF Held
<1>9. /\ \A k \in 0 .. Len(made) : \A e \in Sync!Upon(k) : e \in Sync!Upon(k)'
      /\ \A e \in Sync!Upon(base) : e \in Sync!Upon(new)'
      /\ new \in Sync!Upon(new)'
  BY <1>0, <1>1, <1>2, NewEdit
<1>10. EditsHeld'
  <2> SUFFICES ASSUME NEW e \in 1 .. new PROVE \E k \in 0 .. new : Held(k)' /\ e \in Sync!Upon(k)'
    BY <1>0, <1>3 DEF EditsHeld
  <2>1. CASE e = new
    BY <1>0, <1>3, <1>7, <1>9, <2>1
  <2>2. CASE e # new
    <3>1. e \in 1 .. Len(made)
      BY <1>0, <1>3, <2>2
    <3>2. PICK k \in 0 .. Len(made) : Held(k) /\ e \in Sync!Upon(k)
      BY <1>1, <3>1 DEF EditsHeld
    <3>3. CASE Held(k)'
      BY <1>0, <1>3, <1>9, <3>2, <3>3
    <3>4. CASE k = base
      BY <1>0, <1>3, <1>7, <1>9, <3>2, <3>4
    <3> QED BY <1>8, <3>2, <3>3, <3>4
  <2> QED BY <2>1, <2>2
<1> QED BY <1>2, <1>4, <1>6, <1>10 DEF SyncInv

(* What a sync does to the files of a device: it takes nothing away that is not in a   *)
(* backup then, unless a write failed.                                          *)
LEMMA DownloadKeeps ==
  ASSUME MadeInv, FilesInv, spoiled = FALSE, NEW d \in SyncDevices,
         Sync!Downloads(d) \/ (spoiled' = TRUE /\ local' = [local EXCEPT ![d] = Sync!File(cloud.edit)])
  PROVE  /\ local' \in [SyncDevices -> SyncFile] /\ spoiled' \in BOOLEAN
         /\ ~spoiled' => \A k \in 0 .. Len(made) : InFile(k) /\ k # local[d].edit => \E c \in SyncDevices : k = local'[c].edit
<1>1. cloud.edit \in 0 .. Len(made) /\ 0 \in 0 .. Len(made)
  BY DEF FilesInv, SyncFile, MadeInv
<1>2. Sync!File(cloud.edit) \in SyncFile /\ Sync!File(0) \in SyncFile
  BY <1>1, FilesHave
<1>3. /\ spoiled' \in BOOLEAN
      /\ local' = local \/ local' = [local EXCEPT ![d] = Sync!File(cloud.edit)] \/ local' = [local EXCEPT ![d] = Sync!File(0)]
  BY DEF Sync!Downloads
<1>4. local' \in [SyncDevices -> SyncFile] /\ \A c \in SyncDevices \ {d} : local'[c] = local[c]
  BY <1>2, <1>3 DEF FilesInv
<1>5. ASSUME NEW k \in 0 .. Len(made), InFile(k), k # local[d].edit PROVE \E c \in SyncDevices : k = local'[c].edit
  <2>1. PICK c \in SyncDevices : k = local[c].edit
    BY <1>5 DEF InFile
  <2> QED BY <1>4, <1>5, <2>1
<1> QED BY <1>3, <1>4, <1>5

FilesStay ==
  /\ local' \in [SyncDevices -> SyncFile] /\ cloud' \in SyncFile
  /\ backups' \in [SyncDevices -> SUBSET SyncFile] /\ spoiled' \in BOOLEAN
  /\ ~spoiled' => \A k \in 1 .. Len(made) : Held(k) => Held(k)'

LEMMA FilesStayed ==
  ASSUME SyncInv, spoiled = FALSE, UNCHANGED <<now, made, dropped>>, FilesStay
  PROVE  SyncInv'
<1>1. MadeInv /\ FilesInv /\ EditsHeld /\ spoiled \in BOOLEAN
  BY DEF SyncInv, MadeInv
<1>2. MadeInv'
  BY <1>1 DEF MadeInv, FilesStay
<1>3. FilesInv'
  BY <1>1 DEF FilesInv, SyncFile, FilesStay
<1>4. made' = made /\ spoiled' \in BOOLEAN /\ (spoiled' = FALSE => spoiled = FALSE)
      /\ (~spoiled' => \A k \in 1 .. Len(made) : Held(k) => Held(k)')
  BY DEF FilesStay
<1>5. EditsHeld'
  BY <1>1, <1>4, StillHeld
<1> QED BY <1>2, <1>3, <1>5 DEF SyncInv

LEMMA SyncKeeps ==
  ASSUME SyncInv, spoiled = FALSE, NEW d \in SyncDevices,
         (local[d] = Sync!Missing /\ Sync!Fetches(d)) \/ Sync!Replaces(d) \/ Sync!Uploads(d) \/ Sync!Skips,
         UNCHANGED <<now, made, dropped>>
  PROVE  SyncInv'
<1>1. MadeInv /\ FilesInv /\ EditsHeld
  BY DEF SyncInv
<1>2. local[d].edit \in 0 .. Len(made) /\ cloud.edit \in 0 .. Len(made) /\ SyncFile' = SyncFile
  BY <1>1 DEF FilesInv, SyncFile
<1>3. Sync!File(local[d].edit) \in SyncFile /\ Sync!Missing \in SyncFile /\ Sync!File(local[d].edit).edit = local[d].edit
  BY <1>1, <1>2, FilesHave
<1> SUFFICES FilesStay
  BY FilesStayed
<1>4. CASE local[d] = Sync!Missing /\ Sync!Fetches(d)
  <2>1. UNCHANGED <<cloud, backups>> /\ Sync!Downloads(d)
    BY <1>4 DEF Sync!Fetches
  <2>2. /\ local' \in [SyncDevices -> SyncFile] /\ spoiled' \in BOOLEAN
        /\ ~spoiled' => \A k \in 0 .. Len(made) : InFile(k) /\ k # local[d].edit => \E c \in SyncDevices : k = local'[c].edit
    BY <1>1, <2>1, DownloadKeeps
  <2>3. local[d].edit = 0
    BY <1>4 DEF Sync!Missing
  <2>4. ~spoiled' => \A k \in 1 .. Len(made) : Held(k) => Held(k)'
    BY <1>1, <2>1, <2>2, <2>3 DEF Held, InFile, InBackup, MadeInv
  <2> QED BY <1>1, <2>1, <2>2, <2>4 DEF FilesInv, FilesStay
<1>5. CASE Sync!Replaces(d)
  <2>1. cloud' = cloud /\ (Sync!Downloads(d) \/ (spoiled' = TRUE /\ local' = [local EXCEPT ![d] = Sync!File(cloud.edit)]))
    BY <1>5 DEF Sync!Replaces
  <2>2. /\ local' \in [SyncDevices -> SyncFile] /\ spoiled' \in BOOLEAN
        /\ ~spoiled' => \A k \in 0 .. Len(made) : InFile(k) /\ k # local[d].edit => \E c \in SyncDevices : k = local'[c].edit
    BY <1>1, <2>1, DownloadKeeps
  <2>3. /\ backups' = backups \/ backups' = [backups EXCEPT ![d] = @ \cup {Sync!File(local[d].edit)}]
        /\ ~spoiled' => backups' = [backups EXCEPT ![d] = @ \cup {Sync!File(local[d].edit)}]
    BY <1>5 DEF Sync!Replaces, Sync!Backup
  <2>4. backups' \in [SyncDevices -> SUBSET SyncFile]
    BY <1>1, <1>3, <2>3 DEF FilesInv
  <2>5. ASSUME ~spoiled', NEW k \in 1 .. Len(made), Held(k) PROVE Held(k)'
    <3>1. backups'[d] = backups[d] \cup {Sync!File(local[d].edit)} /\ \A c \in SyncDevices : backups[c] \subseteq backups'[c]
      BY <1>1, <2>3, <2>5 DEF FilesInv
    <3>2. CASE k = local[d].edit
      BY <1>3, <3>1, <3>2 DEF Held, InBackup
    <3>3. CASE InFile(k) /\ k # local[d].edit
      BY <1>1, <2>2, <2>5, <3>3 DEF Held, InFile, MadeInv
    <3>4. CASE InBackup(k) \/ k \in dropped
      BY <3>1, <3>4 DEF Held, InBackup
    <3> QED BY <2>5, <3>2, <3>3, <3>4 DEF Held
  <2> QED BY <1>1, <2>1, <2>2, <2>4, <2>5 DEF FilesInv, FilesStay
<1>6. CASE Sync!Uploads(d) \/ Sync!Skips
  <2>1. UNCHANGED <<local, backups, spoiled>> /\ cloud' \in {Sync!File(local[d].edit), cloud, Sync!Missing}
    BY <1>6 DEF Sync!Uploads, Sync!Skips
  <2>2. \A k \in 1 .. Len(made) : Held(k) => Held(k)'
    BY <2>1 DEF Held, InFile, InBackup
  <2>3. cloud' \in SyncFile
    BY <1>1, <1>3, <2>1 DEF FilesInv
  <2>4. spoiled' \in BOOLEAN
    BY <1>1, <2>1 DEF MadeInv
  <2> QED BY <1>1, <2>1, <2>2, <2>3, <2>4 DEF FilesInv, FilesStay
<1> QED BY <1>4, <1>5, <1>6

(* What the user deletes and what grows too old goes to the copies that were dropped.  *)
LEMMA DropKeeps ==
  ASSUME SyncInv, spoiled = FALSE, NEW d \in SyncDevices,
         Sync!Delete(d) \/ Sync!Clear(d) \/ Sync!Initialize(d)
  PROVE  SyncInv'
<1>1. MadeInv /\ FilesInv /\ EditsHeld
  BY DEF SyncInv
<1>2. local[d].edit \in 0 .. Len(made) /\ cloud.edit \in 0 .. Len(made)
  BY <1>1 DEF FilesInv, SyncFile
<1>3. Sync!Missing \in SyncFile
  BY <1>1, <1>2, FilesHave DEF FilesInv, SyncFile
<1>4. UNCHANGED <<now, made, spoiled>>
  BY DEF Sync!Delete, Sync!Clear, Sync!Initialize
<1>5. /\ local' \in [SyncDevices -> SyncFile] /\ cloud' \in SyncFile
      /\ backups' \in [SyncDevices -> SUBSET SyncFile] /\ dropped' \subseteq 0 .. Len(made)
      /\ \A k \in 1 .. Len(made) : Held(k) => Held(k)'
  <2>1. CASE Sync!Delete(d)
    <3>1. /\ local' = [local EXCEPT ![d] = Sync!Missing] /\ cloud' \in {cloud, Sync!Missing} /\ backups' = backups
          /\ dropped' = dropped \cup {local[d].edit} \cup (IF cloud' = cloud THEN {} ELSE {cloud.edit})
      BY <2>1 DEF Sync!Delete, Sync!DeleteLocal
    <3>2. ASSUME NEW k \in 1 .. Len(made), Held(k) PROVE Held(k)'
      <4>1. dropped \subseteq dropped' /\ local[d].edit \in dropped'
        BY <3>1
      <4>2. CASE InFile(k)
        <5>1. PICK c \in SyncDevices : k = local[c].edit
          BY <4>2 DEF InFile
        <5>2. c = d \/ local'[c] = local[c]
          BY <1>1, <3>1 DEF FilesInv
        <5> QED BY <4>1, <5>1, <5>2 DEF Held, InFile
      <4>3. CASE InBackup(k) \/ k \in dropped
        BY <3>1, <4>1, <4>3 DEF Held, InBackup
      <4> QED BY <3>2, <4>2, <4>3 DEF Held
    <3>3. dropped' \subseteq 0 .. Len(made)
      BY <1>1, <1>2, <3>1 DEF FilesInv, SyncFile
    <3> QED BY <1>1, <1>3, <3>1, <3>2, <3>3 DEF FilesInv
  <2>2. CASE Sync!Clear(d)
    <3>1. UNCHANGED <<local, backups>> /\ cloud' = Sync!Missing /\ dropped' = dropped \cup {cloud.edit}
      BY <2>2 DEF Sync!Clear
    <3>2. \A k \in 1 .. Len(made) : Held(k) => Held(k)'
      BY <3>1 DEF Held, InFile, InBackup
    <3>3. dropped' \subseteq 0 .. Len(made)
      BY <1>1, <3>1 DEF FilesInv, SyncFile
    <3> QED BY <1>1, <1>3, <3>1, <3>2, <3>3 DEF FilesInv
  <2>3. CASE Sync!Initialize(d)
    <3>1. /\ UNCHANGED <<local, cloud>> /\ backups' = [backups EXCEPT ![d] = @ \ Sync!CleanOldBackups(d)]
          /\ dropped' = dropped \cup {b.edit : b \in Sync!CleanOldBackups(d)} /\ Sync!CleanOldBackups(d) \subseteq backups[d]
      BY <2>3 DEF Sync!Initialize, Sync!CleanOldBackups
    <3>2. backups' \in [SyncDevices -> SUBSET SyncFile]
      BY <1>1, <3>1 DEF FilesInv
    <3>3. \A b \in Sync!CleanOldBackups(d) : b.edit \in 0 .. Len(made)
      BY <1>1, <3>1 DEF FilesInv, SyncFile
    <3>4. ASSUME NEW k \in 1 .. Len(made), Held(k) PROVE Held(k)'
      <4>1. CASE InBackup(k)
        <5>0. PICK c \in SyncDevices : \E b \in backups[c] : k = b.edit
          BY <4>1 DEF InBackup
        <5>1. PICK b \in backups[c] : k = b.edit
          BY <5>0
        <5>2. CASE c = d /\ b \in Sync!CleanOldBackups(d)
          BY <3>1, <5>1, <5>2 DEF Held
        <5>3. CASE ~(c = d /\ b \in Sync!CleanOldBackups(d))
          <6>1. b \in backups'[c]
            BY <1>1, <3>1, <5>1, <5>3 DEF FilesInv
          <6> QED BY <5>1, <6>1 DEF Held, InBackup
        <5> QED BY <5>2, <5>3
      <4>2. CASE InFile(k) \/ k \in dropped
        BY <3>1, <4>2 DEF Held, InFile
      <4> QED BY <3>4, <4>1, <4>2 DEF Held
    <3>5. dropped' \subseteq 0 .. Len(made)
      BY <1>1, <3>1, <3>3 DEF FilesInv
    <3> QED BY <1>1, <3>1, <3>2, <3>4, <3>5 DEF FilesInv
  <2> QED BY <2>1, <2>2, <2>3
<1>6. MadeInv'
  BY <1>1, <1>4 DEF MadeInv
<1>7. FilesInv'
  BY <1>4, <1>5 DEF FilesInv, SyncFile
<1>8. EditsHeld'
  BY <1>1, <1>4, <1>5, StillHeld DEF MadeInv
<1> QED BY <1>6, <1>7, <1>8 DEF SyncInv

LEMMA SyncStepKeeps == ASSUME SyncInv, [Sync!SyncNext]_syncVars PROVE SyncInv'
<1>1. CASE UNCHANGED syncVars
  <2>1. MadeInv' /\ FilesInv'
    BY <1>1 DEF SyncInv, syncVars, MadeInv, FilesInv, SyncFile
  <2>2. EditsHeld'
    BY <1>1 DEF SyncInv, syncVars, EditsHeld, Held, InFile, InBackup, Sync!Upon, Sync!Edits
  <2> QED BY <2>1, <2>2 DEF SyncInv
<1>2. CASE Sync!SyncNext
  <2>1. spoiled = FALSE
    BY <1>2 DEF Sync!SyncNext, SyncInv, MadeInv
  <2>2. CASE Sync!Tick
    <3>1. now' = now + 1 /\ UNCHANGED <<made, local, cloud, backups, syncRunning, dropped, spoiled>>
      BY <2>2 DEF Sync!Tick
    <3>2. MadeInv' /\ FilesInv'
      BY <3>1 DEF SyncInv, MadeInv, FilesInv, SyncFile
    <3>3. EditsHeld'
      <4>1. \A k : Held(k) => Held(k)'
        BY <3>1 DEF Held, InFile, InBackup
      <4>2. MadeInv /\ EditsHeld /\ spoiled \in BOOLEAN
        BY DEF SyncInv, MadeInv
      <4> QED BY <3>1, <4>1, <4>2, StillHeld
    <3> QED BY <3>2, <3>3 DEF SyncInv
  <2>3. ASSUME NEW d \in SyncDevices, Sync!Launch(d) PROVE SyncInv'
    <3>1. /\ UNCHANGED <<now, made, dropped>>
          /\ (local[d] = Sync!Missing /\ Sync!Fetches(d)) \/ Sync!Replaces(d) \/ Sync!Skips
      BY <2>3 DEF Sync!Launch, Sync!DownloadsNewer
    <3> QED BY <2>1, <3>1, SyncKeeps
  <2>4. ASSUME NEW d \in SyncDevices, Sync!SyncByHand(d) \/ Sync!Exit(d) PROVE SyncInv'
    <3>1. UNCHANGED <<now, made, dropped>> /\ Sync!SyncBidirectional(d)
      BY <2>4 DEF Sync!SyncByHand, Sync!Exit
    <3>2. (local[d] = Sync!Missing /\ Sync!Fetches(d)) \/ Sync!Replaces(d) \/ Sync!Uploads(d) \/ Sync!Skips
      BY <3>1 DEF Sync!SyncBidirectional
    <3> QED BY <2>1, <3>1, <3>2, SyncKeeps
  <2> QED BY <1>2, <2>1, <2>2, <2>3, <2>4, EditKeeps, DropKeeps DEF Sync!SyncNext
<1> QED BY <1>1, <1>2

(* However edits and syncs of several computers fall together, every edit, or one made *)
(* upon it, is still in a file, in the cloud or in a backup, unless its copies were     *)
(* dropped or a write failed (steamworks_cloud_sync.cpp:190-216, 323-327).           *)
THEOREM EditsAreKept == MCSpec => []Sync!NoEditIsLost
<1>1. MCInit => SyncInv
  BY SyncStarts DEF MCInit
<1>2. SyncInv /\ [MCNext]_<<part, pacingVars, cloudVars, catalogVars, backVars, hostVars, syncVars, ctlVars, outVars, sendVars, videoVars, audioVars, nativeVars, appVars>> => SyncInv'
  <2>1. [MCNext]_<<part, pacingVars, cloudVars, catalogVars, backVars, hostVars, syncVars, ctlVars, outVars, sendVars, videoVars, audioVars, nativeVars, appVars>> => [Sync!SyncNext]_syncVars
    BY DEF MCNext
  <2> QED BY <2>1, SyncStepKeeps
<1>3. SyncInv => Sync!NoEditIsLost
  <2> SUFFICES ASSUME SyncInv, ~spoiled, NEW e \in 1 .. Len(made) PROVE \E k \in Sync!Kept \cup dropped : e \in Sync!Upon(k)
    BY DEF Sync!NoEditIsLost, Sync!Edits
  <2>1. PICK k \in 0 .. Len(made) : Held(k) /\ e \in Sync!Upon(k)
    BY DEF SyncInv, EditsHeld
  <2>2. k \in Sync!Kept \cup dropped
    BY <2>1 DEF Held, InFile, InBackup, Sync!Kept
  <2> QED BY <2>1, <2>2
<1> QED BY <1>1, <1>2, <1>3, PTL DEF MCSpec

-----------------------------------------------------------------------------
(* The start of a cloud session.                                              *)

(* The requests that ask for a slot, and those that follow the lock.                *)
Allocating == {"select", "allocate"}
Locked == {"datacenters", "pings"} \cup Allocating

(* The pings run once, for all that were offered, when the choice is automatic; their   *)
(* answers come from these, and nothing but a ping that is under way brings one.      *)
PingsInv ==
  /\ setting \in Centers \cup {"Auto"} /\ called \in {0, 1} /\ offered \subseteq Centers
  /\ \A d \in DOMAIN cloudAnswers : cloudAnswers[d] \in Nat \ {0} /\ d \in offered
  /\ pinging \subseteq offered
  /\ request = "pings" => setting = "Auto" /\ called = 0 /\ offered # {}
  /\ pinging # {} => setting = "Auto" /\ (called = 0 => request = "pings")
  /\ DOMAIN cloudAnswers # {} => setting = "Auto"
  /\ request \notin {"pings", "over"} \cup Allocating => called = 0 /\ pinging = {} /\ DOMAIN cloudAnswers = {}

(* What a slot is asked for with.                                               *)
ChoiceInv ==
  /\ request \in Locked => lockKey = "lock"
  /\ request \in Allocating =>
       /\ center.name \in offered
       /\ setting = "Auto" => /\ center.rtt <= RttMax /\ center.name \in DOMAIN cloudAnswers
                              /\ \A d \in DOMAIN cloudAnswers : center.rtt <= cloudAnswers[d]
       /\ setting # "Auto" => center.name = setting

CloudInv == PingsInv /\ ChoiceInv

LEMMA CloudStarts == Cloud!Init \/ Cloud!AtRest => CloudInv
<1> SUFFICES ASSUME Cloud!Init \/ Cloud!AtRest PROVE CloudInv
  OBVIOUS
<1>1. DOMAIN cloudAnswers = {}
  BY DEF Cloud!Init, Cloud!AtRest
<1> QED BY <1>1 DEF Cloud!Init, Cloud!AtRest, CloudInv, PingsInv, ChoiceInv, Allocating, Locked

(* The requests that come before the lock.                                         *)
Before == {"authorizeCheck", "anonCode", "anonSession", "product", "commerceToken", "attributes", "entitlement",
           "preview", "buynow", "authCode", "authSession", "clientIds", "config", "start", "gkCode", "serverCode",
           "authorize"}

LEMMA AnswersKeep ==
  ASSUME CloudInv, NEW asked \in Before, NEW follow, NEW dialogsOf, follow \subseteq Before \cup {"lock"},
         Cloud!Answers(asked, follow, dialogsOf)
  PROVE  CloudInv'
<1>1. /\ request = asked /\ request' \in follow \cup {"over"}
      /\ UNCHANGED <<setting, lockKey, offered, cloudAnswers, pinging, called, center>>
  BY DEF Cloud!Answers, Cloud!Ask, Cloud!Fail, Cloud!fixed, Cloud!pings
<1>2. /\ request \notin {"pings", "over"} \cup Allocating /\ request' \notin Locked
  BY <1>1 DEF Before, Allocating, Locked
<1>3. called = 0 /\ pinging = {} /\ DOMAIN cloudAnswers = {}
  BY <1>2 DEF CloudInv, PingsInv
<1> QED BY <1>1, <1>2, <1>3 DEF CloudInv, PingsInv, ChoiceInv, Allocating, Locked

LEMMA EarlyKeep ==
  ASSUME CloudInv,
         \/ Cloud!Authorized \/ Cloud!AnonCode \/ Cloud!AnonSession \/ Cloud!Product \/ Cloud!CommerceToken
         \/ Cloud!Attributes \/ Cloud!Entitlement \/ Cloud!Preview \/ Cloud!BuyNow \/ Cloud!AuthCode
         \/ Cloud!AuthSession \/ Cloud!ClientIds \/ Cloud!Config \/ Cloud!Started \/ Cloud!GkCode
         \/ Cloud!ServerCode \/ Cloud!Authorize
  PROVE  CloudInv'
<1>1. ASSUME NEW asked \in Before, NEW follow, NEW dialogsOf, follow \subseteq Before \cup {"lock"},
             Cloud!Answers(asked, follow, dialogsOf)
      PROVE  CloudInv'
  BY <1>1, AnswersKeep
<1> USE DEF Before
<1>2. CASE Cloud!Authorized
  BY <1>1, <1>2 DEF Cloud!Authorized
<1>3. CASE Cloud!AnonCode
  BY <1>1, <1>3 DEF Cloud!AnonCode
<1>4. CASE Cloud!AnonSession
  BY <1>1, <1>4 DEF Cloud!AnonSession
<1>5. CASE Cloud!Product
  BY <1>1, <1>5 DEF Cloud!Product
<1>6. CASE Cloud!CommerceToken
  BY <1>1, <1>6 DEF Cloud!CommerceToken
<1>7. CASE Cloud!Attributes
  BY <1>1, <1>7 DEF Cloud!Attributes
<1>8. CASE Cloud!Entitlement
  BY <1>1, <1>8 DEF Cloud!Entitlement
<1>9. CASE Cloud!Preview
  BY <1>1, <1>9 DEF Cloud!Preview
<1>10. CASE Cloud!BuyNow
  BY <1>1, <1>10 DEF Cloud!BuyNow
<1>11. CASE Cloud!AuthCode
  BY <1>1, <1>11 DEF Cloud!AuthCode
<1>12. CASE Cloud!AuthSession
  BY <1>1, <1>12 DEF Cloud!AuthSession
<1>13. CASE Cloud!ClientIds
  BY <1>1, <1>13 DEF Cloud!ClientIds
<1>14. CASE Cloud!Config
  BY <1>1, <1>14 DEF Cloud!Config
<1>15. CASE Cloud!Started
  BY <1>1, <1>15 DEF Cloud!Started
<1>16. CASE Cloud!GkCode
  BY <1>1, <1>16 DEF Cloud!GkCode
<1>17. CASE Cloud!ServerCode
  BY <1>1, <1>17 DEF Cloud!ServerCode
<1>18. CASE Cloud!Authorize
  BY <1>1, <1>18 DEF Cloud!Authorize
<1> QED BY <1>2, <1>3, <1>4, <1>5, <1>6, <1>7, <1>8, <1>9, <1>10, <1>11, <1>12, <1>13, <1>14, <1>15, <1>16,
   <1>17, <1>18

LEMMA LeastExists == ASSUME NEW K \in SUBSET Nat, K # {} PROVE \E i \in K : \A j \in K : i <= j
<1> DEFINE R == {ss \in Nat \X Nat : ss[1] < ss[2]}
<1>1. IsWellFoundedOn(R, Nat)
  BY NatLessThanWellFounded DEF OpToRel
<1>2. \A x, y \in Nat : y < x => <<y, x>> \in R
  OBVIOUS
<1> HIDE DEF R
<1>3. PICK x \in K : \A y \in K : ~(<<y, x>> \in R)
  BY <1>1, WFMin
<1>4. x \in Nat /\ \A y \in K : y \in Nat /\ ~(y < x)
  BY <1>2, <1>3
<1>5. \A y \in K : x <= y
  BY <1>4
<1> QED BY <1>5

(* The fastest is one of those offered, and nobody's time is less.                     *)
LEMMA FastestIs ==
  ASSUME NEW results, offered # {}, \A d \in DOMAIN results : results[d] \in Nat
  PROVE  /\ Cloud!Best(results) \in offered
         /\ \A d \in offered : Cloud!Time(results, Cloud!Best(results)) <= Cloud!Time(results, d)
<1> DEFINE times == {Cloud!Time(results, d) : d \in offered}
<1>1. times \in SUBSET Nat /\ times # {}
  BY DEF Cloud!Time, Cloud!NoRtt
<1>2. PICK i \in times : \A j \in times : i <= j
  BY <1>1, LeastExists
<1>3. PICK c \in offered : i = Cloud!Time(results, c)
  OBVIOUS
<1>4. \A d \in offered : Cloud!Time(results, c) <= Cloud!Time(results, d)
  BY <1>2, <1>3
<1> QED BY <1>4 DEF Cloud!Best, Cloud!Fastest

(* The pings come to an end: with a time below the limit the fastest is one that      *)
(* answered; a failed one, with 999, is above it.                                *)
LEMMA PingsEnd ==
  ASSUME CloudAssumption, offered # {}, NEW results,
         DOMAIN results \subseteq DOMAIN cloudAnswers', \A d \in DOMAIN results : results[d] \in Nat,
         \A d \in DOMAIN cloudAnswers' :
           cloudAnswers'[d] \in Nat /\ d \in offered /\ (cloudAnswers'[d] < 999 => d \in DOMAIN results /\ cloudAnswers'[d] = results[d]),
         Cloud!PingsAreOver(results)
  PROVE  /\ called' = called + 1 /\ request' \in {"select", "over"}
         /\ request' = "select" => /\ center'.rtt <= RttMax /\ center'.name \in DOMAIN cloudAnswers'
                                  /\ center'.name \in offered
                                  /\ \A d \in DOMAIN cloudAnswers' : center'.rtt <= cloudAnswers'[d]
<1> DEFINE best == Cloud!Best(results)
           time(d) == Cloud!Time(results, d)
<1>1. /\ called' = called + 1 /\ center' = [name |-> best, rtt |-> time(best)]
      /\ request' \in {"select", "over"} /\ (request' = "select" => ~(center'.rtt > RttMax))
  BY DEF Cloud!PingsAreOver, Cloud!Fail, Cloud!Ask
<1>2. best \in offered /\ \A d \in offered : time(best) <= time(d)
  BY FastestIs
<1>3. \A d : time(d) = IF d \in DOMAIN results THEN results[d] ELSE 999
  BY DEF Cloud!Time, Cloud!NoRtt
<1>4. RttMax \in Int /\ RttMax < 999
  BY DEF CloudAssumption
<1> HIDE DEF best, time
<1>5. center'.name = best /\ center'.rtt = time(best) /\ time(best) \in Nat
  BY <1>1, <1>3
<1> SUFFICES ASSUME request' = "select"
             PROVE  /\ time(best) <= RttMax /\ best \in DOMAIN cloudAnswers'
                    /\ \A d \in DOMAIN cloudAnswers' : time(best) <= cloudAnswers'[d]
  BY <1>1, <1>2, <1>5
<1>6. time(best) <= RttMax
  BY <1>1, <1>4, <1>5
<1>7. best \in DOMAIN cloudAnswers'
  BY <1>3, <1>4, <1>6
<1>8. ASSUME NEW d \in DOMAIN cloudAnswers' PROVE time(best) <= cloudAnswers'[d]
  <2>1. CASE cloudAnswers'[d] < 999
    BY <1>2, <1>3, <2>1
  <2>2. CASE ~(cloudAnswers'[d] < 999)
    BY <1>4, <1>5, <1>6, <2>2
  <2> QED BY <2>1, <2>2
<1> QED BY <1>6, <1>7, <1>8

LEMMA PingKeeps == ASSUME CloudAssumption, CloudInv, NEW c \in Centers, Cloud!Ping(c) PROVE CloudInv'
<1>1. /\ UNCHANGED <<setting, lockKey, offered>> /\ c \in pinging /\ pinging' = pinging \ {c}
  BY DEF Cloud!Ping, Cloud!fixed, Cloud!flow
<1>2. setting = "Auto" /\ c \in offered
  BY <1>1 DEF CloudInv, PingsInv
<1>3. CASE Cloud!Late
  <2>1. UNCHANGED <<cloudAnswers, called, center, request>>
    BY <1>3 DEF Cloud!Ping
  <2>2. called = 1
    BY <1>3 DEF Cloud!Late, CloudInv, PingsInv
  <2>3. PingsInv'
    BY <1>1, <1>2, <2>1, <2>2 DEF CloudInv, PingsInv
  <2>4. ChoiceInv'
    BY <1>1, <2>1 DEF CloudInv, ChoiceInv
  <2> QED BY <2>3, <2>4 DEF CloudInv
<1>4. CASE ~Cloud!Late
  <2>1. called = 0 /\ request = "pings"
    BY <1>1, <1>4 DEF Cloud!Late, CloudInv, PingsInv
  <2>2. PICK time \in Cloud!Handshake :
          /\ cloudAnswers' = [d \in DOMAIN cloudAnswers \cup {c} |-> IF d = c THEN time ELSE cloudAnswers[d]]
          /\ Cloud!PingsAreOver(cloudAnswers') \/ UNCHANGED <<called, stored, center, request>>
    BY <1>4 DEF Cloud!Ping
  <2>3. time \in Nat \ {0}
    BY DEF CloudAssumption, Cloud!Handshake, Cloud!NoRtt
  <2>4. \A d \in DOMAIN cloudAnswers' : cloudAnswers'[d] \in Nat \ {0} /\ d \in offered
    BY <1>2, <2>2, <2>3 DEF CloudInv, PingsInv
  <2>5. CASE UNCHANGED <<called, stored, center, request>>
    <3>1. PingsInv'
      BY <1>1, <1>2, <2>1, <2>4, <2>5 DEF CloudInv, PingsInv
    <3>2. ChoiceInv'
      BY <1>1, <2>1, <2>5 DEF CloudInv, ChoiceInv, Allocating
    <3> QED BY <3>1, <3>2 DEF CloudInv
  <2>6. CASE Cloud!PingsAreOver(cloudAnswers')
    <3>1. /\ called' = called + 1 /\ request' \in {"select", "over"}
          /\ request' = "select" => /\ center'.rtt <= RttMax /\ center'.name \in DOMAIN cloudAnswers'
                                   /\ center'.name \in offered
                                   /\ \A d \in DOMAIN cloudAnswers' : center'.rtt <= cloudAnswers'[d]
      BY <1>2, <2>4, <2>6, PingsEnd
    <3>2. PingsInv'
      BY <1>1, <1>2, <2>1, <2>4, <3>1 DEF CloudInv, PingsInv, Allocating
    <3>3. ChoiceInv'
      BY <1>1, <1>2, <2>1, <3>1 DEF CloudInv, ChoiceInv, Allocating, Locked
    <3> QED BY <3>2, <3>3 DEF CloudInv
  <2> QED BY <2>2, <2>5, <2>6
<1> QED BY <1>3, <1>4

LEMMA TimeoutKeeps == ASSUME CloudAssumption, CloudInv, Cloud!PingTimeout PROVE CloudInv'
<1> DEFINE in == {d \in DOMAIN cloudAnswers : cloudAnswers[d] \in 1 .. 998}
           results == [d \in in |-> cloudAnswers[d]]
<1>0. 1 .. (Cloud!NoRtt - 1) = 1 .. 998
  BY DEF Cloud!NoRtt
<1>1. /\ UNCHANGED <<setting, lockKey, offered, cloudAnswers, pinging>> /\ request = "pings" /\ called = 0
      /\ Cloud!PingsAreOver(results)
  <2>1. UNCHANGED <<setting, lockKey, offered, cloudAnswers, pinging>> /\ request = "pings" /\ called = 0
    BY DEF Cloud!PingTimeout, Cloud!fixed, Cloud!flow
  <2> DEFINE early == {d \in DOMAIN cloudAnswers : cloudAnswers[d] \in 1 .. (Cloud!NoRtt - 1)}
             times == [c \in early |-> cloudAnswers[c]]
  <2>2. Cloud!PingsAreOver(times)
    BY Zenon DEF Cloud!PingTimeout
  <2>3. early = in
    BY <1>0
  <2> HIDE DEF early, in
  <2>4. times = results
    BY <2>3
  <2> HIDE DEF times, results
  <2>5. Cloud!PingsAreOver(results)
    BY <2>2, <2>4
  <2> QED BY <2>1, <2>5
<1>2. /\ offered # {} /\ setting = "Auto"
      /\ \A d \in DOMAIN cloudAnswers : cloudAnswers[d] \in Nat \ {0} /\ d \in offered
  BY <1>1 DEF CloudInv, PingsInv
<1>3. /\ DOMAIN results \subseteq DOMAIN cloudAnswers' /\ \A d \in DOMAIN results : results[d] \in Nat
      /\ \A d \in DOMAIN cloudAnswers' :
           cloudAnswers'[d] \in Nat /\ d \in offered /\ (cloudAnswers'[d] < 999 => d \in DOMAIN results /\ cloudAnswers'[d] = results[d])
  <2>1. DOMAIN results = in /\ in \subseteq DOMAIN cloudAnswers /\ \A d \in in : results[d] = cloudAnswers[d]
    <3>1. in \subseteq DOMAIN cloudAnswers
      BY Zenon
    <3> HIDE DEF in
    <3> QED BY <3>1, Zenon
  <2>2. \A d \in DOMAIN cloudAnswers : cloudAnswers[d] < 999 => d \in in
    <3> SUFFICES ASSUME NEW d \in DOMAIN cloudAnswers, cloudAnswers[d] < 999 PROVE cloudAnswers[d] \in 1 .. 998
      OBVIOUS
    <3>1. cloudAnswers[d] \in Nat \ {0}
      BY <1>2
    <3> QED BY <3>1
  <2> HIDE DEF in, results
  <2>3. cloudAnswers' = cloudAnswers
    BY <1>1
  <2> QED BY <1>2, <2>1, <2>2, <2>3
<1> HIDE DEF results
<1>4. /\ called' = called + 1 /\ request' \in {"select", "over"}
      /\ request' = "select" => /\ center'.rtt <= RttMax /\ center'.name \in DOMAIN cloudAnswers'
                               /\ center'.name \in offered
                               /\ \A d \in DOMAIN cloudAnswers' : center'.rtt <= cloudAnswers'[d]
  BY <1>1, <1>2, <1>3, PingsEnd
<1>5. PingsInv'
  BY <1>1, <1>2, <1>4 DEF CloudInv, PingsInv, Allocating
<1>6. ChoiceInv'
  BY <1>1, <1>2, <1>4 DEF CloudInv, ChoiceInv, Allocating, Locked
<1> QED BY <1>5, <1>6 DEF CloudInv

LEMMA DatacentersKeep == ASSUME CloudAssumption, CloudInv, Cloud!Datacenters PROVE CloudInv'
<1>1. /\ request = "datacenters" /\ UNCHANGED <<setting, lockKey, cloudAnswers, called>>
  BY DEF Cloud!Datacenters, Cloud!fixed
<1>2. PICK some \in SUBSET Centers :
        /\ offered' = some
        /\ \/ request' = "over" /\ UNCHANGED <<pinging, center>>
           \/ setting \in some /\ request' = "select" /\ center' = [name |-> setting, rtt |-> 20] /\ UNCHANGED pinging
           \/ some # {} /\ setting = "Auto" /\ request' = "pings" /\ pinging' = some /\ UNCHANGED center
  BY ZenonT(40) DEF Cloud!Datacenters, Cloud!Fail, Cloud!Ask
<1>3. called = 0 /\ pinging = {} /\ DOMAIN cloudAnswers = {} /\ lockKey = "lock"
  BY <1>1 DEF CloudInv, PingsInv, ChoiceInv, Allocating, Locked
<1>4. setting \in some => setting # "Auto"
  BY DEF CloudAssumption
<1>5. PingsInv'
  BY <1>1, <1>2, <1>3, <1>4 DEF CloudInv, PingsInv, Allocating
<1>6. ChoiceInv'
  BY <1>1, <1>2, <1>3, <1>4 DEF CloudInv, ChoiceInv, Allocating, Locked
<1> QED BY <1>5, <1>6 DEF CloudInv

LEMMA CloudKeeps == ASSUME CloudAssumption, CloudInv, [Cloud!Next]_cloudVars PROVE CloudInv'
<1> USE DEF Allocating, Locked
<1>1. CASE UNCHANGED cloudVars
  BY <1>1 DEF CloudInv, PingsInv, ChoiceInv, cloudVars
<1>2. CASE Cloud!AllocationFails
  BY <1>2 DEF Cloud!AllocationFails, Cloud!Fail, Cloud!fixed, Cloud!flow, Cloud!pings, CloudInv, PingsInv,
              ChoiceInv
<1>3. CASE Cloud!Lock
  <2>1. /\ request = "lock" /\ UNCHANGED <<setting, offered, cloudAnswers, pinging, called, center>>
        /\ request' \in {"lock", "over"} \/ (request' = "datacenters" /\ lockKey' = "lock")
    BY <1>3 DEF Cloud!Lock, Cloud!Fail, Cloud!Ask, Cloud!fixed, Cloud!pings
  <2>2. called = 0 /\ pinging = {} /\ DOMAIN cloudAnswers = {}
    BY <2>1 DEF CloudInv, PingsInv
  <2> QED BY <2>1, <2>2 DEF CloudInv, PingsInv, ChoiceInv
<1>4. CASE Cloud!Select
  BY <1>4 DEF Cloud!Select, Cloud!Ask, Cloud!fixed, Cloud!pings, CloudInv, PingsInv, ChoiceInv
<1>5. CASE Cloud!Queued
  BY <1>5 DEF Cloud!Queued, Cloud!Ask, Cloud!Fail, Cloud!fixed, Cloud!pings, CloudInv, PingsInv, ChoiceInv
<1>6. CASE Cloud!Allocated
  BY <1>6 DEF Cloud!Allocated, Cloud!fixed, Cloud!pings, CloudInv, PingsInv, ChoiceInv
<1> QED BY <1>1, <1>2, <1>3, <1>4, <1>5, <1>6, EarlyKeep, DatacentersKeep, PingKeeps,
   TimeoutKeeps DEF Cloud!Next

(* Whatever datacenters there are and however fast, and whatever the order of the        *)
(* results, the timer and the answers (pskamajisession.cpp, psgaikaistreaming.cpp,     *)
(* datacenterping.cpp): what is begun is the fastest that had answered.              *)
THEOREM CloudIsFastest == MCSpec => []FastestIsChosen
<1>1. MCInit => CloudInv
  BY CloudStarts DEF MCInit
<1>2. CloudInv /\ [MCNext]_<<part, pacingVars, cloudVars, catalogVars, backVars, hostVars, syncVars, ctlVars, outVars, sendVars, videoVars, audioVars, nativeVars, appVars>> => CloudInv'
  <2>1. [MCNext]_<<part, pacingVars, cloudVars, catalogVars, backVars, hostVars, syncVars, ctlVars, outVars, sendVars, videoVars, audioVars, nativeVars, appVars>> => [Cloud!Next]_cloudVars
    BY DEF MCNext
  <2> QED BY <2>1, CloudKeeps, CloudAssumption
<1>3. CloudInv => FastestIsChosen
  BY DEF CloudInv, PingsInv, ChoiceInv, FastestIsChosen, Cloud!FastestIsChosen, Allocating, Locked
<1> QED BY <1>1, <1>2, <1>3, PTL DEF MCSpec

-----------------------------------------------------------------------------
(* The catalogues.                                                          *)
CatalogKinds == {"psnow", "ps5", "cross", "details"}
Logging(c) == catalogStep[c] \in Catalog!Login
InPsnow(c) == Logging(c) \/ catalogStep[c] \in {"category", "timer"}
InLibrary(c) == catalogStep[c] \in {"library", "page", "pause"}

(* The steps of a call are those of its kind.                                      *)
CallsInv ==
  /\ kind \in [CatalogCalls -> CatalogKinds \cup {"none"}]
  /\ DOMAIN catalogStep = CatalogCalls /\ DOMAIN catalogAt = CatalogCalls
  /\ DOMAIN cache = {"psnow", "ps5", "library", "details"}
  /\ \A c \in CatalogCalls : /\ kind[c] = "none" => catalogStep[c] = "none"
                             /\ InPsnow(c) => kind[c] = "psnow"
                             /\ InLibrary(c) => kind[c] = "cross"

(* A callback is stored for a call of its kind, and that of a join until it is answered.   *)
AnswersInv ==
  /\ catalogAnswers \in [CatalogCalls -> [ok : Nat, failed : Nat]]
  /\ caller \in [CatalogKinds -> CatalogCalls \cup {0}]
  /\ \A k \in CatalogKinds : caller[k] # 0 => kind[caller[k]] = k
  /\ \A c \in CatalogCalls : /\ kind[c] = "none" => catalogAnswers[c].ok = 0
                             /\ kind[c] = "cross" => catalogAnswers[c].ok <= 1
                             /\ kind[c] = "cross" /\ caller.cross = c => catalogAnswers[c].ok = 0

(* One call at most is in the login, and the mark tells.                             *)
LoginInv ==
  /\ auth \in BOOLEAN /\ (auth => \E c \in CatalogCalls : Logging(c))
  /\ \A c \in CatalogCalls : Logging(c) => auth /\ \A d \in CatalogCalls : Logging(d) => c = d

(* Alone, a call has the categories up to the current one but those that are absent.       *)
Fetched ==
  /\ games = Catalog!All(index) \ catalogAbsent /\ catalogAbsent \subseteq Catalog!All(index)
  /\ index \in Nat /\ index < categories /\ categories = Categories
PsnowInv ==
  "psnow" \notin overlapped =>
    /\ \A c \in CatalogCalls : InPsnow(c) => cache.psnow = Catalog!Missing /\ \A d \in CatalogCalls : InPsnow(d) => c = d
    /\ \A c \in CatalogCalls : catalogStep[c] = "category" => catalogAt[c] = index /\ Fetched
    /\ \A c \in CatalogCalls : catalogStep[c] = "timer" => catalogAt[c] \in {Catalog!Current, index} /\ Fetched
    /\ cache.psnow # Catalog!Missing => cache.psnow = Catalog!All(Categories) \ catalogAbsent

(* Alone, a call has the pages before the one that is asked for.                       *)
LibraryInv ==
  "cross" \notin overlapped =>
    /\ \A c \in CatalogCalls : InLibrary(c) => cache.library = Catalog!Missing
    /\ \A c, d \in CatalogCalls : InLibrary(c) /\ InLibrary(d) => c = d
    /\ \A c \in CatalogCalls : catalogStep[c] = "page" =>
         catalogAt[c] = start /\ start \in Nat /\ owned = Catalog!All(start) /\ (start = 0 \/ start < Pages)
    /\ \A c \in CatalogCalls : catalogStep[c] = "pause" => start \in Nat /\ owned = Catalog!All(start) /\ start < Pages
    /\ \A c \in CatalogCalls : catalogStep[c] \in {"page", "pause"} => catalogCut = Pages
    /\ cache.library \in {Catalog!Missing, Catalog!All(catalogCut)}

CatalogInv == CallsInv /\ AnswersInv /\ LoginInv /\ PsnowInv /\ LibraryInv

LEMMA CatalogStarts == ASSUME CatalogAssumption, Catalog!Init PROVE CatalogInv
<1> USE DEF Logging, InPsnow, InLibrary, CatalogKinds, Catalog!Login
<1>1. CallsInv
  BY DEF Catalog!Init, CallsInv
<1>2. AnswersInv
  BY DEF Catalog!Init, AnswersInv
<1>3. LoginInv
  BY DEF Catalog!Init, LoginInv
<1>4. PsnowInv
  BY DEF Catalog!Init, PsnowInv
<1>5. LibraryInv
  BY DEF Catalog!Init, LibraryInv
<1> QED BY <1>1, <1>2, <1>3, <1>4, <1>5 DEF CatalogInv

(* What an answer to a callback changes.                                            *)
LEMMA AnswerCounts ==
  ASSUME CatalogAssumption, AnswersInv, NEW c \in CatalogCalls \cup {0}, NEW how \in {"ok", "failed"}, Catalog!Answer(c, how)
  PROVE  /\ catalogAnswers' \in [CatalogCalls -> [ok : Nat, failed : Nat]]
         /\ \A d \in CatalogCalls : catalogAnswers'[d].ok = catalogAnswers[d].ok + (IF d = c /\ how = "ok" THEN 1 ELSE 0)
<1>1. catalogAnswers \in [CatalogCalls -> [ok : Nat, failed : Nat]] /\ 0 \notin CatalogCalls
  BY DEF AnswersInv, CatalogAssumption
<1>2. CASE c = 0
  BY <1>1, <1>2 DEF Catalog!Answer
<1>3. CASE c # 0
  <2>1. catalogAnswers' = [catalogAnswers EXCEPT ![c][how] = @ + 1]
    BY <1>3 DEF Catalog!Answer
  <2>2. c \in CatalogCalls
    BY <1>3
  <2>3. /\ catalogAnswers'[c] = [catalogAnswers[c] EXCEPT ![how] = @ + 1]
        /\ \A d \in CatalogCalls \ {c} : catalogAnswers'[d] = catalogAnswers[d]
        /\ catalogAnswers' = [d \in CatalogCalls |-> catalogAnswers'[d]]
    BY <1>1, <2>1, <2>2
  <2>4. catalogAnswers'[c] = [ok |-> catalogAnswers[c].ok + (IF how = "ok" THEN 1 ELSE 0),
                              failed |-> catalogAnswers[c].failed + (IF how = "failed" THEN 1 ELSE 0)]
    <3>1. /\ catalogAnswers[c].ok \in Nat /\ catalogAnswers[c].failed \in Nat
          /\ catalogAnswers[c] = [ok |-> catalogAnswers[c].ok, failed |-> catalogAnswers[c].failed]
      BY <1>1, <2>2
    <3>2. CASE how = "ok"
      BY <2>3, <3>1, <3>2
    <3>3. CASE how = "failed"
      BY <2>3, <3>1, <3>3
    <3> QED BY <3>2, <3>3
  <2> QED BY <1>1, <2>2, <2>3, <2>4
<1> QED BY <1>2, <1>3

(* A step that answers neither a join nor a call that was not made.                       *)
OthersAnswered ==
  /\ catalogAnswers' \in [CatalogCalls -> [ok : Nat, failed : Nat]]
  /\ \A c \in CatalogCalls : kind[c] \in {"none", "cross"} => catalogAnswers'[c].ok = catalogAnswers[c].ok

LEMMA OthersAre ==
  ASSUME CatalogAssumption, CatalogInv,
         \/ UNCHANGED catalogAnswers
         \/ \E k \in {"psnow", "ps5", "details"}, how \in {"ok", "failed"} : Catalog!Answer(caller[k], how)
         \/ Catalog!Answer(caller.cross, "failed")
  PROVE  OthersAnswered
<1>1. AnswersInv
  BY DEF CatalogInv
<1>2. CASE UNCHANGED catalogAnswers
  BY <1>1, <1>2 DEF OthersAnswered, AnswersInv
<1>3. ASSUME NEW k \in {"psnow", "ps5", "details"}, NEW how \in {"ok", "failed"}, Catalog!Answer(caller[k], how)
      PROVE  OthersAnswered
  <2>1. caller[k] \in CatalogCalls \cup {0} /\ (caller[k] # 0 => kind[caller[k]] = k)
    BY <1>1 DEF AnswersInv, CatalogKinds
  <2>2. /\ catalogAnswers' \in [CatalogCalls -> [ok : Nat, failed : Nat]]
        /\ \A d \in CatalogCalls : catalogAnswers'[d].ok = catalogAnswers[d].ok + (IF d = caller[k] /\ how = "ok" THEN 1 ELSE 0)
    BY <1>1, <1>3, <2>1, AnswerCounts
  <2>3. ASSUME NEW c \in CatalogCalls, kind[c] \in {"none", "cross"} PROVE catalogAnswers'[c].ok = catalogAnswers[c].ok
    <3>1. c # caller[k]
      BY <2>1, <2>3 DEF CatalogAssumption
    <3>2. catalogAnswers[c].ok \in Nat
      BY <1>1 DEF AnswersInv
    <3> QED BY <2>2, <3>1, <3>2
  <2> QED BY <2>2, <2>3 DEF OthersAnswered
<1>4. CASE Catalog!Answer(caller.cross, "failed")
  <2>1. caller.cross \in CatalogCalls \cup {0}
    BY <1>1 DEF AnswersInv, CatalogKinds
  <2>2. /\ catalogAnswers' \in [CatalogCalls -> [ok : Nat, failed : Nat]]
        /\ \A d \in CatalogCalls : catalogAnswers'[d].ok = catalogAnswers[d].ok + 0
    BY <1>1, <1>4, <2>1, AnswerCounts
  <2>3. \A c \in CatalogCalls : catalogAnswers[c].ok \in Nat
    BY <1>1 DEF AnswersInv
  <2> QED BY <2>2, <2>3 DEF OthersAnswered
<1> QED BY <1>2, <1>3, <1>4

LEMMA AnswersKept ==
  ASSUME CatalogInv, OthersAnswered, UNCHANGED <<kind, caller>>
  PROVE  AnswersInv'
BY DEF CatalogInv, OthersAnswered, AnswersInv

(* What a step leaves as it is, when the calls of the kind do not move.                     *)
LEMMA CallsKept ==
  ASSUME CatalogInv, UNCHANGED kind, DOMAIN cache' = DOMAIN cache, NEW c \in CatalogCalls, NEW s, NEW a, Catalog!Goes(c, s, a),
         \/ s = "none"
         \/ InPsnow(c) /\ s \in Catalog!Login \cup {"category", "timer"}
         \/ InLibrary(c) /\ s \in {"library", "page", "pause"}
  PROVE  CallsInv'
<1>1. \A d \in CatalogCalls : catalogStep'[d] = IF d = c THEN s ELSE catalogStep[d]
  BY DEF CatalogInv, CallsInv, Catalog!Goes
<1>2. DOMAIN catalogStep' = CatalogCalls /\ DOMAIN catalogAt' = CatalogCalls
  BY DEF CatalogInv, CallsInv, Catalog!Goes
<1>3. kind[c] \in CatalogKinds \/ s = "none"
  BY DEF CatalogInv, CallsInv, CatalogKinds
<1> QED BY <1>1, <1>2, <1>3 DEF CatalogInv, CallsInv, CatalogKinds, InPsnow, InLibrary, Logging,
                                Catalog!Login

LEMMA LoginKept ==
  ASSUME CatalogInv, UNCHANGED auth, \A c \in CatalogCalls : Logging(c)' <=> Logging(c)
  PROVE  LoginInv'
<1>1. LoginInv
  BY DEF CatalogInv
<1> HIDE DEF Logging
<1> QED BY <1>1 DEF LoginInv

LEMMA PsnowKept ==
  ASSUME CatalogInv, UNCHANGED <<categories, index, games, catalogAbsent>>,
         "psnow" \in overlapped => "psnow" \in overlapped', cache'.psnow \in {Catalog!Missing, cache.psnow},
         \A c \in CatalogCalls : InPsnow(c)' => catalogStep'[c] = catalogStep[c] /\ catalogAt'[c] = catalogAt[c]
  PROVE  PsnowInv'
BY DEF CatalogInv, PsnowInv, Fetched, InPsnow, Logging, Catalog!Missing

LEMMA LibraryKept ==
  ASSUME CatalogInv, UNCHANGED <<start, owned, catalogCut>>, "cross" \in overlapped => "cross" \in overlapped',
         cache'.library \in {Catalog!Missing, cache.library},
         \A c \in CatalogCalls : InLibrary(c)' => catalogStep'[c] = catalogStep[c] /\ catalogAt'[c] = catalogAt[c]
  PROVE  LibraryInv'
BY DEF CatalogInv, LibraryInv, InLibrary, Catalog!Missing

-----------------------------------------------------------------------------
(* A call is made: the step of no other call moves.                                     *)
LEMMA CallIs ==
  ASSUME CatalogInv, NEW c \in CatalogCalls, NEW k \in CatalogKinds, Catalog!Calling(c, k)
  PROVE  /\ kind[c] = "none" /\ catalogStep[c] = "none" /\ ~InPsnow(c) /\ ~InLibrary(c) /\ ~Logging(c)
         /\ kind' \in [CatalogCalls -> CatalogKinds \cup {"none"}]
         /\ \A d \in CatalogCalls : kind'[d] = IF d = c THEN k ELSE kind[d]
         /\ "psnow" \in overlapped => "psnow" \in overlapped'
         /\ "cross" \in overlapped => "cross" \in overlapped'
         /\ k = "psnow" /\ "psnow" \notin overlapped' => \A d \in CatalogCalls : ~InPsnow(d)
         /\ k = "cross" /\ "cross" \notin overlapped' => \A d \in CatalogCalls : ~InLibrary(d)
<1>1. /\ kind[c] = "none" /\ kind' = [kind EXCEPT ![c] = k]
      /\ overlapped' = IF Catalog!Busy(k) THEN overlapped \cup {k} ELSE overlapped
  BY DEF Catalog!Calling
<1>2. /\ catalogStep[c] = "none" /\ ~InPsnow(c) /\ ~InLibrary(c) /\ ~Logging(c)
  BY <1>1 DEF CatalogInv, CallsInv, InPsnow, InLibrary, Logging, Catalog!Login
<1>3. /\ kind' \in [CatalogCalls -> CatalogKinds \cup {"none"}]
      /\ \A d \in CatalogCalls : kind'[d] = IF d = c THEN k ELSE kind[d]
  BY <1>1 DEF CatalogInv, CallsInv
<1>4. ASSUME k = "psnow", "psnow" \notin overlapped' PROVE \A d \in CatalogCalls : ~InPsnow(d)
  <2>1. \A d \in CatalogCalls : InPsnow(d) => kind[d] = "psnow" /\ catalogStep[d] # "none"
    BY DEF CatalogInv, CallsInv, InPsnow, Logging, Catalog!Login
  <2> QED BY <1>1, <1>4, <2>1 DEF Catalog!Busy
<1>5. ASSUME k = "cross", "cross" \notin overlapped' PROVE \A d \in CatalogCalls : ~InLibrary(d)
  <2>1. \A d \in CatalogCalls : InLibrary(d) => kind[d] = "cross" /\ catalogStep[d] # "none"
    BY DEF CatalogInv, CallsInv, InLibrary
  <2> QED BY <1>1, <1>5, <2>1 DEF Catalog!Busy
<1> QED BY <1>1, <1>2, <1>3, <1>4, <1>5

(* The callback of a call is called at once, or stored for later.                         *)
LEMMA CallIsAnswered ==
  ASSUME CatalogAssumption, CatalogInv, NEW c \in CatalogCalls, NEW k \in CatalogKinds, Catalog!Calling(c, k),
         NEW how \in {"ok", "failed"}, Catalog!Answer(c, how), caller' = caller \/ caller' = [caller EXCEPT !.cross = 0]
  PROVE  AnswersInv'
<1>1. kind[c] = "none" /\ \A d \in CatalogCalls : kind'[d] = IF d = c THEN k ELSE kind[d]
  BY CallIs
<1>2. AnswersInv /\ 0 \notin CatalogCalls
  BY DEF CatalogInv, CatalogAssumption
<1>3. /\ catalogAnswers' \in [CatalogCalls -> [ok : Nat, failed : Nat]]
      /\ \A d \in CatalogCalls : catalogAnswers'[d].ok = catalogAnswers[d].ok + (IF d = c /\ how = "ok" THEN 1 ELSE 0)
  BY <1>2, AnswerCounts
<1>4. /\ caller' \in [CatalogKinds -> CatalogCalls \cup {0}]
      /\ \A n \in CatalogKinds : caller'[n] # 0 => caller'[n] = caller[n] /\ kind[caller[n]] = n /\ caller[n] # c
  BY <1>1, <1>2 DEF AnswersInv, CatalogKinds
<1>5. ASSUME NEW d \in CatalogCalls
      PROVE  /\ kind'[d] = "none" => catalogAnswers'[d].ok = 0
             /\ kind'[d] = "cross" => catalogAnswers'[d].ok <= 1
             /\ kind'[d] = "cross" /\ caller'.cross = d => catalogAnswers'[d].ok = 0
  <2>1. CASE d = c
    <3>1. catalogAnswers[c].ok = 0 /\ caller'.cross # c
      BY <1>1, <1>2, <1>4 DEF AnswersInv, CatalogKinds
    <3> QED BY <1>1, <1>3, <2>1, <3>1 DEF CatalogKinds
  <2>2. CASE d # c
    <3>1. catalogAnswers'[d].ok = catalogAnswers[d].ok
      BY <1>2, <1>3, <2>2 DEF AnswersInv
    <3>2. caller'.cross = d => caller.cross = d
      BY <1>2, <1>4 DEF CatalogKinds
    <3> QED BY <1>1, <1>2, <2>2, <3>1, <3>2 DEF AnswersInv
  <2> QED BY <2>1, <2>2
<1>6. \A n \in CatalogKinds : caller'[n] # 0 => kind'[caller'[n]] = n
  BY <1>1, <1>4
<1> QED BY <1>3, <1>4, <1>5, <1>6 DEF AnswersInv

LEMMA CallIsStored ==
  ASSUME CatalogAssumption, CatalogInv, NEW c \in CatalogCalls, NEW k \in CatalogKinds, Catalog!Calling(c, k),
         UNCHANGED catalogAnswers, caller' \in [CatalogKinds -> CatalogCalls \cup {0}],
         \A n \in CatalogKinds : caller'[n] = (IF n = k THEN c ELSE caller[n]) \/ (n # k /\ caller'[n] = 0)
  PROVE  AnswersInv'
<1>1. kind[c] = "none" /\ \A d \in CatalogCalls : kind'[d] = IF d = c THEN k ELSE kind[d]
  BY CallIs
<1>2. AnswersInv /\ 0 \notin CatalogCalls
  BY DEF CatalogInv, CatalogAssumption
<1>3. \A n \in CatalogKinds : caller'[n] # 0 => kind'[caller'[n]] = n
  <2> TAKE n \in CatalogKinds
  <2>1. CASE n = k
    BY <1>1, <2>1
  <2>2. CASE n # k
    <3>1. caller'[n] # 0 => caller'[n] = caller[n] /\ kind[caller[n]] = n /\ caller[n] # c /\ caller[n] \in CatalogCalls
      BY <1>1, <1>2, <2>2 DEF AnswersInv, CatalogKinds
    <3> QED BY <1>1, <3>1
  <2> QED BY <2>1, <2>2
<1>4. ASSUME NEW d \in CatalogCalls
      PROVE  /\ kind'[d] = "none" => catalogAnswers[d].ok = 0
             /\ kind'[d] = "cross" => catalogAnswers[d].ok <= 1
             /\ kind'[d] = "cross" /\ caller'.cross = d => catalogAnswers[d].ok = 0
  <2>1. CASE d = c
    BY <1>1, <1>2, <2>1 DEF AnswersInv
  <2>2. CASE d # c
    <3>1. caller'.cross = d => caller.cross = d
      BY <1>2, <2>2 DEF CatalogKinds
    <3> QED BY <1>1, <1>2, <2>2, <3>1 DEF AnswersInv
  <2> QED BY <2>1, <2>2
<1> QED BY <1>2, <1>3, <1>4 DEF AnswersInv

(* A call that asks for nothing more.                                              *)
LEMMA CallOnlyKeeps ==
  ASSUME CatalogInv, NEW c \in CatalogCalls, NEW k \in CatalogKinds, Catalog!Calling(c, k), AnswersInv',
         UNCHANGED <<catalogStep, catalogAt, auth, categories, index, games, catalogAbsent, start, owned, catalogCut, cache>>
  PROVE  CatalogInv'
<1>1. /\ kind[c] = "none" /\ catalogStep[c] = "none"
      /\ kind' \in [CatalogCalls -> CatalogKinds \cup {"none"}]
      /\ \A d \in CatalogCalls : kind'[d] = IF d = c THEN k ELSE kind[d]
      /\ "psnow" \in overlapped => "psnow" \in overlapped'
      /\ "cross" \in overlapped => "cross" \in overlapped'
  BY CallIs
<1>2. CallsInv'
  BY <1>1 DEF CatalogInv, CallsInv, CatalogKinds, InPsnow, InLibrary, Logging, Catalog!Login
<1>3. LoginInv'
  BY LoginKept DEF Logging
<1>4. PsnowInv'
  BY <1>1, PsnowKept
<1>5. LibraryInv'
  BY <1>1, LibraryKept
<1> QED BY <1>2, <1>3, <1>4, <1>5 DEF CatalogInv

(* A call of the catalogue of PS Now.                                               *)
LEMMA FetchPsnowKeeps ==
  ASSUME CatalogAssumption, CatalogInv, NEW c \in CatalogCalls, Catalog!FetchPsnow(c)
  PROVE  CatalogInv'
<1>1. /\ Catalog!Calling(c, "psnow") /\ "psnow" \in CatalogKinds
      /\ UNCHANGED <<listing, start, owned, cross, catalogCut, cache>>
  BY DEF Catalog!FetchPsnow, Catalog!libraryVars, CatalogKinds
<1>2. ASSUME NEW how \in {"ok", "failed"}, Catalog!Answer(c, how), UNCHANGED <<catalogStep, catalogAt, caller, Catalog!psnowVars>>
      PROVE  CatalogInv'
  <2>1. AnswersInv'
    BY <1>1, <1>2, CallIsAnswered
  <2> QED BY <1>1, <1>2, <2>1, CallOnlyKeeps DEF Catalog!psnowVars
<1>3. CASE /\ ~auth /\ cache.psnow = Catalog!Missing /\ Catalog!Goes(c, "oauth", 0) /\ caller' = [caller EXCEPT !.psnow = c]
           /\ auth' = TRUE /\ categories' = 0 /\ index' = 0 /\ games' = {} /\ catalogAbsent' = {} /\ UNCHANGED catalogAnswers
  <2>1. /\ kind[c] = "none" /\ catalogStep[c] = "none" /\ ~InPsnow(c) /\ ~InLibrary(c) /\ ~Logging(c)
        /\ kind' \in [CatalogCalls -> CatalogKinds \cup {"none"}]
        /\ \A d \in CatalogCalls : kind'[d] = IF d = c THEN "psnow" ELSE kind[d]
        /\ "psnow" \in overlapped => "psnow" \in overlapped'
        /\ "cross" \in overlapped => "cross" \in overlapped'
        /\ "psnow" \notin overlapped' => \A d \in CatalogCalls : ~InPsnow(d)
    BY <1>1, CallIs
  <2>2. /\ DOMAIN catalogStep' = CatalogCalls /\ DOMAIN catalogAt' = CatalogCalls
        /\ \A d \in CatalogCalls : catalogStep'[d] = IF d = c THEN "oauth" ELSE catalogStep[d]
        /\ \A d \in CatalogCalls \ {c} : catalogAt'[d] = catalogAt[d]
    BY <1>3 DEF CatalogInv, CallsInv, Catalog!Goes
  <2>3. CallsInv'
    BY <1>1, <2>1, <2>2 DEF CatalogInv, CallsInv, CatalogKinds, InPsnow, InLibrary, Logging, Catalog!Login
  <2>4. AnswersInv'
    <3>1. /\ caller' \in [CatalogKinds -> CatalogCalls \cup {0}]
          /\ \A n \in CatalogKinds : caller'[n] = IF n = "psnow" THEN c ELSE caller[n]
      BY <1>3 DEF CatalogInv, AnswersInv, CatalogKinds
    <3> QED BY <1>1, <1>3, <3>1, CallIsStored
  <2>5. LoginInv'
    <3>1. \A d \in CatalogCalls : ~Logging(d)
      BY <1>3 DEF CatalogInv, LoginInv
    <3>2. \A d \in CatalogCalls : Logging(d)' <=> d = c
      BY <2>2, <3>1 DEF Logging, Catalog!Login
    <3> HIDE DEF Logging
    <3> QED BY <1>3, <3>2 DEF LoginInv
  <2>6. PsnowInv'
    <3>1. "psnow" \notin overlapped' => \A d \in CatalogCalls : InPsnow(d)' => d = c
      BY <2>1, <2>2 DEF InPsnow, Logging
    <3>2. \A d \in CatalogCalls : catalogStep'[d] \in {"category", "timer"} => InPsnow(d) /\ d # c
      BY <2>2 DEF InPsnow
    <3> QED BY <1>1, <1>3, <2>1, <3>1, <3>2 DEF PsnowInv
  <2>7. LibraryInv'
    BY <1>1, <2>1, <2>2, LibraryKept DEF InLibrary
  <2> QED BY <2>3, <2>4, <2>5, <2>6, <2>7 DEF CatalogInv
<1> QED BY <1>2, <1>3 DEF Catalog!FetchPsnow

(* A call moves on: what each part of the invariant sees of it.                           *)
LEMMA GoesTo ==
  ASSUME CatalogInv, NEW c \in CatalogCalls, NEW s, NEW a, Catalog!Goes(c, s, a)
  PROVE  /\ DOMAIN catalogStep' = CatalogCalls /\ DOMAIN catalogAt' = CatalogCalls
         /\ catalogStep'[c] = s /\ catalogAt'[c] = a
         /\ \A d \in CatalogCalls \ {c} : catalogStep'[d] = catalogStep[d] /\ catalogAt'[d] = catalogAt[d]
BY DEF CatalogInv, CallsInv, Catalog!Goes

(* An answer of the login: the mark stays while there is another request.                  *)
LEMMA HandleLoginKeeps ==
  ASSUME CatalogAssumption, CatalogInv, NEW c \in CatalogCalls, Catalog!HandleLogin(c)
  PROVE  CatalogInv'
<1>1. /\ UNCHANGED <<kind, listing, caller, start, owned, catalogCut, catalogAnswers, overlapped>>
      /\ Logging(c) /\ DOMAIN cache' = DOMAIN cache
      /\ cache'.psnow \in {Catalog!Missing, cache.psnow} /\ cache'.library \in {Catalog!Missing, cache.library}
  <2>1. cache' = cache \/ cache' = Catalog!Invalidated
    BY DEF Catalog!HandleLogin, Catalog!HandleOAuth, Catalog!HandleSession, Catalog!HandleStores,
           Catalog!HandleRoot
  <2>2. DOMAIN cache = {"psnow", "ps5", "library", "details"}
    BY DEF CatalogInv, CallsInv
  <2>3. DOMAIN cache' = DOMAIN cache /\ cache'.psnow \in {Catalog!Missing, cache.psnow} /\ cache'.library \in {Catalog!Missing, cache.library}
    BY <2>1, <2>2 DEF Catalog!Invalidated
  <2> QED BY <2>3 DEF Catalog!HandleLogin, Catalog!HandleOAuth, Catalog!HandleSession,
                      Catalog!HandleStores, Catalog!HandleRoot,
                     Catalog!libraryVars, Logging, Catalog!Login
<1>2. InPsnow(c) /\ ~InLibrary(c) /\ auth = TRUE /\ \A d \in CatalogCalls : Logging(d) => d = c
  BY <1>1 DEF CatalogInv, LoginInv, InPsnow, InLibrary, Logging, Catalog!Login
<1>3. AnswersInv'
  BY <1>1, OthersAre, AnswersKept
<1>4. CASE UNCHANGED Catalog!psnowVars /\ \E s \in {"session", "stores", "root"} : Catalog!Goes(c, s, 0)
  <2>1. PICK s \in {"session", "stores", "root"} : Catalog!Goes(c, s, 0)
    BY <1>4
  <2>2. s \in Catalog!Login /\ s \notin {"none", "category", "timer", "library", "page", "pause"}
    BY DEF Catalog!Login
  <2>3. /\ DOMAIN catalogStep' = CatalogCalls /\ DOMAIN catalogAt' = CatalogCalls
        /\ catalogStep'[c] = s /\ catalogAt'[c] = 0
        /\ \A d \in CatalogCalls \ {c} : catalogStep'[d] = catalogStep[d] /\ catalogAt'[d] = catalogAt[d]
    BY <2>1, GoesTo
  <2>4. CallsInv'
    BY <1>1, <1>2, <2>1, <2>2, CallsKept
  <2>5. LoginInv'
    <3>1. \A d \in CatalogCalls : Logging(d)' <=> Logging(d)
      BY <1>1, <2>2, <2>3 DEF Logging
    <3> QED BY <1>4, <3>1, LoginKept DEF Catalog!psnowVars
  <2>6. PsnowInv'
    <3>1. /\ \A d \in CatalogCalls : InPsnow(d)' => InPsnow(d)
          /\ \A d \in CatalogCalls : catalogStep'[d] \in {"category", "timer"} => catalogStep'[d] = catalogStep[d] /\ catalogAt'[d] = catalogAt[d]
      BY <1>2, <2>2, <2>3 DEF InPsnow, Logging
    <3>2. UNCHANGED <<categories, index, games, catalogAbsent, overlapped>>
      BY <1>1, <1>4 DEF Catalog!psnowVars
    <3> HIDE DEF InPsnow
    <3> QED BY <1>1, <3>1, <3>2 DEF CatalogInv, PsnowInv, Fetched, Catalog!Missing
  <2>7. LibraryInv'
    BY <1>1, <1>2, <2>2, <2>3, LibraryKept DEF InLibrary
  <2> QED BY <1>3, <2>4, <2>5, <2>6, <2>7 DEF CatalogInv
<1>5. CASE Catalog!HandleRoot(c)
  <2>1. /\ Catalog!Goes(c, "category", 0) /\ UNCHANGED cache
        /\ auth' = FALSE /\ categories' = Categories /\ index' = 0 /\ games' = {} /\ catalogAbsent' = {}
    BY <1>5 DEF Catalog!HandleRoot
  <2>2. /\ DOMAIN catalogStep' = CatalogCalls /\ DOMAIN catalogAt' = CatalogCalls
        /\ catalogStep'[c] = "category" /\ catalogAt'[c] = 0
        /\ \A d \in CatalogCalls \ {c} : catalogStep'[d] = catalogStep[d] /\ catalogAt'[d] = catalogAt[d]
    BY <2>1, GoesTo
  <2>3. CallsInv'
    BY <1>1, <1>2, <2>1, CallsKept
  <2>4. LoginInv'
    BY <1>2, <2>1, <2>2 DEF LoginInv, Logging, Catalog!Login
  <2>5. PsnowInv'
    <3>1. \A d \in CatalogCalls : InPsnow(d)' => InPsnow(d)
      BY <1>2, <2>2 DEF InPsnow, Logging
    <3>2. Fetched'
      BY <2>1 DEF Fetched, Catalog!All, CatalogAssumption
    <3>3. "psnow" \notin overlapped => \A d \in CatalogCalls : catalogStep'[d] \in {"category", "timer"} => d = c
      BY <1>2, <2>2 DEF CatalogInv, PsnowInv, InPsnow
    <3>4. "psnow" \notin overlapped => cache.psnow = Catalog!Missing
      BY <1>2 DEF CatalogInv, PsnowInv
    <3> HIDE DEF InPsnow, Fetched
    <3> QED BY <1>1, <2>1, <2>2, <3>1, <3>2, <3>3, <3>4 DEF CatalogInv, PsnowInv, Catalog!Missing
  <2>6. LibraryInv'
    BY <1>1, <1>2, <2>2, LibraryKept DEF InLibrary
  <2> QED BY <1>3, <2>3, <2>4, <2>5, <2>6 DEF CatalogInv
<1> QED BY <1>4, <1>5 DEF Catalog!HandleLogin, Catalog!HandleOAuth, Catalog!HandleSession,
                          Catalog!HandleStores

LEMMA LoginFailsKeeps ==
  ASSUME CatalogAssumption, CatalogInv, NEW c \in CatalogCalls, Catalog!LoginFails(c)
  PROVE  CatalogInv'
<1>1. /\ UNCHANGED <<kind, listing, caller, categories, index, games, catalogAbsent, start, owned, catalogCut, cache, overlapped>>
      /\ Logging(c) /\ auth' = FALSE /\ Catalog!Goes(c, "none", 0) /\ Catalog!Answer(caller["psnow"], "failed")
  BY DEF Catalog!LoginFails, Catalog!libraryVars, Logging
<1>2. ~InLibrary(c) /\ \A d \in CatalogCalls : Logging(d) => d = c
  BY <1>1 DEF CatalogInv, LoginInv, InLibrary, Logging, Catalog!Login
<1>3. /\ catalogStep'[c] = "none"
      /\ \A d \in CatalogCalls \ {c} : catalogStep'[d] = catalogStep[d] /\ catalogAt'[d] = catalogAt[d]
  BY <1>1, GoesTo
<1>4. AnswersInv'
  BY <1>1, OthersAre, AnswersKept
<1>5. CallsInv'
  BY <1>1, CallsKept
<1>6. LoginInv'
  BY <1>1, <1>2, <1>3 DEF LoginInv, Logging, Catalog!Login
<1>7. PsnowInv'
  BY <1>1, <1>3, PsnowKept DEF InPsnow, Logging, Catalog!Login
<1>8. LibraryInv'
  BY <1>1, <1>3, LibraryKept DEF InLibrary
<1> QED BY <1>4, <1>5, <1>6, <1>7, <1>8 DEF CatalogInv

-----------------------------------------------------------------------------
(* The categories.                                                           *)

(* One category is there or has failed: another is asked for, or the list is kept.           *)
LEMMA CategoryIsDone ==
  ASSUME CatalogAssumption, CatalogInv, NEW c \in CatalogCalls, catalogStep[c] = "category",
         \/ games' = games \cup {catalogAt[c]} /\ catalogAbsent' = catalogAbsent
         \/ games' = games /\ catalogAbsent' = catalogAbsent \cup {catalogAt[c]},
         index' = catalogAt[c] + 1,
         NEW a \in {Catalog!Current, catalogAt[c] + 1}, NEW all, all = games', Catalog!NextCategory(c, all, a),
         UNCHANGED <<kind, listing, caller, auth, categories, start, owned, catalogCut, overlapped>>
  PROVE  CatalogInv'
<1>1. InPsnow(c) /\ ~InLibrary(c) /\ ~Logging(c)
  BY DEF InPsnow, InLibrary, Logging, Catalog!Login
<1>2. PICK s \in {"timer", "none"}, b \in {a, 0} :
        /\ Catalog!Goes(c, s, b) /\ b = IF s = "timer" THEN a ELSE 0
        /\ s = "timer" <=> catalogAt[c] + 1 < categories
        /\ s = "timer" => UNCHANGED <<cache, catalogAnswers>>
        /\ s = "none" => Catalog!Complete(games')
  BY DEF Catalog!NextCategory
<1>3. /\ DOMAIN catalogStep' = CatalogCalls /\ DOMAIN catalogAt' = CatalogCalls
      /\ catalogStep'[c] = s /\ catalogAt'[c] = b
      /\ \A d \in CatalogCalls \ {c} : catalogStep'[d] = catalogStep[d] /\ catalogAt'[d] = catalogAt[d]
  BY <1>2, GoesTo
<1>4. /\ DOMAIN cache' = DOMAIN cache /\ cache'.library = cache.library
      /\ cache'.psnow = IF s = "timer" THEN cache.psnow ELSE games'
  <2>1. cache' = cache \/ cache' = [cache EXCEPT !.psnow = games']
    BY <1>2 DEF Catalog!Complete
  <2>2. DOMAIN cache = {"psnow", "ps5", "library", "details"}
    BY DEF CatalogInv, CallsInv
  <2> QED BY <1>2, <2>1, <2>2 DEF Catalog!Complete
<1>5. CallsInv'
  BY <1>1, <1>2, <1>4, CallsKept
<1>6. AnswersInv'
  <2>1. UNCHANGED catalogAnswers \/ Catalog!Answer(caller["psnow"], "ok")
    BY <1>2 DEF Catalog!Complete
  <2> QED BY <2>1, OthersAre, AnswersKept
<1>7. LoginInv'
  <2>1. \A d \in CatalogCalls : Logging(d)' <=> Logging(d)
    BY <1>1, <1>3 DEF Logging, Catalog!Login
  <2> QED BY <2>1, LoginKept
<1>8. LibraryInv'
  BY <1>1, <1>3, <1>4, LibraryKept DEF InLibrary
<1>9. PsnowInv'
  <2> SUFFICES ASSUME "psnow" \notin overlapped PROVE PsnowInv'
    BY DEF PsnowInv
  <2>1. /\ catalogAt[c] = index /\ Fetched /\ cache.psnow = Catalog!Missing
        /\ \A d \in CatalogCalls : InPsnow(d) => d = c
    BY <1>1 DEF CatalogInv, PsnowInv
  <2>2. /\ \A d \in CatalogCalls : InPsnow(d)' => d = c /\ s = "timer"
        /\ \A d \in CatalogCalls : catalogStep'[d] # "category"
        /\ \A d \in CatalogCalls : catalogStep'[d] = "timer" => InPsnow(d)'
    BY <1>3, <2>1 DEF InPsnow, Logging, Catalog!Login
  <2>3. /\ games' = Catalog!All(index') \ catalogAbsent' /\ catalogAbsent' \subseteq Catalog!All(index')
        /\ index' \in Nat /\ categories' = Categories
    <3>1. /\ games = Catalog!All(index) \ catalogAbsent /\ catalogAbsent \subseteq Catalog!All(index)
          /\ index \in Nat /\ index' = index + 1 /\ categories' = Categories /\ catalogAt[c] = index
      BY <2>1 DEF Fetched
    <3>2. Catalog!All(index + 1) = Catalog!All(index) \cup {index} /\ index \notin Catalog!All(index)
      BY <3>1 DEF Catalog!All
    <3>3. CASE games' = games \cup {index} /\ catalogAbsent' = catalogAbsent
      BY <3>1, <3>2, <3>3
    <3>4. CASE games' = games /\ catalogAbsent' = catalogAbsent \cup {index}
      BY <3>1, <3>2, <3>4
    <3> QED BY <3>1, <3>3, <3>4
  <2>4. CASE s = "timer"
    <3>1. Fetched'
      BY <1>2, <2>1, <2>3, <2>4 DEF Fetched
    <3>2. cache'.psnow = Catalog!Missing /\ catalogAt'[c] \in {Catalog!Current, index'}
      BY <1>2, <1>3, <1>4, <2>1, <2>4
    <3> HIDE DEF InPsnow, Fetched
    <3> QED BY <2>2, <2>4, <3>1, <3>2 DEF PsnowInv
  <2>5. CASE s = "none"
    <3>1. index' = Categories
      BY <1>2, <2>1, <2>5, CatalogAssumption DEF Fetched, CatalogAssumption
    <3>2. cache'.psnow = Catalog!All(Categories) \ catalogAbsent'
      BY <1>4, <2>3, <2>5, <3>1
    <3> HIDE DEF InPsnow, Fetched
    <3> QED BY <2>2, <2>5, <3>2 DEF PsnowInv
  <2> QED BY <2>4, <2>5
<1> QED BY <1>5, <1>6, <1>7, <1>8, <1>9 DEF CatalogInv

LEMMA HandleCategoryKeeps ==
  ASSUME CatalogAssumption, CatalogInv, NEW c \in CatalogCalls, Catalog!HandleCategory(c)
  PROVE  CatalogInv'
<1>1. /\ catalogStep[c] = "category" /\ index' = catalogAt[c] + 1 /\ Catalog!NextCategory(c, games', Catalog!Current)
      /\ \/ games' = games \cup {catalogAt[c]} /\ catalogAbsent' = catalogAbsent
         \/ games' = games /\ catalogAbsent' = catalogAbsent \cup {catalogAt[c]}
      /\ UNCHANGED <<kind, listing, caller, auth, categories, start, owned, catalogCut, overlapped>>
  BY DEF Catalog!HandleCategory, Catalog!libraryVars
<1> QED BY <1>1, CategoryIsDone

LEMMA CategoryFailsKeeps ==
  ASSUME CatalogAssumption, CatalogInv, NEW c \in CatalogCalls, Catalog!CategoryFails(c)
  PROVE  CatalogInv'
<1>1. /\ catalogStep[c] = "category" /\ catalogAbsent' = catalogAbsent \cup {catalogAt[c]}
      /\ UNCHANGED <<kind, listing, caller, auth, categories, games, start, owned, catalogCut, overlapped>>
  BY DEF Catalog!CategoryFails, Catalog!libraryVars
<1>2. CASE index' = catalogAt[c] + 1 /\ Catalog!NextCategory(c, games, catalogAt[c] + 1)
  <2>1. games' = games /\ catalogAbsent' = catalogAbsent \cup {catalogAt[c]}
    BY <1>1
  <2> QED BY <1>1, <1>2, <2>1, CategoryIsDone
<1>3. CASE Catalog!Goes(c, "none", 0) /\ Catalog!Answer(caller["psnow"], "failed") /\ UNCHANGED <<index, cache>>
  <2>1. /\ catalogStep'[c] = "none"
        /\ \A d \in CatalogCalls \ {c} : catalogStep'[d] = catalogStep[d] /\ catalogAt'[d] = catalogAt[d]
    BY <1>3, GoesTo
  <2>2. AnswersInv'
    BY <1>1, <1>3, OthersAre, AnswersKept
  <2>3. CallsInv'
    BY <1>1, <1>3, CallsKept
  <2>4. LoginInv'
    <3>1. \A d \in CatalogCalls : Logging(d)' <=> Logging(d)
      BY <1>1, <2>1 DEF Logging, Catalog!Login
    <3> QED BY <1>1, <3>1, LoginKept
  <2>5. PsnowInv'
    <3> SUFFICES ASSUME "psnow" \notin overlapped PROVE PsnowInv'
      BY <1>1 DEF PsnowInv
    <3>1. cache.psnow = Catalog!Missing /\ \A d \in CatalogCalls : InPsnow(d) => d = c
      BY <1>1 DEF CatalogInv, PsnowInv, InPsnow
    <3>2. /\ \A d \in CatalogCalls : ~InPsnow(d)'
          /\ \A d \in CatalogCalls : catalogStep'[d] \in {"category", "timer"} => InPsnow(d)'
      BY <2>1, <3>1 DEF InPsnow, Logging, Catalog!Login
    <3> HIDE DEF InPsnow, Fetched
    <3> QED BY <1>3, <3>1, <3>2 DEF PsnowInv
  <2>6. LibraryInv'
    BY <1>1, <1>3, <2>1, LibraryKept DEF InLibrary
  <2> QED BY <2>2, <2>3, <2>4, <2>5, <2>6 DEF CatalogInv
<1> QED BY <1>2, <1>3 DEF Catalog!CategoryFails

(* The timer: alone, the call that waits asks for the category that is next.                 *)
LEMMA TimerKeeps == ASSUME CatalogAssumption, CatalogInv, Catalog!TimerFires PROVE CatalogInv'
<1> DEFINE fired(d) == catalogStep[d] = "timer"
<1>1. /\ UNCHANGED <<kind, listing, caller, auth, categories, index, games, catalogAbsent, start, owned, catalogCut, overlapped>>
      /\ DOMAIN catalogStep' = CatalogCalls /\ DOMAIN catalogAt' = CatalogCalls
      /\ \A d \in CatalogCalls : ~fired(d) => catalogStep'[d] = catalogStep[d] /\ catalogAt'[d] = catalogAt[d]
      /\ \A d \in CatalogCalls : fired(d) =>
           catalogStep'[d] = (IF Catalog!Asks(d) < categories THEN "category" ELSE "none") /\ catalogAt'[d] = Catalog!Asks(d)
  BY DEF Catalog!TimerFires, Catalog!Fired, Catalog!psnowVars, Catalog!libraryVars
<1>2. \/ UNCHANGED <<cache, catalogAnswers>> 
      \/ Catalog!Complete(games) /\ \E d \in CatalogCalls : fired(d) /\ Catalog!Asks(d) >= categories
  BY DEF Catalog!TimerFires, Catalog!Fired
<1>3. DOMAIN cache' = DOMAIN cache /\ cache'.library = cache.library
  <2>1. DOMAIN cache = {"psnow", "ps5", "library", "details"}
    BY DEF CatalogInv, CallsInv
  <2> QED BY <1>2, <2>1 DEF Catalog!Complete
<1>4. CallsInv'
  BY <1>1, <1>3 DEF CatalogInv, CallsInv, InPsnow, InLibrary, Logging, Catalog!Login, CatalogKinds
<1>5. AnswersInv'
  <2>1. UNCHANGED catalogAnswers \/ Catalog!Answer(caller["psnow"], "ok")
    BY <1>2 DEF Catalog!Complete
  <2> QED BY <1>1, <2>1, OthersAre, AnswersKept
<1>6. LoginInv'
  <2>1. \A d \in CatalogCalls : Logging(d)' <=> Logging(d)
    BY <1>1 DEF Logging, Catalog!Login
  <2> QED BY <1>1, <2>1, LoginKept
<1>7. PsnowInv'
  <2> SUFFICES ASSUME "psnow" \notin overlapped PROVE PsnowInv'
    BY <1>1 DEF PsnowInv
  <2>1. \A d \in CatalogCalls : fired(d) => Catalog!Asks(d) = index /\ Fetched /\ cache.psnow = Catalog!Missing
    BY DEF CatalogInv, PsnowInv, Catalog!Asks, InPsnow
  <2>2. \A d \in CatalogCalls : fired(d) => ~(Catalog!Asks(d) >= categories) /\ catalogStep'[d] = "category" /\ catalogAt'[d] = index
    BY <1>1, <2>1, CatalogAssumption DEF Fetched, CatalogAssumption
  <2>3. UNCHANGED cache
    BY <1>2, <2>2
  <2>4. Fetched' <=> Fetched
    BY <1>1 DEF Fetched
  <2>5. \A d \in CatalogCalls : InPsnow(d)' <=> InPsnow(d)
    BY <1>1, <2>2 DEF InPsnow, Logging, Catalog!Login
  <2>6. \A d \in CatalogCalls : /\ catalogStep'[d] = "category" => catalogAt'[d] = index /\ Fetched
                                /\ catalogStep'[d] # "timer"
    BY <1>1, <2>1, <2>2 DEF CatalogInv, PsnowInv
  <2> HIDE DEF InPsnow, Fetched, fired
  <2> QED BY <1>1, <2>3, <2>4, <2>5, <2>6 DEF CatalogInv, PsnowInv
<1>8. LibraryInv'
  <2>1. \A d \in CatalogCalls : InLibrary(d)' => catalogStep'[d] = catalogStep[d] /\ catalogAt'[d] = catalogAt[d]
    BY <1>1 DEF InLibrary
  <2> QED BY <1>1, <1>3, <2>1, LibraryKept
<1> QED BY <1>4, <1>5, <1>6, <1>7, <1>8 DEF CatalogInv

-----------------------------------------------------------------------------
(* The catalogue of the PS5 and the library of owned games.                               *)
LEMMA FetchPs5Keeps ==
  ASSUME CatalogAssumption, CatalogInv, NEW c \in CatalogCalls, Catalog!FetchPs5(c)
  PROVE  CatalogInv'
<1>1. /\ Catalog!Calling(c, "ps5") /\ "ps5" \in CatalogKinds
      /\ UNCHANGED <<catalogStep, catalogAt, auth, categories, index, games, catalogAbsent, start, owned, catalogCut, cache>>
  BY DEF Catalog!FetchPs5, Catalog!psnowVars, Catalog!libraryVars, CatalogKinds
<1>2. CASE Catalog!Answer(c, "ok") /\ UNCHANGED caller
  <2>1. AnswersInv'
    BY <1>1, <1>2, CallIsAnswered
  <2> QED BY <1>1, <2>1, CallOnlyKeeps
<1>3. CASE caller' = [caller EXCEPT !.ps5 = c] /\ UNCHANGED catalogAnswers
  <2>1. /\ caller' \in [CatalogKinds -> CatalogCalls \cup {0}]
        /\ \A n \in CatalogKinds : caller'[n] = IF n = "ps5" THEN c ELSE caller[n]
    BY <1>3 DEF CatalogInv, AnswersInv, CatalogKinds
  <2>2. AnswersInv'
    BY <1>1, <1>3, <2>1, CallIsStored
  <2> QED BY <1>1, <2>2, CallOnlyKeeps
<1> QED BY <1>2, <1>3 DEF Catalog!FetchPs5

(* A join that the cache does not answer waits for what is missing.                          *)
LEMMA GetOwnedKeeps ==
  ASSUME CatalogAssumption, CatalogInv, NEW c \in CatalogCalls, Catalog!GetOwned(c)
  PROVE  CatalogInv'
<1>1. /\ Catalog!Calling(c, "cross") /\ "cross" \in CatalogKinds
      /\ UNCHANGED <<auth, categories, index, games, catalogAbsent, start, owned, catalogCut, cache>>
  BY DEF Catalog!GetOwned, Catalog!psnowVars, CatalogKinds
<1>2. CASE Catalog!Answer(c, "ok") /\ caller' = [caller EXCEPT !.cross = 0] /\ UNCHANGED <<catalogStep, catalogAt>>
  <2>1. AnswersInv'
    BY <1>1, <1>2, CallIsAnswered
  <2> QED BY <1>1, <1>2, <2>1, CallOnlyKeeps
<1>3. ASSUME NEW s \in {"library", "none"}, Catalog!Goes(c, s, 0), s = "library" => cache.library = Catalog!Missing,
             UNCHANGED catalogAnswers,
             NEW held5 \in {0, caller.ps5}, caller' = [caller EXCEPT !.cross = c, !.ps5 = held5]
      PROVE  CatalogInv'
  <2>1. /\ kind[c] = "none" /\ catalogStep[c] = "none" /\ ~InPsnow(c) /\ ~InLibrary(c) /\ ~Logging(c)
        /\ kind' \in [CatalogCalls -> CatalogKinds \cup {"none"}]
        /\ \A d \in CatalogCalls : kind'[d] = IF d = c THEN "cross" ELSE kind[d]
        /\ "psnow" \in overlapped => "psnow" \in overlapped'
        /\ "cross" \in overlapped => "cross" \in overlapped'
        /\ "cross" \notin overlapped' => \A d \in CatalogCalls : ~InLibrary(d)
    BY <1>1, CallIs
  <2>2. /\ DOMAIN catalogStep' = CatalogCalls /\ DOMAIN catalogAt' = CatalogCalls
        /\ catalogStep'[c] = s /\ catalogAt'[c] = 0
        /\ \A d \in CatalogCalls \ {c} : catalogStep'[d] = catalogStep[d] /\ catalogAt'[d] = catalogAt[d]
    BY <1>3, GoesTo
  <2>3. s \notin Catalog!Login \cup {"category", "timer", "page", "pause"}
    BY DEF Catalog!Login
  <2>4. CallsInv'
    BY <1>1, <2>1, <2>2, <2>3 DEF CatalogInv, CallsInv, CatalogKinds, InPsnow, InLibrary, Logging
  <2>5. AnswersInv'
    <3>1. /\ caller' \in [CatalogKinds -> CatalogCalls \cup {0}]
          /\ \A n \in CatalogKinds : caller'[n] = (IF n = "cross" THEN c ELSE caller[n]) \/ (n # "cross" /\ caller'[n] = 0)
      BY <1>3 DEF CatalogInv, AnswersInv, CatalogKinds
    <3> QED BY <1>1, <1>3, <3>1, CallIsStored
  <2>6. LoginInv'
    <3>1. \A d \in CatalogCalls : Logging(d)' <=> Logging(d)
      BY <2>1, <2>2, <2>3 DEF Logging
    <3> QED BY <1>1, <3>1, LoginKept
  <2>7. PsnowInv'
    <3>1. \A d \in CatalogCalls : InPsnow(d)' => catalogStep'[d] = catalogStep[d] /\ catalogAt'[d] = catalogAt[d]
      BY <2>2, <2>3 DEF InPsnow, Logging
    <3> QED BY <1>1, <2>1, <3>1, PsnowKept
  <2>8. LibraryInv'
    <3> SUFFICES ASSUME "cross" \notin overlapped' PROVE LibraryInv'
      BY DEF LibraryInv
    <3>1. \A d \in CatalogCalls : InLibrary(d)' => d = c
      BY <2>1, <2>2 DEF InLibrary
    <3>2. \A d \in CatalogCalls : catalogStep'[d] \notin {"page", "pause"}
      BY <2>1, <2>2, <2>3 DEF InLibrary
    <3>3. \A d \in CatalogCalls : InLibrary(d)' => cache'.library = Catalog!Missing
      BY <1>1, <1>3, <2>2, <3>1 DEF InLibrary
    <3>4. cache'.library \in {Catalog!Missing, Catalog!All(catalogCut')}
      BY <1>1, <2>1 DEF CatalogInv, LibraryInv
    <3> HIDE DEF InLibrary
    <3> QED BY <3>1, <3>2, <3>3, <3>4 DEF LibraryInv, Catalog!Missing
  <2> QED BY <2>4, <2>5, <2>6, <2>7, <2>8 DEF CatalogInv
<1>4. \/ Catalog!Answer(c, "ok") /\ caller' = [caller EXCEPT !.cross = 0] /\ UNCHANGED <<catalogStep, catalogAt>>
      \/ /\ \E s \in {"library", "none"} : Catalog!Goes(c, s, 0) /\ (s = "library" => cache.library = Catalog!Missing)
         /\ UNCHANGED catalogAnswers
         /\ \E p \in {0, caller.ps5} : caller' = [caller EXCEPT !.cross = c, !.ps5 = p]
  BY DEF Catalog!GetOwned
<1> QED BY <1>2, <1>3, <1>4

(* What a join waits for comes: it is answered, once, and forgotten, or waits on.             *)
LEMMA JoinKeeps ==
  ASSUME CatalogAssumption, CatalogInv, UNCHANGED kind, caller' = [caller EXCEPT !.cross = 0],
         catalogAnswers' \in [CatalogCalls -> [ok : Nat, failed : Nat]],
         \A c \in CatalogCalls : kind[c] \in {"none", "cross"} =>
           catalogAnswers'[c].ok = catalogAnswers[c].ok + (IF c = caller.cross THEN 1 ELSE 0)
  PROVE  AnswersInv'
<1>1. AnswersInv /\ 0 \notin CatalogCalls
  BY DEF CatalogInv, CatalogAssumption
<1>2. /\ caller' \in [CatalogKinds -> CatalogCalls \cup {0}]
      /\ \A n \in CatalogKinds : caller'[n] = IF n = "cross" THEN 0 ELSE caller[n]
  BY <1>1 DEF AnswersInv, CatalogKinds
<1>3. \A n \in CatalogKinds : caller'[n] # 0 => kind'[caller'[n]] = n
  BY <1>1, <1>2 DEF AnswersInv
<1>4. ASSUME NEW c \in CatalogCalls
      PROVE  /\ kind'[c] = "none" => catalogAnswers'[c].ok = 0
             /\ kind'[c] = "cross" => catalogAnswers'[c].ok <= 1
             /\ kind'[c] = "cross" /\ caller'.cross = c => catalogAnswers'[c].ok = 0
  <2>1. caller'.cross = 0 /\ catalogAnswers[c].ok \in Nat /\ (caller.cross = c => kind[c] = "cross")
    BY <1>1, <1>2 DEF AnswersInv, CatalogKinds
  <2> QED BY <1>1, <2>1 DEF AnswersInv
<1> QED BY <1>2, <1>3, <1>4 DEF AnswersInv

(* The catalogue and the library do not disturb each other.                                *)
LEMMA ListingKeeps ==
  ASSUME CatalogInv, AnswersInv', UNCHANGED <<kind, catalogStep, catalogAt, auth, categories, index, games, catalogAbsent>>,
         UNCHANGED <<start, owned, catalogCut, overlapped>>, DOMAIN cache' = DOMAIN cache,
         cache'.psnow \in {Catalog!Missing, cache.psnow}, cache'.library \in {Catalog!Missing, cache.library}
  PROVE  CatalogInv'
<1>1. CallsInv'
  BY DEF CatalogInv, CallsInv, InPsnow, InLibrary, Logging
<1>2. LoginInv'
  BY LoginKept DEF Logging
<1>3. PsnowInv'
  BY PsnowKept
<1>4. LibraryInv'
  BY LibraryKept
<1> QED BY <1>1, <1>2, <1>3, <1>4 DEF CatalogInv

LEMMA HandlePs5Keeps ==
  ASSUME CatalogAssumption, CatalogInv, NEW c \in CatalogCalls, Catalog!HandlePs5(c)
  PROVE  CatalogInv'
<1>1. /\ UNCHANGED <<kind, catalogStep, catalogAt, auth, categories, index, games, catalogAbsent>>
      /\ UNCHANGED <<start, owned, catalogCut, overlapped>> /\ cache' = [cache EXCEPT !.ps5 = {listing[c]}]
  BY DEF Catalog!HandlePs5, Catalog!Listed, Catalog!psnowVars
<1>2. DOMAIN cache' = DOMAIN cache /\ cache'.psnow = cache.psnow /\ cache'.library = cache.library
  BY <1>1 DEF CatalogInv, CallsInv
<1>3. CASE Catalog!Answer(caller["ps5"], "ok") /\ UNCHANGED caller
  <2>1. AnswersInv'
    BY <1>1, <1>3, OthersAre, AnswersKept
  <2> QED BY <1>1, <1>2, <2>1, ListingKeeps
<1>4. CASE /\ caller' = [caller EXCEPT !.cross = 0]
           /\ catalogAnswers' = [d \in CatalogCalls |-> [catalogAnswers[d] EXCEPT !.ok =
                                  @ + (IF d = caller.cross THEN 1 ELSE 0) + (IF d = caller.ps5 THEN 1 ELSE 0)]]
  <2>1. /\ catalogAnswers \in [CatalogCalls -> [ok : Nat, failed : Nat]]
        /\ \A d \in CatalogCalls : caller.ps5 = d => kind[d] = "ps5"
    BY DEF CatalogInv, AnswersInv, CatalogKinds, CatalogAssumption
  <2>2. ASSUME NEW d \in CatalogCalls
        PROVE  /\ catalogAnswers'[d] \in [ok : Nat, failed : Nat]
               /\ d # caller.ps5 => catalogAnswers'[d].ok = catalogAnswers[d].ok + (IF d = caller.cross THEN 1 ELSE 0)
    <3> DEFINE more == (IF d = caller.cross THEN 1 ELSE 0) + (IF d = caller.ps5 THEN 1 ELSE 0)
               crossMore == IF d = caller.cross THEN 1 ELSE 0
    <3>1. catalogAnswers[d] = [ok |-> catalogAnswers[d].ok, failed |-> catalogAnswers[d].failed]
      BY <2>1
    <3>2. catalogAnswers[d].ok \in Nat /\ catalogAnswers[d].failed \in Nat
      BY <2>1
    <3>3. catalogAnswers'[d] = [ok |-> catalogAnswers[d].ok + more, failed |-> catalogAnswers[d].failed]
      BY <1>4, <3>1, <3>2
    <3>4. more \in Nat /\ (d # caller.ps5 => more = crossMore)
      OBVIOUS
    <3> HIDE DEF more
    <3> QED BY <3>2, <3>3, <3>4
  <2>3. catalogAnswers' \in [CatalogCalls -> [ok : Nat, failed : Nat]]
    BY <1>4, <2>1, <2>2
  <2>4. \A d \in CatalogCalls : kind[d] \in {"none", "cross"} =>
          catalogAnswers'[d].ok = catalogAnswers[d].ok + (IF d = caller.cross THEN 1 ELSE 0)
    <3> SUFFICES ASSUME NEW d \in CatalogCalls, kind[d] \in {"none", "cross"}
                 PROVE  catalogAnswers'[d].ok = catalogAnswers[d].ok + (IF d = caller.cross THEN 1 ELSE 0)
      OBVIOUS
    <3>1. d # caller.ps5
      BY <2>1
    <3> QED BY <2>2, <3>1
  <2>5. AnswersInv'
    BY <1>1, <1>4, <2>3, <2>4, JoinKeeps
  <2> QED BY <1>1, <1>2, <2>5, ListingKeeps
<1> QED BY <1>3, <1>4 DEF Catalog!HandlePs5

LEMMA Ps5FailsKeeps ==
  ASSUME CatalogAssumption, CatalogInv, NEW c \in CatalogCalls, Catalog!Ps5Fails(c)
  PROVE  CatalogInv'
<1>1. /\ UNCHANGED <<kind, caller, catalogStep, catalogAt, auth, categories, index, games, catalogAbsent>>
      /\ UNCHANGED <<start, owned, catalogCut, overlapped, cache>> /\ Catalog!Answer(caller["ps5"], "failed")
  BY DEF Catalog!Ps5Fails, Catalog!Listed, Catalog!psnowVars, Catalog!libraryVars
<1>2. AnswersInv'
  BY <1>1, OthersAre, AnswersKept
<1> QED BY <1>1, <1>2, ListingKeeps

LEMMA InvalidateKeeps == ASSUME CatalogAssumption, CatalogInv, Catalog!InvalidateCache PROVE CatalogInv'
<1>1. /\ UNCHANGED <<kind, caller, catalogStep, catalogAt, auth, categories, index, games, catalogAbsent>>
      /\ UNCHANGED <<start, owned, catalogCut, overlapped, catalogAnswers>> /\ cache' = Catalog!Invalidated
  BY DEF Catalog!InvalidateCache, Catalog!psnowVars, Catalog!libraryVars
<1>2. DOMAIN cache' = DOMAIN cache /\ cache'.psnow = Catalog!Missing /\ cache'.library = Catalog!Missing
  BY <1>1 DEF Catalog!Invalidated, CatalogInv, CallsInv
<1>3. AnswersInv'
  BY <1>1, OthersAre, AnswersKept
<1> QED BY <1>1, <1>2, <1>3, ListingKeeps

(* The token is there: the pages are asked for from the first.                                *)
LEMMA LibraryMoves ==
  ASSUME CatalogInv, NEW c \in CatalogCalls, InLibrary(c), NEW s \in {"none", "page", "pause"}, NEW a, Catalog!Goes(c, s, a),
         UNCHANGED <<kind, auth, categories, index, games, catalogAbsent, overlapped>>,
         DOMAIN cache' = DOMAIN cache, cache'.psnow = cache.psnow
  PROVE  /\ CallsInv' /\ LoginInv' /\ PsnowInv'
         /\ "cross" \notin overlapped => \A d \in CatalogCalls : InLibrary(d)' => d = c
         /\ \A d \in CatalogCalls \ {c} : catalogStep'[d] = catalogStep[d]
         /\ catalogStep'[c] = s /\ catalogAt'[c] = a
<1>1. /\ DOMAIN catalogStep' = CatalogCalls /\ DOMAIN catalogAt' = CatalogCalls
      /\ catalogStep'[c] = s /\ catalogAt'[c] = a
      /\ \A d \in CatalogCalls \ {c} : catalogStep'[d] = catalogStep[d] /\ catalogAt'[d] = catalogAt[d]
  BY GoesTo
<1>2. s \notin Catalog!Login \cup {"category", "timer"} /\ ~Logging(c)
  BY DEF Catalog!Login, InLibrary, Logging
<1>3. CallsInv'
  BY CallsKept
<1>4. LoginInv'
  <2>1. \A d \in CatalogCalls : Logging(d)' <=> Logging(d)
    BY <1>1, <1>2 DEF Logging
  <2> QED BY <2>1, LoginKept
<1>5. PsnowInv'
  <2>1. \A d \in CatalogCalls : InPsnow(d)' => catalogStep'[d] = catalogStep[d] /\ catalogAt'[d] = catalogAt[d]
    BY <1>1, <1>2 DEF InPsnow, Logging
  <2> QED BY <2>1, PsnowKept
<1>6. "cross" \notin overlapped => \A d \in CatalogCalls : InLibrary(d)' => d = c
  BY <1>1 DEF CatalogInv, LibraryInv, InLibrary
<1> QED BY <1>1, <1>3, <1>4, <1>5, <1>6

LEMMA HandleTokenKeeps ==
  ASSUME CatalogAssumption, CatalogInv, NEW c \in CatalogCalls, Catalog!HandleToken(c)
  PROVE  CatalogInv'
<1>1. /\ UNCHANGED <<kind, caller, auth, categories, index, games, catalogAbsent, overlapped, cache, catalogAnswers>>
      /\ InLibrary(c) /\ Catalog!Goes(c, "page", 0) /\ owned' = {} /\ start' = 0 /\ catalogCut' = Pages
  BY DEF Catalog!HandleToken, Catalog!psnowVars, InLibrary
<1>2. AnswersInv'
  BY <1>1, OthersAre, AnswersKept
<1>3. /\ CallsInv' /\ LoginInv' /\ PsnowInv' /\ catalogAt'[c] = 0
      /\ "cross" \notin overlapped => \A d \in CatalogCalls : InLibrary(d)' => d = c
      /\ catalogStep'[c] = "page"
  BY <1>1, LibraryMoves
<1>4. LibraryInv'
  <2>1. Catalog!All(0) = {}
    BY DEF Catalog!All
  <2>2. \A d \in CatalogCalls : catalogStep'[d] \in {"page", "pause"} => InLibrary(d)'
    BY DEF InLibrary
  <2>3. "cross" \notin overlapped => cache'.library = Catalog!Missing
    BY <1>1 DEF CatalogInv, LibraryInv
  <2> HIDE DEF InLibrary
  <2> QED BY <1>1, <1>3, <2>1, <2>2, <2>3 DEF LibraryInv
<1> QED BY <1>2, <1>3, <1>4 DEF CatalogInv

LEMMA FetchPageKeeps ==
  ASSUME CatalogAssumption, CatalogInv, NEW c \in CatalogCalls, Catalog!FetchOwnedGamesPage(c)
  PROVE  CatalogInv'
<1>1. /\ UNCHANGED <<kind, caller, auth, categories, index, games, catalogAbsent, overlapped, cache, catalogAnswers>>
      /\ UNCHANGED <<start, owned, catalogCut>> /\ catalogStep[c] = "pause" /\ InLibrary(c) /\ Catalog!Goes(c, "page", start)
  BY DEF Catalog!FetchOwnedGamesPage, Catalog!psnowVars, Catalog!libraryVars, InLibrary
<1>2. AnswersInv'
  BY <1>1, OthersAre, AnswersKept
<1>3. /\ CallsInv' /\ LoginInv' /\ PsnowInv' /\ catalogAt'[c] = start
      /\ "cross" \notin overlapped => \A d \in CatalogCalls : InLibrary(d)' => d = c
      /\ catalogStep'[c] = "page"
  BY <1>1, LibraryMoves
<1>4. LibraryInv'
  <2>1. \A d \in CatalogCalls : catalogStep'[d] \in {"page", "pause"} => InLibrary(d)'
    BY DEF InLibrary
  <2> HIDE DEF InLibrary
  <2> QED BY <1>1, <1>3, <2>1 DEF CatalogInv, LibraryInv
<1> QED BY <1>2, <1>3, <1>4 DEF CatalogInv

LEMMA LibraryFailsKeeps ==
  ASSUME CatalogAssumption, CatalogInv, NEW c \in CatalogCalls, Catalog!LibraryFails(c)
  PROVE  CatalogInv'
<1>1. /\ UNCHANGED <<kind, caller, auth, categories, index, games, catalogAbsent, overlapped, cache, start, owned, catalogCut>>
      /\ InLibrary(c) /\ Catalog!Goes(c, "none", 0) /\ Catalog!Answer(caller.cross, "failed")
  BY DEF Catalog!LibraryFails, Catalog!psnowVars, Catalog!libraryVars, InLibrary
<1>2. AnswersInv'
  BY <1>1, OthersAre, AnswersKept
<1>3. CallsInv' /\ LoginInv' /\ PsnowInv'
  BY <1>1, LibraryMoves
<1>4. LibraryInv'
  <2>1. \A d \in CatalogCalls : InLibrary(d)' => catalogStep'[d] = catalogStep[d] /\ catalogAt'[d] = catalogAt[d]
    BY <1>1, GoesTo DEF InLibrary
  <2> QED BY <1>1, <2>1, LibraryKept
<1> QED BY <1>2, <1>3, <1>4 DEF CatalogInv

(* A page is added; after the last one everything the user owns is kept.                      *)
LEMMA HandlePageKeeps ==
  ASSUME CatalogAssumption, CatalogInv, NEW c \in CatalogCalls, Catalog!HandlePage(c)
  PROVE  CatalogInv'
<1>1. /\ UNCHANGED <<kind, auth, categories, index, games, catalogAbsent, overlapped>>
      /\ catalogStep[c] = "page" /\ InLibrary(c)
  BY DEF Catalog!HandlePage, Catalog!psnowVars, InLibrary
<1>2. ASSUME "cross" \notin overlapped
      PROVE  /\ catalogAt[c] = start /\ start \in Nat /\ owned = Catalog!All(start) /\ (start = 0 \/ start < Pages)
             /\ catalogCut = Pages
  BY <1>1, <1>2 DEF CatalogInv, LibraryInv
<1>3. ASSUME "cross" \notin overlapped, owned' = owned \cup ({catalogAt[c]} \cap Catalog!All(Pages))
      PROVE  start + 1 \in Nat /\ (start < Pages => owned' = Catalog!All(start + 1)) /\ (Pages = 0 => owned' = {})
  <2>1. CASE Pages = 0
    BY <1>2, <1>3, <2>1 DEF Catalog!All
  <2>2. CASE Pages # 0
    BY <1>2, <1>3, <2>2, CatalogAssumption DEF Catalog!All, CatalogAssumption
  <2> QED BY <2>1, <2>2
<1>4. \A d \in CatalogCalls : catalogStep'[d] \in {"page", "pause"} => InLibrary(d)'
  BY DEF InLibrary
<1>5. CASE /\ owned' = owned \cup ({catalogAt[c]} \cap Catalog!All(Pages)) /\ UNCHANGED catalogCut
           /\ Catalog!IsFull(catalogAt[c]) /\ Catalog!Goes(c, "pause", 0) /\ start' = start + 1
           /\ UNCHANGED <<caller, cache, catalogAnswers>>
  <2>1. AnswersInv'
    BY <1>1, <1>5, OthersAre, AnswersKept
  <2>2. /\ CallsInv' /\ LoginInv' /\ PsnowInv' /\ catalogStep'[c] = "pause"
        /\ "cross" \notin overlapped => \A d \in CatalogCalls : InLibrary(d)' => d = c
    BY <1>1, <1>5, LibraryMoves
  <2>3. "cross" \notin overlapped => /\ start' \in Nat /\ start' < Pages /\ owned' = Catalog!All(start')
                                    /\ catalogCut' = Pages
    BY <1>2, <1>3, <1>5, CatalogAssumption DEF Catalog!IsFull, CatalogAssumption
  <2>4. "cross" \notin overlapped => cache'.library = Catalog!Missing
    BY <1>1, <1>5 DEF CatalogInv, LibraryInv
  <2>5. LibraryInv'
    <3> HIDE DEF InLibrary
    <3> QED BY <1>1, <1>4, <2>2, <2>3, <2>4 DEF LibraryInv
  <2> QED BY <2>1, <2>2, <2>5 DEF CatalogInv
<1>6. ASSUME "cross" \notin overlapped => owned' = Catalog!All(catalogCut'), Catalog!Stored(c) PROVE CatalogInv'
  <2>1. /\ Catalog!Goes(c, "none", 0) /\ cache' = [cache EXCEPT !.library = owned']
        /\ \/ Catalog!Answer(caller.cross, "ok") /\ caller' = [caller EXCEPT !.cross = 0]
           \/ UNCHANGED <<caller, catalogAnswers>>
    BY <1>6 DEF Catalog!Stored, Catalog!Joined
  <2>2. DOMAIN cache' = DOMAIN cache /\ cache'.psnow = cache.psnow /\ cache'.library = owned'
    BY <2>1 DEF CatalogInv, CallsInv
  <2>3. AnswersInv'
    <3>1. CASE UNCHANGED <<caller, catalogAnswers>>
      BY <1>1, <3>1, OthersAre, AnswersKept
    <3>2. CASE Catalog!Answer(caller.cross, "ok") /\ caller' = [caller EXCEPT !.cross = 0]
      <4>1. AnswersInv /\ caller.cross \in CatalogCalls \cup {0}
        BY DEF CatalogInv, AnswersInv, CatalogKinds
      <4>2. /\ catalogAnswers' \in [CatalogCalls -> [ok : Nat, failed : Nat]]
            /\ \A d \in CatalogCalls : catalogAnswers'[d].ok = catalogAnswers[d].ok + (IF d = caller.cross THEN 1 ELSE 0)
        BY <3>2, <4>1, AnswerCounts
      <4> QED BY <1>1, <3>2, <4>2, JoinKeeps
    <3> QED BY <2>1, <3>1, <3>2
  <2>4. /\ CallsInv' /\ LoginInv' /\ PsnowInv' /\ catalogStep'[c] = "none"
        /\ "cross" \notin overlapped => \A d \in CatalogCalls : InLibrary(d)' => d = c
    BY <1>1, <2>1, <2>2, LibraryMoves
  <2>5. \A d \in CatalogCalls : InLibrary(d)' => d # c
    BY <2>4 DEF InLibrary
  <2>6. LibraryInv'
    <3> HIDE DEF InLibrary
    <3> QED BY <1>1, <1>4, <1>6, <2>2, <2>4, <2>5 DEF LibraryInv
  <2> QED BY <2>3, <2>4, <2>6 DEF CatalogInv
<1>7. CASE owned' = owned \cup ({catalogAt[c]} \cap Catalog!All(Pages)) /\ UNCHANGED catalogCut
           /\ ~Catalog!IsFull(catalogAt[c]) /\ Catalog!Stored(c)
  <2>1. "cross" \notin overlapped => owned' = Catalog!All(catalogCut')
    <3> SUFFICES ASSUME "cross" \notin overlapped PROVE owned' = Catalog!All(Pages)
      BY <1>2, <1>7
    <3>1. CASE Pages = 0
      BY <1>3, <1>7, <3>1 DEF Catalog!All
    <3>2. CASE Pages # 0
      <4>1. start + 1 = Pages
        BY <1>2, <1>7, <3>2, CatalogAssumption DEF Catalog!IsFull, CatalogAssumption
      <4> QED BY <1>2, <1>3, <1>7, <4>1, CatalogAssumption DEF CatalogAssumption
    <3> QED BY <3>1, <3>2
  <2> QED BY <1>6, <1>7, <2>1
<1>8. CASE catalogCut' = catalogAt[c] /\ UNCHANGED owned /\ Catalog!Stored(c)
  BY <1>2, <1>6, <1>8
<1> QED BY <1>5, <1>7, <1>8 DEF Catalog!HandlePage

-----------------------------------------------------------------------------
(* The details of a game touch neither.                                              *)
LEMMA DetailsMove ==
  ASSUME CatalogInv, CallsInv', AnswersInv', NEW c \in CatalogCalls, ~InPsnow(c), ~InLibrary(c), NEW s \in {"details", "none"}, NEW a,
         Catalog!Goes(c, s, a), UNCHANGED <<auth, categories, index, games, catalogAbsent, start, owned, catalogCut>>,
         "psnow" \in overlapped => "psnow" \in overlapped', "cross" \in overlapped => "cross" \in overlapped',
         cache'.psnow = cache.psnow, cache'.library = cache.library
  PROVE  CatalogInv'
<1>1. /\ catalogStep'[c] = s
      /\ \A d \in CatalogCalls \ {c} : catalogStep'[d] = catalogStep[d] /\ catalogAt'[d] = catalogAt[d]
  BY GoesTo
<1>2. s \notin Catalog!Login \cup {"category", "timer", "library", "page", "pause"}
  BY DEF Catalog!Login
<1>3. LoginInv'
  <2>1. \A d \in CatalogCalls : Logging(d)' <=> Logging(d)
    BY <1>1, <1>2 DEF Logging, InPsnow
  <2> QED BY <2>1, LoginKept
<1>4. PsnowInv'
  <2>1. \A d \in CatalogCalls : InPsnow(d)' => catalogStep'[d] = catalogStep[d] /\ catalogAt'[d] = catalogAt[d]
    BY <1>1, <1>2 DEF InPsnow, Logging
  <2> QED BY <2>1, PsnowKept
<1>5. LibraryInv'
  <2>1. \A d \in CatalogCalls : InLibrary(d)' => catalogStep'[d] = catalogStep[d] /\ catalogAt'[d] = catalogAt[d]
    BY <1>1, <1>2 DEF InLibrary
  <2> QED BY <2>1, LibraryKept
<1> QED BY <1>3, <1>4, <1>5 DEF CatalogInv

LEMMA FetchDetailsKeeps ==
  ASSUME CatalogAssumption, CatalogInv, NEW c \in CatalogCalls, Catalog!FetchDetails(c)
  PROVE  CatalogInv'
<1>1. /\ Catalog!Calling(c, "details") /\ "details" \in CatalogKinds
      /\ UNCHANGED <<auth, categories, index, games, catalogAbsent, start, owned, catalogCut, cache>>
  BY DEF Catalog!FetchDetails, Catalog!psnowVars, Catalog!libraryVars, CatalogKinds
<1>2. CASE Catalog!Answer(c, "ok") /\ UNCHANGED <<catalogStep, catalogAt, caller>>
  <2>1. AnswersInv'
    BY <1>1, <1>2, CallIsAnswered
  <2> QED BY <1>1, <1>2, <2>1, CallOnlyKeeps
<1>3. ASSUME NEW p, Catalog!Goes(c, "details", p), caller' = [caller EXCEPT !.details = c], UNCHANGED catalogAnswers
      PROVE  CatalogInv'
  <2>1. /\ caller' \in [CatalogKinds -> CatalogCalls \cup {0}]
        /\ \A n \in CatalogKinds : caller'[n] = IF n = "details" THEN c ELSE caller[n]
    BY <1>3 DEF CatalogInv, AnswersInv, CatalogKinds
  <2>2. AnswersInv'
    BY <1>1, <1>3, <2>1, CallIsStored
  <2>3. /\ ~InPsnow(c) /\ ~InLibrary(c)
        /\ kind' \in [CatalogCalls -> CatalogKinds \cup {"none"}]
        /\ \A d \in CatalogCalls : kind'[d] = IF d = c THEN "details" ELSE kind[d]
        /\ "psnow" \in overlapped => "psnow" \in overlapped'
        /\ "cross" \in overlapped => "cross" \in overlapped'
    BY <1>1, CallIs
  <2>4. /\ DOMAIN catalogStep' = CatalogCalls /\ DOMAIN catalogAt' = CatalogCalls /\ catalogStep'[c] = "details"
        /\ \A d \in CatalogCalls \ {c} : catalogStep'[d] = catalogStep[d] /\ catalogAt'[d] = catalogAt[d]
    BY <1>3, GoesTo
  <2>5. CallsInv'
    BY <1>1, <2>3, <2>4 DEF CatalogInv, CallsInv, CatalogKinds, InPsnow, InLibrary, Logging, Catalog!Login
  <2> QED BY <1>1, <1>3, <2>2, <2>3, <2>5, DetailsMove
<1> QED BY <1>2, <1>3 DEF Catalog!FetchDetails

LEMMA HandleDetailsKeeps ==
  ASSUME CatalogAssumption, CatalogInv, NEW c \in CatalogCalls, Catalog!HandleDetails(c)
  PROVE  CatalogInv'
<1>1. /\ UNCHANGED <<kind, caller, auth, categories, index, games, catalogAbsent, start, owned, catalogCut, overlapped>>
      /\ catalogStep[c] = "details" /\ Catalog!Goes(c, "none", 0)
      /\ \E how \in {"ok", "failed"} : Catalog!Answer(caller["details"], how)
  BY DEF Catalog!HandleDetails, Catalog!psnowVars, Catalog!libraryVars
<1>2. DOMAIN cache' = DOMAIN cache /\ cache'.psnow = cache.psnow /\ cache'.library = cache.library
  BY DEF Catalog!HandleDetails, CatalogInv, CallsInv
<1>3. ~InPsnow(c) /\ ~InLibrary(c)
  BY <1>1 DEF InPsnow, InLibrary, Logging, Catalog!Login
<1>4. AnswersInv'
  BY <1>1, OthersAre, AnswersKept
<1>5. CallsInv'
  BY <1>1, <1>2, CallsKept
<1> QED BY <1>1, <1>2, <1>3, <1>4, <1>5, DetailsMove

LEMMA CatalogKeeps == ASSUME CatalogAssumption, CatalogInv, [Catalog!CatalogNext]_catalogVars PROVE CatalogInv'
<1>1. CASE UNCHANGED catalogVars
  <2>1. AnswersInv'
    BY <1>1, OthersAre, AnswersKept DEF catalogVars
  <2> QED BY <1>1, <2>1, ListingKeeps DEF catalogVars
<1>2. CASE Catalog!CatalogNext
  BY <1>2, TimerKeeps, InvalidateKeeps, FetchPsnowKeeps, FetchPs5Keeps, GetOwnedKeeps, FetchDetailsKeeps,
     HandleLoginKeeps,
     LoginFailsKeeps, HandleCategoryKeeps, CategoryFailsKeeps, HandlePs5Keeps, Ps5FailsKeeps, HandleTokenKeeps, HandlePageKeeps,
     FetchPageKeeps, LibraryFailsKeeps, HandleDetailsKeeps DEF Catalog!CatalogNext
<1> QED BY <1>1, <1>2

LEMMA CatalogCardinality == ASSUME NEW S PROVE Catalog!Cardinality(S) = Cardinality(S)
BY DEF Catalog!Cardinality, Cardinality

LEMMA CatalogImplied == ASSUME CatalogInv PROVE Catalog!CatalogIsSound
<1>1. Catalog!LoginIsMarked
  <2> DEFINE logins == {c \in CatalogCalls : catalogStep[c] \in Catalog!Login}
  <2>1. CASE auth
    <3>1. PICK c \in CatalogCalls : Logging(c)
      BY <2>1 DEF CatalogInv, LoginInv
    <3>2. logins = {c}
      BY <3>1 DEF CatalogInv, LoginInv, Logging
    <3>3. Cardinality(logins) = 1
      BY <3>2, FS_Singleton
    <3> QED BY <2>1, <3>3, CatalogCardinality DEF Catalog!LoginIsMarked
  <2>2. CASE ~auth
    <3>1. logins = {}
      BY <2>2 DEF CatalogInv, LoginInv, Logging
    <3>2. Cardinality(logins) = 0
      BY <3>1, FS_EmptySet
    <3> QED BY <2>2, <3>2, CatalogCardinality DEF Catalog!LoginIsMarked
  <2> QED BY <2>1, <2>2
<1>2. Catalog!JoinedOnce
  BY DEF CatalogInv, AnswersInv, Catalog!JoinedOnce
<1>3. Catalog!StoredIsWhole
  <2>1. "psnow" \notin overlapped /\ cache.psnow # Catalog!Missing => cache.psnow = Catalog!All(Categories) \ catalogAbsent
    BY DEF CatalogInv, PsnowInv
  <2>2. "cross" \notin overlapped => cache.library \in {Catalog!Missing, Catalog!All(catalogCut)}
    BY DEF CatalogInv, LibraryInv
  <2> QED BY <2>1, <2>2 DEF Catalog!StoredIsWhole
<1> QED BY <1>1, <1>2, <1>3 DEF Catalog!CatalogIsSound

(* However the calls of the pages overlap (cloudcatalogbackend.cpp): one login at most   *)
(* is under way and marked, each join is answered once at most, and what one call alone  *)
(* has stored is all that the answers held: the categories that neither failed nor came   *)
(* without games, and the pages up to the first answer without entitlements.            *)
THEOREM CatalogHolds == MCSpec => []CatalogIsSound
<1>1. MCInit => CatalogInv
  BY CatalogStarts, CatalogAssumption DEF MCInit
<1>2. CatalogInv /\ [MCNext]_<<part, pacingVars, cloudVars, catalogVars, backVars, hostVars, syncVars, ctlVars, outVars, sendVars, videoVars, audioVars, nativeVars, appVars>> => CatalogInv'
  <2>1. [MCNext]_<<part, pacingVars, cloudVars, catalogVars, backVars, hostVars, syncVars, ctlVars, outVars, sendVars, videoVars, audioVars, nativeVars, appVars>> => [Catalog!CatalogNext]_catalogVars
    BY DEF MCNext
  <2> QED BY <2>1, CatalogKeeps, CatalogAssumption
<1>3. CatalogInv => CatalogIsSound
  BY CatalogImplied DEF CatalogIsSound
<1> QED BY <1>1, <1>2, <1>3, PTL DEF MCSpec

-----------------------------------------------------------------------------
(* The sessions of the desktop.                                                       *)
BackObjects ==
  [phase : {"none", "made", "running", "retry", "over", "deleted"}, via : {"none", "local", "psn", "cloud"},
   connected : BOOLEAN, stop : BOOLEAN, ctrlFailed : BOOLEAN, tries : Nat]
(* Only the session of the backend does anything.                                        *)
BackAlone ==
  /\ backSession \in Sessions \cup {0} /\ obj \in [Sessions -> BackObjects]
  /\ \A s \in Sessions : s # backSession => obj[s].phase \in {"none", "deleted"}
  /\ \A s \in Sessions : obj[s].connected => obj[s].phase = "running"
(* It quit when that was posted, and nothing is posted after it.                          *)
BackEnding ==
  /\ signals \in Seq({"connected", "quit"} \X Sessions)
  /\ \A i \in 1 .. Len(signals) :
       signals[i][1] = "quit" => i = Len(signals) /\ backSession # 0 /\ obj[backSession].phase = "over"
(* While it waits for the connection through PSN or for its console, it is there and not begun. *)
BackWaiting ==
  /\ backWorker # 0 \/ result # "none" =>
       backSession # 0 /\ obj[backSession].via = "psn" /\ obj[backSession].phase = "made"
  /\ backWorker \in {0, backSession} /\ (backWorker # 0 => result = "none")
  /\ wakeupStart => /\ backSession # 0 /\ obj[backSession].via = "local" /\ obj[backSession].phase = "made"
                    /\ discovery \/ psnFailed
BackAwake ==
  /\ Back!Started(backSession) => inhibited
  /\ inhibited => backSession # 0 /\ (Back!Started(backSession) \/ obj[backSession].via = "cloud")
  /\ backSession = 0 /\ ~psnFailed => discovery
BackSound == BackAlone /\ BackEnding /\ BackWaiting /\ BackAwake
BackInv == undefined \/ displaced \/ BackSound

(* A session as it is made.                                                          *)
LEMMA ObjectIsMade ==
  ASSUME NEW to \in {"made", "running", "deleted"}, NEW via \in {"none", "local", "psn", "cloud"}, NEW o,
         o = [Back!NoObject EXCEPT !.phase = to, !.via = via] \/ (o = [Back!NoObject EXCEPT !.phase = to] /\ via = "none")
  PROVE  o \in BackObjects /\ o.phase = to /\ o.via = via /\ ~o.connected
<1> DEFINE r == [phase |-> to, via |-> via, connected |-> FALSE, stop |-> FALSE, ctrlFailed |-> FALSE, tries |-> 0]
<1>1. o = r
  <2>1. CASE o = [Back!NoObject EXCEPT !.phase = to, !.via = via]
    BY <2>1 DEF Back!NoObject
  <2>2. CASE o = [Back!NoObject EXCEPT !.phase = to] /\ via = "none"
    BY <2>2 DEF Back!NoObject
  <2> QED BY <2>1, <2>2
<1>2. r \in BackObjects /\ r.phase = to /\ r.via = via /\ ~r.connected
  BY DEF BackObjects
<1> QED BY <1>1, <1>2

(* A session is made where there was none.                                              *)
LEMMA SessionIsMade ==
  ASSUME BackAssumption, BackSound, NEW s \in Sessions, backSession = 0, signals' = signals,
         NEW o \in BackObjects, o.phase \in {"made", "running", "deleted"}, ~o.connected, obj' = [obj EXCEPT ![s] = o],
         backSession' = (IF o.phase = "deleted" THEN 0 ELSE s), o.phase = "running" => inhibited',
         inhibited' => inhibited \/ o.phase = "running" \/ (o.phase = "made" /\ o.via = "cloud"),
         o.via = "psn" => o.phase = "made",
         backWorker' = (IF o.via = "psn" THEN s ELSE backWorker), result' = result, psnFailed' = psnFailed,
         wakeupStart' => wakeupStart \/ (o.via = "local" /\ o.phase = "made"),
         o.via # "psn" => discovery' = discovery
  PROVE  BackSound'
<1>1. s # 0 /\ 0 \notin Sessions
  BY DEF BackAssumption
<1>3. /\ obj \in [Sessions -> BackObjects] /\ \A r \in Sessions : obj[r].phase \in {"none", "deleted"} /\ ~obj[r].connected
      /\ ~wakeupStart /\ backWorker = 0 /\ result = "none" /\ ~inhibited /\ (discovery \/ psnFailed)
  BY <1>1 DEF BackSound, BackAlone, BackWaiting, BackAwake
<1>4. obj' \in [Sessions -> BackObjects] /\ obj'[s] = o /\ \A r \in Sessions : r # s => obj'[r] = obj[r]
  BY <1>3
<1>5. BackAlone'
  BY <1>1, <1>3, <1>4 DEF BackAlone
<1>6. BackEnding'
  BY DEF BackEnding, BackSound
<1>7. BackWaiting'
  BY <1>1, <1>3, <1>4 DEF BackWaiting
<1>8. BackAwake'
  BY <1>1, <1>3, <1>4 DEF BackAwake, Back!Started
<1> QED BY <1>5, <1>6, <1>7, <1>8 DEF BackSound

LEMMA BackParts ==
  ASSUME BackAssumption, BackSound
  PROVE  /\ 0 \notin Sessions /\ backSession \in Sessions \cup {0} /\ obj \in [Sessions -> BackObjects]
         /\ \A s \in Sessions : s # backSession => obj[s].phase \in {"none", "deleted"}
         /\ \A s \in Sessions : obj[s].connected => obj[s].phase = "running"
         /\ signals \in Seq({"connected", "quit"} \X Sessions)
         /\ \A i \in 1 .. Len(signals) :
              signals[i][1] = "quit" => i = Len(signals) /\ backSession # 0 /\ obj[backSession].phase = "over"
         /\ backWorker # 0 \/ result # "none" =>
              backSession # 0 /\ obj[backSession].via = "psn" /\ obj[backSession].phase = "made"
         /\ backWorker \in {0, backSession} /\ (backWorker # 0 => result = "none")
         /\ wakeupStart => /\ backSession # 0 /\ obj[backSession].via = "local" /\ obj[backSession].phase = "made"
                           /\ discovery \/ psnFailed
         /\ Back!Started(backSession) <=> backSession # 0 /\ obj[backSession].phase \in {"running", "retry", "over"}
         /\ Back!Started(backSession) => inhibited
         /\ inhibited => backSession # 0 /\ (Back!Started(backSession) \/ obj[backSession].via = "cloud")
         /\ backSession = 0 /\ ~psnFailed => discovery
BY DEF BackAssumption, BackSound, BackAlone, BackEnding, BackWaiting, BackAwake, Back!Started

(* The session is deleted: nothing is left of it.                                        *)
LEMMA SessionIsGone ==
  ASSUME BackAssumption, BackSound, backSession # 0, Back!Delete(backSession), backSession' = 0, backWorker' = 0,
         result' = "none", ~wakeupStart', ~inhibited', discovery' \/ psnFailed',
         signals' \in Seq({"connected", "quit"} \X Sessions), \A i \in 1 .. Len(signals') : signals'[i][1] # "quit"
  PROVE  BackSound'
<1>1. /\ 0 \notin Sessions /\ backSession \in Sessions /\ obj \in [Sessions -> BackObjects]
      /\ \A s \in Sessions : s # backSession => obj[s].phase \in {"none", "deleted"}
      /\ \A s \in Sessions : obj[s].connected => obj[s].phase = "running"
  BY BackParts
<1> DEFINE o == [Back!NoObject EXCEPT !.phase = "deleted"]
<1>2. o \in BackObjects /\ o.phase = "deleted" /\ ~o.connected
  BY DEF Back!NoObject, BackObjects
<1>3. obj' = [r \in Sessions |-> IF r = backSession THEN o ELSE obj[r]]
  BY DEF Back!Delete
<1> HIDE DEF o
<1>4. obj' \in [Sessions -> BackObjects] /\ obj'[backSession] = o /\ \A r \in Sessions : r # backSession => obj'[r] = obj[r]
  BY <1>1, <1>2, <1>3
<1>5. BackAlone'
  BY <1>1, <1>2, <1>4 DEF BackAlone
<1>6. BackEnding'
  BY DEF BackEnding
<1>7. BackWaiting'
  BY DEF BackWaiting
<1>8. BackAwake'
  BY DEF BackAwake, Back!Started
<1> QED BY <1>5, <1>6, <1>7, <1>8 DEF BackSound

(* The session goes on to another phase.                                               *)
LEMMA SessionMoves ==
  ASSUME BackAssumption, BackSound, backSession # 0, NEW o \in BackObjects, obj' = [obj EXCEPT ![backSession] = o],
         o.via = obj[backSession].via, o.connected => o.phase = "running", UNCHANGED <<backSession, discovery, psnFailed>>,
         o.phase \in {"running", "retry", "over"} \/ o.phase = obj[backSession].phase,
         signals' \in Seq({"connected", "quit"} \X Sessions),
         \A i \in 1 .. Len(signals') : signals'[i][1] = "quit" => i = Len(signals') /\ o.phase = "over",
         o.phase = "made" => UNCHANGED <<backWorker, result, wakeupStart>>,
         o.phase # "made" => backWorker' = 0 /\ result' = "none" /\ ~wakeupStart',
         o.phase \in {"running", "retry", "over"} => inhibited', inhibited' => inhibited \/ o.phase \in {"running", "retry", "over"}
  PROVE  BackSound'
<1>1. /\ 0 \notin Sessions /\ backSession \in Sessions /\ obj \in [Sessions -> BackObjects]
      /\ \A s \in Sessions : s # backSession => obj[s].phase \in {"none", "deleted"}
      /\ \A s \in Sessions : obj[s].connected => obj[s].phase = "running"
      /\ backSession' = backSession /\ discovery' = discovery /\ psnFailed' = psnFailed
  BY BackParts
<1>2. obj' \in [Sessions -> BackObjects] /\ obj'[backSession] = o /\ \A r \in Sessions : r # backSession => obj'[r] = obj[r]
  BY <1>1
<1>3. BackAlone'
  BY <1>1, <1>2 DEF BackAlone
<1>4. BackEnding'
  BY <1>1, <1>2 DEF BackEnding
<1>5. BackWaiting'
  <2>1. BackWaiting
    BY DEF BackSound
  <2>2. CASE o.phase = "made"
    <3>1. obj[backSession].phase = "made" /\ backWorker' = backWorker /\ result' = result /\ wakeupStart' = wakeupStart
      BY <2>2
    <3> QED BY <1>1, <1>2, <2>1, <2>2, <3>1 DEF BackWaiting
  <2>3. CASE o.phase # "made"
    BY <1>1, <1>2, <2>3 DEF BackWaiting
  <2> QED BY <2>2, <2>3
<1>6. BackAwake'
  <2>1. Back!Started(backSession)' <=> o.phase \in {"running", "retry", "over"}
    BY <1>1, <1>2 DEF Back!Started
  <2>2. inhibited => Back!Started(backSession) \/ obj[backSession].via = "cloud"
    BY BackParts
  <2>3. Back!Started(backSession) => obj[backSession].phase \in {"running", "retry", "over"}
    BY DEF Back!Started
  <2> QED BY <1>1, <1>2, <2>1, <2>2, <2>3 DEF BackAwake
<1> QED BY <1>3, <1>4, <1>5, <1>6 DEF BackSound

LEMMA LocalIsMade ==
  ASSUME BackAssumption, BackSound, NEW s \in Sessions, NEW h, NEW wake, backSession = 0, Back!MakeLocal(s, h, wake),
         signals' = signals, psnFailed' = psnFailed
  PROVE  BackSound'
<1>1. discovery' = discovery /\ backWorker' = backWorker /\ result' = result
  BY DEF Back!MakeLocal, Back!psnVars
<1>2. CASE wake # Back!Nobody /\ wakeupStart' = TRUE /\ backSession' = s /\ inhibited' = inhibited
           /\ obj' = [obj EXCEPT ![s] = [Back!NoObject EXCEPT !.phase = "made", !.via = "local"]]
  <2> DEFINE o == [Back!NoObject EXCEPT !.phase = "made", !.via = "local"]
  <2>1. o \in BackObjects /\ o.phase = "made" /\ o.via = "local" /\ ~o.connected
    BY ObjectIsMade
  <2>2. obj' = [obj EXCEPT ![s] = o]
    BY <1>2
  <2> HIDE DEF o
  <2> QED BY <1>1, <1>2, <2>1, <2>2, SessionIsMade
<1>3. CASE backSession' = s /\ inhibited' = TRUE /\ wakeupStart' = wakeupStart
           /\ obj' = [obj EXCEPT ![s] = [Back!NoObject EXCEPT !.phase = "running", !.via = "local"]]
  <2> DEFINE o == [Back!NoObject EXCEPT !.phase = "running", !.via = "local"]
  <2>1. o \in BackObjects /\ o.phase = "running" /\ o.via = "local" /\ ~o.connected
    BY ObjectIsMade
  <2>2. obj' = [obj EXCEPT ![s] = o]
    BY <1>3
  <2> HIDE DEF o
  <2> QED BY <1>1, <1>3, <2>1, <2>2, SessionIsMade
<1>4. CASE backSession' = 0 /\ inhibited' = inhibited /\ wakeupStart' = wakeupStart
           /\ obj' = [obj EXCEPT ![s] = [Back!NoObject EXCEPT !.phase = "deleted"]]
  <2> DEFINE o == [Back!NoObject EXCEPT !.phase = "deleted"]
  <2>1. o \in BackObjects /\ o.phase = "deleted" /\ o.via = "none" /\ ~o.connected
    BY ObjectIsMade
  <2>2. obj' = [obj EXCEPT ![s] = o]
    BY <1>4
  <2> HIDE DEF o
  <2> QED BY <1>1, <1>4, <2>1, <2>2, SessionIsMade
<1> QED BY <1>2, <1>3, <1>4 DEF Back!MakeLocal

LEMMA PsnIsMade ==
  ASSUME BackAssumption, BackSound, NEW s \in Sessions, NEW h, backSession = 0, Back!MakePsn(s, h),
         signals' = signals, psnFailed' = psnFailed
  PROVE  BackSound'
<1> DEFINE o == [Back!NoObject EXCEPT !.phase = "made", !.via = "psn"]
<1>1. o \in BackObjects /\ o.phase = "made" /\ o.via = "psn" /\ ~o.connected
  BY ObjectIsMade
<1>2. /\ obj' = [obj EXCEPT ![s] = o] /\ backSession' = s /\ backWorker' = s /\ result' = result /\ inhibited' = inhibited
      /\ wakeupStart' = wakeupStart
  BY DEF Back!MakePsn, Back!wakeVars
<1> HIDE DEF o
<1> QED BY <1>1, <1>2, SessionIsMade

(* Nothing is made.                                                                   *)
LEMMA SameIsSound ==
  ASSUME BackSound,
         UNCHANGED <<backSession, obj, signals, backWorker, result, inhibited, discovery, wakeupStart, psnFailed>>
  PROVE  BackSound'
<1>1. BackAlone' /\ BackEnding'
  BY DEF BackSound, BackAlone, BackEnding
<1>2. BackWaiting' /\ BackAwake'
  BY DEF BackSound, BackWaiting, BackAwake, Back!Started
<1> QED BY <1>1, <1>2 DEF BackSound

LEMMA UserKeeps ==
  ASSUME BackAssumption, BackSound, NEW s \in Sessions,
         (\E h \in BackConsoles : Back!Connect(s, h)) \/ Back!ResumeFromSleep(s) \/ Back!Reconnect(s)
  PROVE  BackSound'
<1>1. signals' = signals /\ psnFailed' = psnFailed
  BY DEF Back!Connect, Back!ResumeFromSleep, Back!Reconnect
<1>2. \/ Back!MakeNone
      \/ backSession = 0 /\ \E h, wake : Back!MakeLocal(s, h, wake)
      \/ backSession = 0 /\ \E h : Back!MakePsn(s, h)
  <2>1. CASE \E h \in BackConsoles : Back!Connect(s, h)
    BY <2>1, Zenon DEF Back!Connect
  <2>2. CASE Back!ResumeFromSleep(s)
    BY <2>2, Zenon DEF Back!ResumeFromSleep
  <2>3. CASE Back!Reconnect(s)
    BY <2>3, Zenon DEF Back!Reconnect
  <2> QED BY <2>1, <2>2, <2>3
<1>3. CASE Back!MakeNone
  <2>1. UNCHANGED <<backSession, obj, signals, backWorker, result, inhibited, discovery, wakeupStart, psnFailed>>
    BY <1>1, <1>3 DEF Back!MakeNone, Back!psnVars
  <2> QED BY <2>1, SameIsSound
<1>4. CASE backSession = 0 /\ \E h, wake : Back!MakeLocal(s, h, wake)
  BY <1>1, <1>4, LocalIsMade
<1>5. CASE backSession = 0 /\ \E h : Back!MakePsn(s, h)
  BY <1>1, <1>5, PsnIsMade
<1> QED BY <1>2, <1>3, <1>4, <1>5

LEMMA CloudSessionKeeps ==
  ASSUME BackAssumption, BackSound, ~displaced', NEW s \in Sessions, Back!SessionCreated(s)
  PROVE  BackSound'
<1>1. /\ backSession = 0 /\ backSession' = s /\ inhibited' = TRUE /\ signals' = signals /\ backWorker' = backWorker
      /\ result' = result /\ discovery' = discovery /\ wakeupStart' = wakeupStart /\ psnFailed' = psnFailed
  BY DEF Back!SessionCreated, Back!psnVars, Back!wakeVars
<1>2. 0 \notin Sessions /\ obj \in [Sessions -> BackObjects]
  BY BackParts
<1>3. PICK to \in {"running", "made"} :
        obj' = [r \in Sessions |-> IF r = s THEN [Back!NoObject EXCEPT !.phase = to, !.via = "cloud"]
                                   ELSE IF r = backSession THEN [Back!NoObject EXCEPT !.phase = "deleted"] ELSE obj[r]]
  BY DEF Back!SessionCreated
<1> DEFINE o == [Back!NoObject EXCEPT !.phase = to, !.via = "cloud"]
<1>4. o \in BackObjects /\ o.phase = to /\ o.via = "cloud" /\ ~o.connected
  <2>1. CASE to = "running"
    <3>1. o = [Back!NoObject EXCEPT !.phase = "running", !.via = "cloud"]
      BY <2>1
    <3> HIDE DEF o
    <3>2. o \in BackObjects
      BY <3>1 DEF BackObjects, Back!NoObject
    <3> QED BY <2>1, <3>1, <3>2 DEF Back!NoObject
  <2>2. CASE to = "made"
    <3>1. o = [Back!NoObject EXCEPT !.phase = "made", !.via = "cloud"]
      BY <2>2
    <3> HIDE DEF o
    <3>2. o \in BackObjects
      BY <3>1 DEF BackObjects, Back!NoObject
    <3> QED BY <2>2, <3>1, <3>2 DEF Back!NoObject
  <2> QED BY <2>1, <2>2
<1>5. obj' = [r \in Sessions |-> IF r = s THEN o ELSE IF r = backSession THEN [Back!NoObject EXCEPT !.phase = "deleted"] ELSE obj[r]]
  BY <1>3
<1> HIDE DEF o
<1>6. obj' = [obj EXCEPT ![s] = o]
  BY <1>1, <1>2, <1>5
<1> QED BY <1>1, <1>4, <1>6, SessionIsMade

-----------------------------------------------------------------------------
(* A session's thread.                                                                *)
LEMMA ThreadKeeps ==
  ASSUME BackAssumption, BackSound, NEW s \in Sessions, Back!ThreadConnects(s) \/ Back!ThreadMoves(s) \/ Back!RetryFires(s)
  PROVE  BackSound'
<1>1. /\ 0 \notin Sessions /\ backSession \in Sessions \cup {0} /\ obj \in [Sessions -> BackObjects]
      /\ \A r \in Sessions : r # backSession => obj[r].phase \in {"none", "deleted"}
      /\ \A r \in Sessions : obj[r].connected => obj[r].phase = "running"
      /\ signals \in Seq({"connected", "quit"} \X Sessions)
      /\ \A i \in 1 .. Len(signals) :
           signals[i][1] = "quit" => i = Len(signals) /\ backSession # 0 /\ obj[backSession].phase = "over"
      /\ backWorker # 0 \/ result # "none" =>
           backSession # 0 /\ obj[backSession].via = "psn" /\ obj[backSession].phase = "made"
      /\ backWorker \in {0, backSession}
      /\ wakeupStart => backSession # 0 /\ obj[backSession].via = "local" /\ obj[backSession].phase = "made"
      /\ Back!Started(backSession) <=> backSession # 0 /\ obj[backSession].phase \in {"running", "retry", "over"}
      /\ Back!Started(backSession) => inhibited
  BY BackParts
<1>2. obj[s].phase \in {"running", "retry"} /\ UNCHANGED <<backSession, backWorker, result, inhibited, discovery, wakeupStart, psnFailed>>
  BY DEF Back!ThreadConnects, Back!ThreadMoves, Back!ThreadFails, Back!ThreadQuits, Back!RetryFires, Back!psnVars, Back!wakeVars
<1>3. s = backSession /\ backSession # 0 /\ inhibited /\ backWorker = 0 /\ result = "none" /\ ~wakeupStart
  BY <1>1, <1>2
<1>4. \A i \in 1 .. Len(signals) : signals[i][1] # "quit"
  BY <1>1, <1>2, <1>3
<1>5. obj[s] \in BackObjects
  BY <1>1
<1>6. PICK o \in BackObjects :
        /\ obj' = [obj EXCEPT ![s] = o] /\ o.via = obj[s].via /\ (o.connected => o.phase = "running")
        /\ o.phase \in {"running", "retry", "over"}
        /\ \/ signals' = signals \/ signals' = Append(signals, <<"connected", s>>)
           \/ signals' = signals \o <<<<"connected", s>>, <<"quit", s>>>> /\ o.phase = "over"
  <2>1. CASE Back!ThreadConnects(s)
    <3> DEFINE o == [obj[s] EXCEPT !.connected = TRUE]
    <3>1. o \in BackObjects /\ o.via = obj[s].via /\ o.phase = "running"
      BY <1>5, <2>1 DEF BackObjects, Back!ThreadConnects
    <3>2. obj' = [obj EXCEPT ![s] = o] /\ signals' = Append(signals, <<"connected", s>>)
      BY <2>1 DEF Back!ThreadConnects
    <3> QED BY <3>1, <3>2
  <2>2. CASE Back!ThreadFails(s)
    <3>1. PICK ctrl \in BOOLEAN :
            IF Back!MayRetry(s)
            THEN obj' = [obj EXCEPT ![s].phase = "retry", ![s].ctrlFailed = @ \/ ctrl] /\ signals' = signals
            ELSE /\ obj' = [obj EXCEPT ![s].phase = "over", ![s].connected = FALSE]
                 /\ signals' = signals \o <<<<"connected", s>>, <<"quit", s>>>>
      BY <2>2 DEF Back!ThreadFails
    <3>2. CASE Back!MayRetry(s)
      <4> DEFINE o == [obj[s] EXCEPT !.phase = "retry", !.ctrlFailed = @ \/ ctrl]
      <4>1. o \in BackObjects /\ o.via = obj[s].via /\ o.phase = "retry" /\ o.connected = obj[s].connected
        BY <1>5 DEF BackObjects
      <4>2. ~obj[s].connected
        BY <3>2 DEF Back!MayRetry
      <4>3. obj' = [obj EXCEPT ![s] = o] /\ signals' = signals
        BY <1>1, <3>1, <3>2
      <4> QED BY <4>1, <4>2, <4>3
    <3>3. CASE ~Back!MayRetry(s)
      <4> DEFINE o == [obj[s] EXCEPT !.phase = "over", !.connected = FALSE]
      <4>1. o \in BackObjects /\ o.via = obj[s].via /\ o.phase = "over" /\ ~o.connected
        BY <1>5 DEF BackObjects
      <4>2. obj' = [obj EXCEPT ![s] = o] /\ signals' = signals \o <<<<"connected", s>>, <<"quit", s>>>>
        BY <1>1, <3>1, <3>3
      <4> QED BY <4>1, <4>2
    <3> QED BY <3>2, <3>3
  <2>3. CASE Back!ThreadQuits(s)
    <3> DEFINE o == [obj[s] EXCEPT !.phase = "over", !.connected = FALSE]
    <3>1. o \in BackObjects /\ o.via = obj[s].via /\ o.phase = "over" /\ ~o.connected
      BY <1>5 DEF BackObjects
    <3>2. obj' = [obj EXCEPT ![s] = o] /\ signals' = signals \o <<<<"connected", s>>, <<"quit", s>>>>
      BY <1>1, <2>3 DEF Back!ThreadQuits
    <3> QED BY <3>1, <3>2
  <2>4. CASE Back!RetryFires(s)
    <3> DEFINE o == [obj[s] EXCEPT !.phase = "running", !.tries = @ + 1]
    <3>0. obj[s].tries + 1 \in Nat
      BY <1>5 DEF BackObjects
    <3>1. o \in BackObjects /\ o.via = obj[s].via /\ o.phase = "running"
      BY <1>5, <3>0 DEF BackObjects
    <3>2. obj' = [obj EXCEPT ![s] = o] /\ signals' = signals
      BY <1>1, <2>4 DEF Back!RetryFires
    <3> QED BY <3>1, <3>2
  <2> QED BY <2>1, <2>2, <2>3, <2>4 DEF Back!ThreadMoves
<1>7. /\ signals' \in Seq({"connected", "quit"} \X Sessions)
      /\ \A i \in 1 .. Len(signals') : signals'[i][1] = "quit" => i = Len(signals') /\ o.phase = "over"
  <2>1. CASE signals' = signals
    BY <1>1, <1>4, <2>1
  <2>2. CASE signals' = Append(signals, <<"connected", s>>)
    BY <1>1, <1>4, <2>2
  <2>3. CASE signals' = signals \o <<<<"connected", s>>, <<"quit", s>>>> /\ o.phase = "over"
    <3>1. <<"connected", s>> \in {"connected", "quit"} \X Sessions /\ <<"quit", s>> \in {"connected", "quit"} \X Sessions
      OBVIOUS
    <3> DEFINE more == <<<<"connected", s>>, <<"quit", s>>>>
               S == {"connected", "quit"} \X Sessions
    <3>2. more \in Seq(S) /\ Len(more) = 2 /\ more[1][1] = "connected"
      BY <3>1
    <3>3. signals' = signals \o more /\ signals \in Seq(S)
      BY <1>1, <2>3
    <3> HIDE DEF more, S
    <3>4. signals' \in Seq(S) /\ Len(signals') = Len(signals) + 2 /\ Len(signals) \in Nat
      <4>1. Len(signals) \in Nat
        BY ONLY <3>3
      <4>2. signals' \in Seq(S) /\ Len(signals') = Len(signals) + Len(more)
        BY ONLY <3>2, <3>3, ConcatProperties
      <4> QED BY ONLY <3>2, <4>1, <4>2
    <3>5. \A i \in 1 .. Len(signals') : signals'[i] = IF i <= Len(signals) THEN signals[i] ELSE more[i - Len(signals)]
      BY ONLY <3>2, <3>3, <3>4
    <3>6. ASSUME NEW i \in 1 .. Len(signals'), signals'[i][1] = "quit"
          PROVE  i = Len(signals')
      <4>1. CASE i <= Len(signals)
        BY <1>4, <3>4, <3>5, <3>6, <4>1
      <4>2. CASE i = Len(signals) + 1
        <5>1. signals'[i] = more[1]
          BY <3>4, <3>5, <4>2
        <5> QED BY <3>2, <3>6, <5>1
      <4> QED BY <3>4, <4>1, <4>2
    <3>7. signals' \in Seq({"connected", "quit"} \X Sessions)
      BY <3>4 DEF S
    <3> QED BY <2>3, <3>6, <3>7
  <2> QED BY <1>6, <2>1, <2>2, <2>3
<1> QED BY <1>1, <1>2, <1>3, <1>6, <1>7, SessionMoves

(* The backend hears that a session is connected, or that it quit.                       *)
LEMMA HandlersKeep ==
  ASSUME BackAssumption, BackSound, ~undefined', Back!Handles
  PROVE  BackSound'
<1>1. /\ signals \in Seq({"connected", "quit"} \X Sessions) /\ signals # <<>> /\ signals' = Tail(signals)
      /\ \A i \in 1 .. Len(signals) :
           signals[i][1] = "quit" => i = Len(signals) /\ backSession # 0 /\ obj[backSession].phase = "over"
  BY BackParts DEF Back!Handles, Back!HandleConnected, Back!HandleQuit
<1>2. Head(signals) = signals[1] /\ Len(signals) > 0
  BY <1>1
<1>3. /\ signals' \in Seq({"connected", "quit"} \X Sessions) /\ Len(signals') = Len(signals) - 1
      /\ \A i \in 1 .. Len(signals') : signals'[i] = signals[i + 1]
  BY <1>1
<1>4. CASE Back!HandleConnected
  <2>1. \A i \in 1 .. Len(signals') :
          signals'[i][1] = "quit" => i = Len(signals') /\ backSession # 0 /\ obj[backSession].phase = "over"
    <3> SUFFICES ASSUME NEW i \in 1 .. Len(signals'), signals'[i][1] = "quit"
                 PROVE  i = Len(signals') /\ backSession # 0 /\ obj[backSession].phase = "over"
      OBVIOUS
    <3>1. i + 1 \in 1 .. Len(signals) /\ signals[i + 1][1] = "quit"
      BY <1>2, <1>3
    <3>2. i + 1 = Len(signals) /\ backSession # 0 /\ obj[backSession].phase = "over"
      BY <1>1, <3>1
    <3> QED BY <1>3, <3>2
  <2>2. /\ UNCHANGED <<backSession, obj, backWorker, result, inhibited, wakeupStart, psnFailed>> /\ backSession # 0
        /\ discovery' = (IF obj[backSession].connected THEN FALSE ELSE discovery)
    BY <1>4 DEF Back!HandleConnected, Back!psnVars, Back!wakeVars
  <2>3. BackAlone' /\ BackEnding'
    BY <1>3, <2>1, <2>2 DEF BackAlone, BackEnding, BackSound
  <2>4. wakeupStart => ~obj[backSession].connected
    BY BackParts
  <2>5. BackWaiting' /\ BackAwake'
    BY <2>2, <2>4 DEF BackWaiting, BackAwake, BackSound, Back!Started
  <2> QED BY <2>3, <2>5 DEF BackSound
<1>5. CASE Back!HandleQuit
  <2>1. signals[1][1] = "quit"
    BY <1>2, <1>5 DEF Back!HandleQuit
  <2>2. Len(signals) = 1 /\ backSession # 0 /\ obj[backSession].phase = "over"
    <3>1. 1 \in 1 .. Len(signals)
      BY <1>1, <1>2
    <3> QED BY <1>1, <2>1, <3>1
  <2>3. backWorker = 0 /\ result = "none" /\ ~wakeupStart
    BY <2>2, BackParts
  <2>4. /\ UNCHANGED <<backWorker, result, wakeupStart, psnFailed>> /\ backSession' = 0 /\ ~inhibited' /\ discovery'
        /\ Back!Delete(backSession)
    BY <1>5 DEF Back!HandleQuit, Back!psnVars, Back!wakeVars
  <2>5. \A i \in 1 .. Len(signals') : signals'[i][1] # "quit"
    BY <1>3, <2>2
  <2> QED BY <1>3, <2>2, <2>3, <2>4, <2>5, SessionIsGone
<1> QED BY <1>4, <1>5 DEF Back!Handles

(* The connection through PSN ends, and the backend hears of it.                          *)
LEMMA PsnKeeps ==
  ASSUME BackAssumption, BackSound, ~undefined', Back!WorkerEnds \/ Back!CheckPsnConnection
  PROVE  BackSound'
<1>1. /\ 0 \notin Sessions /\ backSession \in Sessions \cup {0} /\ obj \in [Sessions -> BackObjects]
      /\ \A s \in Sessions : obj[s].connected => obj[s].phase = "running"
      /\ signals \in Seq({"connected", "quit"} \X Sessions)
      /\ \A i \in 1 .. Len(signals) :
           signals[i][1] = "quit" => i = Len(signals) /\ backSession # 0 /\ obj[backSession].phase = "over"
      /\ backWorker # 0 \/ result # "none" =>
           backSession # 0 /\ obj[backSession].via = "psn" /\ obj[backSession].phase = "made"
      /\ backWorker \in {0, backSession} /\ (backWorker # 0 => result = "none")
      /\ wakeupStart => backSession # 0 /\ obj[backSession].via = "local" /\ obj[backSession].phase = "made"
      /\ inhibited => backSession # 0 /\ (Back!Started(backSession) \/ obj[backSession].via = "cloud")
      /\ Back!Started(backSession) <=> backSession # 0 /\ obj[backSession].phase \in {"running", "retry", "over"}
  BY BackParts
<1>2. CASE Back!WorkerEnds
  <2>1. /\ UNCHANGED <<backSession, obj, signals, inhibited, discovery, wakeupStart, psnFailed>>
        /\ backWorker # 0 /\ backWorker' = 0
    BY <1>2 DEF Back!WorkerEnds, Back!wakeVars
  <2>2. BackAlone' /\ BackEnding'
    BY <2>1 DEF BackAlone, BackEnding, BackSound
  <2>3. BackWaiting' /\ BackAwake'
    BY <1>1, <2>1 DEF BackWaiting, BackAwake, BackSound, Back!Started
  <2> QED BY <2>2, <2>3 DEF BackSound
<1>3. CASE Back!CheckPsnConnection
  <2>1. /\ result' = "none" /\ result # "none" /\ UNCHANGED <<signals, backWorker, wakeupStart>>
        /\ Back!PsnFails \/ Back!PsnStarts
    BY <1>3 DEF Back!CheckPsnConnection, Back!PsnFails, Back!PsnStarts, Back!wakeVars
  <2>2. /\ backSession # 0 /\ obj[backSession].via = "psn" /\ obj[backSession].phase = "made"
        /\ backWorker = 0 /\ backWorker' = 0 /\ ~wakeupStart /\ ~wakeupStart' /\ ~inhibited
    BY <1>1, <2>1
  <2>3. /\ signals' \in Seq({"connected", "quit"} \X Sessions) /\ \A i \in 1 .. Len(signals') : signals'[i][1] # "quit"
    BY <1>1, <2>1, <2>2
  <2>4. CASE Back!PsnFails
    <3>1. Back!Delete(backSession) /\ backSession' = 0 /\ discovery' /\ inhibited' = inhibited
      BY <2>2, <2>4 DEF Back!PsnFails
    <3> QED BY <2>1, <2>2, <2>3, <3>1, SessionIsGone
  <2>5. CASE Back!PsnStarts
    <3>1. CASE Back!Delete(backSession) /\ backSession' = 0 /\ psnFailed' = TRUE /\ inhibited' = inhibited
      BY <2>1, <2>2, <2>3, <3>1, SessionIsGone
    <3>2. CASE /\ Back!Becomes(backSession, "running") /\ inhibited' = TRUE /\ UNCHANGED <<backSession, psnFailed, discovery>>
      <4> DEFINE o == [obj[backSession] EXCEPT !.phase = "running"]
      <4>1. o \in BackObjects /\ o.via = obj[backSession].via /\ o.phase = "running"
        <5>1. obj[backSession] \in BackObjects
          BY <1>1, <2>2
        <5> QED BY <5>1 DEF BackObjects
      <4>2. obj' = [obj EXCEPT ![backSession] = o]
        BY <3>2 DEF Back!Becomes
      <4> HIDE DEF o
      <4> QED BY <2>1, <2>2, <2>3, <3>2, <4>1, <4>2, SessionMoves
    <3> QED BY <2>5, <3>1, <3>2 DEF Back!PsnStarts
  <2> QED BY <2>1, <2>4, <2>5
<1> QED BY <1>2, <1>3

(* The console is ready, or still is not and the user does not wait for it.                *)
LEMMA WakingKeeps ==
  ASSUME BackAssumption, BackSound, ~undefined', Back!ConsoleReady \/ Back!ConsoleInStandby \/ Back!StopAutoConnect
  PROVE  BackSound'
<1>1. /\ 0 \notin Sessions /\ backSession \in Sessions \cup {0} /\ obj \in [Sessions -> BackObjects]
      /\ signals \in Seq({"connected", "quit"} \X Sessions)
      /\ \A s \in Sessions : obj[s].connected => obj[s].phase = "running"
      /\ \A i \in 1 .. Len(signals) :
           signals[i][1] = "quit" => i = Len(signals) /\ backSession # 0 /\ obj[backSession].phase = "over"
      /\ backWorker # 0 \/ result # "none" =>
           backSession # 0 /\ obj[backSession].via = "psn" /\ obj[backSession].phase = "made"
      /\ backWorker \in {0, backSession}
      /\ wakeupStart => /\ backSession # 0 /\ obj[backSession].via = "local" /\ obj[backSession].phase = "made"
                        /\ discovery \/ psnFailed
      /\ inhibited => backSession # 0 /\ (Back!Started(backSession) \/ obj[backSession].via = "cloud")
      /\ Back!Started(backSession) <=> backSession # 0 /\ obj[backSession].phase \in {"running", "retry", "over"}
  BY BackParts
<1>2. ASSUME wakeupStart
      PROVE  /\ backSession # 0 /\ obj[backSession].via = "local" /\ obj[backSession].phase = "made"
             /\ backWorker = 0 /\ result = "none" /\ ~inhibited /\ (discovery \/ psnFailed)
             /\ \A i \in 1 .. Len(signals) : signals[i][1] # "quit"
  BY <1>1, <1>2
<1>3. ASSUME ~wakeupStart', UNCHANGED <<signals, backWorker, result, inhibited, discovery, psnFailed>>, wakeupStart,
             Back!Delete(backSession), backSession' = 0
      PROVE  BackSound'
  BY <1>1, <1>2, <1>3, SessionIsGone
<1>4. CASE Back!ConsoleReady
  <2>1. wakeupStart /\ ~wakeupStart' /\ UNCHANGED <<signals, backWorker, result, discovery, psnFailed>>
    BY <1>4 DEF Back!ConsoleReady, Back!psnVars
  <2>2. CASE Back!Delete(backSession) /\ backSession' = 0 /\ inhibited' = inhibited
    BY <1>3, <2>1, <2>2
  <2>3. CASE Back!Becomes(backSession, "running") /\ inhibited' = TRUE /\ backSession' = backSession
    <3> DEFINE o == [obj[backSession] EXCEPT !.phase = "running"]
    <3>1. o \in BackObjects /\ o.via = obj[backSession].via /\ o.phase = "running"
      <4>1. obj[backSession] \in BackObjects
        BY <1>1, <1>2, <2>1
      <4> QED BY <4>1 DEF BackObjects
    <3>2. obj' = [obj EXCEPT ![backSession] = o]
      BY <2>3 DEF Back!Becomes
    <3> HIDE DEF o
    <3> QED BY <1>1, <1>2, <2>1, <2>3, <3>1, <3>2, SessionMoves
  <2> QED BY <1>4, <2>2, <2>3 DEF Back!ConsoleReady
<1>5. CASE Back!ConsoleInStandby
  <2>1. UNCHANGED <<backSession, obj, signals, backWorker, result, inhibited, discovery, wakeupStart, psnFailed>>
    BY <1>5 DEF Back!ConsoleInStandby, Back!psnVars
  <2> QED BY <2>1, SameIsSound
<1>6. CASE Back!StopAutoConnect
  <2>1. ~wakeupStart' /\ UNCHANGED <<signals, backWorker, result, inhibited, discovery, psnFailed>>
    BY <1>6 DEF Back!StopAutoConnect, Back!psnVars
  <2>2. CASE wakeupStart
    <3>1. Back!Delete(backSession) /\ backSession' = 0
      BY <1>6, <2>2 DEF Back!StopAutoConnect
    <3> QED BY <1>3, <2>1, <2>2, <3>1
  <2>3. CASE ~wakeupStart
    <3>1. obj' = obj /\ backSession' = backSession
      BY <1>6, <2>3 DEF Back!StopAutoConnect
    <3>2. BackAlone' /\ BackEnding'
      BY <2>1, <3>1 DEF BackAlone, BackEnding, BackSound
    <3>3. BackWaiting' /\ BackAwake'
      BY <2>1, <3>1 DEF BackWaiting, BackAwake, BackSound, Back!Started
    <3> QED BY <3>2, <3>3 DEF BackSound
  <2> QED BY <2>2, <2>3
<1> QED BY <1>4, <1>5, <1>6

(* The user stops the session, or the computer goes to sleep.                             *)
LEMMA StopKeeps ==
  ASSUME BackAssumption, BackSound, Back!StopSession \/ Back!GoToSleep
  PROVE  BackSound'
<1>1. /\ 0 \notin Sessions /\ backSession \in Sessions /\ backSession # 0 /\ obj \in [Sessions -> BackObjects]
      /\ signals' = signals /\ signals \in Seq({"connected", "quit"} \X Sessions)
      /\ \A s \in Sessions : obj[s].connected => obj[s].phase = "running"
      /\ \A i \in 1 .. Len(signals) :
           signals[i][1] = "quit" => i = Len(signals) /\ backSession # 0 /\ obj[backSession].phase = "over"
      /\ UNCHANGED <<backSession, discovery, psnFailed, inhibited, backWorker, result, wakeupStart>>
  BY BackParts DEF Back!StopSession, Back!GoToSleep, Back!psnVars, Back!wakeVars
<1> DEFINE o == [obj[backSession] EXCEPT !.stop = TRUE]
<1>2. /\ o \in BackObjects /\ o.via = obj[backSession].via /\ o.phase = obj[backSession].phase
      /\ o.connected = obj[backSession].connected
  <2>1. obj[backSession] \in BackObjects
    BY <1>1
  <2> QED BY <2>1 DEF BackObjects
<1>3. obj' = [obj EXCEPT ![backSession] = o]
  BY <1>1 DEF Back!StopSession, Back!GoToSleep
<1> HIDE DEF o
<1>4. obj' \in [Sessions -> BackObjects] /\ obj'[backSession] = o /\ \A r \in Sessions : r # backSession => obj'[r] = obj[r]
  BY <1>1, <1>2, <1>3
<1>5. BackAlone'
  BY <1>1, <1>2, <1>4 DEF BackAlone, BackSound
<1>6. BackEnding'
  BY <1>1, <1>2, <1>4 DEF BackEnding
<1>7. BackWaiting' /\ BackAwake'
  BY <1>1, <1>2, <1>4 DEF BackWaiting, BackAwake, BackSound, Back!Started
<1> QED BY <1>5, <1>6, <1>7 DEF BackSound

LEMMA BackStep ==
  ASSUME BackAssumption, BackInv, [Back!BackendNext]_backVars
  PROVE  BackInv'
<1>1. CASE UNCHANGED backVars
  <2>1. /\ UNCHANGED <<backSession, obj, signals, backWorker, result, inhibited, discovery, wakeupStart, psnFailed>>
        /\ undefined' = undefined /\ displaced' = displaced
    BY <1>1 DEF backVars
  <2> QED BY <2>1, SameIsSound DEF BackInv
<1>2. CASE Back!BackendNext
  <2>1. SUFFICES ASSUME ~undefined', ~displaced'
                 PROVE  BackSound'
    BY DEF BackInv
  <2>2. ~undefined
    BY <1>2 DEF Back!BackendNext
  <2>3. ASSUME NEW s \in Sessions,
               (\E h \in BackConsoles : Back!Connect(s, h)) \/ Back!ResumeFromSleep(s) \/ Back!Reconnect(s)
        PROVE  BackSound'
    <3>1. displaced' = displaced
      BY <2>3 DEF Back!Connect, Back!ResumeFromSleep, Back!Reconnect
    <3> QED BY <2>1, <2>2, <2>3, <3>1, UserKeeps DEF BackInv
  <2>4. ASSUME NEW s \in Sessions, Back!SessionCreated(s)
        PROVE  BackSound'
    <3>1. displaced => displaced'
      BY <2>4 DEF Back!SessionCreated
    <3> QED BY <2>1, <2>2, <2>4, <3>1, CloudSessionKeeps DEF BackInv
  <2>5. ASSUME NEW s \in Sessions, Back!ThreadConnects(s) \/ Back!ThreadMoves(s) \/ Back!RetryFires(s)
        PROVE  BackSound'
    <3>1. displaced' = displaced
      BY <2>5 DEF Back!ThreadConnects, Back!ThreadMoves, Back!ThreadFails, Back!ThreadQuits, Back!RetryFires
    <3> QED BY <2>1, <2>2, <2>5, <3>1, ThreadKeeps DEF BackInv
  <2>6. CASE Back!Handles
    <3>1. displaced' = displaced
      BY <2>6 DEF Back!Handles, Back!HandleConnected, Back!HandleQuit
    <3> QED BY <2>1, <2>2, <2>6, <3>1, HandlersKeep DEF BackInv
  <2>7. CASE Back!WorkerEnds \/ Back!CheckPsnConnection
    <3>1. displaced => displaced'
      BY <2>7 DEF Back!WorkerEnds, Back!CheckPsnConnection
    <3> QED BY <2>1, <2>2, <2>7, <3>1, PsnKeeps DEF BackInv
  <2>8. CASE Back!ConsoleReady \/ Back!ConsoleInStandby \/ Back!StopAutoConnect
    <3>1. displaced' = displaced
      BY <2>8 DEF Back!ConsoleReady, Back!ConsoleInStandby, Back!StopAutoConnect
    <3> QED BY <2>1, <2>2, <2>8, <3>1, WakingKeeps DEF BackInv
  <2>9. CASE Back!StopSession \/ Back!GoToSleep
    <3>1. displaced' = displaced
      BY <2>9 DEF Back!StopSession, Back!GoToSleep
    <3> QED BY <2>1, <2>2, <2>9, <3>1, StopKeeps DEF BackInv
  <2>10. \/ \E s \in Sessions :
              \/ (\E h \in BackConsoles : Back!Connect(s, h)) \/ Back!ResumeFromSleep(s) \/ Back!Reconnect(s)
              \/ Back!SessionCreated(s)
              \/ Back!ThreadConnects(s) \/ Back!ThreadMoves(s) \/ Back!RetryFires(s)
         \/ Back!Handles \/ (Back!WorkerEnds \/ Back!CheckPsnConnection)
         \/ (Back!ConsoleReady \/ Back!ConsoleInStandby \/ Back!StopAutoConnect) \/ (Back!StopSession \/ Back!GoToSleep)
    BY <1>2, Zenon DEF Back!BackendNext
  <2> QED BY <2>3, <2>4, <2>5, <2>6, <2>7, <2>8, <2>9, <2>10
<1> QED BY <1>1, <1>2

LEMMA BackBegins ==
  ASSUME BackAssumption, Back!Init \/ Back!AtRest
  PROVE  BackInv
<1>1. CASE Back!AtRest
  BY <1>1 DEF Back!AtRest, BackInv
<1>2. CASE Back!Init
  <2>1. /\ backSession = 0 /\ obj = [s \in Sessions |-> Back!NoObject] /\ signals = <<>> /\ backWorker = 0
        /\ result = "none" /\ inhibited = FALSE /\ discovery = TRUE /\ wakeupStart = FALSE
    BY <1>2 DEF Back!Init
  <2>2. Back!NoObject \in BackObjects /\ Back!NoObject.phase = "none" /\ ~Back!NoObject.connected
    BY DEF Back!NoObject, BackObjects
  <2>3. BackAlone
    BY <2>1, <2>2 DEF BackAlone
  <2>4. BackEnding
    BY <2>1 DEF BackEnding
  <2>5. BackWaiting /\ BackAwake
    BY <2>1 DEF BackWaiting, BackAwake, Back!Started
  <2> QED BY <2>3, <2>4, <2>5 DEF BackInv, BackSound
<1> QED BY <1>1, <1>2

LEMMA BackIsSound ==
  ASSUME BackInv
  PROVE  Back!SleepAndDiscovery
BY DEF BackInv, BackSound, BackAwake, Back!SleepAndDiscovery, Back!Started

(* While a session streams or tries to, the machine does not go to sleep under it, and   *)
(* consoles are looked for without one (Backend), however its thread, the worker of PSN,  *)
(* the wake-up of its console and the user interleave.                                  *)
THEOREM SleepsAsAsked == MCSpec => []Back!SleepAndDiscovery
<1>1. MCInit => BackInv
  BY BackBegins, BackAssumption DEF MCInit
<1>2. BackInv /\ [MCNext]_<<part, pacingVars, cloudVars, catalogVars, backVars, hostVars, syncVars, ctlVars, outVars, sendVars, videoVars, audioVars, nativeVars, appVars>> => BackInv'
  <2>1. ASSUME BackInv, [MCNext]_<<part, pacingVars, cloudVars, catalogVars, backVars, hostVars, syncVars, ctlVars, outVars, sendVars, videoVars, audioVars, nativeVars, appVars>>
        PROVE  BackInv'
    <3>1. [Back!BackendNext]_backVars
      BY <2>1 DEF MCNext
    <3> QED BY <2>1, <3>1, BackStep, BackAssumption
  <2> QED BY <2>1
<1>3. BackInv => Back!SleepAndDiscovery
  BY BackIsSound
<1> QED BY <1>1, <1>2, <1>3, PTL DEF MCSpec

-----------------------------------------------------------------------------
(* The consoles that are listed: the services follow what discovery and the settings say, *)
(* and the settings have all they are made of.                                          *)
SettingsFields == {"registered", "nicknamed", "ps4s", "lastIp", "hidden", "manual", "next"}
HostInv ==
  /\ DOMAIN settings = SettingsFields /\ active \in [v4 : BOOLEAN, v6 : BOOLEAN]
  /\ Host!ServicesFollowSettings

(* What is updated has no service that is not wanted.                                    *)
LEMMA UpdatedAreWanted ==
  ASSUME NEW set, NEW old, NEW new, new \in Host!Updated(set, old)
  PROVE  DOMAIN new \subseteq Host!Wanted(set)
BY DEF Host!Updated

(* Services that are updated to the settings follow them, those of discovery that is off   *)
(* were none.                                                                         *)
LEMMA ServicesFollow ==
  ASSUME HostInv, NEW set, Host!UpdateManualServices(set, active'), settings' = set,
         active' = active \/ active'.v4 \/ active'.v6
  PROVE  Host!ServicesFollowSettings'
<1>1. CASE active'.v4 \/ active'.v6
  <2>1. services' \in Host!Updated(set, services)
    BY <1>1 DEF Host!UpdateManualServices
  <2>2. DOMAIN services' \subseteq Host!Wanted(set)
    BY <2>1, UpdatedAreWanted
  <2> QED BY <1>1, <2>2 DEF Host!ServicesFollowSettings, Host!Wanted
<1>2. CASE ~active'.v4 /\ ~active'.v6
  <2>1. services' = services /\ active' = active
    BY <1>2 DEF Host!UpdateManualServices
  <2> QED BY <1>2, <2>1 DEF HostInv, Host!ServicesFollowSettings
<1> QED BY <1>1, <1>2

(* A change of the settings that is told to the services.                                *)
LEMMA ChangeKeeps ==
  ASSUME HostInv, NEW set, Host!Change(set), DOMAIN set = SettingsFields
  PROVE  HostInv'
<1>1. settings' = set /\ active' = active /\ Host!UpdateManualServices(set, active')
  BY DEF Host!Change
<1>2. Host!ServicesFollowSettings'
  BY <1>1, ServicesFollow
<1> QED BY <1>1, <1>2 DEF HostInv

(* What the services are wanted for is the same as before.                                *)
LEMMA SameHosts ==
  ASSUME HostInv, active' = active, DOMAIN services' \subseteq DOMAIN services, DOMAIN settings' = SettingsFields,
         settings'.manual = settings.manual, settings'.registered = settings.registered
  PROVE  HostInv'
<1>1. Host!Wanted(settings) = Host!Wanted(settings')
  BY DEF Host!Wanted
<1>2. DOMAIN services' \subseteq IF active'.v4 \/ active'.v6 THEN Host!Wanted(settings') ELSE {}
  BY <1>1 DEF HostInv, Host!ServicesFollowSettings
<1>3. Host!ServicesFollowSettings'
  BY <1>2 DEF Host!ServicesFollowSettings, Host!Wanted
<1> QED BY <1>3 DEF HostInv

LEMMA UnchangedHosts ==
  ASSUME HostInv, UNCHANGED <<active, services, settings>>
  PROVE  HostInv'
BY DEF HostInv, Host!ServicesFollowSettings, Host!Wanted

LEMMA UserChanges ==
  ASSUME HostInv, Host!User
  PROVE  HostInv'
<1> USE DEF Host!settingsVars, Host!listVars, Host!psnVars, Host!windowVars
<1>0. DOMAIN settings = SettingsFields
  BY DEF HostInv
<1>1. ASSUME NEW i \in DOMAIN hostShown, Host!Connect(i)
      PROVE  HostInv'
  <2>1. UNCHANGED <<active, services, settings>>
    BY <1>1 DEF Host!Connect
  <2> QED BY <2>1, UnchangedHosts
<1>2. ASSUME NEW i \in DOMAIN hostShown, Host!DeleteHost(i)
      PROVE  HostInv'
  <2>1. CASE Host!ManualAt(Host!ServerAt(i)) = {}
    <3>1. UNCHANGED <<active, services, settings>>
      BY <1>2, <2>1 DEF Host!DeleteHost
    <3> QED BY <3>1, UnchangedHosts
  <2>2. CASE Host!ManualAt(Host!ServerAt(i)) # {}
    <3> DEFINE ids == Host!ManualAt(Host!ServerAt(i))
               set == [settings EXCEPT !.manual = [id \in DOMAIN @ \ ids |-> @[id]]]
    <3>1. Host!Change(set)
      BY <1>2, <2>2 DEF Host!DeleteHost
    <3>2. DOMAIN set = SettingsFields
      BY <1>0
    <3> HIDE DEF set
    <3> QED BY <3>1, <3>2, ChangeKeeps
  <2> QED BY <2>1, <2>2
<1>3. ASSUME NEW i \in DOMAIN hostShown, Host!SetConsolePin(i)
      PROVE  HostInv'
  <2>1. CASE Host!ServerAt(i)[1] = "none"
    <3>1. UNCHANGED <<active, services, settings>>
      BY <1>3, <2>1 DEF Host!SetConsolePin
    <3> QED BY <3>1, UnchangedHosts
  <2>2. CASE Host!ServerAt(i)[1] # "none"
    <3>1. PICK mac : Host!Change(Host!AddRegistered(settings, mac))
      BY <1>3, <2>2 DEF Host!SetConsolePin
    <3>2. DOMAIN Host!AddRegistered(settings, mac) = SettingsFields
      BY <1>0 DEF Host!AddRegistered
    <3> QED BY <3>1, <3>2, ChangeKeeps
  <2> QED BY <2>1, <2>2
<1>4. ASSUME NEW a \in Entered, NEW mac, Host!AddManualHost(a, mac)
      PROVE  HostInv'
  <2> DEFINE set == Host!SaveManual(settings, [Host!NoHost EXCEPT !.addr = a, !.registered = mac # Host!Nowhere, !.mac = mac])
  <2>1. Host!Change(set)
    BY <1>4 DEF Host!AddManualHost
  <2>2. DOMAIN set = SettingsFields
    BY <1>0 DEF Host!SaveManual
  <2> HIDE DEF set
  <2> QED BY <2>1, <2>2, ChangeKeeps
<1>5. ASSUME NEW mac, Host!Unregister(mac)
      PROVE  HostInv'
  <2> DEFINE set == [settings EXCEPT !.registered = @ \ {mac}]
  <2>1. Host!Change(set)
    BY <1>5 DEF Host!Unregister
  <2>2. DOMAIN set = SettingsFields
    BY <1>0
  <2> HIDE DEF set
  <2> QED BY <2>1, <2>2, ChangeKeeps
<1>6. ASSUME NEW hidden, Host!Hide(hidden)
      PROVE  HostInv'
  <2>1. settings' = [settings EXCEPT !.hidden = hidden] /\ active' = active /\ services' = services
    BY <1>6 DEF Host!Hide, Host!HiddenAs
  <2>2. DOMAIN settings' = SettingsFields /\ settings'.manual = settings.manual /\ settings'.registered = settings.registered
    BY <1>0, <2>1 DEF SettingsFields
  <2> QED BY <2>1, <2>2, SameHosts
<1>7. ASSUME NEW c, NEW a, Host!Registered(c, a)
      PROVE  HostInv'
  <2>1. Host!Change(Host!AddRegistered(settings, c))
    BY <1>7 DEF Host!Registered
  <2>2. DOMAIN Host!AddRegistered(settings, c) = SettingsFields
    BY <1>0 DEF Host!AddRegistered
  <2> QED BY <2>1, <2>2, ChangeKeeps
<1>8. ASSUME Host!AutoRegistered
      PROVE  HostInv'
  <2>1. Host!Change(Host!AddRegistered(settings, dialog.mac))
    BY <1>8 DEF Host!AutoRegistered
  <2>2. DOMAIN Host!AddRegistered(settings, dialog.mac) = SettingsFields
    BY <1>0 DEF Host!AddRegistered
  <2> QED BY <2>1, <2>2, ChangeKeeps
<1>9. ASSUME Host!RegisterFails \/ Host!UpdatePsnHosts
      PROVE  HostInv'
  <2>1. UNCHANGED <<active, services, settings>>
    BY <1>9 DEF Host!RegisterFails, Host!UpdatePsnHosts
  <2> QED BY <2>1, UnchangedHosts
<1>10. ASSUME Host!Activate
       PROVE  HostInv'
  <2>1. CASE active' = active /\ services' = services
    BY <1>10, <2>1, UnchangedHosts DEF Host!Activate
  <2>2. CASE active' \in Host!StartsV6 /\ Host!UpdateManualServices(settings, active')
    <3>1. settings' = settings
      BY <1>10 DEF Host!Activate
    <3>2. active' \in [v4 : BOOLEAN, v6 : BOOLEAN] /\ active'.v4
      <4>1. active.v6 \in BOOLEAN
        BY DEF HostInv
      <4>2. PICK v6 \in {TRUE, active.v6} : active' = [v4 |-> TRUE, v6 |-> v6]
        BY <2>2 DEF Host!StartsV6
      <4>3. v6 \in BOOLEAN
        BY <4>1
      <4> QED BY <4>2, <4>3
    <3>3. Host!ServicesFollowSettings'
      BY <2>2, <3>1, <3>2, ServicesFollow
    <3> QED BY <1>0, <3>1, <3>2, <3>3 DEF HostInv
  <2> QED BY <1>10, <2>1, <2>2 DEF Host!Activate
<1>11. ASSUME Host!Deactivate
       PROVE  HostInv'
  BY <1>0, <1>11 DEF Host!Deactivate, HostInv, Host!ServicesFollowSettings
<1>12. ASSUME Host!ProfileChanged
       PROVE  HostInv'
  <2>1. /\ settings' = Host!Load(Switches[profile + 1]) /\ active' = active
        /\ Host!UpdateManualServices(settings', active')
    BY <1>12 DEF Host!ProfileChanged
  <2>2. DOMAIN settings' = SettingsFields
    BY <2>1 DEF Host!Load, SettingsFields
  <2> DEFINE set == Host!Load(Switches[profile + 1])
  <2>3. settings' = set /\ Host!UpdateManualServices(set, active')
    BY <2>1
  <2> HIDE DEF set
  <2>4. Host!ServicesFollowSettings'
    BY <2>1, <2>3, ServicesFollow
  <2> QED BY <2>1, <2>2, <2>4 DEF HostInv
<1>13. \/ \E i \in DOMAIN hostShown : Host!Connect(i) \/ Host!DeleteHost(i) \/ Host!SetConsolePin(i)
       \/ \E a \in Entered : \E mac : Host!AddManualHost(a, mac)
       \/ \E mac : Host!Unregister(mac) \/ Host!Hide(mac)
       \/ \E c, a : Host!Registered(c, a)
       \/ Host!AutoRegistered \/ (Host!RegisterFails \/ Host!UpdatePsnHosts) \/ Host!Activate \/ Host!Deactivate
       \/ Host!ProfileChanged
  BY Zenon DEF Host!User
<1> QED BY <1>1, <1>2, <1>3, <1>4, <1>5, <1>6, <1>7, <1>8, <1>9, <1>10, <1>11, <1>12, <1>13

LEMMA OthersChange ==
  ASSUME HostInv, Host!Others
  PROVE  HostInv'
<1> USE DEF Host!settingsVars, Host!listVars, Host!psnVars, Host!windowVars
<1>0. DOMAIN settings = SettingsFields
  BY DEF HostInv
<1>1. ASSUME NEW list, Host!ServiceReports(list)
      PROVE  HostInv'
  BY <1>1, UnchangedHosts DEF Host!ServiceReports
<1>2. ASSUME NEW a \in DOMAIN services, Host!ManualFound(a) \/ \E host \in {a, Host!Nowhere} : Host!ManualTells(a, host)
      PROVE  HostInv'
  <2>1. DOMAIN services' = DOMAIN services /\ active' = active /\ settings' = settings
    BY <1>2 DEF Host!ManualFound, Host!ManualTells
  <2> QED BY <1>0, <2>1, SameHosts
<1>3. ASSUME NEW name, Host!AutoConnectPsn(name) \/ Host!WakingEnds(name)
      PROVE  HostInv'
  <2>1. UNCHANGED <<active, services, settings>>
    BY <1>3 DEF Host!AutoConnectPsn, Host!WakingEnds
  <2> QED BY <2>1, UnchangedHosts
<1>4. ASSUME Host!WorkerListed \/ Host!WorkerTells \/ Host!WorkerEnded \/ Host!HandleHosts
      PROVE  HostInv'
  <2>1. UNCHANGED <<active, services, settings>>
    BY <1>4 DEF Host!WorkerListed, Host!WorkerTells, Host!WorkerEnded, Host!HandleHosts
  <2> QED BY <2>1, UnchangedHosts
<1>5. ASSUME Host!WorkerAdds
      PROVE  HostInv'
  <2>1. \E name, known : Host!Adds(name, known)
    BY <1>5, Zenon DEF Host!WorkerAdds
  <2>2. UNCHANGED <<active, services, settings>>
    BY <2>1 DEF Host!Adds
  <2> QED BY <2>2, UnchangedHosts
<1>6. ASSUME Host!Refresh
      PROVE  HostInv'
  <2> DEFINE unhidden == Host!Macs \cap settings.registered
  <2>1. /\ settings' = [settings EXCEPT !.hidden = @ \ unhidden, !.lastIp = Host!LastIps] /\ active' = active
        /\ services' = services \/ Host!UpdateManualServices(settings, active)
    BY <1>6 DEF Host!Refresh
  <2> HIDE DEF unhidden
  <2>2. DOMAIN settings' = SettingsFields /\ settings'.manual = settings.manual /\ settings'.registered = settings.registered
    BY <1>0, <2>1 DEF SettingsFields
  <2>3. CASE services' = services
    BY <2>1, <2>2, <2>3, SameHosts
  <2>4. CASE Host!UpdateManualServices(settings, active)
    <3>1. Host!Wanted(settings) = Host!Wanted(settings')
      BY <2>2 DEF Host!Wanted
    <3>2. DOMAIN services' \subseteq IF active.v4 \/ active.v6 THEN Host!Wanted(settings) ELSE {}
      <4>1. CASE active.v4 \/ active.v6
        BY <2>4, <4>1, UpdatedAreWanted DEF Host!UpdateManualServices
      <4>2. CASE ~(active.v4 \/ active.v6)
        BY <2>4, <4>2 DEF Host!UpdateManualServices, HostInv, Host!ServicesFollowSettings
      <4> QED BY <4>1, <4>2
    <3>3. Host!ServicesFollowSettings'
      BY <2>1, <3>1, <3>2 DEF Host!ServicesFollowSettings, Host!Wanted
    <3> QED BY <2>1, <2>2, <3>3 DEF HostInv
  <2> QED BY <2>1, <2>3, <2>4
<1>7. ASSUME Host!SaveDue
      PROVE  HostInv'
  <2> DEFINE set == Host!SaveManual(settings, due)
  <2>1. Host!Change(set)
    BY <1>7 DEF Host!SaveDue
  <2>2. DOMAIN set = SettingsFields
    BY <1>0 DEF Host!SaveManual
  <2> HIDE DEF set
  <2> QED BY <2>1, <2>2, ChangeKeeps
<1>8. \/ \E list \in Reports : Host!ServiceReports(list)
      \/ \E a \in DOMAIN services : Host!ManualFound(a) \/ \E host \in {a, Host!Nowhere} : Host!ManualTells(a, host)
      \/ \E name : Host!AutoConnectPsn(name) \/ Host!WakingEnds(name)
      \/ (Host!WorkerListed \/ Host!WorkerTells \/ Host!WorkerEnded \/ Host!HandleHosts) \/ Host!WorkerAdds
      \/ Host!Refresh \/ Host!SaveDue
  BY Zenon DEF Host!Others
<1> QED BY <1>1, <1>2, <1>3, <1>4, <1>5, <1>6, <1>7, <1>8

LEMMA HostsBegin ==
  ASSUME Host!Init \/ Host!AtRest
  PROVE  HostInv
<1>1. DOMAIN settings = SettingsFields
  BY DEF Host!Init, Host!AtRest, Host!Load, SettingsFields
<1>2. active \in [v4 : BOOLEAN, v6 : BOOLEAN]
  <2>1. CASE Host!Init
    BY <2>1 DEF Host!Init
  <2>2. CASE Host!AtRest
    <3>1. active = [v4 |-> FALSE, v6 |-> FALSE]
      BY <2>2 DEF Host!AtRest
    <3> QED BY <3>1
  <2> QED BY <2>1, <2>2
<1>3. CASE services = <<>>
  BY <1>1, <1>2, <1>3 DEF HostInv, Host!ServicesFollowSettings
<1>4. CASE active.v4 /\ services \in Host!Updated(settings, <<>>)
  <2>1. DOMAIN services \subseteq Host!Wanted(settings)
    BY <1>4, UpdatedAreWanted
  <2> QED BY <1>1, <1>2, <1>4, <2>1 DEF HostInv, Host!ServicesFollowSettings
<1> QED BY <1>3, <1>4 DEF Host!Init, Host!AtRest

LEMMA HostStep ==
  ASSUME HostInv, [Host!HostListNext]_hostVars
  PROVE  HostInv'
<1>1. CASE UNCHANGED hostVars
  BY <1>1, UnchangedHosts DEF hostVars
<1>2. CASE Host!HostListNext
  BY <1>2, UserChanges, OthersChange, Zenon DEF Host!HostListNext
<1> QED BY <1>1, <1>2

(* Only a manual host that is registered has a service, and none while discovery is off    *)
(* (HostList).                                                                         *)
THEOREM ServicesAsSet == MCSpec => []Host!ServicesFollowSettings
<1>1. MCInit => HostInv
  BY HostsBegin DEF MCInit, HostInit
<1>2. HostInv /\ [MCNext]_<<part, pacingVars, cloudVars, catalogVars, backVars, hostVars, syncVars, ctlVars, outVars, sendVars, videoVars, audioVars, nativeVars, appVars>> => HostInv'
  <2>1. ASSUME HostInv, [MCNext]_<<part, pacingVars, cloudVars, catalogVars, backVars, hostVars, syncVars, ctlVars, outVars, sendVars, videoVars, audioVars, nativeVars, appVars>>
        PROVE  HostInv'
    <3>1. [Host!HostListNext]_hostVars
      BY <2>1 DEF MCNext
    <3> QED BY <2>1, <3>1, HostStep
  <2> QED BY <2>1
<1>3. HostInv => Host!ServicesFollowSettings
  BY DEF HostInv
<1> QED BY <1>1, <1>2, <1>3, PTL DEF MCSpec

-----------------------------------------------------------------------------
(* A set of the first numbers can be put in order, by taking the largest away.           *)
InOrder(q, k) == \A i, j \in 1 .. k : i < j => q[i] < q[j]

LEMMA HostCounts == ASSUME NEW S PROVE Host!Cardinality(S) = Cardinality(S)
BY DEF Host!Cardinality, Cardinality

LEMMA OneMore ==
  ASSUME NEW n \in Nat, NEW S \in SUBSET (1 .. n), IsFiniteSet(S), NEW q \in [1 .. Cardinality(S) -> S],
         InOrder(q, Cardinality(S)), NEW T, T = S \cup {n + 1}
  PROVE  IsFiniteSet(T) /\ \E r \in [1 .. Cardinality(T) -> T] : InOrder(r, Cardinality(T))
<1>1. n + 1 \notin S
  OBVIOUS
<1>2. IsFiniteSet(T) /\ Cardinality(T) = Cardinality(S) + 1 /\ Cardinality(S) \in Nat
  BY <1>1, FS_AddElement, FS_CardinalityType
<1> DEFINE c == Cardinality(S)
           r == [i \in 1 .. (c + 1) |-> IF i = c + 1 THEN n + 1 ELSE q[i]]
<1>3. c \in Nat /\ \A i \in 1 .. c : q[i] \in S /\ q[i] \in 1 .. n
  BY <1>2
<1>4. \A i, j \in 1 .. c : i < j => q[i] < q[j]
  BY DEF InOrder
<1> HIDE DEF c
<1>5. \A i \in 1 .. (c + 1) : i # c + 1 => i \in 1 .. c
  BY <1>3
<1>6. r \in [1 .. (c + 1) -> T]
  <2> SUFFICES ASSUME NEW i \in 1 .. (c + 1) PROVE r[i] \in T
    OBVIOUS
  <2>1. CASE i = c + 1
    BY <2>1
  <2>2. CASE i # c + 1
    BY <1>3, <1>5, <2>2
  <2> QED BY <2>1, <2>2
<1>7. InOrder(r, c + 1)
  <2> SUFFICES ASSUME NEW i \in 1 .. (c + 1), NEW j \in 1 .. (c + 1), i < j PROVE r[i] < r[j]
    BY DEF InOrder
  <2>1. i \in 1 .. c /\ r[i] = q[i]
    BY <1>3
  <2>2. CASE j = c + 1
    BY <1>3, <2>1, <2>2
  <2>3. CASE j # c + 1
    BY <1>4, <1>5, <2>1, <2>3
  <2> QED BY <2>2, <2>3
<1>8. Cardinality(T) = c + 1
  BY <1>2 DEF c
<1> HIDE DEF r
<1> QED BY <1>2, <1>6, <1>7, <1>8

LEMMA FirstCanBeOrdered ==
  ASSUME NEW n \in Nat, NEW S \in SUBSET (1 .. n)
  PROVE  IsFiniteSet(S) /\ \E q \in [1 .. Cardinality(S) -> S] : InOrder(q, Cardinality(S))
<1> DEFINE Fine(m) == \A X \in SUBSET (1 .. m) : IsFiniteSet(X) /\ \E q \in [1 .. Cardinality(X) -> X] : InOrder(q, Cardinality(X))
           Wrong == {m \in Nat : ~Fine(m)}
<1>1. SUFFICES ASSUME Wrong # {} PROVE FALSE
  OBVIOUS
<1>2. PICK m \in Wrong : \A k \in Wrong : m <= k
  <2>1. Wrong \in SUBSET Nat
    OBVIOUS
  <2> HIDE DEF Wrong
  <2> QED BY <1>1, <2>1, LeastExists
<1>3. m # 0
  <2> SUFFICES ASSUME m = 0 PROVE FALSE
    OBVIOUS
  <2>1. PICK X \in SUBSET (1 .. 0) : ~(IsFiniteSet(X) /\ \E q \in [1 .. Cardinality(X) -> X] : InOrder(q, Cardinality(X)))
    OBVIOUS
  <2>2. X = {} /\ IsFiniteSet(X) /\ Cardinality(X) = 0
    <3>1. 1 .. 0 = {}
      OBVIOUS
    <3>2. X = {}
      BY <3>1
    <3> QED BY <3>2, FS_EmptySet
  <2> DEFINE q == [i \in 1 .. 0 |-> 0]
  <2>3. 1 .. 0 = {} /\ q \in [1 .. 0 -> {}] /\ InOrder(q, 0)
    BY DEF InOrder
  <2>4. q \in [1 .. Cardinality(X) -> X] /\ InOrder(q, Cardinality(X))
    BY <2>2, <2>3
  <2> HIDE DEF q
  <2> QED BY <2>1, <2>2, <2>4
<1>4. m - 1 \in Nat /\ Fine(m - 1)
  <2> HIDE DEF Fine
  <2>1. m - 1 \in Nat /\ m - 1 \notin Wrong
    BY <1>2, <1>3
  <2> QED BY <2>1
<1>5. PICK X \in SUBSET (1 .. m) : ~(IsFiniteSet(X) /\ \E q \in [1 .. Cardinality(X) -> X] : InOrder(q, Cardinality(X)))
  <2>1. ~Fine(m)
    <3> HIDE DEF Fine
    <3> QED BY <1>2
  <2> QED BY <2>1, Zenon
<1>6. m \in Nat /\ (m - 1) + 1 = m
  BY <1>2
<1>7. m \in X
  <2> SUFFICES ASSUME m \notin X PROVE FALSE
    OBVIOUS
  <2>1. X \in SUBSET (1 .. (m - 1))
    BY <1>6
  <2> QED BY <1>4, <1>5, <2>1
<1> DEFINE Y == X \ {m}
<1>8. Y \in SUBSET (1 .. (m - 1)) /\ X = Y \cup {(m - 1) + 1}
  BY <1>6, <1>7
<1>9. IsFiniteSet(Y) /\ \E q \in [1 .. Cardinality(Y) -> Y] : InOrder(q, Cardinality(Y))
  BY <1>4, <1>8
<1> HIDE DEF Y, Fine
<1>10. PICK q \in [1 .. Cardinality(Y) -> Y] : InOrder(q, Cardinality(Y))
  BY <1>9
<1>11. IsFiniteSet(X) /\ \E r \in [1 .. Cardinality(X) -> X] : InOrder(r, Cardinality(X))
  BY <1>4, <1>8, <1>9, <1>10, OneMore
<1> QED BY <1>5, <1>11

LEMMA OrderedIs ==
  ASSUME NEW n \in Nat, NEW S \in SUBSET (1 .. n)
  PROVE  /\ IsFiniteSet(S) /\ Cardinality(S) \in Nat /\ Host!Ordered(S) \in [1 .. Cardinality(S) -> S]
         /\ InOrder(Host!Ordered(S), Cardinality(S))
<1>1. IsFiniteSet(S) /\ \E q \in [1 .. Cardinality(S) -> S] : InOrder(q, Cardinality(S))
  BY FirstCanBeOrdered
<1>2. Host!Ordered(S) = CHOOSE q \in [1 .. Cardinality(S) -> S] : InOrder(q, Cardinality(S))
  BY HostCounts DEF Host!Ordered, InOrder
<1> QED BY <1>1, <1>2, FS_CardinalityType

(* The first numbers are in order as they are.                                           *)
LEMMA OrderedFirst ==
  ASSUME NEW n \in Nat
  PROVE  Host!Ordered(1 .. n) = [i \in 1 .. n |-> i]
<1> DEFINE q == Host!Ordered(1 .. n)
<1>1. Cardinality(1 .. n) = n
  BY FS_Interval
<1>2. q \in [1 .. n -> 1 .. n] /\ \A i, j \in 1 .. n : i < j => q[i] < q[j]
  BY <1>1, OrderedIs DEF InOrder
<1> HIDE DEF q
<1>3. \A i \in 1 .. n : q[i] \in 1 .. n
  BY <1>2
<1>4. ASSUME NEW i \in 1 .. n PROVE q[i] >= i
  <2> DEFINE Low == {k \in 1 .. n : q[k] < k}
  <2>1. SUFFICES ASSUME Low # {} PROVE FALSE
    BY <1>3
  <2>2. PICK k \in Low : \A l \in Low : k <= l
    <3>1. Low \in SUBSET Nat
      OBVIOUS
    <3> HIDE DEF Low
    <3> QED BY <2>1, <3>1, LeastExists
  <2>3. k \in 1 .. n /\ q[k] < k /\ k > 1
    BY <1>3, <2>2
  <2>4. k - 1 \in 1 .. n /\ k - 1 \notin Low
    BY <2>2, <2>3
  <2>5. q[k - 1] >= k - 1 /\ q[k - 1] < q[k]
    BY <1>2, <1>3, <2>3, <2>4
  <2> QED BY <1>3, <2>3, <2>4, <2>5
<1>5. ASSUME NEW i \in 1 .. n PROVE q[i] <= i
  <2> DEFINE High == {k \in 0 .. (n - 1) : q[n - k] > n - k}
  <2>1. SUFFICES ASSUME High # {} PROVE FALSE
    <3>1. n - i \in 0 .. (n - 1) /\ n - (n - i) = i
      OBVIOUS
    <3>2. n - i \notin High => q[i] <= i
      BY <1>3, <3>1
    <3> QED BY <3>2
  <2>2. PICK k \in High : \A l \in High : k <= l
    <3>1. High \in SUBSET Nat
      OBVIOUS
    <3> HIDE DEF High
    <3> QED BY <2>1, <3>1, LeastExists
  <2>3. k \in 0 .. (n - 1) /\ q[n - k] > n - k /\ n - k \in 1 .. n
    BY <2>2
  <2>4. k # 0
    BY <1>3, <2>3
  <2>5. k - 1 \in 0 .. (n - 1) /\ k - 1 \notin High /\ n - (k - 1) = n - k + 1 /\ n - k + 1 \in 1 .. n
    BY <2>2, <2>3, <2>4
  <2>6. q[n - k + 1] <= n - k + 1
    BY <1>3, <2>5
  <2>7. q[n - k] < q[n - k + 1]
    BY <1>2, <2>3, <2>5
  <2> QED BY <1>3, <2>3, <2>5, <2>6, <2>7
<1>6. \A i \in 1 .. n : q[i] = i
  BY <1>3, <1>4, <1>5
<1>7. q = [i \in 1 .. n |-> i]
  BY <1>2, <1>6
<1> QED BY <1>7 DEF q

(* A function of the first numbers is a sequence of what it is added of.                   *)
LEMMA FirstIsSeq ==
  ASSUME NEW k \in Nat, NEW f, f = [i \in 1 .. k |-> f[i]], NEW T, \A i \in 1 .. k : f[i] \in T
  PROVE  f \in Seq(T) /\ Len(f) = k
<1>1. f \in [1 .. k -> T]
  OBVIOUS
<1> QED BY <1>1

LEMMA ThreeJoined ==
  ASSUME NEW k \in Nat, NEW l \in Nat, NEW m \in Nat, NEW a, NEW b, NEW c,
         a = [i \in 1 .. k |-> a[i]], b = [i \in 1 .. l |-> b[i]], c = [i \in 1 .. m |-> c[i]]
  PROVE  /\ DOMAIN (a \o b \o c) = 1 .. (k + l + m)
         /\ \A i \in 1 .. (k + l + m) :
              (a \o b \o c)[i] = IF i <= k THEN a[i] ELSE IF i <= k + l THEN b[i - k] ELSE c[i - k - l]
<1> DEFINE T == {a[i] : i \in 1 .. k} \cup {b[i] : i \in 1 .. l} \cup {c[i] : i \in 1 .. m}
<1>1. /\ \A i \in 1 .. k : a[i] \in T
      /\ \A i \in 1 .. l : b[i] \in T
      /\ \A i \in 1 .. m : c[i] \in T
  OBVIOUS
<1> HIDE DEF T
<1>2. a \in Seq(T) /\ Len(a) = k
  BY <1>1, FirstIsSeq
<1>3. b \in Seq(T) /\ Len(b) = l
  BY <1>1, FirstIsSeq
<1>4. c \in Seq(T) /\ Len(c) = m
  BY <1>1, FirstIsSeq
<1> DEFINE ab == a \o b
<1>5. /\ ab \in Seq(T) /\ Len(ab) = k + l
      /\ \A i \in 1 .. (k + l) : ab[i] = IF i <= k THEN a[i] ELSE b[i - k]
  BY ONLY <1>2, <1>3, ConcatProperties
<1> HIDE DEF ab
<1>6. /\ ab \o c \in Seq(T) /\ Len(ab \o c) = k + l + m
      /\ \A i \in 1 .. (k + l + m) : (ab \o c)[i] = IF i <= k + l THEN ab[i] ELSE c[i - (k + l)]
  <2>1. ab \in Seq(T) /\ c \in Seq(T)
    BY <1>4, <1>5
  <2>2. /\ ab \o c \in Seq(T) /\ Len(ab \o c) = Len(ab) + Len(c)
        /\ \A i \in 1 .. Len(ab) + Len(c) : (ab \o c)[i] = IF i <= Len(ab) THEN ab[i] ELSE c[i - Len(ab)]
    BY ONLY <2>1, ConcatProperties
  <2>3. Len(ab) = k + l /\ Len(c) = m
    BY ONLY <1>4, <1>5
  <2> QED BY ONLY <2>2, <2>3
<1>7. DOMAIN (ab \o c) = 1 .. (k + l + m)
  BY ONLY <1>6, LenProperties
<1>8. ASSUME NEW i \in 1 .. (k + l + m)
      PROVE  (ab \o c)[i] = IF i <= k THEN a[i] ELSE IF i <= k + l THEN b[i - k] ELSE c[i - k - l]
  <2>1. CASE i <= k + l
    <3>1. i \in 1 .. (k + l) /\ (ab \o c)[i] = ab[i]
      BY <1>6, <2>1
    <3> QED BY <1>5, <2>1, <3>1
  <2>2. CASE ~(i <= k + l)
    <3>1. (ab \o c)[i] = c[i - (k + l)] /\ i - (k + l) = i - k - l /\ ~(i <= k)
      BY <1>6, <2>2
    <3> QED BY <2>2, <3>1
  <2> QED BY <2>1, <2>2
<1> QED BY <1>7, <1>8 DEF ab

LEMMA EntriesAre ==
  ASSUME NEW n \in Nat, NEW S \in SUBSET (1 .. n), NEW sort, NEW host
  PROVE  /\ Cardinality(S) \in Nat /\ DOMAIN Host!Entries(sort, host, S) = 1 .. Cardinality(S)
         /\ Host!Entries(sort, host, S) = [i \in 1 .. Cardinality(S) |-> Host!Entries(sort, host, S)[i]]
         /\ \A i \in 1 .. Cardinality(S) :
              Host!Ordered(S)[i] \in S /\ Host!Entries(sort, host, S)[i] = <<sort, host[Host!Ordered(S)[i]]>>
<1>1. Cardinality(S) \in Nat /\ Host!Ordered(S) \in [1 .. Cardinality(S) -> S]
  BY OrderedIs
<1>2. DOMAIN Host!Ordered(S) = 1 .. Cardinality(S)
  BY <1>1
<1> QED BY <1>1, <1>2 DEF Host!Entries, Host!Key

(* Any finite set can be added a sequence.                                              *)
LEMMA ASequenceOf ==
  ASSUME NEW S, IsFiniteSet(S)
  PROVE  Cardinality(S) \in Nat /\ Host!SetToSeq(S) \in [1 .. Cardinality(S) -> S]
<1>1. PICK n \in Nat : ExistsBijection(1 .. n, S)
  BY FS_NatBijection
<1>2. Cardinality(S) = n
  BY <1>1, FS_CountingElements
<1>3. PICK f \in [1 .. n -> S] : \A a, b \in 1 .. n : f[a] = f[b] => a = b
  <2>1. \E f : f \in Bijection(1 .. n, S)
    BY <1>1 DEF ExistsBijection
  <2>2. PICK f : f \in Bijection(1 .. n, S)
    BY <2>1
  <2>3. f \in [1 .. n -> S] /\ \A a, b \in 1 .. n : f[a] = f[b] => a = b
    BY <2>2 DEF Bijection, Injection, IsInjective
  <2> QED BY <2>3
<1>4. Host!SetToSeq(S) = CHOOSE q \in [1 .. n -> S] : \A a, b \in DOMAIN q : q[a] = q[b] => a = b
  BY <1>2, HostCounts DEF Host!SetToSeq, Host!IsInjective
<1>5. \E q \in [1 .. n -> S] : \A a, b \in DOMAIN q : q[a] = q[b] => a = b
  BY <1>3
<1> DEFINE Fit(q) == \A a, b \in DOMAIN q : q[a] = q[b] => a = b
<1>6. (CHOOSE q \in [1 .. n -> S] : Fit(q)) \in [1 .. n -> S]
  <2>1. \E q \in [1 .. n -> S] : Fit(q)
    BY <1>5
  <2> HIDE DEF Fit
  <2> QED BY <2>1
<1> QED BY <1>2, <1>4, <1>6

-----------------------------------------------------------------------------
(* What is reported are sequences, and the manual hosts are numbered from 1 on.            *)
ListsOf == Addresses \cup {Host!Nowhere}
HasNumber(host) == "id" \in DOMAIN host /\ (host.id = -1 \/ host.id \in Nat \ {0})
NumbersAreSound(set) == set.next \in Nat /\ \E n \in Nat : DOMAIN set.manual \subseteq 1 .. n
ListsAreSound ==
  /\ hosts \in Seq(ListsOf) /\ queue \in Seq(Seq(ListsOf)) /\ profile \in 1 .. Len(Switches)
  /\ NumbersAreSound(settings) /\ HasNumber(dialog.manual) /\ HasNumber(due) /\ DOMAIN hostShown \subseteq Nat
(* What is shown is found at its place again, unless something was left out or the list     *)
(* has changed.                                                                      *)
ShownIsFound ==
  /\ ~stale /\ ~moved /\ ~leftOut => \A i \in DOMAIN hostShown : hostShown[i] = Host!ServerAt(i)
  /\ Host!ActsOnWhatIsShown
ListedInv == HostInv /\ ListsAreSound /\ ShownIsFound

LEMMA WantedAreFinite ==
  ASSUME HostInv, ListsAreSound
  PROVE  IsFiniteSet(DOMAIN services)
<1>1. PICK n \in Nat : DOMAIN settings.manual \subseteq 1 .. n
  BY DEF ListsAreSound, NumbersAreSound
<1> DEFINE ids == {i \in DOMAIN settings.manual : settings.manual[i].mac \in settings.registered}
           f == [id \in ids |-> settings.manual[id].addr]
           W == {settings.manual[id].addr : id \in ids}
<1>2. IsFiniteSet(1 .. n) /\ ids \in SUBSET (1 .. n)
  BY <1>1, FS_Interval
<1>3. IsFiniteSet(ids)
  BY <1>2, FS_Subset
<1>4. f \in Surjection(ids, W)
  BY DEF Surjection
<1> HIDE DEF f
<1>5. IsFiniteSet(W)
  <2> HIDE DEF ids, W
  <2> QED BY <1>3, <1>4, FS_Surjection
<1>6. DOMAIN services \subseteq W
  BY DEF HostInv, Host!ServicesFollowSettings, Host!Wanted
<1> HIDE DEF W
<1> QED BY <1>5, <1>6, FS_Subset

LEMMA DiscoveredIs ==
  ASSUME HostInv, ListsAreSound
  PROVE  \E n \in Nat : DOMAIN Host!Discovered = 1 .. n /\ Len(Host!Discovered) = n
<1> DEFINE extra == {a \in Host!Found(services) : services[a].host \notin Host!ToSet(hosts)}
           order == Host!SetToSeq(extra)
           more == [i \in DOMAIN order |-> services[order[i]].host]
           T == ListsOf \cup {more[i] : i \in DOMAIN more}
<1>1. extra \in SUBSET DOMAIN services
  BY DEF Host!Found
<1>2. IsFiniteSet(extra)
  BY <1>1, WantedAreFinite, FS_Subset
<1>3. Cardinality(extra) \in Nat /\ DOMAIN order = 1 .. Cardinality(extra)
  <2> HIDE DEF extra
  <2>1. Cardinality(extra) \in Nat /\ order \in [1 .. Cardinality(extra) -> extra]
    BY <1>2, ASequenceOf
  <2> QED BY <2>1
<1>4. Host!Discovered = hosts \o more
  BY DEF Host!Discovered
<1> HIDE DEF order
<1>5. DOMAIN more = 1 .. Cardinality(extra)
  BY <1>3
<1>6. more \in Seq(T)
  <2>1. \A i \in 1 .. Cardinality(extra) : more[i] \in T
    BY <1>5
  <2>2. more = [i \in 1 .. Cardinality(extra) |-> more[i]]
    BY <1>3
  <2> HIDE DEF more, T, extra
  <2> QED BY <1>3, <2>1, <2>2, FirstIsSeq
<1>7. hosts \in Seq(T)
  <2>1. hosts \in Seq(ListsOf) /\ ListsOf \subseteq T
    BY DEF ListsAreSound
  <2> HIDE DEF T
  <2> QED BY <2>1
<1> HIDE DEF more, T
<1>8. hosts \o more \in Seq(T)
  BY ONLY <1>6, <1>7, ConcatProperties
<1>9. Len(hosts \o more) \in Nat /\ DOMAIN (hosts \o more) = 1 .. Len(hosts \o more)
  BY ONLY <1>8, LenProperties
<1> QED BY <1>4, <1>9

LEMMA PsnNamesAre ==
  \E n \in Nat : DOMAIN Host!PsnNames = 1 .. n /\ \A i \in 1 .. n : Host!PsnNames[i] \in psn.hosts
<1> DEFINE all == Append(HostDevices, Host!Main)
           n == Len(HostDevices) + 1
           here == {i \in DOMAIN all : all[i] \in psn.hosts}
           known == Host!Ordered(here)
<1>1. n \in Nat /\ DOMAIN all = 1 .. n
  <2>1. HostDevices \in Seq(HostConsoles)
    BY HostAssumption
  <2> DEFINE T == HostConsoles \cup {Host!Main}
  <2>2. HostDevices \in Seq(T) /\ Host!Main \in T
    BY <2>1
  <2> HIDE DEF T
  <2>3. Append(HostDevices, Host!Main) \in Seq(T) /\ Len(Append(HostDevices, Host!Main)) = Len(HostDevices) + 1
    BY ONLY <2>2, AppendProperties
  <2>4. Len(HostDevices) \in Nat
    BY <2>1
  <2> QED BY <2>3, <2>4, LenProperties
<1>2. here \in SUBSET (1 .. n)
  BY <1>1
<1>3. Host!PsnNames = [i \in DOMAIN known |-> all[known[i]]]
  BY DEF Host!PsnNames
<1> HIDE DEF here, n
<1>4. Cardinality(here) \in Nat /\ known \in [1 .. Cardinality(here) -> here]
  BY <1>1, <1>2, OrderedIs
<1> HIDE DEF known
<1>5. \A i \in 1 .. Cardinality(here) : all[known[i]] \in psn.hosts
  <2>1. \A j \in here : all[j] \in psn.hosts
    BY DEF here
  <2> QED BY <1>4, <2>1
<1> HIDE DEF all
<1>6. DOMAIN known = 1 .. Cardinality(here)
  BY <1>4
<1>7. DOMAIN Host!PsnNames = 1 .. Cardinality(here) /\ \A i \in 1 .. Cardinality(here) : Host!PsnNames[i] \in psn.hosts
  BY <1>3, <1>5, <1>6
<1> QED BY <1>4, <1>7

(* A list that leaves nothing out shows what is found at each place.                      *)
LEMMA ListedAreFound ==
  ASSUME HostInv, ListsAreSound, ~Host!LeavesOut, NEW i \in DOMAIN Host!Listed
  PROVE  Host!Listed[i] = Host!ServerAt(i)
<1> DEFINE M == DOMAIN settings.manual
           away == Host!Away(Host!Macs)
<1>1. PICK n \in Nat : DOMAIN Host!Discovered = 1 .. n /\ Len(Host!Discovered) = n
  BY DiscoveredIs
<1>2. PICK m \in Nat : M \subseteq 1 .. m
  BY DEF ListsAreSound, NumbersAreSound
<1>3. PICK k \in Nat : DOMAIN Host!PsnNames = 1 .. k
  BY PsnNamesAre
<1> DEFINE a == Host!Entries("discovered", Host!Discovered, 1 .. n)
           b == Host!Entries("manual", [id \in M |-> id], M)
           c == Host!Entries("psn", Host!PsnNames, away)
<1>4. Host!Listed = a \o b \o c
  BY <1>1 DEF Host!Listed, Host!LeavesOut
<1>5. a = [j \in 1 .. n |-> a[j]] /\ \A j \in 1 .. n : a[j] = <<"discovered", Host!Discovered[j]>>
  <2> DEFINE S == 1 .. n
             e == Host!Entries("discovered", Host!Discovered, S)
  <2>1. Cardinality(S) = n /\ Host!Ordered(S) = [j \in 1 .. n |-> j] /\ S \in SUBSET (1 .. n)
    BY FS_Interval, OrderedFirst
  <2> HIDE DEF S
  <2>2. /\ e = [j \in 1 .. Cardinality(S) |-> e[j]]
        /\ \A j \in 1 .. Cardinality(S) : e[j] = <<"discovered", Host!Discovered[Host!Ordered(S)[j]]>>
    BY <2>1, EntriesAre
  <2> HIDE DEF e
  <2>3. e = [j \in 1 .. n |-> e[j]] /\ \A j \in 1 .. n : e[j] = <<"discovered", Host!Discovered[j]>>
    BY <2>1, <2>2
  <2> QED BY <2>3 DEF e, S
<1>6. /\ Cardinality(M) \in Nat /\ b = [j \in 1 .. Cardinality(M) |-> b[j]]
      /\ \A j \in 1 .. Cardinality(M) : b[j] = <<"manual", Host!Ids[j]>>
      /\ Len(Host!Ids) = Cardinality(M)
  <2> DEFINE f == [id \in M |-> id]
             e == Host!Entries("manual", f, M)
  <2>1. M \in SUBSET (1 .. m) /\ Host!Ids = Host!Ordered(M)
    BY <1>2 DEF Host!Ids
  <2>2. \A id \in M : f[id] = id
    OBVIOUS
  <2> HIDE DEF M, f
  <2>3. /\ Cardinality(M) \in Nat /\ e = [j \in 1 .. Cardinality(M) |-> e[j]]
        /\ \A j \in 1 .. Cardinality(M) : Host!Ordered(M)[j] \in M /\ e[j] = <<"manual", f[Host!Ordered(M)[j]]>>
    BY <2>1, EntriesAre
  <2>4. Host!Ordered(M) \in [1 .. Cardinality(M) -> M]
    BY <2>1, OrderedIs
  <2>5. Len(Host!Ids) = Cardinality(M)
    BY <2>1, <2>3, <2>4
  <2> HIDE DEF e
  <2>6. \A j \in 1 .. Cardinality(M) : e[j] = <<"manual", Host!Ids[j]>>
    BY <2>1, <2>2, <2>3
  <2> QED BY <2>3, <2>5, <2>6 DEF e, f
<1>7. Cardinality(away) \in Nat /\ c = [j \in 1 .. Cardinality(away) |-> c[j]] /\ DOMAIN c = 1 .. Cardinality(away)
  <2>1. away \in SUBSET (1 .. k)
    BY <1>3 DEF Host!Away
  <2> HIDE DEF away
  <2> QED BY <2>1, EntriesAre
<1>8. \A j : Host!RemoteAt(j) = IF j \in 1 .. Cardinality(away) THEN c[j] ELSE <<"none", Host!Nowhere>>
  <2>1. \A j : Host!RemoteAt(j) = IF j \in DOMAIN c THEN c[j] ELSE <<"none", Host!Nowhere>>
    BY DEF Host!RemoteAt, Host!Key
  <2> QED BY <1>7, <2>1
<1> HIDE DEF a, b, c
<1> DEFINE l == Cardinality(M)
           r == Cardinality(away)
<1>9. l \in Nat /\ r \in Nat
  BY <1>6, <1>7
<1> HIDE DEF M, away
<1>10. a = [j \in 1 .. n |-> a[j]] /\ b = [j \in 1 .. l |-> b[j]] /\ c = [j \in 1 .. r |-> c[j]]
  BY <1>5, <1>6, <1>7
<1> HIDE DEF l, r
<1>11. /\ DOMAIN (a \o b \o c) = 1 .. (n + l + r)
       /\ \A j \in 1 .. (n + l + r) :
            (a \o b \o c)[j] = IF j <= n THEN a[j] ELSE IF j <= n + l THEN b[j - n] ELSE c[j - n - l]
  BY <1>9, <1>10, ThreeJoined
<1>12. i \in 1 .. (n + l + r) /\ i \in Nat
  BY <1>4, <1>9, <1>11
<1>13. Host!Listed[i] = IF i <= n THEN a[i] ELSE IF i <= n + l THEN b[i - n] ELSE c[i - n - l]
  BY <1>4, <1>11, <1>12
<1>14. Host!ServerAt(i) = IF i - n <= 0 THEN <<"discovered", Host!Discovered[i]>>
                          ELSE IF i - n <= l THEN <<"manual", Host!Ids[i - n]>> ELSE Host!RemoteAt(i - n - l)
  <2>1. Len(Host!Ids) = l /\ Len(Host!Discovered) = n
    BY <1>1, <1>6 DEF l
  <2> DEFINE mm == i - n
  <2>2. mm \in Int
    BY <1>12
  <2>3. Host!ServerAt(i) = CASE mm <= 0 -> <<"discovered", Host!Discovered[i]>>
                             [] mm > 0 /\ mm <= l -> <<"manual", Host!Ids[mm]>>
                             [] OTHER -> Host!RemoteAt(mm - l)
    BY <2>1 DEF Host!ServerAt, Host!Key
  <2> HIDE DEF mm
  <2>4. Host!ServerAt(i) = IF mm <= 0 THEN <<"discovered", Host!Discovered[i]>>
                           ELSE IF mm <= l THEN <<"manual", Host!Ids[mm]>> ELSE Host!RemoteAt(mm - l)
    BY <1>9, <2>2, <2>3
  <2> QED BY <2>4 DEF mm
<1>15. CASE i <= n
  <2>1. Host!Listed[i] = a[i] /\ a[i] = <<"discovered", Host!Discovered[i]>>
    BY <1>5, <1>12, <1>13, <1>15
  <2>2. i - n <= 0
    BY <1>12, <1>15
  <2> QED BY <1>14, <2>1, <2>2
<1>16. CASE ~(i <= n) /\ i <= n + l
  <2>1. ~(i - n <= 0) /\ i - n <= l /\ i - n \in 1 .. l
    BY <1>9, <1>12, <1>16
  <2>2. b[i - n] = <<"manual", Host!Ids[i - n]>>
    BY <1>6, <2>1 DEF l
  <2> QED BY <1>13, <1>14, <1>16, <2>1, <2>2
<1>17. CASE ~(i <= n) /\ ~(i <= n + l)
  <2>1. ~(i - n <= 0) /\ ~(i - n <= l) /\ i - n - l \in 1 .. r
    BY <1>9, <1>12, <1>17
  <2>2. Host!RemoteAt(i - n - l) = c[i - n - l]
    BY <1>8, <2>1 DEF r
  <2> QED BY <1>13, <1>14, <1>17, <2>1, <2>2
<1> QED BY <1>15, <1>16, <1>17

LEMMA PlacesAreNumbers ==
  ASSUME HostInv, ListsAreSound
  PROVE  DOMAIN Host!Listed \subseteq Nat
<1> DEFINE found == Host!Seen
           untold == Host!Missed
           away == Host!Away(Host!NamedHere)
           f == [id \in untold |-> id]
<1>1. PICK n \in Nat : DOMAIN Host!Discovered = 1 .. n
  BY DiscoveredIs
<1>2. PICK m \in Nat : DOMAIN settings.manual \subseteq 1 .. m
  BY DEF ListsAreSound, NumbersAreSound
<1>3. PICK k \in Nat : DOMAIN Host!PsnNames = 1 .. k
  BY PsnNamesAre
<1>4. found \in SUBSET (1 .. n) /\ untold \in SUBSET (1 .. m) /\ away \in SUBSET (1 .. k)
  BY <1>1, <1>2, <1>3 DEF Host!Seen, Host!Missed, Host!Away
<1> DEFINE a == Host!Entries("discovered", Host!Discovered, found)
           b == Host!Entries("manual", f, untold)
           c == Host!Entries("psn", Host!PsnNames, away)
<1>5. Host!Listed = a \o b \o c
  BY DEF Host!Listed
<1> HIDE DEF found, untold, away, f
<1>6. Cardinality(found) \in Nat /\ a = [i \in 1 .. Cardinality(found) |-> a[i]]
  BY <1>4, EntriesAre
<1>7. Cardinality(untold) \in Nat /\ b = [i \in 1 .. Cardinality(untold) |-> b[i]]
  BY <1>4, EntriesAre
<1>8. Cardinality(away) \in Nat /\ c = [i \in 1 .. Cardinality(away) |-> c[i]]
  BY <1>4, EntriesAre
<1> HIDE DEF a, b, c
<1>9. DOMAIN (a \o b \o c) = 1 .. (Cardinality(found) + Cardinality(untold) + Cardinality(away))
  BY <1>6, <1>7, <1>8, ThreeJoined
<1> QED BY <1>5, <1>6, <1>7, <1>8, <1>9

(* Where no console found is of the account, each place is that among all of them.           *)
LEMMA AllAreAway ==
  ASSUME NEW i \in DOMAIN Host!PsnNames, Host!Macs \cap psn.hosts = {}
  PROVE  Host!RemoteAt(i) = Host!Key("psn", Host!PsnNames[i])
<1>1. PICK k \in Nat : DOMAIN Host!PsnNames = 1 .. k /\ \A j \in 1 .. k : Host!PsnNames[j] \in psn.hosts
  BY PsnNamesAre
<1>2. Host!Away(Host!Macs) = 1 .. k
  BY <1>1 DEF Host!Away
<1> DEFINE S == Host!Away(Host!Macs)
<1>3. Cardinality(S) = k /\ Host!Ordered(S) = [j \in 1 .. k |-> j] /\ S \in SUBSET (1 .. k)
  BY <1>2, FS_Interval, OrderedFirst
<1> HIDE DEF S
<1> DEFINE e == Host!Entries("psn", Host!PsnNames, S)
<1>4. /\ DOMAIN e = 1 .. Cardinality(S)
      /\ \A j \in 1 .. Cardinality(S) : e[j] = <<"psn", Host!PsnNames[Host!Ordered(S)[j]]>>
  BY <1>3, EntriesAre
<1> HIDE DEF e
<1>5. DOMAIN e = 1 .. k /\ \A j \in 1 .. k : e[j] = <<"psn", Host!PsnNames[j]>>
  BY <1>3, <1>4
<1> QED BY <1>1, <1>5 DEF Host!RemoteAt, Host!Key, S, e

-----------------------------------------------------------------------------
(* A saved host has a number, and so has any that is saved in its place.                  *)
LEMMA SavedAreNumbered ==
  ASSUME DOMAIN settings = SettingsFields, NumbersAreSound(settings), NEW host, HasNumber(host)
  PROVE  NumbersAreSound(Host!SaveManual(settings, host))
<1>1. PICK n \in Nat : DOMAIN settings.manual \subseteq 1 .. n
  BY DEF NumbersAreSound
<1> DEFINE id == IF host.id < 0 THEN settings.next + 1 ELSE host.id
           saved == [addr |-> host.addr, registered |-> host.registered, mac |-> host.mac]
           manual == [i \in DOMAIN settings.manual \cup {id} |-> IF i = id THEN saved ELSE settings.manual[i]]
           set == Host!SaveManual(settings, host)
<1>2. id \in Nat \ {0} /\ settings.next \in Nat
  BY DEF NumbersAreSound, HasNumber
<1>3. set = [settings EXCEPT !.manual = manual, !.next = IF host.id < 0 THEN @ + 1 ELSE @]
  BY DEF Host!SaveManual
<1> HIDE DEF manual, set, id
<1>4. set.manual = manual /\ set.next = IF host.id < 0 THEN settings.next + 1 ELSE settings.next
  BY <1>3 DEF SettingsFields
<1>5. DOMAIN manual = DOMAIN settings.manual \cup {id}
  BY DEF manual
<1> DEFINE m == IF id > n THEN id ELSE n
<1>6. m \in Nat /\ n <= m /\ id \in 1 .. m
  BY <1>2
<1> HIDE DEF m
<1>7. DOMAIN manual \subseteq 1 .. m
  BY <1>1, <1>5, <1>6
<1> QED BY <1>2, <1>4, <1>6, <1>7 DEF NumbersAreSound, set

(* What the window finds at a place or shows is never numbered otherwise.                  *)
LEMMA PickedIsNumbered ==
  ASSUME HostInv, ListsAreSound, NEW i, NEW id \in Host!ManualAt(Host!ServerAt(i)), i \in Nat
  PROVE  id \in Nat \ {0}
<1>1. PICK n \in Nat : DOMAIN settings.manual \subseteq 1 .. n
  BY DEF ListsAreSound, NumbersAreSound
<1>2. CASE id \in DOMAIN settings.manual
  BY <1>1, <1>2
<1>3. CASE id \notin DOMAIN settings.manual
  <2>1. Host!ServerAt(i)[1] = "manual" /\ id = Host!ServerAt(i)[2]
    BY <1>3 DEF Host!ManualAt, Host!ManualOf
  <2> DEFINE M == DOMAIN settings.manual
             m == i - Len(Host!Discovered)
  <2>2. Host!Ids = Host!Ordered(M) /\ M \in SUBSET (1 .. n)
    BY <1>1 DEF Host!Ids
  <2> HIDE DEF M
  <2>3. Host!Ids \in [1 .. Cardinality(M) -> M] /\ Cardinality(M) \in Nat
    BY <2>2, OrderedIs
  <2>4. Len(Host!Ids) = Cardinality(M)
    BY <2>3
  <2>5. \A j : Host!RemoteAt(j)[1] # "manual"
    <3> SUFFICES ASSUME NEW j PROVE Host!RemoteAt(j)[1] # "manual"
      OBVIOUS
    <3> DEFINE away == Host!Away(Host!Macs)
               c == Host!Entries("psn", Host!PsnNames, away)
    <3>1. PICK k \in Nat : DOMAIN Host!PsnNames = 1 .. k
      BY PsnNamesAre
    <3>2. away \in SUBSET (1 .. k)
      BY <3>1 DEF Host!Away
    <3>3. \A l \in DOMAIN c : c[l] = <<"psn", Host!PsnNames[Host!Ordered(away)[l]]>>
      <4> HIDE DEF away
      <4>1. /\ DOMAIN c = 1 .. Cardinality(away)
            /\ \A l \in 1 .. Cardinality(away) : c[l] = <<"psn", Host!PsnNames[Host!Ordered(away)[l]]>>
        BY <3>2, EntriesAre
      <4> HIDE DEF c
      <4> QED BY <4>1
    <3> HIDE DEF c
    <3>4. Host!RemoteAt(j) = IF j \in DOMAIN c THEN c[j] ELSE <<"none", Host!Nowhere>>
      BY DEF Host!RemoteAt, Host!Key, c
    <3> QED BY <3>3, <3>4
  <2>6. PICK d \in Nat : Len(Host!Discovered) = d
    BY DiscoveredIs
  <2>7. m \in Int
    BY <2>6
  <2>8. Host!ServerAt(i) = CASE m <= 0 -> <<"discovered", Host!Discovered[i]>>
                             [] m > 0 /\ m <= Len(Host!Ids) -> <<"manual", Host!Ids[m]>>
                             [] OTHER -> Host!RemoteAt(m - Len(Host!Ids))
    BY DEF Host!ServerAt, Host!Key
  <2> HIDE DEF m
  <2>9. CASE m <= 0
    <3>1. Host!ServerAt(i) = <<"discovered", Host!Discovered[i]>>
      BY <2>7, <2>8, <2>9
    <3> QED BY <2>1, <3>1
  <2>10. CASE m > 0 /\ m <= Len(Host!Ids)
    <3>1. ~(m <= 0)
      BY <2>7, <2>10
    <3>2. Host!ServerAt(i) = <<"manual", Host!Ids[m]>>
      BY <2>8, <2>10, <3>1
    <3>3. id = Host!Ids[m] /\ m \in 1 .. Cardinality(M)
      BY <2>1, <2>4, <2>7, <2>10, <3>2
    <3>4. id \in M
      BY <2>3, <3>3
    <3> QED BY <1>3, <3>4 DEF M
  <2>11. CASE ~(m <= 0) /\ ~(m > 0 /\ m <= Len(Host!Ids))
    <3>1. Host!ServerAt(i) = Host!RemoteAt(m - Len(Host!Ids))
      BY <2>8, <2>11
    <3> QED BY <2>1, <2>5, <3>1
  <2> QED BY <2>9, <2>10, <2>11
<1> QED BY <1>2, <1>3

-----------------------------------------------------------------------------
(* Manual hosts that stay or go leave the numbers as they are.                            *)
LEMMA FewerAreNumbered ==
  ASSUME NEW old, NEW new, NumbersAreSound(old), new.next = old.next, DOMAIN new.manual \subseteq DOMAIN old.manual
  PROVE  NumbersAreSound(new)
BY DEF NumbersAreSound

LEMMA UserKeepsLists ==
  ASSUME HostInv, ListsAreSound, Host!User
  PROVE  ListsAreSound'
<1> USE DEF Host!settingsVars, Host!listVars, Host!psnVars, Host!windowVars
<1>0. DOMAIN settings = SettingsFields /\ NumbersAreSound(settings)
  BY DEF HostInv, ListsAreSound
<1> DEFINE Else == UNCHANGED <<hosts, queue, profile, dialog, due, hostShown>>
<1>a. ASSUME Else, NumbersAreSound(settings') PROVE ListsAreSound'
  BY <1>a DEF ListsAreSound, HasNumber, NumbersAreSound
<1>b. ASSUME Host!Change(settings'), NumbersAreSound(settings'), UNCHANGED <<dialog, due>>
      PROVE  ListsAreSound'
  BY <1>a, <1>b DEF Host!Change
<1>c. ASSUME NEW mac PROVE NumbersAreSound(Host!AddRegistered(settings, mac))
  <2> DEFINE set == Host!AddRegistered(settings, mac)
  <2>1. set.next = settings.next /\ set.manual = settings.manual
    BY <1>0 DEF Host!AddRegistered, SettingsFields
  <2> HIDE DEF set
  <2>2. NumbersAreSound(set)
    BY <1>0, <2>1, FewerAreNumbered
  <2> QED BY <2>2 DEF set
<1>1. ASSUME NEW i \in DOMAIN hostShown, Host!Connect(i)
      PROVE  ListsAreSound'
  <2>1. UNCHANGED <<hosts, queue, profile, settings, due, hostShown>>
    BY <1>1 DEF Host!Connect
  <2>2. HasNumber(dialog'.manual)
    <3>1. CASE dialog' = dialog
      BY <3>1 DEF ListsAreSound
    <3>2. CASE \E d, m : dialog' = [discovered |-> d, mac |-> m, manual |-> Host!NoHost]
      BY <3>2 DEF HasNumber, Host!NoHost
    <3>3. ASSUME NEW d, NEW m, Host!ManualAt(Host!ServerAt(i)) # {},
                 dialog' = [discovered |-> d, mac |-> m, manual |->
                   LET id == CHOOSE n \in Host!ManualAt(Host!ServerAt(i)) : TRUE
                       host == settings.manual[id]
                   IN  [id |-> id, addr |-> host.addr, registered |-> host.registered, mac |-> host.mac]]
          PROVE  HasNumber(dialog'.manual)
      <4> DEFINE id == CHOOSE n \in Host!ManualAt(Host!ServerAt(i)) : TRUE
      <4>1. id \in Host!ManualAt(Host!ServerAt(i))
        BY <3>3
      <4>2. dialog'.manual.id = id /\ "id" \in DOMAIN dialog'.manual
        BY <3>3
      <4> HIDE DEF id
      <4>3. id \in Nat \ {0}
        <5>1. i \in Nat
          BY DEF ListsAreSound
        <5> QED BY <4>1, <5>1, PickedIsNumbered
      <4> QED BY <4>2, <4>3 DEF HasNumber
    <3>4. \/ dialog' = dialog
          \/ \E d, m : dialog' = [discovered |-> d, mac |-> m, manual |-> Host!NoHost]
          \/ /\ Host!ManualAt(Host!ServerAt(i)) # {}
             /\ \E d, m : dialog' = [discovered |-> d, mac |-> m, manual |->
                   LET id == CHOOSE n \in Host!ManualAt(Host!ServerAt(i)) : TRUE
                       host == settings.manual[id]
                   IN  [id |-> id, addr |-> host.addr, registered |-> host.registered, mac |-> host.mac]]
      <4> DEFINE server == Host!ServerAt(i)
      <4>1. CASE ~(server[1] # "none" /\ ~Host!IsRegistered(server))
        BY <1>1, <4>1 DEF Host!Connect
      <4>2. CASE server[1] # "none" /\ ~Host!IsRegistered(server)
        <5>1. dialog' = [discovered |-> server[1] = "discovered", mac |-> Host!MacAt(server),
                          manual |-> IF Host!ManualAt(server) = {} THEN Host!NoHost
                                     ELSE LET id == CHOOSE n \in Host!ManualAt(server) : TRUE
                                              host == settings.manual[id]
                                          IN [id |-> id, addr |-> host.addr, registered |-> host.registered, mac |-> host.mac]]
          BY <1>1, <4>2 DEF Host!Connect
        <5> HIDE DEF server
        <5>2. CASE Host!ManualAt(server) = {}
          BY <5>1, <5>2
        <5>3. CASE Host!ManualAt(server) # {}
          BY <5>1, <5>3, Zenon DEF server
        <5> QED BY <5>2, <5>3
      <4> QED BY <4>1, <4>2
    <3> QED BY <3>1, <3>2, <3>3, <3>4
  <2> QED BY <1>0, <2>1, <2>2 DEF ListsAreSound, HasNumber, NumbersAreSound
<1>2. ASSUME NEW i \in DOMAIN hostShown, Host!DeleteHost(i)
      PROVE  ListsAreSound'
  <2> DEFINE ids == Host!ManualAt(Host!ServerAt(i))
             manual == [id \in DOMAIN settings.manual \ ids |-> settings.manual[id]]
             set == [settings EXCEPT !.manual = manual]
  <2>1. CASE ids = {}
    BY <1>0, <1>2, <1>a, <2>1 DEF Host!DeleteHost
  <2>2. CASE ids # {}
    <3>1. Host!Change(set) /\ UNCHANGED <<dialog, due>>
      BY <1>2, <2>2 DEF Host!DeleteHost
    <3> HIDE DEF ids
    <3>2. set.next = settings.next /\ set.manual = manual /\ DOMAIN manual \subseteq DOMAIN settings.manual
      BY <1>0 DEF SettingsFields
    <3> HIDE DEF set, manual
    <3>3. NumbersAreSound(set)
      BY <1>0, <3>2, FewerAreNumbered
    <3>4. settings' = set
      BY <3>1 DEF Host!Change
    <3> QED BY <1>b, <3>1, <3>3, <3>4
  <2> QED BY <2>1, <2>2
<1>3. ASSUME NEW i \in DOMAIN hostShown, Host!SetConsolePin(i)
      PROVE  ListsAreSound'
  <2>1. CASE Host!ServerAt(i)[1] = "none"
    BY <1>0, <1>3, <1>a, <2>1 DEF Host!SetConsolePin
  <2>2. CASE Host!ServerAt(i)[1] # "none"
    <3>1. PICK mac : Host!Change(Host!AddRegistered(settings, mac)) /\ UNCHANGED <<dialog, due>>
      BY <1>3, <2>2 DEF Host!SetConsolePin
    <3>2. settings' = Host!AddRegistered(settings, mac)
      BY <3>1 DEF Host!Change
    <3> QED BY <1>b, <1>c, <3>1, <3>2
  <2> QED BY <2>1, <2>2
<1>4. ASSUME NEW a \in Entered, NEW mac, Host!AddManualHost(a, mac)
      PROVE  ListsAreSound'
  <2> DEFINE host == [Host!NoHost EXCEPT !.addr = a, !.registered = mac # Host!Nowhere, !.mac = mac]
  <2>1. Host!Change(Host!SaveManual(settings, host)) /\ UNCHANGED <<dialog, due>>
    BY <1>4 DEF Host!AddManualHost
  <2>2. HasNumber(host)
    BY DEF HasNumber, Host!NoHost
  <2> HIDE DEF host
  <2>3. NumbersAreSound(Host!SaveManual(settings, host)) /\ settings' = Host!SaveManual(settings, host)
    BY <1>0, <2>1, <2>2, SavedAreNumbered DEF Host!Change
  <2> QED BY <1>b, <2>1, <2>3
<1>5. ASSUME NEW mac, Host!Unregister(mac)
      PROVE  ListsAreSound'
  <2> DEFINE set == [settings EXCEPT !.registered = @ \ {mac}]
  <2>1. Host!Change(set) /\ UNCHANGED <<dialog, due>>
    BY <1>5 DEF Host!Unregister
  <2>2. set.next = settings.next /\ set.manual = settings.manual
    BY <1>0 DEF SettingsFields
  <2> HIDE DEF set
  <2>3. NumbersAreSound(set) /\ settings' = set
    BY <1>0, <2>1, <2>2, FewerAreNumbered DEF Host!Change
  <2> QED BY <1>b, <2>1, <2>3
<1>6. ASSUME NEW hidden, Host!Hide(hidden)
      PROVE  ListsAreSound'
  <2> DEFINE set == [settings EXCEPT !.hidden = hidden]
  <2>1. settings' = set /\ Else
    BY <1>6 DEF Host!Hide, Host!HiddenAs
  <2>2. set.next = settings.next /\ set.manual = settings.manual
    BY <1>0 DEF SettingsFields
  <2> HIDE DEF set
  <2>3. NumbersAreSound(set)
    BY <1>0, <2>2, FewerAreNumbered
  <2> QED BY <1>a, <2>1, <2>3
<1>7. ASSUME NEW c, NEW a, Host!Registered(c, a)
      PROVE  ListsAreSound'
  <2>1. settings' = Host!AddRegistered(settings, c) /\ UNCHANGED <<hosts, queue, profile, dialog, hostShown>>
    BY <1>7 DEF Host!Registered, Host!Change
  <2>2. due' = Host!NoHost \/ \E addr : due' = [dialog.manual EXCEPT !.addr = addr, !.registered = TRUE, !.mac = c]
    BY <1>7 DEF Host!Registered
  <2>3. HasNumber(due')
    <3>1. CASE due' = Host!NoHost
      BY <3>1 DEF HasNumber, Host!NoHost
    <3>2. ASSUME NEW addr, due' = [dialog.manual EXCEPT !.addr = addr, !.registered = TRUE, !.mac = c]
          PROVE  HasNumber(due')
      <4>1. HasNumber(dialog.manual)
        BY DEF ListsAreSound
      <4> QED BY <3>2, <4>1 DEF HasNumber
    <3> QED BY <2>2, <3>1, <3>2
  <2>4. NumbersAreSound(settings')
    BY <1>c, <2>1
  <2> QED BY <2>1, <2>3, <2>4 DEF ListsAreSound, HasNumber, NumbersAreSound
<1>8. ASSUME Host!AutoRegistered
      PROVE  ListsAreSound'
  <2>1. Host!Change(Host!AddRegistered(settings, dialog.mac)) /\ UNCHANGED <<dialog, due>>
    BY <1>8 DEF Host!AutoRegistered
  <2>2. settings' = Host!AddRegistered(settings, dialog.mac)
    BY <2>1 DEF Host!Change
  <2> QED BY <1>b, <1>c, <2>1, <2>2
<1>9. ASSUME Host!RegisterFails
      PROVE  ListsAreSound'
  <2>1. dialog' = Host!NoServer /\ UNCHANGED <<hosts, queue, profile, settings, due, hostShown>>
    BY <1>9 DEF Host!RegisterFails
  <2>2. HasNumber(dialog'.manual)
    BY <2>1 DEF HasNumber, Host!NoServer, Host!NoHost
  <2> QED BY <1>0, <2>1, <2>2 DEF ListsAreSound, HasNumber, NumbersAreSound
<1>10. ASSUME Host!UpdatePsnHosts \/ Host!Activate
       PROVE  ListsAreSound'
  <2>1. Else /\ settings' = settings
    BY <1>10 DEF Host!UpdatePsnHosts, Host!Activate
  <2> QED BY <1>0, <1>a, <2>1
<1>11. ASSUME Host!Deactivate
       PROVE  ListsAreSound'
  <2>1. hosts' = <<>> /\ UNCHANGED <<queue, profile, settings, dialog, due, hostShown>>
    BY <1>11 DEF Host!Deactivate
  <2>2. hosts' \in Seq(ListsOf)
    BY <2>1
  <2> QED BY <1>0, <2>1, <2>2 DEF ListsAreSound, HasNumber, NumbersAreSound, ListsOf
<1>12. ASSUME Host!ProfileChanged
       PROVE  ListsAreSound'
  <2>1. /\ profile < Len(Switches) /\ profile' = profile + 1 /\ settings' = Host!Load(Switches[profile + 1])
        /\ UNCHANGED <<hosts, queue, dialog, due, hostShown>>
    BY <1>12 DEF Host!ProfileChanged
  <2>2. profile' \in 1 .. Len(Switches)
    BY <2>1, HostAssumption DEF ListsAreSound
  <2>3. DOMAIN Switches[profile'].manual = 1 .. Len(Switches[profile'].manual)
    BY <2>2, HostAssumption
  <2> DEFINE manual == Switches[profile'].manual
  <2>4. settings'.manual = manual /\ settings'.next = Len(manual)
    BY <2>1 DEF Host!Load
  <2>5. Len(manual) \in Nat
    BY <2>2, HostAssumption
  <2> HIDE DEF manual
  <2>6. NumbersAreSound(settings')
    BY <2>3, <2>4, <2>5 DEF NumbersAreSound, manual
  <2> QED BY <2>1, <2>2, <2>6 DEF ListsAreSound, HasNumber, NumbersAreSound
<1>13. \/ \E i \in DOMAIN hostShown : Host!Connect(i) \/ Host!DeleteHost(i) \/ Host!SetConsolePin(i)
       \/ \E a \in Entered : \E mac : Host!AddManualHost(a, mac)
       \/ \E mac : Host!Unregister(mac) \/ Host!Hide(mac)
       \/ \E c, a : Host!Registered(c, a)
       \/ Host!AutoRegistered \/ Host!RegisterFails \/ (Host!UpdatePsnHosts \/ Host!Activate) \/ Host!Deactivate
       \/ Host!ProfileChanged
  BY Zenon DEF Host!User
<1> HIDE DEF Else
<1> QED BY <1>1, <1>2, <1>3, <1>4, <1>5, <1>6, <1>7, <1>8, <1>9, <1>10, <1>11, <1>12, <1>13

-----------------------------------------------------------------------------
LEMMA OthersKeepLists ==
  ASSUME HostInv, ListsAreSound, Host!Others
  PROVE  ListsAreSound'
<1> USE DEF Host!settingsVars, Host!listVars, Host!psnVars, Host!windowVars
<1>0. /\ DOMAIN settings = SettingsFields /\ NumbersAreSound(settings)
      /\ hosts \in Seq(ListsOf) /\ queue \in Seq(Seq(ListsOf))
  BY DEF HostInv, ListsAreSound
<1> DEFINE Rest == UNCHANGED <<profile, settings, dialog, due, hostShown>>
<1>a. ASSUME Rest, hosts' \in Seq(ListsOf), queue' \in Seq(Seq(ListsOf)) PROVE ListsAreSound'
  BY <1>a DEF ListsAreSound, HasNumber, NumbersAreSound, ListsOf
<1>b. ASSUME Rest, hosts' = hosts, NEW list \in Seq(ListsOf), queue' = Append(queue, list) PROVE ListsAreSound'
  <2> DEFINE S == Seq(ListsOf)
  <2>1. queue \in Seq(S) /\ list \in S
    BY <1>0
  <2> HIDE DEF S
  <2>2. Append(queue, list) \in Seq(S)
    BY <2>1, AppendProperties
  <2> QED BY <1>0, <1>a, <1>b, <2>2 DEF S
<1>c. Host!Told \in Seq(ListsOf)
  BY DEF Host!Told, ListsOf
<1>1. ASSUME NEW list \in Reports, Host!ServiceReports(list)
      PROVE  ListsAreSound'
  <2>1. list \in Seq(Addresses) /\ Addresses \subseteq ListsOf
    BY HostAssumption DEF ListsOf
  <2>2. list \in Seq(ListsOf)
    BY <2>1
  <2>3. Rest /\ hosts' = hosts /\ queue' = Append(queue, list)
    BY <1>1 DEF Host!ServiceReports
  <2> QED BY <1>b, <2>2, <2>3
<1>2. ASSUME NEW a, Host!ManualFound(a)
      PROVE  ListsAreSound'
  BY <1>0, <1>a, <1>2 DEF Host!ManualFound
<1>3. ASSUME NEW a, NEW host, Host!ManualTells(a, host)
      PROVE  ListsAreSound'
  BY <1>b, <1>c, <1>3 DEF Host!ManualTells
<1>4. ASSUME NEW name, Host!AutoConnectPsn(name) \/ Host!WakingEnds(name)
      PROVE  ListsAreSound'
  <2>1. Rest /\ hosts' = hosts /\ queue' = queue
    BY <1>4 DEF Host!AutoConnectPsn, Host!WakingEnds
  <2> QED BY <1>0, <1>a, <2>1
<1>5. ASSUME Host!WorkerListed \/ Host!WorkerEnded
      PROVE  ListsAreSound'
  <2>1. Rest /\ hosts' = hosts /\ queue' = queue
    BY <1>5 DEF Host!WorkerListed, Host!WorkerEnded
  <2> QED BY <1>0, <1>a, <2>1
<1>6. ASSUME Host!WorkerTells
      PROVE  ListsAreSound'
  BY <1>b, <1>c, <1>6 DEF Host!WorkerTells
<1>7. ASSUME Host!WorkerAdds
      PROVE  ListsAreSound'
  <2>1. \E name, known : Host!Adds(name, known)
    BY <1>7, Zenon DEF Host!WorkerAdds
  <2>2. Rest /\ hosts' = hosts /\ queue' = queue
    BY <1>7, <2>1 DEF Host!Adds, Host!WorkerAdds
  <2> QED BY <1>0, <1>a, <2>2
<1>8. ASSUME Host!HandleHosts
      PROVE  ListsAreSound'
  <2>1. queue # <<>> /\ queue' = Tail(queue) /\ hosts' = (IF Head(queue) = Host!Told THEN hosts ELSE Head(queue)) /\ Rest
    BY <1>8 DEF Host!HandleHosts
  <2> DEFINE S == Seq(ListsOf)
  <2>2. queue \in Seq(S) /\ hosts \in S
    BY <1>0
  <2> HIDE DEF S
  <2>3. Head(queue) \in S /\ Tail(queue) \in Seq(S)
    BY <2>1, <2>2, HeadTailProperties
  <2>4. hosts' \in S /\ queue' \in Seq(S)
    BY <2>1, <2>2, <2>3
  <2> QED BY <1>a, <2>1, <2>4 DEF S
<1>9. ASSUME Host!Refresh
      PROVE  ListsAreSound'
  <2> DEFINE unhidden == Host!Macs \cap settings.registered
  <2>1. /\ settings' = [settings EXCEPT !.hidden = @ \ unhidden, !.lastIp = Host!LastIps]
        /\ hostShown' = Host!Listed /\ UNCHANGED <<hosts, queue, profile, dialog, due>>
    BY <1>9 DEF Host!Refresh
  <2> HIDE DEF unhidden
  <2>2. settings'.manual = settings.manual /\ settings'.next = settings.next
    BY <1>0, <2>1 DEF SettingsFields
  <2>3. NumbersAreSound(settings')
    BY <1>0, <2>2, FewerAreNumbered
  <2>4. DOMAIN hostShown' \subseteq Nat
    BY <2>1, PlacesAreNumbers
  <2> QED BY <2>1, <2>3, <2>4 DEF ListsAreSound, HasNumber, NumbersAreSound, ListsOf
<1>10. ASSUME Host!SaveDue
       PROVE  ListsAreSound'
  <2>1. Host!Change(Host!SaveManual(settings, due)) /\ due' = Host!NoHost /\ dialog' = dialog
    BY <1>10 DEF Host!SaveDue
  <2>2. NumbersAreSound(Host!SaveManual(settings, due)) /\ settings' = Host!SaveManual(settings, due)
    BY <1>0, <2>1, SavedAreNumbered DEF Host!Change, ListsAreSound
  <2>3. HasNumber(due')
    BY <2>1 DEF HasNumber, Host!NoHost
  <2>4. UNCHANGED <<hosts, queue, profile, hostShown>>
    BY <2>1 DEF Host!Change
  <2>5. NumbersAreSound(settings')
    BY <2>2
  <2> QED BY <2>1, <2>3, <2>4, <2>5 DEF ListsAreSound, HasNumber, NumbersAreSound, ListsOf
<1>11. \/ \E list \in Reports : Host!ServiceReports(list)
       \/ \E a : Host!ManualFound(a)
       \/ \E a, host : Host!ManualTells(a, host)
       \/ \E name : Host!AutoConnectPsn(name) \/ Host!WakingEnds(name)
       \/ (Host!WorkerListed \/ Host!WorkerEnded) \/ Host!WorkerTells \/ Host!WorkerAdds \/ Host!HandleHosts
       \/ Host!Refresh \/ Host!SaveDue
  BY Zenon DEF Host!Others
<1> HIDE DEF Rest
<1> QED BY <1>1, <1>2, <1>3, <1>4, <1>5, <1>6, <1>7, <1>8, <1>9, <1>10, <1>11

-----------------------------------------------------------------------------
(* What is found at a place depends on the list, the manual hosts and the names alone.         *)
SamePlaces ==
  /\ Host!Discovered' = Host!Discovered /\ DOMAIN settings'.manual = DOMAIN settings.manual /\ psn'.hosts = psn.hosts
LEMMA SameAreFound ==
  ASSUME SamePlaces, NEW i
  PROVE  Host!ServerAt(i)' = Host!ServerAt(i)
<1>1. Host!Macs' = Host!Macs
  BY DEF SamePlaces, Host!Macs, Host!MacOf, Host!Nowhere
<1>2. Host!PsnNames' = Host!PsnNames
  BY DEF SamePlaces, Host!PsnNames, Host!Main
<1>3. Host!Away(Host!Macs)' = Host!Away(Host!Macs)
  BY <1>1, <1>2 DEF Host!Away
<1>4. \A j : Host!RemoteAt(j)' = Host!RemoteAt(j)
  BY <1>2, <1>3 DEF Host!RemoteAt, Host!Entries, Host!Key, Host!Nowhere
<1>5. Host!Ids' = Host!Ids
  BY DEF SamePlaces, Host!Ids
<1> QED BY <1>4, <1>5 DEF SamePlaces, Host!ServerAt, Host!Key

(* A service that has found nothing adds nothing to the list.                             *)
LEMMA UpdatedAreFound ==
  ASSUME HostInv, ListsAreSound, hosts' = hosts,
         services' \in Host!Updated(settings, services)
  PROVE  Host!Discovered' = Host!Discovered
<1> DEFINE kept == DOMAIN services \cap Host!Wanted(settings)
<1>1. DOMAIN services \subseteq Host!Wanted(settings)
  BY DEF HostInv, Host!ServicesFollowSettings
<1>2. PICK added \in SUBSET (Host!Wanted(settings) \ kept) :
        services' = [a \in kept \cup added |-> IF a \in kept THEN services[a] ELSE [found |-> FALSE, host |-> Host!Nowhere]]
  BY DEF Host!Updated
<1>3. kept = DOMAIN services
  BY <1>1
<1> HIDE DEF kept
<1>4. /\ DOMAIN services' = DOMAIN services \cup added /\ added \cap DOMAIN services = {}
      /\ \A a \in DOMAIN services : services'[a] = services[a]
      /\ \A a \in added : services'[a] = [found |-> FALSE, host |-> Host!Nowhere]
  BY <1>2, <1>3
<1>5. Host!Found(services') = Host!Found(services)
  <2>1. \A a \in added : ~services'[a].found
    BY <1>4
  <2> QED BY <1>4, <2>1 DEF Host!Found
<1> DEFINE extra == {a \in Host!Found(services) : services[a].host \notin Host!ToSet(hosts)}
           order == Host!SetToSeq(extra)
<1>6. extra' = extra
  <2>1. \A a \in Host!Found(services) : services'[a] = services[a]
    BY <1>4 DEF Host!Found
  <2> QED BY <1>5, <2>1
<1>7. DOMAIN order = 1 .. Cardinality(extra) /\ \A i \in DOMAIN order : order[i] \in DOMAIN services
  <2>1. extra \in SUBSET DOMAIN services
    BY DEF Host!Found
  <2>2. IsFiniteSet(extra)
    BY <2>1, WantedAreFinite, FS_Subset
  <2>3. order \in [1 .. Cardinality(extra) -> extra]
    <3> HIDE DEF extra
    <3> QED BY <2>2, ASequenceOf
  <2> HIDE DEF order
  <2> QED BY <2>1, <2>3
<1>8. order' = order
  BY <1>6
<1>9. Host!Discovered = hosts \o [i \in DOMAIN order |-> services[order[i]].host]
  BY DEF Host!Discovered
<1>10. Host!Discovered' = hosts' \o [i \in DOMAIN order' |-> services'[order'[i]].host]
  BY DEF Host!Discovered
<1> HIDE DEF order
<1>11. [i \in DOMAIN order |-> services[order[i]].host] = [i \in DOMAIN order |-> services'[order[i]].host]
  BY <1>4, <1>7
<1> QED BY <1>8, <1>9, <1>10, <1>11

-----------------------------------------------------------------------------
(* What a step leaves alone, or tells the window of.                                     *)
Stays == SamePlaces /\ UNCHANGED <<hostShown, leftOut>> /\ (stale \/ moved => stale' \/ moved')
AsShown == ~stale /\ ~moved /\ ~leftOut => \A i \in DOMAIN hostShown : hostShown[i] = Host!ServerAt(i)

LEMMA StaysAsShown ==
  ASSUME AsShown, Stays
  PROVE  AsShown'
<1>1. UNCHANGED <<hostShown, leftOut>> /\ \A i : Host!ServerAt(i)' = Host!ServerAt(i)
  BY SameAreFound DEF Stays
<1>2. SUFFICES ASSUME ~stale', ~moved', ~leftOut', NEW i \in DOMAIN hostShown'
               PROVE  hostShown'[i] = Host!ServerAt(i)'
  BY DEF AsShown
<1>3. ~stale /\ ~moved /\ ~leftOut
  BY <1>1, <1>2 DEF Stays
<1> QED BY <1>1, <1>3 DEF AsShown

(* Whoever changes the list tells the window, or writes behind it.                          *)
LEMMA UserTells ==
  ASSUME HostInv, ListsAreSound, Host!User
  PROVE  stale' \/ Stays
<1> USE DEF Host!settingsVars, Host!listVars, Host!psnVars, Host!windowVars, SamePlaces, Stays
<1>a. ASSUME UNCHANGED <<hosts, services, settings, psn, hostShown, leftOut, stale, moved>>
      PROVE  Stays
  BY <1>a DEF Host!Discovered, Host!Found
<1>b. ASSUME NEW set, Host!Change(set) PROVE stale'
  BY <1>b DEF Host!Change
<1>1. ASSUME NEW i \in DOMAIN hostShown, Host!Connect(i) PROVE Stays
  BY <1>1, <1>a DEF Host!Connect
<1>2. ASSUME NEW i \in DOMAIN hostShown, Host!DeleteHost(i) PROVE stale' \/ Stays
  <2>1. CASE Host!ManualAt(Host!ServerAt(i)) = {}
    <3>1. UNCHANGED <<hosts, services, settings, psn, hostShown, leftOut, stale, moved>>
      BY <1>2, <2>1 DEF Host!DeleteHost
    <3> QED BY <1>a, <3>1
  <2>2. CASE Host!ManualAt(Host!ServerAt(i)) # {}
    <3>1. \E set : Host!Change(set)
      BY <1>2, <2>2 DEF Host!DeleteHost
    <3> QED BY <1>b, <3>1
  <2> QED BY <2>1, <2>2
<1>3. ASSUME NEW i \in DOMAIN hostShown, Host!SetConsolePin(i) PROVE stale' \/ Stays
  <2>1. CASE Host!ServerAt(i)[1] = "none"
    <3>1. UNCHANGED <<hosts, services, settings, psn, hostShown, leftOut, stale, moved>>
      BY <1>3, <2>1 DEF Host!SetConsolePin
    <3> QED BY <1>a, <3>1
  <2>2. CASE Host!ServerAt(i)[1] # "none"
    <3>1. \E set : Host!Change(set)
      BY <1>3, <2>2 DEF Host!SetConsolePin
    <3> QED BY <1>b, <3>1
  <2> QED BY <2>1, <2>2
<1>4. ASSUME NEW a, NEW mac, Host!AddManualHost(a, mac) \/ Host!Registered(mac, a) PROVE stale'
  <2>1. \E set : Host!Change(set)
    BY <1>4, Zenon DEF Host!AddManualHost, Host!Registered
  <2> QED BY <1>b, <2>1
<1>5. ASSUME NEW mac, Host!Unregister(mac) PROVE stale'
  BY <1>b, <1>5 DEF Host!Unregister
<1>6. ASSUME Host!AutoRegistered PROVE stale'
  BY <1>b, <1>6 DEF Host!AutoRegistered
<1>7. ASSUME NEW set, Host!Hide(set) PROVE stale'
  BY <1>7 DEF Host!Hide
<1>8. ASSUME Host!Deactivate \/ Host!ProfileChanged PROVE stale'
  BY <1>8 DEF Host!Deactivate, Host!ProfileChanged
<1>9. ASSUME Host!RegisterFails \/ Host!UpdatePsnHosts PROVE Stays
  <2>1. UNCHANGED <<hosts, services, settings, psn, hostShown, leftOut, stale, moved>>
    BY <1>9 DEF Host!RegisterFails, Host!UpdatePsnHosts
  <2> QED BY <1>a, <2>1
<1>10. ASSUME Host!Activate PROVE Stays
  <2>1. UNCHANGED <<hosts, settings, psn, hostShown, leftOut, stale, moved>>
    BY <1>10 DEF Host!Activate
  <2>2. services' = services \/ services' \in Host!Updated(settings, services)
    BY <1>10 DEF Host!Activate, Host!UpdateManualServices
  <2>3. CASE services' = services
    BY <1>a, <2>1, <2>3
  <2>4. CASE services' \in Host!Updated(settings, services)
    <3>1. Host!Discovered' = Host!Discovered
      BY <2>1, <2>4, UpdatedAreFound
    <3> QED BY <2>1, <3>1
  <2> QED BY <2>2, <2>3, <2>4
<1>11. \/ \E i \in DOMAIN hostShown : Host!Connect(i) \/ Host!DeleteHost(i) \/ Host!SetConsolePin(i)
       \/ \E a, mac : Host!AddManualHost(a, mac) \/ Host!Registered(mac, a)
       \/ \E mac : Host!Unregister(mac) \/ Host!Hide(mac)
       \/ Host!AutoRegistered \/ (Host!RegisterFails \/ Host!UpdatePsnHosts) \/ Host!Activate
       \/ (Host!Deactivate \/ Host!ProfileChanged)
  BY Zenon DEF Host!User
<1> HIDE DEF Stays
<1> QED BY <1>1, <1>2, <1>3, <1>4, <1>5, <1>6, <1>7, <1>8, <1>9, <1>10, <1>11

LEMMA OthersTell ==
  ASSUME HostInv, ListsAreSound, Host!Others
  PROVE  stale' \/ moved' \/ Stays \/ Host!Refresh
<1> USE DEF Host!settingsVars, Host!listVars, Host!psnVars, Host!windowVars, SamePlaces, Stays
<1>a. ASSUME UNCHANGED <<hosts, services, settings, hostShown, leftOut, stale, moved>>, psn'.hosts = psn.hosts
      PROVE  Stays
  BY <1>a DEF Host!Discovered, Host!Found
<1>b. ASSUME UNCHANGED <<hosts, services>> PROVE Host!Discovered' = Host!Discovered
  BY <1>b DEF Host!Discovered, Host!Found
<1>1. ASSUME NEW list, Host!ServiceReports(list) PROVE Stays
  BY <1>1, <1>a DEF Host!ServiceReports
<1>2. ASSUME NEW a, NEW host, Host!ManualFound(a) \/ Host!ManualTells(a, host) PROVE moved'
  BY <1>2 DEF Host!ManualFound, Host!ManualTells
<1>3. ASSUME NEW name, Host!AutoConnectPsn(name) PROVE Stays
  BY <1>3, <1>a DEF Host!AutoConnectPsn
<1>4. ASSUME NEW name, Host!WakingEnds(name) PROVE stale'
  BY <1>4 DEF Host!WakingEnds
<1>5. ASSUME Host!WorkerListed \/ Host!WorkerTells \/ Host!WorkerEnded PROVE Stays
  <2>1. UNCHANGED <<hosts, services, settings, psn, hostShown, leftOut, stale, moved>>
    BY <1>5 DEF Host!WorkerListed, Host!WorkerTells, Host!WorkerEnded
  <2> QED BY <1>a, <2>1
<1>6. ASSUME Host!WorkerAdds PROVE moved' \/ Stays
  <2>1. \E name, known : Host!Adds(name, known)
    BY <1>6, Zenon DEF Host!WorkerAdds
  <2>2. /\ moved' = (moved \/ psn'.hosts # psn.hosts)
        /\ UNCHANGED <<hosts, services, settings, hostShown, leftOut, stale>>
    BY <2>1 DEF Host!Adds
  <2>3. CASE psn'.hosts # psn.hosts
    BY <2>2, <2>3
  <2>4. CASE psn'.hosts = psn.hosts /\ ~moved
    <3>1. ~moved'
      BY <2>2, <2>4
    <3>2. hosts' = hosts /\ services' = services /\ settings' = settings
      BY <2>2
    <3>3. Host!Discovered' = Host!Discovered
      BY <1>b, <3>2
    <3> QED BY <2>2, <2>4, <3>1, <3>2, <3>3
  <2>5. CASE moved
    BY <2>2, <2>5
  <2> QED BY <2>3, <2>4, <2>5
<1>7. ASSUME Host!HandleHosts PROVE stale'
  BY <1>7 DEF Host!HandleHosts
<1>8. ASSUME Host!SaveDue PROVE stale'
  BY <1>8 DEF Host!SaveDue, Host!Change
<1>9. \/ \E list : Host!ServiceReports(list)
      \/ \E a, host : Host!ManualFound(a) \/ Host!ManualTells(a, host)
      \/ \E name : Host!AutoConnectPsn(name) \/ Host!WakingEnds(name)
      \/ (Host!WorkerListed \/ Host!WorkerTells \/ Host!WorkerEnded) \/ Host!WorkerAdds \/ Host!HandleHosts
      \/ Host!Refresh \/ Host!SaveDue
  BY Zenon DEF Host!Others
<1> HIDE DEF Stays
<1> QED BY <1>1, <1>2, <1>3, <1>4, <1>5, <1>6, <1>7, <1>8, <1>9

(* The window reads the list: it shows what is found at each place.                         *)
LEMMA RefreshedAsShown ==
  ASSUME HostInv, ListsAreSound, Host!Refresh
  PROVE  AsShown'
<1> USE DEF Host!settingsVars, Host!listVars, Host!psnVars, Host!windowVars
<1> DEFINE unhidden == Host!Macs \cap settings.registered
<1>1. /\ settings' = [settings EXCEPT !.hidden = @ \ unhidden, !.lastIp = Host!LastIps]
      /\ hostShown' = Host!Listed /\ leftOut' = Host!LeavesOut /\ UNCHANGED <<hosts, active, psn>>
      /\ services' = services \/ services' \in Host!Updated(settings, services)
  BY DEF Host!Refresh, Host!UpdateManualServices
<1> HIDE DEF unhidden
<1>2. settings'.manual = settings.manual
  BY <1>1 DEF HostInv, SettingsFields
<1>3. Host!Discovered' = Host!Discovered
  <2>1. CASE services' = services
    BY <1>1, <2>1 DEF Host!Discovered, Host!Found
  <2>2. CASE services' \in Host!Updated(settings, services)
    BY <1>1, <2>2, UpdatedAreFound
  <2> QED BY <1>1, <2>1, <2>2
<1>4. SamePlaces
  BY <1>1, <1>2, <1>3 DEF SamePlaces
<1>5. SUFFICES ASSUME ~leftOut', NEW i \in DOMAIN hostShown' PROVE hostShown'[i] = Host!ServerAt(i)'
  BY DEF AsShown
<1>6. hostShown'[i] = Host!ServerAt(i)
  BY <1>1, <1>5, ListedAreFound
<1> QED BY <1>4, <1>6, SameAreFound

(* What is done goes astray only where something was left out or has moved.                  *)
LEMMA NothingPlainlyAstray ==
  ASSUME ListsAreSound, AsShown, Host!ActsOnWhatIsShown, Host!HostListNext
  PROVE  Host!ActsOnWhatIsShown'
<1> USE DEF Host!ActsOnWhatIsShown, Host!settingsVars, Host!listVars, Host!psnVars, Host!windowVars
<1>1. ASSUME NEW i \in DOMAIN hostShown, Host!Pick(i) PROVE astray' # "plainly"
  <2>1. Host!ServerAt(i) = hostShown[i] \/ leftOut \/ moved
    BY <1>1 DEF Host!Pick, Host!IsFree, AsShown
  <2>2. astray' = IF Host!ServerAt(i) = hostShown[i] \/ astray = "plainly" THEN astray
                  ELSE IF leftOut \/ moved THEN "behind another" ELSE "plainly"
    BY <1>1 DEF Host!Pick
  <2> QED BY <2>1, <2>2
<1>2. ASSUME NEW i \in DOMAIN Host!PsnNames, Host!AutoConnectPsn(i) PROVE astray' # "plainly"
  <2>1. Host!RemoteAt(i) = Host!Key("psn", Host!PsnNames[i]) \/ Host!Macs \cap psn.hosts # {}
    BY AllAreAway
  <2>2. astray' = IF Host!RemoteAt(i) = Host!Key("psn", Host!PsnNames[i]) \/ astray = "plainly" THEN astray
                  ELSE IF Host!Macs \cap psn.hosts # {} THEN "behind another" ELSE "plainly"
    BY <1>2 DEF Host!AutoConnectPsn
  <2> QED BY <2>1, <2>2
<1>3. CASE Host!User
  <2>1. CASE \E i \in DOMAIN hostShown : Host!Connect(i) \/ Host!DeleteHost(i) \/ Host!SetConsolePin(i)
    <3>1. \E i \in DOMAIN hostShown : Host!Pick(i)
      BY <2>1, Zenon DEF Host!Connect, Host!DeleteHost, Host!SetConsolePin
    <3> QED BY <1>1, <3>1
  <2>2. CASE \/ \E a, mac : Host!AddManualHost(a, mac) \/ Host!Registered(mac, a)
             \/ \E mac : Host!Unregister(mac) \/ Host!Hide(mac)
             \/ Host!AutoRegistered \/ Host!RegisterFails \/ Host!UpdatePsnHosts \/ Host!Activate
             \/ Host!Deactivate \/ Host!ProfileChanged
    <3>1. astray' = astray
      BY <2>2 DEF Host!AddManualHost, Host!Registered, Host!Unregister, Host!Hide, Host!AutoRegistered,
                  Host!RegisterFails, Host!UpdatePsnHosts, Host!Activate, Host!Deactivate, Host!ProfileChanged
    <3> QED BY <3>1
  <2> QED BY <1>3, <2>1, <2>2, Zenon DEF Host!User
<1>4. CASE Host!Others
  <2>1. CASE \E i \in DOMAIN Host!PsnNames : Host!AutoConnectPsn(i)
    BY <1>2, <2>1
  <2>2. CASE \/ \E list : Host!ServiceReports(list)
             \/ \E a, host : Host!ManualFound(a) \/ Host!ManualTells(a, host)
             \/ \E name : Host!WakingEnds(name)
             \/ Host!WorkerListed \/ Host!WorkerTells \/ Host!WorkerEnded \/ Host!HandleHosts
             \/ Host!Refresh \/ Host!SaveDue
    <3>1. astray' = astray
      BY <2>2 DEF Host!ServiceReports, Host!ManualFound, Host!ManualTells, Host!WakingEnds, Host!WorkerListed,
                  Host!WorkerTells, Host!WorkerEnded, Host!HandleHosts, Host!Refresh, Host!SaveDue
    <3> QED BY <3>1
  <2>3. CASE Host!WorkerAdds
    <3>1. \E name, known : Host!Adds(name, known)
      BY <2>3, Zenon DEF Host!WorkerAdds
    <3> QED BY <3>1 DEF Host!Adds
  <2> QED BY <1>4, <2>1, <2>2, <2>3, Zenon DEF Host!Others
<1> QED BY <1>3, <1>4 DEF Host!HostListNext

LEMMA ListsStep ==
  ASSUME HostInv, ListsAreSound, ShownIsFound, [Host!HostListNext]_hostVars
  PROVE  ListsAreSound' /\ ShownIsFound'
<1>0. AsShown /\ Host!ActsOnWhatIsShown
  BY DEF ShownIsFound, AsShown
<1>1. CASE UNCHANGED hostVars
  <2>1. ListsAreSound'
    BY <1>1 DEF hostVars, ListsAreSound, HasNumber, NumbersAreSound, ListsOf
  <2>2. Stays
    BY <1>1 DEF hostVars, Stays, SamePlaces, Host!Discovered, Host!Found
  <2>3. AsShown'
    BY <1>0, <2>2, StaysAsShown
  <2>4. Host!ActsOnWhatIsShown'
    BY <1>0, <1>1 DEF hostVars, Host!ActsOnWhatIsShown
  <2> QED BY <2>1, <2>3, <2>4 DEF ShownIsFound, AsShown
<1>2. CASE Host!HostListNext
  <2>1. Host!User \/ Host!Others
    BY <1>2, Zenon DEF Host!HostListNext
  <2>2. ListsAreSound'
    BY <2>1, UserKeepsLists, OthersKeepLists
  <2>3. stale' \/ moved' \/ Stays \/ Host!Refresh
    BY <2>1, UserTells, OthersTell
  <2>4. AsShown'
    <3>1. CASE stale' \/ moved'
      BY <3>1 DEF AsShown
    <3> QED BY <1>0, <2>3, <3>1, StaysAsShown, RefreshedAsShown
  <2>5. Host!ActsOnWhatIsShown'
    BY <1>0, <1>2, NothingPlainlyAstray
  <2> QED BY <2>2, <2>4, <2>5 DEF ShownIsFound, AsShown
<1> QED BY <1>1, <1>2

LEMMA ListsBegin ==
  ASSUME Host!Init \/ Host!AtRest
  PROVE  ListsAreSound /\ ShownIsFound
<1>1. /\ settings = Host!Load(Switches[1]) /\ profile = 1 /\ due = Host!NoHost /\ queue = <<>> /\ hosts = <<>>
      /\ hostShown = <<>> /\ astray = "no" /\ dialog.manual = Host!NoHost
  BY DEF Host!Init, Host!AtRest, Host!NoServer
<1>2. profile \in 1 .. Len(Switches)
  BY <1>1, HostAssumption
<1> DEFINE manual == Switches[1].manual
<1>3. Len(manual) \in Nat /\ DOMAIN manual = 1 .. Len(manual)
  BY <1>1, <1>2, HostAssumption
<1>4. settings.manual = manual /\ settings.next = Len(manual)
  BY <1>1 DEF Host!Load
<1> HIDE DEF manual
<1>5. NumbersAreSound(settings)
  BY <1>3, <1>4 DEF NumbersAreSound
<1>6. HasNumber(due) /\ HasNumber(dialog.manual)
  BY <1>1 DEF HasNumber, Host!NoHost
<1>7. DOMAIN hostShown = {}
  BY <1>1
<1>8. hosts \in Seq(ListsOf) /\ queue \in Seq(Seq(ListsOf))
  BY <1>1
<1> QED BY <1>1, <1>2, <1>5, <1>6, <1>7, <1>8 DEF ListsAreSound, ShownIsFound, Host!ActsOnWhatIsShown

(* What the user does to an entry is done to the console shown, as long as hosts() left    *)
(* nothing out and no other thread has written since (HostList).                          *)
THEOREM DoneToWhatIsShown == MCSpec => []ActsOnWhatIsShown
<1>1. MCInit => ListedInv
  BY HostsBegin, ListsBegin DEF MCInit, HostInit, ListedInv
<1>2. ListedInv /\ [MCNext]_<<part, pacingVars, cloudVars, catalogVars, backVars, hostVars, syncVars, ctlVars, outVars, sendVars, videoVars, audioVars, nativeVars, appVars>> => ListedInv'
  <2>1. ASSUME ListedInv, [MCNext]_<<part, pacingVars, cloudVars, catalogVars, backVars, hostVars, syncVars, ctlVars, outVars, sendVars, videoVars, audioVars, nativeVars, appVars>>
        PROVE  ListedInv'
    <3>1. [Host!HostListNext]_hostVars
      BY <2>1 DEF MCNext
    <3> QED BY <2>1, <3>1, HostStep, ListsStep DEF ListedInv
  <2> QED BY <2>1
<1>3. ListedInv => ActsOnWhatIsShown
  BY DEF ListedInv, ShownIsFound, ActsOnWhatIsShown
<1> QED BY <1>1, <1>2, <1>3, PTL DEF MCSpec

(* What the desktop keeps beside its streams is sound: sleep and discovery, the services    *)
(* of the list, and the settings that are synchronised.                                *)
THEOREM DesktopsAreSound == MCSpec => []DesktopIsSound
<1>1. Back!SleepAndDiscovery /\ Host!ServicesFollowSettings /\ Sync!NoEditIsLost => DesktopIsSound
  BY DEF DesktopIsSound
<1> QED BY SleepsAsAsked, ServicesAsSet, EditsAreKept, <1>1, PTL
=============================================================================
