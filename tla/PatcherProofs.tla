--------------------------- MODULE PatcherProofs ---------------------------
(***************************************************************************)
(* Proofs about Patcher for every archive, every set of paths, every       *)
(* choice of faults and any number of runs.                                *)
(***************************************************************************)
EXTENDS Patcher, TLAPS

(* Trees *)

\* Put gives a tree again, with c at p and every other path as it was.
LEMMA PutLemma ==
  ASSUME NEW t, IsTree(t), NEW p \in Paths, NEW c \in Contents
  PROVE  /\ IsTree(Put(t, p, c))
         /\ DOMAIN Put(t, p, c) = DOMAIN t \cup {p}
         /\ Put(t, p, c)[p] = c
         /\ \A q \in DOMAIN t : q # p => Put(t, p, c)[q] = t[q]
  BY DEF IsTree, Put

\* Drop gives a tree again, without p and with every other path as it was.
LEMMA DropLemma ==
  ASSUME NEW t, IsTree(t), NEW p
  PROVE  /\ IsTree(Drop(t, p))
         /\ DOMAIN Drop(t, p) = DOMAIN t \ {p}
         /\ \A q \in DOMAIN t : q # p => Drop(t, p)[q] = t[q]
  BY DEF IsTree, Drop

\* What a torn copy leaves is a content.
LEMMA TornLemma ==
  ASSUME NEW c \in Contents, NEW d \in Torn(c)
  PROVE  d \in Contents
  BY DEF Contents, Torn

\* The current entry names a target, whose backup is a path but no target.
LEMMA EntryLemma ==
  ASSUME i \in 1 .. Len(Archive)
  PROVE  /\ entry \in Entry
         /\ target \in Targets
         /\ target \in Paths
         /\ backup \in Paths
         /\ backup \notin Targets
         /\ backup # target
         /\ entry.chunks \in Contents
         /\ entry.want \in Contents
<1>1. entry \in Entry
  BY ArchiveAssumption DEF entry
<1>2. target \in Targets /\ entry.chunks \in Contents /\ entry.want \in Contents
  BY <1>1 DEF Entry, target
<1>3. QED
  BY <1>1, <1>2, BakAssumption DEF backup, Paths

-----------------------------------------------------------------------------
(* Steps on the user's directory *)

\* Past the head of the loop there is a current entry.
LEMMA AtEntryLemma ==
  ASSUME TypeOK, AtEntry, pc \in Working \ {"loop"}
  PROVE  i \in 1 .. Len(Archive)
  BY ArchiveAssumption DEF TypeOK, AtEntry

\* Writing the target leaves every backup alone: a backup is no target.
LEMMA WriteTargetLemma ==
  ASSUME IInv, i \in 1 .. Len(Archive), NEW c \in Contents,
         disk' = Put(disk, target, c), saved' = saved
  PROVE  /\ IsTree(disk')
         /\ target \in DOMAIN disk'
         /\ BackupIntact'
<1>1. target \in Targets /\ target \in Paths
  BY EntryLemma
<1>2. IsTree(disk)
  BY DEF IInv, TypeOK
<1>3. /\ IsTree(disk')
      /\ DOMAIN disk' = DOMAIN disk \cup {target}
      /\ \A q \in DOMAIN disk : q # target => disk'[q] = disk[q]
  BY <1>1, <1>2, PutLemma
<1>4. ASSUME NEW p \in DOMAIN saved
      PROVE  Bak[p] \in DOMAIN disk' /\ disk'[Bak[p]] = saved[p]
  <2>1. Bak[p] # target
    BY <1>1, BakAssumption DEF IInv, TypeOK
  <2>2. Bak[p] \in DOMAIN disk /\ disk[Bak[p]] = saved[p]
    BY DEF IInv, BackupIntact, Exists
  <2>3. QED
    BY <2>1, <2>2, <1>3
<1>5. QED
  BY <1>3, <1>4 DEF BackupIntact, Exists

\* Creating a backup that was not there touches neither the other backups nor
\* the target.
LEMMA WriteBackupLemma ==
  ASSUME IInv, i \in 1 .. Len(Archive), NEW c \in Contents, ~Exists(backup),
         disk' = Put(disk, backup, c)
  PROVE  /\ IsTree(disk')
         /\ backup \in DOMAIN disk' /\ disk'[backup] = c
         /\ target \notin DOMAIN saved
         /\ \A p \in DOMAIN saved : /\ Bak[p] \in DOMAIN disk'
                                   /\ disk'[Bak[p]] = saved[p]
<1>1. target \in Targets /\ backup \in Paths
  BY EntryLemma
<1>2. IsTree(disk) /\ DOMAIN saved \subseteq Targets
  BY DEF IInv, TypeOK
<1>3. /\ IsTree(disk')
      /\ DOMAIN disk' = DOMAIN disk \cup {backup}
      /\ disk'[backup] = c
      /\ \A q \in DOMAIN disk : q # backup => disk'[q] = disk[q]
  <2>1. c \in Contents
    OBVIOUS
  <2>2. Put(disk, backup, c)[backup] = c
    BY <1>1, <1>2, <2>1, PutLemma
  <2>3. /\ IsTree(Put(disk, backup, c))
        /\ DOMAIN Put(disk, backup, c) = DOMAIN disk \cup {backup}
        /\ \A q \in DOMAIN disk : q # backup => Put(disk, backup, c)[q] = disk[q]
    BY <1>1, <1>2, <2>1, PutLemma
  <2>4. QED
    BY <2>2, <2>3
<1>4. ASSUME NEW p \in DOMAIN saved
      PROVE  /\ p # target
             /\ Bak[p] \in DOMAIN disk' /\ disk'[Bak[p]] = saved[p]
  <2>1. Bak[p] \in DOMAIN disk /\ disk[Bak[p]] = saved[p]
    BY DEF IInv, BackupIntact, Exists
  <2>2. Bak[p] # backup
    BY <2>1 DEF Exists
  <2>3. QED
    BY <2>1, <2>2, <1>3 DEF backup
<1>5. QED
  BY <1>3, <1>4

-----------------------------------------------------------------------------
(* The inductive invariant *)

\* Before the first run there is no backup to keep.
LEMMA IInvInit == Init => IInv
<1>. SUFFICES ASSUME Init PROVE IInv
  OBVIOUS
<1>1. IsTree(disk)
  BY EnvironmentAssumption DEF Init, IsTree
<1>2. IsTree(saved) /\ DOMAIN saved = {}
  BY DEF Init, IsTree, EmptyTree
<1>3. 1 \in 1 .. Len(Archive) + 1 /\ <<>> \in Contents /\ 0 \in 0 .. MaxRuns
  BY ArchiveAssumption, EnvironmentAssumption DEF Contents
<1>4. TypeOK
  BY <1>1, <1>2, <1>3 DEF Init, TypeOK, Halted
<1>5. QED
  BY <1>2, <1>4
     DEF Init, IInv, AtEntry, TargetOpen, RestoredFirst, BackupIntact, Working

\* A step that leaves the directory and the index alone keeps the invariant
\* when the process goes to a place where the current entry and its target
\* are still there.
LEMMA QuietLemma ==
  ASSUME IInv, UNCHANGED <<disk, i, saved>>,
         pc' \in Working \cup Halted,
         pc' \in Working \ {"loop"} => i <= Len(Archive),
         pc' \in {"readopen", "read", "check"} => Exists(target),
         pc' # "unlink",
         good' \in BOOLEAN, pending' \in Contents,
         reported' \subseteq 1 .. Len(Archive), runs' \in 0 .. MaxRuns,
         IsTree(before')
  PROVE  IInv'
<1>1. TypeOK'
  BY DEF IInv, TypeOK
<1>2. AtEntry'
  BY DEF AtEntry
<1>3. TargetOpen'
  BY DEF TargetOpen, Exists, target, entry
<1>4. RestoredFirst'
  BY DEF RestoredFirst
<1>5. BackupIntact'
  BY DEF IInv, BackupIntact, Exists
<1>6. QED
  BY <1>1, <1>2, <1>3, <1>4, <1>5 DEF IInv

\* A step that writes the target, and goes on with the current entry or stops.
LEMMA OutLemma ==
  ASSUME IInv, i \in 1 .. Len(Archive), UNCHANGED <<i, saved>>,
         NEW c \in Contents, disk' = Put(disk, target, c),
         pc' \in {"readopen", "read", "check", "aborted"},
         good' \in BOOLEAN, pending' \in Contents,
         UNCHANGED <<reported, runs, before>>
  PROVE  IInv'
<1>1. IsTree(disk') /\ target \in DOMAIN disk' /\ BackupIntact'
  BY WriteTargetLemma
<1>2. TypeOK'
  BY <1>1 DEF IInv, TypeOK, Working, Halted
<1>3. AtEntry'
  BY ArchiveAssumption DEF AtEntry
<1>4. TargetOpen'
  BY <1>1 DEF TargetOpen, Exists, target, entry
<1>5. RestoredFirst'
  BY DEF RestoredFirst
<1>6. QED
  BY <1>1, <1>2, <1>3, <1>4, <1>5 DEF IInv

\* The step to the next entry, when the mismatch was reported and the directory
\* was left as it is or is a tree that still holds the backups.
LEMMA ReportLemma ==
  ASSUME IInv, i \in 1 .. Len(Archive), Report,
         IsTree(disk'), IsTree(saved'), DOMAIN saved' \subseteq Targets,
         BackupIntact', UNCHANGED <<good, pending, runs, before>>
  PROVE  IInv'
<1>1. i + 1 \in 1 .. Len(Archive) + 1 /\ reported \cup {i} \subseteq 1 .. Len(Archive)
  BY ArchiveAssumption DEF IInv, TypeOK
<1>2. TypeOK'
  BY <1>1 DEF IInv, TypeOK, Working, Report
<1>3. AtEntry' /\ TargetOpen' /\ RestoredFirst'
  BY DEF AtEntry, TargetOpen, RestoredFirst, Report
<1>4. QED
  BY <1>2, <1>3 DEF IInv

\* BackUpFile keeps it: a new backup is remembered with the content it was made
\* from, a torn one is not remembered.
LEMMA BackUpStep == IInv /\ BackUpFile => IInv'
<1>. SUFFICES ASSUME IInv, BackUpFile PROVE IInv'
  OBVIOUS
<1>1. i \in 1 .. Len(Archive)
  BY AtEntryLemma
     DEF IInv, BackUpFile, BackUp, BackUpRefused, BackUpTorn, Working
<1>2. target \in Targets /\ target \in Paths
  BY <1>1, EntryLemma
<1>3. CASE BackUp
  <2>1. disk[target] \in Contents
    BY <1>3 DEF BackUp, Exists, IInv, TypeOK, IsTree
  <2>2. ~Exists(backup) /\ disk' = Put(disk, backup, disk[target])
    BY <1>3 DEF BackUp
  <2>3. /\ IsTree(disk')
        /\ backup \in DOMAIN disk' /\ disk'[backup] = disk[target]
        /\ target \notin DOMAIN saved
        /\ \A p \in DOMAIN saved : /\ Bak[p] \in DOMAIN disk'
                                  /\ disk'[Bak[p]] = saved[p]
    BY <1>1, <2>1, <2>2, WriteBackupLemma
  <2>4. /\ IsTree(saved')
        /\ DOMAIN saved' = DOMAIN saved \cup {target}
        /\ saved'[target] = disk[target]
        /\ \A q \in DOMAIN saved : saved'[q] = saved[q]
    <3>1. IsTree(saved)
      BY DEF IInv, TypeOK
    <3>2. saved' = Remember(saved, target, disk[target])
      BY <1>3 DEF BackUp
    <3>3. /\ IsTree(Remember(saved, target, disk[target]))
          /\ DOMAIN Remember(saved, target, disk[target]) = DOMAIN saved \cup {target}
      BY <1>2, <2>1, <2>3, <3>1, PutLemma DEF Remember
    <3>4. /\ Remember(saved, target, disk[target])[target] = disk[target]
          /\ \A q \in DOMAIN saved :
               Remember(saved, target, disk[target])[q] = saved[q]
      BY <2>3 DEF Remember, Put
    <3>5. QED
      BY <3>2, <3>3, <3>4
  <2>5. BackupIntact'
    BY <2>3, <2>4 DEF BackupIntact, Exists, backup
  <2>6. TypeOK'
    BY <1>2, <1>3, <2>3, <2>4 DEF BackUp, IInv, TypeOK, Working
  <2>7. AtEntry' /\ TargetOpen' /\ RestoredFirst'
    BY <1>1, <1>3, ArchiveAssumption
       DEF BackUp, AtEntry, TargetOpen, RestoredFirst
  <2>8. QED
    BY <2>5, <2>6, <2>7 DEF IInv
<1>4. CASE BackUpRefused
  BY <1>1, <1>4, QuietLemma, ArchiveAssumption
     DEF BackUpRefused, IInv, TypeOK, Working
<1>5. CASE BackUpTorn
  <2>1. disk[target] \in Contents
    BY <1>5 DEF BackUpTorn, Exists, IInv, TypeOK, IsTree
  <2>2. PICK c \in Torn(disk[target]) : disk' = Put(disk, backup, c)
    BY <1>5 DEF BackUpTorn
  <2>3. c \in Contents
    BY <2>1, TornLemma
  <2>4. ~Exists(backup)
    BY <1>5 DEF BackUpTorn
  <2>5. /\ IsTree(disk')
        /\ \A p \in DOMAIN saved : /\ Bak[p] \in DOMAIN disk'
                                  /\ disk'[Bak[p]] = saved[p]
    BY <1>1, <2>2, <2>3, <2>4, WriteBackupLemma
  <2>6. BackupIntact'
    BY <1>5, <2>5 DEF BackUpTorn, BackupIntact, Exists
  <2>7. TypeOK'
    BY <1>5, <2>5 DEF BackUpTorn, IInv, TypeOK, Working, Halted
  <2>8. AtEntry' /\ TargetOpen' /\ RestoredFirst'
    BY <1>1, <1>5, ArchiveAssumption
       DEF BackUpTorn, AtEntry, TargetOpen, RestoredFirst
  <2>9. QED
    BY <2>6, <2>7, <2>8 DEF IInv
<1>6. QED
  BY <1>3, <1>4, <1>5 DEF BackUpFile

\* HandleFile keeps it: of the files it writes the target only.
LEMMA HandleStep == IInv /\ HandleFile => IInv'
<1>. SUFFICES ASSUME IInv, HandleFile PROVE IInv'
  OBVIOUS
<1>1. i \in 1 .. Len(Archive)
  BY AtEntryLemma
     DEF IInv, HandleFile, WriteTmp, WriteTmpFails, OpenOut, OpenOutFails,
         ReadOpens, ReadOpenFails, WriteChunk, ReadError, ReadEnd, Working
<1>2. /\ target \in Targets
      /\ entry.chunks \in Contents
  BY <1>1, EntryLemma
<1>3. i <= Len(Archive)
  BY <1>1, ArchiveAssumption
<1>4. CASE WriteTmp \/ WriteTmpFails \/ OpenOutFails \/ ReadOpenFails
  BY <1>3, <1>4, QuietLemma
     DEF WriteTmp, WriteTmpFails, OpenOutFails, ReadOpenFails, IInv, TypeOK,
         Working, Halted
<1>5. CASE OpenOut
  <2>1. <<>> \in Contents
    BY DEF Contents
  <2>2. QED
    BY <1>1, <1>5, <2>1, OutLemma DEF OpenOut, IInv, TypeOK
<1>6. CASE ReadOpens
  BY <1>2, <1>3, <1>6, QuietLemma
     DEF ReadOpens, IInv, TypeOK, TargetOpen, Working
<1>7. ASSUME pc \in {"readopen", "read", "check"}
      PROVE  Exists(target) /\ disk[target] \in Contents
  BY <1>7 DEF IInv, TargetOpen, TypeOK, IsTree, Exists
<1>8. CASE WriteChunk
  <2>1. /\ pc = "read" /\ pc' = "read" /\ pending # <<>>
        /\ pending' = Tail(pending)
        /\ UNCHANGED <<i, reported, runs, saved, before>>
    BY <1>8 DEF WriteChunk
  <2>2. pending' \in Contents /\ TextMode[Head(pending)] \in Chunk
    <3>1. pending' \in Contents /\ Head(pending) \in Chunk
      BY <2>1 DEF IInv, TypeOK, Contents
    <3>2. QED
      BY <3>1, EnvironmentAssumption
  <2>3. Exists(target) /\ disk[target] \in Contents
    BY <1>7, <2>1
  <2>4. CASE good /\ disk' = Put(disk, target, Append(disk[target], TextMode[Head(pending)]))
                  /\ UNCHANGED good
    <3>1. Append(disk[target], TextMode[Head(pending)]) \in Contents
      BY <2>2, <2>3 DEF Contents
    <3>2. QED
      BY <1>1, <2>1, <2>2, <2>4, <3>1, OutLemma DEF IInv, TypeOK
  <2>5. CASE UNCHANGED <<disk, good>>
    BY <1>3, <2>1, <2>2, <2>3, <2>5, QuietLemma DEF IInv, TypeOK, Working
  <2>6. CASE good' = FALSE /\ \E c \in Torn(disk[target]) : disk' = Put(disk, target, c)
    <3>1. PICK c \in Torn(disk[target]) : disk' = Put(disk, target, c)
      BY <2>6
    <3>2. c \in Contents
      BY <2>3, TornLemma
    <3>3. QED
      BY <1>1, <2>1, <2>2, <2>6, <3>1, <3>2, OutLemma
  <2>7. QED
    BY <1>8, <2>4, <2>5, <2>6 DEF WriteChunk
<1>9. CASE ReadError
  BY <1>3, <1>7, <1>9, QuietLemma DEF ReadError, IInv, TypeOK, Working
<1>10. CASE ReadEnd
  <2>1. /\ pc = "read" /\ pc' = "check"
        /\ UNCHANGED <<i, good, pending, reported, runs, saved, before>>
    BY <1>10 DEF ReadEnd
  <2>2. Exists(target) /\ disk[target] \in Contents
    BY <1>7, <2>1
  <2>3. CASE UNCHANGED disk
    BY <1>3, <2>1, <2>2, <2>3, QuietLemma DEF IInv, TypeOK, Working
  <2>4. CASE \E c \in Torn(disk[target]) : disk' = Put(disk, target, c)
    <3>1. PICK c \in Torn(disk[target]) : disk' = Put(disk, target, c)
      BY <2>4
    <3>2. c \in Contents
      BY <2>2, TornLemma
    <3>3. QED
      BY <1>1, <2>1, <3>1, <3>2, OutLemma DEF IInv, TypeOK
  <2>5. QED
    BY <1>10, <2>3, <2>4 DEF ReadEnd
<1>11. QED
  BY <1>4, <1>5, <1>6, <1>8, <1>9, <1>10 DEF HandleFile

\* IsFileCorrect keeps it: it only decides where to go on.
LEMMA CheckStep == IInv /\ IsFileCorrect => IInv'
<1>. SUFFICES ASSUME IInv, IsFileCorrect PROVE IInv'
  OBVIOUS
<1>1. i \in 1 .. Len(Archive)
  BY AtEntryLemma
     DEF IInv, IsFileCorrect, FileCorrect, FileIncorrect, CheckThrows, Working
<1>2. CASE FileCorrect
  <2>1. TypeOK'
    BY <1>1, <1>2, ArchiveAssumption DEF FileCorrect, IInv, TypeOK, Working
  <2>2. AtEntry' /\ TargetOpen' /\ RestoredFirst'
    BY <1>2 DEF FileCorrect, AtEntry, TargetOpen, RestoredFirst
  <2>3. BackupIntact'
    BY <1>2 DEF FileCorrect, IInv, BackupIntact, Exists
  <2>4. QED
    BY <2>1, <2>2, <2>3 DEF IInv
<1>3. i <= Len(Archive)
  BY <1>1, ArchiveAssumption
<1>4. CASE FileIncorrect
  BY <1>3, <1>4, QuietLemma DEF FileIncorrect, IInv, TypeOK, Working
<1>5. CASE CheckThrows
  BY <1>5, QuietLemma DEF CheckThrows, IInv, TypeOK, Working, Halted
<1>6. QED
  BY <1>2, <1>4, <1>5 DEF IsFileCorrect

\* RestoreFile keeps it: the backup goes, and is forgotten, only at unlink.
LEMMA RestoreStep == IInv /\ RestoreFile => IInv'
<1>. SUFFICES ASSUME IInv, RestoreFile PROVE IInv'
  OBVIOUS
<1>1. i \in 1 .. Len(Archive)
  BY AtEntryLemma
     DEF IInv, RestoreFile, RestoreRefused, Restore, RestoreTorn, Unlink, Working
<1>2. target \in Targets /\ backup \notin Targets
  BY <1>1, EntryLemma
<1>3. IsTree(disk) /\ IsTree(saved) /\ DOMAIN saved \subseteq Targets
  BY DEF IInv, TypeOK
<1>4. CASE RestoreRefused
  <2>1. BackupIntact'
    BY <1>4 DEF RestoreRefused, IInv, BackupIntact, Exists
  <2>2. QED
    BY <1>1, <1>3, <1>4, <2>1, ReportLemma DEF RestoreRefused
<1>5. CASE Restore
  <2>1. disk[backup] \in Contents
    BY <1>3, <1>5 DEF Restore, Exists, IsTree
  <2>2. IsTree(disk') /\ target \in DOMAIN disk' /\ BackupIntact'
    BY <1>1, <1>5, <2>1, WriteTargetLemma DEF Restore
  <2>3. TypeOK'
    BY <1>5, <2>2 DEF Restore, IInv, TypeOK, Working
  <2>4. AtEntry' /\ TargetOpen'
    BY <1>1, <1>5, <2>2, ArchiveAssumption
       DEF Restore, AtEntry, TargetOpen, Exists, target, entry
  <2>5. /\ backup \in DOMAIN disk'
        /\ disk'[target] = disk[backup] /\ disk'[backup] = disk[backup]
    BY <1>2, <1>5 DEF Restore, Exists, Put
  <2>6. RestoredFirst'
    BY <1>5, <2>5 DEF Restore, RestoredFirst, Exists, backup, target, entry
  <2>7. QED
    BY <2>2, <2>3, <2>4, <2>6 DEF IInv
<1>6. CASE RestoreTorn
  <2>1. disk[backup] \in Contents
    BY <1>3, <1>6 DEF RestoreTorn, Exists, IsTree
  <2>2. PICK c \in Torn(disk[backup]) : disk' = Put(disk, target, c)
    BY <1>6 DEF RestoreTorn
  <2>3. c \in Contents /\ saved' = saved
    BY <1>6, <2>1, TornLemma DEF RestoreTorn
  <2>4. CASE Report
    <3>1. IsTree(disk') /\ BackupIntact'
      BY <1>1, <2>2, <2>3, WriteTargetLemma
    <3>2. QED
      BY <1>1, <1>3, <1>6, <2>3, <2>4, <3>1, ReportLemma DEF RestoreTorn
  <2>5. CASE pc' = "aborted" /\ UNCHANGED <<i, reported>>
    BY <1>1, <1>6, <2>2, <2>3, <2>5, OutLemma DEF RestoreTorn, IInv, TypeOK
  <2>6. QED
    BY <1>6, <2>4, <2>5 DEF RestoreTorn
<1>7. CASE Unlink
  <2>1. Report /\ UNCHANGED <<good, pending, runs, before>>
    BY <1>7 DEF Unlink
  <2>2. CASE UNCHANGED <<disk, saved>>
    <3>1. BackupIntact'
      BY <2>2 DEF IInv, BackupIntact, Exists
    <3>2. QED
      BY <1>1, <1>3, <2>1, <2>2, <3>1, ReportLemma
  <2>3. CASE disk' = Drop(disk, backup) /\ saved' = Drop(saved, target)
    <3>1. /\ IsTree(disk')
          /\ DOMAIN disk' = DOMAIN disk \ {backup}
          /\ \A q \in DOMAIN disk : q # backup => disk'[q] = disk[q]
      BY <1>3, <2>3, DropLemma
    <3>2. /\ IsTree(saved')
          /\ DOMAIN saved' = DOMAIN saved \ {target}
          /\ \A q \in DOMAIN saved : q # target => saved'[q] = saved[q]
      BY <1>3, <2>3, DropLemma
    <3>3. ASSUME NEW p \in DOMAIN saved'
          PROVE  Bak[p] \in DOMAIN disk' /\ disk'[Bak[p]] = saved'[p]
      <4>1. p \in DOMAIN saved /\ p # target /\ p \in Targets
        BY <1>3, <3>2
      <4>2. Bak[p] # backup
        BY <1>2, <4>1, BakAssumption DEF backup
      <4>3. Bak[p] \in DOMAIN disk /\ disk[Bak[p]] = saved[p]
        BY <4>1 DEF IInv, BackupIntact, Exists
      <4>4. QED
        BY <3>1, <3>2, <4>1, <4>2, <4>3
    <3>4. BackupIntact'
      BY <3>3 DEF BackupIntact, Exists
    <3>5. QED
      BY <1>1, <1>3, <2>1, <3>1, <3>2, <3>4, ReportLemma
  <2>4. QED
    BY <1>7, <2>2, <2>3 DEF Unlink
<1>8. QED
  BY <1>4, <1>5, <1>6, <1>7 DEF RestoreFile

\* The kill of the process and the loss of the target keep it.
LEMMA EnvironmentStep == IInv /\ (Kill \/ Vanish) => IInv'
<1>. SUFFICES ASSUME IInv, Kill \/ Vanish PROVE IInv'
  OBVIOUS
<1>1. CASE Kill
  <2>1. CASE pc = "read"
    <3>1. i \in 1 .. Len(Archive)
      BY <2>1, AtEntryLemma DEF IInv, Working
    <3>2. disk[target] \in Contents
      BY <2>1 DEF IInv, TargetOpen, TypeOK, IsTree, Exists
    <3>3. PICK c \in Torn(disk[target]) : disk' = Put(disk, target, c)
      BY <1>1, <2>1 DEF Kill
    <3>4. c \in Contents
      BY <3>2, TornLemma
    <3>5. QED
      BY <1>1, <3>1, <3>3, <3>4, OutLemma DEF Kill, IInv, TypeOK
  <2>2. CASE pc # "read"
    BY <1>1, <2>2, QuietLemma DEF Kill, IInv, TypeOK, Working, Halted
  <2>3. QED
    BY <2>1, <2>2
<1>2. CASE Vanish
  <2>1. i \in 1 .. Len(Archive)
    BY <1>2, AtEntryLemma DEF Vanish, IInv, Working
  <2>2. target \in Targets
    BY <2>1, EntryLemma
  <2>3. /\ IsTree(disk')
        /\ DOMAIN disk' = DOMAIN disk \ {target}
        /\ \A q \in DOMAIN disk : q # target => disk'[q] = disk[q]
    BY <1>2, DropLemma DEF Vanish, IInv, TypeOK
  <2>4. ASSUME NEW p \in DOMAIN saved
        PROVE  Bak[p] \in DOMAIN disk' /\ disk'[Bak[p]] = saved[p]
    <3>1. Bak[p] # target
      BY <2>2, BakAssumption DEF IInv, TypeOK
    <3>2. QED
      BY <2>3, <3>1 DEF IInv, BackupIntact, Exists
  <2>5. BackupIntact'
    BY <1>2, <2>4 DEF Vanish, BackupIntact, Exists
  <2>6. TypeOK'
    BY <1>2, <2>3 DEF Vanish, IInv, TypeOK
  <2>7. AtEntry' /\ TargetOpen' /\ RestoredFirst'
    BY <1>2 DEF Vanish, IInv, AtEntry, TargetOpen, RestoredFirst
  <2>8. QED
    BY <2>5, <2>6, <2>7 DEF IInv
<1>3. QED
  BY <1>1, <1>2

\* Every step, of the program, the user and the environment, keeps it.
LEMMA IInvNext == IInv /\ [Next]_vars => IInv'
<1>. SUFFICES ASSUME IInv, [Next]_vars PROVE IInv'
  OBVIOUS
<1>1. CASE Start
  <2>1. runs + 1 \in 0 .. MaxRuns
    BY <1>1, EnvironmentAssumption DEF Start, IInv, TypeOK
  <2>2. TypeOK'
    BY <1>1, <2>1, ArchiveAssumption DEF Start, IInv, TypeOK, Working
  <2>3. AtEntry' /\ TargetOpen' /\ RestoredFirst'
    BY <1>1 DEF Start, AtEntry, TargetOpen, RestoredFirst
  <2>4. BackupIntact'
    BY <1>1 DEF Start, IInv, BackupIntact, Exists
  <2>5. QED
    BY <2>2, <2>3, <2>4 DEF IInv
<1>2. CASE NextFile \/ Finish
  BY <1>2, QuietLemma DEF NextFile, Finish, IInv, TypeOK, Working, Halted
<1>3. CASE UNCHANGED vars
  BY <1>3 DEF vars, IInv, TypeOK, AtEntry, TargetOpen, RestoredFirst,
              BackupIntact, Exists, IsTree, entry, target, backup
<1>4. QED
  BY <1>1, <1>2, <1>3, BackUpStep, HandleStep, CheckStep, RestoreStep,
     EnvironmentStep DEF Next, Unpack

-----------------------------------------------------------------------------
(* No file but the current one changes *)

\* What a step leaves alone: every target but the current one.
OthersKept ==
  \A q \in Targets :
    q # target => /\ q \in DOMAIN disk' <=> q \in DOMAIN disk
                  /\ q \in DOMAIN disk => disk'[q] = disk[q]

\* A step on the current entry changes no other target (HandleFile and
\* RestoreFile write one path, BackUpFile a path that is no target).
LEMMA OthersKeptLemma ==
  ASSUME IInv, i \in 1 .. Len(Archive),
         \/ UNCHANGED disk
         \/ \E c : disk' = Put(disk, target, c) \/ disk' = Put(disk, backup, c)
         \/ disk' = Drop(disk, target) \/ disk' = Drop(disk, backup)
  PROVE  OthersKept
<1>1. backup \notin Targets
  BY EntryLemma
<1>2. QED
  BY <1>1 DEF OthersKept, Put, Drop

\* A step that stays with the current entry keeps every file accounted for.
LEMMA StayLemma ==
  ASSUME Accounted, i \in 1 .. Len(Archive), OthersKept,
         UNCHANGED <<i, reported, before>>, pc' \notin {"idle", "loop"}
  PROVE  Accounted'
<1>. SUFFICES ASSUME NEW p \in Targets
              PROVE  \/ InProgress(p)'
                     \/ /\ Finished(p)' = {}
                        /\ p \in DOMAIN disk' <=> p \in DOMAIN before'
                        /\ p \in DOMAIN disk' => disk'[p] = before'[p]
                     \/ \E k \in Finished(p)' :
                          /\ \A m \in Finished(p)' : m <= k
                          /\ \/ k \in reported'
                             \/ p \in DOMAIN disk' /\ disk'[p] = Archive[k].want
  BY DEF Accounted, Exists
<1>1. i <= Len(Archive) /\ Finished(p)' = Finished(p)
  BY ArchiveAssumption DEF Finished
<1>2. CASE p = target
  BY <1>1, <1>2 DEF InProgress, target, entry
<1>3. CASE p # target
  BY <1>1, <1>3 DEF Accounted, InProgress, OthersKept, Exists
<1>4. QED
  BY <1>2, <1>3

\* So does a step to the next entry, when the current one holds what it should
\* or is reported.
LEMMA AdvanceLemma ==
  ASSUME Accounted, i \in 1 .. Len(Archive), OthersKept,
         i' = i + 1, before' = before, reported \subseteq reported',
         \/ i \in reported'
         \/ target \in DOMAIN disk' /\ disk'[target] = entry.want
  PROVE  Accounted'
<1>. SUFFICES ASSUME NEW p \in Targets
              PROVE  \/ /\ Finished(p)' = {}
                        /\ p \in DOMAIN disk' <=> p \in DOMAIN before'
                        /\ p \in DOMAIN disk' => disk'[p] = before'[p]
                     \/ \E k \in Finished(p)' :
                          /\ \A m \in Finished(p)' : m <= k
                          /\ \/ k \in reported'
                             \/ p \in DOMAIN disk' /\ disk'[p] = Archive[k].want
  BY DEF Accounted, Exists
<1>1. CASE p = target
  <2>1. i \in Finished(p)'
    BY <1>1, ArchiveAssumption DEF Finished, target, entry
  <2>2. \A m \in Finished(p)' : m <= i
    BY ArchiveAssumption DEF Finished
  <2>3. QED
    BY <1>1, <2>1, <2>2 DEF entry
<1>2. CASE p # target
  <2>1. Finished(p)' = Finished(p)
    BY <1>2, ArchiveAssumption DEF Finished, target, entry
  <2>2. QED
    BY <1>2, <2>1 DEF Accounted, InProgress, OthersKept, Exists
<1>3. QED
  BY <1>1, <1>2

\* Every step keeps every file accounted for.
LEMMA AccountedNext == IInv /\ Accounted /\ [Next]_vars => Accounted'
<1>. SUFFICES ASSUME IInv, Accounted, [Next]_vars PROVE Accounted'
  OBVIOUS
<1>1. CASE Start
  <2>1. \A p : Finished(p)' = {}
    BY <1>1, ArchiveAssumption DEF Start, Finished
  <2>2. QED
    BY <1>1, <2>1 DEF Start, Accounted, Exists
<1>2. CASE NextFile
  <2>1. i \in 1 .. Len(Archive)
    BY <1>2, ArchiveAssumption DEF NextFile, IInv, TypeOK
  <2>2. QED
    BY <1>2, <2>1, OthersKeptLemma, StayLemma DEF NextFile
<1>3. CASE Finish
  BY <1>3 DEF Finish, Accounted, InProgress, Finished, Exists, IInv, TypeOK
<1>4. CASE BackUpFile
  <2>1. i \in 1 .. Len(Archive)
    BY <1>4, AtEntryLemma
       DEF IInv, BackUpFile, BackUp, BackUpRefused, BackUpTorn, Working
  <2>2. OthersKept
    BY <1>4, <2>1, OthersKeptLemma
       DEF BackUpFile, BackUp, BackUpRefused, BackUpTorn
  <2>3. QED
    BY <1>4, <2>1, <2>2, StayLemma
       DEF BackUpFile, BackUp, BackUpRefused, BackUpTorn
<1>5. CASE HandleFile
  <2>1. i \in 1 .. Len(Archive)
    BY <1>5, AtEntryLemma
       DEF IInv, HandleFile, WriteTmp, WriteTmpFails, OpenOut, OpenOutFails,
           ReadOpens, ReadOpenFails, WriteChunk, ReadError, ReadEnd, Working
  <2>2. OthersKept
    BY <1>5, <2>1, OthersKeptLemma
       DEF HandleFile, WriteTmp, WriteTmpFails, OpenOut, OpenOutFails,
           ReadOpens, ReadOpenFails, WriteChunk, ReadError, ReadEnd
  <2>3. UNCHANGED <<i, reported, before>> /\ pc' \notin {"idle", "loop"}
    BY <1>5
       DEF HandleFile, WriteTmp, WriteTmpFails, OpenOut, OpenOutFails,
           ReadOpens, ReadOpenFails, WriteChunk, ReadError, ReadEnd
  <2>4. QED
    BY <2>1, <2>2, <2>3, StayLemma
<1>6. CASE IsFileCorrect
  <2>1. i \in 1 .. Len(Archive)
    BY <1>6, AtEntryLemma
       DEF IInv, IsFileCorrect, FileCorrect, FileIncorrect, CheckThrows, Working
  <2>2. OthersKept
    BY <1>6, <2>1, OthersKeptLemma
       DEF IsFileCorrect, FileCorrect, FileIncorrect, CheckThrows
  <2>3. CASE FileCorrect
    BY <2>1, <2>2, <2>3, AdvanceLemma DEF FileCorrect, IInv, TargetOpen, Exists
  <2>4. CASE FileIncorrect \/ CheckThrows
    BY <2>1, <2>2, <2>4, StayLemma DEF FileIncorrect, CheckThrows
  <2>5. QED
    BY <1>6, <2>3, <2>4 DEF IsFileCorrect
<1>7. CASE RestoreFile
  <2>1. i \in 1 .. Len(Archive)
    BY <1>7, AtEntryLemma
       DEF IInv, RestoreFile, RestoreRefused, Restore, RestoreTorn, Unlink,
           Working
  <2>2. OthersKept
    BY <1>7, <2>1, OthersKeptLemma
       DEF RestoreFile, RestoreRefused, Restore, RestoreTorn, Unlink
  <2>3. CASE Report /\ before' = before
    BY <2>1, <2>2, <2>3, AdvanceLemma DEF Report
  <2>4. CASE UNCHANGED <<i, reported, before>> /\ pc' \notin {"idle", "loop"}
    BY <2>1, <2>2, <2>4, StayLemma
  <2>5. QED
    BY <1>7, <2>3, <2>4
       DEF RestoreFile, RestoreRefused, Restore, RestoreTorn, Unlink
<1>8. CASE Kill
  <2>1. CASE i \in 1 .. Len(Archive)
    <3>1. OthersKept
      BY <1>8, <2>1, OthersKeptLemma DEF Kill
    <3>2. QED
      BY <1>8, <2>1, <3>1, StayLemma DEF Kill
  <2>2. CASE i \notin 1 .. Len(Archive)
    <3>1. pc # "read" /\ ~(i <= Len(Archive))
      BY <2>2, ArchiveAssumption DEF IInv, TypeOK, AtEntry, Working
    <3>2. QED
      BY <1>8, <3>1 DEF Kill, Accounted, InProgress, Finished, Exists
  <2>3. QED
    BY <2>1, <2>2
<1>9. CASE Vanish
  <2>1. i \in 1 .. Len(Archive)
    BY <1>9, AtEntryLemma DEF Vanish, IInv, Working
  <2>2. OthersKept
    BY <1>9, <2>1, OthersKeptLemma DEF Vanish
  <2>3. QED
    BY <1>9, <2>1, <2>2, StayLemma DEF Vanish
<1>10. CASE UNCHANGED vars
  BY <1>10 DEF vars, Accounted, InProgress, Finished, Exists, target, entry
<1>11. QED
  BY <1>1, <1>2, <1>3, <1>4, <1>5, <1>6, <1>7, <1>8, <1>9, <1>10
     DEF Next, Unpack

\* Before the first run every file is as it was.
LEMMA AccountedInit == Init => Accounted
  BY ArchiveAssumption DEF Init, Accounted, Finished, Exists

-----------------------------------------------------------------------------
(* Nothing of the user's is lost in a run without I/O errors *)

\* Where the target may have been written or may be written next.
Acting == Working \ {"loop", "backup"}

\* A step that leaves the directory alone, with a whole backup behind it
\* wherever the target may be written next.
LEMMA KeepLemma ==
  ASSUME IInv, RInv, UNCHANGED <<disk, before>>, pc # "aborted",
         pc' \in Acting =>
           /\ i' = i /\ i \in 1 .. Len(Archive)
           /\ pc \in Acting \/ Exists(backup) \/ ~Exists(target)
  PROVE  RInv'
<1>1. Recoverable' /\ WholeBackups'
  BY DEF RInv, Recoverable, WholeBackups, Fresh, Exists
<1>2. ASSUME pc' \in Acting, Fresh(target)
      PROVE  Exists(backup) /\ disk[backup] = before[target]
  <2>1. target \in Targets
    BY <1>2, EntryLemma
  <2>2. QED
    BY <1>2, <2>1
       DEF RInv, Recoverable, WholeBackups, BackedUpFirst, Acting, backup
<1>3. BackedUpFirst'
  BY <1>2 DEF BackedUpFirst, Acting, Fresh, Exists, backup, target, entry
<1>4. QED
  BY <1>1, <1>3 DEF RInv

\* A step that writes or removes the target when its backup was made.
LEMMA TargetLemma ==
  ASSUME IInv, RInv, pc \in Acting, UNCHANGED <<i, before>>,
         \/ \E c : disk' = Put(disk, target, c)
         \/ disk' = Drop(disk, target)
  PROVE  RInv'
<1>1. i \in 1 .. Len(Archive)
  BY AtEntryLemma DEF IInv, Acting
<1>2. target \in Targets /\ backup \notin Targets
  BY <1>1, EntryLemma
<1>3. pc # "aborted" /\ pc \in Working \ {"loop", "backup"}
  BY DEF Acting, Working
<1>4. \A q : q # target => /\ q \in DOMAIN disk' <=> q \in DOMAIN disk
                           /\ q \in DOMAIN disk => disk'[q] = disk[q]
  BY DEF Put, Drop
<1>5. \A p \in Targets : Bak[p] # target
  BY <1>2, BakAssumption
<1>6. ASSUME Fresh(target)
      PROVE  backup \in DOMAIN disk' /\ disk'[backup] = before[target]
  <2>1. backup \in DOMAIN disk /\ disk[backup] = before[target]
    BY <1>3, <1>6 DEF RInv, BackedUpFirst, Exists
  <2>2. backup # target
    BY <1>2
  <2>3. QED
    BY <1>4, <2>1, <2>2
<1>7. Recoverable'
  <2>1. SUFFICES ASSUME NEW p \in Targets, Fresh(p)
                 PROVE  \/ p \in DOMAIN disk' /\ disk'[p] = before[p]
                        \/ Bak[p] \in DOMAIN disk' /\ disk'[Bak[p]] = before[p]
    BY DEF Recoverable, Fresh, Exists
  <2>2. CASE p = target
    BY <1>6, <2>1, <2>2 DEF backup
  <2>3. CASE p # target
    <3>1. \/ p \in DOMAIN disk /\ disk[p] = before[p]
          \/ Bak[p] \in DOMAIN disk /\ disk[Bak[p]] = before[p]
      BY <2>1 DEF RInv, Recoverable, Exists
    <3>2. p \in DOMAIN disk => p \in DOMAIN disk' /\ disk'[p] = disk[p]
      BY <1>4, <2>3
    <3>3. Bak[p] \in DOMAIN disk =>
            Bak[p] \in DOMAIN disk' /\ disk'[Bak[p]] = disk[Bak[p]]
      BY <1>4, <1>5
    <3>4. QED
      BY <3>1, <3>2, <3>3
  <2>4. QED
    BY <2>2, <2>3
<1>8. WholeBackups'
  <2>1. SUFFICES ASSUME NEW p \in Targets, Fresh(p), Bak[p] \in DOMAIN disk'
                 PROVE  disk'[Bak[p]] = before[p]
    BY DEF WholeBackups, Fresh, Exists
  <2>2. Bak[p] \in DOMAIN disk /\ disk'[Bak[p]] = disk[Bak[p]]
    BY <1>4, <1>5, <2>1
  <2>3. QED
    BY <1>3, <2>1, <2>2 DEF RInv, WholeBackups, Exists
<1>9. BackedUpFirst'
  BY <1>6 DEF BackedUpFirst, Fresh, Exists, backup, target, entry
<1>10. QED
  BY <1>7, <1>8, <1>9 DEF RInv

\* A step that makes the backup, whole or torn; after a torn one the process is
\* no longer there.
LEMMA CopyLemma ==
  ASSUME IInv, RInv, pc = "backup", UNCHANGED <<i, before>>,
         Exists(target), ~Exists(backup),
         NEW c, disk' = Put(disk, backup, c),
         \/ c = disk[target]
         \/ pc' = "aborted"
  PROVE  RInv'
<1>1. i \in 1 .. Len(Archive)
  BY AtEntryLemma DEF IInv, Working
<1>2. target \in Targets /\ backup \notin Targets
  BY <1>1, EntryLemma
<1>3. /\ backup \in DOMAIN disk' /\ disk'[backup] = c
      /\ \A q : q # backup => /\ q \in DOMAIN disk' <=> q \in DOMAIN disk
                              /\ q \in DOMAIN disk => disk'[q] = disk[q]
  BY DEF Put
<1>4. \A p \in Targets : Bak[p] = backup => p = target
  BY <1>2, BakAssumption DEF backup
<1>5. Fresh(target) => disk[target] = before[target]
  BY <1>2 DEF RInv, Recoverable, backup
<1>6. Recoverable'
  <2>1. SUFFICES ASSUME NEW p \in Targets, Fresh(p)
                 PROVE  \/ p \in DOMAIN disk' /\ disk'[p] = before[p]
                        \/ Bak[p] \in DOMAIN disk' /\ disk'[Bak[p]] = before[p]
    BY DEF Recoverable, Fresh, Exists
  <2>2. p # backup
    BY <1>2
  <2>3. p \in DOMAIN disk => p \in DOMAIN disk' /\ disk'[p] = disk[p]
    BY <1>3, <2>2
  <2>4. \/ p \in DOMAIN disk /\ disk[p] = before[p]
        \/ Bak[p] \in DOMAIN disk /\ disk[Bak[p]] = before[p]
    BY <2>1 DEF RInv, Recoverable, Exists
  <2>5. Bak[p] \in DOMAIN disk => Bak[p] # backup
    BY DEF Exists
  <2>6. Bak[p] \in DOMAIN disk =>
          Bak[p] \in DOMAIN disk' /\ disk'[Bak[p]] = disk[Bak[p]]
    BY <1>3, <2>5
  <2>7. QED
    BY <2>3, <2>4, <2>6
<1>7. WholeBackups'
  <2>1. SUFFICES ASSUME pc' # "aborted",
                        NEW p \in Targets, Fresh(p), Bak[p] \in DOMAIN disk'
                 PROVE  disk'[Bak[p]] = before[p]
    BY DEF WholeBackups, Fresh, Exists
  <2>2. CASE Bak[p] = backup
    BY <1>3, <1>4, <1>5, <2>1, <2>2
  <2>3. CASE Bak[p] # backup
    <3>1. Bak[p] \in DOMAIN disk /\ disk'[Bak[p]] = disk[Bak[p]]
      BY <1>3, <2>1, <2>3
    <3>2. QED
      BY <2>1, <3>1 DEF RInv, WholeBackups, Exists
  <2>4. QED
    BY <2>2, <2>3
<1>8. BackedUpFirst'
  BY <1>3, <1>5, <1>2
     DEF BackedUpFirst, Fresh, Exists, Working, backup, target, entry
<1>9. QED
  BY <1>6, <1>7, <1>8 DEF RInv

\* Every step keeps it, when copies, writes and checks do not fail half way.
LEMMA RInvNext ==
  ASSUME "io" \notin Faults, IInv, RInv, [Next]_vars
  PROVE  RInv'
<1>0. pc \in Working \ {"loop"} => i \in 1 .. Len(Archive)
  BY AtEntryLemma DEF IInv
<1>1. CASE Start
  BY <1>1
     DEF Start, RInv, Recoverable, WholeBackups, BackedUpFirst, Fresh, Exists
<1>2. CASE NextFile \/ Finish
  BY <1>2, KeepLemma DEF NextFile, Finish, Acting, Working
<1>3. CASE BackUpFile
  <2>1. CASE BackUp
    BY <2>1, CopyLemma DEF BackUp
  <2>2. CASE BackUpRefused
    BY <1>0, <2>2, KeepLemma DEF BackUpRefused, Acting, Working
  <2>3. CASE BackUpTorn
    <3>1. PICK c : disk' = Put(disk, backup, c)
      BY <2>3 DEF BackUpTorn
    <3>2. QED
      BY <2>3, <3>1, CopyLemma DEF BackUpTorn
  <2>4. QED
    BY <1>3, <2>1, <2>2, <2>3 DEF BackUpFile
<1>4. CASE HandleFile
  <2>1. CASE OpenOut
    BY <2>1, TargetLemma DEF OpenOut, Acting, Working
  <2>2. CASE ReadEnd
    BY <1>0, <2>2, KeepLemma DEF ReadEnd, Acting, Working
  <2>3. CASE WriteChunk
    <3>1. pc = "read" /\ pc' = "read" /\ UNCHANGED <<i, before>>
      BY <2>3 DEF WriteChunk
    <3>2. CASE UNCHANGED disk
      BY <1>0, <3>1, <3>2, KeepLemma DEF Acting, Working
    <3>3. CASE \E c : disk' = Put(disk, target, c)
      BY <3>1, <3>3, TargetLemma DEF Acting, Working
    <3>4. QED
      BY <2>3, <3>2, <3>3 DEF WriteChunk
  <2>4. CASE WriteTmp \/ WriteTmpFails \/ OpenOutFails
    BY <1>0, <2>4, KeepLemma
       DEF WriteTmp, WriteTmpFails, OpenOutFails, Acting, Working
  <2>5. CASE ReadOpens \/ ReadOpenFails \/ ReadError
    BY <1>0, <2>5, KeepLemma
       DEF ReadOpens, ReadOpenFails, ReadError, Acting, Working
  <2>6. QED
    BY <1>4, <2>1, <2>2, <2>3, <2>4, <2>5 DEF HandleFile
<1>5. CASE IsFileCorrect
  BY <1>0, <1>5, KeepLemma
     DEF IsFileCorrect, FileCorrect, FileIncorrect, CheckThrows, Acting, Working
<1>6. CASE RestoreFile
  <2>1. CASE RestoreRefused
    BY <2>1, KeepLemma DEF RestoreRefused, Report, Acting, Working
  <2>2. CASE Restore
    BY <2>2, TargetLemma DEF Restore, Acting, Working
  <2>3. CASE RestoreTorn
    BY <2>3, TargetLemma DEF RestoreTorn, Acting, Working
  <2>4. CASE Unlink
    <3>1. i \in 1 .. Len(Archive)
      BY <1>0, <2>4 DEF Unlink, Working
    <3>2. target \in Targets /\ backup \notin Targets
      BY <3>1, EntryLemma
    <3>3. target \in DOMAIN disk /\ disk[target] = disk[backup]
      BY <2>4 DEF Unlink, IInv, TargetOpen, RestoredFirst, Exists
    <3>4. disk' = Drop(disk, backup)
      BY <2>4 DEF Unlink
    <3>5. Fresh(target) => disk[target] = before[target]
      BY <2>4, <3>3 DEF Unlink, RInv, BackedUpFirst, Working
    <3>6. \A p \in Targets : Bak[p] = backup => p = target
      BY <3>2, BakAssumption DEF backup
    <3>7. /\ backup \notin DOMAIN disk'
          /\ \A q : q # backup => /\ q \in DOMAIN disk' <=> q \in DOMAIN disk
                                  /\ q \in DOMAIN disk => disk'[q] = disk[q]
      BY <3>4 DEF Drop
    <3>8. pc # "aborted" /\ pc' = "loop" /\ before' = before
      BY <2>4 DEF Unlink, Report
    <3>9. Recoverable'
      <4>1. SUFFICES ASSUME NEW p \in Targets, Fresh(p)
                     PROVE  \/ p \in DOMAIN disk' /\ disk'[p] = before[p]
                            \/ Bak[p] \in DOMAIN disk' /\ disk'[Bak[p]] = before[p]
        BY <3>8 DEF Recoverable, Fresh, Exists
      <4>2. p # backup
        BY <3>2
      <4>3. p \in DOMAIN disk => p \in DOMAIN disk' /\ disk'[p] = disk[p]
        BY <3>7, <4>2
      <4>4. CASE p = target
        BY <3>3, <3>5, <4>1, <4>3, <4>4
      <4>5. CASE p # target
        <5>1. \/ p \in DOMAIN disk /\ disk[p] = before[p]
              \/ Bak[p] \in DOMAIN disk /\ disk[Bak[p]] = before[p]
          BY <4>1 DEF RInv, Recoverable, Exists
        <5>2. Bak[p] # backup
          BY <3>6, <4>5
        <5>3. Bak[p] \in DOMAIN disk =>
                Bak[p] \in DOMAIN disk' /\ disk'[Bak[p]] = disk[Bak[p]]
          BY <3>7, <5>2
        <5>4. QED
          BY <4>3, <5>1, <5>3
      <4>6. QED
        BY <4>4, <4>5
    <3>10. WholeBackups'
      <4>1. SUFFICES ASSUME NEW p \in Targets, Fresh(p), Bak[p] \in DOMAIN disk'
                     PROVE  disk'[Bak[p]] = before[p]
        BY <3>8 DEF WholeBackups, Fresh, Exists
      <4>2. Bak[p] # backup
        BY <3>7, <4>1
      <4>3. Bak[p] \in DOMAIN disk /\ disk'[Bak[p]] = disk[Bak[p]]
        BY <3>7, <4>1, <4>2
      <4>4. QED
        BY <3>8, <4>1, <4>3 DEF RInv, WholeBackups, Exists
    <3>11. BackedUpFirst'
      BY <3>8 DEF BackedUpFirst
    <3>12. QED
      BY <3>9, <3>10, <3>11 DEF RInv
  <2>5. QED
    BY <1>6, <2>1, <2>2, <2>3, <2>4 DEF RestoreFile
<1>7. CASE Kill
  <2>1. CASE pc = "read"
    BY <1>7, <2>1, TargetLemma DEF Kill, Acting, Working
  <2>2. CASE pc # "read"
    BY <1>7, <2>2, KeepLemma DEF Kill, Acting, Working
  <2>3. QED
    BY <2>1, <2>2
<1>8. CASE Vanish
  BY <1>8, TargetLemma DEF Vanish, Acting, Working
<1>9. CASE UNCHANGED vars
  BY <1>9 DEF vars, RInv, Recoverable, WholeBackups, BackedUpFirst, Fresh,
              Exists, backup, target, entry
<1>10. QED
  BY <1>1, <1>2, <1>3, <1>4, <1>5, <1>6, <1>7, <1>8, <1>9 DEF Next, Unpack

\* Before the first run nothing was touched.
LEMMA RInvInit == Init => RInv
  BY DEF Init, RInv, Recoverable, WholeBackups, BackedUpFirst, Fresh, Exists,
         Working

-----------------------------------------------------------------------------
(* The patcher implements Replacement *)

\* The copies Replacement knows are the backups that are remembered.
LEMMA CopiesLemma == IInv => Copies = saved
<1>. SUFFICES ASSUME IInv PROVE Copies = saved
  OBVIOUS
<1>1. saved = [p \in DOMAIN saved |-> saved[p]]
  BY DEF IInv, TypeOK, IsTree
<1>2. \A p \in DOMAIN saved : Exists(Bak[p]) /\ disk[Bak[p]] = saved[p]
  BY DEF IInv, BackupIntact
<1>3. {q \in DOMAIN saved : Exists(Bak[q])} = DOMAIN saved
  BY <1>2
<1>4. Copies = [p \in DOMAIN saved |-> disk[Bak[p]]]
  BY <1>3 DEF Copies
<1>5. [p \in DOMAIN saved |-> disk[Bak[p]]] = [p \in DOMAIN saved |-> saved[p]]
  BY <1>2
<1>6. QED
  BY <1>1, <1>4, <1>5

\* And so it is after a step.
LEMMA NextCopiesLemma == IInv' => Copies' = saved'
<1>1. (IInv => Copies = saved)'
  BY CopiesLemma, PTL
<1>2. QED
  BY <1>1

\* A step that leaves the remembered backups alone leaves the copies alone.
LEMMA SameCopies ==
  ASSUME IInv, IInv', saved' = saved
  PROVE  Copies' = Copies
<1>1. Copies = saved /\ Copies' = saved'
  BY CopiesLemma, NextCopiesLemma
<1>2. QED
  BY <1>1

\* A step that changes no other target changes no other file of Replacement.
LEMMA OnlyTargetLemma ==
  ASSUME i \in 1 .. Len(Archive), OthersKept
  PROVE  R!OnlyThisFile
<1>1. R!path = target
  BY DEF R!path, target, entry
<1>2. /\ DOMAIN Files = DOMAIN disk \cap Targets
      /\ \A p \in DOMAIN Files : Files[p] = disk[p]
      /\ DOMAIN Files' = DOMAIN disk' \cap Targets
      /\ \A p \in DOMAIN Files' : Files'[p] = disk'[p]
  BY DEF Files
<1>3. QED
  BY <1>1, <1>2 DEF R!OnlyThisFile, OthersKept

\* A step that writes a path that is no target leaves all files alone.
LEMMA SameFiles ==
  ASSUME NEW q, q \notin Targets, NEW c,
         disk' = Put(disk, q, c) \/ disk' = Drop(disk, q)
  PROVE  Files' = Files
<1>1. DOMAIN disk' \cap Targets = DOMAIN disk \cap Targets
  BY DEF Put, Drop
<1>2. \A p \in DOMAIN disk \cap Targets : disk'[p] = disk[p]
  BY DEF Put, Drop
<1>3. QED
  BY <1>1, <1>2 DEF Files

\* While the current entry is worked on, its target is all that changes.
LEMMA ReplaceLemma ==
  ASSUME IInv, IInv', i \in 1 .. Len(Archive), OthersKept,
         Stage = "replacing", Stage' = "replacing",
         UNCHANGED <<i, reported, saved>>
  PROVE  R!Next
<1>1. R!OnlyThisFile /\ Copies' = Copies
  BY OnlyTargetLemma, SameCopies
<1>2. QED
  BY <1>1 DEF R!Next, R!Replace

\* A run that dies leaves every other file alone, and this one too when it was
\* not being replaced.
LEMMA DieLemma ==
  ASSUME IInv, IInv', Stage \in {"between", "keeping", "replacing"}, Stage' = "stopped",
         IF Stage = "replacing" THEN i \in 1 .. Len(Archive) /\ OthersKept
                                ELSE Files' = Files,
         UNCHANGED <<i, reported, saved>>
  PROVE  R!Next
<1>1. Copies' = Copies
  BY SameCopies
<1>2. Stage = "replacing" => R!OnlyThisFile
  BY OnlyTargetLemma
<1>3. R!Die
  BY <1>1, <1>2 DEF R!Die
<1>4. QED
  BY <1>3 DEF R!Next

\* A mismatch is reported with the backup still there.
LEMMA RefuseLemma ==
  ASSUME IInv, IInv', i \in 1 .. Len(Archive), OthersKept,
         Stage = "replacing", Report, saved' = saved
  PROVE  R!Next
<1>1. R!OnlyThisFile /\ Copies' = Copies
  BY OnlyTargetLemma, SameCopies
<1>2. R!Pass /\ reported' = reported \cup {i}
  BY DEF R!Pass, Report, Stage, Halted
<1>3. R!Refuse
  BY <1>1, <1>2 DEF R!Refuse
<1>4. QED
  BY <1>3 DEF R!Next

\* Where the process works on an entry it is neither between two nor at an end.
LEMMA StageLemma ==
  /\ pc \in Working \ {"loop", "backup"} => Stage = "replacing"
  /\ pc \in {"idle", "aborted"} => Stage = "stopped"
  /\ pc = "done" => Stage = "finished"
  /\ pc = "loop" => Stage = "between"
  /\ pc = "backup" => Stage = "keeping"
  BY DEF Stage, Working, Halted

\* BackUpFile is Keep when the copy is whole, and KeepNone when it is not.
LEMMA BackUpImplements ==
  ASSUME IInv, IInv', BackUpFile
  PROVE  R!Next
<1>1. i \in 1 .. Len(Archive) /\ pc = "backup"
  BY AtEntryLemma
     DEF IInv, BackUpFile, BackUp, BackUpRefused, BackUpTorn, Working
<1>2. /\ target \in Targets /\ backup \notin Targets
      /\ R!path = target /\ Stage = "keeping"
      /\ pc' = "tmpfile" => Stage' = "replacing"
      /\ pc' = "aborted" => Stage' = "stopped"
  BY <1>1, EntryLemma DEF R!path, entry, target, Stage, Halted
<1>3. CASE BackUp
  <2>1. Files' = Files
    BY <1>2, <1>3, SameFiles DEF BackUp
  <2>2. target \notin DOMAIN saved
    BY <1>3 DEF BackUp, IInv, BackupIntact, Exists, backup
  <2>3. saved' = Put(saved, target, disk[target])
    BY <1>3, <2>2 DEF BackUp, Remember
  <2>4. Copies = saved /\ Copies' = saved'
    BY CopiesLemma, NextCopiesLemma
  <2>5. target \in DOMAIN Files /\ Files[target] = disk[target]
    BY <1>2, <1>3 DEF BackUp, Exists, Files
  <2>6. R!Keep
    BY <1>2, <1>3, <2>1, <2>2, <2>3, <2>4, <2>5 DEF BackUp, R!Keep, Put
  <2>7. QED
    BY <2>6 DEF R!Next
<1>4. CASE BackUpRefused
  <2>1. Copies' = Copies /\ Files' = Files
    BY <1>4, SameCopies DEF BackUpRefused, Files
  <2>2. R!KeepNone
    BY <1>2, <1>4, <2>1 DEF BackUpRefused, R!KeepNone
  <2>3. QED
    BY <2>2 DEF R!Next
<1>5. CASE BackUpTorn
  <2>1. Files' = Files
    BY <1>2, <1>5, SameFiles DEF BackUpTorn
  <2>2. Copies' = Copies
    BY <1>5, SameCopies DEF BackUpTorn
  <2>3. CASE pc' = "tmpfile"
    <3>1. R!KeepNone
      BY <1>2, <1>5, <2>1, <2>2, <2>3 DEF BackUpTorn, R!KeepNone
    <3>2. QED
      BY <3>1 DEF R!Next
  <2>4. CASE pc' = "aborted"
    BY <1>2, <1>5, <2>1, <2>4, DieLemma DEF BackUpTorn
  <2>5. QED
    BY <1>5, <2>3, <2>4 DEF BackUpTorn
<1>6. QED
  BY <1>3, <1>4, <1>5 DEF BackUpFile

\* HandleFile is Replace, or dies.
LEMMA HandleImplements ==
  ASSUME IInv, IInv', HandleFile
  PROVE  R!Next
<1>1. i \in 1 .. Len(Archive) /\ pc \in Working \ {"loop", "backup"}
  BY AtEntryLemma
     DEF IInv, HandleFile, WriteTmp, WriteTmpFails, OpenOut, OpenOutFails,
         ReadOpens, ReadOpenFails, WriteChunk, ReadError, ReadEnd, Working
<1>2. OthersKept
  BY <1>1, OthersKeptLemma
     DEF HandleFile, WriteTmp, WriteTmpFails, OpenOut, OpenOutFails,
         ReadOpens, ReadOpenFails, WriteChunk, ReadError, ReadEnd
<1>3. UNCHANGED <<i, reported, saved>>
  BY DEF HandleFile, WriteTmp, WriteTmpFails, OpenOut, OpenOutFails,
         ReadOpens, ReadOpenFails, WriteChunk, ReadError, ReadEnd
<1>4. pc' \in (Working \ {"loop", "backup"}) \cup {"aborted"}
  BY <1>1 DEF HandleFile, WriteTmp, WriteTmpFails, OpenOut, OpenOutFails,
         ReadOpens, ReadOpenFails, WriteChunk, ReadError, ReadEnd, Working
<1>5. Stage = "replacing"
  BY <1>1, StageLemma
<1>6. CASE pc' = "aborted"
  <2>1. Stage' = "stopped"
    BY <1>6 DEF Stage, Halted
  <2>2. QED
    BY <1>1, <1>2, <1>3, <1>5, <2>1, DieLemma
<1>7. CASE pc' \in Working \ {"loop", "backup"}
  <2>1. Stage' = "replacing"
    BY <1>7 DEF Stage, Halted, Working
  <2>2. QED
    BY <1>1, <1>2, <1>3, <1>5, <2>1, ReplaceLemma
<1>8. QED
  BY <1>4, <1>6, <1>7

\* IsFileCorrect is Accept, goes on to the restore, or dies.
LEMMA CheckImplements ==
  ASSUME IInv, IInv', IsFileCorrect
  PROVE  R!Next
<1>1. i \in 1 .. Len(Archive) /\ pc = "check" /\ UNCHANGED <<disk, reported, saved>>
  BY AtEntryLemma
     DEF IInv, IsFileCorrect, FileCorrect, FileIncorrect, CheckThrows, Working
<1>2. OthersKept /\ Stage = "replacing"
  BY <1>1, OthersKeptLemma DEF Stage, Halted
<1>3. CASE FileCorrect
  <2>1. Files' = Files /\ Copies' = Copies
    BY <1>1, SameCopies DEF Files
  <2>2. target \in DOMAIN Files /\ Files[target] = entry.want
    BY <1>1, <1>3, EntryLemma DEF FileCorrect, Files, IInv, TargetOpen, Exists
  <2>3. R!path = target /\ R!want = entry.want
    BY DEF R!path, R!want, target, entry
  <2>4. R!Pass
    BY <1>2, <1>3 DEF FileCorrect, R!Pass, Stage, Halted
  <2>5. R!Accept
    BY <1>1, <2>1, <2>2, <2>3, <2>4 DEF R!Accept
  <2>6. QED
    BY <2>5 DEF R!Next
<1>4. CASE FileIncorrect
  <2>1. Stage' = "replacing"
    BY <1>4 DEF FileIncorrect, Stage, Halted
  <2>2. QED
    BY <1>1, <1>2, <1>4, <2>1, ReplaceLemma DEF FileIncorrect
<1>5. CASE CheckThrows
  <2>1. Stage' = "stopped"
    BY <1>5 DEF CheckThrows, Stage, Halted
  <2>2. QED
    BY <1>1, <1>2, <1>5, <2>1, DieLemma DEF CheckThrows
<1>6. QED
  BY <1>3, <1>4, <1>5 DEF IsFileCorrect

\* RestoreFile changes the target, and then is Refuse when a backup stays and
\* GiveBack when a whole one goes.
LEMMA RestoreImplements ==
  ASSUME IInv, IInv', RestoreFile
  PROVE  R!Next
<1>1. i \in 1 .. Len(Archive) /\ pc \in {"restore", "unlink"}
  BY AtEntryLemma
     DEF IInv, RestoreFile, RestoreRefused, Restore, RestoreTorn, Unlink, Working
<1>2. /\ target \in Targets /\ backup \notin Targets
      /\ R!path = target /\ Stage = "replacing"
  BY <1>1, EntryLemma DEF R!path, entry, target, Stage, Halted
<1>3. OthersKept
  BY <1>1, OthersKeptLemma
     DEF RestoreFile, RestoreRefused, Restore, RestoreTorn, Unlink
<1>4. CASE RestoreRefused
  BY <1>1, <1>2, <1>3, <1>4, RefuseLemma DEF RestoreRefused
<1>5. CASE Restore
  <2>1. Stage' = "replacing"
    BY <1>5 DEF Restore, Stage, Halted
  <2>2. QED
    BY <1>1, <1>2, <1>3, <1>5, <2>1, ReplaceLemma DEF Restore
<1>6. CASE RestoreTorn
  <2>1. CASE Report
    BY <1>1, <1>2, <1>3, <1>6, <2>1, RefuseLemma DEF RestoreTorn
  <2>2. CASE pc' = "aborted" /\ UNCHANGED <<i, reported>>
    <3>1. Stage' = "stopped"
      BY <2>2 DEF Stage, Halted
    <3>2. QED
      BY <1>1, <1>2, <1>3, <1>6, <2>2, <3>1, DieLemma DEF RestoreTorn
  <2>3. QED
    BY <1>6, <2>1, <2>2 DEF RestoreTorn
<1>7. CASE Unlink
  <2>1. pc = "unlink" /\ Report
    BY <1>7 DEF Unlink
  <2>2. CASE UNCHANGED <<disk, saved>>
    BY <1>1, <1>2, <1>3, <2>1, <2>2, RefuseLemma
  <2>3. CASE disk' = Drop(disk, backup) /\ saved' = Drop(saved, target)
    <3>1. Files' = Files
      BY <1>2, <2>3, SameFiles
    <3>2. CASE target \notin DOMAIN saved
      <4>1. saved = [p \in DOMAIN saved |-> saved[p]]
        BY DEF IInv, TypeOK, IsTree
      <4>2. saved' = saved
        BY <2>3, <3>2, <4>1 DEF Drop
      <4>3. QED
        BY <1>1, <1>2, <1>3, <2>1, <4>2, RefuseLemma
    <3>3. CASE target \in DOMAIN saved
      <4>1. Copies = saved /\ Copies' = saved'
        BY CopiesLemma, NextCopiesLemma
      <4>2. Exists(target) /\ disk[target] = saved[target]
        BY <2>1, <3>3
           DEF IInv, TargetOpen, RestoredFirst, BackupIntact, backup
      <4>3. target \in DOMAIN Files /\ Files[target] = disk[target]
        BY <1>2, <4>2 DEF Exists, Files
      <4>4. R!Pass /\ reported' = reported \cup {i}
        BY <1>2, <2>1 DEF R!Pass, Report, Stage, Halted
      <4>5. R!GiveBack
        BY <1>2, <2>3, <3>1, <3>3, <4>1, <4>2, <4>3, <4>4 DEF R!GiveBack, Drop
      <4>6. QED
        BY <4>5 DEF R!Next
    <3>4. QED
      BY <3>2, <3>3
  <2>4. QED
    BY <1>7, <2>2, <2>3 DEF Unlink
<1>8. QED
  BY <1>4, <1>5, <1>6, <1>7 DEF RestoreFile

\* The kill is Die, and the loss of the target a change of the file at hand.
LEMMA EnvironmentImplements ==
  ASSUME IInv, IInv', Kill \/ Vanish
  PROVE  R!Next
<1>1. CASE Kill
  <2>1. Stage' = "stopped" /\ Stage \in {"between", "keeping", "replacing"}
    BY <1>1 DEF Kill, Stage, Working, Halted
  <2>2. CASE pc \in {"loop", "backup"}
    <3>1. Files' = Files /\ Stage # "replacing"
      BY <1>1, <2>2 DEF Kill, Files, Stage, Halted
    <3>2. QED
      BY <1>1, <2>1, <3>1, DieLemma DEF Kill
  <2>3. CASE pc \in Working \ {"loop", "backup"}
    <3>1. i \in 1 .. Len(Archive)
      BY <2>3, AtEntryLemma DEF IInv
    <3>2. OthersKept
      BY <1>1, <3>1, OthersKeptLemma DEF Kill
    <3>3. Stage = "replacing"
      BY <2>3, StageLemma
    <3>4. QED
      BY <1>1, <2>1, <3>1, <3>2, <3>3, DieLemma DEF Kill
  <2>4. QED
    BY <1>1, <2>2, <2>3 DEF Kill
<1>2. CASE Vanish
  <2>1. i \in 1 .. Len(Archive)
    BY <1>2, AtEntryLemma DEF Vanish, IInv, Working
  <2>2. OthersKept
    BY <1>2, <2>1, OthersKeptLemma DEF Vanish
  <2>3. Stage = "replacing" /\ Stage' = "replacing"
    BY <1>2 DEF Vanish, Stage, Halted
  <2>4. QED
    BY <1>2, <2>1, <2>2, <2>3, ReplaceLemma DEF Vanish
<1>3. QED
  BY <1>1, <1>2

\* Every step is a step of Replacement, or a stutter.
LEMMA ReplacementNext ==
  ASSUME IInv, IInv', [Next]_vars
  PROVE  [R!Next]_(R!vars)
<1>1. CASE Start \/ NextFile \/ Finish
  <2>1. Files' = Files /\ Copies' = Copies
    BY <1>1, SameCopies DEF Start, NextFile, Finish, Files
  <2>2. CASE Start
    <3>1. Stage \in {"stopped", "finished"} /\ Stage' = "between"
      BY <2>2 DEF Start, Stage, Halted
    <3>2. R!Begin
      BY <2>1, <2>2, <3>1 DEF Start, R!Begin
    <3>3. QED
      BY <3>2 DEF R!Next
  <2>3. CASE NextFile
    <3>1. Stage = "between" /\ Stage' = "keeping"
      BY <2>3 DEF NextFile, Stage, Halted
    <3>2. R!Take
      BY <2>1, <2>3, <3>1 DEF NextFile, R!Take
    <3>3. QED
      BY <3>2 DEF R!Next
  <2>4. CASE Finish
    <3>1. Stage = "between" /\ Stage' = "finished"
      BY <2>4 DEF Finish, Stage, Halted
    <3>2. R!Finish
      BY <2>1, <2>4, <3>1 DEF Finish, R!Finish
    <3>3. QED
      BY <3>2 DEF R!Next
  <2>5. QED
    BY <1>1, <2>2, <2>3, <2>4
<1>2. CASE UNCHANGED vars
  BY <1>2 DEF vars, R!vars, Files, Copies, Stage, Exists
<1>3. QED
  BY <1>1, <1>2, BackUpImplements, HandleImplements, CheckImplements,
     RestoreImplements, EnvironmentImplements DEF Next, Unpack

-----------------------------------------------------------------------------
(* Theorems *)

\* The inductive invariant holds in every run.
THEOREM Inductive == Spec => []IInv
<1>1. IInv /\ [Next]_vars => IInv'
  BY IInvNext
<1>2. QED
  BY IInvInit, <1>1, PTL DEF Spec

\* Type correctness: the directory is always a tree, the index stays within
\* control[] or one behind it, and only targets have remembered backups.
THEOREM TypeCorrect == Spec => []TypeOK
<1>1. IInv => TypeOK
  BY DEF IInv
<1>2. QED
  BY Inductive, <1>1, PTL

\* BackUpFile and RestoreFile never damage, replace or lose a complete backup,
\* for every archive, every kind of failure and any number of runs.
THEOREM BackupsKept == Spec => []BackupIntact
<1>1. IInv => BackupIntact
  BY DEF IInv
<1>2. QED
  BY Inductive, <1>1, PTL

\* Unpack passes no wrong content over in silence: at every moment, whatever
\* failed and whenever the process died, each file but the one in progress is
\* untouched by this run, or holds what its last entry records, or is reported.
THEOREM AllAccounted == Spec => []Accounted
<1>1. IInv /\ Accounted /\ [Next]_vars => Accounted'
  BY AccountedNext
<1>2. QED
  BY AccountedInit, Inductive, <1>1, PTL DEF Spec

\* RestoreFile gives no backup up before the file holds its content again.
THEOREM ReleasedAfterRestore == Spec => BackupReleased
<1>1. ASSUME IInv, [Next]_vars, NEW p \in Targets,
             Exists(Bak[p]), Bak[p] \notin DOMAIN disk'
      PROVE  p \in DOMAIN disk' /\ disk'[p] = disk[Bak[p]]
  <2>1. Bak[p] \notin Targets
    BY BakAssumption
  <2>2. CASE Unlink
    <3>1. i \in 1 .. Len(Archive)
      BY <1>1, <2>2, AtEntryLemma DEF Unlink, IInv, Working
    <3>2. target \in Targets /\ backup # target
      BY <3>1, EntryLemma
    <3>3. disk' = Drop(disk, backup) /\ Bak[p] = backup
      BY <1>1, <2>2 DEF Unlink, Exists, Drop
    <3>4. p = target
      BY <3>2, <3>3, BakAssumption DEF backup
    <3>5. target \in DOMAIN disk /\ disk[target] = disk[backup]
      BY <1>1, <2>2 DEF Unlink, IInv, TargetOpen, RestoredFirst, Exists
    <3>6. QED
      BY <3>2, <3>3, <3>4, <3>5 DEF Drop
  <2>3. CASE Vanish
    <3>1. i \in 1 .. Len(Archive)
      BY <1>1, <2>3, AtEntryLemma DEF Vanish, IInv, Working
    <3>2. target \in Targets
      BY <3>1, EntryLemma
    <3>3. QED
      BY <1>1, <2>1, <2>3, <3>2 DEF Vanish, Exists, Drop
  <2>4. CASE ~Unlink /\ ~Vanish
    <3>1. DOMAIN disk \subseteq DOMAIN disk'
      BY <1>1, <2>4
         DEF Next, vars, Start, Unpack, NextFile, Finish, Kill, BackUpFile,
             BackUp, BackUpRefused, BackUpTorn, HandleFile, WriteTmp,
             WriteTmpFails, OpenOut, OpenOutFails, ReadOpens, ReadOpenFails,
             WriteChunk, ReadError, ReadEnd, IsFileCorrect, FileCorrect,
             FileIncorrect, CheckThrows, RestoreFile, RestoreRefused, Restore,
             RestoreTorn, Put
    <3>2. QED
      BY <1>1, <3>1 DEF Exists
  <2>5. QED
    BY <2>2, <2>3, <2>4
<1>2. IInv /\ [Next]_vars =>
        [\A p \in Targets :
           (Exists(Bak[p]) /\ Bak[p] \notin DOMAIN disk') =>
              p \in DOMAIN disk' /\ disk'[p] = disk[Bak[p]]]_vars
  BY <1>1
<1>3. QED
  BY Inductive, <1>2, PTL DEF Spec, BackupReleased

\* Where BackUpFile cannot break off and be survived, a run loses nothing: what
\* the user had is in the file or in its ".bal", even when the process is killed
\* at any step, even in the middle of a copy.
THEOREM NothingLost == ASSUME "io" \notin Faults PROVE Spec => []Recoverable
<1>1. IInv /\ RInv /\ [Next]_vars => RInv'
  BY RInvNext
<1>2. RInv => Recoverable
  BY DEF RInv
<1>3. QED
  BY RInvInit, Inductive, <1>1, <1>2, PTL DEF Spec

\* The patcher implements Replacement: for every archive, every choice of faults
\* and any number of runs, what the user has on the disk changes by no other
\* steps than an orderly replacement of one file after the other makes.
THEOREM Implements == Spec => Replaces
<1>1. Init => R!Init
  <2>1. ASSUME Init PROVE Copies = [p \in {} |-> <<>>]
    BY <2>1 DEF Init, Copies, EmptyTree
  <2>2. QED
    BY <2>1 DEF Init, R!Init, Stage, Halted
<1>2. IInv /\ IInv' /\ [Next]_vars => [R!Next]_(R!vars)
  BY ReplacementNext
<1>3. QED
  BY <1>1, <1>2, Inductive, PTL DEF Spec, Replaces, R!Spec
=============================================================================
