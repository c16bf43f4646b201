------------------------------ MODULE Patcher ------------------------------
(***************************************************************************)
(* The patcher that runs on the user's machine (patcher/patcher.cpp).      *)
(*                                                                         *)
(* Unpack walks the entries of the archive compiled into the program; for  *)
(* each of them it copies the user's file to a ".bal" backup, overwrites   *)
(* the file with what the entry decompresses to, compares checksum and     *)
(* size, and on a mismatch tries to put the backup back.  The model keeps  *)
(* every step that reads or writes the user's directory, every exception   *)
(* and where it is caught, the process dying between two steps, and the    *)
(* user running the program again over what an earlier run left behind.    *)
(*                                                                         *)
(* A file's content is a sequence of chunks, a chunk being what one call   *)
(* of LZ4F_read returns (at most 1024 bytes).  Two contents are equal      *)
(* exactly when their crc32 and their size are.                            *)
(***************************************************************************)
EXTENDS Integers, Sequences

CONSTANTS
  Chunk,      \* the chunks contents are made of
  Targets,    \* the paths the archive's entries name, below user_path
  Bak,        \* Bak[p] is the path of p's backup: p with ".bal" appended
  Archive,    \* control[]: the sequence of the archive's entries
  Originals,  \* the contents the user's files may have before the first run
  ReadBack,   \* what a read of tmp gives right after the write: see ReadOpens
  TextMode,   \* TextMode[c]: what a file opened as text holds for a chunk c
  Faults,     \* the faults of the environment that may happen
  MaxRuns     \* bound: how many times the user starts the program

Contents == Seq(Chunk)

Paths == Targets \cup {Bak[p] : p \in Targets}

(***************************************************************************)
(* An entry of control[], with what the library makes of its bytes:        *)
(* form    "frame" when the bytes are an LZ4 frame of 19 bytes or more,    *)
(*         "block" when they are anything else;                            *)
(* chunks  what the successive calls of LZ4F_read return;                  *)
(* fault   what the call after those gives: "none" the end of the frame,   *)
(*         "ends" an error and then the end, "stuck" the same error on     *)
(*         every further call, since LZ4F_read keeps its input on an error;*)
(* want    the content whose crc32 and originSize the entry records.       *)
(***************************************************************************)
Entry == [path : Targets, form : {"frame", "block"}, chunks : Contents,
          fault : {"none", "ends", "stuck"}, want : Contents]

ASSUME BakAssumption ==
  \A p \in Targets : /\ Bak[p] \notin Targets
                     /\ \A q \in Targets : Bak[p] = Bak[q] => p = q

ASSUME ArchiveAssumption == Archive \in Seq(Entry)

ASSUME EnvironmentAssumption ==
  /\ Originals \subseteq Contents
  /\ ReadBack \subseteq {"eof", "content"}
  /\ TextMode \in [Chunk -> Chunk]
  /\ Faults \subseteq {"io", "kill", "foreign"}
  /\ MaxRuns \in Nat

VARIABLES
  disk,       \* the files below user_path: a function on the paths that exist
  pc,         \* where the process is
  i,          \* the loop index of Unpack (from 1)
  good,       \* the ofstream on the target accepts writes
  pending,    \* the chunks the reader has still to return
  reported,   \* the entries whose mismatch this run has logged
  runs,       \* how many times the program was started
  saved,      \* history: what each complete backup was made from
  before      \* history: disk when this run started

vars == <<disk, pc, i, good, pending, reported, runs, saved, before>>

IsTree(t) == DOMAIN t \subseteq Paths /\ t \in [DOMAIN t -> Contents]

Working == {"loop", "backup", "tmpfile", "open", "readopen", "read",
            "check", "restore", "unlink"}

Halted == {"idle", "done", "aborted"}

TypeOK ==
  /\ IsTree(disk)
  /\ pc \in Working \cup Halted
  /\ i \in 1 .. Len(Archive) + 1
  /\ good \in BOOLEAN
  /\ pending \in Contents
  /\ reported \subseteq 1 .. Len(Archive)
  /\ runs \in 0 .. MaxRuns
  /\ IsTree(saved) /\ DOMAIN saved \subseteq Targets
  /\ IsTree(before)

-----------------------------------------------------------------------------
(* Files *)

Exists(p) == p \in DOMAIN disk

\* The tree with no file, the tree t with c at p, and t with nothing at p.
EmptyTree    == [q \in {} |-> <<>>]
Put(t, p, c) == [q \in DOMAIN t \cup {p} |-> IF q = p THEN c ELSE t[q]]
Drop(t, p)   == [q \in DOMAIN t \ {p} |-> t[q]]

\* History: the oldest complete backup that was not restored is the one kept.
Remember(t, p, c) == IF p \in DOMAIN t THEN t ELSE Put(t, p, c)

\* What a copy or a write that did not finish leaves of content c.
Torn(c) == {SubSeq(c, 1, n) : n \in 0 .. Len(c)}

entry  == Archive[i]
target == entry.path
backup == Bak[target]

-----------------------------------------------------------------------------
(* One run of Unpack *)

\* main() constructs the Unpacker on argv[1] and calls Unpack.
Start ==
  /\ pc \in Halted
  /\ runs < MaxRuns
  /\ pc' = "loop"
  /\ i' = 1
  /\ reported' = {}
  /\ runs' = runs + 1
  /\ before' = disk
  /\ UNCHANGED <<disk, good, pending, saved>>

\* Mutant of NextFile: the entry is unpacked without a backup.
NextFileUnsaved ==
  /\ pc = "loop"
  /\ i <= Len(Archive)
  /\ pc' = "tmpfile"
  /\ UNCHANGED <<disk, i, good, pending, reported, runs, saved, before>>

NextFile ==
  /\ pc = "loop"
  /\ i <= Len(Archive)
  /\ pc' = "backup"
  /\ UNCHANGED <<disk, i, good, pending, reported, runs, saved, before>>

\* Mutant of Finish: the loop ends before the last entry.
FinishEarly ==
  /\ pc = "loop"
  /\ i >= Len(Archive)
  /\ pc' = "done"
  /\ UNCHANGED <<disk, i, good, pending, reported, runs, saved, before>>

Finish ==
  /\ pc = "loop"
  /\ i > Len(Archive)
  /\ pc' = "done"
  /\ UNCHANGED <<disk, i, good, pending, reported, runs, saved, before>>

\* Mutant of BackUp: copy_options::overwrite_existing.
BackUpOverwrites ==
  /\ pc = "backup"
  /\ Exists(target)
  /\ disk' = Put(disk, backup, disk[target])
  /\ saved' = Remember(saved, target, disk[target])
  /\ pc' = "tmpfile"
  /\ UNCHANGED <<i, good, pending, reported, runs, before>>

\* BackUpFile: copy_file without options, which refuses an existing backup.
BackUp ==
  /\ pc = "backup"
  /\ Exists(target)
  /\ ~Exists(backup)
  /\ disk' = Put(disk, backup, disk[target])
  /\ saved' = Remember(saved, target, disk[target])
  /\ pc' = "tmpfile"
  /\ UNCHANGED <<i, good, pending, reported, runs, before>>

\* BackUpFile throws before it creates anything; Unpack logs and goes on.
BackUpRefused ==
  /\ pc = "backup"
  /\ ~Exists(target) \/ Exists(backup) \/ "io" \in Faults
  /\ pc' = "tmpfile"
  /\ UNCHANGED <<disk, i, good, pending, reported, runs, saved, before>>

\* The copy breaks off half way: by an I/O error, which BackUpFile throws and
\* Unpack swallows, or because the process dies.  What was copied stays.
BackUpTorn ==
  /\ pc = "backup"
  /\ Exists(target)
  /\ ~Exists(backup)
  /\ \E c \in Torn(disk[target]) \ {disk[target]} :
       disk' = Put(disk, backup, c)
  /\ \/ "io" \in Faults /\ pc' = "tmpfile"
     \/ "kill" \in Faults /\ pc' = "aborted"
  /\ UNCHANGED <<i, good, pending, reported, runs, saved, before>>

\* HandleFile: the entry's bytes go to a temporary file.
WriteTmp ==
  /\ pc = "tmpfile"
  /\ pc' = "open"
  /\ UNCHANGED <<disk, i, good, pending, reported, runs, saved, before>>

\* No temporary file (a null FILE*), or a short fwrite, which throws; nothing
\* above HandleFile catches, so the process ends.
WriteTmpFails ==
  /\ pc = "tmpfile"
  /\ "io" \in Faults
  /\ pc' = "aborted"
  /\ UNCHANGED <<disk, i, good, pending, reported, runs, saved, before>>

\* Mutant of OpenOut: the stream is opened with std::ios::app.
OpenOutAppends ==
  /\ pc = "open"
  /\ disk' = Put(disk, target, IF Exists(target) THEN disk[target] ELSE <<>>)
  /\ good' = TRUE
  /\ pc' = "readopen"
  /\ UNCHANGED <<i, pending, reported, runs, saved, before>>

\* std::ofstream out(path): creates the target, or empties it.  Without
\* std::ios::binary it is opened as text, see WriteChunk.
OpenOut ==
  /\ pc = "open"
  /\ disk' = Put(disk, target, <<>>)
  /\ good' = TRUE
  /\ pc' = "readopen"
  /\ UNCHANGED <<i, pending, reported, runs, saved, before>>

\* The stream did not open: DecompressFile throws.
OpenOutFails ==
  /\ pc = "open"
  /\ "io" \in Faults
  /\ pc' = "aborted"
  /\ UNCHANGED <<disk, i, good, pending, reported, runs, saved, before>>

\* LZ4F_readOpen reads the header of the frame from tmp.  HandleFile has just
\* written tmp and has not repositioned it, so what the read gives is left
\* undefined by C: the end of the file ("eof"), which is where the position
\* is, or the bytes from the start ("content"), which the code relies on.
ReadOpens ==
  /\ pc = "readopen"
  /\ "content" \in ReadBack
  /\ entry.form = "frame"
  /\ pending' = entry.chunks
  /\ pc' = "read"
  /\ UNCHANGED <<disk, i, good, reported, runs, saved, before>>

\* LZ4F_readOpen fails: fewer than 19 bytes came, they are no frame header, or
\* no memory was left.  DecompressFile throws with the target already empty.
ReadOpenFails ==
  /\ pc = "readopen"
  /\ "eof" \in ReadBack \/ entry.form # "frame" \/ "io" \in Faults
  /\ pc' = "aborted"
  /\ UNCHANGED <<disk, i, good, pending, reported, runs, saved, before>>

\* One turn of the loop: read_size > 0 bytes were read and are written, as
\* text: where the system ends lines with two characters, as Windows does, the
\* file gets both for each 0x0A of the chunk.  When writing fails, what the
\* stream still held in its buffer is lost too.
WriteChunk ==
  /\ pc = "read"
  /\ pending # <<>>
  /\ pending' = Tail(pending)
  /\ \/ good /\ disk' = Put(disk, target, Append(disk[target], TextMode[Head(pending)]))
             /\ UNCHANGED good
     \/ ~good /\ UNCHANGED <<disk, good>>
     \/ "io" \in Faults /\ good' = FALSE
                       /\ \E c \in Torn(disk[target]) : disk' = Put(disk, target, c)
  /\ UNCHANGED <<pc, i, reported, runs, saved, before>>

\* LZ4F_read returns an error code.  The code tests ret, which it never
\* assigns, so the code (a huge size_t, negative as a streamsize) is written
\* as a length: the stream goes bad and the loop takes another turn.
ReadError ==
  /\ pc = "read"
  /\ pending = <<>>
  /\ entry.fault # "none"
  /\ good' = FALSE
  /\ UNCHANGED <<disk, pc, i, pending, reported, runs, saved, before>>

\* LZ4F_read returns 0: the loop ends, tmp and the target are closed; the
\* flush of out.close() may fail, which nobody looks at.
ReadEnd ==
  /\ pc = "read"
  /\ pending = <<>>
  /\ entry.fault = "none" \/ (entry.fault = "ends" /\ ~good)
  /\ pc' = "check"
  /\ \/ UNCHANGED disk
     \/ "io" \in Faults /\ \E c \in Torn(disk[target]) : disk' = Put(disk, target, c)
  /\ UNCHANGED <<i, good, pending, reported, runs, saved, before>>

\* Mutant of FileCorrect: the sizes are compared, the checksums are not.
FileSameSize ==
  /\ pc = "check"
  /\ Len(disk[target]) = Len(entry.want)
  /\ i' = i + 1
  /\ pc' = "loop"
  /\ UNCHANGED <<disk, good, pending, reported, runs, saved, before>>

\* IsFileCorrect holds.
FileCorrect ==
  /\ pc = "check"
  /\ disk[target] = entry.want
  /\ i' = i + 1
  /\ pc' = "loop"
  /\ UNCHANGED <<disk, good, pending, reported, runs, saved, before>>

\* It does not hold, or crc32b takes a read error for the end of the file.
FileIncorrect ==
  /\ pc = "check"
  /\ disk[target] # entry.want \/ "io" \in Faults
  /\ pc' = "restore"
  /\ UNCHANGED <<disk, i, good, pending, reported, runs, saved, before>>

\* crc32b cannot open the target, or file_size fails; nothing catches it.
CheckThrows ==
  /\ pc = "check"
  /\ "io" \in Faults
  /\ pc' = "aborted"
  /\ UNCHANGED <<disk, i, good, pending, reported, runs, saved, before>>

\* Mutants of Report: the index is advanced twice, or the entry tried again.
ReportSkips ==
  /\ reported' = reported \cup {i}
  /\ i' = i + 2
  /\ pc' = "loop"

ReportRetries ==
  /\ reported' = reported \cup {i}
  /\ i' = i
  /\ pc' = "loop"

\* The end of the mismatch branch: the error is logged whatever became of
\* RestoreFile, and the loop goes on.
Report ==
  /\ reported' = reported \cup {i}
  /\ i' = i + 1
  /\ pc' = "loop"

\* RestoreFile throws before it changes anything: there is no backup, or
\* copy_file refuses because the target exists.
RestoreRefused ==
  /\ pc = "restore"
  /\ ~Exists(backup) \/ Exists(target) \/ "io" \in Faults
  /\ Report
  /\ UNCHANGED <<disk, good, pending, runs, saved, before>>

\* RestoreFile copies the backup to the target.
Restore ==
  /\ pc = "restore"
  /\ Exists(backup)
  /\ ~Exists(target)
  /\ disk' = Put(disk, target, disk[backup])
  /\ pc' = "unlink"
  /\ UNCHANGED <<i, good, pending, reported, runs, saved, before>>

\* Mutant of RestoreTorn: the error of the copy is ignored.
RestoreTornGoesOn ==
  /\ pc = "restore"
  /\ Exists(backup)
  /\ ~Exists(target)
  /\ \E c \in Torn(disk[backup]) \ {disk[backup]} :
       disk' = Put(disk, target, c)
  /\ "io" \in Faults
  /\ pc' = "unlink"
  /\ UNCHANGED <<i, good, pending, reported, runs, saved, before>>

RestoreTorn ==
  /\ pc = "restore"
  /\ Exists(backup)
  /\ ~Exists(target)
  /\ \E c \in Torn(disk[backup]) \ {disk[backup]} :
       disk' = Put(disk, target, c)
  /\ \/ "io" \in Faults /\ Report
     \/ "kill" \in Faults /\ pc' = "aborted" /\ UNCHANGED <<i, reported>>
  /\ UNCHANGED <<good, pending, runs, saved, before>>

\* RestoreFile removes the backup; when that fails it throws, to the same end.
Unlink ==
  /\ pc = "unlink"
  /\ \/ disk' = Drop(disk, backup) /\ saved' = Drop(saved, target)
     \/ "io" \in Faults /\ UNCHANGED <<disk, saved>>
  /\ Report
  /\ UNCHANGED <<good, pending, runs, before>>

-----------------------------------------------------------------------------
(* The environment *)

\* The process is killed.  What the ofstream had not flushed is lost.
Kill ==
  /\ "kill" \in Faults
  /\ pc \in Working
  /\ pc' = "aborted"
  /\ IF pc = "read"
     THEN \E c \in Torn(disk[target]) : disk' = Put(disk, target, c)
     ELSE UNCHANGED disk
  /\ UNCHANGED <<i, good, pending, reported, runs, saved, before>>

\* Another program, an antivirus say, takes the broken file away between the
\* check and the restore: the only moment at which copy_file can succeed.
Vanish ==
  /\ "foreign" \in Faults
  /\ pc = "restore"
  /\ Exists(target)
  /\ disk' = Drop(disk, target)
  /\ UNCHANGED <<pc, i, good, pending, reported, runs, saved, before>>

-----------------------------------------------------------------------------
Init ==
  /\ \E D \in SUBSET Paths : disk \in [D -> Originals]
  /\ pc = "idle"
  /\ i = 1
  /\ good = TRUE
  /\ pending = <<>>
  /\ reported = {}
  /\ runs = 0
  /\ saved = EmptyTree
  /\ before = disk

BackUpFile  == BackUp \/ BackUpRefused \/ BackUpTorn
HandleFile  == \/ WriteTmp \/ WriteTmpFails \/ OpenOut \/ OpenOutFails
               \/ ReadOpens \/ ReadOpenFails
               \/ WriteChunk \/ ReadError \/ ReadEnd
IsFileCorrect == FileCorrect \/ FileIncorrect \/ CheckThrows
RestoreFile == RestoreRefused \/ Restore \/ RestoreTorn \/ Unlink

\* What the program itself does; Kill and Vanish are done to it.
Unpack == NextFile \/ Finish \/ BackUpFile \/ HandleFile \/ IsFileCorrect
          \/ RestoreFile

Next == Start \/ Unpack \/ Kill \/ Vanish

Spec == Init /\ [][Next]_vars

\* A running process keeps running until it ends.
FairSpec == Spec /\ WF_vars(Unpack)

-----------------------------------------------------------------------------
(* Properties *)

\* A complete backup is never damaged, replaced or lost: what the user had when
\* it was made stays in the ".bal" file through every later entry, failure,
\* kill and new run, until a restore has put it back (BackUpFile, RestoreFile).
BackupIntact ==
  \A p \in DOMAIN saved : /\ Exists(Bak[p])
                          /\ disk[Bak[p]] = saved[p]

\* RestoreFile gives a backup up only when the file it backs holds that very
\* content again: copy first, and remove only after a copy that succeeded.
BackupReleased ==
  [][\A p \in Targets :
        (Exists(Bak[p]) /\ Bak[p] \notin DOMAIN disk') =>
           p \in DOMAIN disk' /\ disk'[p] = disk[Bak[p]]]_vars

\* The entries of p that Unpack has finished with in this run.
Finished(p) == {k \in 1 .. Len(Archive) : k < i /\ Archive[k].path = p}

InProgress(p) ==
  i <= Len(Archive) /\ target = p /\ pc \notin {"idle", "loop"}

\* At every moment, of a run that goes on, ended or died, every file but the
\* one in progress is as the run found it, or is what the last entry for it
\* should give, or was reported: no wrong content is passed over in silence.
Accounted ==
  \A p \in Targets :
    \/ InProgress(p)
    \/ Finished(p) = {} /\ (Exists(p) <=> p \in DOMAIN before)
                        /\ (Exists(p) => disk[p] = before[p])
    \/ \E k \in Finished(p) :
         /\ \A m \in Finished(p) : m <= k
         /\ k \in reported \/ (Exists(p) /\ disk[p] = Archive[k].want)

\* The user had p when this run began, and no ".bal" was in its way.
Fresh(p) == p \in DOMAIN before /\ Bak[p] \notin DOMAIN before

\* While a run goes on and after it ended or died, what the user had in a fresh
\* file when the run began is still in the file or in its ".bal" copy (the
\* order of BackUpFile and HandleFile).  It takes a BackUpFile that does the
\* whole copy or stops the run: with "io" among the faults it does not hold.
Recoverable ==
  \A p \in Targets :
    Fresh(p) => \/ Exists(p) /\ disk[p] = before[p]
                \/ Exists(Bak[p]) /\ disk[Bak[p]] = before[p]

\* What makes Recoverable inductive without "io": as long as the process lives
\* a backup made in this run is whole, and there is one before the target is
\* touched.
WholeBackups ==
  pc # "aborted" =>
    \A p \in Targets :
      Fresh(p) /\ Exists(Bak[p]) => disk[Bak[p]] = before[p]

BackedUpFirst ==
  pc \in Working \ {"loop", "backup"} /\ Fresh(target) =>
    Exists(backup) /\ disk[backup] = before[target]

RInv == Recoverable /\ WholeBackups /\ BackedUpFirst

\* What the proofs add to make BackupIntact and Accounted inductive: past the
\* head of the loop there is a current entry; its target is there from the
\* moment out is opened; and before the backup is removed the target holds it.
AtEntry == pc \in Working \ {"loop"} => i <= Len(Archive)

TargetOpen == pc \in {"readopen", "read", "check", "unlink"} => Exists(target)

RestoredFirst ==
  pc = "unlink" => Exists(backup) /\ disk[target] = disk[backup]

IInv == TypeOK /\ AtEntry /\ TargetOpen /\ RestoredFirst /\ BackupIntact

\* A started run ends: Unpack returns or the process dies.
Terminates == (pc = "loop") ~> (pc \in {"done", "aborted"})

\* Writing the entry as text leaves it as it is.
PlainText(e) == \A n \in DOMAIN e.chunks : TextMode[e.chunks[n]] = e.chunks[n]

\* Every path the archive names holds what the last entry for it records, and
\* an entry that was written as other bytes was at least reported.
Delivered ==
  \A k \in 1 .. Len(Archive) :
    \/ \E m \in k + 1 .. Len(Archive) : Archive[m].path = Archive[k].path
    \/ Exists(Archive[k].path) /\ disk[Archive[k].path] = Archive[k].want
    \/ ~PlainText(Archive[k]) /\ k \in reported

\* A started run comes to its end with every compressed file unpacked, but for
\* those that a stream opened as text cannot write (Unpack, HandleFile).
Delivers == (pc = "loop" /\ i = 1) ~> (pc = "done" /\ Delivered)

\* The user's files, the complete backups of them, and where Unpack is, as
\* Replacement has them.
Files  == [p \in DOMAIN disk \cap Targets |-> disk[p]]
Copies == [p \in {q \in DOMAIN saved : Exists(Bak[q])} |-> disk[Bak[p]]]
Stage  == CASE pc \in {"idle", "aborted"} -> "stopped"
            [] pc = "done"    -> "finished"
            [] pc = "loop"    -> "between"
            [] pc = "backup"  -> "keeping"
            [] OTHER          -> "replacing"

R == INSTANCE Replacement WITH files <- Files, copies <- Copies, stage <- Stage, at <- i

\* The patcher keeps to Replacement in every step of every run, whatever fails
\* and wherever it is killed (Unpack).
Replaces == R!Spec
=============================================================================
