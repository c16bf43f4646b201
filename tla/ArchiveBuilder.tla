--------------------------- MODULE ArchiveBuilder ---------------------------
(***************************************************************************)
(* The packer (archiver/archiver.cpp): ArchiveBuilder compresses the files *)
(* of a configuration and writes patcher/archive.h, the C++ source of the  *)
(* three arrays the patcher is compiled with: data[], the compressed bytes *)
(* of all files; control[], one FileMemoryDefinition per file; archive[],  *)
(* the FileArchiveDefinition with the totals.                              *)
(*                                                                         *)
(* The text is kept as its array declarations, and a declaration as its    *)
(* initializers with whether a comma stands before each.  A byte of data[] *)
(* is an initializer; the bytes of one structure in control[] or archive[] *)
(* are taken together as one.                                              *)
(***************************************************************************)
EXTENDS Integers, Sequences

CONSTANTS
  Source,     \* OnCreatorPath: paths of files on the creator's machine
  UserPath,   \* RelativeUserPath: paths on the user's machine
  Content,    \* what a file can contain
  Byte,       \* the bytes of compressed data
  Junk,       \* what lies behind the end of a buffer
  Lz4,        \* what LZ4_compress_default makes of a content, nothing if it refuses
  TextMode,   \* TextMode[c]: what a read of c as text leaves in a buffer of its size
  Zeroed,     \* Zeroed[c] is c with zeros for the bytes of its end
  Jobs,       \* the vectors AddFiles may be called with
  MaxCalls,   \* bound: how many times AddFiles is called
  Faults      \* the faults that may happen: "read", "short", "write", "memory"

Config == [onCreator : Source, relative : UserPath]

\* An element of files: FileMemoryDefinition, with the content standing for
\* its crc32 and originSize.
Definition == [relative : UserPath, offset : Nat, compressedSize : Nat,
               content : Content]

ASSUME BuilderAssumption ==
  /\ Jobs \subseteq Seq(Config)
  /\ Lz4 \in [Content -> Seq(Byte)]
  /\ TextMode \in [Content -> Content]
  /\ Zeroed \in [Content -> Content]
  /\ MaxCalls \in Nat
  /\ Faults \subseteq {"read", "short", "write", "memory"}

Totals == [SizeOfFMMArray : Nat, SizeOfData : Nat]

VARIABLES
  creator,       \* the files on the creator's machine
  text,          \* the declarations archive_file has taken
  stream,        \* archive_file accepts writes
  new_section,   \* a declaration is open
  append_comma,  \* the open declaration has an initializer
  files,         \* the definitions of the files added
  files_def,     \* their number and the size of data[]
  todo,          \* what AddFiles has still to add
  asked,         \* history: the vectors AddFiles was called with
  lost,          \* history: a definition could not be kept
  pc

vars == <<creator, text, stream, new_section, append_comma, files, files_def,
          todo, asked, lost, pc>>

writer == <<text, stream, new_section, append_comma>>

Initializer == [comma : BOOLEAN, val : Byte \cup {Junk} \cup Definition \cup Totals]

Declaration == [sec : {"data", "control", "archive"}, items : Seq(Initializer),
                closed : BOOLEAN]

TypeOK ==
  /\ DOMAIN creator \subseteq Source /\ creator \in [DOMAIN creator -> Content]
  /\ text \in Seq(Declaration)
  /\ stream \in BOOLEAN /\ new_section \in BOOLEAN /\ append_comma \in BOOLEAN
  /\ files \in Seq(Definition)
  /\ files_def \in Totals
  /\ todo \in Seq(Config)
  /\ asked \in Seq(Jobs) /\ Len(asked) <= MaxCalls
  /\ lost \in BOOLEAN
  /\ pc \in {"new", "ready", "adding", "totals", "closed", "crashed"}

-----------------------------------------------------------------------------
(* ArchiveWriter *)

\* Initializers of a declaration: the first with a comma before it or not.
Items(comma, vals) ==
  [k \in 1 .. Len(vals) |-> [comma |-> comma \/ k > 1, val |-> vals[k]]]

\* WriteToSection writes *ptr before it looks at size.
Written(vals) == IF vals = <<>> THEN <<Junk>> ELSE vals

\* The text with its last declaration closed, if one is open.
Ended(t, open) ==
  [k \in 1 .. Len(t) |-> [t[k] EXCEPT !.closed = @ \/ (open /\ k = Len(t))]]

\* ... with a new declaration behind it, and with initializers added to the last.
Opened(t, open, sec) ==
  Append(Ended(t, open), [sec |-> sec, items |-> <<>>, closed |-> FALSE])

Filled(t, comma, vals) ==
  [t EXCEPT ![Len(t)].items = @ \o Items(comma, Written(vals))]

\* archive_file takes what is written to it, or fails, silently and for good.
\* How much of the text a failed stream has let through is left open.
Emit(t) ==
  \/ stream /\ text' = t /\ UNCHANGED stream
  \/ (~stream \/ "write" \in Faults) /\ stream' = FALSE /\ UNCHANGED text

AddSection(sec) ==
  /\ Emit(Opened(text, new_section, sec))
  /\ new_section' = TRUE
  /\ append_comma' = FALSE

WriteToSection(vals) ==
  /\ Emit(Filled(text, append_comma, vals))
  /\ append_comma' = TRUE
  /\ UNCHANGED new_section

\* Mutant of Declare: AddSection does not reset append_comma.
DeclareCommaFirst(sec, vals) ==
  /\ Emit(Filled(Opened(text, new_section, sec), append_comma, vals))
  /\ new_section' = TRUE
  /\ append_comma' = TRUE

\* AddSection(sec) and then WriteToSection(vals).
Declare(sec, vals) ==
  /\ Emit(Filled(Opened(text, new_section, sec), FALSE, vals))
  /\ new_section' = TRUE
  /\ append_comma' = TRUE

-----------------------------------------------------------------------------
(* ArchiveBuilder *)

\* The constructor opens ./patcher/archive.h and does not look at the result:
\* without a directory ./patcher nothing will be written.
Construct ==
  /\ pc = "new"
  /\ stream' \in IF "write" \in Faults THEN BOOLEAN ELSE {TRUE}
  /\ pc' = "ready"
  /\ UNCHANGED <<creator, text, new_section, append_comma, files, files_def,
                 todo, asked, lost>>

\* AddFiles begins: the declaration of data[].
AddFiles ==
  /\ pc = "ready"
  /\ Len(asked) < MaxCalls
  /\ \E job \in Jobs : todo' = job /\ asked' = Append(asked, job)
  /\ AddSection("data")
  /\ pc' = "adding"
  /\ UNCHANGED <<creator, files, files_def, lost>>

\* Mutant of conf: the vector is taken from its end.
ConfLast == todo[Len(todo)]

\* The range-for of AddFiles.
conf == Head(todo)

\* compress: exists, file_size and open pass, or throw.
Readable == conf.onCreator \in DOMAIN creator

\* What compress may have of a file after stream.read.  The stream is opened as
\* text: Windows joins each 0x0D 0x0A to one 0x0A and takes 0x1A for the end.  How
\* many bytes came is not looked at: the rest of the buffer, which is as long as
\* file_size said, is as make_unique zeroed it; and when the file was cut
\* meanwhile ("short") so is what is missing.
ReadOf(path) ==
  LET text_of == TextMode[creator[path]]
  IN  {text_of} \cup IF "short" \in Faults THEN {Zeroed[text_of]} ELSE {}

Buffers == ReadOf(conf.onCreator)

\* compress comes back with the buffer's bytes; they are written to data[].
WriteData(content) ==
  /\ WriteToSection(Lz4[content])
  /\ todo' = Tail(todo)

\* The definition AddFile makes for a buffer, and the totals it leaves.
Described(content, offset) ==
  [relative |-> conf.relative, offset |-> offset,
   compressedSize |-> Len(Lz4[content]), content |-> content]

\* Mutant of Counted: SizeOfFMMArray is not counted up.
CountedBytes(content) ==
  [files_def EXCEPT !.SizeOfData = @ + Len(Lz4[content])]

Counted(content) ==
  [SizeOfFMMArray |-> files_def.SizeOfFMMArray + 1,
   SizeOfData     |-> files_def.SizeOfData + Len(Lz4[content])]

\* Mutant of AddFile: the offset counts back from the total.
AddFileCountsBack ==
  /\ pc = "adding"
  /\ todo # <<>>
  /\ Readable
  /\ \E content \in Buffers :
       /\ WriteData(content)
       /\ files' = Append(files,
            Described(content, files_def.SizeOfData - Len(Lz4[content])))
       /\ files_def' = Counted(content)
  /\ UNCHANGED <<creator, asked, lost, pc>>

\* Mutant of AddFile: SizeOfData grows before the offset is taken from it.
AddFileGrowsFirst ==
  /\ pc = "adding"
  /\ todo # <<>>
  /\ Readable
  /\ \E content \in Buffers :
       /\ WriteData(content)
       /\ files_def' = Counted(content)
       /\ files' = Append(files, Described(content, Counted(content).SizeOfData))
  /\ UNCHANGED <<creator, asked, lost, pc>>

\* AddFile: the bytes are written and their definition is kept.  A compression
\* that failed, which LZ4_compress_default reports with size 0, passes: this is
\* so for sizes beyond LZ4_MAX_INPUT_SIZE once they are an int.
AddFile ==
  /\ pc = "adding"
  /\ todo # <<>>
  /\ Readable
  /\ \E content \in Buffers :
       /\ WriteData(content)
       /\ files' = Append(files, Described(content, files_def.SizeOfData))
       /\ files_def' = Counted(content)
  /\ UNCHANGED <<creator, asked, lost, pc>>

\* AddFile when files.push_back throws: logged, with the bytes in data[].
AddFileHalf ==
  /\ pc = "adding"
  /\ todo # <<>>
  /\ Readable
  /\ "memory" \in Faults
  /\ \E content \in Buffers : WriteData(content)
  /\ lost' = TRUE
  /\ UNCHANGED <<creator, files, files_def, asked, pc>>

\* AddFile when compress throws: logged, and the file is left out.
AddFileThrows ==
  /\ pc = "adding"
  /\ todo # <<>>
  /\ ~Readable \/ "read" \in Faults
  /\ todo' = Tail(todo)
  /\ UNCHANGED <<creator, writer, files, files_def, asked, lost, pc>>

\* AddFiles goes on with control[].
AddControl ==
  /\ pc = "adding"
  /\ todo = <<>>
  /\ files # <<>>
  /\ Declare("control", files)
  /\ pc' = "totals"
  /\ UNCHANGED <<creator, files, files_def, todo, asked, lost>>

\* With no file added files.data() is null, and WriteToSection reads it.
AddControlCrashes ==
  /\ pc = "adding"
  /\ todo = <<>>
  /\ files = <<>>
  /\ pc' = "crashed"
  /\ UNCHANGED <<creator, writer, files, files_def, todo, asked, lost>>

\* AddFiles ends with archive[].
AddArchive ==
  /\ pc = "totals"
  /\ Declare("archive", <<files_def>>)
  /\ pc' = "ready"
  /\ UNCHANGED <<creator, files, files_def, todo, asked, lost>>

\* The destructors of the builder and its writer.
Destroy ==
  /\ pc = "ready"
  /\ Emit(Ended(text, new_section))
  /\ pc' = "closed"
  /\ UNCHANGED <<creator, new_section, append_comma, files, files_def, todo, asked,
                 lost>>

-----------------------------------------------------------------------------
Init ==
  /\ \E S \in SUBSET Source : creator \in [S -> Content]
  /\ text = <<>>
  /\ stream = FALSE
  /\ new_section = FALSE
  /\ append_comma = FALSE
  /\ files = <<>>
  /\ files_def = [SizeOfFMMArray |-> 0, SizeOfData |-> 0]
  /\ todo = <<>>
  /\ asked = <<>>
  /\ lost = FALSE
  /\ pc = "new"

Next == \/ Construct \/ AddFiles \/ AddFile \/ AddFileHalf \/ AddFileThrows
        \/ AddControl \/ AddControlCrashes \/ AddArchive \/ Destroy

Spec == Init /\ [][Next]_vars

-----------------------------------------------------------------------------
(* Properties *)

\* LZ4_compress_default has refused one of the files before the k-th.
RefusedBefore(k) == \E m \in 1 .. k - 1 : Lz4[files[m].content] = <<>>

\* What data[offset .. offset + compressedSize) is for a definition.
Slice(f) == {j \in 1 .. f.compressedSize :
               /\ f.offset + j \in DOMAIN text[1].items
               /\ text[1].items[f.offset + j].val = Lz4[f.content][j]}

\* Every definition finds the compressed bytes of its own file where it says
\* they are in data[], whatever files before it failed: offset and
\* compressedSize agree with what WriteToSection has written.  A definition that
\* could not be kept after its bytes were written leaves offsets behind it wrong,
\* and so does a file the compressor refused, of which one byte is written.
SlicesMatch ==
  stream /\ ~lost => \A k \in 1 .. Len(files) :
    /\ files[k].compressedSize = Len(Lz4[files[k].content])
    /\ ~RefusedBefore(k) => Slice(files[k]) = 1 .. files[k].compressedSize

\* SizeOfData counts what is in data[]: every byte written has its definition, and
\* none was written for nothing.
Exact == ~lost /\ ~RefusedBefore(Len(files) + 1)

\* What the proofs add to make SlicesMatch inductive: before AddFiles is called
\* there is nothing; while it adds files data[] is the only declaration, and as
\* long as SizeOfData says.
Empty == files = <<>> /\ files_def.SizeOfData = 0 /\ text = <<>>

LInv ==
  /\ asked = <<>> => Empty /\ pc \in {"new", "ready", "closed"}
  /\ pc = "new" => asked = <<>>
  /\ stream /\ asked # <<>> => Len(text) >= 1
  /\ stream /\ pc = "adding" =>
       Len(text) = 1 /\ (Exact => Len(text[1].items) = files_def.SizeOfData)
  /\ SlicesMatch

\* An initializer list that compiles: not empty, and commas only between.
Separated(items) ==
  items # <<>> /\ \A k \in 1 .. Len(items) : items[k].comma <=> k > 1

\* The finished text declares each array once, closed and separated, with all
\* definitions in control[] and totals in archive[] that fit them and data[]
\* (AddSection, WriteToSection and the destructor over the whole of AddFiles).
WellFormed ==
  pc = "closed" /\ stream /\ Exact /\ asked # <<>> =>
    /\ Len(text) = 3
    /\ \A k \in 1 .. 3 : /\ text[k].closed
                         /\ Separated(text[k].items)
                         /\ text[k].sec = <<"data", "control", "archive">>[k]
    /\ [k \in 1 .. Len(text[2].items) |-> text[2].items[k].val] = files
    /\ text[3].items[1].val = [SizeOfFMMArray |-> Len(files),
                               SizeOfData     |-> Len(text[1].items)]

\* The definitions are, in the configuration's order, those of some of the files
\* it names: each with the user's path given for that very file and with what
\* was read of that file (AddFile skips a file it cannot read or keep, and mixes
\* none up).
Faithful ==
  \A job \in Jobs : asked = <<job>> =>
    \E h \in [1 .. Len(files) -> 1 .. Len(job)] :
      /\ \A k \in 2 .. Len(files) : h[k - 1] < h[k]
      /\ \A k \in 1 .. Len(files) :
           /\ files[k].relative = job[h[k]].relative
           /\ job[h[k]].onCreator \in DOMAIN creator
           /\ files[k].content \in ReadOf(job[h[k]].onCreator)

-----------------------------------------------------------------------------
(* The packer implements Package.  What is published is read out of the text *)
(* as Unpack reads the arrays it is compiled into.                           *)

\* The destructors have run, the stream took everything, no definition was lost
\* on the way and no file refused by the compressor.
Published == pc = "closed" /\ stream /\ Exact /\ asked # <<>>

\* SizeOfFMMArray structures of control[], each with its bytes in data[].
ReadBack ==
  [k \in 1 .. text[3].items[1].val.SizeOfFMMArray |->
     LET ptr == text[2].items[k].val
     IN  [relative |-> ptr.relative,
          bytes    |-> [j \in 1 .. ptr.compressedSize |-> text[1].items[ptr.offset + j].val]]]

Kept == [k \in 1 .. Len(files) |->
           [relative |-> files[k].relative, bytes |-> Lz4[files[k].content]]]

Stage == IF asked = <<>> THEN "new" ELSE IF Published THEN "published" ELSE "packing"

Out == IF Published THEN ReadBack ELSE <<>>

P == INSTANCE Package WITH left <- todo, kept <- Kept, stage <- Stage, out <- Out

\* The patcher that is compiled with the text finds in it the files that were
\* kept, all of them, in the configuration's order, each under its user's path
\* and with its own compressed bytes (AddFiles and everything it calls, against
\* Unpack's walk through control[] and data[]).
Packs == P!Spec
=============================================================================
