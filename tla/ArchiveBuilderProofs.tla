------------------------ MODULE ArchiveBuilderProofs ------------------------
(***************************************************************************)
(* Proofs about ArchiveBuilder for every configuration, all file contents  *)
(* and every compressor.                                                   *)
(***************************************************************************)
EXTENDS ArchiveBuilder, SequenceTheorems, TLAPS

Value == Byte \cup {Junk} \cup Definition \cup Totals

\* Initializers are as many as the values they are made from, and carry them.
LEMMA ItemsLemma ==
  ASSUME NEW comma \in BOOLEAN, NEW vals \in Seq(Value)
  PROVE  /\ Items(comma, vals) \in Seq(Initializer)
         /\ Len(Items(comma, vals)) = Len(vals)
         /\ \A k \in 1 .. Len(vals) : Items(comma, vals)[k].val = vals[k]
  BY DEF Items, Initializer, Value

\* WriteToSection writes what it is given, and something even for nothing.
LEMMA WrittenLemma ==
  ASSUME NEW vals \in Seq(Value)
  PROVE  /\ Written(vals) \in Seq(Value)
         /\ vals # <<>> => Written(vals) = vals
<1>1. <<Junk>> \in Seq(Value)
  BY DEF Value
<1>2. QED
  BY <1>1 DEF Written

\* Changing one field of a declaration gives a declaration.
LEMMA FieldLemma ==
  ASSUME NEW d \in Declaration, NEW b \in BOOLEAN, NEW v \in Seq(Initializer)
  PROVE  /\ [d EXCEPT !.closed = b] \in Declaration
         /\ [d EXCEPT !.closed = b].items = d.items
         /\ [d EXCEPT !.items = v] \in Declaration
         /\ [d EXCEPT !.items = v].items = v
         /\ d.items \in Seq(Initializer) /\ d.closed \in BOOLEAN
  BY DEF Declaration

\* Closing the last declaration keeps the initializers of all.
LEMMA EndedLemma ==
  ASSUME NEW t \in Seq(Declaration), NEW open \in BOOLEAN
  PROVE  /\ Ended(t, open) \in Seq(Declaration)
         /\ Len(Ended(t, open)) = Len(t)
         /\ \A k \in 1 .. Len(t) : Ended(t, open)[k].items = t[k].items
<1>. DEFINE D(k) == [t[k] EXCEPT !.closed = t[k].closed \/ (open /\ k = Len(t))]
<1>1. ASSUME NEW k \in 1 .. Len(t)
      PROVE  D(k) \in Declaration /\ D(k).items = t[k].items
  <2>1. t[k] \in Declaration
    OBVIOUS
  <2>2. t[k].closed \/ (open /\ k = Len(t)) \in BOOLEAN
    OBVIOUS
  <2>3. <<>> \in Seq(Initializer)
    OBVIOUS
  <2>4. QED
    BY <2>1, <2>2, <2>3, FieldLemma
<1>2. Ended(t, open) = [k \in 1 .. Len(t) |-> D(k)]
  BY DEF Ended
<1>. HIDE DEF D
<1>3. QED
  BY <1>1, <1>2

\* A new declaration comes behind the others, and is empty.
LEMMA OpenedLemma ==
  ASSUME NEW t \in Seq(Declaration), NEW open \in BOOLEAN,
         NEW sec \in {"data", "control", "archive"}
  PROVE  /\ Opened(t, open, sec) \in Seq(Declaration)
         /\ Len(Opened(t, open, sec)) = Len(t) + 1
         /\ Opened(t, open, sec)[Len(t) + 1].items = <<>>
         /\ \A k \in 1 .. Len(t) : Opened(t, open, sec)[k].items = t[k].items
<1>. DEFINE d == [sec |-> sec, items |-> <<>>, closed |-> FALSE]
<1>1. d \in Declaration
  BY DEF Declaration
<1>2. QED
  BY <1>1, EndedLemma DEF Opened

\* Writing to a section adds to the last declaration what is written.
LEMMA FilledLemma ==
  ASSUME NEW t \in Seq(Declaration), t # <<>>, NEW comma \in BOOLEAN,
         NEW vals \in Seq(Value)
  PROVE  /\ Filled(t, comma, vals) \in Seq(Declaration)
         /\ Len(Filled(t, comma, vals)) = Len(t)
         /\ \A k \in 1 .. Len(t) - 1 : Filled(t, comma, vals)[k] = t[k]
         /\ Filled(t, comma, vals)[Len(t)].items
              = t[Len(t)].items \o Items(comma, Written(vals))
<1>1. Items(comma, Written(vals)) \in Seq(Initializer)
  BY ItemsLemma, WrittenLemma
<1>. DEFINE n == Len(t)
             v == t[n].items \o Items(comma, Written(vals))
             e == [t[n] EXCEPT !.items = v]
<1>2. n \in 1 .. Len(t) /\ t[n] \in Declaration
  OBVIOUS
<1>3. v \in Seq(Initializer)
  BY <1>1, <1>2, FieldLemma, ConcatProperties
<1>4. e \in Declaration /\ e.items = v
  BY <1>2, <1>3, FieldLemma
<1>5. Filled(t, comma, vals) = [t EXCEPT ![n] = e]
  BY DEF Filled
<1>. HIDE DEF e, n
<1>6. /\ [t EXCEPT ![n] = e] \in Seq(Declaration)
      /\ Len([t EXCEPT ![n] = e]) = Len(t)
      /\ \A k \in 1 .. Len(t) : [t EXCEPT ![n] = e][k] = IF k = n THEN e ELSE t[k]
  BY <1>2, <1>4, ExceptSeq
<1>. HIDE DEF v
<1>7. n = Len(t)
  BY DEF n
<1>8. Filled(t, comma, vals)[n].items = v
  BY <1>2, <1>4, <1>5, <1>6
<1>9. \A k \in 1 .. n - 1 : Filled(t, comma, vals)[k] = t[k]
  <2>. SUFFICES ASSUME NEW k \in 1 .. n - 1
                PROVE  Filled(t, comma, vals)[k] = t[k]
    OBVIOUS
  <2>1. k \in 1 .. Len(t) /\ k # n
    BY <1>2, <1>7
  <2>2. [t EXCEPT ![n] = e][k] = t[k]
    BY <1>6, <2>1
  <2>3. QED
    BY <1>5, <2>2
<1>10. /\ Filled(t, comma, vals) \in Seq(Declaration)
       /\ Len(Filled(t, comma, vals)) = Len(t)
  BY <1>5, <1>6
<1>11. v = t[Len(t)].items \o Items(comma, Written(vals))
  BY <1>7 DEF v
<1>12. QED
  BY <1>7, <1>8, <1>9, <1>10, <1>11

-----------------------------------------------------------------------------
(* Type correctness *)

\* What Emit leaves is what was written, or what was there.
LEMMA EmitLemma ==
  ASSUME TypeOK, NEW t \in Seq(Declaration), Emit(t)
  PROVE  /\ text' \in Seq(Declaration) /\ stream' \in BOOLEAN
         /\ stream' => stream /\ text' = t
  BY DEF TypeOK, Emit

\* AddSection and Declare are given texts they can write.
LEMMA DeclareLemma ==
  ASSUME TypeOK, NEW sec \in {"data", "control", "archive"},
         NEW vals \in Seq(Value)
  PROVE  LET o == Opened(text, new_section, sec)
             d == Filled(o, FALSE, vals)
         IN  /\ o \in Seq(Declaration) /\ Len(o) = Len(text) + 1
             /\ d \in Seq(Declaration) /\ Len(d) = Len(text) + 1
             /\ \A k \in 1 .. Len(text) : d[k].items = text[k].items
<1>. DEFINE o == Opened(text, new_section, sec)
            d == Filled(o, FALSE, vals)
<1>1. /\ o \in Seq(Declaration) /\ Len(o) = Len(text) + 1
      /\ \A k \in 1 .. Len(text) : o[k].items = text[k].items
  BY OpenedLemma DEF TypeOK
<1>. HIDE DEF o
<1>2. o # <<>>
  BY <1>1 DEF TypeOK
<1>3. /\ d \in Seq(Declaration) /\ Len(d) = Len(o)
      /\ \A k \in 1 .. Len(o) - 1 : d[k] = o[k]
  BY <1>1, <1>2, FilledLemma
<1>. HIDE DEF d
<1>4. \A k \in 1 .. Len(text) : d[k].items = text[k].items
  <2>. SUFFICES ASSUME NEW k \in 1 .. Len(text) PROVE d[k].items = text[k].items
    OBVIOUS
  <2>1. k \in 1 .. Len(o) - 1
    BY <1>1 DEF TypeOK
  <2>2. QED
    BY <1>1, <1>3, <2>1
<1>5. QED
  BY <1>1, <1>3, <1>4 DEF o, d

\* The next file to be added is one of the configuration's.
LEMMA ConfLemma ==
  ASSUME TypeOK, todo # <<>>
  PROVE  conf \in Config /\ Tail(todo) \in Seq(Config)
  BY DEF TypeOK, conf

\* What compress has read is a content, and what it makes of it bytes.
LEMMA DataLemma ==
  ASSUME TypeOK, todo # <<>>, Readable, NEW content \in Buffers
  PROVE  /\ content \in Content
         /\ Lz4[content] \in Seq(Byte) /\ Lz4[content] \in Seq(Value)
         /\ Len(Lz4[content]) \in Nat
<1>1. creator[conf.onCreator] \in Content
  BY DEF TypeOK, Readable
<1>2. content \in Content
  BY <1>1, BuilderAssumption DEF Buffers, ReadOf
<1>3. Lz4[content] \in Seq(Byte)
  BY <1>2, BuilderAssumption
<1>4. QED
  BY <1>2, <1>3 DEF Value

\* The definition and the totals AddFile makes have their types.
LEMMA DescribedLemma ==
  ASSUME TypeOK, todo # <<>>, Readable, NEW content \in Buffers
  PROVE  /\ Described(content, files_def.SizeOfData) \in Definition
         /\ Counted(content) \in Totals
         /\ files_def.SizeOfData \in Nat
         /\ Counted(content).SizeOfData = files_def.SizeOfData + Len(Lz4[content])
<1>1. conf \in Config
  BY ConfLemma
<1>2. content \in Content /\ Len(Lz4[content]) \in Nat
  BY DataLemma
<1>3. files_def.SizeOfFMMArray \in Nat /\ files_def.SizeOfData \in Nat
  BY DEF TypeOK, Totals
<1>4. Described(content, files_def.SizeOfData) \in Definition
  BY <1>1, <1>2, <1>3 DEF Described, Definition, Config
<1>. DEFINE size == Len(Lz4[content])
<1>. HIDE DEF size
<1>5. /\ [SizeOfFMMArray |-> files_def.SizeOfFMMArray + 1,
          SizeOfData |-> files_def.SizeOfData + size] \in Totals
      /\ Counted(content) = [SizeOfFMMArray |-> files_def.SizeOfFMMArray + 1,
                             SizeOfData |-> files_def.SizeOfData + size]
  BY <1>2, <1>3 DEF Totals, Counted, size
<1>6. QED
  BY <1>3, <1>4, <1>5 DEF size

\* The first state has its types.
LEMMA TypeInit == Init => TypeOK
<1>. SUFFICES ASSUME Init PROVE TypeOK
  OBVIOUS
<1>1. PICK S \in SUBSET Source : creator \in [S -> Content]
  BY DEF Init
<1>2. DOMAIN creator \subseteq Source /\ creator \in [DOMAIN creator -> Content]
  BY <1>1
<1>3. files_def \in Totals
  BY DEF Init, Totals
<1>4. text \in Seq(Declaration) /\ files \in Seq(Definition)
  BY DEF Init
<1>5. /\ todo \in Seq(Config) /\ asked \in Seq(Jobs)
      /\ Len(asked) <= MaxCalls
  BY BuilderAssumption DEF Init
<1>6. QED
  BY <1>2, <1>3, <1>4, <1>5 DEF Init, TypeOK

\* Before bytes are written data[] is declared: an ofstream that takes writes
\* has taken the declaration.
Declared == stream /\ pc = "adding" => text # <<>>

\* Every step keeps the types.
LEMMA TypeNext ==
  ASSUME TypeOK, Declared, [Next]_vars
  PROVE  TypeOK'
<1>1. CASE Construct
  BY <1>1 DEF Construct, TypeOK
<1>2. CASE AddFiles
  <2>1. Opened(text, new_section, "data") \in Seq(Declaration)
    BY OpenedLemma DEF TypeOK
  <2>2. text' \in Seq(Declaration) /\ stream' \in BOOLEAN
    BY <1>2, <2>1, EmitLemma DEF AddFiles, AddSection
  <2>3. PICK job \in Jobs : todo' = job /\ asked' = Append(asked, job)
    BY <1>2 DEF AddFiles
  <2>4. todo' \in Seq(Config) /\ asked' \in Seq(Jobs) /\ Len(asked') <= MaxCalls
    BY <1>2, <2>3, BuilderAssumption DEF AddFiles, TypeOK
  <2>5. QED
    BY <1>2, <2>2, <2>4 DEF AddFiles, AddSection, TypeOK
<1>3. ASSUME NEW content \in Buffers, WriteData(content), pc = "adding",
             todo # <<>>, Readable
      PROVE  /\ text' \in Seq(Declaration) /\ stream' \in BOOLEAN
             /\ append_comma' \in BOOLEAN /\ new_section' \in BOOLEAN
             /\ todo' \in Seq(Config)
  <2>1. todo' \in Seq(Config) /\ Lz4[content] \in Seq(Value)
    BY <1>3, ConfLemma, DataLemma DEF WriteData
  <2>2. append_comma' = TRUE /\ new_section' = new_section
    BY <1>3 DEF WriteData, WriteToSection
  <2>3. CASE stream
    <3>1. text # <<>>
      BY <1>3, <2>3 DEF Declared
    <3>2. Filled(text, append_comma, Lz4[content]) \in Seq(Declaration)
      BY <2>1, <3>1, FilledLemma DEF TypeOK
    <3>3. text' \in Seq(Declaration) /\ stream' \in BOOLEAN
      BY <1>3, <3>2, EmitLemma DEF WriteData, WriteToSection
    <3>4. QED
      BY <2>1, <2>2, <3>3 DEF TypeOK
  <2>4. CASE ~stream
    BY <1>3, <2>1, <2>2, <2>4 DEF WriteData, WriteToSection, Emit, TypeOK
  <2>5. QED
    BY <2>3, <2>4
<1>4. CASE AddFile
  <2>1. PICK content \in Buffers :
          /\ WriteData(content)
          /\ files' = Append(files, Described(content, files_def.SizeOfData))
          /\ files_def' = Counted(content)
    BY <1>4 DEF AddFile
  <2>2. /\ pc = "adding" /\ todo # <<>> /\ Readable
        /\ UNCHANGED <<creator, asked, lost, pc>>
    BY <1>4 DEF AddFile
  <2>3. files' \in Seq(Definition) /\ files_def' \in Totals
    BY <2>1, <2>2, DescribedLemma DEF TypeOK
  <2>4. /\ text' \in Seq(Declaration) /\ stream' \in BOOLEAN
        /\ append_comma' \in BOOLEAN /\ new_section' \in BOOLEAN
        /\ todo' \in Seq(Config)
    BY <1>3, <2>1, <2>2
  <2>5. QED
    BY <2>2, <2>3, <2>4 DEF TypeOK
<1>5. CASE AddFileHalf
  <2>1. PICK content \in Buffers : WriteData(content)
    BY <1>5 DEF AddFileHalf
  <2>2. /\ pc = "adding" /\ todo # <<>> /\ Readable
        /\ UNCHANGED <<creator, files, files_def, asked, pc>> /\ lost' = TRUE
    BY <1>5 DEF AddFileHalf
  <2>3. /\ text' \in Seq(Declaration) /\ stream' \in BOOLEAN
        /\ append_comma' \in BOOLEAN /\ new_section' \in BOOLEAN
        /\ todo' \in Seq(Config)
    BY <1>3, <2>1, <2>2
  <2>4. QED
    BY <2>2, <2>3 DEF TypeOK
<1>6. CASE AddFileThrows
  BY <1>6, ConfLemma DEF AddFileThrows, TypeOK, writer
<1>7. CASE AddControl
  <2>1. files \in Seq(Value)
    BY DEF TypeOK, Value
  <2>2. Filled(Opened(text, new_section, "control"), FALSE, files) \in Seq(Declaration)
    BY <2>1, DeclareLemma
  <2>3. text' \in Seq(Declaration) /\ stream' \in BOOLEAN
    BY <1>7, <2>2, EmitLemma DEF AddControl, Declare
  <2>4. QED
    BY <1>7, <2>3 DEF AddControl, Declare, TypeOK
<1>8. CASE AddControlCrashes
  BY <1>8 DEF AddControlCrashes, TypeOK, writer
<1>9. CASE AddArchive
  <2>1. <<files_def>> \in Seq(Value)
    BY DEF TypeOK, Value
  <2>2. Filled(Opened(text, new_section, "archive"), FALSE, <<files_def>>)
          \in Seq(Declaration)
    BY <2>1, DeclareLemma
  <2>3. text' \in Seq(Declaration) /\ stream' \in BOOLEAN
    BY <1>9, <2>2, EmitLemma DEF AddArchive, Declare
  <2>4. QED
    BY <1>9, <2>3 DEF AddArchive, Declare, TypeOK
<1>10. CASE Destroy
  <2>1. Ended(text, new_section) \in Seq(Declaration)
    BY EndedLemma DEF TypeOK
  <2>2. text' \in Seq(Declaration) /\ stream' \in BOOLEAN
    BY <1>10, <2>1, EmitLemma DEF Destroy
  <2>3. QED
    BY <1>10, <2>2 DEF Destroy, TypeOK
<1>11. CASE UNCHANGED vars
  BY <1>11 DEF vars, TypeOK
<1>12. QED
  BY <1>1, <1>2, <1>4, <1>5, <1>6, <1>7, <1>8, <1>9, <1>10, <1>11 DEF Next
\* Every step keeps data[] declared while files are added.
LEMMA DeclaredNext ==
  ASSUME TypeOK, Declared, [Next]_vars
  PROVE  Declared'
<1>1. CASE AddFiles
  <2>1. Opened(text, new_section, "data") # <<>>
    <3>1. Len(Opened(text, new_section, "data")) = Len(text) + 1 /\ Len(text) \in Nat
      BY OpenedLemma DEF TypeOK
    <3>2. QED
      BY <3>1
  <2>2. QED
    BY <1>1, <2>1 DEF AddFiles, AddSection, Emit, Declared
<1>2. ASSUME NEW content \in Buffers, WriteData(content), pc = "adding",
             todo # <<>>, Readable
      PROVE  Declared'
  <2>. SUFFICES ASSUME stream'
                PROVE  text' # <<>>
    BY DEF Declared
  <2>. DEFINE bytes == Lz4[content]
  <2>1. stream /\ text' = Filled(text, append_comma, bytes)
    BY <1>2 DEF WriteData, WriteToSection, Emit
  <2>2. text # <<>> /\ bytes \in Seq(Value)
    BY <1>2, <2>1, DataLemma DEF Declared
  <2>. HIDE DEF bytes
  <2>3. Len(text') = Len(text) /\ text' \in Seq(Declaration)
    BY <2>1, <2>2, FilledLemma DEF TypeOK
  <2>4. QED
    BY <2>2, <2>3 DEF TypeOK
<1>3. CASE AddFile
  BY <1>2, <1>3 DEF AddFile
<1>4. CASE AddFileHalf
  BY <1>2, <1>4 DEF AddFileHalf
<1>5. CASE AddFileThrows
  BY <1>5 DEF AddFileThrows, writer, Declared
<1>6. CASE Construct \/ AddControl \/ AddControlCrashes \/ AddArchive \/ Destroy
  BY <1>6 DEF Construct, AddControl, AddControlCrashes, AddArchive, Destroy, Declared
<1>7. CASE UNCHANGED vars
  BY <1>7 DEF vars, Declared
<1>8. QED
  BY <1>1, <1>3, <1>4, <1>5, <1>6, <1>7 DEF Next

\* The packer's variables keep their types, for every configuration and
\* whatever fails.
THEOREM TypesKept == Spec => []TypeOK
<1>1. Init => TypeOK /\ Declared
  BY TypeInit DEF Init, Declared
<1>2. TypeOK /\ Declared /\ [Next]_vars => TypeOK' /\ Declared'
  BY TypeNext, DeclaredNext
<1>3. QED
  BY <1>1, <1>2, PTL DEF Spec

-----------------------------------------------------------------------------
(* The layout of data[] *)

\* Definition f has its bytes where it says, in the initializers items.
At(f, items) ==
  /\ f.compressedSize = Len(Lz4[f.content])
  /\ \A j \in 1 .. f.compressedSize : /\ f.offset + j \in DOMAIN items
                                      /\ items[f.offset + j].val = Lz4[f.content][j]

\* SlicesMatch, definition by definition.
LEMMA AtLemma ==
  SlicesMatch <=> (stream /\ ~lost => \A k \in 1 .. Len(files) :
                     /\ files[k].compressedSize = Len(Lz4[files[k].content])
                     /\ ~RefusedBefore(k) => At(files[k], text[1].items))
  BY DEF SlicesMatch, Slice, At

\* Bytes added behind the others move none.
LEMMA AtKept ==
  ASSUME NEW f \in Definition, NEW items \in Seq(Initializer),
         NEW more \in Seq(Initializer), At(f, items)
  PROVE  At(f, items \o more)
<1>. SUFFICES ASSUME NEW j \in 1 .. f.compressedSize
              PROVE  /\ f.offset + j \in DOMAIN (items \o more)
                     /\ (items \o more)[f.offset + j].val = Lz4[f.content][j]
  BY DEF At
<1>1. f.offset + j \in 1 .. Len(items)
  BY DEF At
<1>2. items[f.offset + j].val = Lz4[f.content][j]
  BY DEF At
<1>3. QED
  BY <1>1, <1>2, ConcatProperties

\* What the theorem assumes: AddFiles is called once, as main does.
CalledOnce == MaxCalls <= 1

\* The invariant holds at first.
LEMMA LayoutInit == Init => LInv
  BY DEF Init, LInv, Empty, SlicesMatch

\* Bytes the stream has taken are in data[], behind the others.
LEMMA WriteLayout ==
  ASSUME TypeOK, LInv, pc = "adding", todo # <<>>, Readable,
         NEW content \in Buffers, WriteData(content), stream'
  PROVE  /\ stream /\ Len(text) = 1 /\ Len(text') = 1
         /\ text'[1].items
              = text[1].items \o Items(append_comma, Written(Lz4[content]))
<1>. DEFINE bytes == Lz4[content]
<1>1. stream /\ text' = Filled(text, append_comma, bytes)
  BY DEF WriteData, WriteToSection, Emit
<1>2. Len(text) = 1 /\ text # <<>> /\ asked # <<>>
  BY <1>1 DEF LInv, TypeOK
<1>3. append_comma \in BOOLEAN /\ text \in Seq(Declaration) /\ bytes \in Seq(Value)
  BY DataLemma DEF TypeOK
<1>. HIDE DEF bytes
<1>4. /\ Len(Filled(text, append_comma, bytes)) = Len(text)
      /\ Filled(text, append_comma, bytes)[Len(text)].items
           = text[Len(text)].items \o Items(append_comma, Written(bytes))
  BY <1>2, <1>3, FilledLemma
<1>5. /\ Len(text') = 1
      /\ text'[1].items = text[1].items \o Items(append_comma, Written(bytes))
  BY <1>1, <1>2, <1>4
<1>6. QED
  BY <1>1, <1>2, <1>5 DEF bytes

\* Adding a file puts its bytes where its definition says, behind the others.
LEMMA AddFileLayout ==
  ASSUME TypeOK, LInv, AddFile
  PROVE  LInv'
<1>1. pc = "adding" /\ todo # <<>> /\ Readable
  BY DEF AddFile
<1>. PICK content \in Buffers :
       /\ WriteData(content)
       /\ files' = Append(files, Described(content, files_def.SizeOfData))
       /\ files_def' = Counted(content)
  BY DEF AddFile
<1>. DEFINE bytes == Lz4[content]
            def   == Described(content, files_def.SizeOfData)
            old   == text[1].items
            more  == Items(append_comma, Written(bytes))
            n     == Len(files)
<1>2. asked # <<>> /\ UNCHANGED <<asked, lost, pc>>
  BY <1>1 DEF LInv, AddFile
<1>3. CASE ~stream'
  BY <1>1, <1>2, <1>3 DEF LInv, SlicesMatch
<1>4. CASE stream' /\ lost
  BY <1>1, <1>2, <1>4, WriteLayout DEF LInv, SlicesMatch, Exact
<1>5. CASE stream' /\ ~lost
  <2>1. /\ bytes \in Seq(Byte) /\ bytes \in Seq(Value) /\ Len(bytes) \in Nat
        /\ bytes # <<>> => Written(bytes) = bytes
        /\ Written(bytes) \in Seq(Value)
    BY <1>1, DataLemma, WrittenLemma
  <2>2. /\ stream /\ Len(text) = 1 /\ Len(text') = 1
        /\ text'[1].items = old \o more
    BY <1>1, <1>5, WriteLayout
  <2>3. Exact => Len(old) = files_def.SizeOfData
    BY <1>1, <2>2 DEF LInv
  <2>4. old \in Seq(Initializer)
    <3>1. text \in Seq(Declaration) /\ 1 \in 1 .. Len(text)
      BY <2>2 DEF TypeOK
    <3>2. text[1] \in Declaration
      BY <3>1
    <3>3. QED
      BY <3>2 DEF Declaration
  <2>5. /\ more \in Seq(Initializer) /\ Len(more) = Len(Written(bytes))
        /\ \A k \in 1 .. Len(Written(bytes)) : more[k].val = Written(bytes)[k]
    BY <2>1, ItemsLemma DEF TypeOK
  <2>6. /\ def \in Definition /\ files_def.SizeOfData \in Nat
        /\ files_def'.SizeOfData = files_def.SizeOfData + Len(bytes)
    BY <1>1, DescribedLemma
  <2>7. /\ def.compressedSize = Len(Lz4[def.content])
        /\ def.compressedSize = Len(bytes) /\ Lz4[def.content] = bytes
        /\ def.offset = files_def.SizeOfData
    BY DEF Described
  <2>8. files \in Seq(Definition) /\ files' = Append(files, def)
    BY DEF TypeOK
  <2>. HIDE DEF old, more, def, bytes
  <2>9. /\ n \in Nat /\ Len(files') = n + 1 /\ files'[n + 1] = def
        /\ \A k \in 1 .. n : files'[k] = files[k]
    BY <2>6, <2>8, AppendProperties
  <2>10. \A k \in 1 .. n + 1 : RefusedBefore(k)' <=> RefusedBefore(k)
    BY <2>9 DEF RefusedBefore
  <2>11. Exact' => Exact /\ bytes # <<>>
    <3>. SUFFICES ASSUME Exact' PROVE Exact /\ bytes # <<>>
      OBVIOUS
    <3>1. \A m \in 1 .. n + 1 : Lz4[files'[m].content] # <<>>
      BY <2>9 DEF Exact, RefusedBefore
    <3>2. n + 1 \in 1 .. n + 1 /\ \A m \in 1 .. n : m \in 1 .. n + 1
      BY <2>9
    <3>3. Lz4[def.content] # <<>> /\ \A m \in 1 .. n : Lz4[files[m].content] # <<>>
      BY <2>9, <3>1, <3>2
    <3>4. ~RefusedBefore(n + 1)
      BY <2>9, <3>3 DEF RefusedBefore
    <3>5. QED
      BY <1>5, <2>7, <3>3, <3>4 DEF Exact
  <2>12. Exact' => Len(old \o more) = files_def'.SizeOfData
    <3>1. Len(old \o more) = Len(old) + Len(more)
      BY <2>4, <2>5, ConcatProperties
    <3>2. QED
      BY <2>1, <2>3, <2>5, <2>6, <2>11, <3>1
  <2>13. ~RefusedBefore(n + 1) => At(def, old \o more)
    <3>. SUFFICES ASSUME ~RefusedBefore(n + 1), NEW j \in 1 .. Len(bytes)
                  PROVE  /\ def.offset + j \in DOMAIN (old \o more)
                         /\ (old \o more)[def.offset + j].val = Lz4[def.content][j]
      BY <2>7 DEF At
    <3>1. Len(old) = files_def.SizeOfData
      BY <1>5, <2>3 DEF Exact
    <3>2. Written(bytes) = bytes
      BY <2>1
    <3>3. /\ Len(old) + j \in 1 .. Len(old) + Len(more)
          /\ Len(old) + j > Len(old)
          /\ (Len(old) + j) - Len(old) = j
      BY <2>1, <2>5, <2>6, <3>1, <3>2
    <3>4. (old \o more)[Len(old) + j] = more[j]
      BY <2>4, <2>5, <3>3, ConcatProperties
    <3>5. Len(old) + j \in DOMAIN (old \o more)
      BY <2>4, <2>5, <3>3, ConcatProperties
    <3>6. more[j].val = Lz4[def.content][j]
      BY <2>5, <2>7, <3>2
    <3>7. QED
      BY <2>7, <3>1, <3>4, <3>5, <3>6
  <2>14. ASSUME NEW k \in 1 .. n
         PROVE  /\ files[k].compressedSize = Len(Lz4[files[k].content])
                /\ ~RefusedBefore(k) => At(files[k], old \o more)
    <3>1. /\ files[k].compressedSize = Len(Lz4[files[k].content])
          /\ ~RefusedBefore(k) => At(files[k], old)
      BY <1>5, <2>2, AtLemma DEF LInv, old
    <3>2. files[k] \in Definition
      BY <2>8
    <3>3. QED
      BY <2>4, <2>5, <3>1, <3>2, AtKept
  <2>15. ASSUME NEW k \in 1 .. Len(files')
         PROVE  /\ files'[k].compressedSize = Len(Lz4[files'[k].content])
                /\ ~RefusedBefore(k)' => At(files'[k], old \o more)
    <3>1. CASE k = n + 1
      BY <2>7, <2>9, <2>10, <2>13, <3>1
    <3>2. CASE k # n + 1
      <4>1. k \in 1 .. n /\ k \in 1 .. n + 1
        BY <2>9, <3>2
      <4>2. QED
        BY <2>9, <2>10, <2>14, <4>1
    <3>3. QED
      BY <3>1, <3>2
  <2>16. SlicesMatch'
    BY <2>2, <2>15 DEF SlicesMatch, Slice, At
  <2>17. QED
    BY <1>1, <1>2, <2>2, <2>12, <2>16 DEF LInv
<1>6. QED
  BY <1>3, <1>4, <1>5

\* A step that changes no definition keeps what they say of data[] as long as
\* it keeps data[].
LEMMA SlicesKept ==
  ASSUME SlicesMatch, UNCHANGED <<files, lost>>, stream' => stream,
         files # <<>> /\ stream' => text'[1].items = text[1].items
  PROVE  SlicesMatch'
<1>1. CASE files = <<>>
  BY <1>1 DEF SlicesMatch
<1>2. CASE files # <<>>
  BY <1>2 DEF SlicesMatch, Slice, RefusedBefore
<1>3. QED
  BY <1>1, <1>2

\* Every step keeps the invariant.
LEMMA LayoutNext ==
  ASSUME TypeOK, LInv, CalledOnce, [Next]_vars
  PROVE  LInv'
<1>1. CASE Construct
  <2>1. asked = <<>> /\ Empty
    BY <1>1 DEF Construct, LInv
  <2>2. QED
    BY <1>1, <2>1 DEF Construct, LInv, Empty, SlicesMatch
<1>2. CASE AddFiles
  <2>1. asked = <<>>
    <3>1. Len(asked) < 1 /\ asked \in Seq(Jobs)
      BY <1>2, BuilderAssumption DEF AddFiles, TypeOK, CalledOnce
    <3>2. QED
      BY <3>1
  <2>2. Empty
    BY <2>1 DEF LInv
  <2>3. asked' # <<>> /\ files' = <<>> /\ files_def'.SizeOfData = 0 /\ pc' = "adding"
    BY <1>2, <2>1, <2>2 DEF AddFiles, Empty
  <2>4. stream' => Len(text') = 1 /\ Len(text'[1].items) = 0
    <3>1. /\ text = <<>> /\ text \in Seq(Declaration) /\ new_section \in BOOLEAN
          /\ Len(text) = 0
      BY <2>2 DEF Empty, TypeOK
    <3>2. /\ Len(Opened(text, new_section, "data")) = 0 + 1
          /\ Opened(text, new_section, "data")[0 + 1].items = <<>>
      BY <3>1, OpenedLemma
    <3>3. stream' => text' = Opened(text, new_section, "data")
      BY <1>2 DEF AddFiles, AddSection, Emit
    <3>4. QED
      BY <3>2, <3>3
  <2>5. QED
    BY <2>3, <2>4 DEF LInv, SlicesMatch
<1>3. CASE AddFile
  BY <1>3, AddFileLayout
<1>4. CASE AddFileHalf
  <2>1. pc = "adding" /\ asked # <<>> /\ lost' /\ UNCHANGED <<asked, pc>>
    BY <1>4 DEF AddFileHalf, LInv
  <2>2. stream' => Len(text') = 1
    BY <1>4, WriteLayout DEF AddFileHalf
  <2>3. QED
    BY <2>1, <2>2 DEF LInv, SlicesMatch, Exact
<1>5. CASE AddFileThrows
  <2>1. SlicesMatch'
    BY <1>5, SlicesKept DEF AddFileThrows, writer, LInv
  <2>2. QED
    BY <1>5, <2>1 DEF AddFileThrows, writer, LInv, Exact, RefusedBefore
<1>6. ASSUME NEW sec \in {"data", "control", "archive"}, NEW vals \in Seq(Value),
             Declare(sec, vals), asked # <<>>
      PROVE  stream' => /\ stream /\ Len(text') >= 1
                        /\ text'[1].items = text[1].items
  <2>. DEFINE o == Opened(text, new_section, sec)
              d == Filled(o, FALSE, vals)
  <2>. SUFFICES ASSUME stream'
                PROVE  /\ stream /\ Len(text') >= 1
                       /\ text'[1].items = text[1].items
    OBVIOUS
  <2>1. stream /\ text' = d
    BY <1>6 DEF Declare, Emit
  <2>2. Len(text) >= 1 /\ Len(text) \in Nat
    BY <1>6, <2>1 DEF LInv, TypeOK
  <2>3. Len(d) = Len(text) + 1 /\ \A k \in 1 .. Len(text) : d[k].items = text[k].items
    BY DeclareLemma
  <2>. HIDE DEF d
  <2>4. QED
    BY <2>1, <2>2, <2>3
<1>7. CASE AddControl
  <2>1. asked # <<>>
    BY <1>7 DEF AddControl, LInv
  <2>2. files \in Seq(Value)
    BY DEF TypeOK, Value
  <2>3. stream' => /\ stream /\ Len(text') >= 1
                   /\ text'[1].items = text[1].items
    BY <1>6, <1>7, <2>1, <2>2 DEF AddControl
  <2>4. SlicesMatch'
    BY <1>7, <2>3, SlicesKept DEF AddControl, LInv
  <2>5. QED
    BY <1>7, <2>1, <2>3, <2>4 DEF AddControl, LInv
<1>8. CASE AddControlCrashes
  <2>1. SlicesMatch'
    BY <1>8, SlicesKept DEF AddControlCrashes, writer, LInv
  <2>2. QED
    BY <1>8, <2>1 DEF AddControlCrashes, writer, LInv
<1>9. CASE AddArchive
  <2>1. asked # <<>>
    BY <1>9 DEF AddArchive, LInv
  <2>2. <<files_def>> \in Seq(Value)
    BY DEF TypeOK, Value
  <2>3. stream' => /\ stream /\ Len(text') >= 1
                   /\ text'[1].items = text[1].items
    BY <1>6, <1>9, <2>1, <2>2 DEF AddArchive
  <2>4. SlicesMatch'
    BY <1>9, <2>3, SlicesKept DEF AddArchive, LInv
  <2>5. QED
    BY <1>9, <2>1, <2>3, <2>4 DEF AddArchive, LInv
<1>10. CASE Destroy
  <2>. DEFINE e == Ended(text, new_section)
  <2>1. /\ e \in Seq(Declaration) /\ Len(e) = Len(text) /\ Len(text) \in Nat
        /\ \A k \in 1 .. Len(text) : e[k].items = text[k].items
    BY EndedLemma DEF TypeOK
  <2>2. /\ stream' => stream
        /\ text' = e \/ text' = text
        /\ stream' => text' = e
    BY <1>10 DEF Destroy, Emit
  <2>. HIDE DEF e
  <2>3. CASE asked = <<>>
    <3>1. Empty /\ Len(text) = 0
      BY <2>3 DEF LInv, Empty
    <3>2. text' = <<>>
      BY <2>1, <2>2, <3>1 DEF Empty
    <3>3. QED
      BY <1>10, <2>3, <3>1, <3>2 DEF Destroy, LInv, Empty, SlicesMatch
  <2>4. CASE asked # <<>>
    <3>1. stream' => Len(text') >= 1 /\ text'[1].items = text[1].items
      BY <2>1, <2>2, <2>4 DEF LInv
    <3>2. SlicesMatch'
      BY <1>10, <2>2, <3>1, SlicesKept DEF Destroy, LInv
    <3>3. QED
      BY <1>10, <2>4, <3>1, <3>2 DEF Destroy, LInv
  <2>5. QED
    BY <2>3, <2>4
<1>11. CASE UNCHANGED vars
  <2>1. SlicesMatch'
    BY <1>11, SlicesKept DEF vars, LInv
  <2>2. QED
    BY <1>11, <2>1 DEF vars, LInv, Empty, Exact, RefusedBefore
<1>12. QED
  BY <1>1, <1>2, <1>3, <1>4, <1>5, <1>7, <1>8, <1>9, <1>10, <1>11 DEF Next

\* offset and compressedSize of every definition lead to the bytes its file was
\* compressed to, unless a file before it was refused by the compressor: for every
\* configuration, all contents and every compressor, whatever cannot be read and
\* whenever archive.h stops taking bytes, in the one call of AddFiles that main
\* makes (the offsets AddFile gives and the bytes WriteToSection writes).
THEOREM SlicesFound == ASSUME CalledOnce PROVE Spec => []SlicesMatch
<1>1. Init => LInv
  BY LayoutInit
<1>2. TypeOK /\ LInv /\ [Next]_vars => LInv'
  BY LayoutNext
<1>3. LInv => SlicesMatch
  BY DEF LInv
<1>4. QED
  BY <1>1, <1>2, <1>3, TypesKept, PTL DEF Spec
=============================================================================
