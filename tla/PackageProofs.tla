---------------------------- MODULE PackageProofs ----------------------------
(***************************************************************************)
(* Proofs about the text the packer writes as a whole: that it is          *)
(* well-formed, and that the packer implements Package.                    *)
(***************************************************************************)
EXTENDS ArchiveBuilderProofs

\* Commas stand between initializers, and not before the first.
Commas(items) == \A k \in 1 .. Len(items) : items[k].comma <=> k > 1

\* A declaration of exactly these values.
Holds(d, sec, vals) == d.sec = sec /\ d.items = Items(FALSE, vals)

\* What the declarations look like while files are added, after control[], and
\* after archive[].
Adding ==
  stream /\ pc = "adding" =>
    /\ text[1].sec = "data" /\ Commas(text[1].items)
    /\ append_comma <=> text[1].items # <<>>
    /\ files # <<>> => text[1].items # <<>>

DataDone ==
  /\ text[1].sec = "data" /\ text[1].closed
  /\ Commas(text[1].items) /\ text[1].items # <<>>
  /\ Exact => Len(text[1].items) = files_def.SizeOfData

Totalling ==
  stream /\ pc = "totals" =>
    Len(text) = 2 /\ DataDone /\ Holds(text[2], "control", files)

Finished ==
  stream /\ asked # <<>> /\ pc \in {"ready", "closed"} =>
    /\ Len(text) = 3 /\ DataDone
    /\ Holds(text[2], "control", files) /\ text[2].closed
    /\ Holds(text[3], "archive", <<files_def>>)
    /\ pc = "closed" => text[3].closed

Counts == files_def.SizeOfFMMArray = Len(files)

Sections == IF asked = <<>> THEN todo = <<>> /\ ~new_section ELSE new_section

AllAdded ==
  asked # <<>> /\ pc \in {"totals", "ready", "closed"} => todo = <<>> /\ files # <<>>

\* The inductive invariant of the whole text.
TInv == Adding /\ Totalling /\ Finished /\ Counts /\ Sections /\ AllAdded

-----------------------------------------------------------------------------
(* What the writer does to sections and commas *)

\* A sequence is a function on its positions.
LEMMA SeqAsFunction ==
  ASSUME NEW S, NEW s \in Seq(S)
  PROVE  s = [j \in 1 .. Len(s) |-> s[j]]
  OBVIOUS

\* Closing keeps what is declared and closes the last declaration.
LEMMA EndedShape ==
  ASSUME NEW t \in Seq(Declaration), NEW k \in 1 .. Len(t)
  PROVE  /\ Ended(t, TRUE)[k].sec = t[k].sec
         /\ Ended(t, TRUE)[k].items = t[k].items
         /\ (Ended(t, TRUE)[k].closed <=> t[k].closed \/ k = Len(t))
<1>1. t[k] \in Declaration
  OBVIOUS
<1>2. Ended(t, TRUE)[k] = [t[k] EXCEPT !.closed = t[k].closed \/ (TRUE /\ k = Len(t))]
  BY DEF Ended
<1>. DEFINE b == t[k].closed \/ (TRUE /\ k = Len(t))
<1>3. b = (t[k].closed \/ k = Len(t))
  OBVIOUS
<1>. HIDE DEF b
<1>4. /\ [t[k] EXCEPT !.closed = b].sec = t[k].sec
      /\ [t[k] EXCEPT !.closed = b].items = t[k].items
      /\ [t[k] EXCEPT !.closed = b].closed = b
  BY <1>1 DEF Declaration
<1>5. QED
  BY <1>2, <1>3, <1>4 DEF b

\* A declaration with its initializers comes behind the others, the last of
\* which is closed.
LEMMA DeclareShape ==
  ASSUME TypeOK, new_section, text # <<>>, stream',
         NEW sec \in {"data", "control", "archive"},
         NEW vals \in Seq(Value), vals # <<>>, Declare(sec, vals)
  PROVE  /\ stream /\ Len(text') = Len(text) + 1
         /\ Holds(text'[Len(text) + 1], sec, vals)
         /\ \A k \in 1 .. Len(text) :
              /\ text'[k].sec = text[k].sec
              /\ text'[k].items = text[k].items
              /\ (text'[k].closed <=> text[k].closed \/ k = Len(text))
<1>. DEFINE new == [sec |-> sec, items |-> <<>>, closed |-> FALSE]
            e   == Ended(text, TRUE)
            o   == Append(e, new)
            n   == Len(text)
<1>1. text \in Seq(Declaration) /\ n \in Nat /\ new_section = TRUE
  BY DEF TypeOK
<1>2. stream /\ text' = Filled(o, FALSE, vals)
  BY <1>1 DEF Declare, Emit, Opened
<1>3. new \in Declaration
  BY DEF Declaration
<1>4. e \in Seq(Declaration) /\ Len(e) = n
  BY <1>1, EndedLemma
<1>5. new.items = <<>> /\ new.sec = sec
  OBVIOUS
<1>. HIDE DEF e, new
<1>6. /\ o \in Seq(Declaration) /\ Len(o) = n + 1 /\ o # <<>> /\ o[n + 1] = new
      /\ \A k \in 1 .. n : o[k] = e[k]
  BY <1>1, <1>3, <1>4, AppendProperties
<1>. HIDE DEF o
<1>7. /\ Len(text') = n + 1
      /\ \A k \in 1 .. n : text'[k] = o[k]
      /\ text'[n + 1].items = o[n + 1].items \o Items(FALSE, Written(vals))
  <2>1. /\ Len(Filled(o, FALSE, vals)) = Len(o)
        /\ \A k \in 1 .. Len(o) - 1 : Filled(o, FALSE, vals)[k] = o[k]
        /\ Filled(o, FALSE, vals)[Len(o)].items = o[Len(o)].items \o Items(FALSE, Written(vals))
    BY <1>6, FilledLemma
  <2>2. Len(o) = n + 1 /\ Len(o) - 1 = n
    BY <1>1, <1>6
  <2>3. QED
    BY <1>2, <2>1, <2>2
<1>8. text'[n + 1].sec = sec
  <2>1. text'[n + 1] = [o[n + 1] EXCEPT !.items = @ \o Items(FALSE, Written(vals))]
    BY <1>1, <1>2, <1>6 DEF Filled
  <2>2. o[n + 1] \in Declaration /\ o[n + 1].sec = sec
    BY <1>3, <1>6, <1>5
  <2>3. QED
    BY <2>1, <2>2 DEF Declaration
<1>9. Items(FALSE, Written(vals)) \in Seq(Initializer) /\ Written(vals) = vals
  BY WrittenLemma, ItemsLemma
<1>10. text'[n + 1].items = Items(FALSE, vals)
  BY <1>6, <1>5, <1>7, <1>9, ConcatEmptySeq
<1>11. ASSUME NEW k \in 1 .. n
       PROVE  /\ text'[k].sec = text[k].sec
              /\ text'[k].items = text[k].items
              /\ (text'[k].closed <=> text[k].closed \/ k = n)
  <2>1. text'[k] = Ended(text, TRUE)[k]
    BY <1>6, <1>7 DEF e
  <2>2. /\ Ended(text, TRUE)[k].sec = text[k].sec
        /\ Ended(text, TRUE)[k].items = text[k].items
        /\ (Ended(text, TRUE)[k].closed <=> text[k].closed \/ k = Len(text))
    BY <1>1, EndedShape
  <2>3. QED
    BY <2>1, <2>2
<1>12. QED
  BY <1>2, <1>7, <1>8, <1>10, <1>11 DEF Holds
\* Bytes written to data[] come behind those that are there, with commas between.
LEMMA WriteShape ==
  ASSUME TypeOK, LInv, Adding, pc = "adding", todo # <<>>, Readable,
         NEW content \in Buffers, WriteData(content), stream'
  PROVE  /\ text'[1].sec = "data" /\ Commas(text'[1].items)
         /\ text'[1].items # <<>>
<1>. DEFINE bytes == Written(Lz4[content])
            old   == text[1].items
            more  == Items(append_comma, bytes)
<1>1. /\ stream /\ Len(text) = 1 /\ Len(text') = 1
      /\ text'[1].items = old \o more
  BY WriteLayout
<1>2. /\ text[1].sec = "data" /\ Commas(old)
      /\ append_comma <=> old # <<>>
  BY <1>1 DEF Adding
<1>3. text \in Seq(Declaration) /\ text[1] \in Declaration
  <2>1. text \in Seq(Declaration) /\ 1 \in 1 .. Len(text)
    BY <1>1 DEF TypeOK
  <2>2. QED
    BY <2>1
<1>4. old \in Seq(Initializer)
  BY <1>3 DEF Declaration
<1>5. bytes \in Seq(Value) /\ bytes # <<>>
  BY DataLemma, WrittenLemma DEF Written
<1>6. append_comma \in BOOLEAN
  BY DEF TypeOK
<1>7. text'[1].sec = "data"
  <2>1. text' = Filled(text, append_comma, Lz4[content])
    BY <1>1 DEF WriteData, WriteToSection, Emit
  <2>2. text'[1] = [text[1] EXCEPT !.items = @ \o more]
    BY <1>1, <1>3, <2>1 DEF Filled
  <2>3. QED
    BY <1>2, <1>3, <2>2 DEF Declaration
<1>. HIDE DEF old, bytes
<1>8. /\ more \in Seq(Initializer) /\ Len(more) = Len(bytes)
      /\ \A k \in 1 .. Len(bytes) : more[k].comma = (append_comma \/ k > 1)
  BY <1>5, <1>6, ItemsLemma DEF Items
<1>. HIDE DEF more
<1>9. /\ old \o more \in Seq(Initializer)
      /\ Len(old \o more) = Len(old) + Len(more)
      /\ \A k \in 1 .. Len(old) + Len(more) :
           (old \o more)[k] = IF k <= Len(old) THEN old[k] ELSE more[k - Len(old)]
  BY <1>4, <1>8
<1>10. Len(bytes) \in Nat \ {0} /\ Len(old) \in Nat /\ (old # <<>> <=> Len(old) > 0)
  BY <1>4, <1>5
<1>11. old \o more # <<>>
  BY <1>8, <1>9, <1>10
<1>12. Commas(old \o more)
  <2>. SUFFICES ASSUME NEW k \in 1 .. Len(old \o more)
                PROVE  (old \o more)[k].comma <=> k > 1
    BY DEF Commas
  <2>1. CASE k <= Len(old)
    <3>1. k \in 1 .. Len(old) /\ (old \o more)[k] = old[k]
      BY <1>8, <1>9, <1>10, <2>1
    <3>2. QED
      BY <1>2, <3>1 DEF Commas
  <2>2. CASE ~(k <= Len(old))
    <3>. DEFINE j == k - Len(old)
    <3>1. j \in 1 .. Len(bytes) /\ (old \o more)[k] = more[j]
      BY <1>8, <1>9, <1>10, <2>2
    <3>2. (append_comma \/ j > 1) <=> k > 1
      BY <1>2, <1>10, <2>2
    <3>3. more[j].comma = (append_comma \/ j > 1)
      BY <1>8, <3>1
    <3>. HIDE DEF j
    <3>4. QED
      BY <3>1, <3>2, <3>3
  <2>3. QED
    BY <2>1, <2>2
<1>13. QED
  BY <1>1, <1>7, <1>11, <1>12
-----------------------------------------------------------------------------
(* The invariant of the text *)

\* It holds at first.
LEMMA TextInit == Init => TInv
  BY DEF Init, TInv, Adding, Totalling, Finished, Counts, Sections, AllAdded

\* While files are added, those of TInv's parts that are about later do not
\* matter.
LEMMA StillAdding ==
  ASSUME pc' = "adding", asked' # <<>>, new_section', Counts', Adding'
  PROVE  TInv'
  BY DEF TInv, Totalling, Finished, Sections, AllAdded

\* data[] is declared.
LEMMA TextAddFiles ==
  ASSUME TypeOK, LInv, TInv, CalledOnce, AddFiles
  PROVE  TInv'
<1>1. asked = <<>>
  <2>1. Len(asked) < 1 /\ asked \in Seq(Jobs)
    BY BuilderAssumption DEF AddFiles, TypeOK, CalledOnce
  <2>2. QED
    BY <2>1
<1>2. text = <<>> /\ files = <<>> /\ new_section = FALSE
  BY <1>1 DEF LInv, Empty, TInv, Sections, TypeOK
<1>3. /\ pc' = "adding" /\ new_section' = TRUE /\ append_comma' = FALSE
      /\ UNCHANGED <<files, files_def>>
  BY DEF AddFiles, AddSection
<1>4. asked' # <<>>
  <2>1. PICK job \in Jobs : asked' = Append(asked, job)
    BY DEF AddFiles
  <2>2. QED
    BY <1>1, <2>1
<1>5. Adding'
  <2>. SUFFICES ASSUME stream'
                PROVE  text'[1].sec = "data" /\ text'[1].items = <<>>
    BY <1>2, <1>3 DEF Adding, Commas
  <2>. DEFINE new == [sec |-> "data", items |-> <<>>, closed |-> FALSE]
  <2>1. text' = Append(Ended(<<>>, FALSE), new)
    BY <1>2 DEF AddFiles, AddSection, Emit, Opened
  <2>2. Ended(<<>>, FALSE) \in Seq(Declaration) /\ Len(Ended(<<>>, FALSE)) = 0
    <3>1. <<>> \in Seq(Declaration) /\ Len(<<>>) = 0
      OBVIOUS
    <3>2. QED
      BY <3>1, EndedLemma
  <2>3. new.sec = "data" /\ new.items = <<>> /\ new \in Declaration
    BY DEF Declaration
  <2>. HIDE DEF new
  <2>4. text'[1] = new
    <3>. DEFINE e == Ended(<<>>, FALSE)
    <3>1. e \in Seq(Declaration) /\ Len(e) = 0
      BY <2>2
    <3>. HIDE DEF e
    <3>2. Append(e, new)[1] = new
      BY <2>3, <3>1, AppendProperties
    <3>3. QED
      BY <2>1, <3>2 DEF e
  <2>5. QED
    BY <2>3, <2>4
<1>6. Counts'
  BY <1>3 DEF TInv, Counts
<1>7. QED
  BY <1>3, <1>4, <1>5, <1>6, StillAdding

\* A file's bytes are in data[], with its definition or without.
LEMMA TextWritten ==
  ASSUME TypeOK, LInv, TInv, pc = "adding", todo # <<>>, Readable,
         NEW content \in Buffers, WriteData(content), UNCHANGED <<pc, asked>>,
         Counts'
  PROVE  TInv'
<1>1. asked' # <<>> /\ asked # <<>>
  BY DEF LInv
<1>2. new_section' /\ append_comma' = TRUE
  BY <1>1 DEF WriteData, WriteToSection, TInv, Sections
<1>3. Adding'
  <2>1. CASE stream'
    BY <1>2, <2>1, WriteShape DEF TInv, Adding
  <2>2. CASE ~stream'
    BY <2>2 DEF Adding
  <2>3. QED
    BY <2>1, <2>2
<1>4. QED
  BY <1>1, <1>2, <1>3, StillAdding

LEMMA TextAddFile ==
  ASSUME TypeOK, LInv, TInv, AddFile
  PROVE  TInv'
<1>1. pc = "adding" /\ todo # <<>> /\ Readable /\ UNCHANGED <<pc, asked>>
  BY DEF AddFile
<1>2. PICK content \in Buffers :
        /\ WriteData(content)
        /\ files' = Append(files, Described(content, files_def.SizeOfData))
        /\ files_def' = Counted(content)
  BY DEF AddFile
<1>3. Counts'
  <2>1. files_def'.SizeOfFMMArray = files_def.SizeOfFMMArray + 1
    BY <1>2 DEF Counted
  <2>2. files \in Seq(Definition)
    BY DEF TypeOK
  <2>3. Len(files') = Len(files) + 1
    <3>1. Described(content, files_def.SizeOfData) \in Definition
      BY <1>1, DescribedLemma
    <3>. HIDE DEF Described
    <3>2. QED
      BY <1>2, <2>2, <3>1, AppendProperties
  <2>4. QED
    BY <2>1, <2>3 DEF TInv, Counts
<1>4. QED
  BY <1>1, <1>2, <1>3, TextWritten

LEMMA TextAddFileHalf ==
  ASSUME TypeOK, LInv, TInv, AddFileHalf
  PROVE  TInv'
<1>1. /\ pc = "adding" /\ todo # <<>> /\ Readable
      /\ UNCHANGED <<pc, asked, files, files_def>>
  BY DEF AddFileHalf
<1>2. PICK content \in Buffers : WriteData(content)
  BY DEF AddFileHalf
<1>3. Counts'
  BY <1>1 DEF TInv, Counts
<1>4. QED
  BY <1>1, <1>2, <1>3, TextWritten
\* control[] comes behind data[], which is closed.
LEMMA TextAddControl ==
  ASSUME TypeOK, LInv, TInv, AddControl
  PROVE  TInv'
<1>1. /\ pc = "adding" /\ todo = <<>> /\ files # <<>> /\ Declare("control", files)
      /\ pc' = "totals" /\ UNCHANGED <<files, files_def, todo, asked, lost>>
  BY DEF AddControl
<1>2. asked # <<>> /\ new_section /\ new_section' = TRUE
  BY <1>1 DEF LInv, TInv, Sections, Declare
<1>3. Totalling'
  <2>. SUFFICES ASSUME stream'
                PROVE  Len(text') = 2 /\ DataDone' /\ Holds(text'[2], "control", files)
    BY <1>1 DEF Totalling
  <2>1. stream
    BY <1>1 DEF Declare, Emit
  <2>2. Len(text) = 1 /\ text # <<>>
    BY <1>1, <2>1 DEF LInv
  <2>3. files \in Seq(Value)
    BY DEF TypeOK, Value
  <2>4. /\ Len(text') = Len(text) + 1
        /\ Holds(text'[Len(text) + 1], "control", files)
        /\ \A k \in 1 .. Len(text) :
             /\ text'[k].sec = text[k].sec
             /\ text'[k].items = text[k].items
             /\ (text'[k].closed <=> text[k].closed \/ k = Len(text))
    BY <1>1, <1>2, <2>2, <2>3, DeclareShape
  <2>5. /\ Len(text') = 2 /\ Holds(text'[2], "control", files)
        /\ text'[1].sec = text[1].sec /\ text'[1].items = text[1].items
        /\ text'[1].closed
    <3>1. Len(text) + 1 = 2 /\ 1 \in 1 .. Len(text)
      BY <2>2
    <3>2. QED
      BY <2>2, <2>4, <3>1
  <2>6. /\ text[1].sec = "data" /\ Commas(text[1].items) /\ text[1].items # <<>>
        /\ Exact => Len(text[1].items) = files_def.SizeOfData
    BY <1>1, <2>1 DEF TInv, Adding, LInv
  <2>7. DataDone'
    BY <1>1, <2>5, <2>6 DEF DataDone, Exact, RefusedBefore
  <2>8. QED
    BY <2>5, <2>7
<1>4. QED
  BY <1>1, <1>2, <1>3 DEF TInv, Adding, Finished, Counts, Sections, AllAdded

\* archive[] comes behind control[], which is closed.
LEMMA TextAddArchive ==
  ASSUME TypeOK, LInv, TInv, AddArchive
  PROVE  TInv'
<1>1. /\ pc = "totals" /\ Declare("archive", <<files_def>>)
      /\ pc' = "ready" /\ UNCHANGED <<files, files_def, todo, asked, lost>>
  BY DEF AddArchive
<1>2. asked # <<>> /\ new_section /\ new_section' = TRUE
  BY <1>1 DEF LInv, TInv, Sections, Declare
<1>3. Finished'
  <2>. SUFFICES ASSUME stream'
                PROVE  /\ Len(text') = 3 /\ DataDone'
                       /\ Holds(text'[2], "control", files) /\ text'[2].closed
                       /\ Holds(text'[3], "archive", <<files_def>>)
    BY <1>1 DEF Finished
  <2>1. stream
    BY <1>1 DEF Declare, Emit
  <2>2. Len(text) = 2 /\ text # <<>> /\ DataDone /\ Holds(text[2], "control", files)
    BY <1>1, <2>1 DEF TInv, Totalling
  <2>3. <<files_def>> \in Seq(Value) /\ <<files_def>> # <<>>
    BY DEF TypeOK, Value
  <2>4. /\ Len(text') = Len(text) + 1
        /\ Holds(text'[Len(text) + 1], "archive", <<files_def>>)
        /\ \A k \in 1 .. Len(text) :
             /\ text'[k].sec = text[k].sec
             /\ text'[k].items = text[k].items
             /\ (text'[k].closed <=> text[k].closed \/ k = Len(text))
    BY <1>1, <1>2, <2>2, <2>3, DeclareShape
  <2>5. /\ Len(text') = 3 /\ Holds(text'[3], "archive", <<files_def>>)
        /\ text'[1].sec = text[1].sec /\ text'[1].items = text[1].items
        /\ text'[2].sec = text[2].sec /\ text'[2].items = text[2].items
        /\ text'[2].closed
    <3>1. Len(text) + 1 = 3 /\ 1 \in 1 .. Len(text) /\ 2 \in 1 .. Len(text)
      BY <2>2
    <3>2. QED
      BY <2>2, <2>4, <3>1
  <2>6. text'[1].closed
    BY <2>2, <2>4 DEF DataDone
  <2>7. DataDone' /\ Holds(text'[2], "control", files)
    BY <1>1, <2>2, <2>5, <2>6 DEF DataDone, Holds, Exact, RefusedBefore
  <2>8. QED
    BY <2>5, <2>7
<1>4. QED
  BY <1>1, <1>2, <1>3 DEF TInv, Adding, Totalling, Counts, Sections, AllAdded

\* The destructor of the writer closes archive[].
LEMMA TextDestroy ==
  ASSUME TypeOK, LInv, TInv, Destroy
  PROVE  TInv'
<1>1. /\ pc = "ready" /\ pc' = "closed" /\ Emit(Ended(text, new_section))
      /\ UNCHANGED <<new_section, files, files_def, todo, asked, lost>>
  BY DEF Destroy
<1>2. Finished'
  <2>. SUFFICES ASSUME stream', asked # <<>>
                PROVE  /\ Len(text') = 3 /\ DataDone'
                       /\ Holds(text'[2], "control", files) /\ text'[2].closed
                       /\ Holds(text'[3], "archive", <<files_def>>) /\ text'[3].closed
    BY <1>1 DEF Finished
  <2>1. stream /\ text' = Ended(text, TRUE)
    <3>1. new_section = TRUE
      BY DEF TypeOK, TInv, Sections
    <3>2. QED
      BY <1>1, <3>1 DEF Emit
  <2>2. /\ Len(text) = 3 /\ DataDone
        /\ Holds(text[2], "control", files) /\ text[2].closed
        /\ Holds(text[3], "archive", <<files_def>>)
    BY <1>1, <2>1 DEF TInv, Finished
  <2>3. Len(text') = 3
    BY <2>1, <2>2, EndedLemma DEF TypeOK
  <2>4. ASSUME NEW k \in 1 .. 3
        PROVE  /\ text'[k].sec = text[k].sec /\ text'[k].items = text[k].items
               /\ (text'[k].closed <=> text[k].closed \/ k = 3)
    BY <2>1, <2>2, EndedShape DEF TypeOK
  <2>5. /\ text'[1].sec = text[1].sec /\ text'[1].items = text[1].items
        /\ text'[2].sec = text[2].sec /\ text'[2].items = text[2].items
        /\ text'[3].sec = text[3].sec /\ text'[3].items = text[3].items
        /\ text'[3].closed
    BY <2>4
  <2>6. text'[1].closed /\ text'[2].closed
    BY <2>2, <2>4 DEF DataDone
  <2>7. QED
    BY <1>1, <2>2, <2>3, <2>5, <2>6 DEF DataDone, Holds, Exact, RefusedBefore
<1>3. QED
  BY <1>1, <1>2 DEF TInv, Adding, Totalling, Counts, Sections, AllAdded

\* Every step keeps it.
LEMMA TextNext ==
  ASSUME TypeOK, LInv, TInv, CalledOnce, [Next]_vars
  PROVE  TInv'
<1>1. CASE Construct
  BY <1>1 DEF Construct, LInv, TInv, Adding, Totalling, Finished, Counts, Sections, AllAdded
<1>2. CASE AddFileThrows
  <2>1. /\ pc = "adding" /\ asked # <<>>
        /\ UNCHANGED <<pc, asked, text, stream, new_section, append_comma, files, files_def>>
    BY <1>2 DEF AddFileThrows, writer, LInv
  <2>2. Counts' /\ Adding' /\ new_section'
    BY <2>1 DEF TInv, Counts, Adding, Sections
  <2>3. QED
    BY <2>1, <2>2, StillAdding
<1>3. CASE AddControlCrashes
  BY <1>3 DEF AddControlCrashes, writer, TInv, Adding, Totalling, Finished, Counts,
              Sections, AllAdded
<1>4. CASE UNCHANGED vars
  BY <1>4 DEF vars, TInv, Adding, Totalling, Finished, DataDone, Holds, Counts, Sections,
              AllAdded, Exact, RefusedBefore
<1>5. QED
  BY <1>1, <1>2, <1>3, <1>4, TextAddFiles, TextAddFile, TextAddFileHalf, TextAddControl,
     TextAddArchive, TextDestroy DEF Next
-----------------------------------------------------------------------------
(* What the invariant says of a finished text *)

IInv == TypeOK /\ LInv /\ TInv

\* Initializers made from values are separated, and are the values.
LEMMA ItemsSeparated ==
  ASSUME NEW vals \in Seq(Value), vals # <<>>
  PROVE  /\ Separated(Items(FALSE, vals))
         /\ Len(Items(FALSE, vals)) = Len(vals)
         /\ \A k \in 1 .. Len(vals) : Items(FALSE, vals)[k].val = vals[k]
<1>1. /\ Len(Items(FALSE, vals)) = Len(vals)
      /\ \A k \in 1 .. Len(vals) : Items(FALSE, vals)[k].val = vals[k]
  BY ItemsLemma
<1>2. \A k \in 1 .. Len(vals) : Items(FALSE, vals)[k].comma <=> k > 1
  BY DEF Items
<1>3. Items(FALSE, vals) \in Seq(Initializer)
  BY ItemsLemma
<1>. DEFINE items == Items(FALSE, vals)
<1>. HIDE DEF items
<1>4. items # <<>>
  <2>1. Len(vals) # 0
    OBVIOUS
  <2>2. Len(items) # 0 /\ items \in Seq(Initializer)
    BY <1>1, <1>3, <2>1 DEF items
  <2>3. QED
    BY <2>2
<1>5. QED
  BY <1>1, <1>2, <1>4 DEF Separated, items

\* The whole text is right when the packer has ended.
LEMMA FinishedWellFormed == IInv => WellFormed
<1>. SUFFICES ASSUME IInv, pc = "closed", stream, Exact, asked # <<>>
              PROVE  /\ Len(text) = 3
                     /\ \A k \in 1 .. 3 : /\ text[k].closed
                                          /\ Separated(text[k].items)
                                          /\ text[k].sec = <<"data", "control", "archive">>[k]
                     /\ [k \in 1 .. Len(text[2].items) |-> text[2].items[k].val] = files
                     /\ text[3].items[1].val = [SizeOfFMMArray |-> Len(files),
                                                SizeOfData     |-> Len(text[1].items)]
  BY DEF WellFormed
<1>1. /\ Len(text) = 3 /\ DataDone
      /\ Holds(text[2], "control", files) /\ text[2].closed
      /\ Holds(text[3], "archive", <<files_def>>) /\ text[3].closed
  BY DEF IInv, TInv, Finished
<1>2. files \in Seq(Definition) /\ files \in Seq(Value) /\ files # <<>>
  BY DEF IInv, TypeOK, Value, TInv, AllAdded
<1>3. files_def \in Totals /\ <<files_def>> \in Seq(Value) /\ <<files_def>> # <<>>
  BY DEF IInv, TypeOK, Value
<1>4. /\ Separated(text[1].items) /\ text[1].closed /\ text[1].sec = "data"
      /\ Len(text[1].items) = files_def.SizeOfData
  BY <1>1 DEF DataDone, Separated, Commas
<1>5. /\ Separated(text[2].items) /\ text[2].sec = "control"
      /\ Len(text[2].items) = Len(files)
      /\ \A k \in 1 .. Len(files) : text[2].items[k].val = files[k]
  BY <1>1, <1>2, ItemsSeparated DEF Holds
<1>6. /\ Separated(text[3].items) /\ text[3].sec = "archive"
      /\ text[3].items[1].val = files_def
  <2>. DEFINE vals == <<files_def>>
  <2>1. Len(vals) = 1 /\ vals[1] = files_def /\ 1 \in 1 .. Len(vals)
    OBVIOUS
  <2>2. text[3].sec = "archive" /\ text[3].items = Items(FALSE, vals)
    BY <1>1 DEF Holds
  <2>3. vals \in Seq(Value) /\ vals # <<>>
    BY <1>3
  <2>. HIDE DEF vals
  <2>4. /\ Separated(Items(FALSE, vals))
        /\ Items(FALSE, vals)[1].val = vals[1]
    BY <2>1, <2>3, ItemsSeparated
  <2>5. QED
    BY <2>1, <2>2, <2>4
<1>7. [k \in 1 .. Len(text[2].items) |-> text[2].items[k].val] = files
  BY <1>2, <1>5
<1>8. files_def = [SizeOfFMMArray |-> Len(files), SizeOfData |-> Len(text[1].items)]
  BY <1>3, <1>4 DEF Totals, IInv, TInv, Counts
<1>9. \A k \in 1 .. 3 : /\ text[k].closed
                        /\ Separated(text[k].items)
                        /\ text[k].sec = <<"data", "control", "archive">>[k]
  BY <1>1, <1>4, <1>5, <1>6
<1>10. QED
  BY <1>1, <1>6, <1>7, <1>8, <1>9

\* For every configuration, all contents and every compressor: when no file was
\* refused by the compressor, a text that archive_file took to the end declares
\* data[], control[] and archive[] once each, closed, with commas only between
\* initializers, and with definitions and totals that fit (AddSection,
\* WriteToSection, the destructor).
THEOREM TextWellFormed == ASSUME CalledOnce PROVE Spec => []WellFormed
<1>1. Init => LInv /\ TInv
  BY LayoutInit, TextInit
<1>2. TypeOK /\ LInv /\ TInv /\ [Next]_vars => LInv' /\ TInv'
  BY LayoutNext, TextNext
<1>3. TypeOK /\ LInv /\ TInv => WellFormed
  BY FinishedWellFormed DEF IInv
<1>4. QED
  BY <1>1, <1>2, <1>3, TypesKept, PTL DEF Spec
-----------------------------------------------------------------------------
(* The packer implements Package *)

\* What Unpack finds in a finished text is what was kept.
LEMMA ReadBackLemma == IInv /\ Published => ReadBack = Kept
<1>. SUFFICES ASSUME IInv, Published
              PROVE  ReadBack = Kept
  OBVIOUS
<1>1. /\ [k \in 1 .. Len(text[2].items) |-> text[2].items[k].val] = files
      /\ text[3].items[1].val = [SizeOfFMMArray |-> Len(files),
                                 SizeOfData     |-> Len(text[1].items)]
  BY FinishedWellFormed DEF WellFormed, Published
<1>2. files \in Seq(Definition)
  BY DEF IInv, TypeOK
<1>3. text[3].items[1].val.SizeOfFMMArray = Len(files)
  BY <1>1
<1>4. ASSUME NEW k \in 1 .. Len(files)
      PROVE  text[2].items[k].val = files[k]
  BY <1>1, <1>2
<1>5. ASSUME NEW k \in 1 .. Len(files)
      PROVE  [j \in 1 .. files[k].compressedSize |->
                 text[1].items[files[k].offset + j].val] = Lz4[files[k].content]
  <2>. DEFINE f == files[k]
  <2>1. f \in Definition
    BY <1>2
  <2>2. At(f, text[1].items)
    <3>1. stream /\ ~lost /\ ~RefusedBefore(Len(files) + 1)
      BY DEF Published, Exact
    <3>2. ~RefusedBefore(k)
      BY <1>2, <3>1 DEF RefusedBefore
    <3>3. QED
      BY <3>1, <3>2, AtLemma DEF IInv, LInv
  <2>3. Lz4[f.content] \in Seq(Byte)
    BY <2>1, BuilderAssumption DEF Definition
  <2>. HIDE DEF f
  <2>4. /\ f.compressedSize = Len(Lz4[f.content])
        /\ \A j \in 1 .. f.compressedSize :
             text[1].items[f.offset + j].val = Lz4[f.content][j]
    BY <2>2 DEF At
  <2>5. [j \in 1 .. f.compressedSize |-> text[1].items[f.offset + j].val]
          = Lz4[f.content]
    <3>. DEFINE L == Lz4[f.content]
    <3>1. L = [j \in 1 .. Len(L) |-> L[j]]
      BY <2>3, Zenon, SeqAsFunction
    <3>2. f.compressedSize = Len(L)
      BY <2>4
    <3>3. \A j \in 1 .. Len(L) : text[1].items[f.offset + j].val = L[j]
      BY <2>4, <3>2
    <3>. HIDE DEF L
    <3>4. [j \in 1 .. Len(L) |-> text[1].items[f.offset + j].val]
            = [j \in 1 .. Len(L) |-> L[j]]
      BY <3>3, Zenon
    <3>5. QED
      BY <3>1, <3>2, <3>4, Zenon DEF L
  <2>6. QED
    BY <2>5 DEF f
<1>6. QED
  BY <1>3, <1>4, <1>5 DEF ReadBack, Kept

\* The first state is one of Package.
LEMMA PackageInit == Init => P!Init
  BY DEF Init, P!Init, Kept, Stage, Out, Published

\* A step that keeps what Package sees of the state is a stutter of it.
LEMMA PackageStutter ==
  ASSUME UNCHANGED <<creator, todo, files, asked>>, ~Published, ~Published'
  PROVE  UNCHANGED P!vars
  BY DEF P!vars, Kept, Stage, Out

\* Every step is a step of Package, or a stutter.
LEMMA PackageNext ==
  ASSUME IInv, IInv', CalledOnce, [Next]_vars
  PROVE  [P!Next]_(P!vars)
<1>1. CASE Construct
  BY <1>1, PackageStutter DEF Construct, Published
<1>2. CASE AddFiles
  <2>1. asked = <<>>
    <3>1. Len(asked) < 1 /\ asked \in Seq(Jobs)
      BY <1>2, BuilderAssumption DEF AddFiles, IInv, TypeOK, CalledOnce
    <3>2. QED
      BY <3>1
  <2>2. PICK job \in Jobs : todo' = job /\ asked' = Append(asked, job)
    BY <1>2 DEF AddFiles
  <2>3. asked' # <<>> /\ pc' = "adding" /\ UNCHANGED <<creator, files>>
    BY <1>2, <2>1, <2>2 DEF AddFiles
  <2>4. Stage = "new" /\ Stage' = "packing" /\ Out = <<>> /\ Out' = <<>> /\ Kept' = Kept
    BY <2>1, <2>3 DEF Stage, Out, Published, Kept
  <2>5. P!Ask
    BY <2>2, <2>3, <2>4 DEF P!Ask
  <2>6. QED
    BY <2>5 DEF P!Next
<1>3. ASSUME pc = "adding", pc' = pc, UNCHANGED asked
      PROVE  /\ Stage = "packing" /\ Stage' = "packing"
             /\ Out = <<>> /\ Out' = <<>>
  BY <1>3 DEF IInv, LInv, Stage, Out, Published
<1>4. CASE AddFile
  <2>1. PICK content \in Buffers :
          /\ WriteData(content)
          /\ files' = Append(files, Described(content, files_def.SizeOfData))
    BY <1>4 DEF AddFile
  <2>2. /\ pc = "adding" /\ todo # <<>> /\ Readable
        /\ UNCHANGED <<creator, asked, pc>> /\ todo' = Tail(todo)
    BY <1>4 DEF AddFile, WriteData
  <2>3. /\ Stage = "packing" /\ Stage' = "packing"
        /\ Out = <<>> /\ Out' = <<>>
    BY <1>3, <2>2
  <2>. DEFINE def == Described(content, files_def.SizeOfData)
              new == [relative |-> Head(todo).relative, bytes |-> Lz4[content]]
  <2>4. def.relative = Head(todo).relative /\ def.content = content
    BY DEF Described, conf
  <2>5. def \in Definition /\ files \in Seq(Definition)
    BY <2>2, DescribedLemma DEF IInv, TypeOK
  <2>6. Kept' = Append(Kept, new)
    <3>1. new = [relative |-> def.relative, bytes |-> Lz4[def.content]]
      BY <2>4
    <3>. HIDE DEF def, new
    <3>2. /\ Len(files') = Len(files) + 1 /\ files'[Len(files) + 1] = def
          /\ \A k \in 1 .. Len(files) : files'[k] = files[k]
      BY <2>1, <2>5, AppendProperties DEF def
    <3>3. Kept' = [k \in 1 .. Len(files) + 1 |->
                     IF k = Len(files) + 1 THEN new ELSE Kept[k]]
      BY <3>1, <3>2, <2>5 DEF Kept
    <3>. DEFINE S == {Kept[k] : k \in 1 .. Len(files)} \cup {new}
    <3>4. Kept \in Seq(S) /\ Len(Kept) = Len(files) /\ new \in S
      BY <2>5 DEF Kept
    <3>. HIDE DEF S
    <3>5. Append(Kept, new) = [k \in 1 .. Len(files) + 1 |->
                     IF k = Len(files) + 1 THEN new ELSE Kept[k]]
      <4>1. /\ Append(Kept, new) \in Seq(S) /\ Len(Append(Kept, new)) = Len(files) + 1
            /\ Append(Kept, new)[Len(files) + 1] = new
            /\ \A k \in 1 .. Len(files) : Append(Kept, new)[k] = Kept[k]
        BY <3>4, AppendProperties
      <4>2. Append(Kept, new) = [k \in 1 .. Len(files) + 1 |-> Append(Kept, new)[k]]
        BY <4>1, LenProperties
      <4>3. QED
        BY <2>5, <4>1, <4>2
    <3>6. QED
      BY <3>3, <3>5
  <2>7. /\ Head(todo).onCreator \in DOMAIN creator
        /\ content \in {TextMode[creator[Head(todo).onCreator]],
                        Zeroed[TextMode[creator[Head(todo).onCreator]]]}
    BY <2>1, <2>2 DEF Readable, Buffers, ReadOf, conf
  <2>8. P!Keep
    BY <2>2, <2>3, <2>6, <2>7 DEF P!Keep
  <2>9. QED
    BY <2>8 DEF P!Next
<1>5. CASE AddFileHalf \/ AddFileThrows
  <2>1. /\ pc = "adding" /\ todo # <<>> /\ todo' = Tail(todo)
        /\ UNCHANGED <<creator, files, asked, pc>>
    BY <1>5 DEF AddFileHalf, AddFileThrows, WriteData
  <2>2. /\ Stage = "packing" /\ Stage' = "packing"
        /\ Out = <<>> /\ Out' = <<>> /\ Kept' = Kept
    BY <1>3, <2>1 DEF Kept
  <2>3. P!LeaveOut
    BY <2>1, <2>2 DEF P!LeaveOut
  <2>4. QED
    BY <2>3 DEF P!Next
<1>6. CASE AddControl \/ AddControlCrashes \/ AddArchive
  BY <1>6, PackageStutter DEF AddControl, AddControlCrashes, AddArchive, Published
<1>7. CASE Destroy
  <2>1. /\ pc = "ready" /\ UNCHANGED <<creator, files, todo, asked>> /\ ~Published
    BY <1>7 DEF Destroy, Published
  <2>2. CASE Published'
    <3>1. asked # <<>> /\ todo = <<>> /\ files # <<>>
      BY <2>1, <2>2 DEF Published, IInv, TInv, AllAdded
    <3>2. Kept # <<>>
      <4>1. Len(files) \in Nat \ {0}
        BY <3>1 DEF IInv, TypeOK
      <4>2. DOMAIN Kept = 1 .. Len(files)
        BY DEF Kept
      <4>3. 1 \in DOMAIN Kept /\ 1 \notin DOMAIN <<>>
        BY <4>1, <4>2
      <4>4. QED
        BY <4>3
    <3>3. ReadBack' = Kept'
      <4>1. (IInv /\ Published => ReadBack = Kept)'
        BY ReadBackLemma, PTL
      <4>2. QED
        BY <2>2, <4>1
    <3>4. Kept' = Kept
      BY <2>1 DEF Kept
    <3>5. Stage = "packing" /\ Stage' = "published" /\ Out' = Kept
      BY <2>1, <2>2, <3>1, <3>3, <3>4 DEF Stage, Out
    <3>6. P!Publish
      BY <2>1, <3>1, <3>2, <3>4, <3>5 DEF P!Publish
    <3>7. QED
      BY <3>6 DEF P!Next
  <2>3. CASE ~Published'
    BY <2>1, <2>3, PackageStutter
  <2>4. QED
    BY <2>2, <2>3
<1>8. CASE UNCHANGED vars
  BY <1>8 DEF vars, P!vars, Kept, Stage, Out, Published, ReadBack, Exact, RefusedBefore
<1>9. QED
  BY <1>1, <1>2, <1>4, <1>5, <1>6, <1>7, <1>8 DEF Next

\* The packer implements Package: for every configuration, all contents and
\* every compressor, a patcher that is compiled with the finished text of a packer
\* that lost nothing and had no file refused by the compressor finds in it what
\* was kept, each file under its user's path and with its own compressed bytes,
\* and nothing else.
THEOREM Implements == ASSUME CalledOnce PROVE Spec => Packs
<1>1. Init => LInv /\ TInv /\ P!Init
  BY LayoutInit, TextInit, PackageInit
<1>2. TypeOK /\ LInv /\ TInv /\ [Next]_vars => LInv' /\ TInv'
  BY LayoutNext, TextNext
<1>3. (/\ TypeOK /\ LInv /\ TInv /\ [Next]_vars
       /\ TypeOK' /\ LInv' /\ TInv') => [P!Next]_(P!vars)
  BY PackageNext DEF IInv
<1>4. QED
  BY <1>1, <1>2, <1>3, TypesKept, PTL DEF Spec, Packs, P!Spec
-----------------------------------------------------------------------------
(* No file gets another's path or content *)

\* h leads from each definition to the place in job of the file it describes.
Leads(job, h) ==
  /\ \A k \in 2 .. Len(files) : h[k - 1] < h[k]
  /\ \A k \in 1 .. Len(files) :
       /\ files[k].relative = job[h[k]].relative
       /\ job[h[k]].onCreator \in DOMAIN creator
       /\ files[k].content \in ReadOf(job[h[k]].onCreator)

\* The first m files of job are behind AddFiles, the others are to come.
Behind(job, m) ==
  /\ m \in 0 .. Len(job)
  /\ Len(todo) = Len(job) - m
  /\ \A k \in 1 .. Len(todo) : todo[k] = job[m + k]

\* The definitions are of files that are behind.
FInv ==
  /\ asked = <<>> => files = <<>> /\ pc \in {"new", "ready", "closed"}
  /\ \A job \in Jobs : asked = <<job>> =>
       \E m \in Nat : \E h \in [1 .. Len(files) -> 1 .. Len(job)] :
         Behind(job, m) /\ Leads(job, h) /\ \A k \in 1 .. Len(files) : h[k] <= m

\* The step to the next file, with a definition for this one or without.
LEMMA NextBehind ==
  ASSUME TypeOK, NEW job \in Jobs, NEW m \in Nat, Behind(job, m), todo # <<>>,
         todo' = Tail(todo)
  PROVE  Behind(job, m + 1)' /\ m + 1 \in 1 .. Len(job) /\ conf = job[m + 1]
<1>1. job \in Seq(Config) /\ todo \in Seq(Config)
  BY BuilderAssumption DEF TypeOK
<1>2. Len(todo) \in Nat \ {0} /\ Len(job) \in Nat
  BY <1>1
<1>3. m + 1 \in 1 .. Len(job)
  BY <1>2 DEF Behind
<1>4. conf = todo[1] /\ 1 \in 1 .. Len(todo)
  BY <1>1, <1>2, HeadTailProperties DEF conf
<1>5. conf = job[m + 1]
  BY <1>4 DEF Behind
<1>6. Len(todo') = Len(todo) - 1 /\ \A k \in 1 .. Len(todo') : todo'[k] = todo[k + 1]
  BY <1>1, HeadTailProperties
<1>7. ASSUME NEW k \in 1 .. Len(todo')
      PROVE  todo'[k] = job[(m + 1) + k]
  <2>1. k + 1 \in 1 .. Len(todo) /\ m + (k + 1) = (m + 1) + k
    BY <1>2, <1>6
  <2>2. todo[k + 1] = job[m + (k + 1)]
    BY <2>1 DEF Behind
  <2>3. QED
    BY <1>6, <2>1, <2>2
<1>8. Behind(job, m + 1)'
  <2>1. Len(todo') = Len(job) - (m + 1)
    BY <1>2, <1>6 DEF Behind
  <2>2. QED
    BY <1>3, <1>7, <2>1 DEF Behind
<1>9. QED
  BY <1>3, <1>5, <1>8

\* A file that is left out leaves the others' definitions as they are.
LEMMA LeftOut ==
  ASSUME TypeOK, FInv, pc = "adding", todo # <<>>, todo' = Tail(todo),
         UNCHANGED <<creator, files, asked, pc>>
  PROVE  FInv'
<1>1. asked # <<>>
  BY DEF FInv
<1>. SUFFICES ASSUME NEW job \in Jobs, asked = <<job>>
              PROVE  \E m \in Nat : \E h \in [1 .. Len(files) -> 1 .. Len(job)] :
                       /\ Behind(job, m)' /\ Leads(job, h)'
                       /\ \A k \in 1 .. Len(files) : h[k] <= m
  BY <1>1 DEF FInv
<1>2. PICK m \in Nat, h \in [1 .. Len(files) -> 1 .. Len(job)] :
        Behind(job, m) /\ Leads(job, h) /\ \A k \in 1 .. Len(files) : h[k] <= m
  BY DEF FInv
<1>3. Behind(job, m + 1)'
  BY <1>2, NextBehind
<1>4. Leads(job, h)'
  BY <1>2 DEF Leads, ReadOf
<1>5. \A k \in 1 .. Len(files) : h[k] <= m + 1
  <2>1. job \in Seq(Config) /\ Len(job) \in Nat
    BY BuilderAssumption
  <2>2. QED
    BY <1>2, <2>1
<1>6. QED
  BY <1>3, <1>4, <1>5

\* A file that is kept gets its own definition, behind the others.
LEMMA KeptFaithful ==
  ASSUME TypeOK, FInv, AddFile
  PROVE  FInv'
<1>1. /\ pc = "adding" /\ todo # <<>> /\ Readable
      /\ UNCHANGED <<creator, asked, pc>>
  BY DEF AddFile
<1>2. PICK content \in Buffers :
        /\ WriteData(content)
        /\ files' = Append(files, Described(content, files_def.SizeOfData))
  BY DEF AddFile
<1>. DEFINE def == Described(content, files_def.SizeOfData)
            n   == Len(files)
<1>3. def.relative = conf.relative /\ def.content = content
  BY DEF Described
<1>4. def \in Definition /\ files \in Seq(Definition) /\ files' = Append(files, def)
  BY <1>1, <1>2, DescribedLemma DEF TypeOK
<1>. HIDE DEF def
<1>5. /\ n \in Nat /\ Len(files') = n + 1 /\ files'[n + 1] = def
      /\ \A k \in 1 .. n : files'[k] = files[k]
  BY <1>4, AppendProperties
<1>6. asked # <<>> /\ todo' = Tail(todo)
  BY <1>1, <1>2 DEF FInv, WriteData
<1>. SUFFICES ASSUME NEW job \in Jobs, asked = <<job>>
              PROVE  \E m \in Nat : \E h \in [1 .. Len(files') -> 1 .. Len(job)] :
                       /\ Behind(job, m)' /\ Leads(job, h)'
                       /\ \A k \in 1 .. Len(files') : h[k] <= m
  BY <1>1, <1>6 DEF FInv
<1>7. PICK m \in Nat, h \in [1 .. n -> 1 .. Len(job)] :
        Behind(job, m) /\ Leads(job, h) /\ \A k \in 1 .. n : h[k] <= m
  BY DEF FInv
<1>8. Behind(job, m + 1)' /\ m + 1 \in 1 .. Len(job) /\ conf = job[m + 1]
  BY <1>1, <1>6, <1>7, NextBehind
<1>9. PICK g \in [1 .. Len(files') -> 1 .. Len(job)] :
        g = [k \in 1 .. n + 1 |-> IF k = n + 1 THEN m + 1 ELSE h[k]]
  <2>1. ASSUME NEW k \in 1 .. n + 1
        PROVE  (IF k = n + 1 THEN m + 1 ELSE h[k]) \in 1 .. Len(job)
    BY <1>5, <1>7, <1>8
  <2>2. [k \in 1 .. n + 1 |-> IF k = n + 1 THEN m + 1 ELSE h[k]]
          \in [1 .. Len(files') -> 1 .. Len(job)]
    BY <1>5, <2>1
  <2>3. QED
    BY <2>2
<1>10. /\ g[n + 1] = m + 1
       /\ \A k \in 1 .. n : g[k] = h[k] /\ h[k] \in Nat
  <2>1. n + 1 \in 1 .. n + 1
    BY <1>5
  <2>2. ASSUME NEW k \in 1 .. n
        PROVE  k \in 1 .. n + 1 /\ k # n + 1 /\ h[k] \in 1 .. Len(job)
    BY <1>5, <1>7
  <2>. HIDE DEF n
  <2>3. QED
    BY <1>9, <2>1, <2>2
<1>. HIDE DEF n
<1>11. \A k \in 1 .. Len(files') : g[k] <= m + 1
  BY <1>5, <1>7, <1>10
<1>12. Leads(job, g)'
  <2>1. ASSUME NEW k \in 2 .. Len(files')
        PROVE  g[k - 1] < g[k]
    <3>1. CASE k = n + 1
      <4>1. k - 1 \in 1 .. n
        BY <1>5, <3>1
      <4>2. QED
        BY <1>7, <1>10, <3>1, <4>1
    <3>2. CASE k # n + 1
      <4>1. k \in 2 .. n /\ k \in 1 .. n /\ k - 1 \in 1 .. n
        BY <1>5, <3>2
      <4>2. h[k - 1] < h[k]
        BY <1>7, <4>1 DEF Leads, n
      <4>3. QED
        BY <1>10, <4>1, <4>2
    <3>3. QED
      BY <3>1, <3>2
  <2>2. ASSUME NEW k \in 1 .. Len(files')
        PROVE  /\ files'[k].relative = job[g[k]].relative
               /\ job[g[k]].onCreator \in DOMAIN creator
               /\ files'[k].content \in ReadOf(job[g[k]].onCreator)
    <3>1. CASE k = n + 1
      BY <1>1, <1>3, <1>5, <1>8, <1>10, <3>1 DEF Readable, Buffers
    <3>2. CASE k # n + 1
      <4>1. k \in 1 .. n
        BY <1>5, <3>2
      <4>2. QED
        BY <1>5, <1>7, <1>10, <4>1 DEF Leads, n
    <3>3. QED
      BY <3>1, <3>2
  <2>3. QED
    BY <1>1, <2>1, <2>2 DEF Leads, ReadOf
<1>13. m + 1 \in Nat /\ g \in [1 .. Len(files') -> 1 .. Len(job)]
  BY <1>9
<1>. WITNESS m + 1 \in Nat, g \in [1 .. Len(files') -> 1 .. Len(job)]
<1>14. QED
  BY <1>8, <1>11, <1>12

\* AddFiles begins with everything to come.
LEMMA AskedFaithful ==
  ASSUME TypeOK, FInv, AddFiles
  PROVE  FInv'
<1>1. PICK conf0 \in Jobs : todo' = conf0 /\ asked' = Append(asked, conf0)
  BY DEF AddFiles
<1>2. UNCHANGED <<creator, files>> /\ asked \in Seq(Jobs)
  BY DEF AddFiles, TypeOK
<1>3. asked' # <<>>
  BY <1>1, <1>2
<1>. SUFFICES ASSUME NEW job \in Jobs, asked' = <<job>>
              PROVE  \E m \in Nat : \E h \in [1 .. Len(files) -> 1 .. Len(job)] :
                       /\ Behind(job, m)' /\ Leads(job, h)'
                       /\ \A k \in 1 .. Len(files) : h[k] <= m
  BY <1>2, <1>3 DEF FInv
<1>4. asked = <<>> /\ conf0 = job
  <2>1. Len(asked') = Len(asked) + 1 /\ asked'[Len(asked) + 1] = conf0
    BY <1>1, <1>2, AppendProperties
  <2>2. Len(asked') = 1 /\ asked'[1] = job
    OBVIOUS
  <2>3. Len(asked) \in Nat
    BY <1>2
  <2>4. Len(asked) = 0
    BY <2>1, <2>2, <2>3
  <2>5. asked = <<>>
    BY <1>2, <2>4
  <2>6. QED
    BY <2>1, <2>2, <2>4, <2>5
<1>5. files = <<>> /\ Len(files) = 0
  BY <1>4 DEF FInv
<1>6. job \in Seq(Config) /\ Len(job) \in Nat
  BY BuilderAssumption
<1>7. Behind(job, 0)'
  BY <1>1, <1>4, <1>6 DEF Behind
<1>8. PICK h \in [1 .. Len(files) -> 1 .. Len(job)] : h = [k \in 1 .. 0 |-> 1]
  <2>1. [k \in 1 .. 0 |-> 1] \in [1 .. Len(files) -> 1 .. Len(job)]
    BY <1>5
  <2>2. QED
    BY <2>1
<1>9. Leads(job, h)'
  BY <1>2, <1>5 DEF Leads
<1>10. 0 \in Nat /\ h \in [1 .. Len(files) -> 1 .. Len(job)]
  BY <1>8
<1>. WITNESS 0 \in Nat, h \in [1 .. Len(files) -> 1 .. Len(job)]
<1>11. QED
  BY <1>5, <1>7, <1>9
\* A step that decides about no file changes nothing the invariant is about.
LEMMA FaithfulKept ==
  ASSUME FInv, UNCHANGED <<creator, files, asked, todo>>,
         asked = <<>> => pc' \in {"new", "ready", "closed"}
  PROVE  FInv'
<1>. SUFFICES ASSUME NEW job \in Jobs, asked = <<job>>
              PROVE  \E m \in Nat : \E h \in [1 .. Len(files) -> 1 .. Len(job)] :
                       /\ Behind(job, m)' /\ Leads(job, h)'
                       /\ \A k \in 1 .. Len(files) : h[k] <= m
  BY DEF FInv
<1>1. PICK m \in Nat, h \in [1 .. Len(files) -> 1 .. Len(job)] :
        Behind(job, m) /\ Leads(job, h) /\ \A k \in 1 .. Len(files) : h[k] <= m
  BY DEF FInv
<1>2. Behind(job, m)' /\ Leads(job, h)'
  BY <1>1 DEF Behind, Leads, ReadOf
<1>. WITNESS m \in Nat, h \in [1 .. Len(files) -> 1 .. Len(job)]
<1>3. QED
  BY <1>1, <1>2

\* Every step keeps it.
LEMMA FaithfulNext ==
  ASSUME TypeOK, FInv, [Next]_vars
  PROVE  FInv'
<1>1. CASE Construct \/ AddControl \/ AddControlCrashes \/ AddArchive \/ Destroy
  BY <1>1, FaithfulKept DEF Construct, AddControl, AddControlCrashes, AddArchive,
                            Destroy, FInv
<1>2. CASE AddFileHalf
  <2>1. /\ pc = "adding" /\ todo # <<>> /\ todo' = Tail(todo)
        /\ UNCHANGED <<creator, files, asked, pc>>
    BY <1>2 DEF AddFileHalf, WriteData
  <2>2. QED
    BY <2>1, LeftOut
<1>3. CASE AddFileThrows
  BY <1>3, LeftOut DEF AddFileThrows
<1>4. CASE UNCHANGED vars
  BY <1>4, FaithfulKept DEF vars, FInv
<1>5. QED
  BY <1>1, <1>2, <1>3, <1>4, AskedFaithful, KeptFaithful DEF Next

\* The definitions are, in the configuration's order, those of some of the files
\* it names, each with its own path and what was read of it: for every
\* configuration, all contents, every compressor and whatever fails (AddFile,
\* which leaves out what it cannot read or keep).
THEOREM NoneMixedUp == Spec => []Faithful
<1>1. Init => FInv
  BY DEF Init, FInv
<1>2. TypeOK /\ FInv /\ [Next]_vars => FInv'
  BY FaithfulNext
<1>3. FInv => Faithful
  BY DEF FInv, Faithful, Leads
<1>4. QED
  BY <1>1, <1>2, <1>3, TypesKept, PTL DEF Spec
=============================================================================
