---------------------------- MODULE Configurator ----------------------------
(***************************************************************************)
(* The configurator's main: it finds the config, reads it (JsonReader),    *)
(* checks it against the rules of Config.cpp and has the files packed      *)
(* (AddFiles, see ArchiveBuilder).  An exception that nobody catches ends  *)
(* the program.  Strings are sequences of the reader's symbols.            *)
(***************************************************************************)
EXTENDS JsonReader

CONSTANTS Arguments,   \* what the program is started with: [arg, isDir], arg <<>> for nothing
          Documents,   \* what may be in the config: [exe, dest, files, lacks, ...]
          Text(_),     \* the text of a document
          Letters      \* words of one letter

VARIABLES pc,           \* "start", "read", "create", "check", "pack", then "exit",
                        \* "terminated" (by an exception) or "crashed"
          start,        \* the arguments
          document,     \* what the file holds
          config_path,  \* <<>> until it is known
          content,      \* what JSONParser::Read made of the file
          object,       \* JSONConfigFiller::config
          config,       \* Config, or Nothing
          packed,       \* the files AddFiles was given and packed
          result        \* what main returns
vars == <<pc, start, document, config_path, content, object, config, packed, result>>

Nothing == [none |-> TRUE]

Init == /\ pc = "start" /\ start \in Arguments /\ document \in Documents
        /\ config_path = <<>> /\ content = <<>> /\ object = Nothing /\ config = Nothing
        /\ packed = <<>> /\ result = 1

-----------------------------------------------------------------------------
(* path_lib.h.                                                             *)

Separators == {"/", Backslash}

\* A separator goes between, unless there is one or an extension is added.
PathAppend(origin, add, isExt) ==
  origin \o (IF isExt \/ Last(origin) \in Separators THEN <<>> ELSE <<"/">>)
         \o (IF add[1] \in Separators THEN Tail(add) ELSE add)

-----------------------------------------------------------------------------
(* Config.cpp.                                                             *)

\* A map's keys are in the order of their text: 10 comes before 2.
Decimal(k) == IF k < 10 THEN <<k>> ELSE <<k \div 10, k % 10>>
Before(j, k) ==
  LET a == Decimal(j)
      b == Decimal(k)
  IN  a[1] < b[1] \/ (a[1] = b[1] /\ (Len(a) < Len(b) \/ (Len(a) = Len(b) /\ Last(a) < Last(b))))
\* Mutant of InMapOrder: another order, as a map without one could have.
InOtherOrder(elements) ==
  [i \in 1 .. Cardinality(DOMAIN elements) |->
     elements[CHOOSE k \in DOMAIN elements :
                Cardinality({j \in DOMAIN elements : Before(k, j)}) = i - 1]]

InMapOrder(elements) ==
  [i \in 1 .. Cardinality(DOMAIN elements) |->
     elements[CHOOSE k \in DOMAIN elements :
                Cardinality({j \in DOMAIN elements : Before(j, k)}) = i - 1]]

Keys == {"executable_name", "add_build_command", "cmake_path", "gcc_path", "fileReplacement"}

FileKeys == {"OnCreatorPath", "RelativeUserPath"}
Has(value, keys) == value # Throws /\ \A key \in keys : <<key>> \in DOMAIN value.map
Src(value, key) == value.map[<<key>>].src

\* at() throws what nobody catches, if a key is missing.
JSONConfigFiller_Create(obj) ==
  LET value == Value(obj)
      files == Value(value.map[<<"fileReplacement">>])
      arr == Value(files.map[<<"Files">>])
      Values(s) == [i \in DOMAIN s |-> Value(s[i])]
      Conf(es) == [executable_name |-> Src(value, "executable_name"),
                   fileReplacement_Destination |-> Src(files, "Destination"),
                   files |-> [i \in DOMAIN es |-> <<Src(es[i], "OnCreatorPath"),
                                                    Src(es[i], "RelativeUserPath")>>]]
      Checked(es) == IF \A i \in DOMAIN es : Has(es[i], FileKeys) THEN Conf(es) ELSE Throws
  IN  IF ~Has(value, Keys) \/ ~Has(files, {"Destination", "Files"}) \/ arr = Throws THEN Throws
      ELSE Checked(Values(InMapOrder(arr.map)))

\* The characters the regular expressions exclude.
NotInPaths == {"<", ">", ":", ";", ",", "?", Q, "*", "|"}
NotInNames == NotInPaths \cup {"/"}

ExeNameRule(conf) ==
  conf.executable_name # <<>> /\ Range(conf.executable_name) \cap NotInNames = {}

\* regex_match compares the whole path with each of these.
Essential == {<<"windows">>} \cup {<<"/", dir>> : dir \in {"bin", "boot", "lib", "proc", "root", "sys"}}

PathCheckRule(conf) ==
  LET path == conf.fileReplacement_Destination
      After(n) == Len(path) > n /\ \A i \in n + 1 .. Len(path) : path[i] \notin NotInPaths
      win == Len(path) >= 3 /\ path[1] \in Letters /\ path[2] = ":" /\ path[3] = Backslash /\ After(3)
      unix == path # <<>> /\ path[1] = "/" /\ After(1)
  IN  path \in {<<"AskUser">>, <<"Registry">>} \/ ((win \/ unix) /\ path \notin Essential)

\* Mutant of RuleChecker_Check: one rule is enough.
CheckEither(conf) == ExeNameRule(conf) \/ PathCheckRule(conf)

RuleChecker_Check(conf) == ExeNameRule(conf) /\ PathCheckRule(conf)

-----------------------------------------------------------------------------
(* main.                                                                   *)

\* Mutant of Return: forgets the value.
ReturnNothing(r) == pc' = "exit" /\ UNCHANGED result

Return(r) == pc' = "exit" /\ result' = r

Locate ==
  LET path == CASE start.arg = <<>> -> <<".", "/", "sfp_config.json">>
                [] start.isDir      -> PathAppend(start.arg, <<"sfp_config.json">>, FALSE)
                [] OTHER            -> start.arg
  IN  /\ pc = "start"
      /\ config_path' = path
      /\ \E exists \in BOOLEAN :
           IF exists THEN pc' = "read" /\ UNCHANGED result ELSE Return(-1)
      /\ UNCHANGED <<start, document, content, object, config, packed>>

\* The buffer of Read is as long as file_size says and zeroed; how many bytes came
\* is not looked at.
Zeros(n) == [k \in 1 .. n |-> "null"]
Buffered(t, n) == SubSeq(t, 1, n) \o Zeros(Len(t) - n)

\* All of a text came, with a zero behind it where Windows joined 0x0D 0x0A.
Whole(t) == {t, t \o Zeros(1)}

\* None of it did, as when the file cannot be opened, or (bound) half or all but
\* the last of it.
Broken(t) == {Buffered(t, 0), Buffered(t, Len(t) \div 2), Buffered(t, Len(t) - 1)}

ReadConfig ==
  /\ pc = "read"
  /\ content' \in Whole(Text(document)) \cup Broken(Text(document))
  /\ object' = Parse(content')
  /\ pc' = IF object' = Throws THEN "terminated" ELSE "create"
  /\ UNCHANGED <<start, document, config_path, config, packed, result>>

\* file_size throws: the file is gone, or is none.
ReadConfigThrows ==
  /\ pc = "read"
  /\ pc' = "terminated"
  /\ object' = Throws
  /\ UNCHANGED <<start, document, config_path, content, config, packed, result>>

CreateConfig ==
  /\ pc = "create"
  /\ \E conf \in {JSONConfigFiller_Create(object)} :
       IF conf = Throws THEN pc' = "terminated" /\ UNCHANGED config
       ELSE pc' = "check" /\ config' = conf
  /\ UNCHANGED <<start, document, config_path, content, object, packed, result>>

CheckConfig ==
  /\ pc = "check"
  /\ IF RuleChecker_Check(config) THEN pc' = "pack" /\ UNCHANGED result ELSE Return(-1)
  /\ UNCHANGED <<start, document, config_path, content, object, config, packed>>

\* AddFile leaves out what it cannot read and says so on the console only:
\* AddFiles throws nothing, and main reports success whatever is missing.  With
\* no file at all the array of definitions is read at its null address.
PackFiles ==
  /\ pc = "pack"
  /\ \E kept \in SUBSET DOMAIN config.files :
       /\ packed' = Picked(config.files, kept)
       /\ IF kept = {} THEN pc' = "crashed" /\ UNCHANGED result ELSE Return(0)
  /\ UNCHANGED <<start, document, config_path, content, object, config>>

Done == pc \in {"exit", "terminated", "crashed"} /\ UNCHANGED vars

Next == Locate \/ ReadConfig \/ ReadConfigThrows \/ CreateConfig \/ CheckConfig \/ PackFiles \/ Done

Spec == Init /\ [][Next]_vars

-----------------------------------------------------------------------------
(* Properties.                                                             *)

\* The steps come in their order, and main returns what it should.
TypeOK ==
  /\ pc \in {"start", "read", "create", "check", "pack", "exit", "terminated", "crashed"}
  /\ result \in {-1, 0, 1} /\ (pc = "exit") = (result # 1)
  /\ config # Nothing => DOMAIN config = {"executable_name", "fileReplacement_Destination", "files"}
  /\ packed # <<>> => Range(packed) \subseteq Range(config.files)

\* A string gets through the reader as it was written if it has no blank, no
\* quote and no two backslashes in a row: a quote ends the string, and blanks are
\* removed again when the text of a value, now without its quotes, is cleared.
Survives(s) == /\ Range(s) \cap (Blank \cup {Q}) = {}
               /\ \A i \in 1 .. Len(s) - 1 : ~(s[i] = Backslash /\ s[i + 1] = Backslash)
StringsSurvive ==
  config # Nothing =>
    /\ Survives(document.exe) <=> config.executable_name = document.exe
    /\ Survives(document.dest) <=> config.fileReplacement_Destination = document.dest

\* FindPair counts the brackets in strings as well.  It goes past a string that
\* closes what it opens, and nothing else; one of another string moves the end of
\* what the string is in.
Balanced(s) ==
  LET Count(x, i) == Cardinality({k \in 1 .. i : s[k] = x})
  IN  \A pair \in {<<"{", "}">>, <<"[", "]">>} :
        /\ \A i \in DOMAIN s : Count(pair[2], i) <= Count(pair[1], i)
        /\ Count(pair[1], Len(s)) = Count(pair[2], Len(s))

\* Nothing is lost or mixed up between files, and up to ten files keep their
\* order; no more do.
FilesInOrder ==
  LET files == document.files
      Ordinary(s) == Survives(s) /\ Balanced(s)
  IN  config # Nothing /\ (\A f \in Range(files) : Ordinary(f[1]) /\ Ordinary(f[2])) =>
        /\ Len(config.files) = Len(files) /\ Range(config.files) = Range(files)
        /\ config.files = files <=> Len(files) <= 10

\* A document that came whole ends the program by an exception only if it lacks a
\* key, has tabs before one, which the reader takes for a part of the key, or has
\* a string with a quote or with brackets that are not balanced.  And without such
\* strings none gets past the reader that lacks a key or did not come whole.
OnlyIncompleteTerminates ==
  LET t == Text(document)
      strings == {document.exe, document.dest}
                 \cup UNION {Range(f) : f \in Range(document.files)}
      odd == \E s \in strings : Q \in Range(s) \/ ~Balanced(s)
      whole == content \in Whole(t)
  IN  /\ pc = "terminated" /\ whole => document.lacks # {} \/ "\t" \in Range(t) \/ odd
      /\ config # Nothing /\ ~odd => whole /\ document.lacks = {}

\* What is packed was asked for under a name that can be one, and not to go
\* into a directory of the system itself, as it was written.
OnlyAcceptedIsPacked ==
  result = 0 => /\ document.exe # <<>> /\ Range(document.exe) \cap NotInNames = {}
                /\ document.dest \notin Essential
=============================================================================
