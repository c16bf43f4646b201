--------------------------- MODULE MCConfigurator ---------------------------
(***************************************************************************)
(* Documents as a program that writes JSON lays them out, in some styles:  *)
(* gap stands where blanks may, number says where a member that is not a   *)
(* string stands.                                                          *)
(***************************************************************************)
EXTENDS Configurator

MCArguments == {[arg |-> <<>>, isDir |-> FALSE], [arg |-> <<"c">>, isDir |-> FALSE],
                [arg |-> <<"d">>, isDir |-> TRUE], [arg |-> <<"d", "/">>, isDir |-> TRUE]}

Escaped(s) ==
  FlattenSeq([i \in DOMAIN s |-> IF s[i] \in {Backslash, Q} THEN <<Backslash, s[i]>> ELSE <<s[i]>>])
String(s) == <<Q>> \o Escaped(s) \o <<Q>>
Joined(gap, parts) ==
  FlattenSeq([i \in DOMAIN parts |-> gap \o parts[i] \o (IF i < Len(parts) THEN <<",">> ELSE <<>>)])

\* Members of an object, less those it lacks.
Object(d, members) ==
  LET present == SelectSeq(members, LAMBDA p : p[1] \notin d.lacks)
      Member(p) == <<Q, p[1], Q>> \o d.gap \o <<":">> \o d.gap \o p[2]
      Lines(ms) == [i \in DOMAIN ms |-> Member(ms[i])]
  IN  <<"{">> \o Joined(d.gap, Lines(present)) \o d.gap \o <<"}">>

FileText(d, p) == Object(d, <<<<"OnCreatorPath", String(p[1])>>, <<"RelativeUserPath", String(p[2])>>>>)
FilesText(d) == <<"[">> \o Joined(d.gap, [i \in DOMAIN d.files |-> FileText(d, d.files[i])])
                \o d.gap \o <<"]">>

MCText(d) ==
  LET number == <<<<"version", <<"3">>>>>>
      main == <<<<"executable_name", String(d.exe)>>, <<"add_build_command", String(<<>>)>>,
                <<"cmake_path", String(<<>>)>>, <<"gcc_path", String(<<"g">>)>>,
                <<"fileReplacement",
                  Object(d, <<<<"Destination", String(d.dest)>>, <<"Files", FilesText(d)>>>>)>>>>
  IN  Object(d, CASE d.number = "first" -> number \o main
                  [] d.number = "last"  -> main \o number
                  [] OTHER              -> main)

Exes == {<<"patch">>, <<"my", " ", "patch">>, <<"a", "/", "b">>, <<>>}
Dests == {<<"AskUser">>, <<"C", ":", Backslash, "games", Backslash>>, <<Backslash, Backslash, "srv">>,
          <<"/", "bin">>, <<"/", "bin", "/", "x">>, <<"/", "opt", " ", "x">>, <<"/">>, <<"windows">>}
File(n) == <<<<"C", ":", Backslash, "from", ToString(n)>>, <<"to", Backslash, ToString(n)>>>>
Files(n) == [i \in 1 .. n |-> File(i)]
Lists == {Files(0), Files(1), Files(2), Files(3), <<<<<<"a", " ", "b">>, <<"c">>>>>>}

\* Strings with what the reader looks for; and the places they may be in.
Odds == {<<"a", x, "b">> : x \in {"{", "}", "[", "]", Q, ":", ","}}
        \cup {<<"{", "x", "}">>, <<"[", "x", "]">>, <<"}", "{">>, <<"]", "[">>, <<"{", "]">>}
OddLists(s) == {<<<<s, <<"c">>>>, File(1)>>, <<File(1), <<<<"c">>, s>>>>, <<<<s, s>>>>}

Doc(exe, dest, files) ==
  [exe |-> exe, dest |-> dest, files |-> files, lacks |-> {}, gap |-> <<" ">>, number |-> "no"]

MCDocuments ==
  {Doc(exe, dest, Files(1)) : exe \in Exes, dest \in Dests}
  \cup {[Doc(<<"patch">>, <<"AskUser">>, files) EXCEPT !.gap = gap, !.number = n] :
          files \in Lists, gap \in {<<>>, <<" ">>, <<"\n", " ">>, <<"\t">>}, n \in {"no", "first", "last"}}
  \cup {[Doc(<<"patch">>, <<"Registry">>, Files(2)) EXCEPT !.lacks = {key}] :
          key \in Keys \cup FileKeys \cup {"Destination", "Files"}}
  \cup {Doc(<<"patch">>, <<"Registry">>, Files(n)) : n \in {9, 10, 11, 13}}
  \cup UNION {{[doc EXCEPT !.number = n] : n \in {"no", "last"},
                  doc \in {Doc(s, <<"AskUser">>, Files(2)), Doc(<<"patch">>, s, Files(2))}
                          \cup {Doc(<<"patch">>, <<"AskUser">>, fs) : fs \in OddLists(s)}} :
                s \in Odds}
=============================================================================
