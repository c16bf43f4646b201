---------------------------- MODULE Replacement ----------------------------
(***************************************************************************)
(* What the patcher promises the user, without temporary files, readers,   *)
(* streams and paths of backups: the entries are taken one after the       *)
(* other, from the first of them in every run; before a file is touched a  *)
(* copy of it is kept, where that can be done; meanwhile no other file     *)
(* changes; an entry is passed when its file is right, or reported; and a  *)
(* copy goes only when the file is again what was copied.                  *)
(***************************************************************************)
EXTENDS Naturals, Sequences

CONSTANT Archive   \* the entries: the path of a file and what it shall become

VARIABLES
  files,      \* the user's files: a function on the paths that exist
  copies,     \* the whole copies that are kept of them
  stage,      \* "stopped", "between" entries, "keeping" or "replacing" a file,
              \* or "finished"
  at,         \* the number of the entry
  reported    \* the entries this run has reported

vars == <<files, copies, stage, at, reported>>

path == Archive[at].path
want == Archive[at].want

\* No file changes but the one at hand, which may become anything or nothing.
OnlyThisFile ==
  /\ DOMAIN files' \ {path} = DOMAIN files \ {path}
  /\ \A p \in DOMAIN files \ {path} : files'[p] = files[p]

Init == copies = [p \in {} |-> <<>>] /\ stage = "stopped" /\ at = 1 /\ reported = {}

Begin ==
  /\ stage \in {"stopped", "finished"}
  /\ stage' = "between" /\ at' = 1 /\ reported' = {}
  /\ UNCHANGED <<files, copies>>

Take ==
  /\ stage = "between"
  /\ at <= Len(Archive)
  /\ stage' = "keeping"
  /\ UNCHANGED <<files, copies, at, reported>>

\* A copy is made of the file as it is, and only where none is kept.
Keep ==
  /\ stage = "keeping"
  /\ path \in DOMAIN files \ DOMAIN copies
  /\ copies' = [p \in DOMAIN copies \cup {path} |->
                  IF p = path THEN files[path] ELSE copies[p]]
  /\ stage' = "replacing"
  /\ UNCHANGED <<files, at, reported>>

KeepNone ==
  /\ stage = "keeping"
  /\ stage' = "replacing"
  /\ UNCHANGED <<files, copies, at, reported>>

Replace ==
  /\ stage = "replacing"
  /\ OnlyThisFile
  /\ UNCHANGED <<copies, stage, at, reported>>

Pass == stage = "replacing" /\ stage' = "between" /\ at' = at + 1

Accept ==
  /\ Pass
  /\ path \in DOMAIN files /\ files[path] = want
  /\ UNCHANGED <<files, copies, reported>>

\* The file is left as a restore may have left it, with its copy.
Refuse ==
  /\ Pass
  /\ reported' = reported \cup {at}
  /\ OnlyThisFile
  /\ UNCHANGED copies

\* The file is what was copied, and the copy goes.
GiveBack ==
  /\ Pass
  /\ reported' = reported \cup {at}
  /\ path \in DOMAIN files \cap DOMAIN copies /\ files[path] = copies[path]
  /\ copies' = [p \in DOMAIN copies \ {path} |-> copies[p]]
  /\ UNCHANGED files

\* Only a run that has passed every entry comes to its end.
Finish ==
  /\ stage = "between"
  /\ at > Len(Archive)
  /\ stage' = "finished"
  /\ UNCHANGED <<files, copies, at, reported>>

\* A run may break off anywhere, with the file at hand in any state.
Die ==
  /\ stage \in {"between", "keeping", "replacing"}
  /\ IF stage = "replacing" THEN OnlyThisFile ELSE UNCHANGED files
  /\ stage' = "stopped"
  /\ UNCHANGED <<copies, at, reported>>

Next == \/ Begin \/ Take \/ Keep \/ KeepNone \/ Replace
        \/ Accept \/ Refuse \/ GiveBack \/ Finish \/ Die

Spec == Init /\ [][Next]_vars
=============================================================================
