------------------------------ MODULE Package ------------------------------
(***************************************************************************)
(* What the packer promises to the patcher, without the text between them: *)
(* a vector of files is asked for; each in turn is kept, under the user's  *)
(* path and as what the compressor makes of what was read of it, or is     *)
(* left out; and what is published in the end is what was kept, all of it  *)
(* and in this order.                                                      *)
(***************************************************************************)
EXTENDS Sequences

CONSTANTS
  Jobs,       \* the vectors that may be asked for
  Lz4,        \* what the compressor makes of a content
  TextMode,   \* what is read of a content as text
  Zeroed      \* what is read of a file that has become shorter

VARIABLES
  creator,    \* the files on the creator's machine
  left,       \* what is asked for and not yet decided
  kept,       \* the files kept: the user's path and compressed bytes
  stage,      \* "new", "packing" or "published"
  out         \* what was published

vars == <<creator, left, kept, stage, out>>

Init == left = <<>> /\ kept = <<>> /\ stage = "new" /\ out = <<>>

Ask ==
  /\ stage = "new"
  /\ left' \in Jobs
  /\ stage' = "packing"
  /\ UNCHANGED <<creator, kept, out>>

Keep ==
  /\ stage = "packing"
  /\ left # <<>>
  /\ Head(left).onCreator \in DOMAIN creator
  /\ LET content == TextMode[creator[Head(left).onCreator]]
     IN  \E c \in {content, Zeroed[content]} :
           kept' = Append(kept, [relative |-> Head(left).relative, bytes |-> Lz4[c]])
  /\ left' = Tail(left)
  /\ UNCHANGED <<creator, stage, out>>

LeaveOut ==
  /\ stage = "packing"
  /\ left # <<>>
  /\ left' = Tail(left)
  /\ UNCHANGED <<creator, kept, stage, out>>

Publish ==
  /\ stage = "packing"
  /\ left = <<>>
  /\ kept # <<>>
  /\ out' = kept
  /\ stage' = "published"
  /\ UNCHANGED <<creator, left, kept>>

Next == Ask \/ Keep \/ LeaveOut \/ Publish

Spec == Init /\ [][Next]_vars
=============================================================================
