----------------------------- MODULE ByteStream -----------------------------
(***************************************************************************)
(* What a frame promises: what the receiver has is always the beginning of *)
(* what the sender gave, and the end is told only when everything arrived. *)
(* How the bytes travel, and in what pieces, is left open.                 *)
(***************************************************************************)
EXTENDS Sequences, Naturals

VARIABLES sent,      \* what the sender gave
          closed,    \* it gave everything
          received,  \* what the receiver has
          ended      \* it was told so

vars == <<sent, closed, received, ended>>

Init == sent = <<>> /\ closed = FALSE /\ received = <<>> /\ ended = FALSE

Give == /\ ~closed
        /\ Len(sent') >= Len(sent) /\ SubSeq(sent', 1, Len(sent)) = sent
        /\ closed' \in BOOLEAN
        /\ UNCHANGED <<received, ended>>

Take == /\ closed /\ ~ended
        /\ Len(received') \in Len(received) .. Len(sent)
        /\ received' = SubSeq(sent, 1, Len(received'))
        /\ ended' => received' = sent
        /\ UNCHANGED <<sent, closed>>

\* Either side starts over.
Restart == /\ sent' = <<>> /\ closed' = FALSE /\ received' = <<>> /\ ended' = FALSE

Next == Give \/ Take \/ Restart

Spec == Init /\ [][Next]_vars
=============================================================================
