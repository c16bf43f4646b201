-------------------------- MODULE MCArchiveBuilder --------------------------
(* Instances of ArchiveBuilder for TLC. *)
EXTENDS ArchiveBuilder, TLC

CONSTANTS s1, s2, s3    \* files on the creator's machine
CONSTANTS p, q          \* paths on the user's
CONSTANTS c1, c2, c2r   \* contents: c2 holds line ends, c2r is what is read of it
CONSTANTS huge          \* one the compressor refuses
CONSTANTS zero          \* what is left of a file cut short
CONSTANTS x, y          \* bytes

MCSource == {s1, s2, s3}
MCUserPath == {p, q}
MCLz4 == (c1 :> <<x>>) @@ (c2 :> <<x, x>>) @@ (c2r :> <<y, x>>)
         @@ (huge :> <<>>) @@ (zero :> <<y>>)

MCTextMode == [c \in Content |-> IF c = c2 THEN c2r ELSE c]
MCZeroed == [c \in Content |-> IF c = huge THEN huge ELSE zero]

Cfg(s, r) == [onCreator |-> s, relative |-> r]

\* The empty vector, files with the same path, the same file under two paths.
MCJobs == {<<>>,
           <<Cfg(s1, p), Cfg(s2, q), Cfg(s3, q)>>,
           <<Cfg(s2, q), Cfg(s1, p), Cfg(s2, p)>>}
=============================================================================
