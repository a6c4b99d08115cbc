---------------------------- MODULE MCCtVerifier ----------------------------
(***************************************************************************)
(* Instances of CtVerifier for TLC.  Keys are numbers named in the order   *)
(* in which CT first mentions them: they are interchangeable.              *)
(***************************************************************************)
EXTENDS CtVerifier

MCKey == 1..3
MCNoKey == 0

Mentioned == {c.key : c \in ct} \cup {c.succ : c \in ct}

KeysInOrder == \A k \in Mentioned \ {NoKey, 1} : k - 1 \in Mentioned

\* A bound: nothing is logged twice, and no key commits to itself (longer
\* cycles are there).
NoRepetition ==
    /\ \A x, y \in ct : [x EXCEPT !.at = 0] = [y EXCEPT !.at = 0] => x = y
    /\ \A c \in ct : c.key # c.succ

=============================================================================
