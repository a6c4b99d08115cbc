------------------------------ MODULE MCCascade ------------------------------
(***************************************************************************)
(* Instances of Cascade for TLC.  Keys are numbers named in the order in   *)
(* which CT first mentions them; address 2 is an IPv6 address.             *)
(***************************************************************************)
EXTENDS Cascade
MCKey == 1..2
MCNoKey == 0
MCAddr == 1..2
MCNoAddr == 0
Mentioned == {c.key : c \in ct} \cup {c.succ : c \in ct}
KeysInOrder == \A k \in Mentioned \ {NoKey, 1} : k - 1 \in Mentioned
\* Bounds: nothing is logged twice, only key 1 commits, to itself or to key 2 or
\* to both, and address 2 is certified for one key.
NoRepetition ==
    \A x, y \in ct : [x EXCEPT !.at = 0] = [y EXCEPT !.at = 0] => x = y
OneCommits == \A c \in ct : c.succ # NoKey => c.key = 1
OneHolder == Cardinality(OfAddress(2, ct)) <= 1
\* On the second day CT is short, and nobody asks about a day to come.
ShortSecondDay ==
    /\ today = 1 => logged <= 3
    /\ \A p \in Proc : req[p].day <= today
=============================================================================
