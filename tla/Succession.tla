------------------------------ MODULE Succession ------------------------------
(***************************************************************************)
(* What the commitments of a custody chain promise, without certificates:  *)
(* a key endorses at most one successor, once and for all.  Authority      *)
(* over an RUUID then moves along a path nobody can rewrite, whoever       *)
(* comes to hold a superseded key.                                         *)
(***************************************************************************)
CONSTANTS Key, NoKey

VARIABLE successor

TypeOK == successor \in [Key -> Key \cup {NoKey}]

Init == successor = [k \in Key |-> NoKey]

Endorse(k, s) ==
    /\ successor[k] = NoKey
    /\ successor' = [successor EXCEPT ![k] = s]

Next == \E k, s \in Key : Endorse(k, s)

Spec == Init /\ [][Next]_successor

-----------------------------------------------------------------------------
\* A set of keys that no endorsement leaves.
Closed(S, next) == \A k \in S : next[k] # NoKey => next[k] \in S

\* Key d descends from key g: it is in every closed set that holds g.
Descends(g, d, next) ==
    \A S \in SUBSET Key : g \in S /\ Closed(S, next) => d \in S

=============================================================================
