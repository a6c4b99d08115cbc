-------------------------- MODULE Succession_proofs --------------------------
(***************************************************************************)
(* Proofs about Succession.  The first lemma carries the module: a new     *)
(* endorsement closes fewer sets, so it can only add descendants.          *)
(***************************************************************************)
EXTENDS Succession, TLAPS

\* A map that keeps every endorsement of another has every descent of it: how
\* one more commitment in CT bears on the chains that are there already.
LEMMA MoreEndorsementsMoreDescent ==
    ASSUME NEW old, NEW new,
           \A k \in Key : old[k] # NoKey => new[k] = old[k]
    PROVE  \A g, d \in Key : Descends(g, d, old) => Descends(g, d, new)
<1> SUFFICES ASSUME NEW g \in Key, NEW d \in Key, Descends(g, d, old),
                    NEW S \in SUBSET Key, g \in S, Closed(S, new)
             PROVE  d \in S
  BY DEF Descends
<1>1. Closed(S, old)
  BY DEF Closed
<1> QED BY <1>1 DEF Descends

\* The successors are keys, and a key has at most one (_earliest_successor).
THEOREM SuccessionTypeCorrect == Spec => []TypeOK
<1>1. Init => TypeOK
  BY DEF Init, TypeOK
<1>2. TypeOK /\ [Next]_successor => TypeOK'
  BY DEF TypeOK, Next, Endorse
<1> QED BY <1>1, <1>2, PTL DEF Spec

\* Once a key descends from another it does so for ever, whoever endorses what
\* afterwards: what earliest-commitment-wins gives a custody chain.
THEOREM DescentIsPermanent ==
    Spec => [][\A g, d \in Key :
                  Descends(g, d, successor) => Descends(g, d, successor')]_successor
<1>1. TypeOK /\ [Next]_successor =>
          [\A g, d \in Key :
              Descends(g, d, successor) => Descends(g, d, successor')]_successor
  <2> SUFFICES ASSUME TypeOK, NEW k \in Key, NEW s \in Key, Endorse(k, s)
               PROVE  \A g, d \in Key :
                          Descends(g, d, successor) => Descends(g, d, successor')
    BY DEF Next
  <2>1. \A x \in Key : successor[x] # NoKey => successor'[x] = successor[x]
    BY DEF TypeOK, Endorse
  <2> QED BY <2>1, MoreEndorsementsMoreDescent
<1> QED BY <1>1, SuccessionTypeCorrect, PTL DEF Spec

=============================================================================
