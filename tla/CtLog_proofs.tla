----------------------------- MODULE CtLog_proofs -----------------------------
(***************************************************************************)
(* Proofs about CtLog and the operators of CustodyChain that read it: what *)
(* one more certificate changes of the earliest commitments, hence of the  *)
(* chains; what it means for evidence to be faithful to CT; what           *)
(* _walk_chain walks, and what verify therefore says, on such evidence.    *)
(* Custody_proofs, CtVerifier_proofs and Cascade_proofs rest on them.      *)
(*                                                                         *)
(* The walk is a recursive function.  What it computes is proved by        *)
(* induction on its hops, and the induction itself by taking the least     *)
(* number of hops after which the fact would fail (UpTo).                  *)
(***************************************************************************)
EXTENDS CtLog, FiniteSetTheorems, WellFoundedInduction, TLAPS

\* Evidence whose certificates have distinct positions.
Ordered(certs) == \A x, y \in certs : x.at = y.at => x = y

\* c is the commitment of key k that wins among certs.
IsFirst(c, k, certs) ==
    /\ c \in Commitments(k, certs)
    /\ \A x \in Commitments(k, certs) : c.at <= x.at

\* The log never gives a position twice, and a key that has committed has a
\* first commitment.
LogSound ==
    /\ LogTypeOK
    /\ \A c \in ct : c.at <= logged
    /\ Ordered(ct)
    /\ \A k \in Key : Commitments(k, ct) = {} \/ \E c \in ct : IsFirst(c, k, ct)

Stamped(c) == [c EXCEPT !.at = logged + 1]

-----------------------------------------------------------------------------
\* The two shapes of certificate are certificates.
LEMMA IpCertType ==
    ASSUME NEW k \in Key, NEW a \in Addr, NEW d \in Nat, NEW e \in Nat
    PROVE  /\ IpCert(k, a, d, e) \in Cert
           /\ IpCert(k, a, d, e).key = k
           /\ IpCert(k, a, d, e).succ = NoKey
           /\ IpCert(k, a, d, e).addr = a
BY DEF IpCert, Cert

\* A commitment certificate of two keys, stamped with a position, is a certificate.
LEMMA CommitmentCertType ==
    ASSUME NEW k \in Key, NEW s \in Key
    PROVE  /\ CommitmentCert(k, s) \in Cert
           /\ CommitmentCert(k, s).key = k
           /\ CommitmentCert(k, s).succ = s
           /\ CommitmentCert(k, s).addr = NoAddr
BY DEF CommitmentCert, Cert

\* The stamp changes nothing but the position.
LEMMA StampedType ==
    ASSUME LogSound, NEW c \in Cert
    PROVE  /\ Stamped(c) \in Cert
           /\ Stamped(c).at = logged + 1
           /\ Stamped(c).key = c.key
           /\ Stamped(c).succ = c.succ
           /\ Stamped(c).addr = c.addr
BY DEF LogSound, LogTypeOK, Cert, Stamped

\* _earliest_successor returns the successor of the first commitment.
LEMMA FirstWins ==
    ASSUME NEW certs \in SUBSET Cert, Ordered(certs), NEW k \in Key,
           NEW c, IsFirst(c, k, certs)
    PROVE  EarliestSuccessor(k, certs) = c.succ
<1> DEFINE first == CHOOSE x \in Commitments(k, certs) :
                        \A y \in Commitments(k, certs) : x.at <= y.at
<1>1. /\ first \in Commitments(k, certs)
      /\ \A y \in Commitments(k, certs) : first.at <= y.at
  BY DEF IsFirst
<1>2. first \in certs /\ c \in certs /\ first.at \in Nat /\ c.at \in Nat
  BY <1>1 DEF IsFirst, Commitments, Cert
<1>3. first.at = c.at
  BY <1>1, <1>2 DEF IsFirst
<1>4. first = c
  BY <1>2, <1>3 DEF Ordered
<1>5. EarliestSuccessor(k, certs) = first.succ
  BY <1>1 DEF EarliestSuccessor
<1> QED BY <1>4, <1>5

\* _earliest_successor is None exactly when no commitment is under the key.
LEMMA NoneCommitted ==
    ASSUME NEW certs, NEW k, Commitments(k, certs) = {}
    PROVE  EarliestSuccessor(k, certs) = NoKey
BY DEF EarliestSuccessor

\* A key has a successor in CT exactly when it has committed to one.
LEMMA SuccessorInLog ==
    ASSUME LogSound, NEW k \in Key
    PROVE  /\ EarliestSuccessor(k, ct) \in Key \cup {NoKey}
           /\ EarliestSuccessor(k, ct) # NoKey <=> Commitments(k, ct) # {}
           /\ EarliestSuccessor(k, ct) # NoKey =>
                  \E c \in Commitments(k, ct) : EarliestSuccessor(k, ct) = c.succ
<1>1. CASE Commitments(k, ct) = {}
  BY <1>1, NoneCommitted
<1>2. CASE Commitments(k, ct) # {}
  <2>1. PICK c \in ct : IsFirst(c, k, ct)
    BY <1>2 DEF LogSound
  <2>2. EarliestSuccessor(k, ct) = c.succ
    BY <2>1, FirstWins DEF LogSound, LogTypeOK
  <2>3. c \in Commitments(k, ct) /\ c.succ \in Key /\ c.succ # NoKey
    BY <2>1 DEF IsFirst, Commitments, LogSound, LogTypeOK, Cert
  <2> QED BY <1>2, <2>2, <2>3
<1> QED BY <1>1, <1>2

-----------------------------------------------------------------------------
(* One more certificate.                                                   *)

\* The commitments of a key, with one more certificate in CT.
LEMMA CommitmentsAfterLog ==
    ASSUME LogSound, NEW c \in Cert, Log(c), NEW k \in Key
    PROVE  Commitments(k, ct') =
               Commitments(k, ct) \cup
                   (IF c.key = k /\ c.succ # NoKey THEN {Stamped(c)} ELSE {})
<1>1. ct' = ct \cup {Stamped(c)}
  BY DEF Log, Stamped
<1> QED BY <1>1, StampedType DEF Commitments

\* A first commitment stays first, and a first one becomes first.
LEMMA FirstAfterLog ==
    ASSUME LogSound, NEW c \in Cert, Log(c), NEW k \in Key
    PROVE  /\ \A x \in ct : IsFirst(x, k, ct) => IsFirst(x, k, ct')
           /\ Commitments(k, ct) = {} /\ c.key = k /\ c.succ # NoKey
                  => IsFirst(Stamped(c), k, ct')
<1>1. \A x \in ct : x.at \in Nat /\ x.at <= logged
  BY DEF LogSound, LogTypeOK, Cert
<1>2. Stamped(c).at = logged + 1 /\ logged \in Nat
  BY StampedType DEF LogSound, LogTypeOK
<1> QED BY <1>1, <1>2, CommitmentsAfterLog DEF IsFirst

\* Logging keeps the log's positions distinct and within its length.
LEMMA LogKeepsSound ==
    ASSUME LogSound, NEW c \in Cert, Log(c)
    PROVE  LogSound'
<1>1. ct' = ct \cup {Stamped(c)} /\ logged' = logged + 1 /\ today' = today
  BY DEF Log, Stamped
<1>2. LogTypeOK'
  BY <1>1, StampedType DEF LogSound, LogTypeOK
<1>3. \A x \in ct' : x.at <= logged'
  BY <1>1, StampedType DEF LogSound, LogTypeOK, Cert
<1>4. Ordered(ct')
  <2>1. \A x \in ct : x.at \in Nat /\ x.at < logged + 1
    BY DEF LogSound, LogTypeOK, Cert
  <2> QED BY <1>1, <2>1, StampedType DEF LogSound, Ordered
<1>5. ASSUME NEW k \in Key, Commitments(k, ct') # {}
      PROVE  \E x \in ct' : IsFirst(x, k, ct')
  <2>1. CASE Commitments(k, ct) # {}
    BY <1>1, <2>1, FirstAfterLog DEF LogSound
  <2>2. CASE Commitments(k, ct) = {}
    <3>1. c.key = k /\ c.succ # NoKey
      BY <1>5, <2>2, CommitmentsAfterLog
    <3> QED BY <1>1, <2>2, <3>1, FirstAfterLog
  <2> QED BY <2>1, <2>2
<1> QED BY <1>2, <1>3, <1>4, <1>5 DEF LogSound

\* A successor, once there, stays; the logged commitment becomes the successor
\* of a key that had none; nothing else changes.
LEMMA SuccessorAfterLog ==
    ASSUME LogSound, NEW c \in Cert, Log(c), NEW k \in Key
    PROVE  EarliestSuccessor(k, ct') =
               IF EarliestSuccessor(k, ct) = NoKey /\ c.key = k
               THEN c.succ ELSE EarliestSuccessor(k, ct)
<1>1. LogSound'
  BY LogKeepsSound
<1>2. ct' \in SUBSET Cert /\ Ordered(ct') /\ ct \in SUBSET Cert /\ Ordered(ct)
  BY <1>1 DEF LogSound, LogTypeOK
<1>3. CASE Commitments(k, ct) # {}
  <2>1. PICK x \in ct : IsFirst(x, k, ct)
    BY <1>3 DEF LogSound
  <2>2. EarliestSuccessor(k, ct) = x.succ
    BY <1>2, <2>1, FirstWins
  <2>3. EarliestSuccessor(k, ct') = x.succ
    BY <1>2, <2>1, FirstAfterLog, FirstWins
  <2> QED BY <1>3, <2>2, <2>3, SuccessorInLog
<1>4. CASE Commitments(k, ct) = {} /\ c.key = k /\ c.succ # NoKey
  <2>1. EarliestSuccessor(k, ct') = Stamped(c).succ
    BY <1>2, <1>4, FirstAfterLog, FirstWins
  <2> QED BY <1>4, <2>1, NoneCommitted, StampedType
<1>5. CASE Commitments(k, ct) = {} /\ ~(c.key = k /\ c.succ # NoKey)
  <2>1. Commitments(k, ct') = {}
    BY <1>5, CommitmentsAfterLog
  <2> QED BY <1>5, <2>1, NoneCommitted
<1> QED BY <1>3, <1>4, <1>5

-----------------------------------------------------------------------------
(* What growth means for the chains.                                       *)

Promise == INSTANCE Succession_proofs WITH successor <- SuccessorMap(ct)

\* Read as endorsements, logging a certificate endorses at most one key: the
\* committing one, and only if it had endorsed nothing.
LEMMA MapAfterLog ==
    ASSUME LogSound, NEW c \in Cert, Log(c)
    PROVE  SuccessorMap(ct') =
               [k \in Key |-> IF EarliestSuccessor(k, ct) = NoKey /\ c.key = k
                              THEN c.succ ELSE EarliestSuccessor(k, ct)]
BY SuccessorAfterLog DEF SuccessorMap

\* Every descendant stays a descendant.
LEMMA DescentAfterLog ==
    ASSUME LogSound, NEW c \in Cert, Log(c)
    PROVE  \A g, d \in Key : Descends(g, d) => Descends(g, d)'
<1> DEFINE old == SuccessorMap(ct)
           new == SuccessorMap(ct')
<1>1. \A k \in Key : old[k] # NoKey => new[k] = old[k]
  BY MapAfterLog DEF SuccessorMap
<1> HIDE DEF old, new
<1>2. \A g, d \in Key : Promise!Descends(g, d, old) => Promise!Descends(g, d, new)
  BY <1>1, Promise!MoreEndorsementsMoreDescent
<1> QED BY <1>2 DEF old, new, Descends, Promise!Descends, Promise!Closed,
                    Authority!Descends, Authority!Closed

\* A certificate logged is an endorsement, or no step, of the abstract promise.
LEMMA LogEndorses ==
    ASSUME LogSound, NEW c \in Cert, Log(c)
    PROVE  Authority!Next \/ SuccessorMap(ct)' = SuccessorMap(ct)
<1>1. SuccessorMap(ct') =
          [k \in Key |-> IF EarliestSuccessor(k, ct) = NoKey /\ c.key = k
                         THEN c.succ ELSE EarliestSuccessor(k, ct)]
  BY MapAfterLog
<1>2. c.key \in Key /\ c.succ \in Key \cup {NoKey}
  BY DEF Cert
<1>3. CASE EarliestSuccessor(c.key, ct) = NoKey /\ c.succ # NoKey
  <2>1. Authority!Endorse(c.key, c.succ)
    <3>1. SuccessorMap(ct)[c.key] = NoKey
      BY <1>2, <1>3 DEF SuccessorMap
    <3>2. SuccessorMap(ct') = [SuccessorMap(ct) EXCEPT ![c.key] = c.succ]
      BY <1>1, <1>2, <1>3 DEF SuccessorMap
    <3> QED BY <3>1, <3>2 DEF Authority!Endorse
  <2> QED BY <1>2, <1>3, <2>1 DEF Authority!Next
<1>4. CASE ~(EarliestSuccessor(c.key, ct) = NoKey /\ c.succ # NoKey)
  <2>1. SuccessorMap(ct') = SuccessorMap(ct)
    BY <1>1, <1>2, <1>4 DEF SuccessorMap
  <2> QED BY <2>1
<1> QED BY <1>3, <1>4

\* The empty log is sound, and endorses nothing.
LEMMA EmptyLog ==
    ASSUME LogInit
    PROVE  LogSound /\ Authority!Init
<1>1. \A k \in Key : Commitments(k, ct) = {}
  BY DEF LogInit, Commitments
<1>2. LogSound
  BY <1>1 DEF LogInit, LogSound, LogTypeOK, Ordered
<1>3. SuccessorMap(ct) = [k \in Key |-> NoKey]
  BY <1>1, NoneCommitted DEF SuccessorMap
<1> QED BY <1>2, <1>3 DEF Authority!Init

-----------------------------------------------------------------------------
(* Evidence: a part of CT that somebody has at hand.                       *)

\* Evidence that holds a commitment of a key holds the first one there is.
Faithful(certs) ==
    /\ certs \subseteq ct
    /\ \A k \in Key : Commitments(k, certs) = {} \/ \E c \in certs : IsFirst(c, k, ct)

\* A certificate for an address is not a commitment.
InvShape == \A c \in ct : c.addr = NoAddr \/ c.succ = NoKey

\* Faithful evidence is evidence.
LEMMA FaithfulType ==
    ASSUME LogSound, NEW A, Faithful(A)
    PROVE  A \in SUBSET Cert
BY DEF Faithful, LogSound, LogTypeOK

\* CT is faithful to itself.
LEMMA CtIsFaithful == ASSUME LogSound PROVE Faithful(ct)
BY DEF LogSound, Faithful

\* No evidence is faithful evidence.
LEMMA NothingIsFaithful == Faithful({})
BY DEF Faithful, Commitments

\* _merge_certs
LEMMA MergeIsFaithful ==
    ASSUME NEW A, NEW B, Faithful(A), Faithful(B)
    PROVE  Faithful(A \cup B)
<1>1. \A k : Commitments(k, A \cup B) = Commitments(k, A) \cup Commitments(k, B)
  BY DEF Commitments
<1> QED BY <1>1 DEF Faithful

\* certs_for_spki returns every certificate of the key, its first commitment
\* among them.
LEMMA KeyQueryIsFaithful ==
    ASSUME LogSound, NEW k \in Key
    PROVE  Faithful({c \in ct : c.key = k})
<1> DEFINE certs == {c \in ct : c.key = k}
<1> SUFFICES ASSUME NEW x \in Key, Commitments(x, certs) # {}
             PROVE  \E c \in certs : IsFirst(c, x, ct)
  BY DEF Faithful
<1>1. x = k /\ Commitments(k, ct) # {}
  BY DEF Commitments
<1>2. PICK c \in ct : IsFirst(c, k, ct)
  BY <1>1 DEF LogSound
<1>3. c \in certs
  BY <1>2 DEF IsFirst, Commitments
<1> QED BY <1>1, <1>2, <1>3

\* certs_for_ip returns no commitment.
LEMMA AddressQueryIsFaithful ==
    ASSUME InvShape, NEW a \in Addr
    PROVE  Faithful({c \in ct : c.addr = a})
<1>1. \A k : Commitments(k, {c \in ct : c.addr = a}) = {}
  BY AddrAssumption DEF InvShape, Commitments
<1> QED BY <1>1 DEF Faithful

\* CT growing does not unseat the first commitment that evidence holds.
LEMMA LoggingKeepsFaithful ==
    ASSUME LogSound, NEW c \in Cert, Log(c), NEW A, Faithful(A)
    PROVE  /\ A \subseteq ct'
           /\ \A k \in Key : Commitments(k, A) = {} \/ \E x \in A : IsFirst(x, k, ct')
<1>1. ct \subseteq ct'
  BY DEF Log
<1>2. \A k \in Key, x \in ct : IsFirst(x, k, ct) => IsFirst(x, k, ct')
  BY FirstAfterLog
<1> QED BY <1>1, <1>2 DEF Faithful

\* Evidence that is faithful to CT as it has grown was so before.
LEMMA FaithfulBefore ==
    ASSUME LogSound, NEW c \in Cert, Log(c), NEW A, A \subseteq ct,
           \A k \in Key : Commitments(k, A) = {} \/ \E x \in A : IsFirst(x, k, ct')
    PROVE  Faithful(A)
<1>1. \A k : Commitments(k, ct) \subseteq Commitments(k, ct')
  BY DEF Log, Commitments
<1>2. \A k \in Key, x \in A : IsFirst(x, k, ct') => IsFirst(x, k, ct)
  BY <1>1 DEF IsFirst, Commitments
<1> QED BY <1>2 DEF Faithful

\* On faithful evidence _earliest_successor answers as on all of CT, or not.
LEMMA FaithfulAgrees ==
    ASSUME LogSound, NEW A, Faithful(A), NEW k \in Key
    PROVE  EarliestSuccessor(k, A) \in {NoKey, EarliestSuccessor(k, ct)}
<1>1. CASE Commitments(k, A) = {}
  BY <1>1, NoneCommitted
<1>2. CASE Commitments(k, A) # {}
  <2>1. PICK c \in A : IsFirst(c, k, ct)
    BY <1>2 DEF Faithful
  <2>2. A \in SUBSET Cert /\ Ordered(A) /\ ct \in SUBSET Cert /\ Ordered(ct)
    BY DEF Faithful, LogSound, LogTypeOK, Ordered
  <2>3. IsFirst(c, k, A)
    BY <2>1 DEF IsFirst, Commitments, Faithful
  <2> QED BY <2>1, <2>2, <2>3, FirstWins
<1> QED BY <1>1, <1>2

-----------------------------------------------------------------------------
(* Induction on the number of hops.                                        *)

\* A set of numbers that is not empty has a least one.
LEMMA LeastNumber ==
    ASSUME NEW S \in SUBSET Nat, S # {}
    PROVE  \E n \in S : \A m \in S : n <= m
<1> DEFINE Less == {p \in Nat \X Nat : p[1] < p[2]}
<1>1. IsWellFoundedOn(Less, Nat)
  BY NatLessThanWellFounded DEF OpToRel
<1>2. \A i, j \in Nat : i < j => <<i, j>> \in Less
  OBVIOUS
<1> HIDE DEF Less
<1>3. PICK n \in S : \A m \in S : ~(<<m, n>> \in Less)
  BY <1>1, WFMin
<1>4. ASSUME NEW m \in S PROVE n <= m
  <2>1. ~(m < n)
    BY <1>2, <1>3
  <2> QED BY <2>1
<1> QED BY <1>4

\* Induction up to m, over the set of the numbers of which a fact holds.
LEMMA UpTo ==
    ASSUME NEW m \in Nat, NEW S, 0 \in S,
           \A n \in 0..m : n < m /\ n \in S => n + 1 \in S
    PROVE  \A n \in 0..m : n \in S
<1> DEFINE Bad == {n \in 0..m : n \notin S}
<1> SUFFICES ASSUME Bad # {} PROVE FALSE
  OBVIOUS
<1>1. Bad \in SUBSET Nat
  OBVIOUS
<1> HIDE DEF Bad
<1>2. PICK n \in Bad : \A k \in Bad : n <= k
  BY <1>1, LeastNumber
<1> USE DEF Bad
<1>3. n \in 0..m /\ n # 0 /\ n \notin S
  BY <1>2
<1>4. n - 1 \in 0..m /\ n - 1 < m /\ n - 1 < n
  BY <1>3
<1>5. n - 1 \in S
  BY <1>2, <1>4
<1> QED BY <1>3, <1>4, <1>5

\* The recursive function Hops exists, and does what it says.
LEMMA HopsUnfold ==
    ASSUME NEW g, NEW d, NEW certs
    PROVE  /\ Hops(g, d, certs)[0] = <<g>>
           /\ \A n \in 0..MaxGenerations : n < MaxGenerations =>
                  Hops(g, d, certs)[n + 1] = Hop(Hops(g, d, certs)[n], d, certs)
<1> DEFINE Eq(f, m) == f = [n \in 0..m |-> IF n = 0 THEN <<g>> ELSE Hop(f[n - 1], d, certs)]
           S == {m \in Nat : \E f : Eq(f, m)}
<1>1. 0 \in S
  <2> DEFINE f == [n \in 0..0 |-> <<g>>]
  <2>1. Eq(f, 0)
    OBVIOUS
  <2> QED BY <2>1
<1>2. ASSUME NEW m \in 0..MaxGenerations, m < MaxGenerations, m \in S
      PROVE  m + 1 \in S
  <2>1. PICK f : Eq(f, m)
    BY <1>2
  <2> DEFINE h == [n \in 0..(m + 1) |-> IF n = m + 1 THEN Hop(f[m], d, certs) ELSE f[n]]
  <2>2. ASSUME NEW n \in 0..(m + 1)
        PROVE  h[n] = IF n = 0 THEN <<g>> ELSE Hop(h[n - 1], d, certs)
    <3>1. CASE n = m + 1
      <4>1. h[n - 1] = f[m] /\ n # 0
        BY <3>1
      <4> QED BY <3>1, <4>1
    <3>2. CASE n # m + 1 /\ n # 0
      <4>1. n \in 0..m /\ n - 1 \in 0..m /\ n - 1 # m + 1
        BY <3>2
      <4>2. f[n] = Hop(f[n - 1], d, certs)
        BY <2>1, <3>2, <4>1
      <4>3. h[n] = f[n] /\ h[n - 1] = f[n - 1]
        BY <3>2, <4>1
      <4> QED BY <3>2, <4>2, <4>3
    <3>3. CASE n = 0
      BY <2>1, <3>3
    <3> QED BY <3>1, <3>2, <3>3
  <2>3. Eq(h, m + 1)
    BY <2>2
  <2> HIDE DEF h
  <2>4. m + 1 \in Nat
    OBVIOUS
  <2> QED BY <2>3, <2>4
<1>3. MaxGenerations \in Nat
  BY GenerationsAssumption
<1> HIDE DEF S
<1>4. MaxGenerations \in S
  BY <1>1, <1>2, <1>3, UpTo
<1>5. Eq(Hops(g, d, certs), MaxGenerations)
  BY <1>4 DEF S, Hops
<1> QED BY <1>3, <1>5

-----------------------------------------------------------------------------
\* Evidence that names keys as successors.
NamesKeys(certs) == \A k \in Key : EarliestSuccessor(k, certs) \in Key \cup {NoKey}

\* A path of custody: keys, each the successor of the one before, none twice.
IsPath(chain, certs) ==
    /\ chain \in Seq(Key) /\ Len(chain) > 0
    /\ \A i \in 1..(Len(chain) - 1) : chain[i + 1] = EarliestSuccessor(chain[i], certs)
    /\ \A i, j \in 1..Len(chain) : chain[i] = chain[j] => i = j

\* The chain after n hops from g: it has met the target at its end only, and has
\* n + 1 keys unless it can go no further.
IsWalk(chain, n, g, d, certs) ==
    /\ IsPath(chain, certs)
    /\ chain[1] = g
    /\ \A i \in 1..(Len(chain) - 1) : chain[i] # d
    /\ Len(chain) <= n + 1
    /\ Len(chain) = n + 1 \/ Hop(chain, d, certs) = chain

\* The range of a chain is the set of its keys.
LEMMA RangeOfPath ==
    ASSUME NEW chain \in Seq(Key)
    PROVE  Range(chain) = {chain[i] : i \in 1..Len(chain)}
BY DEF Range

\* One more hop.
LEMMA OneHop ==
    ASSUME NEW g \in Key, NEW d, NEW certs, NamesKeys(certs), NEW n \in Nat,
           NEW chain, IsWalk(chain, n, g, d, certs)
    PROVE  IsWalk(Hop(chain, d, certs), n + 1, g, d, certs)
<1> DEFINE succ == EarliestSuccessor(LastOf(chain), certs)
           more == Append(chain, succ)
<1>1. chain \in Seq(Key) /\ Len(chain) \in Nat /\ Len(chain) > 0
  BY DEF IsWalk, IsPath
<1>2. LastOf(chain) \in Key
  BY <1>1 DEF LastOf
<1>3. CASE Hop(chain, d, certs) = chain
  BY <1>3 DEF IsWalk
<1>4. CASE Hop(chain, d, certs) # chain
  <2>1. /\ LastOf(chain) # d /\ succ # NoKey /\ succ \notin Range(chain)
        /\ Hop(chain, d, certs) = more
    BY <1>4 DEF Hop
  <2>2. succ \in Key
    BY <1>2, <2>1 DEF NamesKeys
  <2> HIDE DEF succ
  <2>3. /\ more \in Seq(Key) /\ Len(more) = Len(chain) + 1
        /\ \A i \in 1..Len(chain) : more[i] = chain[i]
        /\ more[Len(chain) + 1] = succ
    BY <1>1, <2>2
  <2> HIDE DEF more
  <2>4. \A i \in 1..Len(chain) : chain[i] # succ
    BY <1>1, <2>1, RangeOfPath
  <2>5. \A i \in 1..(Len(more) - 1) : more[i + 1] = EarliestSuccessor(more[i], certs)
    <3> SUFFICES ASSUME NEW i \in 1..Len(chain)
                 PROVE  more[i + 1] = EarliestSuccessor(more[i], certs)
      BY <1>1, <2>3
    <3>1. CASE i = Len(chain)
      BY <1>1, <2>3, <3>1 DEF LastOf, succ
    <3>2. CASE i # Len(chain)
      <4>1. i \in 1..(Len(chain) - 1) /\ i + 1 \in 1..Len(chain)
        BY <1>1, <3>2
      <4> QED BY <2>3, <4>1 DEF IsWalk, IsPath
    <3> QED BY <3>1, <3>2
  <2>6. \A i, j \in 1..Len(more) : more[i] = more[j] => i = j
    BY <1>1, <2>3, <2>4 DEF IsWalk, IsPath
  <2>7. \A i \in 1..(Len(more) - 1) : more[i] # d
    BY <1>1, <2>1, <2>3 DEF IsWalk, LastOf
  <2>8. Len(more) = n + 2
    BY <1>1, <1>4, <2>3 DEF IsWalk
  <2>9. more[1] = g
    BY <1>1, <2>3 DEF IsWalk
  <2> QED BY <1>1, <2>1, <2>3, <2>5, <2>6, <2>7, <2>8, <2>9 DEF IsWalk, IsPath
<1> QED BY <1>3, <1>4

\* What _walk_chain has walked.
LEMMA WalkIsWalk ==
    ASSUME NEW g \in Key, NEW d, NEW certs, NamesKeys(certs)
    PROVE  \A n \in 0..MaxGenerations : IsWalk(Hops(g, d, certs)[n], n, g, d, certs)
<1> DEFINE S == {n \in Nat : IsWalk(Hops(g, d, certs)[n], n, g, d, certs)}
<1>1. MaxGenerations \in Nat
  BY GenerationsAssumption
<1>2. 0 \in S
  <2>1. IsWalk(<<g>>, 0, g, d, certs)
    BY DEF IsWalk, IsPath
  <2> QED BY <2>1, HopsUnfold
<1>3. ASSUME NEW n \in 0..MaxGenerations, n < MaxGenerations, n \in S
      PROVE  n + 1 \in S
  <2>1. IsWalk(Hop(Hops(g, d, certs)[n], d, certs), n + 1, g, d, certs)
    BY <1>3, OneHop
  <2> QED BY <1>3, <2>1, HopsUnfold
<1> HIDE DEF S
<1>4. \A n \in 0..MaxGenerations : n \in S
  BY <1>1, <1>2, <1>3, UpTo
<1> QED BY <1>4 DEF S

-----------------------------------------------------------------------------
\* Any part of CT names keys as successors, and a successor that it names is one
\* that a commitment in it pins.
LEMMA PartNamesKeys ==
    ASSUME LogSound, NEW A, A \subseteq ct
    PROVE  /\ NamesKeys(A)
           /\ \A k \in Key : EarliestSuccessor(k, A) # NoKey =>
                  \E c \in Commitments(k, A) : EarliestSuccessor(k, A) = c.succ
<1>1. A \in SUBSET Cert /\ Ordered(A)
  BY DEF LogSound, LogTypeOK, Ordered
<1>2. ASSUME NEW k \in Key, EarliestSuccessor(k, A) # NoKey
      PROVE  \E c \in Commitments(k, A) : EarliestSuccessor(k, A) = c.succ
  <2> DEFINE Positions == {c.at : c \in Commitments(k, A)}
  <2>1. Commitments(k, A) # {} /\ \A c \in Commitments(k, A) : c \in A /\ c.at \in Nat
    BY <1>1, <1>2, NoneCommitted DEF Commitments, Cert
  <2>2. Positions \in SUBSET Nat /\ Positions # {}
    BY <2>1
  <2>3. PICK n \in Positions : \A m \in Positions : n <= m
    <3> HIDE DEF Positions
    <3> QED BY <2>2, LeastNumber
  <2>4. PICK c \in Commitments(k, A) : c.at = n
    BY <2>3
  <2>5. IsFirst(c, k, A)
    BY <2>3, <2>4 DEF IsFirst
  <2> QED BY <1>1, <2>4, <2>5, FirstWins
<1>3. \A k \in Key : \A c \in Commitments(k, A) : c.succ \in Key
  BY <1>1 DEF Commitments, Cert
<1> QED BY <1>2, <1>3 DEF NamesKeys

\* On faithful evidence a successor is a key.
LEMMA FaithfulNamesKeys ==
    ASSUME LogSound, NEW certs, Faithful(certs)
    PROVE  NamesKeys(certs)
BY FaithfulAgrees, SuccessorInLog DEF NamesKeys

\* A walk that reaches its target returns a path that begins at its start and ends
\* at the target.
LEMMA WalkReaches ==
    ASSUME NEW g \in Key, NEW d, NEW certs, NamesKeys(certs),
           WalkChain(g, d, certs) # <<>>
    PROVE  /\ IsPath(WalkChain(g, d, certs), certs)
           /\ WalkChain(g, d, certs)[1] = g
           /\ d # NoKey => LastOf(WalkChain(g, d, certs)) = d
<1> DEFINE chain == Hops(g, d, certs)[MaxGenerations]
<1>1. MaxGenerations \in 0..MaxGenerations
  BY GenerationsAssumption
<1>2. IsWalk(chain, MaxGenerations, g, d, certs)
  BY <1>1, WalkIsWalk
<1>3. WalkChain(g, d, certs) = chain /\ (d = NoKey \/ d = LastOf(chain))
  BY DEF WalkChain
<1> QED BY <1>2, <1>3 DEF IsWalk

\* The walk to the tip always returns a path.
LEMMA TipIsReached ==
    ASSUME NEW g \in Key, NEW certs, NamesKeys(certs)
    PROVE  WalkChain(g, NoKey, certs) # <<>>
<1>1. MaxGenerations \in 0..MaxGenerations
  BY GenerationsAssumption
<1>2. IsWalk(Hops(g, NoKey, certs)[MaxGenerations], MaxGenerations, g, NoKey, certs)
  BY <1>1, WalkIsWalk
<1> QED BY <1>2 DEF WalkChain, IsWalk, IsPath

\* The keys of a path in faithful evidence descend, in CT, from its first.
LEMMA PathDescends ==
    ASSUME LogSound, NEW certs, Faithful(certs), NEW chain, IsPath(chain, certs)
    PROVE  \A i \in 1..Len(chain) : chain[i] \in Key /\ Descends(chain[1], chain[i])
<1>1. /\ chain \in Seq(Key) /\ Len(chain) \in Nat /\ Len(chain) > 0
      /\ \A i \in 1..Len(chain) : chain[i] \in Key
  BY DEF IsPath
<1> SUFFICES ASSUME NEW S \in SUBSET Key, chain[1] \in S,
                    Authority!Closed(S, SuccessorMap(ct))
             PROVE  \A i \in 1..Len(chain) : chain[i] \in S
  BY <1>1 DEF Descends, Authority!Descends
<1> DEFINE T == {n \in Nat : chain[n + 1] \in S}
<1>2. 0 \in T
  OBVIOUS
<1>3. ASSUME NEW n \in 0..(Len(chain) - 1), n < Len(chain) - 1, n \in T
      PROVE  n + 1 \in T
  <2>1. n + 1 \in 1..(Len(chain) - 1) /\ n + 2 \in 1..Len(chain)
    BY <1>1, <1>3
  <2>2. chain[n + 1] \in Key /\ chain[n + 2] \in Key
    BY <1>1, <2>1
  <2>3. chain[n + 2] = EarliestSuccessor(chain[n + 1], certs)
    <3>1. chain[(n + 1) + 1] = EarliestSuccessor(chain[n + 1], certs)
      BY <2>1 DEF IsPath
    <3> QED BY <3>1
  <2>4. chain[n + 2] = SuccessorMap(ct)[chain[n + 1]] /\ chain[n + 2] # NoKey
    BY <2>2, <2>3, FaithfulAgrees, KeyAssumption DEF SuccessorMap
  <2>5. chain[n + 2] \in S
    BY <1>3, <2>4 DEF Authority!Closed
  <2> QED BY <2>5
<1>4. Len(chain) - 1 \in Nat
  BY <1>1
<1> HIDE DEF T
<1>5. \A n \in 0..(Len(chain) - 1) : n \in T
  BY <1>2, <1>3, <1>4, UpTo
<1> SUFFICES ASSUME NEW i \in 1..Len(chain) PROVE chain[i] \in S
  OBVIOUS
<1>6. i - 1 \in T /\ i - 1 \in Nat
  BY <1>1, <1>5
<1> QED BY <1>6 DEF T

\* _walk_chain on faithful evidence reaches only descendants.
LEMMA WalkIsSound ==
    ASSUME LogSound, NEW certs, Faithful(certs), NEW g \in Key, NEW d \in Key,
           WalkChain(g, d, certs) # <<>>
    PROVE  Descends(g, d)
<1> DEFINE chain == WalkChain(g, d, certs)
<1>1. IsPath(chain, certs) /\ chain[1] = g /\ chain[Len(chain)] = d
  BY FaithfulNamesKeys, WalkReaches, KeyAssumption DEF LastOf
<1>2. Len(chain) \in 1..Len(chain)
  BY <1>1 DEF IsPath
<1> QED BY <1>1, <1>2, PathDescends

\* A set of numbers up to a bound that is not empty has a greatest one.
LEMMA GreatestNumber ==
    ASSUME NEW m \in Nat, NEW S \in SUBSET (0..m), S # {}
    PROVE  \E n \in S : \A k \in S : k <= n
<1> DEFINE Below == {k \in 0..m : m - k \in S}
<1>1. Below \in SUBSET Nat
  OBVIOUS
<1>2. Below # {}
  <2>1. PICK n \in S : TRUE
    OBVIOUS
  <2>2. m - n \in 0..m /\ m - (m - n) = n
    OBVIOUS
  <2> QED BY <2>1, <2>2
<1>3. PICK k \in Below : \A j \in Below : k <= j
  BY <1>1, <1>2, LeastNumber
<1>4. ASSUME NEW n \in S PROVE n <= m - k
  <2>1. n \in 0..m /\ m - n \in 0..m /\ m - (m - n) = n
    OBVIOUS
  <2>2. m - n \in Below
    BY <2>1
  <2> QED BY <1>3, <2>1, <2>2
<1> QED BY <1>3, <1>4

\* The key reported to be in control descends from the genesis key and has acted.
LEMMA CurrentIsSound ==
    ASSUME LogSound, NEW certs, Faithful(certs), NEW g \in Key, Activated(g, certs)
    PROVE  /\ CurrentKey(g, certs) \in Key
           /\ Descends(g, CurrentKey(g, certs))
           /\ Activated(CurrentKey(g, certs), certs)
<1> DEFINE chain == WalkChain(g, NoKey, certs)
           live == {1} \cup {n \in DOMAIN chain : Activated(chain[n], certs)}
           last == CHOOSE n \in live : \A m \in live : m <= n
<1>1. IsPath(chain, certs) /\ chain[1] = g
  BY FaithfulNamesKeys, TipIsReached, WalkReaches
<1>2. chain \in Seq(Key) /\ Len(chain) \in Nat /\ Len(chain) > 0
  BY <1>1 DEF IsPath
<1>3. CurrentKey(g, certs) = chain[last]
  BY DEF CurrentKey
<1>4. last \in live
  <2>1. live \in SUBSET (0..Len(chain)) /\ live # {}
    BY <1>2
  <2> HIDE DEF live
  <2>2. \E n \in live : \A m \in live : m <= n
    BY <1>2, <2>1, GreatestNumber
  <2> QED BY <2>2
<1> HIDE DEF chain, last
<1>5. last \in 1..Len(chain) /\ Activated(chain[last], certs)
  BY <1>1, <1>2, <1>4
<1> QED BY <1>1, <1>3, <1>5, PathDescends

-----------------------------------------------------------------------------
\* A path that meets the target at its end only, and that ends where the walk
\* would, is what _walk_chain walks.
LEMMA PathIsWalked ==
    ASSUME NEW g \in Key, NEW d, NEW certs, NEW chain,
           IsWalk(chain, MaxGenerations, g, d, certs)
    PROVE  Hops(g, d, certs)[MaxGenerations] = chain
<1> DEFINE Part(n) == IF n < Len(chain) THEN SubSeq(chain, 1, n + 1) ELSE chain
           S == {n \in Nat : Hops(g, d, certs)[n] = Part(n)}
<1>1. /\ chain \in Seq(Key) /\ Len(chain) \in Nat /\ Len(chain) > 0
      /\ \A i \in 1..Len(chain) : chain[i] \in Key
      /\ MaxGenerations \in Nat
  BY GenerationsAssumption DEF IsWalk, IsPath
<1>2. ASSUME NEW n \in 0..MaxGenerations, n < MaxGenerations
      PROVE  Hop(Part(n), d, certs) = Part(n + 1)
  <2>1. CASE n + 1 < Len(chain)
    <3> DEFINE part == SubSeq(chain, 1, n + 1)
    <3>1. /\ part \in Seq(Key) /\ Len(part) = n + 1
          /\ \A i \in 1..(n + 1) : part[i] = chain[i]
      BY <1>1, <2>1
    <3>2. n + 1 \in 1..(Len(chain) - 1) /\ n + 2 \in 1..Len(chain)
      BY <1>1, <2>1
    <3>3. LastOf(part) = chain[n + 1]
      BY <3>1, <3>2 DEF LastOf
    <3>4. EarliestSuccessor(LastOf(part), certs) = chain[n + 2]
      <4>1. chain[(n + 1) + 1] = EarliestSuccessor(chain[n + 1], certs)
        BY <3>2 DEF IsWalk, IsPath
      <4> QED BY <3>3, <4>1
    <3>5. chain[n + 2] \notin Range(part)
      <4>1. \A i \in 1..(n + 1) : part[i] # chain[n + 2]
        BY <1>1, <2>1, <3>1 DEF IsWalk, IsPath
      <4> HIDE DEF part
      <4> QED BY <3>1, <4>1, RangeOfPath
    <3>6. chain[n + 1] # d /\ chain[n + 2] # NoKey
      BY <1>1, <3>2, KeyAssumption DEF IsWalk
    <3> HIDE DEF part
    <3>7. Hop(part, d, certs) = Append(part, chain[n + 2])
      BY <3>3, <3>4, <3>5, <3>6 DEF Hop
    <3>8. Append(part, chain[n + 2]) = SubSeq(chain, 1, n + 2)
      BY <1>1, <2>1, <3>1, <3>2
    <3>9. Part(n) = part /\ Part(n + 1) = SubSeq(chain, 1, n + 2)
      <4>1. n < Len(chain) /\ n + 1 + 1 = n + 2
        BY <1>1, <2>1
      <4> QED BY <2>1, <4>1 DEF part
    <3> HIDE DEF Part
    <3> QED BY <3>7, <3>8, <3>9
  <2>2. CASE ~(n + 1 < Len(chain))
    <3>1. Part(n) = chain
      <4>1. CASE n < Len(chain)
        <5>1. Part(n) = SubSeq(chain, 1, Len(chain))
          BY <1>1, <2>2, <4>1
        <5> QED BY <1>1, <5>1
      <4> QED BY <1>1, <4>1
    <3>2. Hop(chain, d, certs) = chain
      BY <1>1, <1>2, <2>2 DEF IsWalk
    <3> QED BY <1>1, <2>2, <3>1, <3>2
  <2> QED BY <2>1, <2>2
<1>3. 0 \in S
  <2>1. SubSeq(chain, 1, 1) = <<g>>
    <3> DEFINE one == SubSeq(chain, 1, 1)
    <3>1. one \in Seq(Key) /\ Len(one) = 1 /\ one[1] = g
      BY <1>1 DEF IsWalk
    <3> HIDE DEF one
    <3>2. one = <<g>>
      BY <3>1
    <3> QED BY <3>2 DEF one
  <2>2. Part(0) = <<g>>
    BY <1>1, <2>1
  <2> HIDE DEF Part
  <2> QED BY <2>2, HopsUnfold
<1>4. ASSUME NEW n \in 0..MaxGenerations, n < MaxGenerations, n \in S
      PROVE  n + 1 \in S
  <2> HIDE DEF Part
  <2>1. Hops(g, d, certs)[n + 1] = Hop(Part(n), d, certs)
    BY <1>4, HopsUnfold
  <2> QED BY <1>2, <1>4, <2>1
<1> HIDE DEF S
<1>5. MaxGenerations \in S
  <2> HIDE DEF Part
  <2>1. \A n \in 0..MaxGenerations : n \in S
    BY <1>1, <1>3, <1>4, UpTo
  <2> QED BY <1>1, <2>1
<1>6. Part(MaxGenerations) = chain
  <2>1. CASE MaxGenerations < Len(chain)
    <3>1. MaxGenerations + 1 = Len(chain)
      BY <1>1, <2>1 DEF IsWalk
    <3> QED BY <1>1, <2>1, <3>1
  <2> QED BY <1>1, <2>1
<1> QED BY <1>5, <1>6 DEF S

\* Evidence that holds more, faithful or not, endorses what the smaller faithful
\* evidence endorses: nothing in CT is earlier.
LEMMA MoreEvidenceAgrees ==
    ASSUME LogSound, NEW A, NEW B, Faithful(A), B \subseteq ct, A \subseteq B,
           NEW k \in Key, EarliestSuccessor(k, A) # NoKey
    PROVE  EarliestSuccessor(k, B) = EarliestSuccessor(k, A)
<1>1. Commitments(k, A) # {}
  BY NoneCommitted
<1>2. PICK c \in A : IsFirst(c, k, ct)
  BY <1>1 DEF Faithful
<1>3. /\ A \in SUBSET Cert /\ Ordered(A)
      /\ B \in SUBSET Cert /\ Ordered(B)
  BY DEF Faithful, LogSound, LogTypeOK, Ordered
<1>4. IsFirst(c, k, A) /\ IsFirst(c, k, B)
  BY <1>2 DEF IsFirst, Commitments, Faithful
<1> QED BY <1>3, <1>4, FirstWins

\* A target that the walk reaches it reaches with more evidence too.
LEMMA MoreEvidenceReaches ==
    ASSUME LogSound, NEW A, NEW B, Faithful(A), B \subseteq ct, A \subseteq B,
           NEW g \in Key, NEW d \in Key, WalkChain(g, d, A) # <<>>
    PROVE  WalkChain(g, d, B) # <<>>
<1> DEFINE chain == Hops(g, d, A)[MaxGenerations]
<1>1. MaxGenerations \in 0..MaxGenerations
  BY GenerationsAssumption
<1>2. IsWalk(chain, MaxGenerations, g, d, A)
  BY <1>1, FaithfulNamesKeys, WalkIsWalk
<1>3. LastOf(chain) = d
  BY KeyAssumption DEF WalkChain
<1> HIDE DEF chain
<1>4. /\ chain \in Seq(Key) /\ Len(chain) \in Nat /\ Len(chain) > 0
      /\ \A i \in 1..Len(chain) : chain[i] \in Key
  BY <1>2 DEF IsWalk, IsPath
<1>5. IsPath(chain, B)
  <2>1. ASSUME NEW i \in 1..(Len(chain) - 1)
        PROVE  chain[i + 1] = EarliestSuccessor(chain[i], B)
    <3>1. chain[i] \in Key /\ chain[i + 1] \in Key
      BY <1>4
    <3>2. chain[i + 1] = EarliestSuccessor(chain[i], A)
      BY <1>2 DEF IsWalk, IsPath
    <3> QED BY <3>1, <3>2, MoreEvidenceAgrees, KeyAssumption
  <2> QED BY <1>2, <2>1 DEF IsWalk, IsPath
<1>6. IsWalk(chain, MaxGenerations, g, d, B)
  BY <1>2, <1>3, <1>5 DEF IsWalk, Hop
<1>7. Hops(g, d, B)[MaxGenerations] = chain
  BY <1>6, PathIsWalked
<1> QED BY <1>3, <1>4, <1>7 DEF WalkChain

-----------------------------------------------------------------------------
(* The verdict on faithful evidence.                                       *)

\* The genesis keys are keys, they have acted, and more evidence has them too.
LEMMA GenesisGrows ==
    ASSUME NEW A, NEW B, A \subseteq B, B \subseteq Cert, NEW a, NEW d
    PROVE  /\ GenesisKeys(a, d, A) \subseteq GenesisKeys(a, d, B)
           /\ \A g \in GenesisKeys(a, d, A) : g \in Key /\ Activated(g, A)
           /\ \A k : Activated(k, A) => Activated(k, B)
BY DEF GenesisKeys, Activated, Cert

\* A key descends from itself.
LEMMA OwnDescendant == ASSUME NEW g \in Key PROVE Descends(g, g)
BY DEF Descends, Authority!Descends

\* A verdict that names a key: it descends from a key that held the address on
\* the day, and has acted, both in CT.
Sound(v, a, d) ==
    v.verified => \E g \in GenesisKeys(a, d, ct) :
                      Descends(g, v.key) /\ Activated(v.key, ct)

\* Every verdict that verify gives on faithful evidence is sound.
LEMMA VerifyIsSound ==
    ASSUME LogSound, NEW certs, Faithful(certs), NEW doc \in Key \cup {NoKey},
           NEW a, NEW d
    PROVE  Verify(doc, a, d, certs) \in Verdict /\ Sound(Verify(doc, a, d, certs), a, d)
<1> DEFINE genesis == GenesisKeys(a, d, certs)
<1>1. certs \subseteq ct /\ ct \subseteq Cert
  BY DEF Faithful, LogSound, LogTypeOK
<1>2. /\ genesis \subseteq GenesisKeys(a, d, ct)
      /\ \A g \in genesis : g \in Key /\ Activated(g, certs)
      /\ \A k : Activated(k, certs) => Activated(k, ct)
  BY <1>1, GenesisGrows, Zenon
<1>3. \A reason \in Reason : Reject(reason) \in Verdict /\ Sound(Reject(reason), a, d)
  BY DEF Reject, Verdict, Sound
<1>4. ASSUME NEW reason \in Reason, NEW g \in genesis, NEW k \in Key,
             Descends(g, k), Activated(k, certs)
      PROVE  Accept(reason, k) \in Verdict /\ Sound(Accept(reason, k), a, d)
  BY <1>2, <1>4 DEF Accept, Verdict, Sound
<1>5. CASE doc # NoKey
  <2>1. CASE doc \in genesis
    <3>1. genesis # {} /\ Descends(doc, doc) /\ Activated(doc, certs)
      BY <1>2, <2>1, OwnDescendant
    <3>2. Verify(doc, a, d, certs) = Accept("genesis", doc)
      BY <1>5, <2>1, <3>1 DEF Verify, VerifyDocument
    <3> QED BY <1>2, <1>4, <2>1, <3>1, <3>2 DEF Reason
  <2>2. CASE doc \notin genesis /\ Verify(doc, a, d, certs) = Accept("rotated", doc)
    <3>1. genesis # {} /\ (\E g \in genesis : WalkChain(g, doc, certs) # <<>>) /\ Activated(doc, certs)
      BY <1>5, <2>2 DEF Verify, VerifyDocument, Accept, Reject
    <3>2. PICK g \in genesis : Descends(g, doc)
      BY <1>2, <1>5, <3>1, WalkIsSound
    <3> QED BY <1>4, <1>5, <2>2, <3>1, <3>2 DEF Reason
  <2>3. CASE doc \notin genesis /\ Verify(doc, a, d, certs) # Accept("rotated", doc)
    <3>1. \E reason \in {"no genesis", "unendorsed", "cold"} :
              Verify(doc, a, d, certs) = Reject(reason)
      BY <1>5, <2>3 DEF Verify, VerifyDocument
    <3> QED BY <1>3, <3>1 DEF Reason
  <2> QED BY <2>1, <2>2, <2>3
<1>6. CASE doc = NoKey
  <2> DEFINE g == CHOOSE x \in genesis : TRUE
  <2>1. CASE genesis = {} \/ Cardinality(genesis) > 1
    <3>1. \E reason \in {"no genesis", "ambiguous"} :
              Verify(doc, a, d, certs) = Reject(reason)
      BY <1>6, <2>1 DEF Verify, VerifyAddress
    <3> QED BY <1>3, <3>1 DEF Reason
  <2>2. CASE genesis # {} /\ ~(Cardinality(genesis) > 1)
    <3>1. Verify(doc, a, d, certs) = Accept("current", CurrentKey(g, certs))
      BY <1>6, <2>2 DEF Verify, VerifyAddress
    <3>2. g \in genesis
      BY <2>2
    <3> HIDE DEF g
    <3>3. g \in Key /\ Activated(g, certs)
      BY <1>2, <3>2
    <3>4. /\ CurrentKey(g, certs) \in Key /\ Descends(g, CurrentKey(g, certs))
          /\ Activated(CurrentKey(g, certs), certs)
      BY <3>3, CurrentIsSound
    <3> QED BY <1>4, <3>1, <3>2, <3>4 DEF Reason
  <2> QED BY <2>1, <2>2
<1> QED BY <1>5, <1>6

\* The key that verify accepts is the one the document commits.
LEMMA AcceptsItsDocument ==
    ASSUME NEW certs, NEW doc \in Key, NEW a, NEW d, Verify(doc, a, d, certs).verified
    PROVE  Verify(doc, a, d, certs).key = doc
<1>1. doc # NoKey
  BY KeyAssumption
<1>2. \/ \E reason \in Reason : Verify(doc, a, d, certs) = Reject(reason)
      \/ \E reason \in Reason : Verify(doc, a, d, certs) = Accept(reason, doc)
  BY <1>1 DEF Verify, VerifyDocument, Reason
<1> QED BY <1>2 DEF Accept, Reject

\* A document that some faithful evidence verifies, more evidence verifies.
LEMMA MoreEvidenceVerifies ==
    ASSUME LogSound, NEW A, NEW B, Faithful(A), B \subseteq ct, A \subseteq B,
           NEW doc \in Key, NEW a, NEW d, Verify(doc, a, d, A).verified
    PROVE  Verify(doc, a, d, B).verified
<1>1. B \subseteq Cert
  BY DEF LogSound, LogTypeOK
<1>2. /\ GenesisKeys(a, d, A) \subseteq GenesisKeys(a, d, B)
      /\ \A g \in GenesisKeys(a, d, A) : g \in Key
      /\ Activated(doc, A) => Activated(doc, B)
  BY <1>1, GenesisGrows, Zenon
<1>3. doc # NoKey
  BY KeyAssumption
<1>4. GenesisKeys(a, d, A) # {}
  BY <1>3 DEF Verify, VerifyDocument, Reject
<1>5. CASE doc \in GenesisKeys(a, d, A)
  <2>1. doc \in GenesisKeys(a, d, B) /\ GenesisKeys(a, d, B) # {}
    BY <1>2, <1>5
  <2>2. Verify(doc, a, d, B) = Accept("genesis", doc)
    BY <1>3, <2>1 DEF Verify, VerifyDocument
  <2> QED BY <2>2 DEF Accept
<1>6. CASE doc \notin GenesisKeys(a, d, A)
  <2>1. (\E g \in GenesisKeys(a, d, A) : WalkChain(g, doc, A) # <<>>) /\ Activated(doc, A)
    BY <1>3, <1>4, <1>6 DEF Verify, VerifyDocument, Reject
  <2>2. \E g \in GenesisKeys(a, d, B) : WalkChain(g, doc, B) # <<>>
    BY <1>2, <2>1, MoreEvidenceReaches
  <2>3. GenesisKeys(a, d, B) # {} /\ Activated(doc, B)
    BY <1>2, <1>4, <2>1
  <2>4. \E reason \in {"genesis", "rotated"} : Verify(doc, a, d, B) = Accept(reason, doc)
    BY <1>3, <2>2, <2>3 DEF Verify, VerifyDocument
  <2> QED BY <2>4 DEF Accept
<1> QED BY <1>5, <1>6

-----------------------------------------------------------------------------
\* A sound verdict stays sound as CT grows.
LEMMA SoundAfterLog ==
    ASSUME LogSound, NEW c \in Cert, Log(c), NEW v, NEW a, NEW d, Sound(v, a, d)
    PROVE  Sound(v, a, d)'
<1> SUFFICES ASSUME v.verified PROVE Sound(v, a, d)'
  BY DEF Sound
<1>1. ct \subseteq ct' /\ ct' \subseteq Cert
  BY LogKeepsSound DEF Log, LogSound, LogTypeOK
<1>2. PICK g \in GenesisKeys(a, d, ct) : Descends(g, v.key) /\ Activated(v.key, ct)
  BY DEF Sound
<1>3. g \in GenesisKeys(a, d, ct') /\ g \in Key /\ Activated(v.key, ct')
  BY <1>1, <1>2, GenesisGrows
<1>4. v.key \in Key
  BY <1>2 DEF Activated, LogSound, LogTypeOK, Cert
<1>5. Descends(g, v.key)'
  BY <1>2, <1>3, <1>4, DescentAfterLog
<1> QED BY <1>3, <1>5 DEF Sound

-----------------------------------------------------------------------------
(* The walk over all of CT.                                                *)

\* CT is finite: no two of its certificates share a position.
LEMMA CtIsFinite == ASSUME LogSound PROVE IsFiniteSet(ct)
<1> DEFINE position == [c \in ct |-> c.at]
<1>1. logged \in Nat /\ \A c \in ct : c.at \in 0..logged
  BY DEF LogSound, LogTypeOK, Cert
<1>2. position \in Injection(ct, 0..logged)
  BY <1>1 DEF LogSound, Ordered, Injection, IsInjective
<1>3. IsFiniteSet(0..logged)
  BY <1>1, FS_Interval
<1> QED BY <1>2, <1>3, FS_Injection

\* So finitely many keys have finitely many descendants,
LEMMA AllDescendantsAreFinite ==
    ASSUME LogSound, NEW G \in SUBSET Key, IsFiniteSet(G)
    PROVE  IsFiniteSet({k \in Key : \E g \in G : Descends(g, k)})
<1> DEFINE succ == [c \in ct |-> c.succ]
           Pinned == {c.succ : c \in ct}
           S == Key \cap (Pinned \cup G)
<1>1. IsFiniteSet(Pinned)
  <2>1. succ \in Surjection(ct, Pinned)
    BY DEF Surjection
  <2> QED BY <2>1, CtIsFinite, FS_Surjection
<1>2. IsFiniteSet(S)
  <2>1. IsFiniteSet(Pinned \cup G)
    BY <1>1, FS_Union
  <2>2. S \in SUBSET (Pinned \cup G)
    OBVIOUS
  <2> HIDE DEF S
  <2> QED BY <2>1, <2>2, FS_Subset
<1>3. Authority!Closed(S, SuccessorMap(ct))
  <2> SUFFICES ASSUME NEW k \in Key, SuccessorMap(ct)[k] # NoKey
               PROVE  SuccessorMap(ct)[k] \in S
    BY DEF Authority!Closed
  <2>1. SuccessorMap(ct)[k] = EarliestSuccessor(k, ct)
    BY DEF SuccessorMap
  <2>2. EarliestSuccessor(k, ct) \in Key
    BY <2>1, SuccessorInLog
  <2>3. \E c \in ct : EarliestSuccessor(k, ct) = c.succ
    BY <2>1, SuccessorInLog DEF Commitments
  <2> QED BY <2>1, <2>2, <2>3
<1>4. \A g \in G, k \in Key : Descends(g, k) => k \in S
  BY <1>3 DEF Descends, Authority!Descends
<1> HIDE DEF S
<1>5. {k \in Key : \E g \in G : Descends(g, k)} \in SUBSET S
  BY <1>4
<1> QED BY <1>2, <1>5, FS_Subset

\* and so has one.
LEMMA DescendantsAreFinite ==
    ASSUME LogSound, NEW g \in Key
    PROVE  IsFiniteSet({k \in Key : Descends(g, k)})
<1>1. IsFiniteSet({g})
  BY FS_Singleton
<1>2. {k \in Key : Descends(g, k)} = {k \in Key : \E x \in {g} : Descends(x, k)}
  OBVIOUS
<1> QED BY <1>1, <1>2, AllDescendantsAreFinite

\* _walk_chain over CT reaches every descendant of a key that has no more of them
\* than the walk's bound allows.
LEMMA WalkReachesDescendants ==
    ASSUME LogSound, NEW g \in Key, NEW d \in Key, Descends(g, d),
           Cardinality({k \in Key : Descends(g, k)}) <= MaxGenerations + 1
    PROVE  WalkChain(g, d, ct) # <<>>
<1> DEFINE chain == Hops(g, d, ct)[MaxGenerations]
           Descendants == {k \in Key : Descends(g, k)}
           Keys == {chain[i] : i \in 1..Len(chain)}
<1>1. MaxGenerations \in 0..MaxGenerations /\ MaxGenerations \in Nat
  BY GenerationsAssumption
<1>2. IsWalk(chain, MaxGenerations, g, d, ct)
  BY <1>1, CtIsFaithful, FaithfulNamesKeys, WalkIsWalk
<1>3. WalkChain(g, d, ct) = IF d = LastOf(chain) THEN chain ELSE <<>>
  BY KeyAssumption DEF WalkChain
<1> HIDE DEF chain
<1>4. /\ chain \in Seq(Key) /\ Len(chain) \in Nat /\ Len(chain) > 0
      /\ \A i \in 1..Len(chain) : chain[i] \in Key
      /\ chain[1] = g
  BY <1>2 DEF IsWalk, IsPath
<1>5. Keys \subseteq Descendants
  BY <1>2, <1>4, CtIsFaithful, PathDescends DEF IsWalk
<1>6. d \in Keys
  <2>1. CASE Len(chain) = MaxGenerations + 1
    <3>1. chain \in Injection(1..Len(chain), Descendants)
      <4>1. \A i, j \in 1..Len(chain) : chain[i] = chain[j] => i = j
        BY <1>2 DEF IsWalk, IsPath
      <4>2. chain \in [1..Len(chain) -> Descendants]
        BY <1>4, <1>5
      <4> QED BY <4>1, <4>2 DEF Injection, IsInjective
    <3>2. IsFiniteSet(Descendants) /\ IsFiniteSet(1..Len(chain)) /\ Cardinality(1..Len(chain)) = Len(chain)
      <4>1. IsFiniteSet(Descendants)
        BY DescendantsAreFinite
      <4>2. 1 \in Int /\ Len(chain) \in Int /\ ~(1 > Len(chain))
        BY <1>4
      <4>3. IsFiniteSet(1..Len(chain)) /\ Cardinality(1..Len(chain)) = Len(chain) - 1 + 1
        BY <4>2, FS_Interval
      <4> QED BY <4>1, <4>2, <4>3
    <3>3. Cardinality(Descendants) \in Nat
      BY <3>2, FS_CardinalityType
    <3> HIDE DEF Descendants
    <3>4. /\ Cardinality(1..Len(chain)) <= Cardinality(Descendants)
          /\ Cardinality(1..Len(chain)) = Cardinality(Descendants)
                <=> chain \in Surjection(1..Len(chain), Descendants)
      BY <3>1, <3>2, FS_Injection
    <3>5. chain \in Surjection(1..Len(chain), Descendants)
      BY <1>1, <1>4, <2>1, <3>2, <3>3, <3>4 DEF Descendants
    <3> QED BY <3>5 DEF Surjection, Descendants
  <2>2. CASE Hop(chain, d, ct) = chain /\ LastOf(chain) # d
    <3>1. EarliestSuccessor(LastOf(chain), ct) \in {NoKey} \cup Keys
      <4>1. CASE EarliestSuccessor(LastOf(chain), ct) \in {NoKey} \cup Range(chain)
        BY <1>4, <4>1, RangeOfPath
      <4>2. CASE EarliestSuccessor(LastOf(chain), ct) \notin {NoKey} \cup Range(chain)
        <5>1. Append(chain, EarliestSuccessor(LastOf(chain), ct)) = chain
          BY <2>2, <4>2 DEF Hop
        <5> QED BY <1>4, <5>1
      <4> QED BY <4>1, <4>2
    <3>2. Authority!Closed(Keys, SuccessorMap(ct))
      <4> SUFFICES ASSUME NEW i \in 1..Len(chain), SuccessorMap(ct)[chain[i]] # NoKey
                   PROVE  SuccessorMap(ct)[chain[i]] \in Keys
        BY DEF Authority!Closed
      <4>1. SuccessorMap(ct)[chain[i]] = EarliestSuccessor(chain[i], ct)
        BY <1>4 DEF SuccessorMap
      <4>2. CASE i = Len(chain)
        BY <3>1, <4>1, <4>2 DEF LastOf
      <4>3. CASE i # Len(chain)
        <5>1. i \in 1..(Len(chain) - 1) /\ i + 1 \in 1..Len(chain)
          BY <1>4, <4>3
        <5>2. chain[i + 1] = EarliestSuccessor(chain[i], ct)
          BY <1>2, <5>1 DEF IsWalk, IsPath
        <5> QED BY <4>1, <5>1, <5>2
      <4> QED BY <4>2, <4>3
    <3>3. Keys \in SUBSET Key /\ g \in Keys
      BY <1>4
    <3> QED BY <3>2, <3>3 DEF Descends, Authority!Descends
  <2>3. CASE LastOf(chain) = d
    BY <1>4, <2>3 DEF LastOf
  <2> QED BY <1>2, <2>1, <2>2, <2>3 DEF IsWalk
<1>7. PICK i \in 1..Len(chain) : chain[i] = d
  BY <1>6
<1>8. i = Len(chain)
  BY <1>2, <1>4, <1>7 DEF IsWalk
<1> QED BY <1>3, <1>4, <1>7, <1>8 DEF LastOf

-----------------------------------------------------------------------------
(* What CT held at one moment or another.                                  *)

\* What the log held earlier is faithful evidence, and does not change; what it
\* holds now is all of it.
LEMMA PastIsFaithful ==
    ASSUME LogSound, NEW n \in Nat
    PROVE  Faithful(CtAsOf(n))
<1> SUFFICES ASSUME NEW k \in Key, Commitments(k, CtAsOf(n)) # {}
             PROVE  \E c \in CtAsOf(n) : IsFirst(c, k, ct)
  BY DEF Faithful, CtAsOf
<1>1. PICK x \in Commitments(k, ct) : x.at <= n
  BY DEF Commitments, CtAsOf
<1>2. PICK c \in ct : IsFirst(c, k, ct)
  BY <1>1 DEF LogSound
<1>3. c.at <= x.at /\ x \in ct
  BY <1>1, <1>2 DEF IsFirst, Commitments
<1>4. c.at \in Nat /\ x.at \in Nat
  BY <1>3 DEF LogSound, LogTypeOK, Cert
<1> QED BY <1>1, <1>2, <1>3, <1>4 DEF CtAsOf

\* The log as of its present length is the log.
LEMMA PresentIsAll == ASSUME LogSound PROVE CtAsOf(logged) = ct
BY DEF LogSound, CtAsOf

\* What is logged does not change what the log held.
LEMMA PastStays ==
    ASSUME LogSound, NEW c \in Cert, Log(c), NEW n \in Nat, n <= logged
    PROVE  CtAsOf(n)' = CtAsOf(n)
<1>1. ct' = ct \cup {Stamped(c)} /\ Stamped(c).at = logged + 1 /\ logged \in Nat
  BY StampedType DEF Log, Stamped, LogSound, LogTypeOK
<1> QED BY <1>1 DEF CtAsOf

\* Faithful evidence that holds a commitment of a key names its successor in CT.
LEMMA FaithfulKnows ==
    ASSUME LogSound, NEW A, Faithful(A), NEW k \in Key, Commitments(k, A) # {}
    PROVE  /\ EarliestSuccessor(k, A) = EarliestSuccessor(k, ct)
           /\ EarliestSuccessor(k, ct) \in Key
<1>1. PICK c \in A : IsFirst(c, k, ct)
  BY DEF Faithful
<1>2. A \in SUBSET Cert /\ Ordered(A) /\ ct \in SUBSET Cert /\ Ordered(ct)
  BY DEF Faithful, LogSound, LogTypeOK, Ordered
<1>3. IsFirst(c, k, A)
  BY <1>1 DEF IsFirst, Commitments, Faithful
<1>4. EarliestSuccessor(k, A) = c.succ /\ EarliestSuccessor(k, ct) = c.succ /\ c.succ # NoKey
  BY <1>1, <1>2, <1>3, FirstWins DEF IsFirst, Commitments
<1> QED BY <1>4, SuccessorInLog

\* The commitments of a key are all that its successor depends on.
LEMMA SameCommitments ==
    ASSUME NEW A, NEW B, NEW k, Commitments(k, A) = Commitments(k, B)
    PROVE  EarliestSuccessor(k, A) = EarliestSuccessor(k, B)
BY DEF EarliestSuccessor

\* Evidence with the same certificates of a key gives it the same successor.
LEMMA SameSuccessor ==
    ASSUME NEW A, NEW B, NEW k, {c \in A : c.key = k} = {c \in B : c.key = k}
    PROVE  /\ EarliestSuccessor(k, A) = EarliestSuccessor(k, B)
           /\ Activated(k, A) <=> Activated(k, B)
           /\ Commitments(k, A) = Commitments(k, B)
<1>1. Commitments(k, A) = Commitments(k, B)
  BY DEF Commitments
<1>2. Activated(k, A) <=> Activated(k, B)
  BY DEF Activated
<1> QED BY <1>1, <1>2, SameCommitments

\* The successor of a descendant is a descendant.
LEMMA DescentGoesOn ==
    ASSUME NEW g \in Key, NEW k \in Key, Descends(g, k), EarliestSuccessor(k, ct) # NoKey
    PROVE  Descends(g, EarliestSuccessor(k, ct))
<1>1. SuccessorMap(ct)[k] = EarliestSuccessor(k, ct)
  BY DEF SuccessorMap
<1> QED BY <1>1 DEF Descends, Authority!Descends, Authority!Closed

\* A path stays in a set that its successors do not leave.
LEMMA PathStays ==
    ASSUME NEW certs, NEW chain, IsPath(chain, certs), NEW S, chain[1] \in S,
           \A k \in Key \cap S : EarliestSuccessor(k, certs) \in {NoKey} \cup S
    PROVE  \A i \in 1..Len(chain) : chain[i] \in S
<1>1. /\ chain \in Seq(Key) /\ Len(chain) \in Nat /\ Len(chain) > 0
      /\ \A i \in 1..Len(chain) : chain[i] \in Key
  BY DEF IsPath
<1> DEFINE T == {n \in Nat : chain[n + 1] \in S}
<1>2. 0 \in T
  OBVIOUS
<1>3. ASSUME NEW n \in 0..(Len(chain) - 1), n < Len(chain) - 1, n \in T
      PROVE  n + 1 \in T
  <2>1. n + 1 \in 1..(Len(chain) - 1) /\ n + 2 \in 1..Len(chain) /\ n + 1 \in 1..Len(chain)
    BY <1>1, <1>3
  <2>2. chain[(n + 1) + 1] = EarliestSuccessor(chain[n + 1], certs)
    BY <2>1 DEF IsPath
  <2>3. chain[n + 1] \in Key \cap S /\ chain[(n + 1) + 1] # NoKey
    BY <1>1, <1>3, <2>1, KeyAssumption
  <2> QED BY <2>2, <2>3
<1>4. Len(chain) - 1 \in Nat
  BY <1>1
<1> HIDE DEF T
<1>5. \A n \in 0..(Len(chain) - 1) : n \in T
  BY <1>2, <1>3, <1>4, UpTo
<1> SUFFICES ASSUME NEW i \in 1..Len(chain) PROVE chain[i] \in S
  OBVIOUS
<1>6. i - 1 \in T /\ i - 1 \in Nat
  BY <1>1, <1>5
<1> QED BY <1>6 DEF T

\* Evidence by which the end of a path descends from its beginning holds the path.
LEMMA PathIsKnown ==
    ASSUME LogSound, NEW certs, Faithful(certs), NEW A, Faithful(A),
           NEW chain, IsPath(chain, certs),
           Authority!Descends(chain[1], LastOf(chain), SuccessorMap(A))
    PROVE  IsPath(chain, A)
<1>1. /\ chain \in Seq(Key) /\ Len(chain) \in Nat /\ Len(chain) > 0
      /\ \A i \in 1..Len(chain) : chain[i] \in Key
  BY DEF IsPath
<1> SUFFICES ASSUME NEW i \in 1..(Len(chain) - 1),
                    chain[i + 1] # EarliestSuccessor(chain[i], A)
             PROVE  FALSE
  BY DEF IsPath
<1> DEFINE S == {chain[j] : j \in 1..i}
<1>2. \A j \in 1..(Len(chain) - 1) :
          /\ j \in 1..Len(chain) /\ j + 1 \in 1..Len(chain)
          /\ EarliestSuccessor(chain[j], A) \in {NoKey, chain[j + 1]}
  <2> SUFFICES ASSUME NEW j \in 1..(Len(chain) - 1)
               PROVE  /\ j \in 1..Len(chain) /\ j + 1 \in 1..Len(chain)
                      /\ EarliestSuccessor(chain[j], A) \in {NoKey, chain[j + 1]}
    OBVIOUS
  <2>1. j \in 1..Len(chain) /\ j + 1 \in 1..Len(chain)
    BY <1>1
  <2>2. chain[j] \in Key /\ chain[j + 1] # NoKey
    BY <1>1, <2>1, KeyAssumption
  <2>3. chain[j + 1] = EarliestSuccessor(chain[j], certs)
    BY DEF IsPath
  <2>4. /\ EarliestSuccessor(chain[j], certs) \in {NoKey, EarliestSuccessor(chain[j], ct)}
        /\ EarliestSuccessor(chain[j], A) \in {NoKey, EarliestSuccessor(chain[j], ct)}
    BY <2>2, FaithfulAgrees
  <2> QED BY <2>1, <2>2, <2>3, <2>4
<1>3. EarliestSuccessor(chain[i], A) = NoKey
  BY <1>2
<1>4. Authority!Closed(S, SuccessorMap(A))
  <2> SUFFICES ASSUME NEW j \in 1..i, SuccessorMap(A)[chain[j]] # NoKey
               PROVE  SuccessorMap(A)[chain[j]] \in S
    BY DEF Authority!Closed
  <2>1. j \in 1..(Len(chain) - 1)
    BY <1>1
  <2>2. SuccessorMap(A)[chain[j]] = EarliestSuccessor(chain[j], A)
    BY <1>1, <1>2, <2>1 DEF SuccessorMap
  <2>3. j # i
    BY <1>3, <2>2
  <2>4. j + 1 \in 1..i
    BY <1>1, <2>3
  <2> QED BY <1>2, <2>1, <2>2, <2>4
<1>5. S \in SUBSET Key /\ chain[1] \in S
  BY <1>1
<1>6. LastOf(chain) \in S
  BY <1>4, <1>5 DEF Authority!Descends
<1>7. PICK j \in 1..i : chain[j] = chain[Len(chain)]
  BY <1>6 DEF LastOf
<1>8. j = Len(chain)
  BY <1>1, <1>7 DEF IsPath
<1> QED BY <1>1, <1>8

\* Two bodies of evidence with the same path to the same tip, which has acted in
\* both or in neither, agree on the key in control.
LEMMA SameKeyInControl ==
    ASSUME NEW A, NEW B, NEW g, NEW chain, IsPath(chain, A), IsPath(chain, B),
           WalkChain(g, NoKey, A) = chain, WalkChain(g, NoKey, B) = chain,
           Activated(LastOf(chain), A) <=> Activated(LastOf(chain), B)
    PROVE  CurrentKey(g, A) = CurrentKey(g, B)
<1>1. /\ chain \in Seq(Key) /\ Len(chain) \in Nat /\ Len(chain) > 0
      /\ \A i \in 1..Len(chain) : chain[i] \in Key
      /\ DOMAIN chain = 1..Len(chain)
  BY DEF IsPath
<1>2. ASSUME NEW certs, IsPath(chain, certs), NEW i \in 1..(Len(chain) - 1)
      PROVE  Activated(chain[i], certs)
  <2>1. i + 1 \in 1..Len(chain)
    BY <1>1
  <2>2. EarliestSuccessor(chain[i], certs) # NoKey
    BY <1>1, <1>2, <2>1, KeyAssumption DEF IsPath
  <2> QED BY <2>2 DEF EarliestSuccessor, Commitments, Activated
<1>3. \A i \in DOMAIN chain : Activated(chain[i], A) <=> Activated(chain[i], B)
  <2> SUFFICES ASSUME NEW i \in 1..Len(chain)
               PROVE  Activated(chain[i], A) <=> Activated(chain[i], B)
    BY <1>1
  <2>1. CASE i = Len(chain)
    BY <2>1 DEF LastOf
  <2>2. CASE i # Len(chain)
    <3>1. Len(chain) \in Nat
      BY <1>1
    <3>2. i \in 1..(Len(chain) - 1)
      BY <2>2, <3>1
    <3> QED BY <1>2, <3>2
  <2> QED BY <2>1, <2>2
<1>4. {n \in DOMAIN chain : Activated(chain[n], A)} = {n \in DOMAIN chain : Activated(chain[n], B)}
  BY <1>3
<1> QED BY <1>4 DEF CurrentKey

\* So do finitely many keys hold an address on a day.
LEMMA GenesisIsFinite ==
    ASSUME LogSound, NEW A, A \subseteq ct, NEW a, NEW d
    PROVE  IsFiniteSet(GenesisKeys(a, d, A))
<1> DEFINE key == [c \in ct |-> c.key]
           Holders == {c.key : c \in ct}
<1>1. key \in Surjection(ct, Holders)
  BY DEF Surjection
<1>2. IsFiniteSet(Holders)
  BY <1>1, CtIsFinite, FS_Surjection
<1>3. GenesisKeys(a, d, A) \in SUBSET Holders
  BY DEF GenesisKeys
<1> HIDE DEF Holders
<1> QED BY <1>2, <1>3, FS_Subset

\* verify names a current key when one key held the address, and no other did.
LEMMA CurrentHasOneGenesis ==
    ASSUME LogSound, NEW A, A \subseteq ct, NEW doc, NEW a, NEW d,
           Verify(doc, a, d, A).reason = "current"
    PROVE  \E g : /\ GenesisKeys(a, d, A) = {g}
                  /\ Verify(doc, a, d, A).key = CurrentKey(g, A)
<1> DEFINE Genesis == GenesisKeys(a, d, A)
           g == CHOOSE x \in Genesis : TRUE
<1>0. \A reason, k : Reject(reason).reason = reason /\ Accept(reason, k).reason = reason
  BY DEF Reject, Accept
<1>1. doc = NoKey
  <2> SUFFICES ASSUME doc # NoKey PROVE FALSE
    OBVIOUS
  <2>1. \/ \E reason \in {"no genesis", "unendorsed", "cold"} :
              Verify(doc, a, d, A) = Reject(reason)
        \/ \E reason \in {"genesis", "rotated"} :
              Verify(doc, a, d, A) = Accept(reason, doc)
    BY DEF Verify, VerifyDocument
  <2> QED BY <1>0, <2>1
<1>2. ~\E reason \in {"no genesis", "ambiguous"} : Verify(doc, a, d, A) = Reject(reason)
  BY <1>0
<1>3. /\ Genesis # {} /\ ~(Cardinality(Genesis) > 1)
      /\ Verify(doc, a, d, A) = Accept("current", CurrentKey(g, A))
  BY <1>1, <1>2 DEF Verify, VerifyAddress
<1>4. IsFiniteSet(Genesis)
  BY GenesisIsFinite
<1>5. g \in Genesis
  BY <1>3
<1> HIDE DEF Genesis, g
<1>6. Genesis = {g}
  <2>1. Cardinality(Genesis) \in Nat /\ Cardinality(Genesis) # 0
    BY <1>3, <1>4, FS_CardinalityType, FS_EmptySet
  <2>2. Cardinality(Genesis) = 1
    BY <1>3, <2>1
  <2>3. PICK m : Genesis = {m}
    BY <1>4, <2>2, FS_Singleton
  <2> QED BY <1>5, <2>3
<1> QED BY <1>3, <1>6 DEF Accept, Genesis

-----------------------------------------------------------------------------
(* What a walk collects.                                                   *)

\* A walk that visits only descendants of the genesis keys ends because no key is
\* left to visit, and not at its bound, when the bound sees all of them.
LEMMA BoundSuffices ==
    ASSUME LogSound, NEW a, NEW d, NEW visited, NEW frontier,
           Cardinality({k \in Key : \E g \in GenesisKeys(a, d, ct) : Descends(g, k)})
               <= MaxGenerations,
           \A k \in visited \cup frontier :
               k \in Key /\ \E g \in GenesisKeys(a, d, ct) : Descends(g, k),
           frontier \cap visited = {},
           frontier = {} \/ Cardinality(visited) >= MaxGenerations
    PROVE  /\ frontier = {}
           /\ IsFiniteSet(visited)
           /\ Cardinality(visited) <= MaxGenerations
<1> DEFINE Genesis == GenesisKeys(a, d, ct)
           Found == {k \in Key : \E g \in Genesis : Descends(g, k)}
<1>1. Genesis \in SUBSET Key
  BY GenesisGrows DEF LogSound, LogTypeOK
<1>2. IsFiniteSet(Genesis)
  BY GenesisIsFinite
<1>3. IsFiniteSet(Found)
  BY <1>1, <1>2, AllDescendantsAreFinite
<1>4. visited \cup frontier \in SUBSET Found
  OBVIOUS
<1>5. Cardinality(Found) <= MaxGenerations /\ MaxGenerations \in Nat
  BY GenerationsAssumption
<1> HIDE DEF Found
<1>6. /\ visited \in SUBSET Found
      /\ \A k \in frontier : visited \cup {k} \in SUBSET Found /\ k \notin visited
  BY <1>4
<1>7. /\ IsFiniteSet(visited) /\ Cardinality(visited) <= Cardinality(Found)
      /\ Cardinality(visited) \in Nat /\ Cardinality(Found) \in Nat
  BY <1>3, <1>6, FS_Subset, FS_CardinalityType
<1>8. ASSUME NEW k \in frontier PROVE FALSE
  <2>1. Cardinality(visited \cup {k}) = Cardinality(visited) + 1
    BY <1>6, <1>7, FS_AddElement
  <2>2. Cardinality(visited \cup {k}) <= Cardinality(Found)
    BY <1>3, <1>6, FS_Subset
  <2> QED BY <1>5, <1>7, <1>8, <2>1, <2>2
<1> QED BY <1>5, <1>7, <1>8

\* A document that evidence A verifies, evidence B verifies when it has A's genesis
\* and A's certificates of the keys visited, and the keys visited are those that the
\* genesis keys of B reach.
LEMMA CollectedVerifies ==
    ASSUME LogSound, NEW A, NEW B, Faithful(A), Faithful(B), NEW a, NEW d,
           NEW visited \in SUBSET Key,
           GenesisKeys(a, d, A) \subseteq GenesisKeys(a, d, B),
           GenesisKeys(a, d, B) \subseteq visited,
           \A k \in visited : {c \in A : c.key = k} \subseteq B,
           \A k \in visited : EarliestSuccessor(k, B) \in {NoKey} \cup visited,
           NEW doc \in Key, Verify(doc, a, d, A).verified
    PROVE  Verify(doc, a, d, B).verified
<1>1. ASSUME NEW k \in visited, EarliestSuccessor(k, A) # NoKey
      PROVE  EarliestSuccessor(k, B) = EarliestSuccessor(k, A)
  <2>1. Commitments(k, A) # {}
    BY <1>1, NoneCommitted
  <2>2. Commitments(k, B) # {}
    BY <2>1 DEF Commitments
  <2> QED BY <2>1, <2>2, FaithfulKnows
<1>2. \A k \in Key \cap visited : EarliestSuccessor(k, A) \in {NoKey} \cup visited
  BY <1>1
<1>3. doc # NoKey
  BY KeyAssumption
<1>4. GenesisKeys(a, d, A) # {}
  BY <1>3 DEF Verify, VerifyDocument, Reject
<1>5. CASE doc \in GenesisKeys(a, d, A)
  <2>1. Verify(doc, a, d, B) = Accept("genesis", doc)
    BY <1>3, <1>5 DEF Verify, VerifyDocument
  <2> QED BY <2>1 DEF Accept
<1>6. CASE doc \notin GenesisKeys(a, d, A)
  <2>1. /\ \E g \in GenesisKeys(a, d, A) : WalkChain(g, doc, A) # <<>>
        /\ Activated(doc, A)
    BY <1>3, <1>4, <1>6 DEF Verify, VerifyDocument, Reject
  <2>2. PICK g \in GenesisKeys(a, d, A) : WalkChain(g, doc, A) # <<>>
    BY <2>1
  <2>3. g \in visited /\ g \in Key /\ g \in GenesisKeys(a, d, B)
    OBVIOUS
  <2> DEFINE chain == Hops(g, doc, A)[MaxGenerations]
  <2>4. MaxGenerations \in 0..MaxGenerations
    BY GenerationsAssumption
  <2>5. IsWalk(chain, MaxGenerations, g, doc, A)
    BY <2>3, <2>4, FaithfulNamesKeys, WalkIsWalk
  <2>6. LastOf(chain) = doc
    BY <1>3, <2>2 DEF WalkChain
  <2> HIDE DEF chain
  <2>7. /\ IsPath(chain, A) /\ chain[1] = g
        /\ chain \in Seq(Key) /\ Len(chain) \in Nat /\ Len(chain) > 0
    BY <2>5 DEF IsWalk, IsPath
  <2>8. \A i \in 1..Len(chain) : chain[i] \in visited
    BY <1>2, <2>3, <2>7, PathStays
  <2>9. IsPath(chain, B)
    <3>1. ASSUME NEW i \in 1..(Len(chain) - 1)
          PROVE  chain[i + 1] = EarliestSuccessor(chain[i], B)
      <4>1. i \in 1..Len(chain) /\ i + 1 \in 1..Len(chain)
        BY <2>7
      <4>2. chain[i + 1] = EarliestSuccessor(chain[i], A) /\ chain[i + 1] # NoKey
        BY <2>7, <4>1, KeyAssumption DEF IsPath
      <4> QED BY <1>1, <2>8, <4>1, <4>2
    <3> QED BY <2>7, <3>1 DEF IsPath
  <2>10. IsWalk(chain, MaxGenerations, g, doc, B)
    BY <2>5, <2>6, <2>9 DEF IsWalk, Hop
  <2>11. WalkChain(g, doc, B) # <<>>
    <3>1. Hops(g, doc, B)[MaxGenerations] = chain
      BY <2>3, <2>10, PathIsWalked
    <3> QED BY <2>6, <2>7, <3>1 DEF WalkChain
  <2>12. Activated(doc, B)
    <3>1. doc \in visited
      BY <2>6, <2>7, <2>8 DEF LastOf
    <3> QED BY <2>1, <3>1 DEF Activated
  <2>13. \E reason \in {"genesis", "rotated"} : Verify(doc, a, d, B) = Accept(reason, doc)
    BY <1>3, <2>3, <2>11, <2>12 DEF Verify, VerifyDocument
  <2> QED BY <2>13 DEF Accept
<1> QED BY <1>5, <1>6

=============================================================================
